-------------------------- MODULE EnrichmentProofs --------------------------
(***************************************************************************)
(* AttemptInv holds in every reachable state, for every number of runners, *)
(* commits and attempts.  One lemma per action; the page's steps of        *)
(* SyncProgress are treated there.                                         *)
(***************************************************************************)
EXTENDS Enrichment, FiniteSetTheorems, TLAPS

\* A message may follow the newest one on the wire.
Follows(e) ==
  wire # <<>> =>
    /\ wire[Len(wire)].kind # "progress" => e.kind # "completed" /\ e.total = 0
    /\ e.kind = "completed" /\ e.total > 0 =>
         wire[Len(wire)] = Progress(e.total, e.total)

\* Sending a message that may follow keeps the order on the wire.
LEMMA SendKeepsOrder ==
  ASSUME NEW e \in Event, wire \in Seq(Event), Send(e), Follows(e),
         NothingAfterTheEnd, CompletedWhenFull
  PROVE  /\ wire' \in Seq(Event) /\ wire' # <<>>
         /\ wire'[Len(wire')] = e
         /\ NothingAfterTheEnd' /\ CompletedWhenFull'
<1>1. /\ wire' = Append(wire, e) /\ wire' \in Seq(Event)
      /\ Len(wire') = Len(wire) + 1 /\ Len(wire) \in Nat
      /\ wire'[Len(wire) + 1] = e
      /\ \A k \in 1 .. Len(wire) : wire'[k] = wire[k]
  BY DEF Send
<1>2. ASSUME NEW k \in 1 .. Len(wire') - 1
      PROVE  /\ wire'[k].kind # "progress" =>
                  wire'[k + 1].kind # "completed" /\ wire'[k + 1].total = 0
             /\ wire'[k + 1].kind = "completed" /\ wire'[k + 1].total > 0 =>
                  wire'[k] = Progress(wire'[k + 1].total, wire'[k + 1].total)
  <2>1. CASE k = Len(wire)
    <3>1. wire # <<>>
      BY <1>1, <2>1
    <3>2. wire'[k] = wire[Len(wire)] /\ wire'[k + 1] = e
      BY <1>1, <2>1
    <3> QED BY <3>1, <3>2 DEF Follows
  <2>2. CASE k # Len(wire)
    <3>1. k \in 1 .. Len(wire) - 1
      BY <1>1, <2>2
    <3>2. wire'[k] = wire[k] /\ wire'[k + 1] = wire[k + 1]
      BY <1>1, <3>1
    <3> QED BY <3>1, <3>2 DEF NothingAfterTheEnd, CompletedWhenFull
  <2> QED BY <2>1, <2>2
<1>3. NothingAfterTheEnd'
  BY <1>2 DEF NothingAfterTheEnd
<1>4. CompletedWhenFull'
  BY <1>2 DEF CompletedWhenFull, Progress
<1>5. wire' # <<>> /\ wire'[Len(wire')] = e
  BY <1>1
<1> QED BY <1>1, <1>3, <1>4, <1>5

\* Losing the oldest messages keeps the order and the newest message.
LEMMA LossKeepsOrder ==
  ASSUME wire \in Seq(Event), NEW k \in 0 .. Len(wire),
         wire' = SubSeq(wire, k + 1, Len(wire)),
         NothingAfterTheEnd, CompletedWhenFull
  PROVE  /\ wire' \in Seq(Event)
         /\ wire' # <<>> => wire # <<>> /\ wire'[Len(wire')] = wire[Len(wire)]
         /\ NothingAfterTheEnd' /\ CompletedWhenFull'
<1>1. /\ wire' \in Seq(Event) /\ Len(wire') = Len(wire) - k /\ Len(wire) \in Nat
      /\ \A n \in 1 .. Len(wire') : wire'[n] = wire[n + k]
  OBVIOUS
<1>2. wire' # <<>> => wire # <<>> /\ wire'[Len(wire')] = wire[Len(wire)]
  <2>1. ASSUME wire' # <<>>
        PROVE  Len(wire') \in 1 .. Len(wire') /\ Len(wire') + k = Len(wire)
    BY <1>1, <2>1
  <2>2. wire' # <<>> => Len(wire) # 0
    BY <1>1, <2>1
  <2>3. wire' # <<>> => wire'[Len(wire')] = wire[Len(wire') + k]
    BY <1>1, <2>1
  <2>4. Len(wire) # 0 => wire # <<>>
    OBVIOUS
  <2> QED BY <2>1, <2>2, <2>3, <2>4
<1>3. ASSUME NEW n \in 1 .. Len(wire') - 1
      PROVE  /\ n + k \in 1 .. Len(wire) - 1
             /\ wire'[n] = wire[n + k] /\ wire'[n + 1] = wire[(n + k) + 1]
  BY <1>1
<1>4. NothingAfterTheEnd'
  BY <1>3 DEF NothingAfterTheEnd
<1>5. CompletedWhenFull'
  BY <1>3 DEF CompletedWhenFull, Progress
<1> QED BY <1>1, <1>2, <1>4, <1>5

(***************************************************************************)
(* Steps that leave the runners alone or start them afresh                 *)
(***************************************************************************)

\* Everything said of the pool that does not depend on the phase.
Pooled ==
  /\ runner \in [Runner -> RunnerType]
  /\ cursor \in 0 .. total /\ count \in 0 .. total /\ lastEmit \in 0 .. count
  /\ failed \in BOOLEAN /\ entries \subseteq Index
  /\ Claims /\ Counted /\ Emissions /\ UpdatesSpaced

\* An unchanged pool keeps its invariants.
LEMMA PoolStays ==
  ASSUME Pooled, UNCHANGED <<total, pool>>
  PROVE  Pooled'
<1>1. UNCHANGED <<total, cursor, runner, count, lastEmit, failed, entries>>
  BY DEF pool
<1>2. UNCHANGED <<Claims, Counted, Emissions, UpdatesSpaced>>
  BY <1>1 DEF Claims, Busy, Counted, Fetching, Emissions, UpdatesSpaced
<1> QED BY <1>1, <1>2 DEF Pooled

\* A pool whose runners have done nothing satisfies them.
LEMMA NewPool ==
  ASSUME NEW pc \in {"next", "ended"}, runner' = Runners(pc), total' \in Index,
         cursor' = 0, count' = 0, lastEmit' = 0, failed' = FALSE, entries' = {}
  PROVE  Pooled' /\ \A i \in Runner : runner'[i].pc = pc
<1>1. 0 \in Index /\ Index \subseteq Nat /\ total' \in Nat
  BY SizesAssumption DEF Index
<1>2. /\ runner' \in [Runner -> RunnerType]
      /\ \A i \in Runner : runner'[i].pc = pc
  BY <1>1 DEF Runners, RunnerType
<1>3. Fetching' = {} /\ \A i \in Runner : ~Busy(i)' /\ runner'[i].pc # "update"
  BY <1>2 DEF Fetching, Busy
<1>4. Cardinality(Fetching') = 0
  BY <1>3, FS_EmptySet
<1>5. Claims' /\ Counted' /\ Emissions' /\ UpdatesSpaced'
  BY <1>1, <1>3, <1>4 DEF Claims, Counted, Emissions, UpdatesSpaced, Index
<1>6. /\ cursor' \in 0 .. total' /\ count' \in 0 .. total' /\ lastEmit' \in 0 .. count'
      /\ entries' \subseteq Index
  BY <1>1
<1>7. failed' \in BOOLEAN
  OBVIOUS
<1> QED BY <1>2, <1>5, <1>6, <1>7 DEF Pooled

\* AttemptInv in the parts the lemmas below work with.
LEMMA Parts ==
  AttemptInv <=>
    /\ phase \in Phases /\ tries \in 0 .. MaxAttempts - 1 /\ total \in Index
    /\ wire \in Seq(Event) /\ whole \in BOOLEAN
    /\ Pooled /\ FreshPool /\ Drained /\ WireInv
BY DEF AttemptInv, AttemptTypeOK, Pooled, PoolInv

\* The same for the next state.
LEMMA PartsNext ==
  AttemptInv' <=>
    /\ phase' \in Phases /\ tries' \in 0 .. MaxAttempts - 1 /\ total' \in Index
    /\ wire' \in Seq(Event) /\ whole' \in BOOLEAN
    /\ Pooled' /\ FreshPool' /\ Drained' /\ WireInv'
BY DEF AttemptInv, AttemptTypeOK, Pooled, PoolInv

\* The initial states satisfy it.
LEMMA InitiallyInv ==
  ASSUME InitAttempt, whole = TRUE
  PROVE  AttemptInv
<1>1. 0 \in Index /\ 0 \in 0 .. MaxAttempts - 1 /\ wire \in Seq(Event)
  BY SizesAssumption DEF Index, InitAttempt
<1>2. /\ runner \in [Runner -> RunnerType]
      /\ \A i \in Runner : runner[i].pc = "ended"
  BY <1>1 DEF InitAttempt, Runners, RunnerType
<1>3. Fetching = {} /\ \A i \in Runner : ~Busy(i) /\ runner[i].pc # "update"
  BY <1>2 DEF Fetching, Busy
<1>4. Cardinality(Fetching) = 0
  BY <1>3, FS_EmptySet
<1>5. Claims /\ Counted /\ Emissions /\ UpdatesSpaced
  BY <1>3, <1>4, SizesAssumption
     DEF InitAttempt, Claims, Counted, Emissions, UpdatesSpaced, Index
<1>6. Pooled
  <2>1. /\ cursor \in 0 .. total /\ count \in 0 .. total /\ lastEmit \in 0 .. count
        /\ entries \subseteq Index
    BY DEF InitAttempt
  <2>2. failed \in BOOLEAN
    BY DEF InitAttempt
  <2> QED BY <1>2, <1>5, <2>1, <2>2 DEF Pooled
<1>7. FreshPool /\ Drained
  BY <1>2 DEF InitAttempt, FreshPool, Drained
<1>8. Len(wire) = 0
  BY DEF InitAttempt
<1>9. WireInv
  BY <1>8 DEF InitAttempt, WireInv, Newest, NothingAfterTheEnd, CompletedWhenFull
<1> QED BY <1>1, <1>6, <1>7, <1>9, Parts DEF InitAttempt, Phases

\* StartAttempt keeps the invariant.
LEMMA StartKeeps ==
  ASSUME AttemptInv, StartAttempt
  PROVE  AttemptInv'
<1>1. /\ phase = "waiting" /\ phase' \in {"listing", "failed"}
      /\ UNCHANGED <<tries, total, pool, wire>> /\ whole' \in BOOLEAN
  BY Parts DEF StartAttempt, FailSilently
<1>2. Pooled'
  BY <1>1, Parts, PoolStays
<1>3. FreshPool' /\ Drained'
  BY <1>1, Parts DEF FreshPool, Drained, pool
<1>4. WireInv'
  BY <1>1, Parts
     DEF WireInv, Newest, NothingAfterTheEnd, CompletedWhenFull, Progress
<1> QED BY <1>1, <1>2, <1>3, <1>4, Parts, PartsNext DEF Phases

\* Steps of the attempt that only change the phase.
LEMMA FailsKeeps ==
  ASSUME AttemptInv, PhaseFails \/ PoolEnds
  PROVE  AttemptInv'
<1>1. /\ phase \in {"listing", "enriching", "writing"}
      /\ phase' \in {"failing", "writing"}
      /\ phase = "enriching" => \A i \in Runner : runner[i].pc = "ended"
      /\ phase' = "writing" => phase = "enriching" /\ ~failed
      /\ UNCHANGED <<tries, total, pool, wire, whole>>
  BY DEF PhaseFails, PoolEnds
<1>2. Pooled'
  BY <1>1, Parts, PoolStays
<1>3. UNCHANGED <<cursor, runner, count, lastEmit, failed, entries>>
  BY <1>1 DEF pool
<1>4. FreshPool'
  BY <1>1, <1>3, Parts DEF FreshPool
<1>5. Drained'
  <2>1. PICK i \in Runner : TRUE
    BY RunnerAssumption
  <2>2. phase' = "writing" => cursor = total /\ ~failed
    BY <1>1, <2>1, Parts DEF Drained
  <2> QED BY <1>1, <1>3, <2>2 DEF Drained
<1>6. Newest'
  BY <1>1, <1>3, Parts DEF WireInv, Newest, Progress
<1>7. WireInv'
  BY <1>1, <1>6, Parts
     DEF WireInv, NothingAfterTheEnd, CompletedWhenFull, Progress
<1> QED BY <1>1, <1>2, <1>4, <1>5, <1>7, Parts, PartsNext DEF Phases

\* MarkFailed keeps the invariant: the failure may follow any event.
LEMMA MarkFailedKeeps ==
  ASSUME AttemptInv, MarkFailed
  PROVE  AttemptInv'
<1>1. /\ phase = "failing" /\ phase' = "failed"
      /\ Send(Failed) \/ UNCHANGED wire
      /\ UNCHANGED <<tries, total, pool>> /\ whole' \in BOOLEAN
  BY Parts DEF MarkFailed, FailSilently
<1>2. Pooled'
  BY <1>1, Parts, PoolStays
<1>3. FreshPool' /\ Drained'
  BY <1>1, Parts DEF FreshPool, Drained, pool
<1>4. CASE UNCHANGED wire
  <2>1. WireInv'
    BY <1>1, <1>4, Parts
       DEF WireInv, Newest, NothingAfterTheEnd, CompletedWhenFull, Progress
  <2> QED BY <1>1, <1>2, <1>3, <1>4, <2>1, Parts, PartsNext DEF Phases
<1>5. CASE Send(Failed)
  <2>1. Failed \in Event /\ Follows(Failed)
    BY SizesAssumption DEF Failed, Event, Index, Follows
  <2>2. wire' \in Seq(Event) /\ NothingAfterTheEnd' /\ CompletedWhenFull'
    BY <1>5, <2>1, Parts, SendKeepsOrder DEF WireInv
  <2>3. Newest'
    BY <1>1 DEF Newest
  <2> QED BY <1>1, <1>2, <1>3, <2>2, <2>3, Parts, PartsNext DEF Phases, WireInv
<1> QED BY <1>1, <1>4, <1>5

\* Complete keeps the invariant: with all runners ended, the newest event is
\* the last announcement.
LEMMA CompleteKeeps ==
  ASSUME AttemptInv, Complete
  PROVE  AttemptInv'
<1>1. /\ phase = "writing" /\ phase' = "completed" /\ Send(Completed(total))
      /\ UNCHANGED <<tries, total, pool, whole>>
  BY DEF Complete
<1>2. Pooled'
  BY <1>1, Parts, PoolStays
<1>3. FreshPool' /\ Drained'
  BY <1>1, Parts DEF FreshPool, Drained, pool
<1>4. \A i \in Runner : runner[i].pc = "ended"
  BY <1>1, Parts DEF FreshPool
<1>5. count = total /\ ~failed
  <2>1. Cardinality(Fetching) = 0
    BY <1>4, FS_EmptySet DEF Fetching
  <2>2. cursor = total /\ ~failed
    BY <1>1, Parts DEF Drained
  <2>3. count + Cardinality(Fetching) = cursor /\ count \in Nat
    BY <2>2, Parts DEF Pooled, Counted
  <2> QED BY <2>1, <2>2, <2>3
<1>6. Follows(Completed(total))
  BY <1>1, <1>4, <1>5, Parts DEF Follows, WireInv, Newest, Completed, Progress
<1>7. Completed(total) \in Event
  BY Parts DEF Completed, Event
<1>8. wire' \in Seq(Event) /\ NothingAfterTheEnd' /\ CompletedWhenFull'
  BY <1>1, <1>6, <1>7, Parts, SendKeepsOrder DEF WireInv
<1>9. Newest'
  BY <1>1 DEF Newest
<1> QED BY <1>1, <1>2, <1>3, <1>8, <1>9, Parts, PartsNext DEF Phases, WireInv

\* Settle keeps the invariant.
LEMMA SettleKeeps ==
  ASSUME AttemptInv, Settle
  PROVE  AttemptInv'
<1>1. /\ phase \in {"completed", "failed"} /\ phase' \in {"none", "waiting"}
      /\ tries' \in 0 .. MaxAttempts - 1
      /\ UNCHANGED <<wire, whole>>
  BY Parts, SizesAssumption DEF Settle
<1>2. /\ total' = 0 /\ runner' = Runners("ended")
      /\ cursor' = 0 /\ count' = 0 /\ lastEmit' = 0 /\ entries' = {}
  BY DEF Settle
<1>3. failed' = FALSE
  BY DEF Settle
<1>4. total' \in Index
  BY <1>2, SizesAssumption DEF Index
<1>5. Pooled' /\ \A i \in Runner : runner'[i].pc = "ended"
  BY <1>2, <1>3, <1>4, NewPool
<1>6. FreshPool' /\ Drained'
  BY <1>1, <1>2, <1>3, <1>5 DEF FreshPool, Drained
<1>7. WireInv'
  BY <1>1, Parts
     DEF WireInv, Newest, NothingAfterTheEnd, CompletedWhenFull, Progress
<1> QED BY <1>1, <1>4, <1>5, <1>6, <1>7, Parts, PartsNext DEF Phases

\* ListPage keeps the invariant: a page may follow any event.
LEMMA ListPageKeeps ==
  ASSUME AttemptInv, NEW n \in 0 .. PageSize, ListPage(n)
  PROVE  AttemptInv'
<1>1. /\ phase = "listing" /\ phase' \in {"listing", "enriching"}
      /\ total' = total + n /\ total + n <= MaxCommits
      /\ Send(Progress(total', 0)) /\ UNCHANGED <<tries, whole>>
      /\ (UNCHANGED pool /\ phase' = "listing") \/ OpenPool
  BY DEF ListPage, OpenPool
<1>2. total' \in Index /\ total' \in Nat /\ 0 \in Index
  BY <1>1, Parts, SizesAssumption DEF Index
<1>3. /\ cursor = 0 /\ count = 0 /\ lastEmit = 0 /\ ~failed /\ entries = {}
      /\ \A i \in Runner : runner[i].pc = "ended"
  BY <1>1, Parts DEF FreshPool
<1>4. failed = FALSE
  BY <1>3, Parts DEF Pooled
<1>5. UNCHANGED <<cursor, count, lastEmit, failed, entries>>
  BY <1>1 DEF OpenPool, pool
<1>6. /\ Pooled'
      /\ phase' # "enriching" => \A i \in Runner : runner'[i].pc = "ended"
      /\ phase' = "enriching" => \A i \in Runner : runner'[i].pc = "next"
  <2>1. CASE OpenPool
    <3>1. phase' = "enriching" /\ runner' = Runners("next")
      BY <2>1 DEF OpenPool
    <3> QED BY <1>2, <1>3, <1>4, <1>5, <3>1, NewPool
  <2>2. CASE UNCHANGED pool /\ phase' = "listing"
    <3>1. runner' = runner
      BY <2>2 DEF pool
    <3>2. \A i \in Runner : ~Busy(i)' /\ runner'[i].pc # "update"
      BY <1>3, <3>1 DEF Busy
    <3>3. UNCHANGED <<Claims, Counted, Emissions>> /\ UpdatesSpaced'
      BY <1>5, <3>1, <3>2
         DEF Claims, Busy, Counted, Fetching, Emissions, UpdatesSpaced
    <3>4. cursor' \in 0 .. total' /\ count' \in 0 .. total' /\ lastEmit' \in 0 .. count'
      BY <1>2, <1>3, <1>5
    <3>5. Pooled'
      BY <1>5, <3>1, <3>3, <3>4, Parts DEF Pooled
    <3> QED BY <1>3, <2>2, <3>1, <3>5
  <2> QED BY <1>1, <2>1, <2>2
<1>7. FreshPool' /\ Drained'
  BY <1>1, <1>3, <1>4, <1>5, <1>6 DEF FreshPool, Drained
<1>8. Progress(total', 0) \in Event /\ Follows(Progress(total', 0))
  BY <1>2 DEF Progress, Event, Follows
<1>9. /\ wire' \in Seq(Event) /\ wire'[Len(wire')] = Progress(total', 0)
      /\ NothingAfterTheEnd' /\ CompletedWhenFull'
  BY <1>1, <1>8, Parts, SendKeepsOrder DEF WireInv
<1>10. Newest'
  <2>1. ~(count' = total' /\ total' > 0)
    BY <1>2, <1>3, <1>5
  <2> QED BY <1>9, <2>1 DEF Newest, Progress
<1> QED BY <1>1, <1>2, <1>6, <1>7, <1>9, <1>10, Parts, PartsNext DEF Phases, WireInv

(***************************************************************************)
(* Steps of a runner                                                       *)
(***************************************************************************)

\* How the number of fetching runners changes with one runner.
LEMMA FetchingChanges ==
  ASSUME runner \in [Runner -> RunnerType], NEW i \in Runner,
         NEW x \in RunnerType, runner' = [runner EXCEPT ![i] = x]
  PROVE  /\ Cardinality(Fetching) \in Nat /\ Cardinality(Fetching') \in Nat
         /\ runner[i].pc = "fetch" /\ x.pc # "fetch" =>
              Cardinality(Fetching') = Cardinality(Fetching) - 1
         /\ runner[i].pc # "fetch" /\ x.pc = "fetch" =>
              Cardinality(Fetching') = Cardinality(Fetching) + 1
         /\ runner[i].pc # "fetch" /\ x.pc # "fetch" =>
              Cardinality(Fetching') = Cardinality(Fetching)
<1>1. IsFiniteSet(Fetching) /\ Cardinality(Fetching) \in Nat
  <2>1. Fetching \in SUBSET Runner
    BY DEF Fetching
  <2> QED BY <2>1, RunnerAssumption, FS_Subset, FS_CardinalityType
<1>2. \A j \in Runner : runner'[j] = IF j = i THEN x ELSE runner[j]
  OBVIOUS
<1>3. CASE x.pc # "fetch"
  <2>1. Fetching' = Fetching \ {i}
    BY <1>2, <1>3 DEF Fetching
  <2>2. i \in Fetching <=> runner[i].pc = "fetch"
    BY DEF Fetching
  <2>3. /\ IsFiniteSet(Fetching')
        /\ Cardinality(Fetching') = IF i \in Fetching THEN Cardinality(Fetching) - 1
                                    ELSE Cardinality(Fetching)
    BY <1>1, <2>1, FS_RemoveElement
  <2> QED BY <1>1, <1>3, <2>2, <2>3, FS_CardinalityType
<1>4. CASE x.pc = "fetch"
  <2>1. Fetching' = Fetching \cup {i}
    BY <1>2, <1>4 DEF Fetching
  <2>2. i \in Fetching <=> runner[i].pc = "fetch"
    BY DEF Fetching
  <2>3. /\ IsFiniteSet(Fetching')
        /\ Cardinality(Fetching') = IF i \in Fetching THEN Cardinality(Fetching)
                                    ELSE Cardinality(Fetching) + 1
    BY <1>1, <2>1, FS_AddElement
  <2> QED BY <1>1, <1>4, <2>2, <2>3, FS_CardinalityType
<1> QED BY <1>3, <1>4

\* Only a runner of the running pool takes a step.
LEMMA PoolIsOpen ==
  ASSUME AttemptInv, NEW i \in Runner, runner[i].pc # "ended"
  PROVE  phase = "enriching"
BY Parts DEF FreshPool

\* An event of the pool follows and is the newest one.
LEMMA AnnouncementFollows ==
  ASSUME AttemptInv, phase = "enriching", Send(Progress(count, total))
  PROVE  /\ wire' \in Seq(Event) /\ wire'[Len(wire')] = Progress(count, total)
         /\ NothingAfterTheEnd' /\ CompletedWhenFull'
<1>1. count \in Index
  BY Parts, SizesAssumption DEF Pooled, Index
<1>2. Progress(count, total) \in Event
  BY <1>1, Parts DEF Progress, Event
<1>3. Follows(Progress(count, total))
  BY Parts DEF Follows, Progress, WireInv, Newest
<1> QED BY <1>2, <1>3, Parts, SendKeepsOrder DEF WireInv

\* Claim keeps the invariant.
LEMMA ClaimKeeps ==
  ASSUME AttemptInv, NEW i \in Runner, Claim(i)
  PROVE  AttemptInv'
<1> DEFINE x == IF cursor < total THEN [pc |-> "fetch", idx |-> cursor, at |-> 0]
                ELSE [runner[i] EXCEPT !.pc = "ended"]
<1>1. /\ runner[i].pc = "next" /\ runner' = [runner EXCEPT ![i] = x]
      /\ cursor' = IF cursor < total THEN cursor + 1 ELSE cursor
      /\ UNCHANGED <<phase, tries, total, count, lastEmit, failed, entries, wire, whole>>
  <2>1. runner \in [Runner -> RunnerType] /\ cursor \in 0 .. total /\ total \in Nat
    BY Parts, SizesAssumption DEF Pooled, Index
  <2> QED BY <2>1 DEF Claim, Goto
<1>2. phase = "enriching"
  BY <1>1, PoolIsOpen
<1>3. /\ runner \in [Runner -> RunnerType] /\ cursor \in 0 .. total
      /\ total \in Nat /\ total <= MaxCommits /\ MaxCommits \in Nat
      /\ count \in 0 .. total /\ lastEmit \in 0 .. count
  BY Parts, SizesAssumption DEF Pooled, Index
<1>4. x \in RunnerType /\ x.pc = IF cursor < total THEN "fetch" ELSE "ended"
  <2>1. cursor \in Index /\ 0 \in Index /\ runner[i] \in RunnerType
    BY <1>3 DEF Index
  <2> QED BY <2>1 DEF RunnerType
<1>5. x.pc = "fetch" => x.idx = cursor
  BY <1>4
<1> HIDE DEF x
<1>6. \A j \in Runner : runner'[j] = IF j = i THEN x ELSE runner[j]
  BY <1>1, <1>3
<1>7. runner' \in [Runner -> RunnerType]
  BY <1>1, <1>3, <1>4
<1>8. ~Busy(i) /\ (Busy(i)' <=> cursor < total)
      /\ \A j \in Runner \ {i} : Busy(j)' = Busy(j)
  BY <1>1, <1>4, <1>6 DEF Busy
<1>9. Claims'
  <2>1. ASSUME NEW j \in Runner, NEW k \in Runner, j # k, Busy(j)', Busy(k)'
        PROVE  runner'[j].idx # runner'[k].idx
    <3>1. \A l \in Runner : Busy(l) => runner[l].idx < cursor /\ runner[l].idx \in Nat
      BY <1>3, Parts DEF Pooled, Claims, RunnerType, Index
    <3>2. CASE j = i
      <4>1. Busy(k) /\ runner'[k] = runner[k] /\ runner'[j].idx = cursor
        BY <1>4, <1>5, <1>6, <1>8, <2>1, <3>2
      <4> QED BY <1>3, <3>1, <4>1
    <3>3. CASE k = i
      <4>1. Busy(j) /\ runner'[j] = runner[j] /\ runner'[k].idx = cursor
        BY <1>4, <1>5, <1>6, <1>8, <2>1, <3>3
      <4> QED BY <1>3, <3>1, <4>1
    <3>4. CASE j # i /\ k # i
      <4>1. Busy(j) /\ Busy(k) /\ runner'[j] = runner[j] /\ runner'[k] = runner[k]
        BY <1>6, <1>8, <2>1, <3>4
      <4> QED BY <2>1, <4>1, Parts DEF Pooled, Claims
    <3> QED BY <3>2, <3>3, <3>4
  <2>2. \A j \in Runner : Busy(j)' => runner'[j].idx < cursor'
    BY <1>1, <1>3, <1>4, <1>5, <1>6, <1>7, <1>8, Parts
       DEF Pooled, Claims, RunnerType, Index
  <2>3. entries' \subseteq {k \in Index : k < cursor'}
    BY <1>1, <1>3, Parts DEF Pooled, Claims, Index
  <2>4. ASSUME ~failed', NEW k \in Index, k < cursor', k \notin entries'
        PROVE  \E j \in Runner : Busy(j)' /\ runner'[j].idx = k
    <3>1. CASE k < cursor
      <4>1. PICK j \in Runner : Busy(j) /\ runner[j].idx = k
        BY <1>1, <2>4, <3>1, Parts DEF Pooled, Claims
      <4> QED BY <1>6, <1>8, <4>1
    <3>2. CASE ~(k < cursor)
      <4>1. cursor < total /\ k = cursor
        BY <1>1, <1>3, <2>4, <3>2 DEF Index
      <4> QED BY <1>4, <1>5, <1>6, <1>8, <4>1
    <3> QED BY <3>1, <3>2
  <2> QED BY <2>1, <2>2, <2>3, <2>4 DEF Claims
<1>10. Counted'
  <2>1. /\ Cardinality(Fetching) \in Nat /\ Cardinality(Fetching') \in Nat
        /\ Cardinality(Fetching') = IF cursor < total THEN Cardinality(Fetching) + 1
                                    ELSE Cardinality(Fetching)
    BY <1>1, <1>3, <1>4, FetchingChanges
  <2>2. /\ count + Cardinality(Fetching) <= cursor
        /\ ~failed => count + Cardinality(Fetching) = cursor
    BY Parts DEF Pooled, Counted
  <2>3. /\ count' + Cardinality(Fetching') <= cursor'
        /\ ~failed' => count' + Cardinality(Fetching') = cursor'
    BY <1>1, <1>3, <2>1, <2>2
  <2> QED BY <2>3 DEF Counted
<1>11. \A j \in Runner : runner'[j].pc = "update" => runner'[j] = runner[j]
  BY <1>4, <1>6
<1>12. Emissions' /\ UpdatesSpaced'
  BY <1>1, <1>11, Parts DEF Pooled, Emissions, UpdatesSpaced
<1>13. Pooled'
  BY <1>1, <1>3, <1>7, <1>9, <1>10, <1>12, Parts DEF Pooled
<1>14. FreshPool'
  BY <1>1, <1>2 DEF FreshPool
<1>15. Drained'
  <2>1. ASSUME NEW j \in Runner, runner'[j].pc = "ended"
        PROVE  cursor' = total'
    BY <1>1, <1>2, <1>3, <1>4, <1>6, <2>1, Parts DEF Drained
  <2> QED BY <1>1, <1>2, <2>1 DEF Drained
<1>16. WireInv'
  <2>1. \A j \in Runner : runner[j].pc = "update" => runner'[j].pc = "update"
    BY <1>1, <1>6
  <2> QED BY <1>1, <2>1, Parts
          DEF WireInv, Newest, NothingAfterTheEnd, CompletedWhenFull, Progress
<1> QED BY <1>1, <1>13, <1>14, <1>15, <1>16, Parts, PartsNext

\* A runner that was busy gives up its commit, with an entry or an error.
LEMMA ReleaseKeepsClaims ==
  ASSUME AttemptInv, NEW i \in Runner, Busy(i),
         runner' = [runner EXCEPT ![i].pc = "next"], cursor' = cursor,
         \/ entries' = entries \cup {runner[i].idx} /\ failed' = failed
         \/ entries' = entries /\ failed' = TRUE
  PROVE  /\ Claims' /\ runner' \in [Runner -> RunnerType] /\ entries' \subseteq Index
         /\ \A j \in Runner : runner'[j].pc = "update" => runner'[j] = runner[j]
         /\ \A j \in Runner : runner'[j].pc = "ended" => runner[j].pc = "ended"
<1>1. runner \in [Runner -> RunnerType] /\ entries \subseteq Index
  BY Parts DEF Pooled
<1>2. runner' \in [Runner -> RunnerType] /\ ~Busy(i)'
  BY <1>1 DEF RunnerType, Busy
<1>3. \A j \in Runner \ {i} : runner'[j] = runner[j] /\ Busy(j)' = Busy(j)
  BY <1>1 DEF Busy
<1>4. runner[i].idx \in Index /\ runner[i].idx < cursor
  BY <1>1, Parts DEF Pooled, Claims, RunnerType
<1>5. entries' \subseteq {k \in Index : k < cursor'}
  BY <1>4, Parts DEF Pooled, Claims
<1>6. ASSUME ~failed', NEW k \in Index, k < cursor', k \notin entries'
      PROVE  \E j \in Runner : Busy(j)' /\ runner'[j].idx = k
  <2>1. entries' = entries \cup {runner[i].idx} /\ ~failed
    BY <1>6
  <2>2. PICK j \in Runner : Busy(j) /\ runner[j].idx = k
    BY <1>6, <2>1, Parts DEF Pooled, Claims
  <2>3. j # i
    BY <1>6, <2>1, <2>2
  <2> QED BY <1>3, <2>2, <2>3
<1>7. \A j, k \in Runner : j # k /\ Busy(j)' /\ Busy(k)' => runner'[j].idx # runner'[k].idx
  BY <1>2, <1>3, Parts DEF Pooled, Claims
<1>8. \A j \in Runner : Busy(j)' => runner'[j].idx < cursor'
  BY <1>2, <1>3, Parts DEF Pooled, Claims
<1>9. Claims'
  BY <1>5, <1>6, <1>7, <1>8 DEF Claims
<1>10. runner'[i].pc = "next"
  BY <1>1
<1>11. entries' \subseteq Index
  BY <1>1, <1>4
<1> QED BY <1>2, <1>3, <1>9, <1>10, <1>11

\* Announce keeps the invariant.
LEMMA AnnounceKeeps ==
  ASSUME AttemptInv, NEW i \in Runner, Announce(i)
  PROVE  AttemptInv'
<1>1. /\ runner[i].pc = "update" /\ runner' = [runner EXCEPT ![i].pc = "next"]
      /\ entries' = entries \cup {runner[i].idx} /\ Send(Progress(count, total))
      /\ UNCHANGED <<phase, tries, total, cursor, count, lastEmit, failed, whole>>
  BY DEF Announce, Store, Goto
<1>2. phase = "enriching" /\ Busy(i)
  BY <1>1, PoolIsOpen DEF Busy
<1>3. /\ Claims' /\ runner' \in [Runner -> RunnerType] /\ entries' \subseteq Index
      /\ \A j \in Runner : runner'[j].pc = "update" => runner'[j] = runner[j]
      /\ \A j \in Runner : runner'[j].pc = "ended" => runner[j].pc = "ended"
  BY <1>1, <1>2, ReleaseKeepsClaims
<1>4. Cardinality(Fetching') = Cardinality(Fetching)
  <2>1. Fetching' = Fetching
    BY <1>1, Parts DEF Fetching, Pooled
  <2> QED BY <2>1
<1>5. Counted' /\ Emissions' /\ UpdatesSpaced'
  BY <1>1, <1>3, <1>4, Parts DEF Pooled, Counted, Emissions, UpdatesSpaced
<1>6. Pooled'
  BY <1>1, <1>3, <1>5, Parts DEF Pooled
<1>7. FreshPool' /\ Drained'
  BY <1>1, <1>2, <1>3, Parts DEF FreshPool, Drained
<1>8. /\ wire' \in Seq(Event) /\ wire'[Len(wire')] = Progress(count, total)
      /\ NothingAfterTheEnd' /\ CompletedWhenFull'
  BY <1>1, <1>2, AnnouncementFollows
<1>9. Newest'
  BY <1>1, <1>8 DEF Newest, Progress
<1> QED BY <1>1, <1>6, <1>7, <1>8, <1>9, Parts, PartsNext DEF WireInv

\* RunnerFails keeps the invariant.
LEMMA RunnerFailsKeeps ==
  ASSUME AttemptInv, NEW i \in Runner, RunnerFails(i)
  PROVE  AttemptInv'
<1>1. /\ Busy(i) /\ runner[i].pc # "ended"
      /\ runner' = [runner EXCEPT ![i].pc = "next"]
      /\ failed' = TRUE
      /\ UNCHANGED <<phase, tries, total, cursor, count, lastEmit, entries, wire, whole>>
  BY DEF RunnerFails, Goto, Busy
<1>2. phase = "enriching"
  BY <1>1, PoolIsOpen
<1>3. /\ Claims' /\ runner' \in [Runner -> RunnerType] /\ entries' \subseteq Index
      /\ \A j \in Runner : runner'[j].pc = "update" => runner'[j] = runner[j]
      /\ \A j \in Runner : runner'[j].pc = "ended" => runner[j].pc = "ended"
  BY <1>1, ReleaseKeepsClaims
<1>4. Counted'
  <2> DEFINE y == [runner[i] EXCEPT !.pc = "next"]
  <2>1. /\ runner \in [Runner -> RunnerType] /\ y \in RunnerType /\ y.pc # "fetch"
        /\ runner' = [runner EXCEPT ![i] = y]
    BY <1>1, Parts DEF Pooled, RunnerType
  <2> HIDE DEF y
  <2>2. /\ Cardinality(Fetching) \in Nat /\ Cardinality(Fetching') \in Nat
        /\ Cardinality(Fetching') <= Cardinality(Fetching)
    <3>1. /\ Cardinality(Fetching) \in Nat /\ Cardinality(Fetching') \in Nat
          /\ \/ Cardinality(Fetching') = Cardinality(Fetching) - 1
             \/ Cardinality(Fetching') = Cardinality(Fetching)
      BY <2>1, FetchingChanges
    <3> QED BY <3>1
  <2>3. count \in Nat /\ cursor \in Nat /\ count + Cardinality(Fetching) <= cursor
    BY Parts DEF Pooled, Counted
  <2>4. count' + Cardinality(Fetching') <= cursor'
    BY <1>1, <2>2, <2>3
  <2> QED BY <1>1, <2>4 DEF Counted
<1>5. Emissions' /\ UpdatesSpaced'
  BY <1>1, <1>3, Parts DEF Pooled, Emissions, UpdatesSpaced
<1>6. failed' \in BOOLEAN
  BY <1>1
<1>7. Pooled'
  BY <1>1, <1>3, <1>4, <1>5, <1>6, Parts DEF Pooled
<1>8. FreshPool' /\ Drained'
  BY <1>1, <1>2, <1>3, Parts DEF FreshPool, Drained
<1>9. WireInv'
  BY <1>1, Parts
     DEF WireInv, Newest, NothingAfterTheEnd, CompletedWhenFull, Progress
<1> QED BY <1>1, <1>7, <1>8, <1>9, Parts, PartsNext

\* The counter stays within the commits when a fetch returns.
LEMMA FetchCounts ==
  ASSUME AttemptInv, NEW i \in Runner, runner[i].pc = "fetch",
         NEW x \in RunnerType, x.pc # "fetch", runner' = [runner EXCEPT ![i] = x],
         count' = count + 1, UNCHANGED <<cursor, total, failed>>
  PROVE  Counted' /\ count' \in 0 .. total'
<1>1. /\ runner \in [Runner -> RunnerType] /\ count \in Nat /\ cursor \in Nat
      /\ total \in Nat /\ cursor <= total
  BY Parts, SizesAssumption DEF Pooled, Index
<1>2. /\ Cardinality(Fetching) \in Nat /\ Cardinality(Fetching') \in Nat
      /\ Cardinality(Fetching') = Cardinality(Fetching) - 1
  BY <1>1, FetchingChanges
<1>3. /\ count + Cardinality(Fetching) <= cursor
      /\ ~failed => count + Cardinality(Fetching) = cursor
  BY Parts DEF Pooled, Counted
<1>4. /\ count' + Cardinality(Fetching') <= cursor'
      /\ ~failed' => count' + Cardinality(Fetching') = cursor'
  BY <1>1, <1>2, <1>3
<1>5. count' \in 0 .. total'
  BY <1>1, <1>2, <1>4
<1> QED BY <1>4, <1>5 DEF Counted

\* A fetch that is followed by an announcement keeps the invariant.
LEMMA FetchedDueKeeps ==
  ASSUME AttemptInv, NEW i \in Runner, runner[i].pc = "fetch", Due,
         count' = count + 1, lastEmit' = count',
         runner' = [runner EXCEPT ![i].pc = "update", ![i].at = count'],
         UNCHANGED <<phase, tries, total, cursor, failed, entries, wire, whole>>
  PROVE  AttemptInv'
<1> DEFINE x == [runner[i] EXCEPT !.pc = "update", !.at = count']
<1>1. /\ runner \in [Runner -> RunnerType] /\ count \in Nat /\ total \in Nat
      /\ lastEmit \in Nat /\ lastEmit <= count /\ count <= total
      /\ total <= MaxCommits /\ MaxCommits \in Nat /\ Interval \in Nat \ {0}
      /\ cursor <= total /\ cursor \in Nat
  BY Parts, SizesAssumption DEF Pooled, Index
<1>2. runner' = [runner EXCEPT ![i] = x]
  BY <1>1
<1>3. count' <= total
  <2>1. Cardinality(Fetching) # 0 /\ Cardinality(Fetching) \in Nat
    <3>1. Fetching \in SUBSET Runner /\ Fetching # {}
      BY DEF Fetching
    <3> QED BY <3>1, RunnerAssumption, FS_Subset, FS_CardinalityType, FS_EmptySet
  <2>2. count + Cardinality(Fetching) <= cursor
    BY Parts DEF Pooled, Counted
  <2> QED BY <1>1, <2>1, <2>2
<1>4. x \in RunnerType /\ x.pc = "update" /\ x.at = count' /\ x.idx = runner[i].idx
  <2>1. count' \in Index /\ runner[i] \in RunnerType
    BY <1>1, <1>3 DEF Index
  <2> QED BY <2>1 DEF RunnerType
<1> HIDE DEF x
<1>5. \A j \in Runner : runner'[j] = IF j = i THEN x ELSE runner[j]
  BY <1>1, <1>2
<1>6. /\ runner' \in [Runner -> RunnerType]
      /\ \A j \in Runner : Busy(j)' = Busy(j) /\ runner'[j].idx = runner[j].idx
  BY <1>1, <1>2, <1>4, <1>5 DEF Busy
<1>7. Claims'
  <2>1. /\ \A j, k \in Runner : j # k /\ Busy(j)' /\ Busy(k)' => runner'[j].idx # runner'[k].idx
        /\ \A j \in Runner : Busy(j)' => runner'[j].idx < cursor'
    BY <1>6, Parts DEF Pooled, Claims
  <2>2. entries' \subseteq {k \in Index : k < cursor'}
    BY Parts DEF Pooled, Claims
  <2>3. ASSUME ~failed', NEW k \in Index, k < cursor', k \notin entries'
        PROVE  \E j \in Runner : Busy(j)' /\ runner'[j].idx = k
    <3>1. PICK j \in Runner : Busy(j) /\ runner[j].idx = k
      BY <2>3, Parts DEF Pooled, Claims
    <3> QED BY <1>6, <3>1
  <2> QED BY <2>1, <2>2, <2>3 DEF Claims
<1>8. Counted' /\ count' \in 0 .. total'
  BY <1>2, <1>4, FetchCounts
<1>9. Emissions'
  <2>1. \A j \in Runner : runner[j].pc = "update" => runner[j].at \in Nat /\ runner[j].at <= lastEmit
    BY <1>1, Parts DEF Pooled, Emissions, RunnerType, Index
  <2> QED BY <1>1, <1>4, <1>5, <2>1 DEF Emissions
<1>10. UpdatesSpaced'
  <2> SUFFICES ASSUME NEW j \in Runner, NEW k \in Runner, j # k,
                      runner'[j].pc = "update", runner'[k].pc = "update",
                      runner'[j].at <= runner'[k].at
               PROVE  \/ runner'[k].at - runner'[j].at >= Interval
                      \/ runner'[j].at < runner'[k].at /\ runner'[k].at = total'
    BY DEF UpdatesSpaced
  <2>1. CASE j # i /\ k # i
    BY <1>5, <2>1, Parts DEF Pooled, UpdatesSpaced
  <2>2. CASE k = i
    <3>1. runner[j].at \in Nat /\ runner[j].at <= lastEmit /\ runner'[j].at = runner[j].at
      BY <1>1, <1>5, <2>2, Parts DEF Pooled, Emissions, RunnerType, Index
    <3>2. runner'[k].at = count' /\ (count' - lastEmit >= Interval \/ count' = total)
      BY <1>4, <1>5, <2>2 DEF Due
    <3> QED BY <1>1, <3>1, <3>2
  <2>3. CASE j = i
    <3>1. runner[k].at \in Nat /\ runner[k].at <= lastEmit /\ runner'[k].at = runner[k].at
      BY <1>1, <1>5, <2>3, Parts DEF Pooled, Emissions, RunnerType, Index
    <3>2. runner'[j].at = count'
      BY <1>4, <1>5, <2>3
    <3> QED BY <1>1, <3>1, <3>2
  <2> QED BY <2>1, <2>2, <2>3
<1>11. lastEmit' \in 0 .. count'
  BY <1>1
<1>12. Pooled'
  BY <1>6, <1>7, <1>8, <1>9, <1>10, <1>11, Parts DEF Pooled
<1>13. phase = "enriching"
  BY PoolIsOpen
<1>14. FreshPool' /\ Drained'
  BY <1>4, <1>5, <1>13, Parts DEF FreshPool, Drained
<1>15. Newest'
  BY <1>4, <1>5, Parts DEF WireInv, Newest, Progress
<1>16. WireInv'
  BY <1>15, Parts DEF WireInv, NothingAfterTheEnd, CompletedWhenFull, Progress
<1> QED BY <1>12, <1>14, <1>16, Parts, PartsNext

\* A fetch without an announcement keeps the invariant.
LEMMA FetchedQuietKeeps ==
  ASSUME AttemptInv, NEW i \in Runner, runner[i].pc = "fetch", ~Due,
         count' = count + 1, Store(i),
         UNCHANGED <<phase, tries, total, cursor, lastEmit, failed, wire, whole>>
  PROVE  AttemptInv'
<1> DEFINE x == [runner[i] EXCEPT !.pc = "next"]
<1>1. /\ runner \in [Runner -> RunnerType] /\ count \in Nat /\ total \in Nat
      /\ lastEmit \in Nat /\ lastEmit <= count
  BY Parts, SizesAssumption DEF Pooled, Index
<1>2. /\ runner' = [runner EXCEPT ![i] = x] /\ runner' = [runner EXCEPT ![i].pc = "next"]
      /\ entries' = entries \cup {runner[i].idx}
      /\ x \in RunnerType /\ x.pc # "fetch"
  BY <1>1 DEF Store, Goto, RunnerType
<1> HIDE DEF x
<1>3. phase = "enriching" /\ Busy(i)
  BY PoolIsOpen DEF Busy
<1>4. /\ Claims' /\ runner' \in [Runner -> RunnerType] /\ entries' \subseteq Index
      /\ \A j \in Runner : runner'[j].pc = "update" => runner'[j] = runner[j]
      /\ \A j \in Runner : runner'[j].pc = "ended" => runner[j].pc = "ended"
  BY <1>2, <1>3, ReleaseKeepsClaims
<1>5. Counted' /\ count' \in 0 .. total'
  BY <1>2, FetchCounts
<1>6. Emissions' /\ UpdatesSpaced'
  BY <1>4, Parts DEF Pooled, Emissions, UpdatesSpaced
<1>7. lastEmit' \in 0 .. count'
  BY <1>1
<1>8. Pooled'
  BY <1>4, <1>5, <1>6, <1>7, Parts DEF Pooled
<1>9. FreshPool' /\ Drained'
  BY <1>3, <1>4, Parts DEF FreshPool, Drained
<1>10. count' # total'
  BY DEF Due
<1>11. Newest'
  BY <1>10, Parts DEF WireInv, Newest, Progress
<1>12. WireInv'
  BY <1>11, Parts DEF WireInv, NothingAfterTheEnd, CompletedWhenFull, Progress
<1> QED BY <1>8, <1>9, <1>12, Parts, PartsNext

\* Every step of the attempt keeps the invariant.
LEMMA AttemptKeeps ==
  ASSUME AttemptInv, AttemptStep \/ \E i \in Runner : RunnerStep(i)
  PROVE  AttemptInv'
<1>1. CASE AttemptStep
  BY <1>1, StartKeeps, ListPageKeeps, FailsKeeps, CompleteKeeps, MarkFailedKeeps,
     SettleKeeps DEF AttemptStep
<1>2. ASSUME NEW i \in Runner, RunnerStep(i)
      PROVE  AttemptInv'
  <2>1. CASE Fetched(i)
    BY <2>1, FetchedDueKeeps, FetchedQuietKeeps DEF Fetched
  <2> QED BY <1>2, <2>1, ClaimKeeps, AnnounceKeeps, RunnerFailsKeeps DEF RunnerStep
<1> QED BY <1>1, <1>2

\* What a state that satisfies AttemptInv promises.
LEMMA InvPromises ==
  AttemptInv => AttemptTypeOK /\ AllEntries /\ UpdatesSpaced
                /\ NothingAfterTheEnd /\ CompletedWhenFull
<1>1. ASSUME AttemptInv, phase = "writing"
      PROVE  entries = 0 .. total - 1
  <2>1. cursor = total /\ ~failed /\ \A i \in Runner : ~Busy(i)
    BY <1>1, Parts DEF Drained, FreshPool, Busy
  <2>2. total \in Nat /\ total <= MaxCommits /\ MaxCommits \in Nat
    BY <1>1, Parts, SizesAssumption DEF Index
  <2>3. entries = {k \in Index : k < total}
    BY <1>1, <2>1, Parts DEF Pooled, Claims
  <2> QED BY <2>2, <2>3 DEF Index
<1> QED BY <1>1 DEF AllEntries, AttemptInv, PoolInv, WireInv

\* The attempts by themselves, with a wire that nobody reads, always satisfy
\* AttemptInv.
THEOREM AttemptInvariance == AttemptSpec => []AttemptInv
<1>1. InitAlone => AttemptInv
  BY InitiallyInv DEF InitAlone
<1>2. AttemptInv /\ [AttemptStep \/ \E i \in Runner : RunnerStep(i)]_<<attempt, wire, whole>>
        => AttemptInv'
  <2> SUFFICES ASSUME AttemptInv, UNCHANGED <<attempt, wire, whole>>
               PROVE  AttemptInv'
    BY AttemptKeeps
  <2>1. UNCHANGED <<phase, tries, total, pool, wire, whole>>
    BY DEF attempt
  <2>2. Pooled'
    BY <2>1, Parts, PoolStays
  <2>3. FreshPool' /\ Drained' /\ WireInv'
    BY <2>1, Parts DEF pool, FreshPool, Drained, WireInv, Newest,
                       NothingAfterTheEnd, CompletedWhenFull, Progress
  <2> QED BY <2>1, <2>2, <2>3, Parts, PartsNext
<1> QED BY <1>1, <1>2, PTL DEF AttemptSpec

\* runWithConcurrency returns an entry for every commit, whatever the number
\* of runners and commits and however they interleave and fail.
THEOREM EveryCommitHasItsEntry == AttemptSpec => []AllEntries
<1> QED BY AttemptInvariance, InvPromises, PTL

\* What is written has an entry for every commit, no event of an attempt follows its last
\* one, and the completion of a sync is announced after all of its commits.
THEOREM AttemptsEndInOrder == AttemptSpec => []EndsInOrder
<1>1. AttemptInv => EndsInOrder
  BY InvPromises DEF EndsInOrder
<1> QED BY <1>1, AttemptInvariance, PTL

\* Runners do not announce the same interval twice.
THEOREM AnnouncementsSpaced == AttemptSpec => []UpdatesSpaced
<1> QED BY AttemptInvariance, InvPromises, PTL

\* What an attempt and its runners hold has its type.
THEOREM AttemptTypes == AttemptSpec => []AttemptTypeOK
<1> QED BY AttemptInvariance, InvPromises, PTL
=============================================================================
