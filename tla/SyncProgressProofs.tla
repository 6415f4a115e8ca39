------------------------- MODULE SyncProgressProofs -------------------------
(***************************************************************************)
(* The attempts and the page together: what the page, the socket and the   *)
(* user do leaves the guarantees of the attempts alone, every variable has *)
(* its type, and the bar never goes back.                                  *)
(***************************************************************************)
EXTENDS SyncProgress, EnrichmentProofs

\* The types of the page's variables.
PageTypeOK ==
  /\ socket \in {"off", "joining", "in", "out"}
  /\ live \in [status : {"idle", "syncing", "completed", "failed"},
               done : Index, total : Index]
  /\ optimistic \in BOOLEAN
  /\ http \in [Source -> {"none", "sent", "accepted", "refused"}]
  /\ asked \in Nat /\ clicks \in 0 .. MaxClicks

\* What the steps of the page do to the attempt: at most, the job is added.
AttemptFrame ==
  /\ tries' = tries /\ total' = total /\ pool' = pool
  /\ \/ phase' = phase
     \/ phase = "none" /\ phase' = "waiting"

\* What the steps of the page do to the attempt and the wire.
LEMMA PageFrame ==
  ASSUME AttemptInv, AttemptFrame, whole' \in BOOLEAN,
         NEW k \in 0 .. Len(wire), wire' = SubSeq(wire, k + 1, Len(wire))
  PROVE  AttemptInv'
<1>1. UNCHANGED <<cursor, runner, count, lastEmit, failed, entries, tries, total>>
  BY DEF AttemptFrame, pool
<1>2. phase' = phase \/ (phase = "none" /\ phase' = "waiting")
  BY DEF AttemptFrame
<1>3. Pooled'
  BY Parts, PoolStays DEF AttemptFrame
<1>4. FreshPool' /\ Drained'
  BY <1>1, <1>2, Parts DEF FreshPool, Drained
<1>5. /\ wire' \in Seq(Event) /\ NothingAfterTheEnd' /\ CompletedWhenFull'
      /\ wire' # <<>> => wire # <<>> /\ wire'[Len(wire')] = wire[Len(wire)]
  BY Parts, LossKeepsOrder DEF WireInv
<1>6. Newest'
  BY <1>1, <1>2, <1>5, Parts DEF WireInv, Newest, Progress
<1> QED BY <1>1, <1>2, <1>3, <1>4, <1>5, <1>6, Parts, PartsNext DEF WireInv, Phases

\* A wire that stays is one that loses nothing.
LEMMA WireStays ==
  ASSUME AttemptInv, AttemptFrame, wire' = wire, whole' \in BOOLEAN
  PROVE  AttemptInv'
<1>1. wire \in Seq(Event)
  BY Parts
<1>2. 0 \in 0 .. Len(wire) /\ wire' = SubSeq(wire, 0 + 1, Len(wire))
  BY <1>1
<1> QED BY <1>2, PageFrame

\* Steps of the page, the socket and the user keep AttemptInv.
LEMMA PageKeeps ==
  ASSUME AttemptInv, PageStep \/ Load \/ Disconnect \/ \E s \in Source : Click(s)
  PROVE  AttemptInv'
<1>1. whole \in BOOLEAN /\ wire \in Seq(Event)
  BY Parts
<1>2. CASE Connect \/ Join \/ \E s \in Source : Accept(s) \/ Answer(s) \/ Click(s)
  <2>1. AttemptFrame /\ wire' = wire /\ whole' = whole
    BY <1>2 DEF Connect, Join, Accept, Answer, Click, attempt, AttemptFrame
  <2>2. whole' \in BOOLEAN
    BY <1>1, <2>1
  <2> QED BY <2>1, <2>2, WireStays
<1>3. CASE Enqueue
  <2>1. AttemptFrame /\ wire' = wire /\ whole' = whole
    BY <1>3 DEF Enqueue, AttemptFrame
  <2>2. whole' \in BOOLEAN
    BY <1>1, <2>1
  <2> QED BY <2>1, <2>2, WireStays
<1>4. CASE Load
  <2>1. AttemptFrame /\ wire' = wire
    BY <1>4 DEF Load, attempt, AttemptFrame
  <2>2. whole' \in BOOLEAN
    BY <1>4 DEF Load
  <2> QED BY <2>1, <2>2, WireStays
<1>5. CASE Disconnect
  <2>1. PICK k \in 0 .. Len(wire) : wire' = SubSeq(wire, k + 1, Len(wire))
                                    /\ whole' = (whole /\ k = 0)
    BY <1>5 DEF Disconnect
  <2>2. AttemptFrame
    BY <1>5 DEF Disconnect, attempt, AttemptFrame
  <2>3. whole' \in BOOLEAN
    BY <1>1, <2>1
  <2> QED BY <2>1, <2>2, <2>3, PageFrame
<1>6. CASE Receive
  <2>1. AttemptFrame
    BY <1>6 DEF Receive, attempt, AttemptFrame
  <2>2. whole' \in BOOLEAN
    BY <1>1, <1>6 DEF Receive
  <2>3. wire # <<>> /\ wire' = Tail(wire)
    BY <1>6 DEF Receive
  <2>4. 1 \in 0 .. Len(wire) /\ wire' = SubSeq(wire, 1 + 1, Len(wire))
    BY <1>1, <2>3
  <2> QED BY <2>1, <2>2, <2>4, PageFrame
<1> QED BY <1>2, <1>3, <1>4, <1>5, <1>6 DEF PageStep

\* Every step keeps the types of the page's variables.
LEMMA PageTypes ==
  ASSUME AttemptInv, PageTypeOK, Next
  PROVE  PageTypeOK'
<1>1. 0 \in Index /\ wire \in Seq(Event)
  BY Parts, SizesAssumption DEF Index
<1>2. CASE UNCHANGED page
  BY <1>2 DEF page, PageTypeOK
<1>3. CASE Connect \/ Join \/ Disconnect
  <2>1. socket' \in {"off", "joining", "in", "out"}
    BY <1>3 DEF Connect, Join, Disconnect
  <2>2. UNCHANGED <<live, optimistic, http, asked, clicks>>
    BY <1>3 DEF Connect, Join, Disconnect
  <2> QED BY <2>1, <2>2 DEF PageTypeOK
<1>4. CASE Enqueue
  <2>1. UNCHANGED <<socket, live, optimistic, http, clicks>>
    BY <1>4 DEF Enqueue
  <2>2. asked > 0 /\ asked' = asked - 1
    BY <1>4 DEF Enqueue
  <2> QED BY <2>1, <2>2 DEF PageTypeOK
<1>5. CASE Receive
  <2>1. UNCHANGED <<socket, http, asked, clicks>>
    BY <1>5 DEF Receive
  <2>2. CASE UNCHANGED <<live, optimistic>>
    BY <2>1, <2>2 DEF PageTypeOK
  <2>3. CASE live' = Heard(Head(wire)) /\ optimistic' \in BOOLEAN
    <3>1. Head(wire) \in Event
      BY <1>1, <1>5 DEF Receive
    <3>2. live' \in [status : {"idle", "syncing", "completed", "failed"},
                     done : Index, total : Index]
      <4> DEFINE e == Head(wire)
      <4>1. e \in Event /\ live' = Heard(e)
        BY <2>3, <3>1
      <4> HIDE DEF e
      <4>2. e.done \in Index /\ e.total \in Index
        BY <4>1 DEF Event
      <4> QED BY <4>1, <4>2 DEF Heard, PageTypeOK
    <3> QED BY <2>1, <2>3, <3>2 DEF PageTypeOK
  <2> QED BY <1>5, <2>2, <2>3 DEF Receive
<1>6. CASE Load
  <2>1. /\ socket' = "off" /\ live' = Nothing /\ optimistic' = FALSE
        /\ http' = [s \in Source |-> "none"] /\ UNCHANGED clicks
    BY <1>6 DEF Load
  <2>2. PICK k \in 0 .. Cardinality({s \in Source : http[s] = "sent"}) :
          asked' = asked + k
    BY <1>6 DEF Load
  <2>3. asked' \in Nat
    BY <2>2 DEF PageTypeOK
  <2>4. live' \in [status : {"idle", "syncing", "completed", "failed"},
                   done : Index, total : Index]
    BY <1>1, <2>1 DEF Nothing
  <2>5. http' \in [Source -> {"none", "sent", "accepted", "refused"}]
    BY <2>1
  <2>6. optimistic' \in BOOLEAN
    BY <2>1
  <2> QED BY <2>1, <2>3, <2>4, <2>5, <2>6 DEF PageTypeOK
<1>7. ASSUME NEW s \in Source, Click(s)
      PROVE  PageTypeOK'
  <2>1. UNCHANGED <<socket, live, optimistic, asked>>
    BY <1>7 DEF Click
  <2>2. http' = [http EXCEPT ![s] = "sent"] /\ clicks' = clicks + 1 /\ clicks < MaxClicks
    BY <1>7 DEF Click
  <2> QED BY <2>1, <2>2, ClicksAssumption DEF PageTypeOK
<1>8. ASSUME NEW s \in Source, Accept(s)
      PROVE  PageTypeOK'
  <2>1. UNCHANGED <<socket, live, optimistic, clicks>>
    BY <1>8 DEF Accept
  <2>2. \/ http' = [http EXCEPT ![s] = "accepted"] /\ asked' = asked + 1
        \/ http' = [http EXCEPT ![s] = "refused"] /\ UNCHANGED asked
    BY <1>8 DEF Accept
  <2> QED BY <2>1, <2>2 DEF PageTypeOK
<1>9. ASSUME NEW s \in Source, Answer(s)
      PROVE  PageTypeOK'
  <2>1. UNCHANGED <<socket, live, asked, clicks>>
    BY <1>9 DEF Answer
  <2>2. http' = [http EXCEPT ![s] = "none"]
    BY <1>9 DEF Answer
  <2>3. optimistic' \in BOOLEAN
    BY <1>9 DEF Answer
  <2> QED BY <2>1, <2>2, <2>3 DEF PageTypeOK
<1> QED BY <1>2, <1>3, <1>4, <1>5, <1>6, <1>7, <1>8, <1>9 DEF Next, PageStep

\* Both invariants hold in every reachable state.
THEOREM ProgressInvariance == Spec => [](AttemptInv /\ PageTypeOK)
<1>1. Init => AttemptInv /\ PageTypeOK
  <2> SUFFICES ASSUME Init PROVE AttemptInv /\ PageTypeOK
    OBVIOUS
  <2>1. AttemptInv
    BY InitiallyInv DEF Init, InitPage
  <2>2. 0 \in Index
    BY SizesAssumption DEF Index
  <2>3. optimistic \in BOOLEAN
    BY DEF Init, InitPage
  <2>4. PageTypeOK
    BY <2>2, <2>3, ClicksAssumption DEF Init, InitPage, PageTypeOK, Nothing
  <2> QED BY <2>1, <2>4
<1>2. AttemptInv /\ PageTypeOK /\ [Next]_vars => AttemptInv' /\ PageTypeOK'
  <2>1. ASSUME AttemptInv, PageTypeOK, Next
        PROVE  AttemptInv' /\ PageTypeOK'
    BY <2>1, AttemptKeeps, PageKeeps, PageTypes DEF Next
  <2>2. ASSUME AttemptInv, PageTypeOK, UNCHANGED vars
        PROVE  AttemptInv' /\ PageTypeOK'
    <3>1. AttemptFrame /\ wire' = wire /\ whole' = whole
      BY <2>2 DEF vars, AttemptFrame
    <3>2. UNCHANGED page
      BY <2>2 DEF vars
    <3>3. whole' \in BOOLEAN
      BY <2>2, <3>1, Parts
    <3>4. AttemptInv'
      BY <2>2, <3>1, <3>3, WireStays
    <3> QED BY <2>2, <3>2, <3>4 DEF page, PageTypeOK
  <2> QED BY <2>1, <2>2
<1> QED BY <1>1, <1>2, PTL DEF Spec

\* Every variable of the composition has its type, for every number of
\* runners, commits, attempts and clicks.
THEOREM TypeCorrectness == Spec => []TypeOK
<1>1. AttemptInv /\ PageTypeOK => TypeOK
  BY DEF AttemptInv, PageTypeOK, TypeOK
<1> QED BY <1>1, ProgressInvariance, PTL

(***************************************************************************)
(* The bar: each event on the wire counts on from the one before it, the   *)
(* first of them from what the page shows, and the newest tells of the     *)
(* pool that runs.                                                         *)
(***************************************************************************)

\* What the page shows, as the event it was told last.
Shows == [kind |-> IF live.status = "syncing" THEN "progress" ELSE "failed",
          done |-> live.done, total |-> live.total]

Told(k) == IF k = 0 THEN Shows ELSE wire[k]

CountsOn(a, b) ==
  a.kind = "progress" /\ a.total > 0 /\ b.kind = "progress" => b.total = a.total /\ b.done >= a.done

TellsPool(e) ==
  e.kind = "progress" /\ e.total > 0 =>
    phase \in {"enriching", "writing", "failing"} /\ e.total = total /\ e.done <= count

SnapInv ==
  whole => /\ \A k \in 0 .. Len(wire) - 1 : CountsOn(Told(k), Told(k + 1))
           /\ TellsPool(Told(Len(wire)))

\* Steps in which the pool goes on, or has no running count to go on with.
PoolGoesOn ==
  phase \in {"enriching", "writing", "failing"} =>
    phase' \in {"enriching", "writing", "failing"} /\ total' = total /\ count' >= count

\* What is told is in numbers.
LEMMA ToldTypes ==
  ASSUME AttemptInv, PageTypeOK
  PROVE  /\ wire \in Seq(Event) /\ Len(wire) \in Nat /\ count \in Nat /\ total \in Nat
         /\ \A k \in 0 .. Len(wire) : Told(k).done \in Nat /\ Told(k).total \in Nat
         /\ \A k \in 1 .. Len(wire) : Told(k) = wire[k] /\ wire[k] \in Event
<1>1. /\ wire \in Seq(Event) /\ Len(wire) \in Nat /\ count \in Nat /\ total \in Nat
      /\ \A x \in Index : x \in Nat
  BY Parts, SizesAssumption DEF Pooled, Index
<1>2. \A k \in 1 .. Len(wire) : Told(k) = wire[k] /\ wire[k] \in Event
  BY <1>1 DEF Told
<1>3. \A e \in Event : e.done \in Nat /\ e.total \in Nat
  BY <1>1 DEF Event
<1>4. Told(0).done \in Nat /\ Told(0).total \in Nat
  BY <1>1 DEF Told, Shows, PageTypeOK
<1> QED BY <1>1, <1>2, <1>3, <1>4

\* Nothing is sent or heard.
LEMMA SnapStays ==
  ASSUME AttemptInv, PageTypeOK, AttemptInv', SnapInv, wire' = wire, live' = live, whole' => whole,
         PoolGoesOn
  PROVE  SnapInv'
<1> DEFINE last == Told(Len(wire))
<1>1. /\ Len(wire) \in Nat /\ count \in Nat /\ count' \in Nat /\ last.done \in Nat
  BY ToldTypes, Parts, PartsNext, SizesAssumption DEF Pooled, Index
<1>2. \A k : Told(k)' = Told(k)
  BY DEF Told, Shows
<1>3. last' = last
  BY <1>2
<1> HIDE DEF last
<1>4. TellsPool(last) => TellsPool(last)'
  BY <1>1, <1>3 DEF TellsPool, PoolGoesOn
<1>5. SnapInv <=> (whole => /\ \A k \in 0 .. Len(wire) - 1 : CountsOn(Told(k), Told(k + 1))
                            /\ TellsPool(last))
  BY DEF SnapInv, last
<1>6. SnapInv' <=> (whole' => /\ \A k \in 0 .. Len(wire') - 1 : CountsOn(Told(k)', Told(k + 1)')
                              /\ TellsPool(last)')
  BY DEF SnapInv, last, CountsOn
<1>7. (\A k \in 0 .. Len(wire) - 1 : CountsOn(Told(k), Told(k + 1)))
        => \A k \in 0 .. Len(wire') - 1 : CountsOn(Told(k)', Told(k + 1)')
  BY <1>2 DEF CountsOn
<1> QED BY <1>4, <1>5, <1>6, <1>7

\* An event is sent that counts on and tells of the pool as it is then.
LEMMA SnapSends ==
  ASSUME AttemptInv, PageTypeOK, SnapInv, live' = live, whole' => whole, NEW e, Send(e),
         TellsPool(Told(Len(wire))) => CountsOn(Told(Len(wire)), e), TellsPool(e)'
  PROVE  SnapInv'
<1>0. PICK n \in Nat : n = Len(wire)
  BY ToldTypes
<1>1. /\ n \in Nat /\ Len(wire') = n + 1 /\ wire'[n + 1] = e
      /\ \A k \in 1 .. n : wire'[k] = wire[k]
  BY <1>0, ToldTypes DEF Send
<1>2. /\ \A k \in 0 .. n : Told(k)' = Told(k)
      /\ Told(n + 1)' = e /\ Told(Len(wire))' = e
  <2>1. ASSUME NEW k \in 0 .. n
        PROVE  Told(k)' = Told(k)
    <3>1. CASE k = 0
      BY <3>1 DEF Told, Shows
    <3>2. CASE k # 0
      BY <1>1, <3>2 DEF Told
    <3> QED BY <3>1, <3>2
  <2>2. Told(n + 1)' = wire'[n + 1] /\ Told(Len(wire))' = wire'[Len(wire')]
    BY <1>1 DEF Told
  <2> QED BY <1>1, <2>1, <2>2
<1>3. ASSUME whole'
      PROVE  \A k \in 0 .. n : CountsOn(Told(k)', Told(k + 1)')
  <2>1. /\ \A k \in 0 .. n - 1 : CountsOn(Told(k), Told(k + 1))
        /\ TellsPool(Told(n))
    BY <1>0, <1>3 DEF SnapInv
  <2>2. CountsOn(Told(n)', Told(n + 1)')
    <3>1. Told(n)' = Told(n)
      BY <1>1, <1>2
    <3>2. CountsOn(Told(n), e)
      BY <1>0, <2>1
    <3> QED BY <1>2, <3>1, <3>2
  <2>3. ASSUME NEW k \in 0 .. n - 1
        PROVE  CountsOn(Told(k)', Told(k + 1)')
    <3>1. k \in 0 .. n /\ k + 1 \in 0 .. n
      BY <1>1
    <3> QED BY <1>2, <2>1, <3>1
  <2>4. \A k \in 0 .. n : k = n \/ k \in 0 .. n - 1
    BY <1>1
  <2>5. ASSUME NEW k \in 0 .. n
        PROVE  CountsOn(Told(k)', Told(k + 1)')
    <3>1. CASE k = n
      BY <2>2, <3>1
    <3>2. CASE k \in 0 .. n - 1
      BY <2>3, <3>2
    <3> QED BY <2>4, <3>1, <3>2
  <2> QED BY <2>5
<1>5. TellsPool(Told(Len(wire)))'
  <2> DEFINE last == Told(Len(wire))
  <2>1. last' = e
    BY <1>2
  <2>2. TellsPool(last)' <=> TellsPool(e)'
    <3> HIDE DEF last
    <3> QED BY <2>1 DEF TellsPool
  <2> QED BY <2>2
<1>6. n = Len(wire') - 1
  BY <1>1
<1>7. \A k \in 0 .. n : CountsOn(Told(k)', Told(k + 1)') <=> CountsOn(Told(k), Told(k + 1))'
  BY DEF CountsOn
<1> QED BY <1>3, <1>5, <1>6, <1>7 DEF SnapInv

\* The page hears the oldest event; what it shows then is that event.
LEMMA SnapReceives ==
  ASSUME AttemptInv, PageTypeOK, SnapInv, Receive
  PROVE  SnapInv'
<1>1. CASE socket # "in"
  BY <1>1 DEF Receive, SnapInv
<1>2. CASE socket = "in"
  <2>0. PICK n \in Nat : n = Len(wire)
    BY ToldTypes
  <2>1. /\ n # 0 /\ wire # <<>> /\ Len(wire') = n - 1 /\ Head(wire) = wire[1] /\ wire[1] \in Event
        /\ \A k \in 1 .. n - 1 : wire'[k] = wire[k + 1]
    BY <2>0, ToldTypes DEF Receive
  <2>2. live' = Heard(wire[1]) /\ whole' = whole /\ phase' = phase /\ total' = total /\ count' = count
    BY <1>2, <2>1 DEF Receive, attempt, pool
  <2>3. \A k \in 1 .. n - 1 : Told(k)' = Told(k + 1)
    BY <2>1 DEF Told
  <2>4. Told(0)'.kind = "progress" => /\ Told(1).kind = "progress" /\ Told(0)'.done = Told(1).done
                                      /\ Told(0)'.total = Told(1).total
    <3> DEFINE e == wire[1]
    <3>1. e.kind \in {"progress", "completed", "failed"} /\ live' = Heard(e) /\ Told(1) = e
      BY <2>1, <2>2 DEF Event, Told
    <3> HIDE DEF e
    <3>2. CASE e.kind = "progress"
      BY <3>1, <3>2 DEF Told, Shows, Heard
    <3>3. CASE e.kind = "completed"
      BY <3>1, <3>3 DEF Told, Shows, Heard
    <3>4. CASE e.kind = "failed"
      BY <3>1, <3>4 DEF Told, Shows, Heard, PageTypeOK
    <3> QED BY <3>1, <3>2, <3>3, <3>4
  <2>5. ASSUME whole
        PROVE  /\ \A k \in 0 .. n - 1 : CountsOn(Told(k), Told(k + 1))
               /\ TellsPool(Told(n))
    BY <2>0, <2>5 DEF SnapInv
  <2>6. ASSUME whole, NEW k \in 0 .. (n - 1) - 1
        PROVE  CountsOn(Told(k)', Told(k + 1)')
    <3>1. /\ k + 1 \in 0 .. n - 1 /\ k + 1 \in 1 .. n - 1 /\ Told(k + 1)' = Told((k + 1) + 1)
          /\ CountsOn(Told(k + 1), Told((k + 1) + 1))
      BY <2>3, <2>5, <2>6
    <3>2. CASE k = 0
      BY <2>4, <3>1, <3>2 DEF CountsOn
    <3>3. CASE k # 0
      <4>1. Told(k)' = Told(k + 1)
        BY <2>3, <3>3
      <4> QED BY <3>1, <4>1
    <3> QED BY <3>2, <3>3
  <2>7. ASSUME whole
        PROVE  TellsPool(Told(Len(wire)))'
    <3>1. CASE n = 1
      <4>1. TellsPool(Told(1))
        BY <2>5, <2>7, <3>1
      <4>2. TellsPool(Told(0))'
        BY <2>2, <2>4, <4>1 DEF TellsPool
      <4>3. Told(Len(wire))' = Told(0)'
        BY <2>1, <3>1 DEF Told
      <4> DEFINE last == Told(Len(wire))
                 first == Told(0)
      <4>4. TellsPool(first)' /\ last' = first'
        BY <4>2, <4>3
      <4> HIDE DEF last, first
      <4>5. TellsPool(last)'
        BY <4>4 DEF TellsPool
      <4> QED BY <4>5 DEF last
    <3>2. CASE n # 1
      <4>1. Told(n - 1)' = Told(n) /\ Told(n - 1)' = Told(Len(wire))'
        BY <2>1, <2>3, <3>2 DEF Told
      <4> DEFINE last == Told(Len(wire))
      <4>2. TellsPool(last) /\ last' = last
        BY <2>0, <2>5, <2>7, <4>1
      <4> HIDE DEF last
      <4>3. TellsPool(last)'
        BY <2>2, <4>2 DEF TellsPool
      <4> QED BY <4>3 DEF last
    <3> QED BY <3>1, <3>2
  <2>8. \A k \in 0 .. (n - 1) - 1 : CountsOn(Told(k)', Told(k + 1)') <=> CountsOn(Told(k), Told(k + 1))'
    BY DEF CountsOn
  <2> QED BY <2>1, <2>2, <2>6, <2>7, <2>8 DEF SnapInv
<1> QED BY <1>1, <1>2

\* The attempt's steps: what is sent counts on.
LEMMA SnapRuns ==
  ASSUME AttemptInv, PageTypeOK, AttemptInv', SnapInv, UNCHANGED page,
         AttemptStep \/ \E i \in Runner : RunnerStep(i)
  PROVE  SnapInv'
<1>0. live' = live
  BY DEF page
<1>1. /\ count \in Nat /\ total \in Nat /\ count' \in Nat /\ total' \in Nat
      /\ Told(Len(wire)).done \in Nat
  BY ToldTypes, Parts, PartsNext, SizesAssumption DEF Pooled, Index
<1>2. ASSUME FailSilently
      PROVE  SnapInv'
  BY <1>2 DEF FailSilently, SnapInv
<1>3. ASSUME UNCHANGED wire, whole' = whole, PoolGoesOn
      PROVE  SnapInv'
  BY <1>0, <1>3, SnapStays
<1>4. CASE StartAttempt
  <2>1. CASE FailSilently
    BY <1>2, <2>1
  <2>2. CASE phase' = "listing" /\ UNCHANGED <<wire, whole>>
    BY <1>3, <1>4, <2>2 DEF StartAttempt, PoolGoesOn
  <2> QED BY <1>4, <2>1, <2>2 DEF StartAttempt
<1>5. ASSUME NEW n \in 0 .. PageSize, ListPage(n)
      PROVE  SnapInv'
  <2>1. PICK t \in Nat : t = total'
    BY <1>1
  <2> DEFINE e == Progress(t, 0)
  <2>2. Send(e) /\ phase = "listing" /\ whole' = whole
    BY <1>5, <2>1 DEF ListPage
  <2>3. e.kind = "progress" /\ e.total = 0
    BY DEF Progress
  <2> HIDE DEF e
  <2>4. TellsPool(Told(Len(wire))) => CountsOn(Told(Len(wire)), e)
    BY <2>2 DEF TellsPool, CountsOn
  <2>5. TellsPool(e)'
    BY <2>3 DEF TellsPool
  <2> QED BY <1>0, <2>2, <2>4, <2>5, SnapSends
<1>6. CASE PhaseFails \/ PoolEnds
  <2>1. UNCHANGED <<wire, whole, total, count>> /\ phase' \in {"failing", "writing"}
    BY <1>6 DEF PhaseFails, PoolEnds, pool
  <2>2. PoolGoesOn
    BY <1>1, <2>1 DEF PoolGoesOn
  <2> QED BY <1>3, <2>1, <2>2
<1>7. ASSUME NEW e \in {Failed, Completed(total)}, Send(e), whole' = whole
      PROVE  SnapInv'
  <2>1. PICK f : f = e
    OBVIOUS
  <2>2. Send(f) /\ f.kind # "progress"
    BY <1>7, <2>1 DEF Failed, Completed
  <2>3. TellsPool(f)' /\ CountsOn(Told(Len(wire)), f)
    BY <2>2 DEF TellsPool, CountsOn
  <2> QED BY <1>0, <1>7, <2>2, <2>3, SnapSends
<1>8. CASE Complete
  BY <1>7, <1>8 DEF Complete
<1>9. CASE MarkFailed
  BY <1>2, <1>7, <1>9 DEF MarkFailed
<1>10. CASE Settle
  BY <1>3, <1>10 DEF Settle, PoolGoesOn
<1>11. ASSUME NEW i \in Runner, RunnerStep(i)
       PROVE  SnapInv'
  <2>1. phase = "enriching" /\ phase' = phase /\ total' = total /\ whole' = whole
    BY <1>11, PoolIsOpen DEF RunnerStep, Claim, Fetched, Announce, RunnerFails
  <2>2. CASE Claim(i) \/ Fetched(i) \/ RunnerFails(i)
    <3>1. UNCHANGED wire /\ (count' = count \/ count' = count + 1)
      BY <2>2 DEF Claim, Fetched, RunnerFails
    <3>2. PoolGoesOn
      BY <1>1, <2>1, <3>1 DEF PoolGoesOn
    <3> QED BY <1>3, <2>1, <3>1, <3>2
  <2>3. CASE Announce(i)
    <3>1. PICK n \in Nat, t \in Nat : n = count /\ t = total
      BY <1>1
    <3> DEFINE e == Progress(n, t)
    <3>2. Send(e) /\ count' = count
      BY <2>3, <3>1 DEF Announce
    <3>3. e.kind = "progress" /\ e.total = t /\ e.done = n
      BY DEF Progress
    <3> HIDE DEF e
    <3>4. TellsPool(e)'
      BY <2>1, <3>1, <3>2, <3>3 DEF TellsPool
    <3>5. TellsPool(Told(Len(wire))) => CountsOn(Told(Len(wire)), e)
      BY <3>1, <3>3 DEF TellsPool, CountsOn
    <3> QED BY <1>0, <2>1, <3>2, <3>4, <3>5, SnapSends
  <2> QED BY <1>11, <2>2, <2>3 DEF RunnerStep
<1> QED BY <1>4, <1>5, <1>6, <1>8, <1>9, <1>10, <1>11 DEF AttemptStep

\* The page's own steps.
LEMMA SnapPage ==
  ASSUME AttemptInv, PageTypeOK, AttemptInv', SnapInv,
         PageStep \/ Load \/ Disconnect \/ \E s \in Source : Click(s)
  PROVE  SnapInv'
<1>1. count \in Nat
  BY ToldTypes
<1>2. CASE Load
  <2>1. /\ live' = Nothing /\ UNCHANGED <<phase, total, count, wire>>
        /\ whole' = (phase \in {"none", "waiting"} /\ wire = <<>>)
    BY <1>2 DEF Load, attempt, pool
  <2>2. ASSUME whole'
        PROVE  /\ \A k \in 0 .. Len(wire') - 1 : CountsOn(Told(k), Told(k + 1))'
               /\ TellsPool(Told(Len(wire)))'
    <3>1. Len(wire') = 0
      BY <2>1, <2>2
    <3>2. Told(Len(wire))' = Shows'
      BY <3>1 DEF Told
    <3> DEFINE last == Told(Len(wire))
    <3>3. last'.kind # "progress"
      BY <2>1, <3>2 DEF Shows, Nothing
    <3> HIDE DEF last
    <3>4. TellsPool(last)'
      BY <3>3 DEF TellsPool
    <3>5. 0 .. Len(wire') - 1 = {}
      BY <3>1
    <3> QED BY <3>4, <3>5 DEF last
  <2> QED BY <2>2 DEF SnapInv
<1>3. CASE Disconnect
  <2>1. PICK k \in 0 .. Len(wire) :
          wire' = SubSeq(wire, k + 1, Len(wire)) /\ whole' = (whole /\ k = 0)
    BY <1>3 DEF Disconnect
  <2>2. CASE k = 0
    <3>1. wire' = wire
      BY <2>1, <2>2, ToldTypes
    <3>2. PoolGoesOn /\ live' = live
      BY <1>1, <1>3 DEF Disconnect, attempt, pool, PoolGoesOn
    <3> QED BY <2>1, <3>1, <3>2, SnapStays
  <2>3. CASE k # 0
    BY <2>1, <2>3 DEF SnapInv
  <2> QED BY <2>2, <2>3
<1>4. CASE \/ Connect \/ Join \/ Enqueue
           \/ \E s \in Source : Accept(s) \/ Answer(s) \/ Click(s)
  <2>1. wire' = wire /\ live' = live /\ whole' = whole
    BY <1>4 DEF Connect, Join, Enqueue, Accept, Answer, Click
  <2>2. PoolGoesOn
    BY <1>1, <1>4 DEF Connect, Join, Enqueue, Accept, Answer, Click, attempt, pool, PoolGoesOn
  <2> QED BY <2>1, <2>2, SnapStays
<1>5. CASE Receive
  BY <1>5, SnapReceives
<1> QED BY <1>2, <1>3, <1>4, <1>5 DEF PageStep

\* The bar, in one step.
LEMMA BarCountsOn ==
  ASSUME AttemptInv, PageTypeOK, SnapInv, [Next]_vars,
         whole', live.status = "syncing", live'.status = "syncing", live.total > 0
  PROVE  live'.total = live.total /\ live'.done >= live.done
<1>1. live.done \in Nat
  BY SizesAssumption DEF PageTypeOK, Index
<1>2. CASE live' = live
  BY <1>1, <1>2
<1>3. CASE Receive /\ socket = "in"
  <2>1. /\ wire # <<>> /\ Head(wire) = wire[1] /\ wire[1] \in Event /\ Len(wire) \in Nat
        /\ Len(wire) # 0 /\ live' = Heard(wire[1])
    BY <1>3, ToldTypes DEF Receive
  <2>0. whole
    BY <1>3 DEF Receive
  <2>2. CountsOn(Told(0), Told(1))
    BY <2>0, <2>1 DEF SnapInv
  <2>3. Told(0) = Shows /\ Told(1) = wire[1]
    BY DEF Told
  <2> DEFINE e == wire[1]
  <2>4. live' = Heard(e) /\ e.kind \in {"progress", "completed", "failed"} /\ CountsOn(Shows, e)
    BY <2>1, <2>2, <2>3 DEF Event
  <2> HIDE DEF e
  <2>5. e.kind = "progress"
    BY <2>4 DEF Heard, PageTypeOK
  <2>6. live'.done = e.done /\ live'.total = e.total
    BY <2>4, <2>5 DEF Heard
  <2> QED BY <2>4, <2>5, <2>6 DEF CountsOn, Shows
<1>4. CASE Load
  BY <1>4 DEF Load, Nothing
<1>5. live' = live \/ (Receive /\ socket = "in") \/ Load
  BY DEF Next, PageStep, Connect, Join, Enqueue, Accept, Answer, Click, Disconnect, Receive,
     vars, page
<1> QED BY <1>2, <1>3, <1>4, <1>5

\* sync.processor.ts 142-145 and concurrency.ts: on a page that misses nothing the bar
\* neither changes its total nor goes back, for any number of runners, commits and attempts.
THEOREM BarNeverSnapsBack == Spec => NeverSnapsBack
<1>1. Init => SnapInv
  <2>1. ASSUME Init
        PROVE  wire = <<>> /\ live = Nothing /\ Len(wire) = 0 /\ Told(Len(wire)) = Shows
    BY <2>1 DEF Init, InitAttempt, InitPage, Told
  <2>2. Init => Shows.kind # "progress"
    BY <2>1 DEF Shows, Nothing
  <2> QED BY <2>1, <2>2 DEF SnapInv, TellsPool
<1>2. (AttemptInv /\ PageTypeOK) /\ (AttemptInv /\ PageTypeOK)' /\ SnapInv /\ [Next]_vars => SnapInv'
  <2>1. ASSUME AttemptInv, PageTypeOK, AttemptInv', SnapInv, Next
        PROVE  SnapInv'
    BY <2>1, SnapRuns, SnapPage DEF Next
  <2>2. ASSUME AttemptInv, PageTypeOK, AttemptInv', SnapInv, UNCHANGED vars
        PROVE  SnapInv'
    <3>1. wire' = wire /\ live' = live /\ whole' = whole
      BY <2>2 DEF vars, page
    <3>2. PoolGoesOn
      BY <2>2, ToldTypes DEF vars, pool, PoolGoesOn
    <3> QED BY <2>2, <3>1, <3>2, SnapStays
  <2> QED BY <2>1, <2>2
<1>3. AttemptInv /\ PageTypeOK /\ SnapInv /\ [Next]_vars =>
        (whole' /\ live.status = "syncing" /\ live'.status = "syncing" =>
           /\ live.total > 0 => live'.total = live.total
           /\ live.total > 0 => live'.done >= live.done)
  BY BarCountsOn
<1> QED BY <1>1, <1>2, <1>3, ProgressInvariance, PTL DEF Spec, NeverSnapsBack
=============================================================================
