----------------------------- MODULE Enrichment -----------------------------
(***************************************************************************)
(* The sync attempts of one repository and the events they send: listing   *)
(* by page, the pool of runners of concurrency.ts that fetches one commit  *)
(* each, and the end of the attempt.  Runners interleave at every await.   *)
(* Storing the commits and the queue are modelled by SyncPipeline; nothing *)
(* reads the progress columns of sync_jobs, so only the await of           *)
(* updateProgress remains of them.                                         *)
(***************************************************************************)
EXTENDS Naturals, Sequences, FiniteSets

CONSTANTS Runner,      \* PER_COMMIT_FETCH_CONCURRENCY runners
          PageSize,    \* COMMITS_PER_PAGE
          Interval,    \* ENRICHMENT_PROGRESS_INTERVAL
          MaxCommits,  \* bound: commits of the repository
          MaxOnWire,   \* bound: events on their way at once
          MaxAttempts, \* SYNC_JOB_OPTS.attempts
          Faults       \* which of "github", "db", "socket" may fail

ASSUME RunnerAssumption == IsFiniteSet(Runner) /\ Runner # {}

ASSUME SizesAssumption ==
  /\ PageSize \in Nat \ {0} /\ Interval \in Nat \ {0}
  /\ MaxCommits \in Nat /\ MaxOnWire \in Nat /\ MaxAttempts \in Nat \ {0}

VARIABLES phase,    \* of the job and its current attempt
          tries,    \* failed attempts of the job
          total,    \* commits listed so far; then the number of commits
          cursor,   \* the next commit to fetch
          runner,   \* the runners of the pool
          count,    \* enrichedCount
          lastEmit, \* lastProgressEmit
          failed,   \* firstError is set
          entries,  \* the indices for which results has an entry
          wire,     \* events on their way to the page, oldest first
          whole     \* history: the page has missed nothing (see SyncProgress)

pool == <<cursor, runner, count, lastEmit, failed, entries>>

Progress(n, of) == [kind |-> "progress", done |-> n, total |-> of]
Completed(n) == [kind |-> "completed", done |-> n, total |-> n]
Failed == [kind |-> "failed", done |-> 0, total |-> 0]

Send(e) == Len(wire) < MaxOnWire /\ wire' = Append(wire, e)

Runners(pc) == [i \in Runner |-> [pc |-> pc, idx |-> 0, at |-> 0]]

InitAttempt ==
  /\ phase \in {"none", "waiting"}
  /\ tries = 0 /\ total = 0 /\ cursor = 0 /\ count = 0 /\ lastEmit = 0
  /\ runner = Runners("ended") /\ failed = FALSE /\ entries = {}
  /\ wire = <<>>

\* Errors before the try block, and of markFailed, reach no page.
FailSilently ==
  "db" \in Faults /\ phase' = "failed" /\ whole' = FALSE /\ UNCHANGED wire

\* createJob and markRunning.
StartAttempt ==
  /\ phase = "waiting"
  /\ \/ phase' = "listing" /\ UNCHANGED <<wire, whole>>
     \/ FailSilently
  /\ UNCHANGED <<tries, total, pool>>

\* runWithConcurrency up to its Promise.all; runners that find nothing to do
\* stand for those it does not start when there are fewer commits.
OpenPool ==
  /\ phase' = "enriching"
  /\ runner' = Runners("next")
  /\ UNCHANGED <<cursor, count, lastEmit, failed, entries>>

\* Mutant: the payload the comment in the page loop warns of.
ListPageAsComplete(n) ==
  /\ phase = "listing"
  /\ n = 0 => total = 0
  /\ total + n <= MaxCommits
  /\ total' = total + n
  /\ Send(Progress(total', total'))
  /\ \/ n = PageSize /\ total' < MaxCommits /\ phase' = phase /\ UNCHANGED pool
     \/ OpenPool
  /\ UNCHANGED <<tries, whole>>

\* A page of n commits; a full page may be followed by another one.
ListPage(n) ==
  /\ phase = "listing"
  /\ n = 0 => total = 0
  /\ total + n <= MaxCommits
  /\ total' = total + n
  /\ Send(Progress(total', 0))
  /\ \/ n = PageSize /\ total' < MaxCommits /\ phase' = phase /\ UNCHANGED pool
     \/ OpenPool
  /\ UNCHANGED <<tries, whole>>

\* The repository is gone, listCommits or updateProgress fails, or a
\* transaction that writes the commits.
PhaseFails ==
  /\ \/ phase = "listing" /\ Faults \cap {"github", "db"} # {}
     \/ phase = "writing" /\ "db" \in Faults
  /\ phase' = "failing"
  /\ UNCHANGED <<tries, total, pool, wire, whole>>

(***************************************************************************)
(* The runners                                                             *)
(***************************************************************************)
Goto(i, pc) == runner' = [runner EXCEPT ![i].pc = pc]

\* while (cursor < items.length) { const idx = cursor++; ...
Claim(i) ==
  /\ runner[i].pc = "next"
  /\ \/ /\ cursor < total
        /\ runner' = [runner EXCEPT ![i] = [pc |-> "fetch", idx |-> cursor, at |-> 0]]
        /\ cursor' = cursor + 1
     \/ cursor >= total /\ Goto(i, "ended") /\ UNCHANGED cursor
  /\ UNCHANGED <<phase, tries, total, count, lastEmit, failed, entries, wire, whole>>

\* The worker function returns: its entry is stored, the runner loops.
Store(i) == entries' = entries \cup {runner[i].idx} /\ Goto(i, "next")

\* Mutant: the last progress is not announced.
DueByInterval == count' - lastEmit >= Interval

\* emitEnrichmentProgress does not return early.
Due == count' - lastEmit >= Interval \/ count' = total

\* getCommit returns: the counter and lastProgressEmit are set before the
\* next await.
Fetched(i) ==
  /\ runner[i].pc = "fetch"
  /\ count' = count + 1
  /\ \/ Due /\ lastEmit' = count' /\ UNCHANGED entries
        /\ runner' = [runner EXCEPT ![i].pc = "update", ![i].at = count']
     \/ ~Due /\ Store(i) /\ UNCHANGED lastEmit
  /\ UNCHANGED <<phase, tries, total, cursor, failed, wire, whole>>

\* updateProgress has returned; the event carries the counter as it is now.
Announce(i) ==
  /\ runner[i].pc = "update"
  /\ Send(Progress(count, total))
  /\ Store(i)
  /\ UNCHANGED <<phase, tries, total, cursor, count, lastEmit, failed, whole>>

\* getCommit or updateProgress rejects: the runner goes on with the others.
RunnerFails(i) ==
  /\ \/ runner[i].pc = "fetch" /\ "github" \in Faults
     \/ runner[i].pc = "update" /\ "db" \in Faults
  /\ failed' = TRUE
  /\ Goto(i, "next")
  /\ UNCHANGED <<phase, tries, total, cursor, count, lastEmit, entries, wire, whole>>

\* Promise.all, and the throw of the first error.
PoolEnds ==
  /\ phase = "enriching"
  /\ \A i \in Runner : runner[i].pc = "ended"
  /\ phase' = IF failed THEN "failing" ELSE "writing"
  /\ UNCHANGED <<tries, total, pool, wire, whole>>

(***************************************************************************)
(* The end of the attempt                                                  *)
(***************************************************************************)

\* The commits are stored: markCompleted, lastSyncedAt, RepoSyncedEvent.
Complete ==
  /\ phase = "writing"
  /\ phase' = "completed"
  /\ Send(Completed(total))
  /\ UNCHANGED <<tries, total, pool, whole>>

\* The catch block.
MarkFailed ==
  /\ phase = "failing"
  /\ \/ phase' = "failed" /\ Send(Failed) /\ UNCHANGED whole
     \/ FailSilently
  /\ UNCHANGED <<tries, total, pool>>

\* BullMQ settles the job or schedules its retry; the local variables of
\* process() are gone.
Settle ==
  /\ \/ phase = "completed" /\ phase' = "none" /\ tries' = 0
     \/ /\ phase = "failed"
        /\ IF tries + 1 < MaxAttempts
             THEN phase' = "waiting" /\ tries' = tries + 1
             ELSE phase' = "none" /\ tries' = 0
  /\ total' = 0 /\ cursor' = 0 /\ count' = 0 /\ lastEmit' = 0
  /\ runner' = Runners("ended") /\ failed' = FALSE /\ entries' = {}
  /\ UNCHANGED <<wire, whole>>

RunnerStep(i) == Claim(i) \/ Fetched(i) \/ Announce(i) \/ RunnerFails(i)

AttemptStep ==
  \/ StartAttempt \/ (\E n \in 0 .. PageSize : ListPage(n)) \/ PhaseFails
  \/ PoolEnds \/ Complete \/ MarkFailed \/ Settle

attempt == <<phase, tries, total, pool>>

\* The attempts on their own: a page that hears everything.
InitAlone == InitAttempt /\ whole = TRUE

AttemptSpec ==
  /\ InitAlone
  /\ [][AttemptStep \/ \E i \in Runner : RunnerStep(i)]_<<attempt, wire, whole>>

(***************************************************************************)
(* Properties                                                              *)
(***************************************************************************)
Index == 0 .. MaxCommits

RunnerType == [pc : {"next", "fetch", "update", "ended"}, idx : Index, at : Index]

Event == [kind : {"progress", "completed", "failed"}, done : Index, total : Index]

Phases == {"none", "waiting", "listing", "enriching", "writing", "failing",
           "completed", "failed"}

\* Every variable has its type; no counter passes the number of commits.
AttemptTypeOK ==
  /\ phase \in Phases /\ tries \in 0 .. MaxAttempts - 1
  /\ total \in Index /\ cursor \in 0 .. total
  /\ runner \in [Runner -> RunnerType]
  /\ count \in 0 .. total /\ lastEmit \in 0 .. count
  /\ failed \in BOOLEAN /\ entries \subseteq Index
  /\ wire \in Seq(Event) /\ whole \in BOOLEAN

\* When commits are written, runWithConcurrency has returned one entry for
\* every commit listed: none was skipped, and no error was lost
\* (concurrency.ts:1-8).
AllEntries == phase = "writing" => entries = 0 .. total - 1

\* Two updates of the row that are under way at once are an interval apart,
\* unless one is the last: the runners do not all announce the same step.
UpdatesSpaced ==
  \A i, j \in Runner :
    /\ i # j /\ runner[i].pc = "update" /\ runner[j].pc = "update"
    /\ runner[i].at <= runner[j].at
    => \/ runner[j].at - runner[i].at >= Interval
       \/ runner[i].at < runner[j].at /\ runner[j].at = total

\* Whatever the runners do, an attempt's last event is its last: what follows
\* it is the first page of another attempt, or its failure.
NothingAfterTheEnd ==
  \A k \in 1 .. Len(wire) - 1 :
    wire[k].kind # "progress" =>
      wire[k + 1].kind # "completed" /\ wire[k + 1].total = 0

\* All commits are announced as enriched right before the sync is announced
\* as completed.
CompletedWhenFull ==
  \A k \in 1 .. Len(wire) - 1 :
    wire[k + 1].kind = "completed" /\ wire[k + 1].total > 0 =>
      wire[k] = Progress(wire[k + 1].total, wire[k + 1].total)

\* An attempt writes an entry for every commit, ends once, and as completed only after
\* the last of its commits: the events of runners that are still in flight do not follow
\* its end (concurrency.ts, and its use at sync.processor.ts:184).
EndsInOrder == AllEntries /\ NothingAfterTheEnd /\ CompletedWhenFull
-----------------------------------------------------------------------------
(***************************************************************************)
(* The inductive invariant behind them.                                    *)
(***************************************************************************)
Busy(i) == runner[i].pc \in {"fetch", "update"}

Fetching == {i \in Runner : runner[i].pc = "fetch"}

\* Outside of an attempt and while it lists, the pool's variables are fresh.
FreshPool ==
  /\ phase # "enriching" => \A i \in Runner : runner[i].pc = "ended"
  /\ phase \in {"none", "waiting", "listing"} =>
       cursor = 0 /\ count = 0 /\ lastEmit = 0 /\ ~failed /\ entries = {}
  /\ phase \in {"none", "waiting"} => total = 0

\* Every commit before the cursor has its entry or one runner.
Claims ==
  /\ \A i, j \in Runner : i # j /\ Busy(i) /\ Busy(j) => runner[i].idx # runner[j].idx
  /\ \A i \in Runner : Busy(i) => runner[i].idx < cursor
  /\ entries \subseteq {k \in Index : k < cursor}
  /\ ~failed => \A k \in Index : k < cursor /\ k \notin entries =>
                  \E i \in Runner : Busy(i) /\ runner[i].idx = k

\* A runner ends only when the cursor has reached the end.
Drained ==
  /\ \A i \in Runner : phase = "enriching" /\ runner[i].pc = "ended" => cursor = total
  /\ phase = "writing" => cursor = total /\ ~failed

\* enrichedCount is the number of commits fetched.
Counted ==
  /\ count + Cardinality(Fetching) <= cursor
  /\ ~failed => count + Cardinality(Fetching) = cursor

Emissions == \A i \in Runner : runner[i].pc = "update" => runner[i].at <= lastEmit

\* The newest event on the wire fits the phase, and the last announcement is
\* made or under way.
Newest ==
  wire # <<>> =>
    /\ phase \in {"enriching", "writing"} => wire[Len(wire)].kind = "progress"
    /\ phase \in {"enriching", "writing"} /\ count = total /\ total > 0 /\ ~failed =>
         \/ wire[Len(wire)] = Progress(total, total)
         \/ \E i \in Runner : runner[i].pc = "update"

PoolInv == FreshPool /\ Claims /\ Drained /\ Counted /\ Emissions /\ UpdatesSpaced

WireInv == Newest /\ NothingAfterTheEnd /\ CompletedWhenFull

AttemptInv == AttemptTypeOK /\ PoolInv /\ WireInv
=============================================================================
