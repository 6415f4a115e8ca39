---------------------------- MODULE SyncAttempt ----------------------------
(***************************************************************************)
(* The worker side: SyncProcessor.process, one action per database or      *)
(* GitHub round trip, and what BullMQ does around it (take, lock, settle,  *)
(* retry, stalled check, retention).  A worker is one API instance and     *)
(* runs one job at a time (no `concurrency` option is given).              *)
(***************************************************************************)
EXTENDS SyncState

unchangedByAttempt == <<req, promised, torn>>

At(w, pc) == wk[w].pc = pc

Step(w, pc) == wk' = [wk EXCEPT ![w].pc = pc]

StepWithRow(w, pc, status) ==
  wk' = [wk EXCEPT ![w].pc = pc, ![w].row = status]

\* Mutant: the round trip is outside the try block.
ThrowsPastCatch(w, fault) == fault \in Faults /\ Step(w, "reject")

\* A round trip of the try block fails: control passes to the catch block.
Throws(w, fault) == fault \in Faults /\ Step(w, "fail")

\* The attempt is over; its sync_jobs row stays as it is.
EndAttempt(w) ==
  /\ wk' = [wk EXCEPT ![w] = IdleWorker]
  /\ abandoned' = [abandoned EXCEPT ![wk[w].repo] =
                     @ \/ wk[w].row \in {"queued", "running"}]

(***************************************************************************)
(* SyncProcessor.process                                                   *)
(***************************************************************************)

\* createJob and markRunning are outside the try block: a failure there
\* reaches BullMQ without markFailed.
CreateJob(w) ==
  /\ At(w, "create")
  /\ \/ StepWithRow(w, "markRunning", "queued")
     \/ "db" \in Faults /\ Step(w, "reject")
  /\ UNCHANGED <<repo, commits, job, abandoned>> /\ UNCHANGED unchangedByAttempt

MarkRunning(w) ==
  /\ At(w, "markRunning")
  /\ \/ StepWithRow(w, "load", "running")
     \/ "db" \in Faults /\ Step(w, "reject")
  /\ UNCHANGED <<repo, commits, job, abandoned>> /\ UNCHANGED unchangedByAttempt

\* The row must exist and carry an owner/name; isConnected is not looked at.
LoadRepo(w) ==
  /\ At(w, "load")
  /\ \/ repo[wk[w].repo].exists /\ Step(w, "list")
     \/ ~repo[wk[w].repo].exists /\ Step(w, "fail")
     \/ Throws(w, "github") \/ Throws(w, "db")
  /\ UNCHANGED <<repo, commits, job, abandoned>> /\ UNCHANGED unchangedByAttempt

\* The page loop (Enrichment models it with its progress events).
ListCommits(w) ==
  /\ At(w, "list")
  /\ \/ Step(w, "enrich")
     \/ Throws(w, "github") \/ Throws(w, "db")
  /\ UNCHANGED <<repo, commits, job, abandoned>> /\ UNCHANGED unchangedByAttempt

\* One getCommit per commit (Enrichment); a single failure fails the attempt.
EnrichCommits(w) ==
  /\ At(w, "enrich")
  /\ \/ Step(w, "write")
     \/ Throws(w, "github") \/ Throws(w, "db")
  /\ UNCHANGED <<repo, commits, job, abandoned>> /\ UNCHANGED unchangedByAttempt

\* One transaction: commits, scores and files of the batch, or nothing.
WriteBatch(w) ==
  LET b == wk[w].next IN
  /\ At(w, "write")
  /\ b <= NumBatches
  /\ \/ /\ commits' = [commits EXCEPT ![wk[w].repo] = @ \cup {b}]
        /\ wk' = [wk EXCEPT ![w].next = b + 1]
     \/ Throws(w, "db") /\ UNCHANGED commits
  /\ UNCHANGED <<repo, job, abandoned>> /\ UNCHANGED unchangedByAttempt

\* Mutant: the loop stops before the last, partial batch.
FinalProgressEarly(w) ==
  /\ At(w, "write")
  /\ wk[w].next >= NumBatches
  /\ \/ Step(w, "complete")
     \/ Throws(w, "db")
  /\ UNCHANGED <<repo, commits, job, abandoned>> /\ UNCHANGED unchangedByAttempt

\* The final updateProgress(total, total).
FinalProgress(w) ==
  /\ At(w, "write")
  /\ wk[w].next > NumBatches
  /\ \/ Step(w, "complete")
     \/ Throws(w, "db")
  /\ UNCHANGED <<repo, commits, job, abandoned>> /\ UNCHANGED unchangedByAttempt

MarkCompleted(w) ==
  /\ At(w, "complete")
  /\ \/ StepWithRow(w, "touch", "completed")
     \/ Throws(w, "db")
  /\ UNCHANGED <<repo, commits, job, abandoned>> /\ UNCHANGED unchangedByAttempt

\* A plain UPDATE of lastSyncedAt, then the publish of RepoSyncedEvent.
TouchLastSyncedAt(w) ==
  LET r == wk[w].repo IN
  /\ At(w, "touch")
  /\ \/ /\ repo' = [repo EXCEPT ![r].synced = TRUE]
        /\ torn' = [torn EXCEPT ![r] = wk[w].overtaken]
        /\ Step(w, "resolve")
     \/ Throws(w, "db") /\ UNCHANGED <<repo, torn>>
  /\ UNCHANGED <<commits, job, req, abandoned, promised>>

\* Mutant: the catch block finishes the row like a successful sync.
MarkFailedCompleted(w) ==
  /\ At(w, "fail")
  /\ \/ StepWithRow(w, "reject", "completed")
     \/ "db" \in Faults /\ Step(w, "reject")
  /\ UNCHANGED <<repo, commits, job, abandoned>> /\ UNCHANGED unchangedByAttempt

\* The catch block; when markFailed itself fails no SyncFailedEvent is sent
\* and the row stays as it is.
MarkFailed(w) ==
  /\ At(w, "fail")
  /\ \/ StepWithRow(w, "reject", "failed")
     \/ "db" \in Faults /\ Step(w, "reject")
  /\ UNCHANGED <<repo, commits, job, abandoned>> /\ UNCHANGED unchangedByAttempt

(***************************************************************************)
(* BullMQ around process()                                                 *)
(***************************************************************************)

Take(w, r) ==
  /\ At(w, "idle")
  /\ job[r].state = "waiting"
  /\ job' = [job EXCEPT ![r] = TakenBy(@, w)]
  /\ wk' = [wk EXCEPT ![w] = [IdleWorker EXCEPT !.pc = "create", !.repo = r]]
  /\ UNCHANGED <<repo, commits, abandoned>> /\ UNCHANGED unchangedByAttempt

\* Mutant: an attempt settles the job without holding its lock.
SettleUnlocked(w, outcome) ==
  LET r == wk[w].repo IN
  /\ job' = [job EXCEPT ![r] = outcome]
  /\ promised' = [promised EXCEPT ![r] = @ /\ Pending(outcome)]
  /\ EndAttempt(w)
  /\ UNCHANGED <<repo, commits, req, torn>>

\* Settling needs the lock: an attempt that lost it changes nothing.
Settle(w, outcome) ==
  LET r == wk[w].repo IN
  /\ IF job[r].lock = w
       THEN /\ job' = [job EXCEPT ![r] = outcome]
            /\ promised' = [promised EXCEPT ![r] = @ /\ Pending(outcome)]
       ELSE UNCHANGED <<job, promised>>
  /\ EndAttempt(w)
  /\ UNCHANGED <<repo, commits, req, torn>>

Resolve(w) == At(w, "resolve") /\ Settle(w, Finished(job[wk[w].repo]))

Reject(w) == At(w, "reject") /\ Settle(w, AttemptFailed(job[wk[w].repo]))

PromoteDelayed(r) ==
  /\ job[r].state = "delayed"
  /\ job' = [job EXCEPT ![r] = Promoted(@)]
  /\ UNCHANGED <<repo, commits, wk, abandoned>> /\ UNCHANGED unchangedByAttempt

\* The lock of a live attempt expires (no renewal reached Redis in time).
LoseLock(w) ==
  LET r == wk[w].repo IN
  /\ "stall" \in Faults
  /\ ~At(w, "idle")
  /\ job[r].lock = w
  /\ job' = [job EXCEPT ![r].lock = NoWorker]
  /\ UNCHANGED <<repo, commits, wk, abandoned>> /\ UNCHANGED unchangedByAttempt

\* The instance dies and restarts; its lock is left to expire.
Crash(w) ==
  LET r == wk[w].repo IN
  /\ "crash" \in Faults
  /\ ~At(w, "idle")
  /\ job' = IF job[r].lock = w THEN [job EXCEPT ![r].lock = DeadWorker] ELSE job
  /\ EndAttempt(w)
  /\ UNCHANGED <<repo, commits>> /\ UNCHANGED unchangedByAttempt

ExpireLock(r) ==
  /\ job[r].lock = DeadWorker
  /\ job' = [job EXCEPT ![r].lock = NoWorker]
  /\ UNCHANGED <<repo, commits, wk, abandoned>> /\ UNCHANGED unchangedByAttempt

CheckStalled(r) ==
  /\ job[r].state = "active" /\ ~Locked(job[r])
  /\ job' = [job EXCEPT ![r] = Stalled(@)]
  /\ promised' = [promised EXCEPT ![r] = @ /\ Pending(job'[r])]
  /\ UNCHANGED <<repo, commits, req, wk, abandoned, torn>>

\* removeOnComplete / removeOnFail drop settled jobs beyond a count.
DropSettled(r) ==
  /\ Terminal(job[r])
  /\ job' = [job EXCEPT ![r] = NoJob]
  /\ UNCHANGED <<repo, commits, wk, abandoned>> /\ UNCHANGED unchangedByAttempt

\* The steps of an attempt that is running.
AttemptStep(w) ==
  \/ CreateJob(w) \/ MarkRunning(w) \/ LoadRepo(w) \/ ListCommits(w)
  \/ EnrichCommits(w) \/ WriteBatch(w) \/ FinalProgress(w)
  \/ MarkCompleted(w) \/ TouchLastSyncedAt(w) \/ MarkFailed(w)
  \/ Resolve(w) \/ Reject(w)

WorkerFault(w) == LoseLock(w) \/ Crash(w)

QueueTimer(r) == PromoteDelayed(r) \/ ExpireLock(r) \/ CheckStalled(r)
=============================================================================
