------------------------------ MODULE BullJob ------------------------------
(***************************************************************************)
(* One job of a BullMQ queue, as far as QueueService and the processors    *)
(* rely on it: the job stored under a fixed job id ("sync-<repositoryId>"),*)
(* the lock of the worker that runs it, and its retry bookkeeping.         *)
(*                                                                         *)
(* BullMQ is a library: the definitions follow what the code in src/ asks  *)
(* of it (add with a jobId, getState, remove, attempts, removeOnComplete)  *)
(* and what its own comments say it answers.                               *)
(***************************************************************************)
EXTENDS Naturals

CONSTANTS Worker,       \* the queue workers, one per API instance
          NoWorker,     \* nobody holds the lock
          DeadWorker,   \* the lock of a crashed worker, not yet expired
          MaxAttempts,  \* SYNC_JOB_OPTS.attempts
          MaxStalled    \* BullMQ's maxStalledCount (default 1)

ASSUME WorkerAssumption ==
  NoWorker \notin Worker /\ DeadWorker \notin Worker /\ NoWorker # DeadWorker

ASSUME AttemptsAssumption == MaxAttempts \in Nat \ {0} /\ MaxStalled \in Nat

\* "none": no job is stored under the id.
JobState == {"none", "waiting", "delayed", "active", "completed", "failed"}

Job == [state: JobState, made: 0..MaxAttempts, stalls: 0..MaxStalled,
        lock: Worker \cup {NoWorker, DeadWorker}]

NoJob == [state |-> "none", made |-> 0, stalls |-> 0, lock |-> NoWorker]

\* The states ACTIVE_JOB_STATES lists; a sync job never has children or a
\* priority, so its other two states do not occur.
ActiveJobStates == {"waiting", "delayed", "active"}

Pending(j) == j.state \in ActiveJobStates

Terminal(j) == j.state \in {"completed", "failed"}

Locked(j) == j.lock # NoWorker

\* Queue.add with an existing job id returns the old job and changes nothing.
Added(j) == IF j.state = "none" THEN [NoJob EXCEPT !.state = "waiting"] ELSE j

TakenBy(j, w) == [j EXCEPT !.state = "active", !.lock = w]

Promoted(j) == [j EXCEPT !.state = "waiting"]

Finished(j) == [j EXCEPT !.state = "completed", !.lock = NoWorker]

\* Mutant: failed attempts are not counted.
AttemptFailedUncounted(j) == [j EXCEPT !.state = "delayed", !.lock = NoWorker]

\* A failed attempt is retried after a backoff while attempts remain.
AttemptFailed(j) ==
  [j EXCEPT !.state = IF j.made + 1 < MaxAttempts THEN "delayed" ELSE "failed",
            !.made  = j.made + 1,
            !.lock  = NoWorker]

\* The stalled check moves an active job without a lock back to the wait list,
\* or fails it when it stalled too often.
Stalled(j) ==
  IF j.stalls < MaxStalled
    THEN [j EXCEPT !.state = "waiting", !.stalls = @ + 1]
    ELSE [j EXCEPT !.state = "failed"]
=============================================================================
