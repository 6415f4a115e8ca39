---------------------------- MODULE SyncPipeline ----------------------------
(***************************************************************************)
(* Repository synchronisation: HTTP requests, queue and workers composed.  *)
(***************************************************************************)
EXTENDS RepoRequests, SyncAttempt

Next ==
  \/ \E q \in Req : RequestStep(q) \/ \E r \in Repo : RequestStart(q, r)
  \/ \E w \in Worker : AttemptStep(w) \/ WorkerFault(w)
                       \/ \E r \in Repo : Take(w, r)
  \/ \E r \in Repo : QueueTimer(r) \/ DropSettled(r)

Spec == Init /\ [][Next]_vars

(***************************************************************************)
(* Fairness: an accepted request, a running attempt and BullMQ's timers    *)
(* keep going; a waiting job is taken in the end (the wait list is FIFO,   *)
(* so it is not overtaken forever by other repositories).  Clients and     *)
(* faults are not fair.                                                    *)
(***************************************************************************)
FairSpec ==
  /\ Spec
  /\ \A q \in Req : WF_vars(RequestStep(q))
  /\ \A w \in Worker : WF_vars(AttemptStep(w))
  /\ \A r \in Repo : /\ WF_vars(QueueTimer(r))
                     /\ SF_vars(\E w \in Worker : Take(w, r))

(***************************************************************************)
(* Safety                                                                  *)
(***************************************************************************)

\* The lock of a job names the worker that is running it: BullMQ's job id and
\* lock are the only thing that keeps two attempts of a repository apart.
HolderRuns ==
  \A r \in Repo : job[r].lock \in Worker =>
    /\ job[r].state = "active"
    /\ Running(job[r].lock, r)

\* As long as no live worker loses its lock, no two attempts of one repository
\* are under way, whatever requests, retries, purges and crashes do.
OneAttemptPerRepo ==
  "stall" \notin Faults =>
    \A r \in Repo, v, w \in Worker : Running(v, r) /\ Running(w, r) => v = w

\* lastSyncedAt is only set on a repository all of whose commits are stored,
\* except through the two races `torn` records: an attempt whose earlier
\* batches a purge deleted, and a reconnect that saves a row read before it.
SyncedMeansStored ==
  \A r \in Repo : repo[r].synced /\ ~torn[r] => commits[r] = Batch

\* A sync_jobs row marked completed stands for a complete write, unless a
\* purge came in between: no batch is skipped on the way to markCompleted.
CompletedMeansStored ==
  \A w \in Worker : wk[w].row = "completed" /\ ~wk[w].overtaken =>
    commits[wk[w].repo] = Batch

\* Two overlapping enqueueSync calls remove and add the job of one repository
\* between their awaits; once a call has reported a pending job, the job is
\* there until it settles or is purged, or the call that removed it is about
\* to add it again.
PromisedJobExists ==
  Faults \cap {"redis", "crash"} = {} =>
    \A r \in Repo : promised[r] =>
      \/ Pending(job[r])
      \/ \E q \in Req : req[q].pc = "addJob" /\ req[q].repo = r

\* A sync_jobs row is left queued or running for ever only by a crash or by a
\* database failure: failing GitHub calls, lost locks, retries and purges all
\* end it in completed or failed.
NoAbandonedRows ==
  Faults \cap {"db", "crash"} = {} => \A r \in Repo : ~abandoned[r]

\* A running attempt never sees its job removed, replaced or settled by
\* somebody else while it holds the lock.
HeldJobIsStable ==
  [][\A r \in Repo, w \in Worker :
       job[r].lock = w /\ wk'[w] = wk[w] =>
         job'[r] = job[r] \/ job'[r] = [job[r] EXCEPT !.lock = NoWorker]]_vars

(***************************************************************************)
(* Queue and workers implement one slot per repository.                    *)
(***************************************************************************)
Phase(j) == CASE j.state = "active" -> "running"
              [] j.state \in {"waiting", "delayed"} -> "queued"
              [] OTHER -> "free"

Holder(j) == IF j.lock \in Worker THEN j.lock ELSE NoWorker

Slot == INSTANCE JobSlot WITH
          phase  <- [r \in Repo |-> Phase(job[r])],
          holder <- [r \in Repo |-> Holder(job[r])],
          work   <- [w \in Worker |-> wk[w].repo]

\* Every behaviour of requests, workers and timers is one of JobSlot's.
SlotSpec == Slot!Spec

(***************************************************************************)
(* Liveness                                                                *)
(***************************************************************************)

\* A pending job does not stay pending: attempts, backoffs, lock expiries and
\* stalled checks end in a settled or removed job whatever faults happen.
JobSettles == \A r \in Repo : Pending(job[r]) ~> ~Pending(job[r])

\* Without faults and disconnects, a connected repository is synced in the
\* end, also when connects and resyncs overlap and lose races to each other.
ConnectedGetsSynced ==
  \A r \in Repo : repo[r].connected ~> repo[r].synced

(***************************************************************************)
(* Claims of the repository's comments                                     *)
(***************************************************************************)

\* queue.service.ts:98-99 says that the purge removes jobs "regardless of
\* state" so that "a later reconnect starts from a clean slate".  What a clean
\* slate is for: once nothing works on a connected repository any more, a
\* repository that reports a sync has all its commits.
StoredWhenQuiet ==
  \A r \in Repo :
    /\ repo[r].connected /\ repo[r].synced
    /\ ~Pending(job[r])
    /\ \A w \in Worker : ~Running(w, r)
    /\ \A q \in Req : req[q].repo # r
    => commits[r] = Batch

(***************************************************************************)
(* The inductive invariant behind the safety theorems, which               *)
(* SyncPipelineProofs proves inductive.                                    *)
(***************************************************************************)

\* A worker has a repository exactly while it runs an attempt.
BusyWorker ==
  \A w \in Worker : wk[w].pc = "idle" <=> wk[w].repo = NoRepo

\* A request has a repository exactly while it is under way.
BusyRequest ==
  \A q \in Req : req[q].pc = "idle" <=> req[q].repo = NoRepo

\* How far the attempt has written, by its place in process().
WritingPhase ==
  \A w \in Worker :
    /\ wk[w].pc \in {"idle", "create", "markRunning", "load", "list", "enrich"}
         => wk[w].next = 1
    /\ wk[w].pc \in {"complete", "touch", "resolve"} => wk[w].next > NumBatches
    /\ wk[w].row = "completed" => wk[w].next > NumBatches

\* The status of the attempt's row, by its place in process().
RowPhase ==
  \A w \in Worker :
    /\ wk[w].pc \in {"idle", "create"} => wk[w].row = "none"
    /\ wk[w].pc \in {"touch", "resolve"} => wk[w].row = "completed"
    /\ wk[w].pc = "reject" /\ "db" \notin Faults =>
         wk[w].row \notin {"queued", "running"}

\* A lock is held on an active job only, and by the worker that runs it.
LockPhase ==
  \A r \in Repo : Locked(job[r]) => job[r].state = "active"

\* A pending job has an attempt left.
AttemptsLeft ==
  \A r \in Repo : Pending(job[r]) => job[r].made < MaxAttempts

\* Without lost locks a running attempt holds the lock of its job.
RunnerHolds ==
  "stall" \notin Faults =>
    \A w \in Worker : wk[w].pc # "idle" => job[wk[w].repo].lock = w

\* The batches an attempt has written are stored, unless it was overtaken.
WrittenStored ==
  \A w \in Worker : wk[w].pc # "idle" /\ ~wk[w].overtaken =>
    1..(wk[w].next - 1) \subseteq commits[wk[w].repo]

\* A synced row read by connect still describes the stored commits, unless a
\* purge made the snapshot suspect.
SnapStored ==
  \A q \in Req : req[q].pc \in ConnectPcs /\ req[q].snap.synced /\ ~req[q].suspect
    => commits[req[q].repo] = Batch

IInv ==
  /\ TypeOK
  /\ BusyWorker
  /\ BusyRequest
  /\ WritingPhase
  /\ RowPhase
  /\ AttemptsLeft
  /\ LockPhase
  /\ HolderRuns
  /\ RunnerHolds
  /\ WrittenStored
  /\ SyncedMeansStored
  /\ SnapStored
  /\ PromisedJobExists
  /\ NoAbandonedRows
=============================================================================
