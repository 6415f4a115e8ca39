------------------------- MODULE SyncPipelineProofs -------------------------
(***************************************************************************)
(* The safety theorems of SyncPipeline, for every number of repositories,  *)
(* requests, workers, batches and attempts and every set of faults.  Every *)
(* conjunct of IInv is preserved by every step; the conjuncts are taken in *)
(* groups that depend on the same variables:                               *)
(*   program counters  BusyWorker, BusyRequest, WritingPhase, RowPhase,    *)
(*                     NoAbandonedRows                                     *)
(*   the queue         AttemptsLeft, LockPhase, HolderRuns, RunnerHolds,   *)
(*                     PromisedJobExists                                   *)
(*   the database      WrittenStored, SyncedMeansStored, SnapStored        *)
(***************************************************************************)
EXTENDS SyncPipeline, TLAPS

(***************************************************************************)
(* Type correctness.  The retry counter stays within MaxAttempts only      *)
(* because a job that is still pending has an attempt left, so             *)
(* AttemptsLeft is carried along.                                          *)
(***************************************************************************)

(***************************************************************************)
(* What the operators of BullJob and SyncState return                      *)
(***************************************************************************)

\* The absent job has the type of a job.
LEMMA NoJobTyped == NoJob \in Job
BY AttemptsAssumption DEF Job, JobState, NoJob

\* Adding, promoting, finishing and unlocking a job give a job.
LEMMA JobOpsTyped ==
  ASSUME NEW j \in Job
  PROVE  /\ Added(j) \in Job
         /\ Promoted(j) \in Job
         /\ Finished(j) \in Job
         /\ [j EXCEPT !.lock = NoWorker] \in Job
         /\ [j EXCEPT !.lock = DeadWorker] \in Job
<1> USE AttemptsAssumption DEF Job, JobState
<1>1. Added(j) \in Job BY DEF Added, NoJob
<1>2. Promoted(j) \in Job BY DEF Promoted
<1>3. Finished(j) \in Job BY DEF Finished
<1>4. [j EXCEPT !.lock = NoWorker] \in Job OBVIOUS
<1>5. [j EXCEPT !.lock = DeadWorker] \in Job OBVIOUS
<1> QED BY <1>1, <1>2, <1>3, <1>4, <1>5

\* A job taken by a worker is a job.
LEMMA TakenTyped ==
  ASSUME NEW j \in Job, NEW w \in Worker
  PROVE  TakenBy(j, w) \in Job
BY DEF TakenBy, Job, JobState

\* The stalled check keeps the stall counter in its range.
LEMMA StalledTyped ==
  ASSUME NEW j \in Job
  PROVE  Stalled(j) \in Job
<1> USE AttemptsAssumption DEF Job, JobState
<1> DEFINE s == j.stalls + 1
<1>1. j.stalls < MaxStalled => s \in 0..MaxStalled OBVIOUS
<1>2. j.stalls < MaxStalled => [j EXCEPT !.state = "waiting", !.stalls = s] \in Job
  BY <1>1
<1>3. [j EXCEPT !.state = "failed"] \in Job OBVIOUS
<1> QED BY <1>2, <1>3 DEF Stalled

\* A failed attempt keeps the attempt counter in its range, provided the job
\* had an attempt left.
LEMMA AttemptFailedTyped ==
  ASSUME NEW j \in Job, j.made < MaxAttempts
  PROVE  AttemptFailed(j) \in Job
<1> USE AttemptsAssumption DEF Job, JobState
<1> DEFINE m == j.made + 1
           st == IF m < MaxAttempts THEN "delayed" ELSE "failed"
<1>1. m \in 0..MaxAttempts OBVIOUS
<1>2. [j EXCEPT !.state = st, !.made = m, !.lock = NoWorker] \in Job
  BY <1>1
<1> QED BY <1>2 DEF AttemptFailed

\* The idle worker has the type of a worker.
LEMMA IdleWorkerTyped == IdleWorker \in Attempt
BY BatchAssumption DEF IdleWorker, Attempt, WorkerPcs, RowStatus

\* The idle request slot has the type of a request.
LEMMA IdleReqTyped == IdleReq \in Request
BY DEF Request, IdleReq, Row, NoRow, ReqPcs

\* Moving a worker to another place keeps the workers typed.
LEMMA StepTyped ==
  ASSUME wk \in [Worker -> Attempt], NEW w \in Worker, NEW pc \in WorkerPcs,
         Step(w, pc)
  PROVE  wk' \in [Worker -> Attempt]
BY DEF Step, Attempt

\* Moving a worker and its sync_jobs row keeps the workers typed.
LEMMA StepWithRowTyped ==
  ASSUME wk \in [Worker -> Attempt], NEW w \in Worker, NEW pc \in WorkerPcs,
         NEW status \in RowStatus, StepWithRow(w, pc, status)
  PROVE  wk' \in [Worker -> Attempt]
BY DEF StepWithRow, Attempt

\* Ending an attempt keeps workers and history typed.
LEMMA EndTyped ==
  ASSUME TypeOK, NEW w \in Worker, EndAttempt(w)
  PROVE  wk' \in [Worker -> Attempt] /\ abandoned' \in [Repo -> BOOLEAN]
BY IdleWorkerTyped DEF TypeOK, EndAttempt

\* Moving a request to another place keeps the requests typed.
LEMMA GotoTyped ==
  ASSUME req \in [Req -> Request], NEW q \in Req, NEW pc \in ReqPcs, Goto(q, pc)
  PROVE  req' \in [Req -> Request]
BY DEF Goto, Request

\* Ending a request keeps the requests typed.
LEMMA ReturnTyped ==
  ASSUME req \in [Req -> Request], NEW q \in Req, Return(q)
  PROVE  req' \in [Req -> Request]
BY IdleReqTyped DEF Return

(***************************************************************************)
(* Attempts                                                                *)
(***************************************************************************)

\* The steps of an attempt preserve TypeOK.
LEMMA AttemptTyped ==
  ASSUME TypeOK, BusyWorker, AttemptsLeft, HolderRuns,
         NEW w \in Worker, AttemptStep(w)
  PROVE  TypeOK'
<1> USE DEF TypeOK
<1> USE DEF WorkerPcs, RowStatus, Throws, unchangedByAttempt
<1>1. CASE CreateJob(w)
  BY <1>1, StepTyped, StepWithRowTyped DEF CreateJob
<1>2. CASE MarkRunning(w)
  BY <1>2, StepTyped, StepWithRowTyped DEF MarkRunning
<1>3. CASE LoadRepo(w)
  BY <1>3, StepTyped DEF LoadRepo
<1>4. CASE ListCommits(w)
  BY <1>4, StepTyped DEF ListCommits
<1>5. CASE EnrichCommits(w)
  BY <1>5, StepTyped DEF EnrichCommits
<1>6. CASE WriteBatch(w)
  <2>1. wk[w] \in Attempt /\ wk[w].next \in Batch /\ wk[w].repo \in Repo
    BY <1>6, BatchAssumption DEF WriteBatch, At, BusyWorker, Attempt, Batch
  <2>2. commits' \in [Repo -> SUBSET Batch]
    BY <1>6, <2>1 DEF WriteBatch
  <2>3. wk' \in [Worker -> Attempt]
    <3>1. wk[w].next + 1 \in 1..NumBatches + 1
      BY <2>1, BatchAssumption DEF Batch
    <3>2. [wk[w] EXCEPT !.next = wk[w].next + 1] \in Attempt
      BY <2>1, <3>1 DEF Attempt
    <3>3. CASE wk' = [wk EXCEPT ![w].next = wk[w].next + 1]
      BY <3>2, <3>3
    <3>4. CASE Step(w, "fail")
      BY <3>4, StepTyped
    <3> QED BY <1>6, <3>3, <3>4 DEF WriteBatch
  <2> QED BY <1>6, <2>2, <2>3 DEF WriteBatch
<1>7. CASE FinalProgress(w)
  BY <1>7, StepTyped DEF FinalProgress
<1>8. CASE MarkCompleted(w)
  BY <1>8, StepTyped, StepWithRowTyped DEF MarkCompleted
<1>9. CASE TouchLastSyncedAt(w)
  <2>1. wk[w].overtaken \in BOOLEAN
    BY DEF Attempt
  <2>2. Step(w, "resolve") \/ Step(w, "fail")
    BY <1>9 DEF TouchLastSyncedAt
  <2>3. wk' \in [Worker -> Attempt]
    BY <2>2, StepTyped
  <2>4. repo' \in [Repo -> Row]
    <3>1. [repo EXCEPT ![wk[w].repo].synced = TRUE] \in [Repo -> Row]
      BY DEF Row
    <3> QED BY <1>9, <3>1 DEF TouchLastSyncedAt
  <2>5. torn' \in [Repo -> BOOLEAN]
    BY <1>9, <2>1 DEF TouchLastSyncedAt
  <2> QED BY <1>9, <2>3, <2>4, <2>5 DEF TouchLastSyncedAt
<1>10. CASE MarkFailed(w)
  BY <1>10, StepTyped, StepWithRowTyped DEF MarkFailed
<1>11. CASE Resolve(w) \/ Reject(w)
  <2> DEFINE r == wk[w].repo
  <2>1. r \in Repo
    BY <1>11 DEF Resolve, Reject, At, BusyWorker, Attempt
  <2>2. PICK outcome \in {Finished(job[r]), AttemptFailed(job[r])} :
          Settle(w, outcome)
    BY <1>11 DEF Resolve, Reject
  <2>3. wk' \in [Worker -> Attempt] /\ abandoned' \in [Repo -> BOOLEAN]
    BY <2>2, EndTyped DEF Settle
  <2>4. CASE job[r].lock = w
    <3>0. job[r].state = "active"
      BY <2>1, <2>4 DEF HolderRuns
    <3>1. job[r] \in Job /\ job[r].made < MaxAttempts
      BY <2>1, <3>0 DEF AttemptsLeft, Pending, ActiveJobStates
    <3>2. outcome \in Job
      BY <3>1, JobOpsTyped, AttemptFailedTyped
    <3>3. job' = [job EXCEPT ![r] = outcome]
      BY <2>2, <2>4 DEF Settle
    <3>4. job' \in [Repo -> Job]
      BY <3>2, <3>3
    <3>5. promised' \in [Repo -> BOOLEAN]
      BY <2>2, <2>4 DEF Settle, Pending
    <3> QED BY <2>2, <2>3, <3>4, <3>5 DEF Settle
  <2>5. CASE job[r].lock # w
    BY <2>2, <2>3, <2>5 DEF Settle
  <2> QED BY <2>4, <2>5
<1> QED
  BY <1>1, <1>2, <1>3, <1>4, <1>5, <1>6, <1>7, <1>8, <1>9, <1>10, <1>11
  DEF AttemptStep

\* Taking jobs, faults and timers preserve TypeOK.
LEMMA QueueTyped ==
  ASSUME TypeOK, BusyWorker,
         \/ \E w \in Worker : WorkerFault(w) \/ \E r \in Repo : Take(w, r)
         \/ \E r \in Repo : QueueTimer(r) \/ DropSettled(r)
  PROVE  TypeOK'
<1> USE DEF TypeOK
<1> USE DEF unchangedByAttempt
<1>1. ASSUME NEW w \in Worker, LoseLock(w) PROVE TypeOK'
  <2>1. wk[w].repo \in Repo
    BY <1>1 DEF LoseLock, At, BusyWorker, Attempt
  <2>2. [job[wk[w].repo] EXCEPT !.lock = NoWorker] \in Job
    BY <2>1, JobOpsTyped
  <2>3. job' \in [Repo -> Job]
    BY <1>1, <2>1, <2>2 DEF LoseLock
  <2> QED BY <1>1, <2>3 DEF LoseLock
<1>2. ASSUME NEW w \in Worker, Crash(w) PROVE TypeOK'
  <2>1. wk[w].repo \in Repo
    BY <1>2 DEF Crash, At, BusyWorker, Attempt
  <2>2. [job[wk[w].repo] EXCEPT !.lock = DeadWorker] \in Job
    BY <2>1, JobOpsTyped
  <2>3. job' \in [Repo -> Job]
    BY <1>2, <2>1, <2>2 DEF Crash
  <2> QED BY <1>2, <2>3, EndTyped DEF Crash
<1>3. ASSUME NEW w \in Worker, NEW r \in Repo, Take(w, r) PROVE TypeOK'
  <2>1. [IdleWorker EXCEPT !.pc = "create", !.repo = r] \in Attempt
    BY IdleWorkerTyped DEF Attempt, WorkerPcs
  <2>2. TakenBy(job[r], w) \in Job
    BY TakenTyped
  <2> QED BY <1>3, <2>1, <2>2 DEF Take
<1>4. ASSUME NEW r \in Repo, PromoteDelayed(r) PROVE TypeOK'
  BY <1>4, JobOpsTyped DEF PromoteDelayed
<1>5. ASSUME NEW r \in Repo, ExpireLock(r) PROVE TypeOK'
  BY <1>5, JobOpsTyped DEF ExpireLock
<1>6. ASSUME NEW r \in Repo, CheckStalled(r) PROVE TypeOK'
  BY <1>6, StalledTyped DEF CheckStalled, Pending
<1>7. ASSUME NEW r \in Repo, DropSettled(r) PROVE TypeOK'
  BY <1>7, NoJobTyped DEF DropSettled
<1> QED
  BY <1>1, <1>2, <1>3, <1>4, <1>5, <1>6, <1>7 DEF WorkerFault, QueueTimer

(***************************************************************************)
(* Requests                                                                *)
(***************************************************************************)

\* The steps of a request preserve TypeOK.
LEMMA RequestTyped ==
  ASSUME TypeOK, BusyRequest, NEW q \in Req, RequestStep(q)
  PROVE  TypeOK'
<1> USE DEF TypeOK
<1> USE DEF unchangedByQueueing
<1> DEFINE r == req[q].repo
<1>a. req[q].pc # "idle" => r \in Repo
  BY DEF BusyRequest, Request
<1>1. CASE ConnectFetch(q)
  BY <1>1, GotoTyped, ReturnTyped DEF ConnectFetch, ReqPcs, ConnectPcs
<1>2. CASE ConnectSave(q)
  <2>1. r \in Repo
    BY <1>2, <1>a DEF ConnectSave
  <2>2. req[q].snap \in Row /\ req[q].suspect \in BOOLEAN /\ req[q].snap.synced \in BOOLEAN
    BY DEF Request, Row
  <2>3. Goto(q, "getJob") \/ Return(q)
    BY <1>2 DEF ConnectSave, CreateNewConnection, ReconnectExisting
  <2>4. req' \in [Req -> Request]
    BY <2>3, GotoTyped, ReturnTyped DEF ReqPcs, QueuePcs
  <2>5. CASE CreateNewConnection(q)
    <3>1. [exists |-> TRUE, connected |-> TRUE, synced |-> FALSE] \in Row
      BY DEF Row
    <3> QED BY <1>2, <2>4, <2>5, <3>1 DEF ConnectSave, CreateNewConnection
  <2>6. CASE ReconnectExisting(q)
    <3>1. [req[q].snap EXCEPT !.connected = TRUE] \in Row
      BY <2>2 DEF Row
    <3>2. (req[q].snap.synced /\ req[q].suspect) \in BOOLEAN
      BY <2>2
    <3> QED BY <1>2, <2>4, <2>6, <3>1, <3>2 DEF ConnectSave, ReconnectExisting
  <2> QED BY <1>2, <2>5, <2>6 DEF ConnectSave
<1>3. CASE GetJob(q)
  BY <1>3, GotoTyped DEF GetJob, ReqPcs, QueuePcs
<1>4. CASE GetState(q)
  BY <1>4, GotoTyped, ReturnTyped DEF GetState, ReqPcs, QueuePcs
<1>5. CASE RemoveOld(q)
  BY <1>5, GotoTyped, ReturnTyped, NoJobTyped DEF RemoveOld, ReqPcs, QueuePcs
<1>6. CASE AddJob(q)
  <2>1. job' \in [Repo -> Job]
    BY <1>6, <1>a, JobOpsTyped DEF AddJob
  <2> QED BY <1>6, <2>1, ReturnTyped DEF AddJob, Pending
<1>7. CASE Unset(q)
  <2>1. repo' \in [Repo -> Row]
    BY <1>7 DEF Unset, Row
  <2>2. Goto(q, "purge")
    BY <1>7 DEF Unset
  <2> QED BY <1>7, <2>1, <2>2, GotoTyped DEF Unset, ReqPcs, PurgePcs
<1>8. CASE Purge(q)
  <2>1. repo' \in [Repo -> Row]
    BY <1>8 DEF Purge, Row
  <2>2. wk' \in [Worker -> Attempt]
    BY <1>8 DEF Purge, Overtake, Attempt
  <2>3. req' \in [Req -> Request]
    BY <1>8 DEF Purge, Overtake, Request, ReqPcs, QueuePcs
  <2>4. commits' \in [Repo -> SUBSET Batch] /\ torn' \in [Repo -> BOOLEAN]
    BY <1>8 DEF Purge, Overtake
  <2> QED BY <1>8, <2>1, <2>2, <2>3, <2>4 DEF Purge
<1>9. CASE FindJobs(q)
  BY <1>9, GotoTyped, ReturnTyped DEF FindJobs, ReqPcs, QueuePcs
<1>10. CASE RemoveJobs(q)
  BY <1>10, ReturnTyped, NoJobTyped DEF RemoveJobs
<1>11. CASE RequestFails(q)
  BY <1>11, ReturnTyped DEF RequestFails
<1> QED
  BY <1>1, <1>2, <1>3, <1>4, <1>5, <1>6, <1>7, <1>8, <1>9, <1>10, <1>11
  DEF RequestStep

\* Accepting a request preserves TypeOK.
LEMMA StartTyped ==
  ASSUME TypeOK, NEW q \in Req, NEW r \in Repo, RequestStart(q, r)
  PROVE  TypeOK'
<1> USE DEF TypeOK
<1>1. CASE ConnectFind(q, r)
  <2>1. [pc |-> "fetch", repo |-> r, snap |-> repo[r], suspect |-> torn[r]] \in Request
    BY DEF Request, ReqPcs, ConnectPcs
  <2> QED BY <1>1, <2>1 DEF ConnectFind
<1>2. CASE ResyncFind(q, r)
  <2>1. [IdleReq EXCEPT !.pc = "getJob", !.repo = r] \in Request
    BY IdleReqTyped DEF Request, ReqPcs, QueuePcs
  <2> QED BY <1>2, <2>1 DEF ResyncFind
<1>3. CASE DisconnectFind(q, r)
  <2>1. [IdleReq EXCEPT !.pc = "unset", !.repo = r] \in Request
    BY IdleReqTyped DEF Request, ReqPcs, PurgePcs
  <2> QED BY <1>3, <2>1 DEF DisconnectFind
<1> QED BY <1>1, <1>2, <1>3 DEF RequestStart

\* The initial state is typed.
LEMMA InitTyped == Init => TypeOK
BY IdleWorkerTyped, IdleReqTyped, NoJobTyped DEF Init, TypeOK, Row, NoRow

\* Every step preserves TypeOK.
LEMMA NextTyped ==
  ASSUME TypeOK, BusyWorker, BusyRequest, AttemptsLeft, HolderRuns, [Next]_vars
  PROVE  TypeOK'
<1>1. CASE Next
  BY <1>1, RequestTyped, StartTyped, AttemptTyped, QueueTyped DEF Next
<1>2. CASE UNCHANGED vars
  BY <1>2 DEF vars, TypeOK
<1> QED BY <1>1, <1>2

(***************************************************************************)
(* What a step does to the fields of a worker and of a request             *)
(***************************************************************************)

\* Step changes the program counter of one worker and nothing else.
LEMMA StepFields ==
  ASSUME wk \in [Worker -> Attempt], NEW w \in Worker, NEW pc, Step(w, pc)
  PROVE  /\ wk'[w].pc = pc /\ wk'[w].repo = wk[w].repo
         /\ wk'[w].next = wk[w].next /\ wk'[w].row = wk[w].row
         /\ wk'[w].overtaken = wk[w].overtaken
         /\ \A v \in Worker : v # w => wk'[v] = wk[v]
BY DEF Step, Attempt

\* StepWithRow also sets the status of the worker's sync_jobs row.
LEMMA StepWithRowFields ==
  ASSUME wk \in [Worker -> Attempt], NEW w \in Worker, NEW pc, NEW status,
         StepWithRow(w, pc, status)
  PROVE  /\ wk'[w].pc = pc /\ wk'[w].repo = wk[w].repo
         /\ wk'[w].next = wk[w].next /\ wk'[w].row = status
         /\ wk'[w].overtaken = wk[w].overtaken
         /\ \A v \in Worker : v # w => wk'[v] = wk[v]
BY DEF StepWithRow, Attempt

\* EndAttempt makes one worker idle.
LEMMA EndFields ==
  ASSUME wk \in [Worker -> Attempt], NEW w \in Worker, EndAttempt(w)
  PROVE  /\ wk'[w] = IdleWorker
         /\ \A v \in Worker : v # w => wk'[v] = wk[v]
BY DEF EndAttempt

\* A purge marks workers as overtaken and touches no other field of them.
LEMMA OvertakeFields ==
  ASSUME wk \in [Worker -> Attempt], NEW q \in Req, NEW r \in Repo, Overtake(q, r)
  PROVE  \A w \in Worker :
           /\ wk'[w].pc = wk[w].pc /\ wk'[w].repo = wk[w].repo
           /\ wk'[w].next = wk[w].next /\ wk'[w].row = wk[w].row
           /\ wk[w].overtaken => wk'[w].overtaken
           /\ wk[w].repo = r /\ wk[w].next > 1 => wk'[w].overtaken
BY DEF Overtake, Attempt, Running

\* Goto changes the program counter of one request and nothing else.
LEMMA GotoFields ==
  ASSUME req \in [Req -> Request], NEW q \in Req, NEW pc, Goto(q, pc)
  PROVE  /\ req'[q].pc = pc /\ req'[q].repo = req[q].repo
         /\ req'[q].snap = req[q].snap /\ req'[q].suspect = req[q].suspect
         /\ \A p \in Req : p # q => req'[p] = req[p]
BY DEF Goto, Request

\* Return makes one request idle.
LEMMA ReturnFields ==
  ASSUME req \in [Req -> Request], NEW q \in Req, Return(q)
  PROVE  /\ req'[q] = IdleReq
         /\ \A p \in Req : p # q => req'[p] = req[p]
BY DEF Return

\* An accepted request carries its repository; connect also what it read.
LEMMA StartFields ==
  ASSUME req \in [Req -> Request], NEW q \in Req, NEW r \in Repo,
         RequestStart(q, r)
  PROVE  /\ req'[q].pc \in {"fetch", "getJob", "unset"} /\ req'[q].repo = r
         /\ req'[q].pc = "fetch" =>
              req'[q].snap = repo[r] /\ req'[q].suspect = torn[r]
         /\ req[q].pc = "idle"
         /\ \A p \in Req : p # q => req'[p] = req[p]
         /\ UNCHANGED <<repo, commits, job, wk, abandoned, promised, torn>>
<1>1. CASE ConnectFind(q, r)
  BY <1>1 DEF ConnectFind
<1>2. CASE ResyncFind(q, r)
  <2>1. req'[q] = [IdleReq EXCEPT !.pc = "getJob", !.repo = r]
    BY <1>2 DEF ResyncFind
  <2>2. req'[q].pc = "getJob" /\ req'[q].repo = r
    BY <2>1 DEF IdleReq
  <2> QED BY <1>2, <2>2 DEF ResyncFind
<1>3. CASE DisconnectFind(q, r)
  <2>1. req'[q] = [IdleReq EXCEPT !.pc = "unset", !.repo = r]
    BY <1>3 DEF DisconnectFind
  <2>2. req'[q].pc = "unset" /\ req'[q].repo = r
    BY <2>1 DEF IdleReq
  <2> QED BY <1>3, <2>2 DEF DisconnectFind
<1> QED BY <1>1, <1>2, <1>3 DEF RequestStart

(***************************************************************************)
(* Program counters                                                        *)
(***************************************************************************)

\* A request leaves every worker where it is; only a purge marks workers.
LEMMA RequestsKeepWorkers ==
  ASSUME TypeOK, BusyRequest,
         \E q \in Req : RequestStep(q) \/ \E r \in Repo : RequestStart(q, r)
  PROVE  /\ \A w \in Worker :
              /\ wk'[w].pc = wk[w].pc /\ wk'[w].repo = wk[w].repo
              /\ wk'[w].next = wk[w].next /\ wk'[w].row = wk[w].row
         /\ abandoned' = abandoned
<1>1. CASE \E q \in Req : Purge(q)
  <2>1. PICK q \in Req : Purge(q) BY <1>1
  <2>2. req[q].repo \in Repo
    BY <2>1 DEF Purge, BusyRequest, TypeOK, Request
  <2>3. Overtake(q, req[q].repo) BY <2>1 DEF Purge
  <2> QED BY <2>1, <2>2, <2>3, OvertakeFields DEF Purge, TypeOK
<1>2. CASE ~\E q \in Req : Purge(q)
  <2>1. wk' = wk /\ abandoned' = abandoned
    BY <1>2 DEF RequestStep, RequestStart, ConnectFetch, ConnectSave, GetJob,
       GetState, RemoveOld, AddJob, Unset, FindJobs, RemoveJobs, RequestFails,
       ConnectFind, ResyncFind, DisconnectFind, unchangedByQueueing
  <2> QED BY <2>1
<1> QED BY <1>1, <1>2

\* The program counter, repository, written batches and row of a worker stay
\* consistent through every step of its attempt.
LEMMA AttemptControl ==
  ASSUME TypeOK, BusyWorker, WritingPhase, RowPhase,
         NEW w \in Worker, AttemptStep(w)
  PROVE  BusyWorker' /\ WritingPhase' /\ RowPhase'
<1> DEFINE Fits(v) ==
      /\ wk'[v].pc = "idle" <=> wk'[v].repo = NoRepo
      /\ wk'[v].pc \in {"idle", "create", "markRunning", "load", "list", "enrich"}
           => wk'[v].next = 1
      /\ wk'[v].pc \in {"complete", "touch", "resolve"} => wk'[v].next > NumBatches
      /\ wk'[v].row = "completed" => wk'[v].next > NumBatches
      /\ wk'[v].pc \in {"idle", "create"} => wk'[v].row = "none"
      /\ wk'[v].pc \in {"touch", "resolve"} => wk'[v].row = "completed"
      /\ wk'[v].pc = "reject" /\ "db" \notin Faults =>
           wk'[v].row \notin {"queued", "running"}
<1> USE DEF BusyWorker, WritingPhase, RowPhase
<1>a. wk \in [Worker -> Attempt] BY DEF TypeOK
<1>b. SUFFICES Fits(w) /\ \A v \in Worker : v # w => wk'[v] = wk[v]
  OBVIOUS
<1> HIDE DEF Fits
<1> USE DEF At, Throws
<1>1. CASE CreateJob(w)
  BY <1>1, <1>a, StepFields, StepWithRowFields DEF CreateJob, Fits
<1>2. CASE MarkRunning(w)
  BY <1>2, <1>a, StepFields, StepWithRowFields DEF MarkRunning, Fits
<1>3. CASE LoadRepo(w)
  BY <1>3, <1>a, StepFields DEF LoadRepo, Fits
<1>4. CASE ListCommits(w)
  BY <1>4, <1>a, StepFields DEF ListCommits, Fits
<1>5. CASE EnrichCommits(w)
  BY <1>5, <1>a, StepFields DEF EnrichCommits, Fits
<1>6. CASE WriteBatch(w)
  <2>1. CASE wk' = [wk EXCEPT ![w].next = wk[w].next + 1]
    <3>1. wk'[w].pc = "write" /\ wk'[w].repo = wk[w].repo /\ wk'[w].row = wk[w].row
      BY <1>6, <1>a, <2>1 DEF WriteBatch, Attempt
    <3>2. wk[w].next <= NumBatches /\ wk[w].next \in 1..NumBatches + 1
      BY <1>6, <1>a DEF WriteBatch, Attempt
    <3>3. wk[w].row # "completed"
      BY <3>2, BatchAssumption
    <3> QED BY <1>6, <2>1, <3>1, <3>3 DEF WriteBatch, Fits
  <2>2. CASE Step(w, "fail")
    BY <1>6, <1>a, <2>2, StepFields DEF WriteBatch, Fits
  <2> QED BY <1>6, <2>1, <2>2 DEF WriteBatch
<1>7. CASE FinalProgress(w)
  BY <1>7, <1>a, StepFields DEF FinalProgress, Fits
<1>8. CASE MarkCompleted(w)
  BY <1>8, <1>a, StepFields, StepWithRowFields DEF MarkCompleted, Fits
<1>9. CASE TouchLastSyncedAt(w)
  BY <1>9, <1>a, StepFields DEF TouchLastSyncedAt, Fits
<1>10. CASE MarkFailed(w)
  BY <1>10, <1>a, StepFields, StepWithRowFields DEF MarkFailed, Fits
<1>11. CASE Resolve(w) \/ Reject(w)
  <2>1. EndAttempt(w)
    BY <1>11 DEF Resolve, Reject, Settle
  <2>2. wk'[w] = IdleWorker /\ \A v \in Worker : v # w => wk'[v] = wk[v]
    BY <1>a, <2>1, EndFields
  <2> QED BY <2>2 DEF Fits, IdleWorker
<1> QED
  BY <1>1, <1>2, <1>3, <1>4, <1>5, <1>6, <1>7, <1>8, <1>9, <1>10, <1>11
  DEF AttemptStep

\* Every step keeps the program counters of the workers consistent.
LEMMA ControlPreserved ==
  ASSUME TypeOK, BusyWorker, BusyRequest, WritingPhase, RowPhase, Next
  PROVE  BusyWorker' /\ WritingPhase' /\ RowPhase'
<1> USE DEF BusyWorker, WritingPhase, RowPhase
<1>1. CASE \E q \in Req : RequestStep(q) \/ \E r \in Repo : RequestStart(q, r)
  BY <1>1, RequestsKeepWorkers
<1>2. CASE \E w \in Worker : AttemptStep(w)
  BY <1>2, AttemptControl
<1>3. CASE \E w \in Worker : Crash(w)
  <2>1. PICK w \in Worker : EndAttempt(w) BY <1>3 DEF Crash
  <2>2. wk'[w] = IdleWorker /\ \A v \in Worker : v # w => wk'[v] = wk[v]
    BY <2>1, EndFields DEF TypeOK
  <2> QED BY <2>2 DEF IdleWorker
<1>4. CASE \E w \in Worker, r \in Repo : Take(w, r)
  <2>1. PICK w \in Worker, r \in Repo : Take(w, r) BY <1>4
  <2>2. wk'[w] = [IdleWorker EXCEPT !.pc = "create", !.repo = r]
    BY <2>1 DEF Take, TypeOK
  <2>3. /\ wk'[w].pc = "create" /\ wk'[w].repo = r
        /\ wk'[w].next = 1 /\ wk'[w].row = "none"
    BY <2>2 DEF IdleWorker
  <2>4. \A v \in Worker : v # w => wk'[v] = wk[v]
    BY <2>1 DEF Take, TypeOK
  <2> QED BY <2>3, <2>4, RepoAssumption
<1>5. CASE wk' = wk
  BY <1>5
<1> QED
  BY <1>1, <1>2, <1>3, <1>4, <1>5
  DEF Next, WorkerFault, LoseLock, QueueTimer, PromoteDelayed, ExpireLock,
      CheckStalled, DropSettled

\* A step that does not concern requests leaves them all as they are.
LEMMA OthersKeepRequests ==
  ASSUME Next, ~\E q \in Req : RequestStep(q) \/ \E r \in Repo : RequestStart(q, r)
  PROVE  req' = req
<1> USE DEF unchangedByAttempt
<1>1. CASE \E w \in Worker : AttemptStep(w)
  BY <1>1 DEF AttemptStep, CreateJob, MarkRunning, LoadRepo, ListCommits,
     EnrichCommits, WriteBatch, FinalProgress, MarkCompleted,
     TouchLastSyncedAt, MarkFailed, Resolve, Reject, Settle
<1>2. CASE ~\E w \in Worker : AttemptStep(w)
  BY <1>2 DEF Next, WorkerFault, LoseLock, Crash, Take, QueueTimer,
     PromoteDelayed, ExpireLock, CheckStalled, DropSettled
<1> QED BY <1>1, <1>2

\* A request has a repository exactly while it is under way.
LEMMA BusyRequestPreserved ==
  ASSUME TypeOK, BusyRequest, Next
  PROVE  BusyRequest'
<1> USE DEF BusyRequest
<1>a. req \in [Req -> Request] BY DEF TypeOK
<1>1. ASSUME NEW q \in Req, RequestStep(q) PROVE BusyRequest'
  <2>1. CASE Return(q)
    BY <1>a, <2>1, ReturnFields DEF IdleReq
  <2>2. CASE req[q].pc # "idle" /\ \E pc \in ReqPcs \ {"idle"} : Goto(q, pc)
    BY <1>a, <2>2, GotoFields
  <2>3. CASE Purge(q)
    <3>1. \A p \in Req : /\ req'[p].repo = req[p].repo
                         /\ req'[p].pc = "idle" <=> req[p].pc = "idle"
      BY <1>a, <2>3 DEF Purge, Overtake, Request
    <3> QED BY <3>1
  <2>4. \/ Return(q) \/ Purge(q)
        \/ req[q].pc # "idle" /\ \E pc \in ReqPcs \ {"idle"} : Goto(q, pc)
    BY <1>1 DEF RequestStep, ConnectFetch, ConnectSave, CreateNewConnection,
       ReconnectExisting, GetJob, GetState, RemoveOld, AddJob, Unset,
       FindJobs, RemoveJobs, RequestFails, ReqPcs, ConnectPcs, QueuePcs, PurgePcs
  <2> QED BY <2>1, <2>2, <2>3, <2>4
<1>2. ASSUME NEW q \in Req, NEW r \in Repo, RequestStart(q, r) PROVE BusyRequest'
  BY <1>a, <1>2, StartFields, RepoAssumption
<1> QED BY <1>1, <1>2, OthersKeepRequests

\* Without crashes and database failures an attempt ends with its row
\* completed or failed.
LEMMA RowsPreserved ==
  ASSUME TypeOK, BusyWorker, BusyRequest, RowPhase, NoAbandonedRows, Next
  PROVE  NoAbandonedRows'
<1> SUFFICES ASSUME Faults \cap {"db", "crash"} = {}, abandoned' # abandoned
             PROVE  \A r \in Repo : ~abandoned'[r]
  BY DEF NoAbandonedRows
<1>1. PICK w \in Worker : Resolve(w) \/ Reject(w)
  <2>1. ~\E q \in Req : RequestStep(q) \/ \E r \in Repo : RequestStart(q, r)
    BY RequestsKeepWorkers
  <2>2. ~\E w \in Worker : Crash(w)
    BY DEF Crash
  <2>3. PICK w \in Worker : AttemptStep(w)
    BY <2>1, <2>2 DEF Next, WorkerFault, LoseLock, Take, QueueTimer,
       PromoteDelayed, ExpireLock, CheckStalled, DropSettled
  <2> QED
    BY <2>3 DEF AttemptStep, CreateJob, MarkRunning, LoadRepo, ListCommits,
       EnrichCommits, WriteBatch, FinalProgress, MarkCompleted,
       TouchLastSyncedAt, MarkFailed
<1>2. EndAttempt(w) /\ wk[w].pc \in {"resolve", "reject"}
  BY <1>1 DEF Resolve, Reject, Settle, At
<1>3. wk[w].row \notin {"queued", "running"}
  BY <1>2 DEF RowPhase
<1>4. abandoned' = [abandoned EXCEPT ![wk[w].repo] = @ \/ FALSE]
  BY <1>2, <1>3 DEF EndAttempt
<1> QED BY <1>4 DEF TypeOK, NoAbandonedRows

(***************************************************************************)
(* The queue                                                               *)
(***************************************************************************)

\* A request removes a job only when no worker holds its lock, and adds one
\* only where there is none.
LEMMA RequestsOnJobs ==
  ASSUME TypeOK, NEW r \in Repo,
         \E q \in Req : RequestStep(q) \/ \E s \in Repo : RequestStart(q, s)
  PROVE  \/ job'[r] = job[r]
         \/ ~Locked(job[r]) /\ job'[r] = NoJob
         \/ job[r].state = "none" /\ job'[r] = [NoJob EXCEPT !.state = "waiting"]
<1>1. PICK q \in Req : RequestStep(q) \/ \E s \in Repo : RequestStart(q, s)
  OBVIOUS
<1>2. CASE RemoveOld(q) \/ RemoveJobs(q)
  BY <1>2 DEF RemoveOld, RemoveJobs, TypeOK
<1>3. CASE AddJob(q)
  BY <1>3 DEF AddJob, Added, TypeOK
<1>4. CASE ~(RemoveOld(q) \/ RemoveJobs(q) \/ AddJob(q))
  <2>1. job' = job
    BY <1>1, <1>4 DEF RequestStep, RequestStart, ConnectFetch, ConnectSave,
       GetJob, GetState, Unset, Purge, FindJobs, RequestFails, ConnectFind,
       ResyncFind, DisconnectFind, unchangedByQueueing
  <2> QED BY <2>1
<1> QED BY <1>2, <1>3, <1>4

\* Until it settles, an attempt touches neither the job nor who runs what.
LEMMA WorkingKeepsJobs ==
  ASSUME TypeOK, NEW w \in Worker, AttemptStep(w), ~Resolve(w), ~Reject(w)
  PROVE  /\ UNCHANGED <<job, promised, abandoned>>
         /\ \A v \in Worker : /\ wk'[v].repo = wk[v].repo
                              /\ wk'[v].pc # "idle" => wk[v].pc # "idle"
<1>a. wk \in [Worker -> Attempt] BY DEF TypeOK
<1>1. UNCHANGED <<job, promised, abandoned>>
  BY DEF AttemptStep, CreateJob, MarkRunning, LoadRepo, ListCommits,
     EnrichCommits, WriteBatch, FinalProgress, MarkCompleted,
     TouchLastSyncedAt, MarkFailed, unchangedByAttempt
<1>2. /\ wk[w].pc # "idle"
      /\ \/ \E pc \in WorkerPcs : Step(w, pc)
         \/ \E pc \in WorkerPcs, status \in RowStatus : StepWithRow(w, pc, status)
         \/ wk' = [wk EXCEPT ![w].next = wk[w].next + 1]
  BY DEF AttemptStep, CreateJob, MarkRunning, LoadRepo, ListCommits,
     EnrichCommits, WriteBatch, FinalProgress, MarkCompleted,
     TouchLastSyncedAt, MarkFailed, Throws, At, WorkerPcs, RowStatus
<1>3. wk'[w].repo = wk[w].repo /\ \A v \in Worker : v # w => wk'[v] = wk[v]
  <2>1. CASE wk' = [wk EXCEPT ![w].next = wk[w].next + 1]
    BY <1>a, <2>1 DEF Attempt
  <2> QED BY <1>a, <1>2, <2>1, StepFields, StepWithRowFields
<1> QED BY <1>1, <1>2, <1>3

LockInv == AttemptsLeft /\ LockPhase /\ HolderRuns /\ RunnerHolds

\* Requests keep the relation between jobs, locks and running attempts.
LEMMA LocksRequests ==
  ASSUME TypeOK, BusyWorker, BusyRequest, LockInv,
         \E q \in Req : RequestStep(q) \/ \E r \in Repo : RequestStart(q, r)
  PROVE  LockInv'
<1> USE DEF LockInv, LockPhase, Locked
<1>a. NoJob.state = "none" /\ NoJob.made = 0 /\ NoJob.lock = NoWorker
  BY DEF NoJob
<1>b. /\ [NoJob EXCEPT !.state = "waiting"].state = "waiting"
      /\ [NoJob EXCEPT !.state = "waiting"].made = 0
      /\ [NoJob EXCEPT !.state = "waiting"].lock = NoWorker
  BY DEF NoJob
<1>1. AttemptsLeft'
  <2> SUFFICES ASSUME NEW r \in Repo, Pending(job'[r])
               PROVE  job'[r].made < MaxAttempts
    BY DEF AttemptsLeft
  <2>1. CASE job'[r] = job[r]
    BY <2>1 DEF AttemptsLeft, Pending
  <2>2. CASE job'[r] # job[r]
    <3>1. job'[r] # NoJob
      BY <1>a DEF Pending, ActiveJobStates
    <3>2. job'[r] = [NoJob EXCEPT !.state = "waiting"]
      BY <2>2, <3>1, RequestsOnJobs
    <3>3. job'[r].made = 0
      BY <3>2, <1>b
    <3> QED BY <3>3, AttemptsAssumption
  <2> QED BY <2>1, <2>2
<1>2. LockPhase'
  BY <1>a, <1>b, RequestsOnJobs
<1>3. HolderRuns'
  <2> SUFFICES ASSUME NEW r \in Repo, job'[r].lock \in Worker
               PROVE  job'[r].state = "active" /\ wk'[job'[r].lock].repo = r
    BY DEF HolderRuns, Running
  <2>1. job'[r] = job[r]
    BY <1>a, <1>b, RequestsOnJobs, WorkerAssumption
  <2>2. job[r].state = "active" /\ wk[job[r].lock].repo = r
    BY <2>1 DEF HolderRuns, Running
  <2> QED BY <2>1, <2>2, RequestsKeepWorkers
<1>4. RunnerHolds'
  <2> SUFFICES ASSUME "stall" \notin Faults, NEW w \in Worker, wk'[w].pc # "idle"
               PROVE  job'[wk'[w].repo].lock = w
    BY DEF RunnerHolds
  <2>1. wk[w].pc # "idle" /\ wk'[w].repo = wk[w].repo
    BY RequestsKeepWorkers
  <2>2. wk[w].repo \in Repo
    BY <2>1 DEF BusyWorker, TypeOK, Attempt
  <2>3. job[wk[w].repo].lock = w
    BY <2>1 DEF RunnerHolds
  <2>4. job'[wk[w].repo] = job[wk[w].repo]
    BY <2>2, <2>3, <1>a, RequestsOnJobs, WorkerAssumption
  <2> QED BY <2>1, <2>3, <2>4
<1> QED BY <1>1, <1>2, <1>3, <1>4

\* Settling keeps the relation: it gives up the job, the lock and the attempt
\* together, and it needs the lock.
LEMMA LocksSettle ==
  ASSUME TypeOK, BusyWorker, LockInv, NEW w \in Worker, Resolve(w) \/ Reject(w)
  PROVE  LockInv'
<1> USE DEF LockInv
<1> DEFINE r == wk[w].repo
<1>1. r \in Repo
  BY DEF Resolve, Reject, At, BusyWorker, TypeOK, Attempt
<1>2. wk'[w] = IdleWorker /\ \A v \in Worker : v # w => wk'[v] = wk[v]
  BY EndFields DEF Resolve, Reject, Settle, TypeOK
<1>3. CASE job[r].lock = w
  <2>1. job[r].state = "active" /\ job[r].made < MaxAttempts
    BY <1>1, <1>3 DEF HolderRuns, AttemptsLeft, Pending, ActiveJobStates
  <2>2. PICK outcome \in {Finished(job[r]), AttemptFailed(job[r])} :
          job' = [job EXCEPT ![r] = outcome]
    BY <1>3 DEF Resolve, Reject, Settle
  <2>3. outcome.lock = NoWorker /\ (Pending(outcome) => outcome.made < MaxAttempts)
    BY <1>1, <2>1 DEF Finished, AttemptFailed, Pending, ActiveJobStates, TypeOK, Job
  <2>4. job'[r] = outcome /\ \A s \in Repo : s # r => job'[s] = job[s]
    BY <1>1, <2>2 DEF TypeOK
  <2>5. AttemptsLeft' /\ LockPhase'
    BY <2>3, <2>4 DEF AttemptsLeft, LockPhase, Locked
  <2>6. HolderRuns'
    <3> SUFFICES ASSUME NEW s \in Repo, job'[s].lock \in Worker
                 PROVE  job'[s].state = "active" /\ wk'[job'[s].lock].repo = s
      BY DEF HolderRuns, Running
    <3>1. s # r /\ job'[s] = job[s]
      BY <2>3, <2>4, WorkerAssumption
    <3>2. job[s].state = "active" /\ wk[job[s].lock].repo = s
      BY <3>1 DEF HolderRuns, Running
    <3> QED BY <3>1, <3>2, <1>2
  <2>7. RunnerHolds'
    <3> SUFFICES ASSUME "stall" \notin Faults, NEW v \in Worker, wk'[v].pc # "idle"
                 PROVE  job'[wk'[v].repo].lock = v
      BY DEF RunnerHolds
    <3>1. v # w /\ wk'[v] = wk[v]
      BY <1>2 DEF IdleWorker
    <3>2. wk[v].repo \in Repo /\ job[wk[v].repo].lock = v
      BY <3>1 DEF RunnerHolds, BusyWorker, TypeOK, Attempt
    <3> QED BY <1>3, <2>4, <3>1, <3>2
  <2> QED BY <2>5, <2>6, <2>7
<1>4. CASE job[r].lock # w
  <2>1. job' = job
    BY <1>4 DEF Resolve, Reject, Settle
  <2>2. HolderRuns'
    BY <2>1, <1>2, <1>4 DEF HolderRuns, Running
  <2>3. RunnerHolds'
    BY <2>1, <1>2 DEF RunnerHolds, IdleWorker
  <2> QED BY <2>1, <2>2, <2>3 DEF AttemptsLeft, LockPhase, Locked
<1> QED BY <1>3, <1>4

\* The rest of BullMQ keeps the relation: take, lost and expired locks,
\* crashes, backoffs, the stalled check and retention.
LEMMA LocksQueue ==
  ASSUME TypeOK, BusyWorker, LockInv,
         \/ \E w \in Worker : WorkerFault(w) \/ \E r \in Repo : Take(w, r)
         \/ \E r \in Repo : QueueTimer(r) \/ DropSettled(r)
  PROVE  LockInv'
<1> USE DEF LockInv
<1>1. ASSUME NEW w \in Worker, NEW r \in Repo, Take(w, r) PROVE LockInv'
  <2>1. job[r].state = "waiting" /\ wk[w].pc = "idle"
    BY <1>1 DEF Take, At
  <2>2. /\ job'[r] = TakenBy(job[r], w)
        /\ \A s \in Repo : s # r => job'[s] = job[s]
    BY <1>1 DEF Take, TypeOK
  <2>3. job'[r].state = "active" /\ job'[r].lock = w /\ job'[r].made = job[r].made
    BY <2>2 DEF TakenBy, TypeOK, Job
  <2>4. wk'[w].repo = r /\ \A v \in Worker : v # w => wk'[v] = wk[v]
    BY <1>1 DEF Take, TypeOK, IdleWorker
  <2>5. \A s \in Repo : job[s].lock # w
    BY <2>1, RepoAssumption DEF HolderRuns, Running, BusyWorker
  <2>6. AttemptsLeft'
    BY <2>1, <2>2, <2>3 DEF AttemptsLeft, Pending, ActiveJobStates
  <2>7. LockPhase'
    BY <2>2, <2>3 DEF LockPhase, Locked
  <2>8. HolderRuns'
    BY <2>2, <2>3, <2>4, <2>5 DEF HolderRuns, Running
  <2>9. RunnerHolds'
    <3> SUFFICES ASSUME "stall" \notin Faults, NEW v \in Worker, v # w,
                        wk[v].pc # "idle"
                 PROVE  job'[wk[v].repo].lock = v
      BY <2>3, <2>4 DEF RunnerHolds
    <3>1. wk[v].repo \in Repo /\ job[wk[v].repo].lock = v
      BY DEF RunnerHolds, BusyWorker, TypeOK, Attempt
    <3>2. wk[v].repo # r
      BY <2>1, <3>1, WorkerAssumption DEF LockPhase, Locked
    <3> QED BY <2>2, <3>1, <3>2
  <2> QED BY <2>6, <2>7, <2>8, <2>9
<1>2. ASSUME NEW w \in Worker, LoseLock(w) PROVE LockInv'
  <2> DEFINE r == wk[w].repo
  <2>1. r \in Repo /\ job[r].lock = w /\ "stall" \in Faults /\ wk' = wk
    BY <1>2 DEF LoseLock, At, BusyWorker, TypeOK, Attempt
  <2>2. /\ job'[r].state = job[r].state /\ job'[r].made = job[r].made
        /\ job'[r].lock = NoWorker
        /\ \A s \in Repo : s # r => job'[s] = job[s]
    BY <1>2, <2>1 DEF LoseLock, TypeOK, Job
  <2>3. AttemptsLeft' /\ LockPhase'
    BY <2>2 DEF AttemptsLeft, LockPhase, Pending, Locked
  <2>4. HolderRuns' /\ RunnerHolds'
    BY <2>1, <2>2, WorkerAssumption DEF HolderRuns, RunnerHolds, Running
  <2> QED BY <2>3, <2>4
<1>3. ASSUME NEW w \in Worker, Crash(w) PROVE LockInv'
  <2> DEFINE r == wk[w].repo
  <2>1. r \in Repo
    BY <1>3 DEF Crash, At, BusyWorker, TypeOK, Attempt
  <2>2. wk'[w] = IdleWorker /\ \A v \in Worker : v # w => wk'[v] = wk[v]
    BY <1>3, EndFields DEF Crash, TypeOK
  <2>3. /\ job'[r].state = job[r].state /\ job'[r].made = job[r].made
        /\ job'[r].lock = IF job[r].lock = w THEN DeadWorker ELSE job[r].lock
        /\ \A s \in Repo : s # r => job'[s] = job[s]
    BY <1>3, <2>1 DEF Crash, TypeOK, Job
  <2>4. AttemptsLeft'
    BY <2>3 DEF AttemptsLeft, Pending
  <2>5. LockPhase'
    BY <2>3, WorkerAssumption DEF LockPhase, Locked
  <2>6. HolderRuns'
    <3> SUFFICES ASSUME NEW s \in Repo, job'[s].lock \in Worker
                 PROVE  job'[s].state = "active" /\ wk'[job'[s].lock].repo = s
      BY DEF HolderRuns, Running
    <3>1. job'[s].lock = job[s].lock /\ job'[s].state = job[s].state
      BY <2>3, WorkerAssumption
    <3>2. job[s].state = "active" /\ wk[job[s].lock].repo = s
      BY <3>1 DEF HolderRuns, Running
    <3>3. job[s].lock # w
      BY <2>3, <3>1, <3>2, WorkerAssumption
    <3> QED BY <2>2, <3>1, <3>2, <3>3
  <2>7. RunnerHolds'
    <3> SUFFICES ASSUME "stall" \notin Faults, NEW v \in Worker, wk'[v].pc # "idle"
                 PROVE  job'[wk'[v].repo].lock = v
      BY DEF RunnerHolds
    <3>1. v # w /\ wk'[v] = wk[v]
      BY <2>2 DEF IdleWorker
    <3>2. wk[v].repo \in Repo /\ job[wk[v].repo].lock = v
      BY <3>1 DEF RunnerHolds, BusyWorker, TypeOK, Attempt
    <3> QED BY <2>3, <3>1, <3>2
  <2> QED BY <2>4, <2>5, <2>6, <2>7
<1>4. ASSUME NEW r \in Repo, QueueTimer(r) \/ DropSettled(r) PROVE LockInv'
  <2>1. /\ wk' = wk
        /\ \A s \in Repo : s # r => job'[s] = job[s]
    BY <1>4 DEF QueueTimer, PromoteDelayed, ExpireLock, CheckStalled,
       DropSettled, TypeOK
  <2>2. /\ job[r].lock \notin Worker /\ job'[r].lock \in {NoWorker, DeadWorker}
        /\ Locked(job'[r]) => job'[r].state = "active"
        /\ Pending(job'[r]) => Pending(job[r]) /\ job'[r].made = job[r].made
    <3> USE DEF Pending, ActiveJobStates, Locked, TypeOK, Job
    <3>1. CASE PromoteDelayed(r)
      BY <3>1, WorkerAssumption DEF PromoteDelayed, Promoted, LockPhase
    <3>2. CASE ExpireLock(r)
      BY <3>2, WorkerAssumption DEF ExpireLock, LockPhase
    <3>3. CASE CheckStalled(r)
      BY <3>3, WorkerAssumption DEF CheckStalled, Stalled
    <3>4. CASE DropSettled(r)
      BY <3>4, WorkerAssumption DEF DropSettled, Terminal, NoJob, LockPhase
    <3> QED BY <1>4, <3>1, <3>2, <3>3, <3>4 DEF QueueTimer
  <2>3. AttemptsLeft' /\ LockPhase'
    BY <2>1, <2>2 DEF AttemptsLeft, LockPhase
  <2>4. HolderRuns'
    BY <2>1, <2>2, WorkerAssumption DEF HolderRuns, Running
  <2>5. RunnerHolds'
    <3> SUFFICES ASSUME "stall" \notin Faults, NEW v \in Worker, wk[v].pc # "idle"
                 PROVE  job'[wk[v].repo].lock = v
      BY <2>1 DEF RunnerHolds
    <3>1. wk[v].repo \in Repo /\ job[wk[v].repo].lock = v
      BY DEF RunnerHolds, BusyWorker, TypeOK, Attempt
    <3> QED BY <2>1, <2>2, <3>1
  <2> QED BY <2>3, <2>4, <2>5
<1> QED BY <1>1, <1>2, <1>3, <1>4 DEF WorkerFault

\* Every step keeps the relation between jobs, locks and running attempts.
LEMMA LocksPreserved ==
  ASSUME TypeOK, BusyWorker, BusyRequest, LockInv, Next
  PROVE  LockInv'
<1>1. CASE \E q \in Req : RequestStep(q) \/ \E r \in Repo : RequestStart(q, r)
  BY <1>1, LocksRequests
<1>2. ASSUME NEW w \in Worker, AttemptStep(w) PROVE LockInv'
  <2>1. CASE Resolve(w) \/ Reject(w)
    BY <2>1, LocksSettle
  <2>2. CASE ~Resolve(w) /\ ~Reject(w)
    BY <1>2, <2>2, WorkingKeepsJobs
    DEF LockInv, AttemptsLeft, LockPhase, HolderRuns, RunnerHolds, Running
  <2> QED BY <2>1, <2>2
<1>3. CASE \/ \E w \in Worker : WorkerFault(w) \/ \E r \in Repo : Take(w, r)
           \/ \E r \in Repo : QueueTimer(r) \/ DropSettled(r)
  BY <1>3, LocksQueue
<1> QED BY <1>1, <1>2, <1>3 DEF Next

\* A step of one request leaves the others where they are.
LEMMA OtherRequestsStay ==
  ASSUME TypeOK, NEW q \in Req, RequestStep(q)
  PROVE  \A p \in Req : p # q =>
           /\ req'[p].pc = req[p].pc /\ req'[p].repo = req[p].repo
           /\ req'[p].snap = req[p].snap
           /\ req[p].suspect => req'[p].suspect
<1>a. req \in [Req -> Request] BY DEF TypeOK
<1>1. CASE Purge(q)
  BY <1>a, <1>1 DEF Purge, Overtake, Request
<1>2. CASE ~Purge(q)
  <2>1. Return(q) \/ \E pc \in ReqPcs : Goto(q, pc)
    BY <1>2 DEF RequestStep, ConnectFetch, ConnectSave, CreateNewConnection,
       ReconnectExisting, GetJob, GetState, RemoveOld, AddJob, Unset,
       FindJobs, RemoveJobs, RequestFails, ReqPcs, ConnectPcs, QueuePcs, PurgePcs
  <2> QED BY <1>a, <2>1, GotoFields, ReturnFields
<1> QED BY <1>1, <1>2

\* A job some call reported as pending is there, or is about to be added.
LEMMA PromisePreserved ==
  ASSUME TypeOK, BusyWorker, BusyRequest, PromisedJobExists, Next
  PROVE  PromisedJobExists'
<1> SUFFICES ASSUME Faults \cap {"redis", "crash"} = {},
                    NEW r \in Repo, promised'[r]
             PROVE  \/ Pending(job'[r])
                    \/ \E q \in Req : req'[q].pc = "addJob" /\ req'[q].repo = r
  BY DEF PromisedJobExists
<1>a. promised[r] => \/ Pending(job[r])
                     \/ \E q \in Req : req[q].pc = "addJob" /\ req[q].repo = r
  BY DEF PromisedJobExists
<1>1. ASSUME NEW q \in Req, RequestStep(q)
      PROVE  \/ Pending(job'[r])
             \/ \E p \in Req : req'[p].pc = "addJob" /\ req'[p].repo = r
  <2>1. \A p \in Req : p # q => req'[p].pc = req[p].pc /\ req'[p].repo = req[p].repo
    BY <1>1, OtherRequestsStay
  <2>2. CASE AddJob(q)
    <3>1. CASE req[q].repo = r
      BY <2>2, <3>1 DEF AddJob, TypeOK
    <3>2. CASE req[q].repo # r
      <4>1. job'[r] = job[r] /\ promised[r]
        BY <2>2, <3>2 DEF AddJob, TypeOK
      <4> QED BY <4>1, <3>2, <1>a, <2>1
    <3> QED BY <3>1, <3>2
  <2>3. CASE RemoveOld(q)
    <3>1. req[q].pc = "removeOld" /\ promised[r]
      BY <2>3 DEF RemoveOld
    <3>2. CASE job'[r] = job[r]
      BY <3>1, <3>2, <1>a, <2>1
    <3>3. CASE job'[r] # job[r]
      <4>1. Goto(q, "addJob") /\ req[q].repo = r
        BY <2>3, <3>3 DEF RemoveOld, TypeOK
      <4>2. req'[q].pc = "addJob" /\ req'[q].repo = r
        BY <4>1, GotoFields DEF TypeOK
      <4> QED BY <4>2
    <3> QED BY <3>2, <3>3
  <2>4. CASE RemoveJobs(q)
    <3>1. job'[r] = job[r] /\ promised[r] /\ req[q].pc = "removeJobs"
      BY <2>4 DEF RemoveJobs, TypeOK
    <3> QED BY <3>1, <1>a, <2>1
  <2>5. CASE GetState(q)
    <3>1. job' = job /\ req[q].pc = "getState"
          /\ (Pending(job[r]) \/ promised[r])
      BY <2>5 DEF GetState, TypeOK
    <3> QED BY <3>1, <1>a, <2>1
  <2>6. CASE ~(AddJob(q) \/ RemoveOld(q) \/ RemoveJobs(q) \/ GetState(q))
    <3>1. job' = job /\ promised' = promised /\ req[q].pc # "addJob"
      BY <1>1, <2>6 DEF RequestStep, ConnectFetch, ConnectSave, GetJob, Unset,
         Purge, FindJobs, RequestFails, unchangedByQueueing, PurgePcs
    <3> QED BY <3>1, <1>a, <2>1
  <2> QED BY <2>2, <2>3, <2>4, <2>5, <2>6
<1>2. ASSUME NEW q \in Req, NEW s \in Repo, RequestStart(q, s)
      PROVE  \/ Pending(job'[r])
             \/ \E p \in Req : req'[p].pc = "addJob" /\ req'[p].repo = r
  BY <1>2, <1>a, StartFields DEF TypeOK
<1>3. ASSUME ~\E q \in Req : RequestStep(q) \/ \E s \in Repo : RequestStart(q, s)
      PROVE  \/ Pending(job'[r])
             \/ \E p \in Req : req'[p].pc = "addJob" /\ req'[p].repo = r
  <2>1. req' = req BY <1>3, OthersKeepRequests
  <2>2. promised[r] /\ (Pending(job[r]) => Pending(job'[r]))
    <3>1. CASE \E w \in Worker : AttemptStep(w)
      <4>1. PICK w \in Worker : AttemptStep(w) BY <3>1
      <4>2. CASE ~Resolve(w) /\ ~Reject(w)
        BY <4>1, <4>2, WorkingKeepsJobs
      <4>3. CASE Resolve(w) \/ Reject(w)
        <5>1. PICK outcome : Settle(w, outcome)
          BY <4>3 DEF Resolve, Reject
        <5> QED BY <5>1 DEF Settle, TypeOK
      <4> QED BY <4>2, <4>3
    <3>2. CASE ~\E w \in Worker : AttemptStep(w)
      <4> USE DEF Pending, ActiveJobStates, TypeOK, Job, unchangedByAttempt
      <4>1. CASE \E w \in Worker : LoseLock(w)
        BY <4>1 DEF LoseLock
      <4>2. CASE \E w \in Worker : Crash(w)
        BY <4>2 DEF Crash
      <4>3. CASE \E w \in Worker, s \in Repo : Take(w, s)
        BY <4>3 DEF Take, TakenBy
      <4>4. CASE \E s \in Repo : PromoteDelayed(s)
        BY <4>4 DEF PromoteDelayed, Promoted
      <4>5. CASE \E s \in Repo : ExpireLock(s)
        BY <4>5 DEF ExpireLock
      <4>6. CASE \E s \in Repo : CheckStalled(s)
        BY <4>6 DEF CheckStalled
      <4>7. CASE \E s \in Repo : DropSettled(s)
        BY <4>7 DEF DropSettled, Terminal
      <4> QED
        BY <1>3, <3>2, <4>1, <4>2, <4>3, <4>4, <4>5, <4>6, <4>7
        DEF Next, WorkerFault, QueueTimer
    <3> QED BY <3>1, <3>2
  <2> QED BY <2>1, <2>2, <1>a
<1> QED BY <1>1, <1>2, <1>3

(***************************************************************************)
(* The database                                                            *)
(***************************************************************************)

StoreInv == WrittenStored /\ SyncedMeansStored /\ SnapStored

\* A purge marks every attempt and every snapshot it makes stale.
LEMMA StoredPurge ==
  ASSUME TypeOK, BusyWorker, BusyRequest, StoreInv, NEW q \in Req, Purge(q)
  PROVE  StoreInv'
<1> USE DEF StoreInv
<1> DEFINE r == req[q].repo
<1>1. r \in Repo
  BY DEF Purge, BusyRequest, TypeOK, Request
<1>2. commits'[r] = {} /\ \A s \in Repo : s # r => commits'[s] = commits[s]
  BY <1>1 DEF Purge, TypeOK
<1>3. repo'[r].synced = FALSE /\ \A s \in Repo : s # r => repo'[s] = repo[s]
  BY <1>1 DEF Purge, TypeOK, Row
<1>4. \A s \in Repo : s # r => torn'[s] = torn[s]
  BY <1>1 DEF Purge, Overtake, TypeOK
<1>5. WrittenStored'
  <2> SUFFICES ASSUME NEW w \in Worker, wk'[w].pc # "idle", ~wk'[w].overtaken
               PROVE  1..(wk'[w].next - 1) \subseteq commits'[wk'[w].repo]
    BY DEF WrittenStored
  <2>1. /\ wk'[w].pc = wk[w].pc /\ wk'[w].repo = wk[w].repo
        /\ wk'[w].next = wk[w].next /\ ~wk[w].overtaken
        /\ ~(wk[w].repo = r /\ wk[w].next > 1)
    BY <1>1, OvertakeFields DEF Purge, TypeOK
  <2>2. wk[w].repo \in Repo /\ wk[w].next \in 1..NumBatches + 1
    BY <2>1 DEF BusyWorker, TypeOK, Attempt
  <2>3. CASE wk[w].repo = r
    <3>1. 1..(wk[w].next - 1) = {}
      BY <2>1, <2>2, <2>3, BatchAssumption
    <3> QED BY <2>1, <3>1
  <2>4. CASE wk[w].repo # r
    BY <1>2, <2>1, <2>2, <2>4 DEF WrittenStored
  <2> QED BY <2>3, <2>4
<1>6. SyncedMeansStored'
  BY <1>2, <1>3, <1>4 DEF SyncedMeansStored
<1>7. SnapStored'
  <2> SUFFICES ASSUME NEW p \in Req, req'[p].pc \in ConnectPcs,
                      req'[p].snap.synced, ~req'[p].suspect
               PROVE  commits'[req'[p].repo] = Batch
    BY DEF SnapStored
  <2>1. p # q
    BY DEF Purge, Overtake, TypeOK, Request, ConnectPcs
  <2>2. /\ req'[p].pc = req[p].pc /\ req'[p].repo = req[p].repo
        /\ req'[p].snap = req[p].snap
        /\ ~(req[p].suspect \/ (req[p].repo = r /\ req[p].pc \in ConnectPcs))
    BY <2>1 DEF Purge, Overtake, TypeOK, Request
  <2>3. req[p].repo # r /\ req[p].repo \in Repo
    BY <2>2 DEF BusyRequest, TypeOK, Request, ConnectPcs
  <2> QED BY <1>2, <2>2, <2>3 DEF SnapStored
<1> QED BY <1>5, <1>6, <1>7

\* The other requests: reconnectExisting saves a snapshot that is suspect when
\* it is stale.
LEMMA StoredRequests ==
  ASSUME TypeOK, BusyWorker, BusyRequest, StoreInv,
         NEW q \in Req, RequestStep(q), ~Purge(q)
  PROVE  StoreInv'
<1> USE DEF StoreInv
<1>a. req \in [Req -> Request] BY DEF TypeOK
<1>1. wk' = wk /\ commits' = commits
  BY DEF RequestStep, ConnectFetch, ConnectSave, GetJob,
     GetState, RemoveOld, AddJob, Unset, FindJobs, RemoveJobs, RequestFails,
     unchangedByQueueing
<1>2. WrittenStored'
  BY <1>1 DEF WrittenStored
<1>3. SyncedMeansStored'
  <2>1. CASE CreateNewConnection(q)
    <3>1. \A r \in Repo : repo'[r].synced => repo'[r] = repo[r]
      BY <2>1 DEF CreateNewConnection, TypeOK
    <3> QED BY <1>1, <2>1, <3>1 DEF CreateNewConnection, SyncedMeansStored
  <2>2. CASE req[q].pc = "save" /\ ReconnectExisting(q)
    <3> DEFINE r == req[q].repo
    <3>1. r \in Repo
      BY <2>2 DEF BusyRequest, TypeOK, Request
    <3>2. /\ repo'[r].synced = req[q].snap.synced
          /\ \A s \in Repo : s # r => repo'[s] = repo[s]
      BY <1>a, <2>2, <3>1 DEF ReconnectExisting, TypeOK, Request, Row
    <3>3. /\ torn'[r] = (req[q].snap.synced /\ req[q].suspect)
          /\ \A s \in Repo : s # r => torn'[s] = torn[s]
      BY <2>2, <3>1 DEF ReconnectExisting, TypeOK
    <3>4. repo'[r].synced /\ ~torn'[r] => commits[r] = Batch
      BY <2>2, <3>2, <3>3 DEF SnapStored, ConnectPcs
    <3> QED BY <1>1, <3>2, <3>3, <3>4 DEF SyncedMeansStored
  <2>3. CASE Unset(q)
    <3>1. \A r \in Repo : repo'[r].synced = repo[r].synced
      BY <2>3 DEF Unset, TypeOK, Row
    <3> QED BY <1>1, <2>3, <3>1 DEF Unset, SyncedMeansStored
  <2>4. CASE ~ConnectSave(q) /\ ~Unset(q)
    <3>1. repo' = repo /\ torn' = torn
      BY <2>4 DEF RequestStep, ConnectFetch, GetJob, GetState, RemoveOld,
         AddJob, FindJobs, RemoveJobs, RequestFails, unchangedByQueueing
    <3> QED BY <1>1, <3>1 DEF SyncedMeansStored
  <2> QED BY <2>1, <2>2, <2>3, <2>4 DEF ConnectSave
<1>4. SnapStored'
  <2>1. \/ Return(q)
        \/ req[q].pc = "fetch" /\ Goto(q, "save")
        \/ \E pc \in ReqPcs \ ConnectPcs : Goto(q, pc)
    BY DEF RequestStep, ConnectFetch, ConnectSave, CreateNewConnection,
       ReconnectExisting, GetJob, GetState, RemoveOld, AddJob, Unset,
       FindJobs, RemoveJobs, RequestFails, ReqPcs, ConnectPcs, QueuePcs, PurgePcs
  <2>2. \A p \in Req : req'[p].pc \in ConnectPcs =>
          /\ req[p].pc \in ConnectPcs /\ req'[p].repo = req[p].repo
          /\ req'[p].snap = req[p].snap /\ req'[p].suspect = req[p].suspect
    BY <1>a, <2>1, GotoFields, ReturnFields DEF IdleReq, ConnectPcs
  <2> QED BY <1>1, <2>2 DEF SnapStored
<1> QED BY <1>2, <1>3, <1>4

\* An attempt only adds commits, and sets lastSyncedAt after the last batch.
LEMMA StoredAttempt ==
  ASSUME TypeOK, BusyWorker, BusyRequest, WritingPhase, StoreInv,
         NEW w \in Worker, AttemptStep(w)
  PROVE  StoreInv'
<1> USE DEF StoreInv
<1>a. wk \in [Worker -> Attempt] BY DEF TypeOK
<1>1. CASE WriteBatch(w) /\ commits' # commits
  <2> DEFINE r == wk[w].repo
             b == wk[w].next
  <2>1. r \in Repo /\ b \in Batch
    BY <1>a, <1>1 DEF WriteBatch, At, BusyWorker, Attempt, Batch
  <2>2. /\ commits' = [commits EXCEPT ![r] = @ \cup {b}]
        /\ wk' = [wk EXCEPT ![w].next = b + 1]
        /\ UNCHANGED <<repo, req, torn>>
    BY <1>1 DEF WriteBatch, unchangedByAttempt
  <2>3. /\ commits'[r] = commits[r] \cup {b}
        /\ \A s \in Repo : s # r => commits'[s] = commits[s]
        /\ \A s \in Repo : commits[s] \subseteq Batch
    BY <2>1, <2>2 DEF TypeOK
  <2>4. /\ wk'[w].pc = wk[w].pc /\ wk'[w].repo = r
        /\ wk'[w].next = b + 1 /\ wk'[w].overtaken = wk[w].overtaken
        /\ \A v \in Worker : v # w => wk'[v] = wk[v]
    BY <1>a, <2>2 DEF Attempt
  <2>5. \A s \in Repo : commits[s] \subseteq commits'[s]
    BY <2>3
  <2>6. WrittenStored'
    <3> SUFFICES ASSUME NEW v \in Worker, wk'[v].pc # "idle", ~wk'[v].overtaken
                 PROVE  1..(wk'[v].next - 1) \subseteq commits'[wk'[v].repo]
      BY DEF WrittenStored
    <3>0. wk[v].pc # "idle" /\ ~wk[v].overtaken
      BY <2>4
    <3>1. 1..(wk[v].next - 1) \subseteq commits[wk[v].repo] /\ wk[v].repo \in Repo
      BY <1>a, <3>0 DEF WrittenStored, BusyWorker, Attempt
    <3>2. CASE v = w
      <4>2. wk'[v].repo = r /\ wk'[v].next = b + 1
        BY <2>4, <3>2
      <4>3. 1..(b - 1) \subseteq commits[r]
        BY <3>1, <3>2
      <4>4. 1..(wk'[v].next - 1) \subseteq 1..(b - 1) \cup {b}
        <5>1. PICK n \in Nat : n = wk'[v].next /\ n = b + 1
          BY <4>2, <2>1, BatchAssumption DEF Batch
        <5>2. n - 1 = b /\ b \in Nat /\ b >= 1
          BY <5>1, <2>1, BatchAssumption DEF Batch
        <5>3. 1..(n - 1) \subseteq 1..(b - 1) \cup {b}
          BY <5>2
        <5> QED BY <5>1, <5>3
      <4> QED BY <2>3, <4>2, <4>3, <4>4
    <3>3. CASE v # w
      <4>1. wk'[v].repo = wk[v].repo /\ wk'[v].next = wk[v].next
        BY <2>4, <3>3
      <4> QED BY <2>5, <3>1, <4>1
    <3> QED BY <3>2, <3>3
  <2>7. \A s \in Repo : commits[s] = Batch => commits'[s] = Batch
    BY <2>1, <2>3
  <2>8. SyncedMeansStored'
    BY <2>2, <2>7 DEF SyncedMeansStored
  <2>9. SnapStored'
    <3>1. \A q \in Req : req[q].pc \in ConnectPcs => req[q].repo \in Repo
      BY DEF BusyRequest, TypeOK, Request, ConnectPcs
    <3> QED BY <2>2, <2>7, <3>1 DEF SnapStored
  <2> QED BY <2>6, <2>8, <2>9
<1>2. CASE TouchLastSyncedAt(w)
  <2> DEFINE r == wk[w].repo
  <2>1. r \in Repo /\ wk[w].next = NumBatches + 1
    BY <1>a, <1>2, BatchAssumption
    DEF TouchLastSyncedAt, At, BusyWorker, WritingPhase, Attempt
  <2>2. commits' = commits /\ req' = req
    BY <1>2 DEF TouchLastSyncedAt
  <2>3. /\ wk'[w].repo = r /\ wk'[w].next = wk[w].next
        /\ wk'[w].overtaken = wk[w].overtaken /\ wk[w].pc # "idle"
        /\ \A v \in Worker : v # w => wk'[v] = wk[v]
    BY <1>a, <1>2, StepFields DEF TouchLastSyncedAt, Throws, At
  <2>4. WrittenStored' /\ SnapStored'
    BY <2>2, <2>3 DEF WrittenStored, SnapStored
  <2>5. ~wk[w].overtaken => commits[r] = Batch
    <3> SUFFICES ASSUME ~wk[w].overtaken PROVE commits[r] = Batch
      OBVIOUS
    <3>1. 1..(wk[w].next - 1) \subseteq commits[r]
      BY <2>3 DEF WrittenStored
    <3>2. 1..(wk[w].next - 1) = Batch
      BY <2>1, BatchAssumption DEF Batch
    <3> QED BY <2>1, <3>1, <3>2 DEF TypeOK
  <2>6. \A s \in Repo : s # r => repo'[s] = repo[s] /\ torn'[s] = torn[s]
    BY <1>2, <2>1 DEF TouchLastSyncedAt, TypeOK
  <2>7. \/ torn'[r] = wk[w].overtaken
        \/ repo'[r] = repo[r] /\ torn'[r] = torn[r]
    BY <1>2, <2>1 DEF TouchLastSyncedAt, TypeOK
  <2> QED BY <2>2, <2>4, <2>5, <2>6, <2>7 DEF SyncedMeansStored
<1>3. CASE ~TouchLastSyncedAt(w) /\ commits' = commits
  <2>1. UNCHANGED <<repo, torn, req>>
    BY <1>3 DEF AttemptStep, CreateJob, MarkRunning, LoadRepo, ListCommits,
       EnrichCommits, WriteBatch, FinalProgress, MarkCompleted, MarkFailed,
       Resolve, Reject, Settle, unchangedByAttempt
  <2>2. SyncedMeansStored' /\ SnapStored'
    BY <1>3, <2>1 DEF SyncedMeansStored, SnapStored
  <2>3. \/ EndAttempt(w)
        \/ wk[w].pc # "idle" /\ \E pc \in WorkerPcs : Step(w, pc)
        \/ wk[w].pc # "idle" /\ \E pc \in WorkerPcs, status \in RowStatus :
                                  StepWithRow(w, pc, status)
        \/ WriteBatch(w) /\ wk' = [wk EXCEPT ![w].next = wk[w].next + 1]
                         /\ commits' = [commits EXCEPT ![wk[w].repo] = @ \cup {wk[w].next}]
    BY <1>3 DEF AttemptStep, CreateJob, MarkRunning, LoadRepo, ListCommits,
       EnrichCommits, WriteBatch, FinalProgress, MarkCompleted, MarkFailed,
       Resolve, Reject, Settle, Throws, At, WorkerPcs, RowStatus
  <2>4. WrittenStored'
    <3>1. CASE EndAttempt(w)
      BY <1>a, <1>3, <3>1, EndFields DEF WrittenStored, IdleWorker
    <3>2. CASE wk[w].pc # "idle" /\ \E pc \in WorkerPcs : Step(w, pc)
      BY <1>a, <1>3, <3>2, StepFields DEF WrittenStored
    <3>3. CASE wk[w].pc # "idle" /\ \E pc \in WorkerPcs, status \in RowStatus :
                                      StepWithRow(w, pc, status)
      BY <1>a, <1>3, <3>3, StepWithRowFields DEF WrittenStored
    <3>4. CASE WriteBatch(w) /\ wk' = [wk EXCEPT ![w].next = wk[w].next + 1]
                 /\ commits' = [commits EXCEPT ![wk[w].repo] = @ \cup {wk[w].next}]
      <4> DEFINE r == wk[w].repo
                 b == wk[w].next
      <4>1. r \in Repo /\ b \in Batch
        BY <1>a, <3>4 DEF WriteBatch, At, BusyWorker, Attempt, Batch
      <4>2. b \in commits[r]
        BY <1>3, <3>4, <4>1 DEF TypeOK
      <4>3. /\ wk'[w].pc = wk[w].pc /\ wk'[w].repo = r /\ wk[w].pc # "idle"
            /\ wk'[w].next = b + 1 /\ wk'[w].overtaken = wk[w].overtaken
            /\ \A v \in Worker : v # w => wk'[v] = wk[v]
        BY <1>a, <3>4 DEF Attempt, WriteBatch, At
      <4> SUFFICES ASSUME NEW v \in Worker, wk'[v].pc # "idle", ~wk'[v].overtaken
                   PROVE  1..(wk'[v].next - 1) \subseteq commits[wk'[v].repo]
        BY <1>3 DEF WrittenStored
      <4>5. 1..(wk[v].next - 1) \subseteq commits[wk[v].repo]
        BY <4>3 DEF WrittenStored
      <4>6. CASE v = w
        <5>1. wk'[v].repo = r /\ wk'[v].next = b + 1
          BY <4>3, <4>6
        <5>2. 1..(b - 1) \subseteq commits[r]
          BY <4>5, <4>6
        <5>3. 1..(wk'[v].next - 1) \subseteq 1..(b - 1) \cup {b}
          <6>1. PICK n \in Nat : n = wk'[v].next /\ n = b + 1
            BY <5>1, <4>1, BatchAssumption DEF Batch
          <6>2. n - 1 = b /\ b \in Nat /\ b >= 1
            BY <6>1, <4>1, BatchAssumption DEF Batch
          <6>3. 1..(n - 1) \subseteq 1..(b - 1) \cup {b}
            BY <6>2
          <6> QED BY <6>1, <6>3
        <5> QED BY <4>2, <5>1, <5>2, <5>3
      <4>7. CASE v # w
        BY <4>3, <4>5, <4>7
      <4> QED BY <4>6, <4>7
    <3> QED BY <2>3, <3>1, <3>2, <3>3, <3>4
  <2> QED BY <2>2, <2>4
<1>4. WriteBatch(w) \/ commits' = commits
  BY DEF AttemptStep, CreateJob, MarkRunning, LoadRepo, ListCommits,
     EnrichCommits, FinalProgress, MarkCompleted, TouchLastSyncedAt, MarkFailed,
     Resolve, Reject, Settle
<1> QED BY <1>1, <1>2, <1>3, <1>4

\* Every step keeps stored what workers and snapshots say is stored.
LEMMA StoredPreserved ==
  ASSUME TypeOK, BusyWorker, BusyRequest, WritingPhase, StoreInv, Next
  PROVE  StoreInv'
<1> USE DEF StoreInv
<1>1. ASSUME NEW q \in Req, RequestStep(q) PROVE StoreInv'
  BY <1>1, StoredPurge, StoredRequests
<1>2. ASSUME NEW q \in Req, NEW r \in Repo, RequestStart(q, r) PROVE StoreInv'
  <2>1. /\ req'[q].pc \in ConnectPcs =>
             /\ req'[q].snap = repo[r] /\ req'[q].suspect = torn[r]
             /\ req'[q].repo = r
        /\ \A p \in Req : p # q => req'[p] = req[p]
        /\ UNCHANGED <<repo, commits, wk, torn>>
    BY <1>2, StartFields DEF TypeOK, ConnectPcs
  <2>2. WrittenStored' /\ SyncedMeansStored'
    BY <2>1 DEF WrittenStored, SyncedMeansStored
  <2>3. SnapStored'
    BY <2>1 DEF SnapStored, SyncedMeansStored
  <2> QED BY <2>2, <2>3
<1>3. ASSUME NEW w \in Worker, AttemptStep(w) PROVE StoreInv'
  BY <1>3, StoredAttempt
<1>4. CASE \/ \E w \in Worker : WorkerFault(w) \/ \E r \in Repo : Take(w, r)
           \/ \E r \in Repo : QueueTimer(r) \/ DropSettled(r)
  <2>1. UNCHANGED <<repo, commits, req, torn>>
    BY <1>4 DEF WorkerFault, LoseLock, Crash, Take, QueueTimer, PromoteDelayed,
       ExpireLock, CheckStalled, DropSettled, unchangedByAttempt
  <2>2. \A v \in Worker : wk'[v] = wk[v] \/ wk'[v].pc = "idle" \/ wk'[v].next = 1
    <3>1. CASE \E w \in Worker, r \in Repo : Take(w, r)
      BY <3>1 DEF Take, TypeOK, IdleWorker
    <3>2. CASE \E w \in Worker : Crash(w)
      BY <3>2, EndFields DEF Crash, TypeOK, IdleWorker
    <3>3. CASE wk' = wk
      BY <3>3
    <3> QED
      BY <1>4, <3>1, <3>2, <3>3 DEF WorkerFault, LoseLock, QueueTimer,
         PromoteDelayed, ExpireLock, CheckStalled, DropSettled
  <2>3. WrittenStored'
    <3>1. 1..(1 - 1) = {} OBVIOUS
    <3> QED BY <2>1, <2>2, <3>1 DEF WrittenStored
  <2> QED BY <2>1, <2>3 DEF SyncedMeansStored, SnapStored
<1> QED BY <1>1, <1>2, <1>3, <1>4 DEF Next

(***************************************************************************)
(* The invariant and its theorems                                          *)
(***************************************************************************)

\* An empty database and queue satisfy the invariant.
LEMMA InitInv == Init => IInv
<1> SUFFICES ASSUME Init PROVE IInv
  OBVIOUS
<1>1. TypeOK BY InitTyped
<1>2. /\ \A w \in Worker : wk[w] = IdleWorker
      /\ \A q \in Req : req[q] = IdleReq
      /\ \A r \in Repo : /\ repo[r] = NoRow /\ job[r] = NoJob
                         /\ ~abandoned[r] /\ ~promised[r]
  BY DEF Init
<1>3. BusyWorker /\ WritingPhase /\ RowPhase
  BY <1>2 DEF BusyWorker, WritingPhase, RowPhase, IdleWorker
<1>4. BusyRequest /\ SnapStored
  BY <1>2 DEF BusyRequest, SnapStored, IdleReq, ConnectPcs
<1>5. AttemptsLeft /\ LockPhase /\ HolderRuns
  BY <1>2, WorkerAssumption DEF AttemptsLeft, LockPhase, HolderRuns, Locked,
     Pending, ActiveJobStates, NoJob
<1>6. RunnerHolds /\ WrittenStored
  BY <1>2 DEF RunnerHolds, WrittenStored, IdleWorker
<1>7. SyncedMeansStored
  BY <1>2 DEF SyncedMeansStored, NoRow
<1>8. PromisedJobExists /\ NoAbandonedRows
  BY <1>2 DEF PromisedJobExists, NoAbandonedRows
<1> QED BY <1>1, <1>3, <1>4, <1>5, <1>6, <1>7, <1>8 DEF IInv

\* Every step preserves the invariant.
LEMMA NextInv ==
  ASSUME IInv, [Next]_vars
  PROVE  IInv'
<1>1. CASE Next
  <2> USE DEF IInv
  <2>1. TypeOK' BY <1>1, NextTyped
  <2>2. BusyWorker' /\ WritingPhase' /\ RowPhase' BY <1>1, ControlPreserved
  <2>3. BusyRequest' BY <1>1, BusyRequestPreserved
  <2>4. NoAbandonedRows' BY <1>1, RowsPreserved
  <2>5. LockInv' BY <1>1, LocksPreserved DEF LockInv
  <2>6. PromisedJobExists' BY <1>1, PromisePreserved
  <2>7. StoreInv' BY <1>1, StoredPreserved DEF StoreInv
  <2> QED
    BY <2>1, <2>2, <2>3, <2>4, <2>5, <2>6, <2>7 DEF LockInv, StoreInv
<1>2. CASE UNCHANGED vars
  BY <1>2 DEF vars, IInv, TypeOK, BusyWorker, BusyRequest, WritingPhase,
     RowPhase, AttemptsLeft, LockPhase, HolderRuns, RunnerHolds, WrittenStored,
     SyncedMeansStored, SnapStored, PromisedJobExists, NoAbandonedRows,
     Running, Locked, Pending
<1> QED BY <1>1, <1>2

\* IInv holds in every state of every behaviour of requests, workers, timers
\* and faults.
THEOREM Invariance == Spec => []IInv
BY InitInv, NextInv, PTL DEF Spec

\* Type correctness: in particular no job makes more than MaxAttempts attempts
\* and no attempt writes past its last batch.
THEOREM TypeCorrectness == Spec => []TypeOK
<1>1. IInv => TypeOK BY DEF IInv
<1> QED BY <1>1, Invariance, PTL

\* The lock of a sync job always names the worker that runs its attempt
\* (sync.processor.ts under BullMQ, queue.service.ts:34-58).
THEOREM LockNamesRunner == Spec => []HolderRuns
<1>1. IInv => HolderRuns BY DEF IInv
<1> QED BY <1>1, Invariance, PTL

\* Unless a live worker loses its lock, two workers never run attempts of the
\* same repository, however requests overlap (queue.service.ts:34-58, 101-126).
THEOREM MutualExclusion == Spec => []OneAttemptPerRepo
<1>1. IInv => OneAttemptPerRepo
  <2> SUFFICES ASSUME IInv, "stall" \notin Faults,
                      NEW r \in Repo, NEW v \in Worker, NEW w \in Worker,
                      wk[v].repo = r, wk[w].repo = r
               PROVE  v = w
    BY DEF OneAttemptPerRepo, Running
  <2>1. wk[v].pc # "idle" /\ wk[w].pc # "idle"
    BY RepoAssumption DEF IInv, BusyWorker
  <2>2. job[r].lock = v /\ job[r].lock = w
    BY <2>1 DEF IInv, RunnerHolds
  <2> QED BY <2>2
<1> QED BY <1>1, Invariance, PTL

\* A repository that reports a lastSyncedAt has all its commits, except after
\* the two recorded races with a purge (sync.processor.ts:218-270).
THEOREM SyncCompleteness == Spec => []SyncedMeansStored
<1>1. IInv => SyncedMeansStored BY DEF IInv
<1> QED BY <1>1, Invariance, PTL

\* A sync_jobs row marked completed stands for a complete write
\* (sync.processor.ts:218-269).
THEOREM CompletedCompleteness == Spec => []CompletedMeansStored
<1>1. IInv => CompletedMeansStored
  <2> SUFFICES ASSUME IInv, NEW w \in Worker, wk[w].row = "completed",
                      ~wk[w].overtaken
               PROVE  commits[wk[w].repo] = Batch
    BY DEF CompletedMeansStored
  <2>1. wk[w].pc # "idle" /\ wk[w].next > NumBatches
    BY DEF IInv, RowPhase, WritingPhase
  <2>2. wk[w].repo \in Repo /\ wk[w].next = NumBatches + 1
    <3>1. wk[w] \in Attempt /\ wk[w].repo # NoRepo
      BY <2>1 DEF IInv, BusyWorker, TypeOK
    <3>2. wk[w].repo \in Repo /\ wk[w].next \in 1..NumBatches + 1
      BY <3>1 DEF Attempt
    <3> QED BY <2>1, <3>2, BatchAssumption
  <2>3. 1..(wk[w].next - 1) \subseteq commits[wk[w].repo]
    BY <2>1 DEF IInv, WrittenStored
  <2>4. 1..(wk[w].next - 1) = Batch
    BY <2>2, BatchAssumption DEF Batch
  <2>5. commits[wk[w].repo] \subseteq Batch
    BY <2>2 DEF IInv, TypeOK
  <2> QED BY <2>3, <2>4, <2>5
<1> QED BY <1>1, Invariance, PTL

\* Overlapping enqueueSync calls never lose the job one of them reported, as
\* long as Redis and the instances stay up (queue.service.ts:34-58).
THEOREM PromiseKept == Spec => []PromisedJobExists
<1>1. IInv => PromisedJobExists BY DEF IInv
<1> QED BY <1>1, Invariance, PTL

\* Only a crash or a database failure leaves a sync_jobs row unfinished
\* (sync.processor.ts:84-85, 279-286).
THEOREM RowsFinish == Spec => []NoAbandonedRows
<1>1. IInv => NoAbandonedRows BY DEF IInv
<1> QED BY <1>1, Invariance, PTL

(***************************************************************************)
(* What a step does to a job some worker holds                             *)
(***************************************************************************)

\* While a worker holds a job and does not move itself, a step either leaves
\* the job alone or takes the lock from it.
LEMMA HeldStep ==
  ASSUME IInv, Next, NEW r \in Repo, NEW w \in Worker,
         job[r].lock = w, wk'[w] = wk[w]
  PROVE  job'[r] = job[r] \/ job'[r] = [job[r] EXCEPT !.lock = NoWorker]
<1> USE DEF IInv
<1>a. job[r].state = "active" /\ wk[w].repo = r /\ Locked(job[r])
  BY WorkerAssumption DEF HolderRuns, Running, Locked
<1>b. wk[w].pc # "idle"
  BY <1>a, RepoAssumption DEF BusyWorker
<1>1. CASE \E q \in Req : RequestStep(q) \/ \E s \in Repo : RequestStart(q, s)
  BY <1>1, <1>a, RequestsOnJobs
<1>2. ASSUME NEW v \in Worker, AttemptStep(v) PROVE job'[r] = job[r]
  <2>1. CASE Resolve(v) \/ Reject(v)
    <3>1. wk'[v] = IdleWorker
      BY <2>1, EndFields DEF Resolve, Reject, Settle, TypeOK
    <3>2. v # w
      BY <3>1, <1>b DEF IdleWorker
    <3>3. job[wk[v].repo].lock = v => wk[v].repo # r
      BY <3>2
    <3>4. PICK outcome \in {Finished(job[wk[v].repo]), AttemptFailed(job[wk[v].repo])} :
            Settle(v, outcome)
      BY <2>1 DEF Resolve, Reject
    <3> QED BY <3>3, <3>4 DEF Settle, TypeOK
  <2>2. CASE ~Resolve(v) /\ ~Reject(v)
    BY <1>2, <2>2, WorkingKeepsJobs
  <2> QED BY <2>1, <2>2
<1>3. ASSUME NEW v \in Worker, Crash(v) PROVE job'[r] = job[r]
  <2>1. v # w
    BY <1>3, <1>b, EndFields DEF Crash, TypeOK, IdleWorker
  <2>2. job' = job \/ wk[v].repo # r
    BY <1>3, <2>1 DEF Crash
  <2> QED BY <1>3, <2>2 DEF Crash, TypeOK
<1>4. ASSUME NEW v \in Worker, LoseLock(v)
      PROVE  job'[r] = job[r] \/ job'[r] = [job[r] EXCEPT !.lock = NoWorker]
  BY <1>4 DEF LoseLock, TypeOK
<1>5. ASSUME NEW v \in Worker, NEW s \in Repo, Take(v, s) PROVE job'[r] = job[r]
  BY <1>5, <1>a DEF Take, TypeOK
<1>6. ASSUME NEW s \in Repo, QueueTimer(s) \/ DropSettled(s)
      PROVE  job'[r] = job[r]
  <2>1. s # r
    BY <1>6, <1>a, WorkerAssumption DEF QueueTimer, PromoteDelayed, ExpireLock,
       CheckStalled, DropSettled, Terminal, Locked
  <2> QED BY <1>6, <2>1 DEF QueueTimer, PromoteDelayed, ExpireLock,
     CheckStalled, DropSettled, TypeOK
<1> QED BY <1>1, <1>2, <1>3, <1>4, <1>5, <1>6 DEF Next, WorkerFault

\* A running attempt never has its job removed, replaced or settled by
\* somebody else while it holds the lock (queue.service.ts:46-48, 101-126).
THEOREM HeldJobStability == Spec => HeldJobIsStable
<1> DEFINE Stable == \A r \in Repo, w \in Worker :
              job[r].lock = w /\ wk'[w] = wk[w] =>
                job'[r] = job[r] \/ job'[r] = [job[r] EXCEPT !.lock = NoWorker]
<1>1. IInv /\ [Next]_vars => [Stable]_vars
  BY HeldStep
<1>2. []IInv /\ [][Next]_vars => [][Stable]_vars
  BY <1>1, PTL
<1> QED BY <1>2, Invariance, PTL DEF Spec, HeldJobIsStable
=============================================================================
