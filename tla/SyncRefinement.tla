--------------------------- MODULE SyncRefinement ---------------------------
(***************************************************************************)
(* SyncPipeline implements JobSlot: under the mapping of SyncPipeline      *)
(* (phase and lock holder of every job, repository of every worker),       *)
(* every step of a request, a worker or a timer is a step of JobSlot or    *)
(* leaves the slots alone.                                                 *)
(***************************************************************************)
EXTENDS SyncPipelineProofs

phases == [r \in Repo |-> Phase(job[r])]

holders == [r \in Repo |-> Holder(job[r])]

\* Replacing one job moves one slot.
LEMMA SlotMove ==
  ASSUME TypeOK, NEW r \in Repo, NEW j, job' = [job EXCEPT ![r] = j]
  PROVE  Slot!Move(r, Phase(job[r]), Phase(j), Holder(j))
<1>1. job'[r] = j /\ \A s \in Repo : s # r => job'[s] = job[s]
  BY DEF TypeOK
<1>2. phases' = [phases EXCEPT ![r] = Phase(j)]
  <2>1. \A s \in Repo : Phase(job'[s]) = IF s = r THEN Phase(j) ELSE phases[s]
    BY <1>1 DEF phases
  <2>2. phases' = [s \in Repo |-> IF s = r THEN Phase(j) ELSE phases[s]]
    BY <2>1 DEF phases
  <2> QED BY <2>2, Zenon DEF phases
<1>3. holders' = [holders EXCEPT ![r] = Holder(j)]
  <2>1. \A s \in Repo : Holder(job'[s]) = IF s = r THEN Holder(j) ELSE holders[s]
    BY <1>1 DEF holders
  <2>2. holders' = [s \in Repo |-> IF s = r THEN Holder(j) ELSE holders[s]]
    BY <2>1 DEF holders
  <2> QED BY <2>2, Zenon DEF holders
<1>4. phases[r] = Phase(job[r])
  BY DEF phases
<1> QED BY <1>2, <1>3, <1>4 DEF Slot!Move, phases, holders

\* A job that keeps its phase and its live holder leaves the slots alone.
LEMMA SlotStutter ==
  ASSUME TypeOK, NEW r \in Repo, NEW j, job' = [job EXCEPT ![r] = j],
         Phase(j) = Phase(job[r]), Holder(j) = Holder(job[r])
  PROVE  phases' = phases /\ holders' = holders
<1>1. job'[r] = j /\ \A s \in Repo : s # r => job'[s] = job[s]
  BY DEF TypeOK
<1> QED BY <1>1 DEF phases, holders

works == [w \in Worker |-> wk[w].repo]

SlotStep ==
  Slot!Next \/ (phases' = phases /\ holders' = holders /\ works' = works)

\* Ending its attempt frees the worker.
LEMMA WorksEnd ==
  ASSUME TypeOK, NEW w \in Worker, EndAttempt(w)
  PROVE  works' = [works EXCEPT ![w] = NoRepo]
<1>1. \A v \in Worker : wk'[v].repo = IF v = w THEN NoRepo ELSE works[v]
  BY EndFields DEF TypeOK, IdleWorker, works
<1>2. works' = [v \in Worker |-> IF v = w THEN NoRepo ELSE works[v]]
  BY <1>1 DEF works
<1> QED BY <1>2, Zenon DEF works

\* A worker that ends without the lock of its job ends a zombie.
LEMMA SlotZombie ==
  ASSUME IInv, NEW w \in Worker, wk[w].pc # "idle", EndAttempt(w),
         job' = job, job[wk[w].repo].lock # w
  PROVE  SlotStep
<1> USE DEF IInv
<1>1. works' = [works EXCEPT ![w] = NoRepo]
  BY WorksEnd
<1>2. \A r \in Repo : holders[r] # w
  <2>1. \A r \in Repo : job[r].lock # w
    BY DEF HolderRuns, Running
  <2> QED BY <2>1, WorkerAssumption DEF holders, Holder
<1>3. works[w] # NoRepo
  BY DEF works, BusyWorker
<1>4. phases' = phases /\ holders' = holders
  BY DEF phases, holders
<1>5. Slot!EndZombie(w)
  BY <1>1, <1>2, <1>3, <1>4 DEF Slot!EndZombie, Slot!WorkOn, phases, holders, works
<1> QED BY <1>5 DEF SlotStep, Slot!Next

\* The slot of a pending job is queued or running, that of any other is free.
LEMMA PhaseCases ==
  ASSUME NEW j \in Job
  PROVE  /\ j.state = "active" => Phase(j) = "running"
         /\ j.state \in {"waiting", "delayed"} => Phase(j) = "queued"
         /\ j.state \in {"none", "completed", "failed"} => Phase(j) = "free"
         /\ Phase(j) \in {"free", "queued", "running"}
         /\ j.lock \in {NoWorker, DeadWorker} => Holder(j) = NoWorker
         /\ j.lock \in Worker => Holder(j) = j.lock
BY WorkerAssumption DEF Phase, Holder, Job, JobState

\* A job nobody holds is removed: the slot is withdrawn or recovered.
LEMMA SlotRemove ==
  ASSUME TypeOK, NEW r \in Repo, ~Locked(job[r]), works' = works,
         job' = [job EXCEPT ![r] = NoJob]
  PROVE  SlotStep
<1>1. Phase(NoJob) = "free" /\ Holder(NoJob) = NoWorker
  BY NoJobTyped, PhaseCases DEF NoJob
<1>2. Holder(job[r]) = NoWorker /\ Phase(job[r]) \in {"free", "queued", "running"}
  BY PhaseCases DEF TypeOK, Locked
<1>3. Slot!Move(r, Phase(job[r]), "free", NoWorker)
  BY <1>1, SlotMove
<1>4. CASE Phase(job[r]) = "free"
  BY <1>1, <1>2, <1>4, SlotStutter DEF SlotStep
<1>5. CASE Phase(job[r]) = "queued"
  BY <1>3, <1>5 DEF SlotStep, Slot!Next, Slot!Withdraw, works
<1>6. CASE Phase(job[r]) = "running"
  <2>1. Slot!Recover(r)
    <3>1. holders[r] = NoWorker
      BY <1>2 DEF holders
    <3> QED BY <3>1, <1>3, <1>6 DEF Slot!Recover, holders, works
  <2> QED BY <2>1 DEF SlotStep, Slot!Next
<1> QED BY <1>2, <1>4, <1>5, <1>6

\* Requests submit, withdraw or recover a slot.
LEMMA SlotRequests ==
  ASSUME IInv, NEW q \in Req,
         RequestStep(q) \/ \E s \in Repo : RequestStart(q, s)
  PROVE  SlotStep
<1> USE DEF IInv
<1>w. works' = works
  BY RequestsKeepWorkers DEF works
<1>1. CASE job' = job
  BY <1>1, <1>w DEF SlotStep, phases, holders
<1>2. CASE RemoveOld(q) /\ job' # job
  <2>1. req[q].repo \in Repo
    BY <1>2 DEF RemoveOld, BusyRequest, TypeOK, Request
  <2> QED BY <1>2, <1>w, <2>1, SlotRemove DEF RemoveOld
<1>3. CASE RemoveJobs(q) /\ job' # job
  <2>1. req[q].repo \in Repo
    BY <1>3 DEF RemoveJobs, BusyRequest, TypeOK, Request
  <2> QED BY <1>3, <1>w, <2>1, SlotRemove DEF RemoveJobs
<1>4. CASE AddJob(q) /\ job' # job
  <2> DEFINE r == req[q].repo
             j == [NoJob EXCEPT !.state = "waiting"]
  <2>1. r \in Repo
    BY <1>4 DEF AddJob, BusyRequest, TypeOK, Request
  <2>2. job' = [job EXCEPT ![r] = Added(job[r])]
    BY <1>4 DEF AddJob
  <2>3. job[r].state = "none"
    BY <1>4, <2>1, <2>2 DEF Added, TypeOK
  <2>4. job' = [job EXCEPT ![r] = j]
    BY <2>2, <2>3 DEF Added
  <2>5. j \in Job /\ j.state = "waiting" /\ j.lock = NoWorker
    BY AttemptsAssumption DEF NoJob, Job, JobState
  <2>6. Phase(j) = "queued" /\ Holder(j) = NoWorker /\ Phase(job[r]) = "free"
    BY <2>1, <2>3, <2>5, PhaseCases DEF TypeOK
  <2>7. Slot!Move(r, "free", "queued", NoWorker)
    BY <2>1, <2>4, <2>6, SlotMove
  <2> QED BY <1>w, <2>1, <2>7 DEF SlotStep, Slot!Next, Slot!Submit, works
<1>5. job' = job \/ RemoveOld(q) \/ RemoveJobs(q) \/ AddJob(q)
  BY DEF RequestStep, RequestStart, ConnectFetch, ConnectSave, GetJob, GetState,
     Unset, Purge, FindJobs, RequestFails, ConnectFind, ResyncFind,
     DisconnectFind, unchangedByQueueing
<1> QED BY <1>1, <1>2, <1>3, <1>4, <1>5

\* Settling with the lock finishes the slot.
LEMMA SlotSettle ==
  ASSUME IInv, NEW w \in Worker, Resolve(w) \/ Reject(w)
  PROVE  SlotStep
<1> USE DEF IInv
<1> DEFINE r == wk[w].repo
<1>1. r \in Repo
  BY DEF Resolve, Reject, At, BusyWorker, TypeOK, Attempt
<1>a. wk[w].pc # "idle" /\ EndAttempt(w)
  BY DEF Resolve, Reject, Settle, At
<1>b. works' = [works EXCEPT ![w] = NoRepo] /\ works[w] = r
  BY <1>a, WorksEnd DEF works
<1>2. CASE job[r].lock # w
  <2>1. job' = job BY <1>2 DEF Resolve, Reject, Settle
  <2> QED BY <1>a, <1>2, <2>1, SlotZombie
<1>3. CASE job[r].lock = w
  <2>1. job[r].state = "active" /\ job[r] \in Job /\ job[r].made < MaxAttempts
    BY <1>1, <1>3 DEF HolderRuns, AttemptsLeft, Pending, ActiveJobStates, TypeOK
  <2>2. PICK j \in {Finished(job[r]), AttemptFailed(job[r])} :
          job' = [job EXCEPT ![r] = j]
    BY <1>3 DEF Resolve, Reject, Settle
  <2>3. j \in Job
    BY <2>1, JobOpsTyped, AttemptFailedTyped
  <2>4. j.lock = NoWorker /\ j.state \in {"completed", "delayed", "failed"}
    BY <2>1 DEF Finished, AttemptFailed, Job
  <2>5. Phase(j) \in {"free", "queued"} /\ Holder(j) = NoWorker
        /\ Phase(job[r]) = "running" /\ Holder(job[r]) = w
    BY <1>3, <2>1, <2>3, <2>4, PhaseCases
  <2>6. Slot!Move(r, "running", Phase(j), NoWorker)
    BY <1>1, <2>2, <2>5, SlotMove
  <2>7. Slot!Finish(r, w)
    <3>1. holders[r] = w
      BY <1>1, <2>5 DEF holders
    <3> QED
      BY <1>b, <2>5, <2>6, <3>1 DEF Slot!Finish, Slot!WorkOn, holders, works
  <2> QED BY <1>1, <2>7 DEF SlotStep, Slot!Next
<1> QED BY <1>2, <1>3

\* A lost lock and a crash leave the slot running without a holder.
LEMMA SlotFaults ==
  ASSUME IInv, NEW w \in Worker, WorkerFault(w)
  PROVE  SlotStep
<1> USE DEF IInv
<1> DEFINE r == wk[w].repo
<1>1. r \in Repo
  BY DEF WorkerFault, LoseLock, Crash, At, BusyWorker, TypeOK, Attempt
<1>a. wk[w].pc # "idle" /\ (wk' = wk \/ EndAttempt(w))
  BY DEF WorkerFault, LoseLock, Crash, At
<1>b. works[w] = r /\ (works' = works \/ works' = [works EXCEPT ![w] = NoRepo])
  BY <1>a, WorksEnd DEF works
<1>2. CASE job[r].lock # w
  <2>1. EndAttempt(w) /\ job' = job
    BY <1>2 DEF WorkerFault, LoseLock, Crash
  <2> QED BY <1>a, <1>2, <2>1, SlotZombie
<1>3. CASE job[r].lock = w
  <2>1. job[r] \in Job
    BY <1>1 DEF TypeOK
  <2>2. PICK l \in {NoWorker, DeadWorker} :
          job' = [job EXCEPT ![r] = [job[r] EXCEPT !.lock = l]]
    BY <1>3 DEF WorkerFault, LoseLock, Crash
  <2> DEFINE j == [job[r] EXCEPT !.lock = l]
  <2>3. j \in Job
    BY <2>1, JobOpsTyped
  <2>4. j.state = job[r].state /\ j.lock = l /\ job[r].state = "active"
    BY <1>1, <1>3, <2>1 DEF HolderRuns, Job
  <2>5. Phase(j) = "running" /\ Holder(j) = NoWorker
        /\ Phase(job[r]) = "running" /\ Holder(job[r]) = w
    BY <1>3, <2>1, <2>3, <2>4, PhaseCases
  <2>6. Slot!Move(r, "running", "running", NoWorker)
    BY <1>1, <2>2, <2>5, SlotMove
  <2>7. Slot!LoseHolder(r, w)
    <3>1. holders[r] = w
      BY <1>1, <2>5 DEF holders
    <3> QED
      BY <1>b, <2>6, <3>1 DEF Slot!LoseHolder, Slot!WorkOn, holders, works
  <2> QED BY <1>1, <2>7 DEF SlotStep, Slot!Next
<1> QED BY <1>2, <1>3

\* An idle worker takes a queued slot.
LEMMA SlotTake ==
  ASSUME IInv, NEW w \in Worker, NEW r \in Repo, Take(w, r)
  PROVE  SlotStep
<1> USE DEF IInv
<1> DEFINE j == TakenBy(job[r], w)
<1>1. job[r].state = "waiting" /\ wk[w].pc = "idle" /\ job[r] \in Job
      /\ job' = [job EXCEPT ![r] = j]
  BY DEF Take, At, TypeOK
<1>2. j \in Job /\ j.state = "active" /\ j.lock = w
  BY <1>1, TakenTyped DEF TakenBy, Job
<1>3. Phase(j) = "running" /\ Holder(j) = w /\ Phase(job[r]) = "queued"
  BY <1>1, <1>2, PhaseCases
<1>4. Slot!Move(r, "queued", "running", w)
  BY <1>1, <1>3, SlotMove
<1>5. works[w] = NoRepo
  BY <1>1 DEF BusyWorker, works
<1>6. works' = [works EXCEPT ![w] = r]
  <2>1. \A v \in Worker : wk'[v].repo = IF v = w THEN r ELSE works[v]
    BY DEF Take, TypeOK, IdleWorker, works
  <2>2. works' = [v \in Worker |-> IF v = w THEN r ELSE works[v]]
    BY <2>1 DEF works
  <2> QED BY <2>2, Zenon DEF works
<1>7. Slot!Start(r, w)
  BY <1>4, <1>5, <1>6 DEF Slot!Start, Slot!WorkOn, works
<1> QED BY <1>7 DEF SlotStep, Slot!Next

\* Backoffs, expired locks and retention do not move a slot; the stalled check
\* recovers it.
LEMMA SlotTimers ==
  ASSUME IInv, NEW r \in Repo, QueueTimer(r) \/ DropSettled(r)
  PROVE  SlotStep
<1> USE DEF IInv
<1>a. job[r] \in Job BY DEF TypeOK
<1>b. works' = works
  BY DEF QueueTimer, PromoteDelayed, ExpireLock, CheckStalled, DropSettled, works
<1>1. CASE PromoteDelayed(r)
  <2> DEFINE j == Promoted(job[r])
  <2>1. j \in Job /\ j.state = "waiting" /\ j.lock = job[r].lock
    BY <1>a, JobOpsTyped DEF Promoted, Job
  <2>2. Phase(j) = Phase(job[r]) /\ Holder(j) = Holder(job[r])
    BY <1>a, <1>1, <2>1, PhaseCases DEF PromoteDelayed, Holder
  <2> QED BY <1>b, <1>1, <2>2, SlotStutter DEF PromoteDelayed, SlotStep
<1>2. CASE ExpireLock(r)
  <2> DEFINE j == [job[r] EXCEPT !.lock = NoWorker]
  <2>1. j \in Job /\ j.state = job[r].state /\ j.lock = NoWorker
    BY <1>a, JobOpsTyped DEF Job
  <2>2. Phase(j) = Phase(job[r])
    BY <2>1 DEF Phase
  <2>3. Holder(j) = NoWorker /\ Holder(job[r]) = NoWorker
    BY <1>a, <1>2, <2>1, PhaseCases DEF ExpireLock
  <2> QED BY <1>b, <1>2, <2>2, <2>3, SlotStutter DEF ExpireLock, SlotStep
<1>3. CASE CheckStalled(r)
  <2> DEFINE j == Stalled(job[r])
  <2>1. j \in Job /\ j.lock = NoWorker /\ j.state \in {"waiting", "failed"}
    BY <1>a, <1>3, StalledTyped DEF CheckStalled, Stalled, Locked, Job
  <2>2. Phase(j) \in {"free", "queued"} /\ Holder(j) = NoWorker
        /\ Phase(job[r]) = "running" /\ Holder(job[r]) = NoWorker
    BY <1>a, <1>3, <2>1, PhaseCases DEF CheckStalled, Locked
  <2>3. Slot!Move(r, "running", Phase(j), NoWorker)
    BY <1>3, <2>2, SlotMove DEF CheckStalled
  <2>4. holders[r] = NoWorker
    BY <2>2 DEF holders
  <2>5. Slot!Recover(r)
    BY <1>b, <2>2, <2>3, <2>4 DEF Slot!Recover, holders, works
  <2> QED BY <2>5 DEF SlotStep, Slot!Next
<1>4. CASE DropSettled(r)
  <2>1. ~Locked(job[r])
    BY <1>4 DEF DropSettled, Terminal, LockPhase
  <2> QED BY <1>b, <1>4, <2>1, SlotRemove DEF DropSettled
<1> QED BY <1>1, <1>2, <1>3, <1>4 DEF QueueTimer

\* Every step moves one slot as JobSlot allows, or none.
LEMMA StepSimulation ==
  ASSUME IInv, [Next]_vars
  PROVE  SlotStep
<1>1. CASE UNCHANGED vars
  BY <1>1 DEF vars, SlotStep, phases, holders, works
<1>2. ASSUME NEW w \in Worker, AttemptStep(w), ~Resolve(w), ~Reject(w)
      PROVE  SlotStep
  <2>1. job' = job /\ \A v \in Worker : wk'[v].repo = wk[v].repo
    BY <1>2, WorkingKeepsJobs DEF IInv
  <2> QED BY <2>1 DEF SlotStep, phases, holders, works
<1> QED
  BY <1>1, <1>2, SlotRequests, SlotSettle, SlotFaults, SlotTake, SlotTimers
  DEF Next

\* Requests, workers and timers together implement one slot per repository,
\* run by at most one worker and given up only by it or by the loss of its
\* lock (queue.service.ts:34-58, 101-126; sync.processor.ts:72-287).
THEOREM ImplementsJobSlot == Spec => SlotSpec
<1>1. Init => Slot!Init
  <2>1. Phase(NoJob) = "free" /\ Holder(NoJob) = NoWorker
    BY NoJobTyped, PhaseCases DEF NoJob
  <2> QED BY <2>1 DEF Init, Slot!Init, IdleWorker
<1>2. IInv /\ [Next]_vars => [Slot!Next]_<<phases, holders, works>>
  BY StepSimulation DEF SlotStep
<1>3. []IInv /\ [][Next]_vars => [][Slot!Next]_<<phases, holders, works>>
  BY <1>2, PTL
<1> QED BY <1>1, <1>3, Invariance, PTL DEF Spec, SlotSpec, Slot!Spec,
       phases, holders, works
=============================================================================
