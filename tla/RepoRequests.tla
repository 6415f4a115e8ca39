---------------------------- MODULE RepoRequests ----------------------------
(***************************************************************************)
(* The HTTP side: ReposService.connect, resync and disconnect, and the     *)
(* event handlers that put a sync job on the queue (OnRepoConnected,       *)
(* OnSyncRequested) or take it off again (OnRepoPurged).  A request slot   *)
(* goes on as the handler of the event it publishes last; the handler runs *)
(* after the HTTP response, so a client with one slot waits longer than a  *)
(* real one and several slots cover every overlap.                         *)
(***************************************************************************)
EXTENDS SyncState

unchangedByQueueing == <<repo, commits, wk, abandoned, torn>>

Goto(q, pc) == req' = [req EXCEPT ![q].pc = pc]

Return(q) == req' = [req EXCEPT ![q] = IdleReq]

(***************************************************************************)
(* connect                                                                 *)
(***************************************************************************)

\* The row is read once; what is read here is what reconnectExisting saves.
ConnectFind(q, r) ==
  /\ "connect" \in Ops
  /\ req[q].pc = "idle"
  /\ ~repo[r].connected
  /\ req' = [req EXCEPT ![q] = [pc |-> "fetch", repo |-> r, snap |-> repo[r],
                                suspect |-> torn[r]]]
  /\ UNCHANGED <<repo, commits, job, wk, abandoned, promised, torn>>

\* octokitFactory.forUser and github.getRepo; a failure ends the request.
ConnectFetch(q) ==
  /\ req[q].pc = "fetch"
  /\ \/ Goto(q, "save")
     \/ "github" \in Faults /\ Return(q)
  /\ UNCHANGED <<repo, commits, job, wk, abandoned, promised, torn>>

\* Mutant: the row is created but RepoConnectedEvent is never published.
CreateWithoutEvent(q) ==
  LET r == req[q].repo IN
  /\ ~req[q].snap.exists
  /\ IF repo[r].exists
       THEN UNCHANGED repo
       ELSE repo' = [repo EXCEPT ![r] =
                       [exists |-> TRUE, connected |-> TRUE, synced |-> FALSE]]
  /\ Return(q)
  /\ UNCHANGED torn

\* createNewConnection: the unique key refuses a second row.
CreateNewConnection(q) ==
  LET r == req[q].repo IN
  /\ ~req[q].snap.exists
  /\ IF repo[r].exists
       THEN Return(q) /\ UNCHANGED repo
       ELSE /\ repo' = [repo EXCEPT ![r] =
                          [exists |-> TRUE, connected |-> TRUE, synced |-> FALSE]]
            /\ Goto(q, "getJob")
  /\ UNCHANGED torn

\* reconnectExisting: save() writes every column of the spread snapshot that
\* differs from the row, lastSyncedAt included.
ReconnectExisting(q) ==
  LET r == req[q].repo IN
  /\ req[q].snap.exists
  /\ repo' = [repo EXCEPT ![r] = [req[q].snap EXCEPT !.connected = TRUE]]
  /\ torn' = [torn EXCEPT ![r] = req[q].snap.synced /\ req[q].suspect]
  /\ Goto(q, "getJob")

\* The save, and then the publish of RepoConnectedEvent.
ConnectSave(q) ==
  /\ req[q].pc = "save"
  /\ \/ CreateNewConnection(q)
     \/ ReconnectExisting(q)
  /\ UNCHANGED <<commits, job, wk, abandoned, promised>>

(***************************************************************************)
(* resync and QueueService.enqueueSync                                     *)
(***************************************************************************)

ResyncFind(q, r) ==
  /\ "resync" \in Ops
  /\ req[q].pc = "idle"
  /\ repo[r].connected
  /\ req' = [req EXCEPT ![q] = [IdleReq EXCEPT !.pc = "getJob", !.repo = r]]
  /\ UNCHANGED <<repo, commits, job, wk, abandoned, promised, torn>>

GetJob(q) ==
  /\ req[q].pc = "getJob"
  /\ Goto(q, IF job[req[q].repo].state = "none" THEN "addJob" ELSE "getState")
  /\ UNCHANGED <<job, promised>> /\ UNCHANGED unchangedByQueueing

\* A job that vanished since getJob has the state "unknown": not pending.
GetState(q) ==
  LET r == req[q].repo IN
  /\ req[q].pc = "getState"
  /\ IF Pending(job[r])
       THEN Return(q) /\ promised' = [promised EXCEPT ![r] = TRUE]
       ELSE Goto(q, "removeOld") /\ UNCHANGED promised
  /\ UNCHANGED job /\ UNCHANGED unchangedByQueueing

\* Mutant: the old job is removed even while a worker holds its lock.
RemoveOldForced(q) ==
  /\ req[q].pc = "removeOld"
  /\ Goto(q, "addJob")
  /\ job' = [job EXCEPT ![req[q].repo] = NoJob]
  /\ UNCHANGED promised /\ UNCHANGED unchangedByQueueing

\* Mutant: the call that removed the old job does not add a new one.
RemoveOldOnly(q) ==
  LET r == req[q].repo IN
  /\ req[q].pc = "removeOld"
  /\ IF Locked(job[r]) THEN UNCHANGED job ELSE job' = [job EXCEPT ![r] = NoJob]
  /\ Return(q)
  /\ UNCHANGED promised /\ UNCHANGED unchangedByQueueing

\* remove() of a job some worker locked throws; the handler rethrows to the
\* event bus and nothing retries it.
RemoveOld(q) ==
  LET r == req[q].repo IN
  /\ req[q].pc = "removeOld"
  /\ IF Locked(job[r])
       THEN Return(q) /\ UNCHANGED job
       ELSE Goto(q, "addJob") /\ job' = [job EXCEPT ![r] = NoJob]
  /\ UNCHANGED promised /\ UNCHANGED unchangedByQueueing

AddJob(q) ==
  LET r == req[q].repo IN
  /\ req[q].pc = "addJob"
  /\ job' = [job EXCEPT ![r] = Added(@)]
  /\ promised' = [promised EXCEPT ![r] = Pending(job'[r])]
  /\ Return(q)
  /\ UNCHANGED unchangedByQueueing

(***************************************************************************)
(* disconnect and QueueService.removeJobsForRepo                           *)
(***************************************************************************)

DisconnectFind(q, r) ==
  /\ "disconnect" \in Ops
  /\ req[q].pc = "idle"
  /\ repo[r].connected
  /\ req' = [req EXCEPT ![q] = [IdleReq EXCEPT !.pc = "unset", !.repo = r]]
  /\ UNCHANGED <<repo, commits, job, wk, abandoned, promised, torn>>

\* setConnected(id, false), committed on its own before the purge.
Unset(q) ==
  /\ req[q].pc = "unset"
  /\ repo' = [repo EXCEPT ![req[q].repo].connected = FALSE]
  /\ Goto(q, "purge")
  /\ UNCHANGED <<commits, job, wk, abandoned, promised, torn>>

\* History: what a purge of r overtakes.
Overtake(q, r) ==
  /\ wk' = [w \in Worker |-> [wk[w] EXCEPT !.overtaken =
              @ \/ (Running(w, r) /\ wk[w].next > 1)]]
  /\ req' = [p \in Req |-> IF p = q
               THEN [req[q] EXCEPT !.pc = "findJobs"]
               ELSE [req[p] EXCEPT !.suspect =
                       @ \/ (req[p].repo = r /\ req[p].pc \in ConnectPcs)]]
  /\ torn' = [torn EXCEPT ![r] = FALSE]

\* The purge transaction, then the publish of RepoPurgedEvent.
Purge(q) ==
  LET r == req[q].repo IN
  /\ req[q].pc = "purge"
  /\ commits' = [commits EXCEPT ![r] = {}]
  /\ repo' = [repo EXCEPT ![r].connected = FALSE, ![r].synced = FALSE]
  /\ Overtake(q, r)
  /\ UNCHANGED <<job, abandoned, promised>>

FindJobs(q) ==
  /\ req[q].pc = "findJobs"
  /\ IF job[req[q].repo].state = "none" THEN Return(q) ELSE Goto(q, "removeJobs")
  /\ UNCHANGED <<job, promised>> /\ UNCHANGED unchangedByQueueing

\* The handle removes whatever job now has the id; a locked job stays.
RemoveJobs(q) ==
  LET r == req[q].repo IN
  /\ req[q].pc = "removeJobs"
  /\ IF Locked(job[r])
       THEN UNCHANGED <<job, promised>>
       ELSE /\ job' = [job EXCEPT ![r] = NoJob]
            /\ promised' = [promised EXCEPT ![r] = FALSE]
  /\ Return(q)
  /\ UNCHANGED unchangedByQueueing

(***************************************************************************)
(* Failures: a rejected statement or command, or the instance dies.        *)
(***************************************************************************)

RequestFails(q) ==
  /\ \/ "redis" \in Faults /\ req[q].pc \in QueuePcs
     \/ "db" \in Faults /\ req[q].pc \in PurgePcs \cup {"save"}
     \/ "crash" \in Faults /\ req[q].pc # "idle"
  /\ Return(q)
  /\ UNCHANGED <<repo, commits, job, wk, abandoned, promised, torn>>

\* The steps of a request once it was accepted.
RequestStep(q) ==
  \/ ConnectFetch(q) \/ ConnectSave(q)
  \/ GetJob(q) \/ GetState(q) \/ RemoveOld(q) \/ AddJob(q)
  \/ Unset(q) \/ Purge(q) \/ FindJobs(q) \/ RemoveJobs(q)
  \/ RequestFails(q)

RequestStart(q, r) ==
  ConnectFind(q, r) \/ ResyncFind(q, r) \/ DisconnectFind(q, r)
=============================================================================
