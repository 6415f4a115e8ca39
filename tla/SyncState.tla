----------------------------- MODULE SyncState -----------------------------
(***************************************************************************)
(* The state shared by the HTTP side (RepoRequests) and the worker side    *)
(* (SyncAttempt) of repository synchronisation: the rows of repositories,  *)
(* commits and sync_jobs, the BullMQ job of each repository, and the       *)
(* program counter and locals of every request and every worker.           *)
(*                                                                         *)
(* A step is what runs between two awaits.  The commits of a repository    *)
(* are the batches of UPSERT_BATCH_SIZE the processor writes, numbered in  *)
(* the order it writes them; timestamps are reduced to null / not null.    *)
(***************************************************************************)
EXTENDS BullJob

CONSTANTS Repo,        \* GitHub repositories of one user
          NoRepo,      \* no repository: the process is idle
          Req,         \* request slots (an HTTP request and the event
                       \* handler its last publish starts)
          NumBatches,  \* upsert batches of one complete listing
          Faults,      \* which faults may happen
          Ops          \* which HTTP operations the clients use

ASSUME RepoAssumption == NoRepo \notin Repo

ASSUME BatchAssumption == NumBatches \in Nat

ASSUME FaultsAssumption ==
  Faults \subseteq {"github", "db", "redis", "stall", "crash"}

ASSUME OpsAssumption == Ops \subseteq {"connect", "resync", "disconnect"}

VARIABLES
  repo,       \* row of `repositories`, per repository
  commits,    \* batches present in `commits` (with scores and files)
  job,        \* the BullMQ sync job
  req,        \* the HTTP requests
  wk,         \* the queue workers, with the sync_jobs row they own
  abandoned,  \* history: an ended attempt left its sync_jobs row unfinished
  promised,   \* history: an enqueue reported a pending job, nothing has
              \* settled or purged it since
  torn        \* history: the lastSyncedAt of the row was written by an
              \* attempt or a reconnect that a purge had overtaken

vars == <<repo, commits, job, req, wk, abandoned, promised, torn>>

Batch == 1..NumBatches

Row == [exists: BOOLEAN, connected: BOOLEAN, synced: BOOLEAN]

NoRow == [exists |-> FALSE, connected |-> FALSE, synced |-> FALSE]

ConnectPcs == {"fetch", "save"}
QueuePcs   == {"getJob", "getState", "removeOld", "addJob",
               "findJobs", "removeJobs"}
PurgePcs   == {"unset", "purge"}
ReqPcs     == {"idle"} \cup ConnectPcs \cup QueuePcs \cup PurgePcs

\* snap: the row `connect` read; suspect (history): a purge made it stale.
Request == [pc: ReqPcs, repo: Repo \cup {NoRepo}, snap: Row, suspect: BOOLEAN]

IdleReq == [pc |-> "idle", repo |-> NoRepo, snap |-> NoRow, suspect |-> FALSE]

WorkerPcs == {"idle", "create", "markRunning", "load", "list", "enrich",
              "write", "complete", "touch", "resolve", "fail", "reject"}

RowStatus == {"none", "queued", "running", "completed", "failed"}

\* next: the batch written next; row: status of the attempt's sync_jobs row;
\* overtaken (history): a purge deleted batches this attempt had written.
Attempt == [pc: WorkerPcs, repo: Repo \cup {NoRepo}, next: 1..NumBatches + 1,
            row: RowStatus, overtaken: BOOLEAN]

IdleWorker == [pc |-> "idle", repo |-> NoRepo, next |-> 1, row |-> "none",
               overtaken |-> FALSE]

Running(w, r) == wk[w].repo = r

TypeOK ==
  /\ repo \in [Repo -> Row]
  /\ commits \in [Repo -> SUBSET Batch]
  /\ job \in [Repo -> Job]
  /\ req \in [Req -> Request]
  /\ wk \in [Worker -> Attempt]
  /\ abandoned \in [Repo -> BOOLEAN]
  /\ promised \in [Repo -> BOOLEAN]
  /\ torn \in [Repo -> BOOLEAN]

\* An empty database and an empty queue.
Init ==
  /\ repo = [r \in Repo |-> NoRow]
  /\ commits = [r \in Repo |-> {}]
  /\ job = [r \in Repo |-> NoJob]
  /\ req = [q \in Req |-> IdleReq]
  /\ wk = [w \in Worker |-> IdleWorker]
  /\ abandoned = [r \in Repo |-> FALSE]
  /\ promised = [r \in Repo |-> FALSE]
  /\ torn = [r \in Repo |-> FALSE]
=============================================================================
