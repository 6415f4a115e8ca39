------------------------------- MODULE Rescore -------------------------------
(* The rescore job of one repository: enqueueRescore, the RescoreProcessor and
   what else writes the repository's commits while it runs, a sync's batches and
   a purge.  The processor pages through commits with ORDER BY authored_at
   LIMIT/OFFSET, one statement a page, so each page sees another table and
   orders equal dates as it likes.  A commit is [id, at]; a score is the scorer
   that gave it, old or new. *)
EXTENDS Integers, FiniteSets, FiniteSetsExt

CONSTANTS CommitIds, Dates, BatchSize, MaxJobs

ASSUME RescoreAssumption ==
    /\ BatchSize \in Nat \ {0} /\ Dates \subseteq Nat /\ MaxJobs \in Nat
    /\ IsFiniteSet(CommitIds) /\ Dates # {}

VARIABLES commits,   \* rows of commits
          rescored,  \* ids of the rows the new scorer has scored
          job        \* the rescore job, with the processor's local variables

rescoreVars == <<commits, rescored, job>>

\* there and steady are history: the rows at the job's start, and whether none
\* was added or removed since.
NoJob == [state |-> "none", at |-> "select", offset |-> 0, processed |-> 0,
          page |-> {}, made |-> 0, there |-> {}, steady |-> TRUE]

RescoreInit ==
    /\ \E at \in [CommitIds -> Dates], ids \in SUBSET CommitIds :
         commits = {[id |-> i, at |-> at[i]] : i \in ids}
    /\ rescored = {} /\ job = NoJob

Active == job.state \in {"waiting", "active"}

\* enqueueRescore: a job that waits or runs stands for the new one; an ended one
\* is removed first.
EnqueueRescore ==
    /\ job.made < MaxJobs /\ ~Active
    /\ job' = [NoJob EXCEPT !.state = "waiting", !.made = job.made + 1]
    /\ UNCHANGED <<commits, rescored>>

\* A worker takes the job (attempts: 1).
TakeRescore ==
    /\ job.state = "waiting"
    /\ job' = [job EXCEPT !.state = "active", !.there = commits, !.steady = TRUE]
    /\ UNCHANGED <<commits, rescored>>

\* The first rows of some order by authored_at.
Prefix(rows) == \A r \in rows, s \in commits \ rows : r.at <= s.at

\* What LIMIT batch OFFSET offset may return.
PagesAt(offset) ==
    {page \in SUBSET commits :
       /\ Cardinality(page) <= BatchSize
       /\ \E skipped \in SUBSET (commits \ page) :
            /\ Cardinality(skipped) = IF offset < Cardinality(commits) THEN offset
                                      ELSE Cardinality(commits)
            /\ Prefix(skipped) /\ Prefix(skipped \cup page)
            /\ Cardinality(page) < BatchSize => skipped \cup page = commits}

\* The next page, or the end of the loop.
SelectPage ==
    /\ job.state = "active" /\ job.at = "select"
    /\ \E page \in PagesAt(job.offset) :
         job' = IF page = {} THEN [job EXCEPT !.state = "completed"]
                ELSE [job EXCEPT !.at = "upsert", !.page = page]
    /\ UNCHANGED <<commits, rescored>>

\* Mutant: the offset moves on by one row too many.
UpsertPageSkipping ==
    /\ job.state = "active" /\ job.at = "upsert"
    /\ job.page \subseteq commits
    /\ rescored' = rescored \cup {r.id : r \in job.page}
    /\ job' = [job EXCEPT !.at = "select", !.page = {},
                          !.processed = @ + Cardinality(job.page),
                          !.offset = @ + BatchSize + 1]
    /\ UNCHANGED commits

\* upsertBatch, one statement: all scores of the page.
UpsertPage ==
    /\ job.state = "active" /\ job.at = "upsert"
    /\ job.page \subseteq commits
    /\ rescored' = rescored \cup {r.id : r \in job.page}
    /\ job' = [job EXCEPT !.at = "select", !.page = {},
                          !.processed = @ + Cardinality(job.page),
                          !.offset = @ + BatchSize]
    /\ UNCHANGED commits

\* A row of the page is gone (foreign key), or the statement fails.
UpsertFails ==
    /\ job.state = "active" /\ job.at = "upsert"
    /\ job' = [job EXCEPT !.state = "failed"]
    /\ UNCHANGED <<commits, rescored>>

\* A sync writes a batch: a commit with its score by the current scorer.
SyncBatch(i, at) ==
    /\ \A r \in commits : r.id # i
    /\ commits' = commits \cup {[id |-> i, at |-> at]}
    /\ rescored' = rescored \cup {i}
    /\ job' = [job EXCEPT !.steady = FALSE]

\* purge deletes the commits and, by the foreign key, their scores; the purge
\* handler removes the job unless a worker holds it.
Purge ==
    /\ commits # {}
    /\ commits' = {} /\ rescored' = {}
    /\ job' = IF job.state = "active" THEN [job EXCEPT !.steady = FALSE]
              ELSE [NoJob EXCEPT !.made = job.made]

RescoreNext ==
    \/ EnqueueRescore \/ TakeRescore \/ SelectPage \/ UpsertPage \/ UpsertFails
    \/ Purge \/ \E i \in CommitIds, at \in Dates : SyncBatch(i, at)

\* A rescore that completes has scored every commit that was there from its
\* start, unless two of them have the same date or rows were added or removed
\* while it ran (rescore.processor.ts:47).
RescoreMissesNone ==
    LET still == job.there \cap commits
        distinct == \A r, s \in still : r.at = s.at => r = s
    IN job.state = "completed" /\ job.steady /\ distinct =>
         {r.id : r \in still} \subseteq rescored
=============================================================================
