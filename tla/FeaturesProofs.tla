---------------------------- MODULE FeaturesProofs ----------------------------
(***************************************************************************)
(* Six features for every value of their constants.                        *)
(*                                                                         *)
(* The rescore job for every table of commits, batch size and number of    *)
(* jobs.  While no commit is added or removed and no two share a date, the *)
(* pages that were scored are the first commits by date, as many as the    *)
(* offset says: two such sets of one size are equal, so that the next page *)
(* begins where they end.                                                  *)
(*                                                                         *)
(* The API keys and their page for every number of calls: a change of the  *)
(* rows is made by a call that is waited for, or was given up, until its   *)
(* answer asks for the list again.  The LLM keys in the same way, with the *)
(* order in which their savings are told of.                               *)
(*                                                                         *)
(* Sessions for every set of browsers and logins: where each browser is,   *)
(* with which cookies, and what Supabase keeps of its session.             *)
(*                                                                         *)
(* The statistics' cache for every number of readers and writes: an entry  *)
(* older than the last event has something that will drop it or a fill     *)
(* that overlapped.                                                        *)
(*                                                                         *)
(* The paged lists for every set of rows, page length and resolution of    *)
(* the dates: the pages hang together, each beginning at the cursor of the *)
(* one before, and the walk has shown, lost to a cursor or has still to    *)
(* come to each row that was there when it began.                          *)
(***************************************************************************)
EXTENDS Features, FiniteSetTheorems, SequenceTheorems, TLAPS

Commits == [id : CommitIds \cup {Min(CommitIds)}, at : Dates]
Ids(S) == {r.id : r \in S}

DistinctDates == \A r, s \in commits : r.at = s.at => r = s

RescoreTypes ==
  /\ commits \subseteq Commits /\ IsFiniteSet(commits)
  /\ job \in [state : {"none", "waiting", "active", "completed", "failed"},
              at : {"select", "upsert"}, offset : Nat, processed : Nat, page : SUBSET Commits,
              made : Nat, there : SUBSET Commits, steady : BOOLEAN]

\* As many as the offset says, or all.
Skips(S) == Cardinality(S) = IF job.offset < Cardinality(commits) THEN job.offset
                             ELSE Cardinality(commits)

\* The commits before the page are scored, and the page follows them.
Reached(S) ==
  /\ Prefix(S) /\ Skips(S) /\ Ids(S) \subseteq rescored
  /\ job.at = "upsert" =>
       /\ job.page \subseteq commits /\ job.page \cap S = {}
       /\ Prefix(S \cup job.page) /\ Cardinality(job.page) <= BatchSize
       /\ Cardinality(job.page) < BatchSize => S \cup job.page = commits

RescoreInv ==
  /\ RescoreTypes
  /\ job.state \in {"active", "completed"} /\ job.steady => job.there = commits
  /\ job.state = "active" /\ job.steady /\ DistinctDates => \E S \in SUBSET commits : Reached(S)
  /\ job.state = "completed" /\ job.steady /\ DistinctDates => Ids(commits) \subseteq rescored
  /\ job.state = "waiting" => job.at = "select" /\ job.offset = 0

\* DistinctDates dates order the commits: prefixes of one size are equal.
LEMMA PrefixesAgree ==
  ASSUME RescoreTypes, DistinctDates, NEW S \in SUBSET commits, NEW T \in SUBSET commits,
         Prefix(S), Prefix(T), Cardinality(S) = Cardinality(T)
  PROVE  S = T
<1>1. \A r \in commits : r.at \in Nat
  BY RescoreAssumption DEF RescoreTypes, Commits
<1>2. S \subseteq T \/ T \subseteq S
  <2> SUFFICES ASSUME NEW r \in S, r \notin T, NEW s \in T, s \notin S
               PROVE  FALSE
    OBVIOUS
  <2>1. r.at <= s.at /\ s.at <= r.at
    BY DEF Prefix
  <2>2. r.at = s.at
    BY <1>1, <2>1
  <2> QED BY <2>2 DEF DistinctDates
<1>3. IsFiniteSet(S) /\ IsFiniteSet(T)
  BY FS_Subset DEF RescoreTypes
<1> QED BY <1>2, <1>3, FS_Subset

\* A page of the processor follows what is scored.
LEMMA PageFollows ==
  ASSUME RescoreTypes, DistinctDates, NEW S \in SUBSET commits, Prefix(S), Skips(S),
         NEW page \in PagesAt(job.offset)
  PROVE  /\ page \subseteq commits /\ page \cap S = {}
         /\ Prefix(S \cup page) /\ Cardinality(page) <= BatchSize
         /\ Cardinality(page) < BatchSize => S \cup page = commits
<1>1. PICK skipped \in SUBSET (commits \ page) :
        /\ Cardinality(skipped) = IF job.offset < Cardinality(commits) THEN job.offset
                                  ELSE Cardinality(commits)
        /\ Prefix(skipped) /\ Prefix(skipped \cup page)
        /\ Cardinality(page) < BatchSize => skipped \cup page = commits
  BY DEF PagesAt
<1>2. page \subseteq commits /\ Cardinality(page) <= BatchSize
  BY DEF PagesAt
<1>3. skipped = S
  <2>1. skipped \in SUBSET commits
    BY <1>1
  <2>2. Cardinality(skipped) = Cardinality(S)
    BY <1>1 DEF Skips
  <2> QED BY <1>1, <2>1, <2>2, PrefixesAgree
<1> QED BY <1>1, <1>2, <1>3

\* After the page they are more by the batch size, or all.
LEMMA OffsetMoves ==
  ASSUME RescoreTypes, NEW S \in SUBSET commits, Skips(S), NEW page \in SUBSET commits,
         page \cap S = {}, Cardinality(page) <= BatchSize,
         Cardinality(page) < BatchSize => S \cup page = commits
  PROVE  Cardinality(S \cup page) = IF job.offset + BatchSize < Cardinality(commits)
                                    THEN job.offset + BatchSize ELSE Cardinality(commits)
<1> DEFINE c == Cardinality(commits)
           n == Cardinality(S)
           k == Cardinality(page)
           m == Cardinality(S \cup page)
           o == job.offset
<1>1. IsFiniteSet(S) /\ IsFiniteSet(page) /\ IsFiniteSet(commits) /\ IsFiniteSet(S \cup page)
  BY FS_Subset DEF RescoreTypes
<1>2. c \in Nat /\ n \in Nat /\ k \in Nat /\ m \in Nat
  BY <1>1, FS_CardinalityType
<1>3. m = n + k
  <2>1. Cardinality(S \cap page) = 0
    <3>1. S \cap page = {}
      OBVIOUS
    <3> QED BY <3>1, FS_EmptySet
  <2>2. m = n + k - Cardinality(S \cap page)
    BY <1>1, FS_Union
  <2> QED BY <1>2, <2>1, <2>2
<1>4. m <= c
  BY <1>1, FS_Subset
<1>5. k < BatchSize => m = c
  OBVIOUS
<1>6. n = IF o < c THEN o ELSE c
  BY DEF Skips
<1>7. o \in Nat /\ BatchSize \in Nat /\ BatchSize > 0 /\ k <= BatchSize
  BY RescoreAssumption DEF RescoreTypes
<1> HIDE DEF c, n, k, m, o
<1>8. m = IF o + BatchSize < c THEN o + BatchSize ELSE c
  BY <1>2, <1>3, <1>4, <1>5, <1>6, <1>7
<1> QED BY <1>8 DEF c, m, o

\* A new table is finite, and its job has not begun.
LEMMA RescoreStarts ==
  ASSUME RescoreInit \/ AnalyticsInit
  PROVE  RescoreInv
<1>1. job = NoJob
  BY DEF RescoreInit, AnalyticsInit
<1>2. commits \subseteq Commits /\ IsFiniteSet(commits)
  <2>1. CASE RescoreInit
    <3>1. PICK at \in [CommitIds -> Dates], ids \in SUBSET CommitIds :
            commits = {[id |-> i, at |-> at[i]] : i \in ids}
      BY <2>1 DEF RescoreInit
    <3>2. commits \subseteq Commits
      BY <3>1 DEF Commits
    <3> DEFINE f == [i \in ids |-> [id |-> i, at |-> at[i]]]
    <3>3. f \in Surjection(ids, commits)
      <4>1. f \in [ids -> commits]
        BY <3>1
      <4>2. \A c \in commits : \E i \in ids : f[i] = c
        BY <3>1
      <4> QED BY <4>1, <4>2, Zenon DEF Surjection
    <3>4. IsFiniteSet(ids)
      BY FS_Subset, RescoreAssumption
    <3> QED BY <3>2, <3>3, <3>4, FS_Surjection
  <2>2. CASE AnalyticsInit
    <3> DEFINE c == [id |-> Min(CommitIds), at |-> OneDate]
    <3>1. commits = {c}
      BY <2>2 DEF AnalyticsInit
    <3>2. OneDate \in Dates
      BY RescoreAssumption DEF OneDate
    <3>3. c \in Commits
      BY <3>2 DEF Commits
    <3> HIDE DEF c
    <3> QED BY <3>1, <3>3, FS_Singleton
  <2> QED BY <2>1, <2>2
<1>3. RescoreTypes
  BY <1>1, <1>2 DEF RescoreTypes, NoJob
<1> QED BY <1>1, <1>3 DEF RescoreInv, NoJob

\* A job that is enqueued, or taken at the table as it is.
LEMMA JobBegins ==
  ASSUME RescoreInv, EnqueueRescore \/ TakeRescore
  PROVE  RescoreInv'
<1>1. CASE EnqueueRescore
  <2>1. /\ job' = [NoJob EXCEPT !.state = "waiting", !.made = job.made + 1]
        /\ UNCHANGED <<commits, rescored>>
    BY <1>1 DEF EnqueueRescore
  <2>2. job.made + 1 \in Nat
    BY DEF RescoreInv, RescoreTypes
  <2>3. RescoreTypes'
    BY <2>1, <2>2 DEF RescoreInv, RescoreTypes, NoJob
  <2>4. job'.state = "waiting" /\ job'.at = "select" /\ job'.offset = 0
    BY <2>1 DEF NoJob
  <2> QED BY <2>3, <2>4 DEF RescoreInv
<1>2. CASE TakeRescore
  <2>1. /\ job' = [job EXCEPT !.state = "active", !.there = commits, !.steady = TRUE]
        /\ UNCHANGED <<commits, rescored>>
    BY <1>2 DEF TakeRescore
  <2>2. RescoreTypes'
    BY <2>1 DEF RescoreInv, RescoreTypes
  <2>3. /\ job'.state = "active" /\ job'.there = commits /\ job'.at = "select" /\ job'.offset = 0
    BY <1>2, <2>1 DEF TakeRescore, RescoreInv, RescoreTypes
  <2>4. Reached({})'
    <3>1. Cardinality(commits) \in Nat /\ Cardinality({}) = 0
      BY FS_CardinalityType, FS_EmptySet DEF RescoreInv, RescoreTypes
    <3>2. Skips({})'
      BY <2>1, <2>3, <3>1 DEF Skips
    <3>3. Prefix({})' /\ Ids({})' \subseteq rescored'
      BY DEF Prefix, Ids
    <3> QED BY <2>3, <3>2, <3>3 DEF Reached
  <2>5. {} \in SUBSET commits'
    OBVIOUS
  <2> QED BY <2>1, <2>2, <2>3, <2>4, <2>5 DEF RescoreInv
<1> QED BY <1>1, <1>2

\* The next page follows what is scored; no page means that all is.
LEMMA PageSelected ==
  ASSUME RescoreInv, SelectPage
  PROVE  RescoreInv'
<1>1. PICK page \in PagesAt(job.offset) :
        job' = IF page = {} THEN [job EXCEPT !.state = "completed"]
               ELSE [job EXCEPT !.at = "upsert", !.page = page]
  BY DEF SelectPage
<1>2. UNCHANGED <<commits, rescored>> /\ job.state = "active" /\ job.at = "select"
  BY DEF SelectPage
<1>3. page \in SUBSET Commits
  BY DEF PagesAt, RescoreInv, RescoreTypes
<1>4. RescoreTypes'
  BY <1>1, <1>2, <1>3 DEF RescoreInv, RescoreTypes
<1>5. /\ job'.there = job.there /\ job'.steady = job.steady /\ job'.offset = job.offset
      /\ page = {} => job'.state = "completed"
      /\ page # {} => job'.state = "active" /\ job'.at = "upsert" /\ job'.page = page
  BY <1>1, <1>2 DEF RescoreInv, RescoreTypes
<1>6. ASSUME job'.steady, DistinctDates'
      PROVE  /\ job'.state = "active" => \E S \in SUBSET commits' : Reached(S)'
             /\ job'.state = "completed" => Ids(commits)' \subseteq rescored'
  <2>1. DistinctDates
    BY <1>2, <1>6 DEF DistinctDates
  <2>2. PICK S \in SUBSET commits : Reached(S)
    BY <1>2, <1>5, <1>6, <2>1 DEF RescoreInv
  <2>3. Prefix(S) /\ Skips(S)
    BY <2>2 DEF Reached
  <2>4. /\ page \subseteq commits /\ page \cap S = {}
        /\ Prefix(S \cup page) /\ Cardinality(page) <= BatchSize
        /\ Cardinality(page) < BatchSize => S \cup page = commits
    BY <2>1, <2>3, PageFollows DEF RescoreInv
  <2>5. CASE page = {}
    <3>1. Cardinality(page) < BatchSize
      <4>1. Cardinality(page) = 0
        BY <2>5, FS_EmptySet
      <4> QED BY <4>1, RescoreAssumption
    <3>2. S = commits
      BY <2>4, <2>5, <3>1
    <3>3. Ids(commits) \subseteq rescored
      BY <2>2, <3>2 DEF Reached
    <3>4. Ids(commits)' \subseteq rescored' /\ job'.state = "completed"
      BY <1>2, <1>5, <2>5, <3>3 DEF Ids
    <3> QED BY <3>4
  <2>6. CASE page # {}
    <3>1. Prefix(S)' /\ Prefix(S \cup page)' /\ Skips(S)' /\ Ids(S)' \subseteq rescored'
      BY <1>2, <1>5, <2>2, <2>4 DEF Reached, Prefix, Skips, Ids
    <3>2. Reached(S)'
      BY <1>2, <1>5, <2>4, <2>6, <3>1 DEF Reached
    <3>3. S \in SUBSET commits' /\ job'.state = "active"
      BY <1>2, <1>5, <2>6
    <3> QED BY <3>2, <3>3
  <2> QED BY <2>5, <2>6
<1>7. job'.state \in {"active", "completed"} /\ job'.steady => job'.there = commits'
  BY <1>2, <1>5 DEF RescoreInv
<1>8. job'.state # "waiting"
  BY <1>5
<1> QED BY <1>4, <1>6, <1>7, <1>8 DEF RescoreInv

\* What was scored and the page are the commits before the next offset.
LEMMA PageUpserted ==
  ASSUME RescoreInv, UpsertPage
  PROVE  RescoreInv'
<1> DEFINE k == job.processed + Cardinality(job.page)
           o == job.offset + BatchSize
<1>1. /\ job.state = "active" /\ job.at = "upsert" /\ job.page \subseteq commits
      /\ rescored' = rescored \cup Ids(job.page) /\ UNCHANGED commits
      /\ job' = [job EXCEPT !.at = "select", !.page = {}, !.processed = k, !.offset = o]
  BY DEF UpsertPage, Ids
<1>2. o \in Nat /\ k \in Nat
  <2>1. IsFiniteSet(job.page)
    BY <1>1, FS_Subset DEF RescoreInv, RescoreTypes
  <2>2. Cardinality(job.page) \in Nat
    BY <2>1, FS_CardinalityType
  <2> QED BY <2>2, RescoreAssumption DEF RescoreInv, RescoreTypes
<1> HIDE DEF k
<1>3. RescoreTypes'
  <2> HIDE DEF o
  <2> QED BY <1>1, <1>2 DEF RescoreInv, RescoreTypes
<1>4. /\ job'.there = job.there /\ job'.steady = job.steady /\ job'.offset = job.offset + BatchSize
      /\ job'.state = "active" /\ job'.at = "select"
  BY <1>1 DEF RescoreInv, RescoreTypes
<1>5. ASSUME job'.steady, DistinctDates'
      PROVE  \E S \in SUBSET commits' : Reached(S)'
  <2>1. DistinctDates
    BY <1>1, <1>5 DEF DistinctDates
  <2>2. PICK S \in SUBSET commits : Reached(S)
    BY <1>1, <1>4, <1>5, <2>1 DEF RescoreInv
  <2>0. PICK T : T = S \cup job.page
    OBVIOUS
  <2>3. /\ Skips(S) /\ job.page \cap S = {} /\ Prefix(T)
        /\ Cardinality(job.page) <= BatchSize
        /\ Cardinality(job.page) < BatchSize => T = commits
        /\ Ids(S) \subseteq rescored
    BY <1>1, <2>0, <2>2 DEF Reached
  <2>4. Cardinality(T) = IF job.offset + BatchSize < Cardinality(commits)
                         THEN job.offset + BatchSize ELSE Cardinality(commits)
    BY <1>1, <2>0, <2>3, OffsetMoves DEF RescoreInv
  <2>5. Ids(T) \subseteq rescored'
    BY <1>1, <2>0, <2>3 DEF Ids
  <2>6. T \in SUBSET commits'
    BY <1>1, <2>0
  <2>7. Skips(T)' /\ Prefix(T)' /\ Ids(T)' \subseteq rescored'
    BY <1>1, <1>4, <2>3, <2>4, <2>5 DEF Skips, Prefix, Ids
  <2>8. Reached(T)'
    BY <1>4, <2>7 DEF Reached
  <2> QED BY <2>6, <2>8
<1>6. job'.steady => job'.there = commits'
  BY <1>1, <1>4 DEF RescoreInv
<1> QED BY <1>3, <1>4, <1>5, <1>6 DEF RescoreInv

\* A commit that is added, rows that are deleted, and a job that fails.
LEMMA TableChanges ==
  ASSUME RescoreInv,
         \/ UpsertFails \/ Purge
         \/ \E i \in CommitIds, at \in Dates : SyncBatch(i, at)
  PROVE  RescoreInv'
<1>1. CASE UpsertFails
  <2>1. job' = [job EXCEPT !.state = "failed"] /\ UNCHANGED <<commits, rescored>>
    BY <1>1 DEF UpsertFails
  <2>2. RescoreTypes' /\ job'.state = "failed"
    BY <2>1 DEF RescoreInv, RescoreTypes
  <2> QED BY <2>2 DEF RescoreInv
<1>2. CASE Purge
  <2>1. commits' = {} /\ IsFiniteSet(commits') /\ commits' \subseteq Commits
    BY <1>2, FS_EmptySet DEF Purge
  <2>2. CASE job.state = "active"
    <3>1. job' = [job EXCEPT !.steady = FALSE]
      BY <1>2, <2>2 DEF Purge
    <3>2. RescoreTypes' /\ job'.state = "active" /\ ~job'.steady
      BY <2>1, <2>2, <3>1 DEF RescoreInv, RescoreTypes
    <3> QED BY <3>2 DEF RescoreInv
  <2>3. CASE job.state # "active"
    <3>1. job' = [NoJob EXCEPT !.made = job.made]
      BY <1>2, <2>3 DEF Purge
    <3>2. RescoreTypes' /\ job'.state = "none"
      BY <2>1, <3>1 DEF RescoreInv, RescoreTypes, NoJob
    <3> QED BY <3>2 DEF RescoreInv
  <2> QED BY <2>2, <2>3
<1>3. ASSUME NEW i \in CommitIds, NEW at \in Dates, SyncBatch(i, at)
      PROVE  RescoreInv'
  <2> DEFINE c == [id |-> i, at |-> at]
  <2>1. commits' = commits \cup {c} /\ job' = [job EXCEPT !.steady = FALSE]
    BY <1>3 DEF SyncBatch
  <2>2. c \in Commits
    BY DEF Commits
  <2>3. commits' \subseteq Commits /\ IsFiniteSet(commits')
    BY <2>1, <2>2, FS_AddElement DEF RescoreInv, RescoreTypes
  <2>4. RescoreTypes' /\ ~job'.steady
    BY <2>1, <2>3 DEF RescoreInv, RescoreTypes
  <2>5. job'.state = job.state /\ job'.at = job.at /\ job'.offset = job.offset
    BY <2>1 DEF RescoreInv, RescoreTypes
  <2> QED BY <2>4, <2>5 DEF RescoreInv
<1> QED BY <1>1, <1>2, <1>3

\* Whoever writes the table and the job, the analytics' steps included, takes a step of Rescore.
LEMMA RescoreMoves ==
  ASSUME [Next]_vars
  PROVE  RescoreNext \/ UNCHANGED rescoreVars
<1>1. CASE ListingsFeature
  BY <1>1 DEF ListingsFeature, analyticsVars
<1>2. CASE RescoreFeature
  BY <1>2 DEF RescoreFeature
<1>3. CASE AnalyticsFeature
  <2>1. AnalyticsNext
    BY <1>3 DEF AnalyticsFeature
  <2>2. CASE SyncWrites
    <3>1. PICK i \in CommitIds : SyncBatch(i, OneDate)
      BY <2>2 DEF SyncWrites
    <3>2. OneDate \in Dates
      BY RescoreAssumption DEF OneDate
    <3> QED BY <3>1, <3>2 DEF RescoreNext
  <2>3. CASE RescoreWrites \/ RescoreEnds \/ Purges \/ RescoreStep
    BY <2>3 DEF RescoreWrites, RescoreEnds, Purges, RescoreStep, RescoreNext
  <2>4. CASE (\E seen \in BOOLEAN : SyncEnds(seen)) \/ SweepStep \/ SweepFails
    BY <2>4 DEF SyncEnds, SweepStep, SweepFails
  <2>5. ASSUME NEW r \in Readers, ReaderStep(r)
        PROVE  UNCHANGED rescoreVars
    BY <2>5 DEF ReaderStep, Begin, Get, Load, LoadFails, Set
  <2>6. ASSUME NEW k \in Kinds, Expire(k) \/ RetryChart(k)
        PROVE  UNCHANGED rescoreVars
    BY <2>6 DEF Expire, RetryChart
  <2> QED BY <2>1, <2>2, <2>3, <2>4, <2>5, <2>6 DEF AnalyticsNext
<1>4. CASE SessionsFeature \/ ApiKeysFeature \/ LlmKeysFeature \/ CommitMessagesFeature
  BY <1>4 DEF SessionsFeature, ApiKeysFeature, LlmKeysFeature, CommitMessagesFeature, analyticsVars
<1>5. CASE UNCHANGED vars
  BY <1>5 DEF vars, analyticsVars
<1> QED BY <1>1, <1>2, <1>3, <1>4, <1>5 DEF Next

\* rescore.processor.ts:47: whatever the batch size and the number of commits, a rescore
\* that completes over an unchanging table with distinct dates has scored all of it.
THEOREM RescoreComplete == Spec => []RescoreMissesNone
<1>1. Init => RescoreInv
  BY RescoreStarts DEF Init
<1>2. RescoreInv /\ [Next]_vars => RescoreInv'
  <2> SUFFICES ASSUME RescoreInv, [Next]_vars
               PROVE  RescoreInv'
    OBVIOUS
  <2>1. CASE RescoreNext
    BY <2>1, JobBegins, PageSelected, PageUpserted, TableChanges DEF RescoreNext
  <2>2. CASE UNCHANGED rescoreVars
    BY <2>2 DEF rescoreVars, RescoreInv, RescoreTypes, DistinctDates, Reached, Skips, Prefix, Ids
  <2> QED BY <2>1, <2>2, RescoreMoves
<1>3. RescoreInv => RescoreMissesNone
  <2> SUFFICES ASSUME RescoreInv, job.state = "completed", job.steady,
                      \A r, s \in job.there \cap commits : r.at = s.at => r = s
               PROVE  {r.id : r \in job.there \cap commits} \subseteq rescored
    BY DEF RescoreMissesNone
  <2>1. job.there = commits
    BY DEF RescoreInv
  <2>2. Ids(commits) \subseteq rescored
    BY <2>1 DEF RescoreInv, DistinctDates
  <2> QED BY <2>1, <2>2 DEF Ids
<1> QED BY <1>1, <1>2, <1>3, PTL DEF Spec

-------------------------------------------------------------------------------
KeyRows == [prefix : KeyPrefixes, revoked : BOOLEAN]
KeyLogs == [created : Nat, revoked : Nat]
KeySets == SUBSET Nat
KeyOps == {"none", "create", "revoke"}
KeyStages == {"idle", "mint", "find", "update", "answer"}
Fetches == [at : {"none", "sent", "back"}, body : KeySets]
Queries == [data : KeySets, error : BOOLEAN, fetch : Fetches]
CallRecords == [op : KeyOps, at : KeyStages, key : Nat, tries : Nat, prev : KeySets,
                ok : BOOLEAN, waiting : BOOLEAN, early : BOOLEAN]
PageRecords == [query : Queries, open : BOOLEAN, secret : Nat, submitting : BOOLEAN,
                seen : KeySets, asked : Nat, latest : Nat, faults : Nat]
UseRecords == [at : {"idle", "find", "verify", "admitted", "refused"}, key : Nat, found : Nat,
               gone : BOOLEAN]

KeyTypes ==
  /\ keyRow \in Seq(KeyRows) /\ keyLog \in Seq(KeyLogs)
  /\ Len(keyLog) = Len(keyRow)
  /\ keyCall \in [KeyCalls -> CallRecords]
  /\ keyPage \in PageRecords /\ keyUse \in UseRecords

\* Whatever is shown, asked for or answered is a row's key.
CallsKnow == \A c \in KeyCalls : keyCall[c].key \in Keys \cup {NoKey} /\ keyCall[c].prev \subseteq Keys
PageKnows ==
  /\ keyPage.secret \in Keys \cup {NoKey} /\ keyPage.asked \in Keys \cup {NoKey}
  /\ keyPage.seen \subseteq Keys \cup {NoKey}
  /\ keyPage.query.data \subseteq Keys /\ keyPage.query.fetch.body \subseteq Keys

PrefixesDiffer == \A j, k \in Keys : keyRow[j].prefix = keyRow[k].prefix => j = k

\* A call that has still to change a row is waited for, or was given up early.
CallPhase(call) ==
  /\ call.op = "none" <=> call.at = "idle"
  /\ call.op = "none" => call.key = NoKey /\ ~call.waiting /\ ~call.early
  /\ call.at = "mint" => call.op = "create" /\ call.key = NoKey
  /\ call.at \in {"find", "update"} => call.op = "revoke" /\ call.key # NoKey
  /\ call.at # "answer" => ~call.ok
  /\ call.ok => call.key # NoKey
  /\ call.at \in {"mint", "find", "update"} => call.waiting \/ call.early
CallPhases == \A c \in KeyCalls : CallPhase(keyCall[c])

AllSettled == \A c \in KeyCalls : ~keyCall[c].waiting /\ ~keyCall[c].early

\* With no call unsettled, what was read, or is shown without an error, is what there is.
ListFollows ==
  AllSettled =>
    /\ keyPage.query.fetch.at = "back" => keyPage.query.fetch.body = ActiveKeys
    /\ keyPage.query.fetch.at = "none" /\ ~keyPage.query.error => keyPage.query.data = ActiveKeys

\* A key that is made is nobody else's, and its secret has not been shown before its answer.
SecretsFresh ==
  /\ keyPage.secret # NoKey => keyPage.secret \notin keyPage.seen
  /\ \A c \in KeyCalls :
       keyCall[c].op = "create" /\ keyCall[c].waiting /\ keyCall[c].key # NoKey =>
         keyCall[c].key \notin keyPage.seen /\ keyCall[c].key # keyPage.secret
  /\ \A c, d \in KeyCalls :
       (/\ keyCall[c].op = "create" /\ keyCall[d].op = "create"
        /\ keyCall[c].key = keyCall[d].key /\ keyCall[c].key # NoKey) => c = d

\* The guard finds no row that was revoked when the key came.
GuardKnows ==
  /\ keyUse.at = "find" =>
       keyUse.found \in Keys /\ (keyUse.gone => keyRow[keyUse.found].revoked)
  /\ keyUse.at = "verify" => (keyUse.gone => keyUse.found = NoKey)
  /\ RevokedKeyRefused

KeysInv ==
  /\ KeyTypes /\ CallsKnow /\ PageKnows /\ PrefixesDiffer /\ CallPhases
  /\ ListFollows /\ SecretsFresh /\ GuardKnows /\ KeyEventsMatch

\* The invariant has all the run checks.
LEMMA KeysInvSuffices ==
  ASSUME KeysInv
  PROVE  ApiKeysHold
<1>1. ApiKeysTypeOK
  BY DEF KeysInv, KeyTypes, CallsKnow, PageKnows, PrefixesDiffer, ApiKeysTypeOK, KeyRows, UseRecords
<1>2. KeysPageSettles
  BY DEF KeysInv, ListFollows, AllSettled, KeysPageSettles, Idle, NoFetch
<1>3. RevokedKeyRefused /\ KeyEventsMatch /\ SecretShownOnce
  BY DEF KeysInv, GuardKnows, SecretsFresh, SecretShownOnce
<1> QED BY <1>1, <1>2, <1>3 DEF ApiKeysHold

\* Rows are numbered from one.
LEMMA KeyNumbers ==
  ASSUME KeyTypes
  PROVE  Keys = 1 .. Len(keyRow) /\ Len(keyRow) \in Nat /\ DOMAIN keyLog = Keys /\ NoKey \notin Keys
BY DEF KeyTypes, Keys, NoKey

\* What a row and its events are.
LEMMA KeyRowTypes ==
  ASSUME KeyTypes, NEW k \in Keys
  PROVE  keyRow[k] \in KeyRows /\ keyLog[k] \in KeyLogs
<1>1. k \in 1 .. Len(keyRow) /\ k \in 1 .. Len(keyLog)
  BY KeyNumbers DEF KeyTypes
<1>2. keyRow \in Seq(KeyRows) /\ keyLog \in Seq(KeyLogs)
  BY DEF KeyTypes
<1>3. keyRow[k] \in KeyRows
  BY <1>1, <1>2
<1>4. keyLog[k] \in KeyLogs
  BY <1>1, <1>2
<1> QED BY <1>3, <1>4

\* Only the page moves: what a list holds, reads and shows stays true.
LEMMA PageMoves ==
  ASSUME KeysInv, UNCHANGED <<keyRow, keyCall, keyUse, keyLog>>, keyPage' \in PageRecords,
         PageKnows', ListFollows',
         keyPage'.secret = keyPage.secret, keyPage'.seen = keyPage.seen
  PROVE  KeysInv'
<1>1. KeyTypes' /\ CallsKnow' /\ PrefixesDiffer' /\ CallPhases' /\ KeyEventsMatch'
  BY DEF KeysInv, KeyTypes, CallsKnow, PrefixesDiffer, CallPhases, CallPhase, KeyEventsMatch, Keys
<1>2. GuardKnows'
  BY DEF KeysInv, GuardKnows, RevokedKeyRefused, Keys
<1>3. SecretsFresh'
  BY DEF KeysInv, SecretsFresh
<1> QED BY <1>1, <1>2, <1>3 DEF KeysInv

\* A secret stays or goes with its dialog.
LEMMA DialogsKeep ==
  ASSUME KeysInv,
         OpenKeyDialog \/ CloseKeyDialog \/ CancelRevoke \/ \E k \in Keys : AskRevoke(k)
  PROVE  KeysInv'
<1>0. NoKey \in Nat /\ Keys \subseteq Nat
  BY KeyNumbers DEF KeysInv, NoKey
<1>1. UNCHANGED <<keyRow, keyCall, keyUse, keyLog>>
  BY DEF OpenKeyDialog, CloseKeyDialog, CancelRevoke, AskRevoke
<1>2. CASE OpenKeyDialog
  <2>1. keyPage' = [keyPage EXCEPT !.open = TRUE]
    BY <1>2 DEF OpenKeyDialog
  <2>2. keyPage' \in PageRecords
    BY <2>1 DEF KeysInv, KeyTypes, PageRecords
  <2>3. /\ keyPage'.query = keyPage.query /\ keyPage'.secret = keyPage.secret
        /\ keyPage'.seen = keyPage.seen /\ keyPage'.asked = keyPage.asked
    BY <2>1 DEF KeysInv, KeyTypes, PageRecords
  <2>4. PageKnows' /\ ListFollows'
    BY <1>1, <2>3 DEF KeysInv, PageKnows, ListFollows, AllSettled, ActiveKeys, Keys
  <2> QED BY <1>1, <2>2, <2>3, <2>4, PageMoves
<1>3. CASE CloseKeyDialog
  <2> DEFINE s == keyPage.seen \cup {keyPage.secret}
  <2>1. keyPage' = [keyPage EXCEPT !.submitting = FALSE, !.secret = NoKey, !.open = FALSE, !.seen = s]
    BY <1>3 DEF CloseKeyDialog, ResetDialog, KeysInv, KeyTypes, PageRecords
  <2>0. s \in KeySets /\ s \subseteq Keys \cup {NoKey}
    BY <1>0 DEF KeysInv, KeyTypes, PageRecords, KeySets, PageKnows
  <2>5. s \subseteq keyPage.seen \cup {keyPage.secret}
    OBVIOUS
  <2> HIDE DEF s
  <2>2. keyPage' \in PageRecords
    BY <1>0, <2>0, <2>1 DEF KeysInv, KeyTypes, PageRecords
  <2>3. /\ keyPage'.query = keyPage.query /\ keyPage'.secret = NoKey
        /\ keyPage'.seen = s /\ keyPage'.asked = keyPage.asked
    BY <2>1 DEF KeysInv, KeyTypes, PageRecords
  <2>4. PageKnows' /\ ListFollows'
    BY <1>1, <2>0, <2>3 DEF KeysInv, PageKnows, ListFollows, AllSettled, ActiveKeys, Keys
  <2>7. KeyTypes' /\ CallsKnow' /\ PrefixesDiffer' /\ CallPhases' /\ KeyEventsMatch'
    BY <1>1, <2>2 DEF KeysInv, KeyTypes, CallsKnow, PrefixesDiffer, CallPhases, CallPhase, KeyEventsMatch, Keys
  <2>8. GuardKnows'
    BY <1>1 DEF KeysInv, GuardKnows, RevokedKeyRefused, Keys
  <2>9. SecretsFresh'
    BY <1>1, <2>3, <2>5 DEF KeysInv, SecretsFresh
  <2> QED BY <2>4, <2>7, <2>8, <2>9 DEF KeysInv
<1>4. ASSUME NEW k \in Keys \cup {NoKey}, keyPage' = [keyPage EXCEPT !.asked = k]
      PROVE  KeysInv'
  <2>2. keyPage' \in PageRecords
    BY <1>0, <1>4 DEF KeysInv, KeyTypes, PageRecords
  <2>3. /\ keyPage'.query = keyPage.query /\ keyPage'.secret = keyPage.secret
        /\ keyPage'.seen = keyPage.seen /\ keyPage'.asked = k
    BY <1>4 DEF KeysInv, KeyTypes, PageRecords
  <2>4. PageKnows' /\ ListFollows'
    BY <1>1, <2>3 DEF KeysInv, PageKnows, ListFollows, AllSettled, ActiveKeys, Keys
  <2> QED BY <1>1, <2>2, <2>3, <2>4, PageMoves
<1>5. CASE CancelRevoke
  BY <1>4, <1>5 DEF CancelRevoke
<1>6. CASE \E k \in Keys : AskRevoke(k)
  BY <1>4, <1>6 DEF AskRevoke
<1> QED BY <1>2, <1>3, <1>5, <1>6

\* The list is read, answered, failed and asked for again.
LEMMA ListKeeps ==
  ASSUME KeysInv, KeyListRead \/ KeyListAnswered \/ KeyListFailed \/ KeyListRetry
  PROVE  KeysInv'
<1> DEFINE q == keyPage.query
<1>0. ActiveKeys \subseteq Keys /\ Keys \in KeySets /\ ActiveKeys \in KeySets /\ {} \in KeySets
  BY KeyNumbers DEF KeysInv, ActiveKeys, KeySets
<1>1. UNCHANGED <<keyRow, keyCall, keyUse, keyLog>>
  BY DEF KeyListRead, KeyListAnswered, KeyListFailed, KeyListRetry
<1>2. q \in Queries
  BY DEF KeysInv, KeyTypes, PageRecords
<1>3. ASSUME NEW new \in Queries, NEW n \in Nat,
             keyPage' = [keyPage EXCEPT !.query = new, !.faults = n],
             new.data \subseteq Keys, new.fetch.body \subseteq Keys,
             AllSettled =>
               /\ new.fetch.at = "back" => new.fetch.body = ActiveKeys
               /\ new.fetch.at = "none" /\ ~new.error => new.data = ActiveKeys
      PROVE  KeysInv'
  <2>1. keyPage' \in PageRecords
    BY <1>3 DEF KeysInv, KeyTypes, PageRecords
  <2>2. /\ keyPage'.query = new /\ keyPage'.secret = keyPage.secret
        /\ keyPage'.seen = keyPage.seen /\ keyPage'.asked = keyPage.asked
    BY <1>3 DEF KeysInv, KeyTypes, PageRecords
  <2>3. PageKnows'
    BY <1>1, <1>3, <2>2 DEF KeysInv, PageKnows, Keys
  <2>4. ListFollows'
    BY <1>1, <1>3, <2>2 DEF ListFollows, AllSettled, ActiveKeys, Keys
  <2> QED BY <1>1, <2>1, <2>2, <2>3, <2>4, PageMoves
<1>4. q.data \subseteq Keys /\ q.fetch.body \subseteq Keys /\ q.fetch \in Fetches
      /\ keyPage.faults \in Nat /\ keyPage.faults + 1 \in Nat
  BY <1>2 DEF KeysInv, KeyTypes, PageRecords, PageKnows, Queries
<1>5. AllSettled =>
        /\ q.fetch.at = "back" => q.fetch.body = ActiveKeys
        /\ q.fetch.at = "none" /\ ~q.error => q.data = ActiveKeys
  BY DEF KeysInv, ListFollows
<1>6. ASSUME NEW new, keyPage' = [keyPage EXCEPT !.query = new]
      PROVE  keyPage' = [keyPage EXCEPT !.query = new, !.faults = keyPage.faults]
  BY <1>6 DEF KeysInv, KeyTypes, PageRecords
<1>7. CASE KeyListRead
  <2> DEFINE f == [at |-> "back", body |-> ActiveKeys]
             new == [q EXCEPT !.fetch = f]
  <2>1. keyPage' = [keyPage EXCEPT !.query = new]
    BY <1>7 DEF KeyListRead, Reads
  <2>2. f \in Fetches /\ f.at = "back" /\ f.body = ActiveKeys
    BY <1>0 DEF Fetches
  <2> HIDE DEF f
  <2>3. new \in Queries /\ new.data = q.data /\ new.fetch = f
    BY <1>2, <2>2 DEF Queries
  <2> HIDE DEF new
  <2> QED BY <1>0, <1>3, <1>4, <1>6, <2>1, <2>2, <2>3
<1>8. CASE KeyListAnswered
  <2> DEFINE new == [data |-> q.fetch.body, error |-> FALSE, fetch |-> NoFetch]
  <2>1. keyPage' = [keyPage EXCEPT !.query = new] /\ q.fetch.at = "back"
    BY <1>8 DEF KeyListAnswered, Succeeds
  <2>2. NoFetch \in Fetches /\ NoFetch.at = "none" /\ NoFetch.body = {}
    BY <1>0 DEF Fetches, NoFetch
  <2>3. new \in Queries /\ new.data = q.fetch.body /\ new.fetch = NoFetch
    BY <1>4, <2>2 DEF Queries, Fetches
  <2> HIDE DEF new
  <2> QED BY <1>3, <1>4, <1>5, <1>6, <2>1, <2>2, <2>3
<1>9. CASE KeyListFailed
  <2> DEFINE new == [q EXCEPT !.error = TRUE, !.fetch = NoFetch]
             n == keyPage.faults + 1
  <2>1. keyPage' = [keyPage EXCEPT !.query = new, !.faults = n]
    BY <1>9 DEF KeyListFailed, Fails
  <2>2. NoFetch \in Fetches /\ NoFetch.at = "none" /\ NoFetch.body = {}
    BY <1>0 DEF Fetches, NoFetch
  <2>3. new \in Queries /\ new.data = q.data /\ new.fetch = NoFetch /\ new.error
    BY <1>2, <2>2 DEF Queries
  <2>4. n \in Nat
    BY <1>4
  <2> HIDE DEF new, n
  <2> QED BY <1>3, <1>4, <2>1, <2>2, <2>3, <2>4
<1>10. CASE KeyListRetry
  <2> DEFINE new == [q EXCEPT !.fetch = Sent]
  <2>1. keyPage' = [keyPage EXCEPT !.query = new]
    BY <1>10 DEF KeyListRetry, InvalidateQueries
  <2>2. Sent \in Fetches /\ Sent.at = "sent" /\ Sent.body = {}
    BY <1>0 DEF Fetches, Sent
  <2>3. new \in Queries /\ new.data = q.data /\ new.fetch = Sent
    BY <1>2, <2>2 DEF Queries
  <2> HIDE DEF new
  <2> QED BY <1>3, <1>4, <1>6, <2>1, <2>2, <2>3
<1> QED BY <1>7, <1>8, <1>9, <1>10

\* A key that is presented: revoked rows stay revoked, and are not found.
LEMMA GuardKeeps ==
  ASSUME KeysInv, PresentKey \/ GuardFinds \/ GuardVerifies \/ KeyUseEnds
  PROVE  KeysInv'
<1>1. UNCHANGED <<keyRow, keyCall, keyPage, keyLog>>
  BY DEF PresentKey, GuardFinds, GuardVerifies, KeyUseEnds
<1>2. Keys \subseteq Nat /\ NoKey \in Nat /\ NoKey \notin Keys
  BY KeyNumbers DEF KeysInv, NoKey
<1>3. keyUse' \in UseRecords /\ GuardKnows'
  <2>1. CASE PresentKey
    <3>1. PICK k \in Keys, forged \in BOOLEAN :
            keyUse' = [at |-> "find", key |-> IF forged THEN NoKey ELSE k, found |-> k,
                       gone |-> keyRow[k].revoked]
      BY <2>1 DEF PresentKey
    <3>2. keyRow[k].revoked \in BOOLEAN
      BY KeyRowTypes DEF KeysInv, KeyRows
    <3>3. (IF forged THEN NoKey ELSE k) \in Nat /\ k \in Nat
      BY <1>2
    <3>4. keyUse' \in UseRecords
      BY <3>1, <3>2, <3>3 DEF UseRecords
    <3>5. keyUse'.at = "find" /\ keyUse'.found = k /\ keyUse'.gone = keyRow[k].revoked
      BY <3>1
    <3> QED BY <1>1, <3>4, <3>5 DEF GuardKnows, RevokedKeyRefused, Keys
  <2>2. CASE GuardFinds
    <3> DEFINE f == FindActiveByPrefix(keyUse.found)
    <3>1. keyUse.at = "find" /\ keyUse' = [keyUse EXCEPT !.at = "verify", !.found = f]
      BY <2>2 DEF GuardFinds
    <3>2. f \in Nat /\ (keyUse.gone => f = NoKey)
      BY <1>2, <3>1 DEF FindActiveByPrefix, ActiveKeys, KeysInv, GuardKnows
    <3> HIDE DEF f
    <3>3. keyUse' \in UseRecords /\ keyUse'.at = "verify" /\ keyUse'.gone = keyUse.gone /\ keyUse'.found = f
      BY <3>1, <3>2 DEF KeysInv, KeyTypes, UseRecords
    <3> QED BY <3>2, <3>3 DEF GuardKnows, RevokedKeyRefused
  <2>3. CASE GuardVerifies
    <3> DEFINE a == IF keyUse.found # NoKey /\ keyUse.key = keyUse.found THEN "admitted" ELSE "refused"
    <3>1. keyUse.at = "verify" /\ keyUse' = [keyUse EXCEPT !.at = a]
      BY <2>3 DEF GuardVerifies
    <3>2. a \in {"admitted", "refused"} /\ (a = "admitted" => keyUse.found # NoKey /\ keyUse.key = keyUse.found)
      OBVIOUS
    <3> HIDE DEF a
    <3>3. keyUse' \in UseRecords /\ keyUse'.at = a /\ keyUse'.gone = keyUse.gone /\ keyUse'.key = keyUse.key
      BY <3>1, <3>2 DEF KeysInv, KeyTypes, UseRecords
    <3>4. keyUse.gone => keyUse.found = NoKey
      BY <3>1 DEF KeysInv, GuardKnows
    <3> QED BY <3>2, <3>3, <3>4 DEF GuardKnows, RevokedKeyRefused
  <2>4. CASE KeyUseEnds
    BY <1>2, <2>4 DEF KeyUseEnds, NoUse, UseRecords, GuardKnows, RevokedKeyRefused
  <2> QED BY <2>1, <2>2, <2>3, <2>4
<1>4. KeyTypes' /\ CallsKnow' /\ PageKnows' /\ PrefixesDiffer' /\ CallPhases' /\ KeyEventsMatch'
  BY <1>1, <1>3 DEF KeysInv, KeyTypes, CallsKnow, PageKnows, PrefixesDiffer, CallPhases, CallPhase,
     KeyEventsMatch, Keys
<1>5. ListFollows' /\ SecretsFresh'
  BY <1>1 DEF KeysInv, ListFollows, AllSettled, ActiveKeys, Keys, SecretsFresh
<1> QED BY <1>3, <1>4, <1>5 DEF KeysInv

\* The calls that told of a revocation of k.
Tells(k) == {c \in KeyCalls : keyCall[c].op = "revoke" /\ keyCall[c].key = k /\ keyCall[c].ok}

\* A call moves on while the rows stay: it has not been told of in between.
LEMMA CallMoves ==
  ASSUME KeysInv, NEW c \in KeyCalls, NEW new \in CallRecords,
         keyCall' = [keyCall EXCEPT ![c] = new], UNCHANGED <<keyRow, keyUse, keyLog>>,
         CallPhase(new), new.key \in Keys \cup {NoKey}, new.prev \subseteq Keys,
         new.ok = keyCall[c].ok, new.ok => new.op = keyCall[c].op /\ new.key = keyCall[c].key,
         keyPage' \in PageRecords, PageKnows', ListFollows', SecretsFresh'
  PROVE  KeysInv'
<1>0. /\ keyCall' \in [KeyCalls -> CallRecords] /\ keyCall'[c] = new
      /\ \A d \in KeyCalls : d # c => keyCall'[d] = keyCall[d]
  BY DEF KeysInv, KeyTypes
<1>1. KeyTypes'
  BY <1>0 DEF KeysInv, KeyTypes
<1>2. CallsKnow' /\ PrefixesDiffer' /\ CallPhases'
  BY <1>0 DEF KeysInv, CallsKnow, PrefixesDiffer, CallPhases, CallPhase, Keys
<1>3. GuardKnows'
  BY DEF KeysInv, GuardKnows, RevokedKeyRefused, Keys
<1>4. \A k : Tells(k)' = Tells(k)
  BY <1>0 DEF Tells
<1>5. KeyEventsMatch'
  BY <1>4 DEF KeysInv, KeyEventsMatch, Tells, Keys
<1> QED BY <1>1, <1>2, <1>3, <1>5 DEF KeysInv

\* Secrets and keys of creations stay.
LEMMA SecretsStay ==
  ASSUME KeysInv, NEW c \in KeyCalls, NEW new \in CallRecords,
         keyCall' = [keyCall EXCEPT ![c] = new],
         keyPage'.secret = keyPage.secret, keyPage'.seen = keyPage.seen,
         new.op = "create" /\ new.key # NoKey =>
           /\ keyCall[c].op = "create" /\ keyCall[c].key = new.key
           /\ new.waiting => keyCall[c].waiting
  PROVE  SecretsFresh'
<1>1. keyCall'[c] = new /\ \A d \in KeyCalls : d # c => keyCall'[d] = keyCall[d]
  BY DEF KeysInv, KeyTypes
<1>2. keyPage'.secret # NoKey => keyPage'.secret \notin keyPage'.seen
  BY DEF KeysInv, SecretsFresh
<1>3. ASSUME NEW d \in KeyCalls, keyCall'[d].op = "create", keyCall'[d].key # NoKey
      PROVE  /\ keyCall[d].op = "create" /\ keyCall[d].key = keyCall'[d].key
             /\ keyCall'[d].waiting => keyCall[d].waiting
  <2>1. CASE d = c
    BY <1>1, <1>3, <2>1
  <2>2. CASE d # c
    BY <1>1, <1>3, <2>2
  <2> QED BY <2>1, <2>2
<1>4. ASSUME NEW d \in KeyCalls, keyCall'[d].op = "create", keyCall'[d].waiting, keyCall'[d].key # NoKey
      PROVE  keyCall'[d].key \notin keyPage'.seen /\ keyCall'[d].key # keyPage'.secret
  BY <1>3, <1>4 DEF KeysInv, SecretsFresh
<1>5. ASSUME NEW d \in KeyCalls, NEW e \in KeyCalls, keyCall'[d].op = "create",
             keyCall'[e].op = "create", keyCall'[d].key = keyCall'[e].key, keyCall'[d].key # NoKey
      PROVE  d = e
  <2>1. /\ keyCall[d].op = "create" /\ keyCall[d].key = keyCall'[d].key
        /\ keyCall[e].op = "create" /\ keyCall[e].key = keyCall'[e].key
    BY <1>3, <1>5
  <2> QED BY <1>5, <2>1 DEF KeysInv, SecretsFresh
<1>6. \A d \in KeyCalls :
        keyCall'[d].op = "create" /\ keyCall'[d].waiting /\ keyCall'[d].key # NoKey =>
          keyCall'[d].key \notin keyPage'.seen /\ keyCall'[d].key # keyPage'.secret
  BY <1>4
<1>7. \A d, e \in KeyCalls :
        (/\ keyCall'[d].op = "create" /\ keyCall'[e].op = "create"
         /\ keyCall'[d].key = keyCall'[e].key /\ keyCall'[d].key # NoKey) => d = e
  BY <1>5
<1> QED BY <1>2, <1>6, <1>7, Zenon DEF SecretsFresh, NoKey

\* Both calls of the page begin from a free one.
LEMMA CallsBegin ==
  ASSUME KeysInv, NEW c \in KeyCalls, SubmitKey(c) \/ ConfirmRevoke(c)
  PROVE  KeysInv'
<1> DEFINE old == keyCall[c]
<1>0. /\ old \in CallRecords /\ CallPhase(old) /\ old.op = "none" /\ old.key \in Keys \cup {NoKey}
      /\ old.prev \subseteq Keys /\ NoKey \in Nat
  BY DEF KeysInv, KeyTypes, CallPhases, CallsKnow, SubmitKey, ConfirmRevoke, NoKey
<1>1. UNCHANGED <<keyRow, keyUse, keyLog>>
  BY DEF SubmitKey, ConfirmRevoke
<1>2. ~old.ok /\ old.key = NoKey /\ ~old.early
  BY <1>0 DEF CallPhase
<1>3. CASE SubmitKey(c)
  <2> DEFINE new == [old EXCEPT !.op = "create", !.at = "mint", !.waiting = TRUE]
  <2>1. /\ keyPage' = [keyPage EXCEPT !.submitting = TRUE]
        /\ keyCall' = [keyCall EXCEPT ![c] = new]
    BY <1>3 DEF SubmitKey, KeysInv, KeyTypes
  <2>2. new \in CallRecords
    BY <1>0 DEF CallRecords, KeyOps, KeyStages
  <2>3. /\ new.op = "create" /\ new.at = "mint" /\ new.waiting /\ new.key = old.key /\ new.ok = old.ok
        /\ new.prev = old.prev /\ new.early = old.early
    BY <1>0 DEF CallRecords
  <2> HIDE DEF new
  <2>4. CallPhase(new)
    BY <1>2, <2>3 DEF CallPhase
  <2>5. /\ keyPage' \in PageRecords /\ keyPage'.secret = keyPage.secret /\ keyPage'.seen = keyPage.seen
        /\ keyPage'.asked = keyPage.asked /\ keyPage'.query = keyPage.query
    BY <2>1 DEF KeysInv, KeyTypes, PageRecords
  <2>6. PageKnows'
    BY <1>1, <2>5 DEF KeysInv, PageKnows, Keys
  <2>7. keyCall'[c] = new
    BY <2>1 DEF KeysInv, KeyTypes
  <2>8. ListFollows'
    BY <2>3, <2>7 DEF ListFollows, AllSettled
  <2>9. SecretsFresh'
    BY <1>2, <2>1, <2>2, <2>3, <2>5, SecretsStay
  <2> QED BY <1>0, <1>1, <1>2, <2>1, <2>2, <2>3, <2>4, <2>5, <2>6, <2>8, <2>9, CallMoves
<1>4. CASE ConfirmRevoke(c)
  <2> DEFINE k == keyPage.asked
             q == keyPage.query
             new == [old EXCEPT !.op = "revoke", !.at = "find", !.key = k, !.prev = q.data,
                                !.waiting = TRUE]
             d == q.data \ {k}
             nq == [q EXCEPT !.fetch = NoFetch, !.data = d, !.error = FALSE]
  <2>0. /\ q \in Queries /\ q.data \subseteq Keys /\ q.data \in KeySets
        /\ k \in Nat /\ k \in Keys \cup {NoKey} /\ k # NoKey
    BY <1>4 DEF ConfirmRevoke, KeysInv, KeyTypes, PageRecords, PageKnows, Queries
  <2>1. keyCall' = [keyCall EXCEPT ![c] = new]
    <3>1. CancelQueries(q).data = q.data
      BY <2>0 DEF CancelQueries, Queries
    <3> QED BY <1>4, <3>1 DEF ConfirmRevoke, KeysInv, KeyTypes
  <2>2. new \in CallRecords
    BY <1>0, <2>0 DEF CallRecords, KeyOps, KeyStages
  <2>3. /\ new.op = "revoke" /\ new.at = "find" /\ new.waiting /\ new.key = k /\ new.ok = old.ok
        /\ new.prev = q.data /\ new.early = old.early
    BY <1>0 DEF CallRecords
  <2>4. CallPhase(new)
    BY <1>2, <2>0, <2>3 DEF CallPhase
  <2>5. NoFetch \in Fetches /\ NoFetch.body = {} /\ d \in KeySets /\ d \subseteq Keys
    BY <2>0 DEF NoFetch, Fetches, KeySets
  <2> HIDE DEF d
  <2>6. nq \in Queries /\ nq.data = d /\ nq.fetch = NoFetch
    BY <2>0, <2>5 DEF Queries
  <2>7. SetQueryData(CancelQueries(q), CancelQueries(q).data \ {k}) = nq
    BY <2>0 DEF SetQueryData, CancelQueries, Queries, d
  <2>8. keyPage' = [keyPage EXCEPT !.asked = NoKey, !.latest = c, !.query = nq]
    BY <1>4, <2>7 DEF ConfirmRevoke
  <2> HIDE DEF nq
  <2>9. c \in Nat
    BY ApiKeysAssumption
  <2>10. /\ keyPage' \in PageRecords /\ keyPage'.secret = keyPage.secret /\ keyPage'.seen = keyPage.seen
         /\ keyPage'.asked = NoKey /\ keyPage'.query = nq
    BY <1>0, <2>6, <2>8, <2>9 DEF KeysInv, KeyTypes, PageRecords
  <2>11. PageKnows'
    BY <1>1, <2>5, <2>6, <2>10 DEF KeysInv, PageKnows, Keys
  <2>12. keyCall'[c] = new
    BY <2>1 DEF KeysInv, KeyTypes
  <2>13. ListFollows'
    BY <2>3, <2>12 DEF ListFollows, AllSettled
  <2>14. SecretsFresh'
    BY <2>1, <2>2, <2>3, <2>10, SecretsStay
  <2> HIDE DEF new
  <2> QED BY <1>1, <1>2, <2>0, <2>1, <2>2, <2>3, <2>4, <2>10, <2>11, <2>13, <2>14, CallMoves
<1> QED BY <1>3, <1>4

\* The API's side of a call that changes no row.
LEMMA CallsGoOn ==
  ASSUME KeysInv, NEW c \in KeyCalls, MintCollides(c) \/ RevokeFinds(c)
  PROVE  KeysInv'
<1> DEFINE old == keyCall[c]
<1>0. /\ old \in CallRecords /\ CallPhase(old) /\ old.key \in Keys \cup {NoKey} /\ old.prev \subseteq Keys
  BY DEF KeysInv, KeyTypes, CallPhases, CallsKnow
<1>1. UNCHANGED <<keyRow, keyPage, keyUse, keyLog>>
  BY DEF MintCollides, RevokeFinds
<1>2. PICK a \in {"mint", "update", "answer"}, n \in Nat :
        /\ keyCall' = [keyCall EXCEPT ![c] = [old EXCEPT !.tries = n, !.at = a]]
        /\ a = "mint" => old.at = "mint"
        /\ a = "update" => old.at = "find"
        /\ old.at \in {"mint", "find"}
  <2>1. CASE MintCollides(c)
    <3> DEFINE a == IF old.tries + 1 = MintMaxAttempts THEN "answer" ELSE "mint"
               n == old.tries + 1
    <3>1. keyCall' = [keyCall EXCEPT ![c] = [old EXCEPT !.tries = n, !.at = a]] /\ old.at = "mint"
      BY <2>1 DEF MintCollides, KeysInv, KeyTypes
    <3>2. n \in Nat
      BY <1>0 DEF CallRecords
    <3>3. a \in {"mint", "answer"}
      OBVIOUS
    <3> HIDE DEF a, n
    <3> QED BY <3>1, <3>2, <3>3
  <2>2. CASE RevokeFinds(c)
    <3> DEFINE a == IF old.key \in ActiveKeys THEN "update" ELSE "answer"
    <3>1. keyCall' = [keyCall EXCEPT ![c] = [old EXCEPT !.at = a]] /\ old.at = "find"
      BY <2>2 DEF RevokeFinds, KeysInv, KeyTypes
    <3>2. a \in {"update", "answer"}
      OBVIOUS
    <3> HIDE DEF a
    <3>3. [old EXCEPT !.at = a] = [old EXCEPT !.tries = old.tries, !.at = a] /\ old.tries \in Nat
      BY <1>0 DEF CallRecords
    <3> QED BY <3>1, <3>2, <3>3
  <2> QED BY <2>1, <2>2
<1> DEFINE new == [old EXCEPT !.tries = n, !.at = a]
<1>3. new \in CallRecords
  BY <1>0 DEF CallRecords, KeyStages
<1>4. /\ new.op = old.op /\ new.at = a /\ new.key = old.key /\ new.ok = old.ok /\ new.prev = old.prev
      /\ new.waiting = old.waiting /\ new.early = old.early
  BY <1>0 DEF CallRecords
<1>5. keyCall' = [keyCall EXCEPT ![c] = new]
  BY <1>2
<1> HIDE DEF new
<1>6. CallPhase(new)
  BY <1>0, <1>2, <1>4 DEF CallPhase
<1>7. keyPage' \in PageRecords /\ PageKnows'
  BY <1>1 DEF KeysInv, KeyTypes, PageKnows, Keys
<1>8. AllSettled' => AllSettled
  <2>1. keyCall'[c] = new /\ \A d \in KeyCalls : d # c => keyCall'[d] = keyCall[d]
    BY <1>5 DEF KeysInv, KeyTypes
  <2> QED BY <1>4, <2>1 DEF AllSettled
<1>9. ListFollows'
  BY <1>1, <1>8 DEF KeysInv, ListFollows, ActiveKeys, Keys
<1>10. SecretsFresh'
  BY <1>1, <1>3, <1>4, <1>5, SecretsStay
<1> QED BY <1>0, <1>1, <1>3, <1>4, <1>5, <1>6, <1>7, <1>9, <1>10, CallMoves

\* The row that is changed was asked for by a call that is not settled yet.
LEMMA UnsettledCall ==
  ASSUME KeysInv, NEW c \in KeyCalls, keyCall[c].at \in {"mint", "update"},
         NEW new \in CallRecords, keyCall' = [keyCall EXCEPT ![c] = new],
         new.waiting = keyCall[c].waiting, new.early = keyCall[c].early
  PROVE  ~AllSettled'
<1>1. CallPhase(keyCall[c]) /\ keyCall'[c] = new
  BY DEF KeysInv, KeyTypes, CallPhases
<1> QED BY <1>1 DEF CallPhase, AllSettled

\* A key is made.
LEMMA MintKeeps ==
  ASSUME KeysInv, NEW c \in KeyCalls, MintKey(c)
  PROVE  KeysInv'
<1>a. PICK n : n = Len(keyRow) + 1
  OBVIOUS
<1> DEFINE old == keyCall[c]
           new == [old EXCEPT !.at = "answer", !.key = n, !.ok = TRUE]
           made == [created |-> 1, revoked |-> 0]
<1>0. /\ old \in CallRecords /\ CallPhase(old) /\ old.at = "mint" /\ old.prev \subseteq Keys
      /\ keyRow \in Seq(KeyRows) /\ keyLog \in Seq(KeyLogs) /\ Len(keyLog) = Len(keyRow)
  BY DEF MintKey, KeysInv, KeyTypes, CallPhases, CallsKnow
<1>1. PICK p \in KeyPrefixes : ~Collides(p) /\ keyRow' = Append(keyRow, [prefix |-> p, revoked |-> FALSE])
  BY DEF MintKey
<1> DEFINE row == [prefix |-> p, revoked |-> FALSE]
<1>2. /\ keyCall' = [keyCall EXCEPT ![c] = new]
      /\ keyLog' = Append(keyLog, made) /\ UNCHANGED <<keyPage, keyUse>>
  BY <1>a DEF MintKey, KeysInv, KeyTypes
<1>3. /\ Keys = 1 .. Len(keyRow) /\ Len(keyRow) \in Nat /\ n \in Nat /\ NoKey \notin Keys
      /\ n \notin Keys /\ n # NoKey
  BY <1>a, KeyNumbers DEF KeysInv, NoKey
<1>4. row \in KeyRows /\ made \in KeyLogs /\ made.revoked = 0 /\ row.prefix = p /\ row.revoked = FALSE
  BY DEF KeyRows, KeyLogs
<1>5. new \in CallRecords
  BY <1>0, <1>3 DEF CallRecords, KeyStages
<1>6. /\ new.op = old.op /\ new.at = "answer" /\ new.key = n /\ new.ok = TRUE /\ new.prev = old.prev
      /\ new.waiting = old.waiting /\ new.early = old.early
  BY <1>0 DEF CallRecords
<1>7. keyRow' = Append(keyRow, row)
  BY <1>1
<1> HIDE DEF row, made, new
<1>8. /\ keyRow' \in Seq(KeyRows) /\ Len(keyRow') = Len(keyRow) + 1 /\ keyRow'[n] = row
      /\ \A k \in Keys : keyRow'[k] = keyRow[k]
  BY <1>a, <1>0, <1>3, <1>4, <1>7
<1>9. /\ keyLog' \in Seq(KeyLogs) /\ Len(keyLog') = Len(keyRow) + 1 /\ keyLog'[n] = made
      /\ \A k \in Keys : keyLog'[k] = keyLog[k]
  BY <1>a, <1>0, <1>2, <1>3, <1>4
<1>10. Keys' = Keys \cup {n}
  <2>1. Keys' = 1 .. n
    BY <1>a, <1>3, <1>8 DEF Keys
  <2> QED BY <1>a, <1>3, <2>1
<1>11. /\ keyCall' \in [KeyCalls -> CallRecords] /\ keyCall'[c] = new
       /\ \A d \in KeyCalls : d # c => keyCall'[d] = keyCall[d]
  BY <1>2, <1>5 DEF KeysInv, KeyTypes
<1>12. old.op = "create" /\ old.key = NoKey /\ ~old.ok
  BY <1>0 DEF CallPhase
<1>13. KeyTypes'
  BY <1>2, <1>8, <1>9, <1>11 DEF KeysInv, KeyTypes
<1>14. CallsKnow' /\ PageKnows'
  BY <1>0, <1>2, <1>6, <1>10, <1>11 DEF KeysInv, CallsKnow, PageKnows
<1>15. PrefixesDiffer'
  <2>1. \A k \in Keys : keyRow[k].prefix # p
    BY <1>1 DEF Collides
  <2> QED BY <1>4, <1>8, <1>10, <2>1 DEF KeysInv, PrefixesDiffer
<1>16. CallPhases'
  <2>1. CallPhase(new)
    BY <1>0, <1>3, <1>6, <1>12 DEF CallPhase
  <2> QED BY <1>11, <2>1 DEF KeysInv, CallPhases, CallPhase
<1>17. ListFollows'
  BY <1>0, <1>2, <1>5, <1>6, UnsettledCall DEF ListFollows
<1>18. SecretsFresh'
  <2>1. n \notin keyPage.seen /\ n # keyPage.secret /\ \A d \in KeyCalls : keyCall[d].key # n
    BY <1>3 DEF KeysInv, PageKnows, CallsKnow
  <2>2. \A d \in KeyCalls : keyCall'[d].key = IF d = c THEN n ELSE keyCall[d].key
    BY <1>6, <1>11
  <2>3. \A d \in KeyCalls : keyCall'[d].op = keyCall[d].op /\ keyCall'[d].waiting = keyCall[d].waiting
    BY <1>6, <1>11
  <2> QED BY <1>2, <2>1, <2>2, <2>3 DEF KeysInv, SecretsFresh
<1>19. GuardKnows'
  BY <1>2, <1>8, <1>10 DEF KeysInv, GuardKnows, RevokedKeyRefused
<1>20. KeyEventsMatch'
  <2>1. \A k : Tells(k)' = Tells(k)
    BY <1>6, <1>11, <1>12 DEF Tells
  <2>2. ASSUME NEW k \in Keys
        PROVE  /\ keyRow'[k].revoked <=> keyLog'[k].revoked > 0
               /\ keyLog'[k].revoked <= Cardinality(Tells(k)')
    BY <1>8, <1>9, <2>1 DEF KeysInv, KeyEventsMatch, Tells
  <2>3. Tells(n)' = {}
    <3>1. \A d \in KeyCalls : keyCall[d].key # n
      BY <1>3 DEF KeysInv, CallsKnow
    <3>2. Tells(n) = {}
      BY <3>1 DEF Tells
    <3> QED BY <2>1, <3>2
  <2>4. /\ keyRow'[n].revoked <=> keyLog'[n].revoked > 0
        /\ keyLog'[n].revoked <= Cardinality(Tells(n)')
    <3>1. Cardinality(Tells(n)') = 0
      BY <2>3, FS_EmptySet
    <3> QED BY <1>4, <1>8, <1>9, <3>1
  <2>5. \A k \in Keys' : /\ keyRow'[k].revoked <=> keyLog'[k].revoked > 0
                         /\ keyLog'[k].revoked <= Cardinality(Tells(k)')
    BY <1>10, <2>2, <2>4
  <2> QED BY <2>5 DEF KeyEventsMatch, Tells
<1> QED BY <1>13, <1>14, <1>15, <1>16, <1>17, <1>18, <1>19, <1>20 DEF KeysInv

\* A key is revoked, and one more call may tell of it.
LEMMA RevokeKeeps ==
  ASSUME KeysInv, NEW c \in KeyCalls, RevokeUpdates(c)
  PROVE  KeysInv'
<1>a. PICK k : k = keyCall[c].key
  OBVIOUS
<1>b. PICK n : n = keyLog[k].revoked + 1
  OBVIOUS
<1> DEFINE old == keyCall[c]
           new == [old EXCEPT !.at = "answer", !.ok = TRUE]
           row == [keyRow[k] EXCEPT !.revoked = TRUE]
           log == [keyLog[k] EXCEPT !.revoked = n]
<1>0. /\ old \in CallRecords /\ CallPhase(old) /\ old.at = "update" /\ old.prev \subseteq Keys
      /\ keyRow \in Seq(KeyRows) /\ keyLog \in Seq(KeyLogs) /\ Len(keyLog) = Len(keyRow)
  BY DEF RevokeUpdates, KeysInv, KeyTypes, CallPhases, CallsKnow
<1>1. old.op = "revoke" /\ old.key = k /\ k \in Keys /\ ~old.ok
  BY <1>a, <1>0 DEF CallPhase, KeysInv, CallsKnow
<1>2. /\ Keys = 1 .. Len(keyRow) /\ Len(keyRow) \in Nat /\ DOMAIN keyLog = Keys /\ NoKey \notin Keys
  BY KeyNumbers DEF KeysInv
<1>3. keyRow[k] \in KeyRows /\ keyLog[k] \in KeyLogs
  BY <1>1, KeyRowTypes DEF KeysInv
<1>4. keyLog[k].revoked \in Nat /\ n \in Nat /\ n > 0
  BY <1>b, <1>3 DEF KeyLogs
<1>5. row \in KeyRows /\ row.prefix = keyRow[k].prefix /\ row.revoked = TRUE
  BY <1>3 DEF KeyRows
<1>6. log \in KeyLogs /\ log.revoked = n
  BY <1>3, <1>4 DEF KeyLogs
<1>7. keyCall' = [keyCall EXCEPT ![c] = new] /\ UNCHANGED <<keyPage, keyUse>>
  BY DEF RevokeUpdates, KeysInv, KeyTypes
<1>8. keyRow' = [keyRow EXCEPT ![k] = row]
  BY <1>a, <1>0, <1>1, <1>2 DEF RevokeUpdates
<1>9. keyLog' = [keyLog EXCEPT ![k] = log]
  BY <1>a, <1>b, <1>0, <1>1, <1>2 DEF RevokeUpdates
<1>10. new \in CallRecords
  BY <1>0 DEF CallRecords, KeyStages
<1>11. /\ new.op = old.op /\ new.at = "answer" /\ new.key = k /\ new.ok = TRUE /\ new.prev = old.prev
       /\ new.waiting = old.waiting /\ new.early = old.early
  BY <1>0, <1>1 DEF CallRecords
<1> HIDE DEF row, log, new
<1>12. /\ keyRow' \in Seq(KeyRows) /\ Len(keyRow') = Len(keyRow) /\ Keys' = Keys
       /\ keyRow'[k] = row /\ \A j \in Keys : j # k => keyRow'[j] = keyRow[j]
  BY <1>0, <1>1, <1>2, <1>5, <1>8 DEF Keys
<1>13. /\ keyLog' \in Seq(KeyLogs) /\ Len(keyLog') = Len(keyLog)
       /\ keyLog'[k] = log /\ \A j \in Keys : j # k => keyLog'[j] = keyLog[j]
  BY <1>0, <1>1, <1>2, <1>6, <1>9
<1>14. /\ keyCall' \in [KeyCalls -> CallRecords] /\ keyCall'[c] = new
       /\ \A d \in KeyCalls : d # c => keyCall'[d] = keyCall[d]
  BY <1>7, <1>10 DEF KeysInv, KeyTypes
<1>15. KeyTypes'
  BY <1>0, <1>7, <1>12, <1>13, <1>14 DEF KeysInv, KeyTypes
<1>16. CallsKnow' /\ PageKnows'
  BY <1>0, <1>1, <1>7, <1>11, <1>12, <1>14 DEF KeysInv, CallsKnow, PageKnows
<1>17. PrefixesDiffer'
  <2>1. \A j \in Keys : keyRow'[j].prefix = keyRow[j].prefix
    BY <1>5, <1>12
  <2> QED BY <1>12, <2>1 DEF KeysInv, PrefixesDiffer
<1>18. CallPhases'
  <2>1. CallPhase(new)
    BY <1>0, <1>1, <1>2, <1>11 DEF CallPhase
  <2> QED BY <1>14, <2>1 DEF KeysInv, CallPhases, CallPhase
<1>19. ListFollows'
  BY <1>0, <1>7, <1>10, <1>11, UnsettledCall DEF ListFollows
<1>20. SecretsFresh'
  BY <1>1, <1>7, <1>10, <1>11, SecretsStay
<1>21. GuardKnows'
  <2>1. \A j \in Keys : keyRow[j].revoked => keyRow'[j].revoked
    BY <1>5, <1>12
  <2> QED BY <1>7, <1>12, <2>1 DEF KeysInv, GuardKnows, RevokedKeyRefused
<1>22. KeyEventsMatch'
  <2>1. \A j : j # k => Tells(j)' = Tells(j)
    BY <1>1, <1>11, <1>14 DEF Tells
  <2>2. Tells(k)' = Tells(k) \cup {c} /\ c \notin Tells(k)
    BY <1>1, <1>11, <1>14 DEF Tells
  <2>3. ASSUME NEW j \in Keys, j # k
        PROVE  /\ keyRow'[j].revoked <=> keyLog'[j].revoked > 0
               /\ keyLog'[j].revoked <= Cardinality(Tells(j)')
    BY <1>12, <1>13, <2>1, <2>3 DEF KeysInv, KeyEventsMatch, Tells
  <2>4. keyLog'[k].revoked <= Cardinality(Tells(k)')
    <3>1. IsFiniteSet(Tells(k))
      <4>1. Tells(k) \subseteq KeyCalls
        BY DEF Tells
      <4> QED BY <4>1, ApiKeysAssumption, FS_Subset
    <3>2. Cardinality(Tells(k) \cup {c}) = Cardinality(Tells(k)) + 1 /\ Cardinality(Tells(k)) \in Nat
      BY <2>2, <3>1, FS_AddElement, FS_CardinalityType
    <3>3. keyLog[k].revoked <= Cardinality(Tells(k))
      BY <1>1 DEF KeysInv, KeyEventsMatch, Tells
    <3> DEFINE m == Cardinality(Tells(k))
    <3>4. Cardinality(Tells(k)') = m + 1
      BY <2>2, <3>2
    <3>5. m \in Nat /\ keyLog[k].revoked <= m
      BY <3>2, <3>3
    <3> HIDE DEF m
    <3> QED BY <1>b, <1>4, <1>6, <1>13, <3>4, <3>5
  <2>5. keyRow'[k].revoked <=> keyLog'[k].revoked > 0
    BY <1>4, <1>5, <1>6, <1>12, <1>13
  <2>6. \A j \in Keys' : /\ keyRow'[j].revoked <=> keyLog'[j].revoked > 0
                         /\ keyLog'[j].revoked <= Cardinality(Tells(j)')
    BY <1>12, <2>3, <2>4, <2>5
  <2> QED BY <2>6 DEF KeyEventsMatch, Tells
<1> QED BY <1>15, <1>16, <1>17, <1>18, <1>19, <1>20, <1>21, <1>22 DEF KeysInv

\* An answer, or its loss, asks for the list again; a new secret is shown for the first time.
LEMMA AnswersKeep ==
  ASSUME KeysInv, NEW c \in KeyCalls, CallAnswered(c) \/ CallLost(c)
  PROVE  KeysInv'
<1> DEFINE old == keyCall[c]
           q == keyPage.query
<1>0. /\ old \in CallRecords /\ CallPhase(old) /\ old.waiting /\ old.key \in Keys \cup {NoKey}
      /\ old.prev \subseteq Keys
      /\ q \in Queries /\ q.data \subseteq Keys /\ keyPage.secret \in Nat /\ keyPage.submitting \in BOOLEAN
  BY DEF CallAnswered, CallLost, KeysInv, KeyTypes, CallPhases, CallsKnow, PageKnows, PageRecords
<1>1. UNCHANGED <<keyRow, keyUse, keyLog>> /\ Keys \in KeySets /\ Keys \subseteq Nat
  <2>1. UNCHANGED <<keyRow, keyUse, keyLog>>
    BY DEF CallAnswered, CallLost
  <2>2. Keys \subseteq Nat
    BY KeyNumbers DEF KeysInv
  <2> QED BY <2>1, <2>2 DEF KeySets
<1>2. old.op \in {"create", "revoke"}
  BY <1>0 DEF CallPhase, CallRecords, KeyOps
<1>3. PICK ok \in BOOLEAN, early \in BOOLEAN, n \in Nat :
        /\ keyPage' = [Settled(c, ok) EXCEPT !.faults = n]
        /\ keyCall' = [keyCall EXCEPT ![c] = [old EXCEPT !.waiting = FALSE, !.early = early]]
        /\ ok => old.ok
        /\ old.at # "answer" => early
  <2>0. keyPage.faults \in Nat /\ keyPage.faults + 1 \in Nat
    BY DEF KeysInv, KeyTypes, PageRecords
  <2>1. CASE CallAnswered(c)
    <3>1. keyPage' = Settled(c, old.ok) /\ old.at = "answer"
      BY <2>1 DEF CallAnswered
    <3>2. Settled(c, old.ok) = [Settled(c, old.ok) EXCEPT !.faults = keyPage.faults]
      BY DEF Settled, CreateSettled, RevokeSettled, KeysInv, KeyTypes, PageRecords
    <3>3. keyCall' = [keyCall EXCEPT ![c] = [old EXCEPT !.waiting = FALSE, !.early = old.early]]
      BY <1>0, <2>1 DEF CallAnswered, KeysInv, KeyTypes, CallRecords
    <3>4. old.ok \in BOOLEAN /\ old.early \in BOOLEAN
      BY <1>0 DEF CallRecords
    <3> QED BY <2>0, <3>1, <3>2, <3>3, <3>4
  <2>2. CASE CallLost(c)
    <3> DEFINE e == old.at # "answer"
               m == keyPage.faults + 1
    <3>1. Settled(c, FALSE).faults = keyPage.faults
      BY DEF Settled, CreateSettled, RevokeSettled, KeysInv, KeyTypes, PageRecords
    <3>2. keyPage' = [Settled(c, FALSE) EXCEPT !.faults = m]
      BY <2>2, <3>1 DEF CallLost
    <3>3. keyCall' = [keyCall EXCEPT ![c] = [old EXCEPT !.waiting = FALSE, !.early = e]]
      BY <2>2 DEF CallLost, KeysInv, KeyTypes
    <3>4. e \in BOOLEAN /\ m \in Nat /\ (old.at # "answer" => e)
      BY <2>0
    <3> HIDE DEF e, m
    <3> QED BY <3>2, <3>3, <3>4
  <2> QED BY <2>1, <2>2
<1> DEFINE new == [old EXCEPT !.waiting = FALSE, !.early = early]
<1>4. new \in CallRecords
  BY <1>0 DEF CallRecords
<1>5. /\ new.op = old.op /\ new.at = old.at /\ new.key = old.key /\ new.ok = old.ok
      /\ new.prev = old.prev /\ new.waiting = FALSE /\ new.early = early
  BY <1>0 DEF CallRecords
<1>6. keyCall' = [keyCall EXCEPT ![c] = new]
  BY <1>3
<1> HIDE DEF new
<1>7. CallPhase(new)
  <2>1. old.op # "none" /\ old.at # "idle"
    BY <1>0, <1>2 DEF CallPhase
  <2> QED BY <1>0, <1>3, <1>5, <2>1 DEF CallPhase
<1>8. /\ Sent \in Fetches /\ Sent.at = "sent" /\ Sent.body = {}
      /\ NoFetch \in Fetches
  BY DEF Sent, NoFetch, Fetches, KeySets
<1>9. PICK nq \in Queries, s \in Nat, b \in BOOLEAN :
        /\ keyPage' = [keyPage EXCEPT !.query = nq, !.submitting = b, !.secret = s, !.faults = n]
        /\ nq.fetch = Sent /\ nq.data \subseteq Keys
        /\ s = keyPage.secret \/ (old.op = "create" /\ old.key # NoKey /\ s = old.key)
  <2> DEFINE with(d) == [[q EXCEPT !.data = d, !.error = FALSE] EXCEPT !.fetch = Sent]
             kept == [q EXCEPT !.fetch = Sent]
  <2>1. ASSUME NEW d \in KeySets, d \subseteq Keys
        PROVE  /\ InvalidateQueries(SetQueryData(q, d)) = with(d)
               /\ with(d) \in Queries /\ with(d).fetch = Sent /\ with(d).data = d
    BY <1>0, <1>8, <2>1 DEF InvalidateQueries, SetQueryData, Queries
  <2>2. InvalidateQueries(q) = kept /\ kept \in Queries /\ kept.fetch = Sent /\ kept.data = q.data
    BY <1>0, <1>8 DEF InvalidateQueries, Queries
  <2> HIDE DEF with, kept
  <2>3. CASE old.op = "create" /\ ok
    <3> DEFINE d == q.data \cup {old.key}
    <3>1. old.key # NoKey /\ old.key \in Keys
      BY <1>0, <1>3, <2>3 DEF CallPhase
    <3>2. d \in KeySets /\ d \subseteq Keys
      BY <1>0, <1>1, <3>1 DEF KeySets
    <3>3. Settled(c, ok) = [keyPage EXCEPT !.query = InvalidateQueries(SetQueryData(q, d)),
                                           !.submitting = FALSE, !.secret = old.key]
      BY <2>3 DEF Settled, CreateSettled
    <3> HIDE DEF d
    <3>4. keyPage' = [keyPage EXCEPT !.query = with(d), !.submitting = FALSE, !.secret = old.key,
                                     !.faults = n]
      BY <1>3, <2>1, <3>2, <3>3 DEF KeysInv, KeyTypes, PageRecords
    <3>5. old.key \in Nat
      BY <1>1, <3>1
    <3> QED BY <2>1, <2>3, <3>1, <3>2, <3>4, <3>5
  <2>4. CASE old.op = "create" /\ ~ok
    <3>1. Settled(c, ok) = [keyPage EXCEPT !.query = kept, !.submitting = FALSE]
      BY <1>0, <2>2, <2>4 DEF Settled, CreateSettled, KeysInv, KeyTypes, PageRecords
    <3>2. keyPage' = [keyPage EXCEPT !.query = kept, !.submitting = FALSE, !.secret = keyPage.secret,
                                     !.faults = n]
      BY <1>3, <3>1 DEF KeysInv, KeyTypes, PageRecords
    <3> QED BY <1>0, <2>2, <3>2
  <2>5. CASE old.op = "revoke" /\ ok
    <3>1. Settled(c, ok) = [keyPage EXCEPT !.query = kept]
      BY <2>2, <2>5 DEF Settled, RevokeSettled
    <3>2. keyPage' = [keyPage EXCEPT !.query = kept, !.submitting = keyPage.submitting,
                                     !.secret = keyPage.secret, !.faults = n]
      BY <1>3, <3>1 DEF KeysInv, KeyTypes, PageRecords
    <3> QED BY <1>0, <2>2, <3>2
  <2>6. CASE old.op = "revoke" /\ ~ok
    <3>0. old.prev \in KeySets
      BY <1>0, <1>1 DEF KeySets
    <3>1. Settled(c, ok) = [keyPage EXCEPT !.query = with(old.prev)]
      BY <1>0, <2>1, <2>6, <3>0 DEF Settled, RevokeSettled
    <3>2. keyPage' = [keyPage EXCEPT !.query = with(old.prev), !.submitting = keyPage.submitting,
                                     !.secret = keyPage.secret, !.faults = n]
      BY <1>3, <3>1 DEF KeysInv, KeyTypes, PageRecords
    <3> QED BY <1>0, <2>1, <3>0, <3>2
  <2> QED BY <1>2, <2>3, <2>4, <2>5, <2>6
<1>10. /\ keyPage' \in PageRecords /\ keyPage'.secret = s /\ keyPage'.seen = keyPage.seen
       /\ keyPage'.asked = keyPage.asked /\ keyPage'.query = nq
  BY <1>9 DEF KeysInv, KeyTypes, PageRecords
<1>11. PageKnows'
  BY <1>0, <1>1, <1>8, <1>9, <1>10 DEF KeysInv, PageKnows, Keys
<1>12. ListFollows'
  BY <1>8, <1>9, <1>10 DEF ListFollows
<1>13. SecretsFresh'
  <2>1. CASE s = keyPage.secret
    <3>1. keyPage'.secret = keyPage.secret /\ keyPage'.seen = keyPage.seen
      BY <1>10, <2>1
    <3>2. ~new.waiting
      BY <1>5
    <3> QED BY <1>4, <1>5, <1>6, <3>1, <3>2, SecretsStay
  <2>2. CASE s # keyPage.secret
    <3>1. old.op = "create" /\ old.key # NoKey /\ s = old.key
      BY <1>9, <2>2
    <3>2. s \notin keyPage.seen
      BY <1>0, <3>1 DEF KeysInv, SecretsFresh
    <3>3. keyCall'[c] = new /\ \A d \in KeyCalls : d # c => keyCall'[d] = keyCall[d]
      BY <1>6 DEF KeysInv, KeyTypes
    <3>4. \A d \in KeyCalls : keyCall'[d].op = keyCall[d].op /\ keyCall'[d].key = keyCall[d].key
      BY <1>5, <3>3
    <3>5. ASSUME NEW d \in KeyCalls, keyCall'[d].op = "create", keyCall'[d].waiting,
                 keyCall'[d].key # NoKey
          PROVE  keyCall'[d].key \notin keyPage'.seen /\ keyCall'[d].key # keyPage'.secret
      <4>1. d # c
        BY <1>5, <3>3, <3>5
      <4>2. keyCall[d].op = "create" /\ keyCall[d].waiting /\ keyCall[d].key = keyCall'[d].key
        BY <3>3, <3>5, <4>1
      <4>3. keyCall[d].key # old.key
        BY <3>1, <3>5, <4>1, <4>2 DEF KeysInv, SecretsFresh
      <4>4. keyCall[d].key \notin keyPage.seen
        BY <3>5, <4>2 DEF KeysInv, SecretsFresh
      <4> QED BY <1>10, <3>1, <4>2, <4>3, <4>4
    <3>6. \A d \in KeyCalls :
            keyCall'[d].op = "create" /\ keyCall'[d].waiting /\ keyCall'[d].key # NoKey =>
              keyCall'[d].key \notin keyPage'.seen /\ keyCall'[d].key # keyPage'.secret
      BY <3>5
    <3>7. \A d, e \in KeyCalls :
            (/\ keyCall'[d].op = "create" /\ keyCall'[e].op = "create"
             /\ keyCall'[d].key = keyCall'[e].key /\ keyCall'[d].key # NoKey) => d = e
      BY <3>4 DEF KeysInv, SecretsFresh
    <3>8. keyPage'.secret # NoKey => keyPage'.secret \notin keyPage'.seen
      BY <1>10, <3>2
    <3> QED BY <3>6, <3>7, <3>8, Zenon DEF SecretsFresh, NoKey
  <2> QED BY <2>1, <2>2
<1> QED BY <1>0, <1>1, <1>4, <1>5, <1>6, <1>7, <1>10, <1>11, <1>12, <1>13, CallMoves

\* The one key the user has is on the page, and nothing is under way.
LEMMA KeysBegin ==
  ASSUME ApiKeysInit
  PROVE  KeysInv
<1> DEFINE p == CHOOSE p \in KeyPrefixes : TRUE
           row == [prefix |-> p, revoked |-> FALSE]
           log == [created |-> 1, revoked |-> 0]
           q == MountedQuery({1})
<1>0. p \in KeyPrefixes
  BY ApiKeysAssumption
<1> HIDE DEF p
<1>1. row \in KeyRows /\ row.revoked = FALSE /\ log \in KeyLogs /\ log.revoked = 0
  BY <1>0 DEF KeyRows, KeyLogs
<1>2. keyRow = <<row>> /\ keyLog = <<log>>
  BY DEF ApiKeysInit, p
<1> HIDE DEF row, log
<1>3. /\ keyRow \in Seq(KeyRows) /\ keyLog \in Seq(KeyLogs) /\ Len(keyRow) = 1 /\ Len(keyLog) = 1
      /\ keyRow[1] = row /\ keyLog[1] = log
  BY <1>1, <1>2
<1>4. Keys = {1} /\ ActiveKeys = {1}
  <2>1. Keys = {1}
    BY <1>3 DEF Keys
  <2> QED BY <1>1, <1>3, <2>1 DEF ActiveKeys
<1>5. NoKeyCall \in CallRecords /\ CallPhase(NoKeyCall) /\ NoKeyCall.op = "none"
      /\ NoKeyCall.key = NoKey /\ NoKeyCall.prev = {}
  BY DEF NoKeyCall, CallRecords, CallPhase, NoKey, KeyOps, KeyStages, KeySets
<1>6. \A c \in KeyCalls : keyCall[c] = NoKeyCall
  BY DEF ApiKeysInit
<1>7. q \in Queries /\ q.data = {1} /\ q.fetch.body = {} /\ q.fetch.at # "back"
      /\ (q.fetch.at = "none" /\ ~q.error => q.data = {1})
  BY DEF MountedQuery, NoFetch, Sent, Queries, Fetches, KeySets
<1> HIDE DEF q
<1>8. /\ keyPage \in PageRecords /\ keyPage.secret = NoKey /\ keyPage.asked = NoKey
      /\ keyPage.seen = {} /\ keyPage.query = q
  <2>1. keyPage = [query |-> q, open |-> FALSE, secret |-> NoKey, submitting |-> FALSE,
                   seen |-> {}, asked |-> NoKey, latest |-> NoKey, faults |-> 0]
    BY DEF ApiKeysInit, q
  <2> QED BY <1>7, <2>1 DEF PageRecords, NoKey, KeySets
<1>9. keyUse \in UseRecords /\ keyUse.at = "idle"
  BY DEF ApiKeysInit, NoUse, UseRecords, NoKey
<1>10. KeyTypes
  <2>1. keyCall \in [KeyCalls -> CallRecords]
    BY <1>5 DEF ApiKeysInit
  <2> QED BY <1>3, <1>8, <1>9, <2>1 DEF KeyTypes
<1>11. CallsKnow /\ PageKnows /\ PrefixesDiffer /\ CallPhases
  BY <1>4, <1>5, <1>6, <1>7, <1>8 DEF CallsKnow, PageKnows, PrefixesDiffer, CallPhases
<1>12. ListFollows
  BY <1>4, <1>7, <1>8 DEF ListFollows
<1>13. SecretsFresh
  BY <1>5, <1>6, <1>8 DEF SecretsFresh
<1>14. GuardKnows
  BY <1>9 DEF GuardKnows, RevokedKeyRefused
<1>15. KeyEventsMatch
  <2>1. keyRow[1].revoked = FALSE /\ keyLog[1].revoked = 0
    BY <1>1, <1>3
  <2>2. IsFiniteSet(Tells(1))
    <3>1. Tells(1) \subseteq KeyCalls
      BY DEF Tells
    <3> QED BY <3>1, ApiKeysAssumption, FS_Subset
  <2>3. Cardinality(Tells(1)) \in Nat
    BY <2>2, FS_CardinalityType
  <2>4. 0 <= Cardinality(Tells(1))
    BY <2>3
  <2> QED BY <1>4, <2>1, <2>4 DEF KeyEventsMatch, Tells
<1> QED BY <1>10, <1>11, <1>12, <1>13, <1>14, <1>15 DEF KeysInv

\* Whatever the page, the calls, the API or a client of a key does.
LEMMA KeysKept ==
  ASSUME KeysInv, ApiKeysNext
  PROVE  KeysInv'
<1>1. CASE OpenKeyDialog \/ CloseKeyDialog \/ CancelRevoke \/ \E k \in Keys : AskRevoke(k)
  BY <1>1, DialogsKeep
<1>2. CASE KeyListRead \/ KeyListAnswered \/ KeyListFailed \/ KeyListRetry
  BY <1>2, ListKeeps
<1>3. CASE PresentKey \/ GuardFinds \/ GuardVerifies \/ KeyUseEnds
  BY <1>3, GuardKeeps
<1>4. ASSUME NEW c \in KeyCalls, SubmitKey(c) \/ ConfirmRevoke(c)
      PROVE  KeysInv'
  BY <1>4, CallsBegin
<1>5. ASSUME NEW c \in KeyCalls, MintCollides(c) \/ RevokeFinds(c)
      PROVE  KeysInv'
  BY <1>5, CallsGoOn
<1>6. ASSUME NEW c \in KeyCalls, CallAnswered(c) \/ CallLost(c)
      PROVE  KeysInv'
  BY <1>6, AnswersKeep
<1>7. ASSUME NEW c \in KeyCalls, MintKey(c)
      PROVE  KeysInv'
  BY <1>7, MintKeeps
<1>8. ASSUME NEW c \in KeyCalls, RevokeUpdates(c)
      PROVE  KeysInv'
  BY <1>8, RevokeKeeps
<1> QED BY <1>1, <1>2, <1>3, <1>4, <1>5, <1>6, <1>7, <1>8 DEF ApiKeysNext

\* A step of the features moves the keys, or leaves them.
LEMMA KeysMove ==
  ASSUME [Next]_vars
  PROVE  ApiKeysNext \/ UNCHANGED apiKeyVars
<1>1. CASE ApiKeysFeature
  BY <1>1 DEF ApiKeysFeature
<1>2. CASE \/ ListingsFeature \/ RescoreFeature \/ AnalyticsFeature \/ SessionsFeature
           \/ LlmKeysFeature \/ CommitMessagesFeature
  BY <1>2 DEF ListingsFeature, RescoreFeature, AnalyticsFeature, SessionsFeature, LlmKeysFeature,
     CommitMessagesFeature
<1>3. CASE UNCHANGED vars
  BY <1>3 DEF vars
<1> QED BY <1>1, <1>2, <1>3 DEF Next

\* auth.service.ts, api-key.guard.ts, the API keys page: no two keys share a prefix,
\* a key that was revoked when a request came is not let in, the list shows the
\* active keys once all is settled, the events match the rows, and a secret is
\* shown in one dialog only.
THEOREM ApiKeysAlways == Spec => []ApiKeysHold
<1>1. Init => KeysInv
  BY KeysBegin DEF Init
<1>2. KeysInv /\ [Next]_vars => KeysInv'
  <2> SUFFICES ASSUME KeysInv, [Next]_vars
               PROVE  KeysInv'
    OBVIOUS
  <2>1. CASE ApiKeysNext
    BY <2>1, KeysKept
  <2>2. CASE UNCHANGED apiKeyVars
    <3>1. KeyTypes' /\ CallsKnow' /\ PageKnows' /\ PrefixesDiffer' /\ CallPhases' /\ KeyEventsMatch'
      BY <2>2 DEF apiKeyVars, KeysInv, KeyTypes, CallsKnow, PageKnows, PrefixesDiffer, CallPhases,
         CallPhase, KeyEventsMatch, Keys
    <3>2. ListFollows' /\ SecretsFresh' /\ GuardKnows'
      BY <2>2 DEF apiKeyVars, KeysInv, ListFollows, AllSettled, ActiveKeys, Keys, SecretsFresh,
         GuardKnows, RevokedKeyRefused
    <3> QED BY <3>1, <3>2 DEF KeysInv
  <2> QED BY <2>1, <2>2, KeysMove
<1>3. KeysInv => ApiKeysHold
  BY KeysInvSuffices
<1> QED BY <1>1, <1>2, <1>3, PTL DEF Spec

-------------------------------------------------------------------------------
\* The LLM keys: what the variables hold.
LlmForms == [provider : LlmProviders, key : KeyTexts \cup {NoRow}]
LlmOutcomes == {"none", "422", "unique", "ok", "404", "unknown_error"}
LlmStages == {"idle", "verify", "find", "save", "remove", "publish", "answer"}
LlmFetches == [at : {"none", "sent", "back"}, body : SUBSET LlmProviders]
LlmQueries == [data : SUBSET LlmProviders, error : BOOLEAN, fetch : LlmFetches]
LlmCallRecords ==
  [op : {"none", "upsert", "delete"}, at : LlmStages, form : LlmForms, verified : BOOLEAN,
   found : KeyTexts \cup {NoRow, OldKey}, prev : SUBSET LlmProviders, outcome : LlmOutcomes,
   waiting : BOOLEAN, early : BOOLEAN, before : SUBSET LlmCalls]
LlmPageRecords ==
  [query : LlmQueries, open : BOOLEAN, form : LlmForms, submitting : BOOLEAN, error : LlmOutcomes,
   errorOf : LlmForms, drifted : BOOLEAN, asked : LlmProviders \cup {NoProvider}, latest : Nat,
   faults : Nat]
LlmLogs == [upserted : [LlmProviders -> Nat], deleted : [LlmProviders -> Nat]]

LlmTypes ==
  /\ llmRow \in [LlmProviders -> KeyTexts \cup {NoRow, OldKey}]
  /\ llmCall \in [LlmCalls -> LlmCallRecords]
  /\ llmPage \in LlmPageRecords /\ llmLog \in LlmLogs

\* A call that may still change a row, or tell of it, is waited for or was given up early.
LlmPhase(call) ==
  /\ call.op = "none" => call.at = "idle" /\ ~call.verified
  /\ call.at = "idle" => call.op = "none" /\ ~call.waiting /\ ~call.early
  /\ call.at \in {"verify", "find", "save"} => call.op = "upsert"
  /\ call.at = "remove" => call.op = "delete"
  /\ call.at \in {"idle", "verify", "find", "save", "remove"} => call.outcome = "none"
  /\ call.at \in {"find", "save"} => call.verified
  /\ call.at = "verify" => ~call.verified
  /\ call.at \notin {"idle", "answer"} => call.waiting \/ call.early
LlmPhases == \A c \in LlmCalls : LlmPhase(llmCall[c])

LlmAllSettled == \A c \in LlmCalls : ~llmCall[c].waiting /\ ~llmCall[c].early

\* With no call unsettled, what was read, or is shown without an error, is what there is.
LlmListFollows ==
  LlmAllSettled =>
    /\ llmPage.query.fetch.at = "back" => llmPage.query.fetch.body = Configured
    /\ llmPage.query.fetch.at = "none" /\ ~llmPage.query.error => llmPage.query.data = Configured

\* An upsert of the provider was done, but not before the call.
CameSince(call) ==
  \E d \in LlmCalls \ call.before :
    /\ llmCall[d].op = "upsert" /\ llmCall[d].outcome = "ok"
    /\ llmCall[d].form.provider = call.form.provider

\* The call did not find the row that is there, or was refused for it.
Raced(call) ==
  \/ call.outcome = "unique"
  \/ call.at = "save" /\ call.found = NoRow /\ llmRow[call.form.provider] # NoRow

LlmRaces ==
  \A c \in LlmCalls :
    /\ \A d \in llmCall[c].before : llmCall[d].outcome = "ok"
    /\ Raced(llmCall[c]) => CameSince(llmCall[c])

\* What is done, and still to be told.
LlmUntold(op, p) ==
  {c \in LlmCalls : llmCall[c].at = "publish" /\ llmCall[c].op = op /\ llmCall[c].form.provider = p}

\* Each deletion took a row that an upsert had made.
LlmTold ==
  \A p \in LlmProviders :
    llmLog.deleted[p] + Cardinality(LlmUntold("delete", p)) + (IF llmRow[p] = NoRow THEN 0 ELSE 1)
      <= llmLog.upserted[p] + Cardinality(LlmUntold("upsert", p))

\* Unless the form has drifted, the error, and the calls that are waited for, are about it.
LlmDialog ==
  /\ llmPage.submitting => LlmWaiting
  /\ ~llmPage.drifted =>
       /\ llmPage.error # "none" => llmPage.errorOf = llmPage.form
       /\ \A c \in LlmCalls :
            llmCall[c].waiting /\ llmCall[c].op = "upsert" => llmCall[c].form = llmPage.form

LlmKeysInv ==
  /\ LlmTypes /\ LlmPhases /\ LlmListFollows /\ StoredKeyVerified /\ LlmRaces /\ LlmTold
  /\ LlmDialog

\* The calls that are to be told of are finitely many.
LEMMA LlmUntoldFinite ==
  ASSUME NEW op, NEW p
  PROVE  IsFiniteSet(LlmUntold(op, p)) /\ Cardinality(LlmUntold(op, p)) \in Nat
<1>1. LlmUntold(op, p) \subseteq LlmCalls
  BY DEF LlmUntold
<1>2. IsFiniteSet(LlmUntold(op, p))
  BY <1>1, LlmKeysAssumption, FS_Subset
<1> QED BY <1>2, FS_CardinalityType

\* The invariant has all the run checks.
LEMMA LlmKeysInvSuffices ==
  ASSUME LlmKeysInv
  PROVE  LlmKeysHold
<1>1. LlmKeysTypeOK
  <2>1. llmRow \in [LlmProviders -> KeyTexts \cup {NoRow, OldKey}]
    BY DEF LlmKeysInv, LlmTypes
  <2>2. \A c \in LlmCalls : llmCall[c].at \in LlmStages
    BY DEF LlmKeysInv, LlmTypes, LlmCallRecords
  <2>3. llmPage.query.data \subseteq LlmProviders
    BY DEF LlmKeysInv, LlmTypes, LlmPageRecords, LlmQueries
  <2>4. llmPage.submitting => LlmWaiting
    BY DEF LlmKeysInv, LlmDialog
  <2> QED BY <2>1, <2>2, <2>3, <2>4 DEF LlmKeysTypeOK, LlmStages
<1>2. LlmPageSettles
  BY DEF LlmKeysInv, LlmListFollows, LlmAllSettled, LlmPageSettles, Idle, NoFetch
<1>3. UniqueOnlyByOverlap
  BY DEF LlmKeysInv, LlmRaces, Raced, CameSince, UniqueOnlyByOverlap
<1>4. DeletionsTold
  <2> SUFFICES ASSUME \A c \in LlmCalls : llmCall[c].at # "publish", NEW p \in LlmProviders
               PROVE  llmLog.deleted[p] <= llmLog.upserted[p]
    BY DEF DeletionsTold
  <2>1. LlmUntold("delete", p) = {} /\ LlmUntold("upsert", p) = {}
    BY DEF LlmUntold
  <2>2. Cardinality(LlmUntold("delete", p)) = 0 /\ Cardinality(LlmUntold("upsert", p)) = 0
    BY <2>1, FS_EmptySet
  <2>3. llmLog.deleted[p] \in Nat /\ llmLog.upserted[p] \in Nat
    BY DEF LlmKeysInv, LlmTypes, LlmLogs
  <2>4. llmLog.deleted[p] + Cardinality(LlmUntold("delete", p)) + (IF llmRow[p] = NoRow THEN 0 ELSE 1)
          <= llmLog.upserted[p] + Cardinality(LlmUntold("upsert", p))
    BY DEF LlmKeysInv, LlmTold
  <2> QED BY <2>2, <2>3, <2>4
<1>5. ErrorIsAboutForm
  BY DEF LlmKeysInv, LlmDialog, ErrorIsAboutForm
<1>6. StoredKeyVerified
  BY DEF LlmKeysInv
<1> QED BY <1>1, <1>2, <1>3, <1>4, <1>5, <1>6 DEF LlmKeysHold

\* Only the page moves: rows, calls and events stay as they are.
LEMMA LlmPageMoves ==
  ASSUME LlmKeysInv, UNCHANGED <<llmRow, llmCall, llmLog>>, llmPage' \in LlmPageRecords,
         LlmListFollows', LlmDialog'
  PROVE  LlmKeysInv'
<1>1. LlmTypes' /\ LlmPhases' /\ StoredKeyVerified'
  BY DEF LlmKeysInv, LlmTypes, LlmPhases, LlmPhase, StoredKeyVerified
<1>2. LlmRaces'
  BY DEF LlmKeysInv, LlmRaces, Raced, CameSince
<1>3. LlmTold'
  BY DEF LlmKeysInv, LlmTold, LlmUntold
<1> QED BY <1>1, <1>2, <1>3 DEF LlmKeysInv

\* A call moves on: what it had verified or done stays, a row that it changes holds the
\* key it verified, and the calls that did not find the row are overtaken by it.
LEMMA LlmCallMoves ==
  ASSUME LlmKeysInv, NEW c \in LlmCalls, NEW new \in LlmCallRecords,
         llmCall' = [llmCall EXCEPT ![c] = new], LlmPhase(new),
         llmRow' \in [LlmProviders -> KeyTexts \cup {NoRow, OldKey}],
         llmPage' \in LlmPageRecords, llmLog' \in LlmLogs,
         LlmListFollows', LlmDialog', LlmTold',
         llmCall[c].verified => new.verified /\ new.form = llmCall[c].form,
         llmCall[c].outcome = "ok" =>
           new.outcome = "ok" /\ new.op = llmCall[c].op /\ new.form = llmCall[c].form,
         \A p \in LlmProviders :
           \/ llmRow'[p] \in {llmRow[p], NoRow}
           \/ new.verified /\ new.form = [provider |-> p, key |-> llmRow'[p]],
         \A d \in new.before : llmCall[d].outcome = "ok",
         \/ new.outcome = "unique"
         \/ new.at = "save" /\ new.found = NoRow /\ llmRow'[new.form.provider] # NoRow
         => /\ CameSince(llmCall[c]) /\ new.before = llmCall[c].before
            /\ new.form = llmCall[c].form /\ llmCall[c].outcome # "ok",
         \A d \in LlmCalls \ {c} :
           (/\ llmCall[d].at = "save" /\ llmRow[llmCall[d].form.provider] = NoRow
            /\ llmRow'[llmCall[d].form.provider] # NoRow)
           => /\ new.op = "upsert" /\ new.outcome = "ok" /\ llmCall[c].outcome # "ok"
              /\ new.form.provider = llmCall[d].form.provider
  PROVE  LlmKeysInv'
<1>1. /\ llmCall' \in [LlmCalls -> LlmCallRecords] /\ llmCall'[c] = new
      /\ \A d \in LlmCalls : d # c => llmCall'[d] = llmCall[d]
  BY DEF LlmKeysInv, LlmTypes
<1>2. LlmTypes' /\ LlmPhases'
  BY <1>1 DEF LlmKeysInv, LlmTypes, LlmPhases, LlmPhase
<1>3. StoredKeyVerified'
  <2> SUFFICES ASSUME NEW p \in LlmProviders, llmRow'[p] \notin {NoRow, OldKey}
               PROVE  \E d \in LlmCalls :
                        llmCall'[d].verified /\ llmCall'[d].form = [provider |-> p, key |-> llmRow'[p]]
    BY DEF StoredKeyVerified
  <2>1. CASE new.verified /\ new.form = [provider |-> p, key |-> llmRow'[p]]
    BY <1>1, <2>1
  <2>2. CASE llmRow'[p] = llmRow[p]
    <3>1. PICK d \in LlmCalls : llmCall[d].verified /\ llmCall[d].form = [provider |-> p, key |-> llmRow[p]]
      BY <2>2 DEF LlmKeysInv, StoredKeyVerified
    <3>2. llmCall'[d].verified /\ llmCall'[d].form = llmCall[d].form
      BY <1>1, <3>1
    <3> QED BY <2>2, <3>1, <3>2
  <2> QED BY <2>1, <2>2
<1>4. \A d \in LlmCalls : llmCall[d].outcome = "ok" =>
        /\ llmCall'[d].outcome = "ok" /\ llmCall'[d].op = llmCall[d].op
        /\ llmCall'[d].form = llmCall[d].form
  BY <1>1
<1>5. ASSUME NEW d \in LlmCalls
      PROVE  \A e \in llmCall'[d].before : llmCall'[e].outcome = "ok"
  <2>1. \A e \in llmCall'[d].before : llmCall[e].outcome = "ok"
    BY <1>1 DEF LlmKeysInv, LlmRaces
  <2>2. llmCall'[d].before \subseteq LlmCalls
    BY <1>1 DEF LlmCallRecords
  <2> QED BY <1>4, <2>1, <2>2
<1>6. ASSUME NEW d \in LlmCalls, CameSince(llmCall[d]), llmCall'[d].before = llmCall[d].before,
             llmCall'[d].form = llmCall[d].form
      PROVE  CameSince(llmCall[d])'
  <2>1. PICK e \in LlmCalls \ llmCall[d].before :
          /\ llmCall[e].op = "upsert" /\ llmCall[e].outcome = "ok"
          /\ llmCall[e].form.provider = llmCall[d].form.provider
    BY <1>6 DEF CameSince
  <2> QED BY <1>4, <1>6, <2>1 DEF CameSince
<1>7. ASSUME NEW d \in LlmCalls, Raced(llmCall[d])'
      PROVE  CameSince(llmCall[d])'
  <2>1. CASE d = c
    <3>1. CameSince(llmCall[c]) /\ new.before = llmCall[c].before /\ new.form = llmCall[c].form
      BY <1>1, <1>7, <2>1 DEF Raced
    <3> QED BY <1>1, <1>6, <2>1, <3>1
  <2>2. CASE d # c /\ Raced(llmCall[d])
    <3>1. CameSince(llmCall[d])
      BY <2>2 DEF LlmKeysInv, LlmRaces
    <3> QED BY <1>1, <1>6, <2>2, <3>1
  <2>3. CASE d # c /\ ~Raced(llmCall[d])
    <3>1. /\ llmCall[d].at = "save" /\ llmRow[llmCall[d].form.provider] = NoRow
          /\ llmRow'[llmCall[d].form.provider] # NoRow /\ llmCall'[d] = llmCall[d]
      BY <1>1, <1>7, <2>3 DEF Raced
    <3>2. /\ new.op = "upsert" /\ new.outcome = "ok" /\ llmCall[c].outcome # "ok"
          /\ new.form.provider = llmCall[d].form.provider
      BY <2>3, <3>1
    <3>3. c \notin llmCall[d].before
      BY <3>2 DEF LlmKeysInv, LlmRaces
    <3> QED BY <1>1, <3>1, <3>2, <3>3 DEF CameSince
  <2> QED BY <2>1, <2>2, <2>3
<1>8. LlmRaces'
  BY <1>5, <1>7 DEF LlmRaces
<1> QED BY <1>2, <1>3, <1>8 DEF LlmKeysInv

\* What is open, edited or asked on the page: a form that changes during a call drifts.
LEMMA LlmDialogsKeep ==
  ASSUME LlmKeysInv,
         OpenUpsert \/ CloseUpsert \/ EditForm \/ CancelDelete \/ \E p \in LlmProviders : AskDelete(p)
  PROVE  LlmKeysInv'
<1>1. UNCHANGED <<llmRow, llmCall, llmLog>>
  BY DEF OpenUpsert, CloseUpsert, EditForm, CancelDelete, AskDelete
<1>2. llmPage \in LlmPageRecords
  BY DEF LlmKeysInv, LlmTypes
<1>3. ASSUME NEW open \in BOOLEAN, NEW asked \in LlmProviders \cup {NoProvider},
             llmPage' = [llmPage EXCEPT !.open = open, !.asked = asked]
      PROVE  LlmKeysInv'
  <2>1. /\ llmPage' \in LlmPageRecords /\ llmPage'.query = llmPage.query /\ llmPage'.form = llmPage.form
        /\ llmPage'.submitting = llmPage.submitting /\ llmPage'.error = llmPage.error
        /\ llmPage'.errorOf = llmPage.errorOf /\ llmPage'.drifted = llmPage.drifted
    BY <1>2, <1>3 DEF LlmPageRecords
  <2>2. LlmListFollows' /\ LlmDialog'
    BY <1>1, <2>1 DEF LlmKeysInv, LlmListFollows, LlmAllSettled, Configured, LlmDialog, LlmWaiting
  <2> QED BY <1>1, <2>1, <2>2, LlmPageMoves
<1>4. ASSUME NEW form \in LlmForms, NEW open \in BOOLEAN, NEW submitting \in BOOLEAN,
             submitting => llmPage.submitting,
             llmPage' = [llmPage EXCEPT !.open = open, !.form = form, !.submitting = submitting,
                                        !.error = "none", !.drifted = llmPage.drifted \/ LlmWaiting]
      PROVE  LlmKeysInv'
  <2> DEFINE drifted == llmPage.drifted \/ LlmWaiting
  <2>1. drifted \in BOOLEAN
    BY <1>2 DEF LlmPageRecords, LlmWaiting
  <2>2. llmPage' = [llmPage EXCEPT !.open = open, !.form = form, !.submitting = submitting,
                                   !.error = "none", !.drifted = drifted]
    BY <1>4
  <2>3. ~drifted => ~LlmWaiting
    OBVIOUS
  <2> HIDE DEF drifted
  <2>4. /\ llmPage' \in LlmPageRecords /\ llmPage'.query = llmPage.query
        /\ llmPage'.submitting = submitting /\ llmPage'.error = "none" /\ llmPage'.drifted = drifted
    BY <1>2, <2>1, <2>2 DEF LlmPageRecords, LlmOutcomes
  <2>5. LlmListFollows'
    BY <1>1, <2>4 DEF LlmKeysInv, LlmListFollows, LlmAllSettled, Configured
  <2>6. LlmWaiting' <=> LlmWaiting
    BY <1>1 DEF LlmWaiting
  <2>7. ~drifted => \A c \in LlmCalls : ~(llmCall'[c].waiting /\ llmCall'[c].op = "upsert")
    BY <1>1, <2>3 DEF LlmWaiting
  <2>8. submitting => LlmWaiting'
    BY <1>4, <2>6 DEF LlmKeysInv, LlmDialog
  <2>9. LlmDialog'
    BY <2>4, <2>7, <2>8 DEF LlmDialog
  <2> QED BY <1>1, <2>4, <2>5, <2>9, LlmPageMoves
<1>5. CASE OpenUpsert
  <2>1. llmPage' = [llmPage EXCEPT !.open = TRUE, !.asked = llmPage.asked]
    BY <1>2, <1>5 DEF OpenUpsert, LlmPageRecords
  <2> QED BY <1>2, <1>3, <2>1 DEF LlmPageRecords
<1>6. CASE CancelDelete
  <2>1. llmPage' = [llmPage EXCEPT !.open = llmPage.open, !.asked = NoProvider]
    BY <1>2, <1>6 DEF CancelDelete, LlmPageRecords
  <2> QED BY <1>2, <1>3, <2>1 DEF LlmPageRecords
<1>7. CASE \E p \in LlmProviders : AskDelete(p)
  <2>1. PICK p \in LlmProviders : llmPage' = [llmPage EXCEPT !.asked = p]
    BY <1>7 DEF AskDelete
  <2>2. llmPage' = [llmPage EXCEPT !.open = llmPage.open, !.asked = p]
    BY <1>2, <2>1 DEF LlmPageRecords
  <2> QED BY <1>2, <1>3, <2>2 DEF LlmPageRecords
<1>8. CASE CloseUpsert
  <2>1. EmptyForm \in LlmForms
    BY LlmKeysAssumption DEF EmptyForm, DefaultProvider, LlmForms
  <2>2. llmPage' = [llmPage EXCEPT !.open = FALSE, !.form = EmptyForm, !.submitting = FALSE,
                                   !.error = "none", !.drifted = llmPage.drifted \/ LlmWaiting]
    BY <1>8 DEF CloseUpsert, Closed
  <2> QED BY <1>4, <2>1, <2>2
<1>9. CASE EditForm
  <2>1. PICK p \in LlmProviders, k \in KeyTexts :
          llmPage' = [llmPage EXCEPT !.form = [provider |-> p, key |-> k],
                                     !.drifted = llmPage.drifted \/ LlmWaiting, !.error = "none"]
    BY <1>9 DEF EditForm, Edited
  <2> DEFINE form == [provider |-> p, key |-> k]
             drifted == llmPage.drifted \/ LlmWaiting
  <2>2. form \in LlmForms
    BY DEF LlmForms
  <2>3. llmPage' = [llmPage EXCEPT !.form = form, !.drifted = drifted, !.error = "none"]
    BY <2>1
  <2> HIDE DEF form, drifted
  <2>4. llmPage' = [llmPage EXCEPT !.open = llmPage.open, !.form = form, !.submitting = llmPage.submitting,
                                   !.error = "none", !.drifted = drifted]
    BY <1>2, <2>3 DEF LlmPageRecords
  <2>5. llmPage.open \in BOOLEAN /\ llmPage.submitting \in BOOLEAN
    BY <1>2 DEF LlmPageRecords
  <2> USE DEF drifted
  <2> QED BY <1>4, <2>2, <2>4, <2>5
<1> QED BY <1>5, <1>6, <1>7, <1>8, <1>9

\* The list of configured providers is read, answered, failed and asked for again.
LEMMA LlmListKeeps ==
  ASSUME LlmKeysInv, LlmListRead \/ LlmListAnswered \/ LlmListFailed \/ LlmListRetry
  PROVE  LlmKeysInv'
<1> DEFINE q == llmPage.query
<1>1. UNCHANGED <<llmRow, llmCall, llmLog>> /\ Configured \subseteq LlmProviders
  BY DEF LlmListRead, LlmListAnswered, LlmListFailed, LlmListRetry, Configured
<1>2. llmPage \in LlmPageRecords /\ q \in LlmQueries /\ q.fetch \in LlmFetches
      /\ llmPage.faults \in Nat /\ llmPage.faults + 1 \in Nat
  BY DEF LlmKeysInv, LlmTypes, LlmPageRecords, LlmQueries
<1>3. ASSUME NEW new \in LlmQueries, NEW n \in Nat,
             llmPage' = [llmPage EXCEPT !.query = new, !.faults = n],
             LlmAllSettled =>
               /\ new.fetch.at = "back" => new.fetch.body = Configured
               /\ new.fetch.at = "none" /\ ~new.error => new.data = Configured
      PROVE  LlmKeysInv'
  <2>1. /\ llmPage' \in LlmPageRecords /\ llmPage'.query = new /\ llmPage'.form = llmPage.form
        /\ llmPage'.submitting = llmPage.submitting /\ llmPage'.error = llmPage.error
        /\ llmPage'.errorOf = llmPage.errorOf /\ llmPage'.drifted = llmPage.drifted
    BY <1>2, <1>3 DEF LlmPageRecords
  <2>2. LlmListFollows'
    BY <1>1, <1>3, <2>1 DEF LlmListFollows, LlmAllSettled, Configured
  <2>3. LlmDialog'
    BY <1>1, <2>1 DEF LlmKeysInv, LlmDialog, LlmWaiting
  <2> QED BY <1>1, <2>1, <2>2, <2>3, LlmPageMoves
<1>4. LlmAllSettled =>
        /\ q.fetch.at = "back" => q.fetch.body = Configured
        /\ q.fetch.at = "none" /\ ~q.error => q.data = Configured
  BY DEF LlmKeysInv, LlmListFollows
<1>5. ASSUME NEW new, llmPage' = [llmPage EXCEPT !.query = new]
      PROVE  llmPage' = [llmPage EXCEPT !.query = new, !.faults = llmPage.faults]
  BY <1>2, <1>5 DEF LlmPageRecords
<1>6. /\ NoFetch \in LlmFetches /\ NoFetch.at = "none"
      /\ Sent \in LlmFetches /\ Sent.at = "sent"
  BY DEF NoFetch, Sent, LlmFetches
<1>7. CASE LlmListRead
  <2> DEFINE f == [at |-> "back", body |-> Configured]
             new == [q EXCEPT !.fetch = f]
  <2>1. llmPage' = [llmPage EXCEPT !.query = new]
    BY <1>7 DEF LlmListRead, Reads
  <2>2. f \in LlmFetches /\ f.at = "back" /\ f.body = Configured
    BY <1>1 DEF LlmFetches
  <2> HIDE DEF f
  <2>3. new \in LlmQueries /\ new.fetch = f
    BY <1>2, <2>2 DEF LlmQueries
  <2> HIDE DEF new
  <2> QED BY <1>2, <1>3, <1>5, <2>1, <2>2, <2>3
<1>8. CASE LlmListAnswered
  <2> DEFINE new == [data |-> q.fetch.body, error |-> FALSE, fetch |-> NoFetch]
  <2>1. llmPage' = [llmPage EXCEPT !.query = new] /\ q.fetch.at = "back"
    BY <1>8 DEF LlmListAnswered, Succeeds
  <2>2. new \in LlmQueries /\ new.fetch = NoFetch /\ new.data = q.fetch.body
    BY <1>2, <1>6 DEF LlmQueries, LlmFetches
  <2> HIDE DEF new
  <2> QED BY <1>2, <1>3, <1>4, <1>5, <1>6, <2>1, <2>2
<1>9. CASE LlmListFailed
  <2> DEFINE new == [q EXCEPT !.error = TRUE, !.fetch = NoFetch]
             n == llmPage.faults + 1
  <2>1. llmPage' = [llmPage EXCEPT !.query = new, !.faults = n]
    BY <1>9 DEF LlmListFailed, Fails
  <2>2. new \in LlmQueries /\ new.fetch = NoFetch /\ new.error
    BY <1>2, <1>6 DEF LlmQueries
  <2>3. n \in Nat
    BY <1>2
  <2> HIDE DEF new, n
  <2> QED BY <1>3, <1>6, <2>1, <2>2, <2>3
<1>10. CASE LlmListRetry
  <2> DEFINE new == [q EXCEPT !.fetch = Sent]
  <2>1. llmPage' = [llmPage EXCEPT !.query = new]
    BY <1>10 DEF LlmListRetry, InvalidateQueries
  <2>2. new \in LlmQueries /\ new.fetch = Sent
    BY <1>2, <1>6 DEF LlmQueries
  <2> HIDE DEF new
  <2> QED BY <1>2, <1>3, <1>5, <1>6, <2>1, <2>2
<1> QED BY <1>7, <1>8, <1>9, <1>10

\* Nothing is done and nothing told: the events still match.
LEMMA LlmToldStays ==
  ASSUME LlmKeysInv, NEW c \in LlmCalls, NEW new \in LlmCallRecords,
         llmCall' = [llmCall EXCEPT ![c] = new], new.at # "publish", llmCall[c].at # "publish",
         UNCHANGED <<llmRow, llmLog>>
  PROVE  LlmTold'
<1>1. llmCall'[c] = new /\ \A d \in LlmCalls : d # c => llmCall'[d] = llmCall[d]
  BY DEF LlmKeysInv, LlmTypes
<1>2. \A op, p : LlmUntold(op, p)' = LlmUntold(op, p)
  BY <1>1 DEF LlmUntold
<1> QED BY <1>2 DEF LlmKeysInv, LlmTold, LlmUntold

\* While a call may still change a row it is not settled, nor after it did.
LEMMA LlmUnsettled ==
  ASSUME LlmKeysInv, NEW c \in LlmCalls, llmCall[c].at \notin {"idle", "answer"},
         NEW new \in LlmCallRecords, llmCall' = [llmCall EXCEPT ![c] = new],
         new.waiting = llmCall[c].waiting, new.early = llmCall[c].early
  PROVE  ~LlmAllSettled'
<1>1. LlmPhase(llmCall[c]) /\ llmCall'[c] = new
  BY DEF LlmKeysInv, LlmTypes, LlmPhases
<1> QED BY <1>1 DEF LlmPhase, LlmAllSettled

\* With its form and its place on the page, a call does not change what the dialog shows.
LEMMA LlmDialogStays ==
  ASSUME LlmKeysInv, NEW c \in LlmCalls, NEW new \in LlmCallRecords,
         llmCall' = [llmCall EXCEPT ![c] = new], UNCHANGED llmPage,
         new.waiting = llmCall[c].waiting, new.op = llmCall[c].op, new.form = llmCall[c].form
  PROVE  LlmDialog'
<1>1. llmCall'[c] = new /\ \A d \in LlmCalls : d # c => llmCall'[d] = llmCall[d]
  BY DEF LlmKeysInv, LlmTypes
<1>2. \A d \in LlmCalls : /\ llmCall'[d].waiting = llmCall[d].waiting /\ llmCall'[d].op = llmCall[d].op
                          /\ llmCall'[d].form = llmCall[d].form
  BY <1>1
<1> QED BY <1>2 DEF LlmKeysInv, LlmDialog, LlmWaiting

\* A key is submitted: the calls that are waited for are about the form.
LEMMA LlmSubmitKeeps ==
  ASSUME LlmKeysInv, NEW c \in LlmCalls, SubmitLlmKey(c)
  PROVE  LlmKeysInv'
<1> DEFINE old == llmCall[c]
           before == {d \in LlmCalls : llmCall[d].outcome = "ok"}
           form == llmPage.form
           new == [old EXCEPT !.op = "upsert", !.at = "verify", !.form = form, !.waiting = TRUE,
                              !.before = before]
           drifted == llmPage.drifted /\ LlmWaiting
<1>1. /\ old \in LlmCallRecords /\ llmPage \in LlmPageRecords /\ llmLog \in LlmLogs
      /\ LlmPhase(old) /\ old.op = "none" /\ form \in LlmForms
      /\ llmRow \in [LlmProviders -> KeyTexts \cup {NoRow, OldKey}]
  BY DEF LlmKeysInv, LlmTypes, LlmPhases, SubmitLlmKey, LlmPageRecords
<1>2. /\ llmCall' = [llmCall EXCEPT ![c] = new] /\ UNCHANGED <<llmRow, llmLog>>
      /\ llmPage' = [llmPage EXCEPT !.submitting = TRUE, !.error = "none", !.drifted = drifted]
  BY DEF SubmitLlmKey, LlmKeysInv, LlmTypes
<1>3. old.at = "idle" /\ old.outcome = "none" /\ ~old.verified /\ ~old.waiting
  BY <1>1 DEF LlmPhase
<1>4. before \subseteq LlmCalls /\ \A d \in before : llmCall[d].outcome = "ok"
  OBVIOUS
<1>5. drifted \in BOOLEAN /\ (~drifted => ~llmPage.drifted \/ ~LlmWaiting)
  BY <1>1 DEF LlmWaiting, LlmPageRecords
<1> HIDE DEF before, form, drifted
<1>6. new \in LlmCallRecords
  BY <1>1, <1>4 DEF LlmCallRecords, LlmStages
<1>7. /\ new.op = "upsert" /\ new.at = "verify" /\ new.form = form /\ new.waiting /\ new.before = before
      /\ new.outcome = old.outcome /\ new.verified = old.verified /\ new.early = old.early
  BY <1>1 DEF LlmCallRecords
<1> HIDE DEF new
<1>8. LlmPhase(new)
  BY <1>3, <1>7 DEF LlmPhase
<1>9. llmCall'[c] = new /\ \A d \in LlmCalls : d # c => llmCall'[d] = llmCall[d]
  BY <1>2 DEF LlmKeysInv, LlmTypes
<1>10. /\ llmPage' \in LlmPageRecords /\ llmPage'.form = form /\ llmPage'.submitting = TRUE
       /\ llmPage'.error = "none" /\ llmPage'.drifted = drifted
  BY <1>1, <1>2, <1>5 DEF LlmPageRecords, LlmOutcomes, form
<1>11. LlmListFollows'
  BY <1>7, <1>9 DEF LlmListFollows, LlmAllSettled
<1>12. LlmDialog'
  <2>1. LlmWaiting'
    BY <1>7, <1>9 DEF LlmWaiting
  <2>2. ASSUME ~drifted, NEW d \in LlmCalls, llmCall'[d].waiting, llmCall'[d].op = "upsert"
        PROVE  llmCall'[d].form = form
    <3>1. CASE d = c
      BY <1>7, <1>9, <3>1
    <3>2. CASE d # c
      BY <1>5, <1>9, <2>2, <3>2 DEF LlmKeysInv, LlmDialog, LlmWaiting, form
    <3> QED BY <3>1, <3>2
  <2> QED BY <1>10, <2>1, <2>2 DEF LlmDialog
<1>13. LlmTold'
  BY <1>2, <1>3, <1>6, <1>7, LlmToldStays
<1>14. llmRow' \in [LlmProviders -> KeyTexts \cup {NoRow, OldKey}] /\ llmLog' \in LlmLogs
  BY <1>1, <1>2
<1> QED
  BY <1>2, <1>3, <1>4, <1>6, <1>7, <1>8, <1>10, <1>11, <1>12, <1>13, <1>14, LlmCallMoves

\* A deletion is confirmed: the provider leaves the list before the API has answered.
LEMMA LlmConfirmKeeps ==
  ASSUME LlmKeysInv, NEW c \in LlmCalls, ConfirmDelete(c)
  PROVE  LlmKeysInv'
<1> DEFINE old == llmCall[c]
           p == llmPage.asked
           q == llmPage.query
           form == [old.form EXCEPT !.provider = p]
           d == q.data \ {p}
           new == [old EXCEPT !.op = "delete", !.at = "remove", !.form = form, !.prev = q.data,
                              !.waiting = TRUE]
           nq == [q EXCEPT !.fetch = NoFetch, !.data = d, !.error = FALSE]
<1>1. /\ old \in LlmCallRecords /\ llmPage \in LlmPageRecords /\ llmLog \in LlmLogs
      /\ LlmPhase(old) /\ old.op = "none" /\ q \in LlmQueries /\ old.form \in LlmForms
      /\ llmRow \in [LlmProviders -> KeyTexts \cup {NoRow, OldKey}] /\ p \in LlmProviders
  BY DEF LlmKeysInv, LlmTypes, LlmPhases, ConfirmDelete, LlmPageRecords, LlmCallRecords
<1>2. form \in LlmForms
  BY <1>1 DEF LlmForms
<1>3. llmCall' = [llmCall EXCEPT ![c] = new]
  <2>1. CancelQueries(q).data = q.data
    BY <1>1 DEF CancelQueries, LlmQueries
  <2> QED BY <2>1 DEF ConfirmDelete, LlmKeysInv, LlmTypes
<1>4. old.at = "idle" /\ old.outcome = "none" /\ ~old.verified /\ ~old.waiting
  BY <1>1 DEF LlmPhase
<1> HIDE DEF form
<1>5. new \in LlmCallRecords
  BY <1>1, <1>2 DEF LlmCallRecords, LlmStages, LlmQueries
<1>6. /\ new.op = "delete" /\ new.at = "remove" /\ new.waiting /\ new.before = old.before
      /\ new.outcome = old.outcome /\ new.verified = old.verified /\ new.early = old.early
  BY <1>1 DEF LlmCallRecords
<1>7. LlmPhase(new)
  BY <1>4, <1>6 DEF LlmPhase
<1>8. NoFetch \in LlmFetches /\ d \in SUBSET LlmProviders
  BY <1>1 DEF NoFetch, LlmFetches, LlmQueries
<1>9. SetQueryData(CancelQueries(q), CancelQueries(q).data \ {p}) = nq
  BY <1>1 DEF SetQueryData, CancelQueries, LlmQueries
<1> HIDE DEF d
<1>10. nq \in LlmQueries
  BY <1>1, <1>8 DEF LlmQueries
<1>11. /\ llmPage' = [llmPage EXCEPT !.asked = NoProvider, !.latest = c, !.query = nq]
       /\ UNCHANGED <<llmRow, llmLog>>
  BY <1>9 DEF ConfirmDelete
<1> HIDE DEF new, nq
<1>12. c \in Nat
  BY LlmKeysAssumption
<1>13. /\ llmPage' \in LlmPageRecords /\ llmPage'.form = llmPage.form
       /\ llmPage'.submitting = llmPage.submitting /\ llmPage'.error = llmPage.error
       /\ llmPage'.errorOf = llmPage.errorOf /\ llmPage'.drifted = llmPage.drifted
  BY <1>1, <1>10, <1>11, <1>12 DEF LlmPageRecords
<1>14. llmCall'[c] = new /\ \A e \in LlmCalls : e # c => llmCall'[e] = llmCall[e]
  BY <1>3 DEF LlmKeysInv, LlmTypes
<1>15. LlmListFollows'
  BY <1>6, <1>14 DEF LlmListFollows, LlmAllSettled
<1>16. \A e \in LlmCalls : (llmCall'[e].waiting /\ llmCall'[e].op = "upsert")
                            <=> (llmCall[e].waiting /\ llmCall[e].op = "upsert")
  BY <1>1, <1>6, <1>14
<1>17. LlmDialog'
  <2>1. LlmWaiting' <=> LlmWaiting
    BY <1>16 DEF LlmWaiting
  <2>2. \A e \in LlmCalls : llmCall'[e].waiting /\ llmCall'[e].op = "upsert" =>
                              llmCall'[e].form = llmCall[e].form
    BY <1>6, <1>14
  <2> QED BY <1>13, <1>16, <2>1, <2>2 DEF LlmKeysInv, LlmDialog
<1>18. LlmTold'
  BY <1>3, <1>4, <1>5, <1>6, <1>11, LlmToldStays
<1>19. /\ llmRow' \in [LlmProviders -> KeyTexts \cup {NoRow, OldKey}] /\ llmLog' \in LlmLogs
       /\ \A e \in new.before : llmCall[e].outcome = "ok"
  BY <1>1, <1>6, <1>11 DEF LlmKeysInv, LlmRaces
<1> QED
  BY <1>3, <1>4, <1>5, <1>6, <1>7, <1>11, <1>13, <1>15, <1>17, <1>18, <1>19, LlmCallMoves

\* The provider's verdict, and the read of the row: nothing is stored yet.
LEMMA LlmGoesOn ==
  ASSUME LlmKeysInv, NEW c \in LlmCalls, LlmVerified(c) \/ UpsertFinds(c)
  PROVE  LlmKeysInv'
<1> DEFINE old == llmCall[c]
<1>1. /\ old \in LlmCallRecords /\ llmPage \in LlmPageRecords /\ llmLog \in LlmLogs
      /\ LlmPhase(old) /\ old.form \in LlmForms /\ old.form.provider \in LlmProviders
      /\ llmRow \in [LlmProviders -> KeyTexts \cup {NoRow, OldKey}]
  BY DEF LlmKeysInv, LlmTypes, LlmPhases, LlmCallRecords, LlmForms
<1>2. UNCHANGED <<llmRow, llmPage, llmLog>> /\ old.at \in {"verify", "find"}
  BY DEF LlmVerified, UpsertFinds
<1>3. old.op = "upsert" /\ old.outcome = "none"
  BY <1>1, <1>2 DEF LlmPhase
<1>4. PICK v \in BOOLEAN, a \in {"find", "save", "answer"}, o \in {"none", "422"},
           f \in KeyTexts \cup {NoRow, OldKey} :
        /\ llmCall' = [llmCall EXCEPT ![c] = [old EXCEPT !.verified = v, !.at = a, !.outcome = o, !.found = f]]
        /\ a \in {"find", "save"} => v /\ o = "none"
        /\ old.verified => v
        /\ a = "save" => f = llmRow[old.form.provider]
  <2>1. CASE LlmVerified(c)
    <3>1. PICK verdict :
            llmCall' = [llmCall EXCEPT ![c].verified = verdict = "good",
                ![c].at = IF StatusOf(verdict) = "good" THEN "find" ELSE "answer",
                ![c].outcome = IF StatusOf(verdict) = "good" THEN @ ELSE "422"]
      BY <2>1 DEF LlmVerified
    <3> DEFINE v == verdict = "good"
               a == IF StatusOf(verdict) = "good" THEN "find" ELSE "answer"
               o == IF StatusOf(verdict) = "good" THEN "none" ELSE "422"
    <3>2. llmCall' = [llmCall EXCEPT ![c] = [old EXCEPT !.verified = v, !.at = a, !.outcome = o]]
      BY <1>3, <3>1 DEF LlmKeysInv, LlmTypes, LlmCallRecords
    <3>3. /\ v \in BOOLEAN /\ a \in {"find", "answer"} /\ o \in {"none", "422"}
          /\ (a = "find" => v /\ o = "none")
      BY DEF StatusOf
    <3> HIDE DEF v, a, o
    <3>4. [old EXCEPT !.verified = v, !.at = a, !.outcome = o]
            = [old EXCEPT !.verified = v, !.at = a, !.outcome = o, !.found = old.found]
      BY <1>1 DEF LlmCallRecords
    <3>5. old.found \in KeyTexts \cup {NoRow, OldKey} /\ ~old.verified
      BY <1>1, <2>1 DEF LlmCallRecords, LlmVerified, LlmPhase
    <3> QED BY <3>2, <3>3, <3>4, <3>5
  <2>2. CASE UpsertFinds(c)
    <3> DEFINE f == llmRow[old.form.provider]
    <3>1. llmCall' = [llmCall EXCEPT ![c] = [old EXCEPT !.at = "save", !.found = f]] /\ old.verified = TRUE
      BY <1>1, <2>2 DEF UpsertFinds, LlmKeysInv, LlmTypes, LlmPhase, LlmCallRecords
    <3>2. f \in KeyTexts \cup {NoRow, OldKey}
      BY <1>1
    <3> HIDE DEF f
    <3>3. [old EXCEPT !.at = "save", !.found = f]
            = [old EXCEPT !.verified = TRUE, !.at = "save", !.outcome = "none", !.found = f]
      BY <1>1, <1>3, <3>1 DEF LlmCallRecords
    <3> USE DEF f
    <3> QED BY <3>1, <3>2, <3>3
  <2> QED BY <2>1, <2>2 DEF LlmVerified, UpsertFinds
<1> DEFINE new == [old EXCEPT !.verified = v, !.at = a, !.outcome = o, !.found = f]
<1>5. new \in LlmCallRecords
  BY <1>1 DEF LlmCallRecords, LlmStages, LlmOutcomes
<1>6. /\ new.op = old.op /\ new.at = a /\ new.form = old.form /\ new.waiting = old.waiting
      /\ new.early = old.early /\ new.before = old.before /\ new.outcome = o /\ new.verified = v
      /\ new.found = f
  BY <1>1 DEF LlmCallRecords
<1>7. llmCall' = [llmCall EXCEPT ![c] = new]
  BY <1>4
<1> HIDE DEF new
<1>8. LlmPhase(new)
  BY <1>1, <1>2, <1>3, <1>4, <1>6 DEF LlmPhase
<1>9. LlmListFollows'
  BY <1>2, <1>5, <1>6, <1>7, LlmUnsettled DEF LlmListFollows
<1>10. LlmDialog'
  BY <1>2, <1>5, <1>6, <1>7, LlmDialogStays
<1>11. LlmTold'
  BY <1>2, <1>4, <1>5, <1>6, <1>7, LlmToldStays
<1>12. /\ llmRow' \in [LlmProviders -> KeyTexts \cup {NoRow, OldKey}] /\ llmLog' \in LlmLogs
       /\ llmPage' \in LlmPageRecords /\ \A e \in new.before : llmCall[e].outcome = "ok"
  BY <1>1, <1>2, <1>6 DEF LlmKeysInv, LlmRaces
<1>13. ~(\/ new.outcome = "unique"
         \/ new.at = "save" /\ new.found = NoRow /\ llmRow'[new.form.provider] # NoRow)
  BY <1>2, <1>4, <1>6
<1>14. llmRow' = llmRow
  BY <1>2
<1> QED
  BY <1>3, <1>4, <1>5, <1>6, <1>7, <1>8, <1>9, <1>10, <1>11, <1>12, <1>13, <1>14, LlmCallMoves

\* The save is refused for a row that has come, or stores the key that was verified.
LEMMA LlmSaveKeeps ==
  ASSUME LlmKeysInv, NEW c \in LlmCalls, UpsertSaves(c)
  PROVE  LlmKeysInv'
<1> DEFINE old == llmCall[c]
           form == old.form
           refused == old.found = NoRow /\ llmRow[form.provider] # NoRow
           a == IF refused THEN "answer" ELSE "publish"
           o == IF refused THEN "unique" ELSE "ok"
           new == [old EXCEPT !.at = a, !.outcome = o]
<1>1. /\ old \in LlmCallRecords /\ llmPage \in LlmPageRecords /\ llmLog \in LlmLogs
      /\ LlmPhase(old) /\ form \in LlmForms /\ form.provider \in LlmProviders
      /\ form.key \in KeyTexts \cup {NoRow} /\ form = [provider |-> form.provider, key |-> form.key]
      /\ llmRow \in [LlmProviders -> KeyTexts \cup {NoRow, OldKey}] /\ old.at = "save"
  BY DEF LlmKeysInv, LlmTypes, LlmPhases, LlmCallRecords, LlmForms, UpsertSaves
<1>2. old.op = "upsert" /\ old.outcome = "none" /\ old.verified
  BY <1>1 DEF LlmPhase
<1>3. /\ UNCHANGED <<llmPage, llmLog>> /\ llmCall' = [llmCall EXCEPT ![c] = new]
      /\ llmRow' = IF refused THEN llmRow ELSE [llmRow EXCEPT ![form.provider] = form.key]
  BY DEF UpsertSaves, LlmKeysInv, LlmTypes
<1>4. a \in {"answer", "publish"} /\ o \in {"unique", "ok"}
  OBVIOUS
<1>5. /\ refused => a = "answer" /\ o = "unique"
      /\ ~refused => a = "publish" /\ o = "ok"
  OBVIOUS
<1> HIDE DEF a, o
<1>6. new \in LlmCallRecords
  BY <1>1, <1>4 DEF LlmCallRecords, LlmStages, LlmOutcomes
<1>7. /\ new.op = "upsert" /\ new.at = a /\ new.form = form /\ new.waiting = old.waiting
      /\ new.early = old.early /\ new.before = old.before /\ new.outcome = o /\ new.verified
  BY <1>1, <1>2 DEF LlmCallRecords
<1> HIDE DEF new
<1>8. LlmPhase(new)
  BY <1>1, <1>4, <1>7 DEF LlmPhase
<1>9. LlmListFollows'
  BY <1>1, <1>6, <1>7, <1>3, LlmUnsettled DEF LlmListFollows
<1>10. LlmDialog'
  BY <1>2, <1>3, <1>6, <1>7, LlmDialogStays
<1>11. /\ llmLog' \in LlmLogs /\ llmPage' \in LlmPageRecords
       /\ \A e \in new.before : llmCall[e].outcome = "ok"
  BY <1>1, <1>3, <1>7 DEF LlmKeysInv, LlmRaces
<1>12. CASE refused
  <2>1. llmRow' = llmRow /\ new.at = "answer" /\ new.outcome = "unique"
    BY <1>3, <1>5, <1>7, <1>12
  <2>2. CameSince(old)
    BY <1>1, <1>12 DEF LlmKeysInv, LlmRaces, Raced
  <2>3. LlmTold'
    BY <1>1, <1>3, <1>6, <2>1, LlmToldStays
  <2> QED BY <1>1, <1>2, <1>3, <1>6, <1>7, <1>8, <1>9, <1>10, <1>11, <2>1, <2>2, <2>3, LlmCallMoves
<1>13. CASE ~refused
  <2>1. /\ llmRow' = [llmRow EXCEPT ![form.provider] = form.key]
        /\ new.at = "publish" /\ new.outcome = "ok"
    BY <1>3, <1>5, <1>7, <1>13
  <2>2. llmRow' \in [LlmProviders -> KeyTexts \cup {NoRow, OldKey}]
    BY <1>1, <2>1
  <2>3. \A p \in LlmProviders :
          \/ llmRow'[p] \in {llmRow[p], NoRow}
          \/ new.verified /\ new.form = [provider |-> p, key |-> llmRow'[p]]
    BY <1>1, <1>7, <2>1
  <2>4. \A p \in LlmProviders : llmRow[p] = NoRow /\ llmRow'[p] # NoRow => p = form.provider
    BY <1>1, <2>1
  <2>5. llmCall'[c] = new /\ \A d \in LlmCalls : d # c => llmCall'[d] = llmCall[d]
    BY <1>3 DEF LlmKeysInv, LlmTypes
  <2>6. \A d \in LlmCalls : llmCall[d].form.provider \in LlmProviders
    BY DEF LlmKeysInv, LlmTypes, LlmCallRecords, LlmForms
  <2>7. LlmTold'
    <3> SUFFICES ASSUME NEW p \in LlmProviders
                 PROVE  llmLog'.deleted[p] + Cardinality(LlmUntold("delete", p)')
                          + (IF llmRow'[p] = NoRow THEN 0 ELSE 1)
                          <= llmLog'.upserted[p] + Cardinality(LlmUntold("upsert", p)')
      BY DEF LlmTold, LlmUntold
    <3> DEFINE d == llmLog.deleted[p]
               u == llmLog.upserted[p]
               nd == Cardinality(LlmUntold("delete", p))
               nu == Cardinality(LlmUntold("upsert", p))
    <3>1. d \in Nat /\ u \in Nat /\ nd \in Nat /\ nu \in Nat
      BY LlmUntoldFinite DEF LlmKeysInv, LlmTypes, LlmLogs
    <3>2. d + nd + (IF llmRow[p] = NoRow THEN 0 ELSE 1) <= u + nu
      BY DEF LlmKeysInv, LlmTold
    <3>3. LlmUntold("delete", p)' = LlmUntold("delete", p) /\ llmLog' = llmLog
      BY <1>1, <1>2, <1>3, <1>7, <2>5 DEF LlmUntold
    <3>4. CASE p = form.provider
      <4>1. LlmUntold("upsert", p)' = LlmUntold("upsert", p) \cup {c} /\ c \notin LlmUntold("upsert", p)
        BY <1>1, <1>7, <2>1, <2>5, <3>4 DEF LlmUntold
      <4>2. Cardinality(LlmUntold("upsert", p)') = nu + 1
        BY <4>1, FS_AddElement, LlmUntoldFinite
      <4> HIDE DEF d, u, nd, nu
      <4>3. d + nd <= u + nu
        BY <3>1, <3>2
      <4>4. d + nd + 1 <= u + (nu + 1)
        BY <3>1, <4>3
      <4>5. d + nd + 0 <= u + (nu + 1)
        BY <3>1, <4>3
      <4> QED BY <3>3, <4>2, <4>4, <4>5 DEF d, u, nd, nu
    <3>5. CASE p # form.provider
      <4>1. LlmUntold("upsert", p)' = LlmUntold("upsert", p)
        BY <1>1, <1>7, <2>5, <3>5 DEF LlmUntold
      <4>2. llmRow'[p] = llmRow[p]
        BY <1>1, <2>1, <3>5
      <4> QED BY <3>2, <3>3, <4>1, <4>2
    <3> QED BY <3>4, <3>5
  <2>8. \A d \in LlmCalls \ {c} :
          (/\ llmCall[d].at = "save" /\ llmRow[llmCall[d].form.provider] = NoRow
           /\ llmRow'[llmCall[d].form.provider] # NoRow)
          => /\ new.op = "upsert" /\ new.outcome = "ok" /\ llmCall[c].outcome # "ok"
             /\ new.form.provider = llmCall[d].form.provider
    BY <1>2, <1>7, <2>1, <2>4, <2>6
  <2> QED BY <1>2, <1>3, <1>6, <1>7, <1>8, <1>9, <1>10, <1>11, <2>1, <2>2, <2>3, <2>7, <2>8, LlmCallMoves
<1> QED BY <1>12, <1>13

\* The deletion takes the row, if there is one.
LEMMA LlmRemoveKeeps ==
  ASSUME LlmKeysInv, NEW c \in LlmCalls, Removes(c)
  PROVE  LlmKeysInv'
<1> DEFINE old == llmCall[c]
           p == old.form.provider
           removed == llmRow[p] # NoRow
           a == IF removed THEN "publish" ELSE "answer"
           o == IF removed THEN "ok" ELSE "404"
           new == [old EXCEPT !.at = a, !.outcome = o]
<1>1. /\ old \in LlmCallRecords /\ llmPage \in LlmPageRecords /\ llmLog \in LlmLogs
      /\ LlmPhase(old) /\ p \in LlmProviders
      /\ llmRow \in [LlmProviders -> KeyTexts \cup {NoRow, OldKey}] /\ old.at = "remove"
  BY DEF LlmKeysInv, LlmTypes, LlmPhases, LlmCallRecords, LlmForms, Removes
<1>2. old.op = "delete" /\ old.outcome = "none"
  BY <1>1 DEF LlmPhase
<1>3. /\ UNCHANGED <<llmPage, llmLog>> /\ llmCall' = [llmCall EXCEPT ![c] = new]
      /\ llmRow' = [llmRow EXCEPT ![p] = NoRow]
  BY DEF Removes, LlmKeysInv, LlmTypes
<1>4. a \in {"answer", "publish"} /\ o \in {"404", "ok"}
  OBVIOUS
<1>5. /\ removed => a = "publish" /\ o = "ok"
      /\ ~removed => a = "answer" /\ o = "404"
  OBVIOUS
<1> HIDE DEF a, o
<1>6. new \in LlmCallRecords
  BY <1>1, <1>4 DEF LlmCallRecords, LlmStages, LlmOutcomes
<1>7. /\ new.op = "delete" /\ new.at = a /\ new.form = old.form /\ new.waiting = old.waiting
      /\ new.early = old.early /\ new.before = old.before /\ new.outcome = o
      /\ new.verified = old.verified
  BY <1>1, <1>2 DEF LlmCallRecords
<1> HIDE DEF new
<1>8. LlmPhase(new)
  BY <1>1, <1>4, <1>7 DEF LlmPhase
<1>9. LlmListFollows'
  BY <1>1, <1>6, <1>7, <1>3, LlmUnsettled DEF LlmListFollows
<1>10. LlmDialog'
  BY <1>2, <1>3, <1>6, <1>7, LlmDialogStays
<1>11. /\ llmLog' \in LlmLogs /\ llmPage' \in LlmPageRecords
       /\ llmRow' \in [LlmProviders -> KeyTexts \cup {NoRow, OldKey}]
       /\ \A e \in new.before : llmCall[e].outcome = "ok"
  BY <1>1, <1>3, <1>7 DEF LlmKeysInv, LlmRaces
<1>12. \A r \in LlmProviders : llmRow'[r] \in {llmRow[r], NoRow}
  BY <1>1, <1>3
<1>13. \A d \in LlmCalls : llmCall[d].form.provider \in LlmProviders
  BY DEF LlmKeysInv, LlmTypes, LlmCallRecords, LlmForms
<1>14. llmCall'[c] = new /\ \A d \in LlmCalls : d # c => llmCall'[d] = llmCall[d]
  BY <1>3 DEF LlmKeysInv, LlmTypes
<1>15. LlmTold'
  <2> SUFFICES ASSUME NEW r \in LlmProviders
               PROVE  llmLog'.deleted[r] + Cardinality(LlmUntold("delete", r)')
                        + (IF llmRow'[r] = NoRow THEN 0 ELSE 1)
                        <= llmLog'.upserted[r] + Cardinality(LlmUntold("upsert", r)')
    BY DEF LlmTold, LlmUntold
  <2> DEFINE d == llmLog.deleted[r]
             u == llmLog.upserted[r]
             nd == Cardinality(LlmUntold("delete", r))
             nu == Cardinality(LlmUntold("upsert", r))
  <2>1. d \in Nat /\ u \in Nat /\ nd \in Nat /\ nu \in Nat
    BY LlmUntoldFinite DEF LlmKeysInv, LlmTypes, LlmLogs
  <2>2. d + nd + (IF llmRow[r] = NoRow THEN 0 ELSE 1) <= u + nu
    BY DEF LlmKeysInv, LlmTold
  <2>3. LlmUntold("upsert", r)' = LlmUntold("upsert", r) /\ llmLog' = llmLog
    BY <1>1, <1>2, <1>3, <1>7, <1>14 DEF LlmUntold
  <2>4. CASE r = p /\ removed
    <3>1. LlmUntold("delete", r)' = LlmUntold("delete", r) \cup {c} /\ c \notin LlmUntold("delete", r)
      BY <1>1, <1>5, <1>7, <1>14, <2>4 DEF LlmUntold
    <3>2. Cardinality(LlmUntold("delete", r)') = nd + 1
      BY <3>1, FS_AddElement, LlmUntoldFinite
    <3>3. llmRow'[r] = NoRow /\ llmRow[r] # NoRow
      BY <1>1, <1>3, <2>4
    <3> HIDE DEF d, u, nd, nu
    <3>4. d + nd + 1 <= u + nu
      BY <2>2, <3>3
    <3>5. d + (nd + 1) + 0 <= u + nu
      BY <2>1, <3>4
    <3> QED BY <2>3, <3>2, <3>3, <3>5 DEF d, u, nd, nu
  <2>5. CASE ~(r = p /\ removed)
    <3>1. LlmUntold("delete", r)' = LlmUntold("delete", r)
      BY <1>1, <1>5, <1>7, <1>14, <2>5 DEF LlmUntold
    <3>2. llmRow'[r] = llmRow[r]
      BY <1>1, <1>3, <2>5
    <3> QED BY <2>2, <2>3, <3>1, <3>2
  <2> QED BY <2>4, <2>5
<1>16. ~(\/ new.outcome = "unique" \/ new.at = "save")
  BY <1>4, <1>7
<1>17. \A d \in LlmCalls \ {c} :
         ~(/\ llmCall[d].at = "save" /\ llmRow[llmCall[d].form.provider] = NoRow
           /\ llmRow'[llmCall[d].form.provider] # NoRow)
  BY <1>12, <1>13
<1> QED
  BY <1>2, <1>3, <1>6, <1>7, <1>8, <1>9, <1>10, <1>11, <1>12, <1>15, <1>16, <1>17, LlmCallMoves

\* The event of what was done: one more is told, one less is to be told.
LEMMA LlmPublishKeeps ==
  ASSUME LlmKeysInv, NEW c \in LlmCalls, Publishes(c)
  PROVE  LlmKeysInv'
<1> DEFINE old == llmCall[c]
           p == old.form.provider
           op == old.op
           new == [old EXCEPT !.at = "answer"]
<1>1. /\ old \in LlmCallRecords /\ llmPage \in LlmPageRecords /\ llmLog \in LlmLogs
      /\ LlmPhase(old) /\ p \in LlmProviders
      /\ llmRow \in [LlmProviders -> KeyTexts \cup {NoRow, OldKey}] /\ old.at = "publish"
  BY DEF LlmKeysInv, LlmTypes, LlmPhases, LlmCallRecords, LlmForms, Publishes
<1>2. op \in {"upsert", "delete"}
  BY <1>1 DEF LlmPhase, LlmCallRecords
<1>3. UNCHANGED <<llmRow, llmPage>> /\ llmCall' = [llmCall EXCEPT ![c] = new]
  BY DEF Publishes, LlmKeysInv, LlmTypes
<1>4. new \in LlmCallRecords
  BY <1>1 DEF LlmCallRecords, LlmStages
<1>5. /\ new.op = op /\ new.at = "answer" /\ new.form = old.form /\ new.waiting = old.waiting
      /\ new.early = old.early /\ new.before = old.before /\ new.outcome = old.outcome
      /\ new.verified = old.verified
  BY <1>1 DEF LlmCallRecords
<1> HIDE DEF new
<1>6. LlmPhase(new)
  BY <1>1, <1>2, <1>5 DEF LlmPhase
<1>7. LlmListFollows'
  BY <1>1, <1>3, <1>4, <1>5, LlmUnsettled DEF LlmListFollows
<1>8. LlmDialog'
  BY <1>3, <1>4, <1>5, LlmDialogStays
<1>9. /\ llmLog.upserted \in [LlmProviders -> Nat] /\ llmLog.deleted \in [LlmProviders -> Nat]
      /\ llmLog.upserted[p] + 1 \in Nat /\ llmLog.deleted[p] + 1 \in Nat
  BY <1>1 DEF LlmLogs
<1> DEFINE ups == [llmLog.upserted EXCEPT ![p] = @ + 1]
           dels == [llmLog.deleted EXCEPT ![p] = @ + 1]
<1>10. ups \in [LlmProviders -> Nat] /\ dels \in [LlmProviders -> Nat]
  BY <1>1, <1>9
<1>11. /\ op = "upsert" => llmLog' = [llmLog EXCEPT !.upserted = ups]
       /\ op = "delete" => llmLog' = [llmLog EXCEPT !.deleted = dels]
  BY <1>1 DEF Publishes, LlmLogs
<1>12. /\ llmLog' \in LlmLogs
       /\ op = "upsert" => llmLog'.upserted = ups /\ llmLog'.deleted = llmLog.deleted
       /\ op = "delete" => llmLog'.deleted = dels /\ llmLog'.upserted = llmLog.upserted
  <2> HIDE DEF ups, dels
  <2> QED BY <1>1, <1>2, <1>10, <1>11 DEF LlmLogs
<1>13. llmCall'[c] = new /\ \A d \in LlmCalls : d # c => llmCall'[d] = llmCall[d]
  BY <1>3 DEF LlmKeysInv, LlmTypes
<1>14. LlmTold'
  <2> SUFFICES ASSUME NEW r \in LlmProviders
               PROVE  llmLog'.deleted[r] + Cardinality(LlmUntold("delete", r)')
                        + (IF llmRow'[r] = NoRow THEN 0 ELSE 1)
                        <= llmLog'.upserted[r] + Cardinality(LlmUntold("upsert", r)')
    BY DEF LlmTold, LlmUntold
  <2> DEFINE d == llmLog.deleted[r]
             u == llmLog.upserted[r]
             nd == Cardinality(LlmUntold("delete", r))
             nu == Cardinality(LlmUntold("upsert", r))
             b == IF llmRow[r] = NoRow THEN 0 ELSE 1
  <2>1. d \in Nat /\ u \in Nat /\ nd \in Nat /\ nu \in Nat /\ b \in Nat
    BY LlmUntoldFinite DEF LlmKeysInv, LlmTypes, LlmLogs
  <2>2. d + nd + b <= u + nu
    BY DEF LlmKeysInv, LlmTold
  <2>3. (IF llmRow'[r] = NoRow THEN 0 ELSE 1) = b
    BY <1>3
  <2>4. ASSUME NEW o \in {"upsert", "delete"}
        PROVE  Cardinality(LlmUntold(o, r)') = IF o = op /\ r = p THEN Cardinality(LlmUntold(o, r)) - 1
                                               ELSE Cardinality(LlmUntold(o, r))
    <3>1. CASE o = op /\ r = p
      <4>1. LlmUntold(o, r)' = LlmUntold(o, r) \ {c} /\ c \in LlmUntold(o, r)
        BY <1>1, <1>5, <1>13, <3>1 DEF LlmUntold
      <4>2. Cardinality(LlmUntold(o, r) \ {c}) = Cardinality(LlmUntold(o, r)) - 1
        BY <4>1, FS_RemoveElement, LlmUntoldFinite
      <4> QED BY <3>1, <4>1, <4>2
    <3>2. CASE ~(o = op /\ r = p)
      <4>1. LlmUntold(o, r)' = LlmUntold(o, r)
        BY <1>1, <1>5, <1>13, <3>2 DEF LlmUntold
      <4> QED BY <3>2, <4>1
    <3> QED BY <3>1, <3>2
  <2>5. CASE op = "upsert" /\ r = p
    <3>1. llmLog'.deleted[r] = d /\ llmLog'.upserted[r] = u + 1
      BY <1>1, <1>9, <1>12, <2>5
    <3>2. Cardinality(LlmUntold("delete", r)') = nd /\ Cardinality(LlmUntold("upsert", r)') = nu - 1
      BY <2>4, <2>5
    <3> HIDE DEF d, u, nd, nu, b
    <3>3. d + nd + b <= (u + 1) + (nu - 1)
      BY <2>1, <2>2
    <3> QED BY <2>3, <3>1, <3>2, <3>3
  <2>6. CASE op = "delete" /\ r = p
    <3>1. llmLog'.deleted[r] = d + 1 /\ llmLog'.upserted[r] = u
      BY <1>1, <1>9, <1>12, <2>6
    <3>2. Cardinality(LlmUntold("delete", r)') = nd - 1 /\ Cardinality(LlmUntold("upsert", r)') = nu
      BY <2>4, <2>6
    <3> HIDE DEF d, u, nd, nu, b
    <3>3. (d + 1) + (nd - 1) + b <= u + nu
      BY <2>1, <2>2
    <3> QED BY <2>3, <3>1, <3>2, <3>3
  <2>7. CASE r # p
    <3>1. llmLog'.deleted[r] = d /\ llmLog'.upserted[r] = u
      BY <1>1, <1>2, <1>9, <1>12, <2>7
    <3>2. Cardinality(LlmUntold("delete", r)') = nd /\ Cardinality(LlmUntold("upsert", r)') = nu
      BY <2>4, <2>7
    <3> QED BY <2>2, <2>3, <3>1, <3>2
  <2> QED BY <1>2, <2>5, <2>6, <2>7
<1>15. /\ llmRow' = llmRow /\ llmRow' \in [LlmProviders -> KeyTexts \cup {NoRow, OldKey}]
       /\ llmPage' \in LlmPageRecords /\ \A e \in new.before : llmCall[e].outcome = "ok"
  BY <1>1, <1>3, <1>5 DEF LlmKeysInv, LlmRaces
<1>16. new.outcome = "unique" => CameSince(llmCall[c])
  BY <1>5 DEF LlmKeysInv, LlmRaces, Raced
<1> QED
  BY <1>3, <1>4, <1>5, <1>6, <1>7, <1>8, <1>12, <1>14, <1>15, <1>16, LlmCallMoves

\* An answer, or its loss, asks for the list again; the error is about the call's form.
LEMMA LlmAnswersKeep ==
  ASSUME LlmKeysInv, NEW c \in LlmCalls, LlmAnswered(c) \/ LlmLost(c)
  PROVE  LlmKeysInv'
<1> DEFINE old == llmCall[c]
           q == llmPage.query
<1>1. /\ old \in LlmCallRecords /\ llmPage \in LlmPageRecords /\ llmLog \in LlmLogs
      /\ LlmPhase(old) /\ old.form \in LlmForms /\ old.form.provider \in LlmProviders
      /\ old.prev \subseteq LlmProviders /\ q \in LlmQueries /\ old.waiting
      /\ llmRow \in [LlmProviders -> KeyTexts \cup {NoRow, OldKey}]
  BY DEF LlmKeysInv, LlmTypes, LlmPhases, LlmCallRecords, LlmForms, LlmPageRecords, LlmAnswered, LlmLost
<1>2. UNCHANGED <<llmRow, llmLog>> /\ old.op \in {"upsert", "delete"}
  BY <1>1 DEF LlmAnswered, LlmLost, LlmPhase, LlmCallRecords
<1>3. PICK o \in LlmOutcomes, early \in BOOLEAN, n \in Nat :
        /\ llmPage' = [LlmSettled(c, o) EXCEPT !.faults = n]
        /\ llmCall' = [llmCall EXCEPT ![c] = [old EXCEPT !.waiting = FALSE, !.early = early]]
        /\ old.at # "answer" => early
  <2>0. llmPage.faults \in Nat /\ llmPage.faults + 1 \in Nat
    BY <1>1 DEF LlmPageRecords
  <2>1. \A o : LlmSettled(c, o).faults = llmPage.faults
    BY <1>1 DEF LlmSettled, UpsertSettled, DeleteSettled, Closed, LlmPageRecords
  <2>2. CASE LlmAnswered(c)
    <3>1. LlmSettled(c, old.outcome) = [LlmSettled(c, old.outcome) EXCEPT !.faults = llmPage.faults]
      BY <1>1 DEF LlmSettled, UpsertSettled, DeleteSettled, Closed, LlmPageRecords
    <3>2. llmCall' = [llmCall EXCEPT ![c] = [old EXCEPT !.waiting = FALSE, !.early = old.early]]
      BY <1>1, <2>2 DEF LlmAnswered, LlmKeysInv, LlmTypes, LlmCallRecords
    <3>3. old.outcome \in LlmOutcomes /\ old.early \in BOOLEAN
      BY <1>1 DEF LlmCallRecords
    <3> QED BY <2>0, <2>2, <3>1, <3>2, <3>3 DEF LlmAnswered
  <2>3. CASE LlmLost(c)
    <3> DEFINE e == old.at # "answer"
               m == llmPage.faults + 1
    <3>1. llmPage' = [LlmSettled(c, "unknown_error") EXCEPT !.faults = m]
      BY <2>1, <2>3 DEF LlmLost
    <3>2. llmCall' = [llmCall EXCEPT ![c] = [old EXCEPT !.waiting = FALSE, !.early = e]]
      BY <2>3 DEF LlmLost, LlmKeysInv, LlmTypes
    <3>3. e \in BOOLEAN /\ m \in Nat /\ (old.at # "answer" => e) /\ "unknown_error" \in LlmOutcomes
      BY <2>0 DEF LlmOutcomes
    <3> HIDE DEF e, m
    <3> QED BY <3>1, <3>2, <3>3
  <2> QED BY <2>2, <2>3
<1> DEFINE new == [old EXCEPT !.waiting = FALSE, !.early = early]
<1>4. new \in LlmCallRecords
  BY <1>1 DEF LlmCallRecords
<1>5. /\ new.op = old.op /\ new.at = old.at /\ new.form = old.form /\ ~new.waiting
      /\ new.early = early /\ new.before = old.before /\ new.outcome = old.outcome
      /\ new.verified = old.verified /\ new.found = old.found
  BY <1>1 DEF LlmCallRecords
<1>6. llmCall' = [llmCall EXCEPT ![c] = new]
  BY <1>3
<1> HIDE DEF new
<1>7. LlmPhase(new)
  <2>1. old.at # "idle"
    BY <1>1 DEF LlmPhase
  <2> QED BY <1>1, <1>3, <1>5, <2>1 DEF LlmPhase
<1>8. llmCall'[c] = new /\ \A d \in LlmCalls : d # c => llmCall'[d] = llmCall[d]
  BY <1>6 DEF LlmKeysInv, LlmTypes
<1>9. LlmTold'
  <2>1. \A op, p : LlmUntold(op, p)' = LlmUntold(op, p)
    BY <1>5, <1>8 DEF LlmUntold
  <2> QED BY <1>2, <2>1 DEF LlmKeysInv, LlmTold, LlmUntold
<1>10. /\ Raced(new) => CameSince(old)
       /\ old.outcome = "ok" => old.at # "save"
       /\ \A e \in new.before : llmCall[e].outcome = "ok"
  BY <1>1, <1>5 DEF LlmKeysInv, LlmRaces, Raced, LlmPhase
<1>11. ASSUME llmPage' \in LlmPageRecords, llmPage'.query.fetch = Sent, LlmDialog'
       PROVE  LlmKeysInv'
  <2>1. LlmListFollows'
    BY <1>11 DEF LlmListFollows, Sent
  <2>2. /\ llmRow' = llmRow /\ llmRow' \in [LlmProviders -> KeyTexts \cup {NoRow, OldKey}]
        /\ llmLog' \in LlmLogs
    BY <1>1, <1>2
  <2>3. \/ new.outcome = "unique"
        \/ new.at = "save" /\ new.found = NoRow /\ llmRow'[new.form.provider] # NoRow
        => CameSince(old) /\ new.before = old.before /\ new.form = old.form /\ old.outcome # "ok"
    BY <1>5, <1>10, <2>2 DEF Raced
  <2> QED BY <1>4, <1>5, <1>6, <1>7, <1>9, <1>10, <1>11, <2>1, <2>2, <2>3, LlmCallMoves
<1>12. Sent \in LlmFetches
  BY DEF Sent, LlmFetches
<1> DEFINE with(d) == [[q EXCEPT !.data = d, !.error = FALSE] EXCEPT !.fetch = Sent]
           kept == [q EXCEPT !.fetch = Sent]
<1>13. ASSUME NEW d \in SUBSET LlmProviders
       PROVE  /\ InvalidateQueries(SetQueryData(q, d)) = with(d)
              /\ with(d) \in LlmQueries /\ with(d).fetch = Sent
  BY <1>1, <1>12 DEF InvalidateQueries, SetQueryData, LlmQueries
<1>14. InvalidateQueries(q) = kept /\ kept \in LlmQueries /\ kept.fetch = Sent
  BY <1>1, <1>12 DEF InvalidateQueries, LlmQueries
<1> HIDE DEF with, kept
<1>15. \A d \in LlmCalls : llmCall'[d].waiting /\ llmCall'[d].op = "upsert" =>
         llmCall[d].waiting /\ llmCall[d].op = "upsert" /\ llmCall'[d].form = llmCall[d].form
  BY <1>5, <1>8
<1>16. CASE old.op = "upsert" /\ o = "ok"
  <2> DEFINE d == q.data \cup {old.form.provider}
  <2>0. LlmWaiting
    BY <1>1, <1>16 DEF LlmWaiting
  <2>1. d \in SUBSET LlmProviders
    BY <1>1 DEF LlmQueries
  <2>2. LlmSettled(c, o) = Closed([llmPage EXCEPT !.submitting = FALSE, !.query = with(d)])
    BY <1>13, <1>16, <2>1 DEF LlmSettled, UpsertSettled
  <2> HIDE DEF d
  <2>3. llmPage' = [llmPage EXCEPT !.query = with(d), !.open = FALSE, !.form = EmptyForm,
                                   !.submitting = FALSE, !.error = "none", !.drifted = TRUE, !.faults = n]
    BY <1>1, <1>3, <2>0, <2>2 DEF Closed, LlmPageRecords
  <2>4. EmptyForm \in LlmForms
    BY LlmKeysAssumption DEF EmptyForm, DefaultProvider, LlmForms
  <2>5. /\ llmPage' \in LlmPageRecords /\ llmPage'.query = with(d) /\ llmPage'.drifted = TRUE
        /\ llmPage'.submitting = FALSE
    BY <1>1, <1>13, <2>1, <2>3, <2>4 DEF LlmPageRecords, LlmOutcomes
  <2> QED BY <1>11, <1>13, <2>1, <2>5 DEF LlmDialog
<1>17. CASE old.op = "upsert" /\ o # "ok"
  <2>1. llmPage' = [llmPage EXCEPT !.query = kept, !.submitting = FALSE, !.error = o,
                                   !.errorOf = old.form, !.faults = n]
    BY <1>1, <1>3, <1>14, <1>17 DEF LlmSettled, UpsertSettled, LlmPageRecords
  <2>2. /\ llmPage' \in LlmPageRecords /\ llmPage'.query = kept /\ llmPage'.submitting = FALSE
        /\ llmPage'.errorOf = old.form /\ llmPage'.form = llmPage.form
        /\ llmPage'.drifted = llmPage.drifted
    BY <1>1, <1>14, <2>1 DEF LlmPageRecords
  <2>3. ~llmPage.drifted => old.form = llmPage.form
    BY <1>1, <1>17 DEF LlmKeysInv, LlmDialog
  <2>4. LlmDialog'
    BY <1>15, <2>2, <2>3 DEF LlmKeysInv, LlmDialog
  <2> QED BY <1>11, <1>14, <2>2, <2>4
<1>18. CASE old.op = "delete"
  <2>1. PICK nq \in LlmQueries : nq.fetch = Sent /\ LlmSettled(c, o) = [llmPage EXCEPT !.query = nq]
    <3>1. CASE o = "ok"
      BY <1>14, <1>18, <3>1 DEF LlmSettled, DeleteSettled
    <3>2. CASE o # "ok"
      BY <1>1, <1>13, <1>18, <3>2 DEF LlmSettled, DeleteSettled
    <3> QED BY <3>1, <3>2
  <2>2. llmPage' = [llmPage EXCEPT !.query = nq, !.faults = n]
    BY <1>3, <2>1
  <2>3. /\ llmPage' \in LlmPageRecords /\ llmPage'.query = nq /\ llmPage'.submitting = llmPage.submitting
        /\ llmPage'.errorOf = llmPage.errorOf /\ llmPage'.form = llmPage.form
        /\ llmPage'.drifted = llmPage.drifted /\ llmPage'.error = llmPage.error
    BY <1>1, <2>1, <2>2 DEF LlmPageRecords
  <2>4. LlmWaiting => LlmWaiting'
    BY <1>5, <1>8, <1>18 DEF LlmWaiting
  <2>5. LlmDialog'
    BY <1>15, <2>3, <2>4 DEF LlmKeysInv, LlmDialog
  <2> QED BY <1>11, <2>1, <2>3, <2>5
<1> QED BY <1>2, <1>16, <1>17, <1>18

\* One provider has a key from before, which was told of; nothing is under way.
LEMMA LlmKeysBegin ==
  ASSUME LlmKeysInit
  PROVE  LlmKeysInv
<1> DEFINE q == MountedQuery({DefaultProvider})
<1>1. DefaultProvider \in LlmProviders
  BY LlmKeysAssumption DEF DefaultProvider
<1>2. EmptyForm \in LlmForms
  BY <1>1 DEF EmptyForm, LlmForms
<1>3. llmRow = [p \in LlmProviders |-> IF p = DefaultProvider THEN OldKey ELSE NoRow]
      /\ llmRow \in [LlmProviders -> KeyTexts \cup {NoRow, OldKey}]
  BY DEF LlmKeysInit
<1>4. /\ NoLlmCall \in LlmCallRecords /\ LlmPhase(NoLlmCall) /\ NoLlmCall.before = {} /\ ~NoLlmCall.waiting
      /\ NoLlmCall.at = "idle" /\ NoLlmCall.outcome = "none"
  <2> HIDE DEF EmptyForm
  <2> QED BY <1>2 DEF NoLlmCall, LlmCallRecords, LlmPhase, LlmStages, LlmOutcomes
<1>5. llmCall \in [LlmCalls -> LlmCallRecords] /\ \A c \in LlmCalls : llmCall[c] = NoLlmCall
  BY <1>4 DEF LlmKeysInit
<1>6. q \in LlmQueries /\ q.fetch.at = "sent"
  BY <1>1 DEF MountedQuery, Sent, LlmQueries, LlmFetches
<1> HIDE DEF q
<1>7. /\ llmPage \in LlmPageRecords /\ llmPage.query = q /\ llmPage.submitting = FALSE
      /\ llmPage.error = "none"
  <2>1. llmPage = [query |-> q, open |-> FALSE, form |-> EmptyForm, submitting |-> FALSE,
                   error |-> "none", errorOf |-> EmptyForm, drifted |-> FALSE,
                   asked |-> NoProvider, latest |-> 0, faults |-> 0]
    BY DEF LlmKeysInit, q
  <2> HIDE DEF EmptyForm
  <2> QED BY <1>2, <1>6, <2>1 DEF LlmPageRecords, LlmOutcomes
<1>8. /\ llmLog.upserted = [p \in LlmProviders |-> IF p = DefaultProvider THEN 1 ELSE 0]
      /\ llmLog.deleted = [p \in LlmProviders |-> 0] /\ llmLog \in LlmLogs
  BY DEF LlmKeysInit, LlmLogs
<1>9. LlmTypes /\ LlmPhases
  BY <1>3, <1>4, <1>5, <1>7, <1>8 DEF LlmTypes, LlmPhases
<1>10. LlmListFollows
  BY <1>6, <1>7 DEF LlmListFollows
<1>11. StoredKeyVerified
  BY <1>3 DEF StoredKeyVerified
<1>12. LlmRaces
  BY <1>4, <1>5 DEF LlmRaces, Raced
<1>13. LlmTold
  <2> SUFFICES ASSUME NEW p \in LlmProviders
               PROVE  llmLog.deleted[p] + Cardinality(LlmUntold("delete", p))
                        + (IF llmRow[p] = NoRow THEN 0 ELSE 1)
                        <= llmLog.upserted[p] + Cardinality(LlmUntold("upsert", p))
    BY DEF LlmTold
  <2>1. LlmUntold("delete", p) = {} /\ LlmUntold("upsert", p) = {}
    BY <1>4, <1>5 DEF LlmUntold
  <2>2. Cardinality(LlmUntold("delete", p)) = 0 /\ Cardinality(LlmUntold("upsert", p)) = 0
    BY <2>1, FS_EmptySet
  <2>3. llmRow[p] # NoRow => p = DefaultProvider
    BY <1>3
  <2>4. llmLog.deleted[p] = 0 /\ llmLog.upserted[p] = IF p = DefaultProvider THEN 1 ELSE 0
    BY <1>8
  <2>5. CASE p = DefaultProvider
    BY <2>2, <2>4, <2>5
  <2>6. CASE p # DefaultProvider
    BY <2>2, <2>3, <2>4, <2>6
  <2> QED BY <2>5, <2>6
<1>14. LlmDialog
  BY <1>4, <1>5, <1>7 DEF LlmDialog
<1> QED BY <1>9, <1>10, <1>11, <1>12, <1>13, <1>14 DEF LlmKeysInv

\* Whatever the page, the calls or the API does.
LEMMA LlmKeysKept ==
  ASSUME LlmKeysInv, LlmKeysNext
  PROVE  LlmKeysInv'
<1>1. CASE \/ OpenUpsert \/ CloseUpsert \/ EditForm \/ CancelDelete
           \/ \E p \in LlmProviders : AskDelete(p)
  BY <1>1, LlmDialogsKeep
<1>2. CASE LlmListRead \/ LlmListAnswered \/ LlmListFailed \/ LlmListRetry
  BY <1>2, LlmListKeeps
<1>3. ASSUME NEW c \in LlmCalls, SubmitLlmKey(c)
      PROVE  LlmKeysInv'
  BY <1>3, LlmSubmitKeeps
<1>4. ASSUME NEW c \in LlmCalls, LlmVerified(c) \/ UpsertFinds(c)
      PROVE  LlmKeysInv'
  BY <1>4, LlmGoesOn
<1>5. ASSUME NEW c \in LlmCalls, UpsertSaves(c)
      PROVE  LlmKeysInv'
  BY <1>5, LlmSaveKeeps
<1>6. ASSUME NEW c \in LlmCalls, ConfirmDelete(c)
      PROVE  LlmKeysInv'
  BY <1>6, LlmConfirmKeeps
<1>7. ASSUME NEW c \in LlmCalls, Removes(c)
      PROVE  LlmKeysInv'
  BY <1>7, LlmRemoveKeeps
<1>8. ASSUME NEW c \in LlmCalls, Publishes(c)
      PROVE  LlmKeysInv'
  BY <1>8, LlmPublishKeeps
<1>9. ASSUME NEW c \in LlmCalls, LlmAnswered(c) \/ LlmLost(c)
      PROVE  LlmKeysInv'
  BY <1>9, LlmAnswersKeep
<1> QED BY <1>1, <1>2, <1>3, <1>4, <1>5, <1>6, <1>7, <1>8, <1>9 DEF LlmKeysNext

\* A step of the features moves the LLM keys, or leaves them.
LEMMA LlmKeysMove ==
  ASSUME [Next]_vars
  PROVE  LlmKeysNext \/ UNCHANGED llmKeyVars
<1>1. CASE LlmKeysFeature
  BY <1>1 DEF LlmKeysFeature
<1>2. CASE \/ ListingsFeature \/ RescoreFeature \/ AnalyticsFeature \/ SessionsFeature
           \/ ApiKeysFeature \/ CommitMessagesFeature
  BY <1>2 DEF ListingsFeature, RescoreFeature, AnalyticsFeature, SessionsFeature, ApiKeysFeature,
     CommitMessagesFeature
<1>3. CASE UNCHANGED vars
  BY <1>3 DEF vars
<1> QED BY <1>1, <1>2, <1>3 DEF Next

\* llm-keys.service.ts, the LLM keys page: every key that is stored was taken by its
\* provider, an upsert meets the unique constraint only when another one of the
\* provider came first, deletions are told of no more often than saves, the list
\* shows the providers with a row once all is settled, and the dialog's error is
\* about the form it shows.
THEOREM LlmKeysAlways == Spec => []LlmKeysHold
<1>1. Init => LlmKeysInv
  BY LlmKeysBegin DEF Init
<1>2. LlmKeysInv /\ [Next]_vars => LlmKeysInv'
  <2> SUFFICES ASSUME LlmKeysInv, [Next]_vars
               PROVE  LlmKeysInv'
    OBVIOUS
  <2>1. CASE LlmKeysNext
    BY <2>1, LlmKeysKept
  <2>2. CASE UNCHANGED llmKeyVars
    <3>1. llmRow' = llmRow /\ llmCall' = llmCall /\ llmPage' = llmPage /\ llmLog' = llmLog
      BY <2>2 DEF llmKeyVars
    <3>2. llmPage' \in LlmPageRecords
      BY <3>1 DEF LlmKeysInv, LlmTypes
    <3>3. LlmListFollows' /\ LlmDialog'
      BY <3>1 DEF LlmKeysInv, LlmListFollows, LlmAllSettled, Configured, LlmDialog, LlmWaiting
    <3> QED BY <3>1, <3>2, <3>3, LlmPageMoves
  <2> QED BY <2>1, <2>2, LlmKeysMove
<1>3. LlmKeysInv => LlmKeysHold
  BY LlmKeysInvSuffices
<1> QED BY <1>1, <1>2, <1>3, PTL DEF Spec

(***************************************************************************)
(* The sessions.                                                           *)
(***************************************************************************)
Cookies == [login : Logins \cup {None}, gen : 0 .. MaxGen, old : BOOLEAN]
SessionRecords == [live : BOOLEAN, gen : 0 .. MaxGen, grace : BOOLEAN, uid : Nat, dropped : BOOLEAN,
                   reused : BOOLEAN]
UserRows == [there : BOOLEAN, token : Nat, raced : BOOLEAN]
Working == {"guard", "identity", "find", "save"}
MirrorRecords == [at : Working \cup {"idle", "answered"}, uid : Nat, token : Nat, read : UserRows,
                  stale : BOOLEAN, ok : BOOLEAN]
BrowserRecords ==
  [at : Shown \cup {"get", "exchange", "whoami", "sync", "event", "signout", "delete"},
   path : GuestOnly \cup {"/dashboard"}, cookie : Cookies, hops : Nat, login : Logins \cup {None}]
SupaRecords == [uid : Nat, made : Nat, begun : 0 .. MaxLogins, trouble : 0 .. MaxTrouble,
                synced : SUBSET Logins, failed : SUBSET Logins]

SessTypes ==
  /\ supa \in SupaRecords /\ session \in [Logins -> SessionRecords] /\ user \in UserRows
  /\ mirror \in [Calls -> MirrorRecords] /\ browser \in [Browsers -> BrowserRecords]

\* A cookie that is behind its session is so because a newer one was dropped.
CookieFits(b) ==
  LET c == browser[b].cookie IN
  /\ c.old => c.login # None /\ c.gen < MaxGen
  /\ c.login # None =>
       c.login <= supa.begun /\ (Live(c.login) /\ c.gen # session[c.login].gen => session[c.login].dropped)

\* A login on its way is that of the cookie, from the exchange on.
LoginFits(b) ==
  /\ browser[b].login <= supa.begun
  /\ browser[b].at = "exchange" => browser[b].login # None
  /\ browser[b].at \in {"whoami", "sync", "event"} =>
       browser[b].login # None /\ browser[b].cookie.login = browser[b].login
  /\ browser[b].at = "event" => browser[b].login \in supa.synced

\* The redirects a page load may still meet.
Left(b) == IF browser[b].path = "/dashboard" THEN 1 ELSE IF UserOf(b) THEN 2 ELSE 0
HopsFit(b) ==
  browser[b].hops + (IF browser[b].at = "get" THEN Left(b) ELSE 0) <= 2 + 2 * supa.trouble

\* Browsers do not share logins.
OwnLogins ==
  \A a, b \in Browsers : a # b =>
    /\ browser[a].login # None => browser[a].login # browser[b].login
    /\ browser[a].cookie.login # None =>
         browser[a].cookie.login \notin {browser[b].login, browser[b].cookie.login}

SessionFits(l) ==
  /\ session[l].uid <= supa.made /\ (session[l].live => session[l].uid # None)
  /\ session[l].reused => session[l].dropped

\* What a call has read is what is there, unless another one saved since.
MirrorFits(c) ==
  /\ mirror[c].uid <= supa.made /\ (mirror[c].at \in Working => mirror[c].uid # None)
  /\ mirror[c].at = "save" /\ ~mirror[c].stale /\ mirror[c].uid = supa.uid =>
       mirror[c].read.token = user.token

RowFits == supa.uid <= supa.made /\ (supa.uid = None => ~user.there /\ user.token = None)

SessInv ==
  /\ SessTypes /\ RowFits /\ OwnLogins /\ LoggedMeansSynced
  /\ \A b \in Browsers : CookieFits(b) /\ LoginFits(b) /\ HopsFit(b)
  /\ \A l \in Logins : SessionFits(l)
  /\ \A c \in Calls : MirrorFits(c)

\* A session is as it was, but for what it loses.
Fades(l) ==
  Live(l)' => /\ Live(l) /\ session'[l].gen = session[l].gen /\ (session'[l].grace => session[l].grace)
              /\ (session[l].dropped => session'[l].dropped)

\* What the record sets are made of.
LEMMA SessFields ==
  ASSUME SessTypes
  PROVE  /\ supa.uid \in Nat /\ supa.made \in Nat /\ supa.begun \in Nat /\ supa.trouble \in Nat
         /\ \A l \in Logins : session[l] \in SessionRecords
         /\ \A c \in Calls : mirror[c] \in MirrorRecords
         /\ \A b \in Browsers :
              /\ browser[b] \in BrowserRecords /\ browser[b].cookie \in Cookies
              /\ browser[b].login \in Nat /\ browser[b].cookie.login \in Nat
              /\ browser[b].cookie.login # None => browser[b].cookie.login \in Logins
              /\ browser[b].hops \in Nat
<1>1. /\ supa.uid \in Nat /\ supa.made \in Nat /\ supa.begun \in Nat /\ supa.trouble \in Nat
  BY SessionsAssumption DEF SessTypes, SupaRecords
<1>2. Logins \subseteq Nat /\ None \in Nat
  BY SessionsAssumption DEF Logins, None
<1>3. /\ \A l \in Logins : session[l] \in SessionRecords
      /\ \A c \in Calls : mirror[c] \in MirrorRecords
      /\ \A b \in Browsers : browser[b] \in BrowserRecords
  BY DEF SessTypes
<1>4. \A b \in Browsers :
        /\ browser[b].cookie \in Cookies /\ browser[b].login \in Logins \cup {None}
        /\ browser[b].cookie.login \in Logins \cup {None} /\ browser[b].hops \in Nat
  BY <1>3 DEF BrowserRecords, Cookies
<1> QED BY <1>1, <1>2, <1>3, <1>4

\* Who is known: a fresh cookie, or one that can be refreshed.
LEMMA KnowsWhen ==
  ASSUME NEW c \in Cookies, NEW s \in SessionRecords, c.login # None => s = session[c.login]
  PROVE  Knows(c) <=> /\ c.login # None /\ Live(c.login)
                      /\ ~c.old \/ c.gen = s.gen \/ s.grace
<1>1. CASE c.login = None
  BY <1>1 DEF Knows
<1>2. CASE c.login # None /\ ~c.old
  BY <1>2 DEF Knows, Refreshed, Live
<1>3. CASE c.login # None /\ c.old /\ Live(c.login) /\ (c.gen = s.gen \/ s.grace)
  <2> DEFINE gen == IF c.gen = s.gen THEN s.gen + 1 ELSE s.gen
  <2>1. Refreshed(c).session = [s EXCEPT !.gen = gen, !.grace = TRUE]
    BY <1>3 DEF Refreshed
  <2> HIDE DEF gen
  <2>2. Refreshed(c).session.live = s.live
    BY <2>1 DEF SessionRecords
  <2> QED BY <1>3, <2>2 DEF Knows, Live
<1>4. CASE c.login # None /\ c.old /\ ~(Live(c.login) /\ (c.gen = s.gen \/ s.grace))
  <2>1. Refreshed(c).session = [s EXCEPT !.live = FALSE, !.reused = @ \/ Live(c.login)]
    BY <1>4 DEF Refreshed
  <2>2. Refreshed(c).session.live = FALSE
    BY <2>1 DEF SessionRecords
  <2> QED BY <1>4, <2>2 DEF Knows
<1> QED BY <1>1, <1>2, <1>3, <1>4

\* The same of the next state.
LEMMA KnowsNext ==
  ASSUME NEW c \in Cookies, NEW s \in SessionRecords, c.login # None => s = session'[c.login]
  PROVE  Knows(c)' <=> /\ c.login # None /\ Live(c.login)'
                       /\ ~c.old \/ c.gen = s.gen \/ s.grace
<1>1. CASE c.login = None
  BY <1>1 DEF Knows
<1>2. CASE c.login # None /\ ~c.old
  BY <1>2 DEF Knows, Refreshed, Live
<1>3. CASE c.login # None /\ c.old /\ Live(c.login)' /\ (c.gen = s.gen \/ s.grace)
  <2> DEFINE gen == IF c.gen = s.gen THEN s.gen + 1 ELSE s.gen
  <2>1. (Refreshed(c).session)' = [s EXCEPT !.gen = gen, !.grace = TRUE]
    BY <1>3 DEF Refreshed
  <2> HIDE DEF gen
  <2>2. (Refreshed(c).session.live)' = s.live
    BY <2>1 DEF SessionRecords
  <2> QED BY <1>3, <2>2 DEF Knows, Live
<1>4. CASE c.login # None /\ c.old /\ ~(Live(c.login)' /\ (c.gen = s.gen \/ s.grace))
  <2>1. (Refreshed(c).session)' = [s EXCEPT !.live = FALSE, !.reused = @ \/ Live(c.login)']
    BY <1>4 DEF Refreshed
  <2>2. (Refreshed(c).session.live)' = FALSE
    BY <2>1 DEF SessionRecords
  <2> QED BY <1>4, <2>2 DEF Knows
<1> QED BY <1>1, <1>2, <1>3, <1>4

\* What a refresh of a cookie c and its session s gives.
RefreshGives(c, s, fs, fc) ==
  /\ fs \in SessionRecords /\ fc \in Cookies /\ fs.uid = s.uid /\ fs.dropped = s.dropped
  /\ (fs.live => s.live) /\ (fc = c \/ fc = NoCookie \/ (fc.login = c.login /\ ~fc.old))
  /\ fs.reused => s.reused \/ s.dropped
  /\ fs.live /\ ~Knows(c) => ~Live(c.login)
  /\ fs.live /\ fc.login # None => fc.gen = fs.gen \/ (~c.old /\ fs = s /\ fc = c)
  /\ fs.live /\ fc = c => fs = s

\* A refresh: the session loses at most, and the cookie that comes back fits it.
LEMMA RefreshFits ==
  ASSUME SessInv, NEW b \in Browsers, NEW c \in Cookies, c = browser[b].cookie, c.login # None,
         NEW s \in SessionRecords, s = session[c.login],
         NEW fs, NEW fc, Refreshed(c) = [session |-> fs, cookie |-> fc]
  PROVE  RefreshGives(c, s, fs, fc)
<1>1. /\ c.login \in Logins /\ c.gen \in 0 .. MaxGen /\ c.old \in BOOLEAN
      /\ (c.old => c.gen < MaxGen)
      /\ (Live(c.login) /\ c.gen # s.gen => s.dropped)
      /\ s.gen \in 0 .. MaxGen /\ MaxGen \in Nat
  BY SessionsAssumption DEF SessInv, CookieFits, Cookies, SessionRecords
<1>2. NoCookie \in Cookies /\ NoCookie.login = None
  BY <1>1 DEF NoCookie, Cookies
<1>3. CASE ~c.old
  <2>1. fs = s /\ fc = c
    BY <1>3 DEF Refreshed
  <2>2. Knows(c) <=> Live(c.login)
    BY <1>1, <1>3, KnowsWhen
  <2> QED BY <1>3, <2>1, <2>2 DEF RefreshGives
<1>4. CASE c.old /\ Live(c.login) /\ (c.gen = s.gen \/ s.grace)
  <2> DEFINE gen == IF c.gen = s.gen THEN s.gen + 1 ELSE s.gen
  <2>1. /\ fs = [s EXCEPT !.gen = gen, !.grace = TRUE] /\ fc = [c EXCEPT !.gen = gen, !.old = FALSE]
    BY <1>4 DEF Refreshed
  <2>2. gen \in 0 .. MaxGen
    BY <1>1, <1>4
  <2>3. Knows(c)
    BY <1>1, <1>4, KnowsWhen
  <2> HIDE DEF gen
  <2>4. /\ fs \in SessionRecords /\ fs.uid = s.uid /\ fs.dropped = s.dropped /\ fs.live = s.live
        /\ fs.reused = s.reused /\ fs.gen = gen
    BY <2>1, <2>2 DEF SessionRecords
  <2>5. fc \in Cookies /\ fc.gen = gen /\ fc.login = c.login /\ fc.old = FALSE
    BY <2>1, <2>2 DEF Cookies
  <2>6. fc # c
    BY <1>4, <2>5
  <2> QED BY <1>4, <2>3, <2>4, <2>5, <2>6 DEF RefreshGives
<1>5. CASE c.old /\ ~(Live(c.login) /\ (c.gen = s.gen \/ s.grace))
  <2> DEFINE r == s.reused \/ Live(c.login)
  <2>1. fs = [s EXCEPT !.live = FALSE, !.reused = r] /\ fc = NoCookie
    BY <1>5 DEF Refreshed
  <2>2. r \in BOOLEAN /\ (r => s.reused \/ s.dropped)
    BY <1>1, <1>5 DEF SessionRecords
  <2> HIDE DEF r
  <2>3. /\ fs \in SessionRecords /\ fs.uid = s.uid /\ fs.dropped = s.dropped /\ fs.live = FALSE
        /\ fs.reused = r
    BY <2>1, <2>2 DEF SessionRecords
  <2> QED BY <1>2, <2>1, <2>2, <2>3 DEF RefreshGives
<1> QED BY <1>3, <1>4, <1>5

\* A browser whose session fades at most still fits.
LEMMA BrowserStays ==
  ASSUME SessInv, NEW a \in Browsers, browser'[a] = browser[a],
         supa' \in SupaRecords, supa'.begun >= supa.begun, supa'.trouble >= supa.trouble,
         supa.synced \subseteq supa'.synced, session' \in [Logins -> SessionRecords],
         browser[a].cookie.login # None => Fades(browser[a].cookie.login)
  PROVE  CookieFits(a)' /\ LoginFits(a)' /\ HopsFit(a)'
<1>1. PICK c : c = browser[a].cookie
  OBVIOUS
<1> DEFINE s == session[c.login]
           t == session'[c.login]
<1>2. /\ CookieFits(a) /\ LoginFits(a) /\ HopsFit(a)
      /\ c \in Cookies /\ browser[a].hops \in Nat /\ supa.begun \in Nat /\ supa.trouble \in Nat
      /\ c.login \in Nat /\ browser[a].login \in Nat /\ (c.login # None => c.login \in Logins)
  BY <1>1, SessFields DEF SessInv
<1>3. supa'.begun \in Nat /\ supa'.trouble \in Nat
  BY SessionsAssumption DEF SupaRecords
<1>4. c.login # None => Fades(c.login) /\ s \in SessionRecords /\ t \in SessionRecords
  BY <1>1, <1>2, SessFields DEF SessInv
<1>5. CookieFits(a)'
  BY <1>1, <1>2, <1>3, <1>4 DEF CookieFits, Fades
<1>6. LoginFits(a)'
  BY <1>2, <1>3 DEF LoginFits
<1>7. UserOf(a)' => UserOf(a)
  <2>1. c.login = None => ~Knows(c)'
    BY DEF Knows
  <2>2. ASSUME c.login # None
        PROVE  Knows(c)' => Knows(c)
    <3>1. Knows(c) <=> Live(c.login) /\ (~c.old \/ c.gen = s.gen \/ s.grace)
      BY <1>2, <1>4, <2>2, KnowsWhen
    <3>2. Knows(c)' <=> Live(c.login)' /\ (~c.old \/ c.gen = t.gen \/ t.grace)
      BY <1>2, <1>4, <2>2, KnowsNext
    <3> QED BY <1>4, <2>2, <3>1, <3>2 DEF Fades
  <2> QED BY <1>1, <2>1, <2>2 DEF UserOf
<1>8. HopsFit(a)'
  BY <1>2, <1>3, <1>7 DEF HopsFit, Left
<1> QED BY <1>5, <1>6, <1>8

\* A browser's step: the others' sessions fade at most, and it keeps to its logins.
LEMMA OneBrowserMoves ==
  ASSUME SessInv, NEW b \in Browsers, NEW new \in BrowserRecords, browser' = [browser EXCEPT ![b] = new],
         supa' \in SupaRecords, supa'.begun >= supa.begun, supa'.trouble >= supa.trouble,
         supa.synced \subseteq supa'.synced, session' \in [Logins -> SessionRecords],
         \A l \in Logins : l \notin {browser[b].login, browser[b].cookie.login} => Fades(l),
         new.login = browser[b].login \/ new.login > supa.begun,
         new.cookie.login \in {None, browser[b].login, browser[b].cookie.login},
         CookieFits(b)', LoginFits(b)', HopsFit(b)'
  PROVE  /\ \A a \in Browsers : CookieFits(a)' /\ LoginFits(a)' /\ HopsFit(a)'
         /\ OwnLogins'
<1>1. SessTypes /\ OwnLogins /\ \A a \in Browsers : CookieFits(a) /\ LoginFits(a) /\ HopsFit(a)
  BY DEF SessInv
<1>2. /\ browser'[b] = new /\ \A a \in Browsers : a # b => browser'[a] = browser[a]
      /\ supa'.begun \in Nat /\ supa'.trouble \in Nat /\ new.login \in Nat
  BY <1>1, SessionsAssumption DEF SessTypes, SupaRecords, BrowserRecords, Logins, None
<1>3. \A a \in Browsers : browser[a].login \in Nat /\ browser[a].cookie.login \in Nat
  BY <1>1, SessFields
<1>4. ASSUME NEW a \in Browsers, a # b
      PROVE  CookieFits(a)' /\ LoginFits(a)' /\ HopsFit(a)'
  <2>1. browser'[a] = browser[a]
    BY <1>2, <1>4
  <2>2. browser[a].cookie.login # None => Fades(browser[a].cookie.login)
    BY <1>1, <1>4, SessFields DEF OwnLogins
  <2> QED BY <2>1, <2>2, BrowserStays
<1>5. OwnLogins'
  <2> SUFFICES ASSUME NEW x \in Browsers, NEW y \in Browsers, x # y
               PROVE  /\ browser'[x].login # None => browser'[x].login # browser'[y].login
                      /\ browser'[x].cookie.login # None =>
                           browser'[x].cookie.login \notin {browser'[y].login, browser'[y].cookie.login}
    BY DEF OwnLogins
  <2>1. /\ browser[x].login # None => browser[x].login # browser[y].login
        /\ browser[x].cookie.login # None =>
             browser[x].cookie.login \notin {browser[y].login, browser[y].cookie.login}
        /\ browser[y].login # None => browser[y].login # browser[x].login
        /\ browser[y].cookie.login # None =>
             browser[y].cookie.login \notin {browser[x].login, browser[x].cookie.login}
    BY <1>1 DEF OwnLogins
  <2>2. /\ browser[x].login <= supa.begun /\ browser[y].login <= supa.begun
        /\ browser[x].cookie.login # None => browser[x].cookie.login <= supa.begun
        /\ browser[y].cookie.login # None => browser[y].cookie.login <= supa.begun
        /\ supa.begun \in Nat /\ None = 0
    BY <1>1, SessFields DEF LoginFits, CookieFits, None
  <2>3. CASE x = b
    BY <1>2, <1>3, <2>1, <2>2, <2>3
  <2>4. CASE y = b
    BY <1>2, <1>3, <2>1, <2>2, <2>4
  <2>5. CASE x # b /\ y # b
    BY <1>2, <2>1, <2>5
  <2> QED BY <2>3, <2>4, <2>5
<1> QED BY <1>1, <1>4, <1>5

\* The counters of Supabase and of the record only grow; the account stays.
SupaGrows ==
  /\ supa' \in SupaRecords /\ supa'.uid = supa.uid /\ supa'.made = supa.made
  /\ supa'.begun >= supa.begun /\ supa'.trouble >= supa.trouble /\ supa.synced \subseteq supa'.synced

\* Where the account, the row and the calls stay, the calls still fit.
LEMMA CallsStay ==
  ASSUME SessInv, mirror' = mirror, user' = user, supa'.uid = supa.uid, supa'.made = supa.made
  PROVE  mirror' \in [Calls -> MirrorRecords] /\ \A c \in Calls : MirrorFits(c)'
BY DEF SessInv, SessTypes, MirrorFits

\* The account and its row stay, a browser moves on.
LEMMA SessStep ==
  ASSUME SessInv, NEW b \in Browsers, NEW new \in BrowserRecords, browser' = [browser EXCEPT ![b] = new],
         SupaGrows, user' = user, session' \in [Logins -> SessionRecords],
         \A l \in Logins : l \notin {browser[b].login, browser[b].cookie.login} => Fades(l),
         new.login = browser[b].login \/ new.login > supa.begun,
         new.cookie.login \in {None, browser[b].login, browser[b].cookie.login},
         CookieFits(b)', LoginFits(b)', HopsFit(b)',
         mirror' \in [Calls -> MirrorRecords], \A c \in Calls : MirrorFits(c)',
         \A l \in Logins : SessionFits(l)', logged' \subseteq supa'.synced
  PROVE  SessInv'
<1>1. (\A a \in Browsers : CookieFits(a)' /\ LoginFits(a)' /\ HopsFit(a)') /\ OwnLogins'
  BY OneBrowserMoves DEF SupaGrows
<1>2. SessTypes'
  BY DEF SessInv, SessTypes, SupaGrows
<1>3. RowFits' /\ LoggedMeansSynced'
  BY DEF SessInv, RowFits, LoggedMeansSynced, SupaGrows
<1> QED BY <1>1, <1>2, <1>3 DEF SessInv

\* Only sessions move, and they fade.
LEMMA Fading ==
  ASSUME SessInv, browser' = browser, SupaGrows, user' = user, mirror' = mirror, logged' = logged,
         session' \in [Logins -> SessionRecords],
         \A l \in Logins : Fades(l) /\ SessionFits(l)'
  PROVE  SessInv'
<1>1. SessTypes /\ OwnLogins /\ LoggedMeansSynced /\ RowFits
  BY DEF SessInv
<1>2. ASSUME NEW a \in Browsers
      PROVE  CookieFits(a)' /\ LoginFits(a)' /\ HopsFit(a)'
  <2>1. browser[a].cookie.login # None => Fades(browser[a].cookie.login)
    BY <1>1, SessFields
  <2> QED BY <2>1, BrowserStays DEF SupaGrows
<1>3. SessTypes' /\ \A c \in Calls : MirrorFits(c)'
  BY <1>1, CallsStay DEF SessTypes, SupaGrows
<1>4. RowFits' /\ LoggedMeansSynced' /\ OwnLogins'
  BY <1>1 DEF RowFits, LoggedMeansSynced, OwnLogins, SupaGrows
<1> QED BY <1>2, <1>3, <1>4 DEF SessInv

\* Only the page of a browser moves on.
LEMMA Staying ==
  ASSUME SessInv, NEW b \in Browsers, NEW new \in BrowserRecords, browser' = [browser EXCEPT ![b] = new],
         SupaGrows, user' = user, session' = session,
         new.login = browser[b].login \/ new.login > supa.begun, new.cookie = browser[b].cookie,
         LoginFits(b)', HopsFit(b)',
         mirror' \in [Calls -> MirrorRecords], \A c \in Calls : MirrorFits(c)', logged' \subseteq supa'.synced
  PROVE  SessInv'
<1>1. \A l \in Logins : Fades(l)
  BY DEF Fades, Live, SupaGrows
<1>2. \A l \in Logins : SessionFits(l)'
  BY DEF SessInv, SessionFits, SupaGrows
<1>3. browser'[b] = new /\ CookieFits(b) /\ supa.begun \in Nat
      /\ browser[b].cookie.login \in Nat
  BY SessFields DEF SessInv, SessTypes
<1>4. CookieFits(b)'
  BY <1>3 DEF CookieFits, Live, SupaGrows, SupaRecords
<1>5. session' \in [Logins -> SessionRecords]
  BY DEF SessInv, SessTypes
<1> QED BY <1>1, <1>2, <1>4, <1>5, SessStep

\* A browser asks for another page.
LEMMA Going ==
  ASSUME SessInv, NEW b \in Browsers, NEW path \in GuestOnly \cup {"/dashboard"}, browser' = Go(b, path),
         SupaGrows, user' = user, session' = session,
         mirror' \in [Calls -> MirrorRecords], \A c \in Calls : MirrorFits(c)', logged' \subseteq supa'.synced
  PROVE  SessInv'
<1> DEFINE new == [browser[b] EXCEPT !.at = "get", !.path = path, !.hops = 0]
<1>1. browser' = [browser EXCEPT ![b] = new] /\ browser[b] \in BrowserRecords /\ browser[b].login \in Nat
      /\ LoginFits(b)
  BY SessFields DEF Go, SessInv, SessTypes
<1>2. /\ new \in BrowserRecords /\ new.at = "get" /\ new.hops = 0 /\ new.login = browser[b].login
      /\ new.cookie = browser[b].cookie
  BY <1>1 DEF BrowserRecords
<1> HIDE DEF new
<1>3. browser'[b] = new
  BY <1>1 DEF SessInv, SessTypes
<1>4. supa'.trouble \in Nat /\ supa'.begun \in Nat /\ supa.begun \in Nat
  BY SessionsAssumption, SessFields DEF SupaGrows, SupaRecords, SessInv
<1>5. HopsFit(b)'
  BY <1>2, <1>3, <1>4 DEF HopsFit, Left
<1>6. LoginFits(b)'
  BY <1>1, <1>2, <1>3, <1>4 DEF LoginFits, SupaGrows
<1> QED BY <1>1, <1>2, <1>5, <1>6, Staying

\* One more trouble is met.
LEMMA MetGrows ==
  ASSUME SessInv, Trouble, NEW failed \in SUBSET Logins, supa' = [Met EXCEPT !.failed = failed]
  PROVE  SupaGrows /\ supa'.trouble = supa.trouble + 1 /\ supa'.synced = supa.synced
<1>1. supa \in SupaRecords
  BY DEF SessInv, SessTypes
<1> DEFINE n == supa.trouble + 1
<1>2. n \in 0 .. MaxTrouble /\ n >= supa.trouble /\ supa.begun >= supa.begun
  BY <1>1, SessionsAssumption DEF SupaRecords, Trouble
<1>3. supa' = [supa EXCEPT !.trouble = n, !.failed = failed]
  BY <1>1 DEF Met, SupaRecords
<1> HIDE DEF n
<1>4. /\ supa' \in SupaRecords /\ supa'.uid = supa.uid /\ supa'.made = supa.made
      /\ supa'.begun = supa.begun /\ supa'.trouble = n /\ supa'.synced = supa.synced
  BY <1>1, <1>2, <1>3 DEF SupaRecords
<1> QED BY <1>2, <1>4 DEF SupaGrows, n

\* The same, nothing recorded; and where nothing is met.
LEMMA MetOrNot ==
  ASSUME SessInv, (Trouble /\ supa' = Met) \/ supa' = supa
  PROVE  /\ SupaGrows /\ supa'.synced = supa.synced
         /\ supa'.trouble = IF supa' = supa THEN supa.trouble ELSE supa.trouble + 1
<1>1. supa \in SupaRecords /\ supa.trouble \in Nat /\ supa.begun \in Nat
  BY SessFields DEF SessInv, SessTypes
<1>2. Met = [Met EXCEPT !.failed = supa.failed] /\ supa.failed \in SUBSET Logins
  BY <1>1 DEF Met, SupaRecords
<1>3. CASE supa' = supa
  BY <1>1, <1>3 DEF SupaGrows
<1>4. CASE Trouble /\ supa' = Met /\ supa' # supa
  <2>1. supa' = [Met EXCEPT !.failed = supa.failed]
    BY <1>2, <1>4
  <2> QED BY <1>2, <1>4, <2>1, MetGrows
<1> QED BY <1>3, <1>4

\* A page is asked for, and getUser fails.
LEMMA LoadsKeep ==
  ASSUME SessInv, NEW b \in Browsers, Visit(b) \/ UserUnknown(b)
  PROVE  SessInv'
<1> DEFINE old == browser[b]
<1>1. /\ old \in BrowserRecords /\ LoginFits(b) /\ HopsFit(b) /\ old.hops \in Nat /\ supa.trouble \in Nat
      /\ LoggedMeansSynced /\ browser \in [Browsers -> BrowserRecords] /\ supa.begun \in Nat
      /\ old.login \in Nat
  BY SessFields DEF SessInv, SessTypes
<1>2. SupaGrows /\ supa'.synced = supa.synced /\ user' = user /\ session' = session /\ logged' = logged
      /\ mirror' = mirror
  BY MetOrNot DEF Visit, UserUnknown
<1>3. mirror' \in [Calls -> MirrorRecords] /\ \A c \in Calls : MirrorFits(c)'
  BY <1>2, CallsStay DEF SupaGrows
<1>4. logged' \subseteq supa'.synced
  BY <1>1, <1>2 DEF LoggedMeansSynced
<1>5. CASE Visit(b)
  <2>1. PICK path \in GuestOnly \cup {"/dashboard"} : browser' = Go(b, path)
    BY <1>5 DEF Visit
  <2> QED BY <1>2, <1>3, <1>4, <2>1, Going
<1>6. ASSUME UserUnknown(b), NEW new \in BrowserRecords, browser' = [browser EXCEPT ![b] = new],
             new.cookie = old.cookie, new.login = old.login, new.at \in Shown \cup {"get"},
             HopsFit(b)'
      PROVE  SessInv'
  <2>1. browser'[b] = new /\ supa'.begun >= supa.begun /\ supa'.begun \in Nat
    BY <1>1, <1>2, <1>6, SessionsAssumption DEF SupaGrows, SupaRecords
  <2>2. LoginFits(b)'
    BY <1>1, <1>6, <2>1 DEF LoginFits, Shown
  <2> QED BY <1>2, <1>3, <1>4, <1>6, <2>2, Staying
<1>7. CASE UserUnknown(b)
  <2>0. supa'.trouble \in Nat /\ supa'.trouble >= supa.trouble
    BY <1>1, <1>2, SessionsAssumption DEF SupaGrows, SupaRecords
  <2>1. CASE old.path = "/dashboard"
    <3> DEFINE n == old.hops + 1
               new == [old EXCEPT !.path = "/login", !.hops = n]
    <3>0. /\ browser' = [browser EXCEPT ![b].path = "/login", ![b].hops = n] /\ old.at = "get"
          /\ n \in Nat
      BY <1>1, <1>7, <2>1 DEF UserUnknown, Redirect
    <3> HIDE DEF n
    <3>1. browser' = [browser EXCEPT ![b] = new] /\ old.at = "get" /\ n \in Nat
      BY <1>1, <3>0
    <3>2. /\ new \in BrowserRecords /\ new.at = "get" /\ new.hops = n /\ new.login = old.login
          /\ new.cookie = old.cookie
      BY <1>1, <3>1 DEF BrowserRecords, GuestOnly
    <3> HIDE DEF new
    <3>3. browser'[b] = new /\ supa' = Met
      BY <1>1, <1>7, <3>1 DEF UserUnknown
    <3>4. supa'.trouble = supa.trouble + 1
      BY <1>1, <3>3 DEF Met, SessInv, SessTypes, SupaRecords
    <3>5. n + 2 <= 2 + 2 * supa'.trouble
      BY <1>1, <2>1, <3>1, <3>4 DEF HopsFit, Left, n
    <3>6. HopsFit(b)'
      BY <2>0, <3>1, <3>2, <3>3, <3>5 DEF HopsFit, Left
    <3> QED BY <1>6, <1>7, <3>1, <3>2, <3>6
  <2>2. CASE old.path # "/dashboard"
    <3> DEFINE at == IF old.path = "/" THEN "landing" ELSE "login"
               new == [old EXCEPT !.at = at]
    <3>1. browser' = [browser EXCEPT ![b] = new] /\ at \in Shown /\ old.at = "get" /\ at # "get"
      BY <1>1, <1>7, <2>2 DEF UserUnknown, Shown
    <3> HIDE DEF at
    <3>2. /\ new \in BrowserRecords /\ new.at = at /\ new.hops = old.hops /\ new.login = old.login
          /\ new.cookie = old.cookie
      BY <1>1, <3>1 DEF BrowserRecords
    <3> HIDE DEF new
    <3>3. browser'[b] = new
      BY <1>1, <3>1
    <3>4. old.hops <= 2 + 2 * supa.trouble
      BY <1>1, <3>1 DEF HopsFit, Left
    <3>5. HopsFit(b)'
      BY <1>1, <2>0, <3>1, <3>2, <3>3, <3>4 DEF HopsFit
    <3> QED BY <1>6, <1>7, <3>1, <3>2, <3>5
  <2> QED BY <2>1, <2>2
<1> QED BY <1>5, <1>7

\* A refresh gives a session and a cookie.
LEMMA RefreshIsPair ==
  ASSUME NEW c
  PROVE  Refreshed(c) = [session |-> Refreshed(c).session, cookie |-> Refreshed(c).cookie]
BY DEF Refreshed

\* A browser b goes on as new, its cookie c refreshed: the session becomes ns, and
\* what the refresh gave of the cookie is written, or dropped for the record.
RefreshStep(b, c, fs, fc, ns, new) ==
  /\ c = browser[b].cookie /\ c.login # None /\ Refreshed(c) = [session |-> fs, cookie |-> fc]
  /\ session' = [session EXCEPT ![c.login] = ns]
  /\ new \in BrowserRecords /\ browser' = [browser EXCEPT ![b] = new] /\ new.login = browser[b].login
  /\ UNCHANGED <<supa, user, mirror, logged>>
  /\ \/ ns = fs /\ new.cookie = fc
     \/ ns = [fs EXCEPT !.dropped = @ \/ fc # c] /\ new.cookie = c
  /\ LoginFits(b)' /\ HopsFit(b)'

\* A step that only refreshes keeps the invariant of the sessions.
LEMMA RefreshMoves ==
  ASSUME SessInv, NEW b \in Browsers, NEW c, NEW fs, NEW fc, NEW ns, NEW new,
         RefreshStep(b, c, fs, fc, ns, new)
  PROVE  SessInv'
<1> USE DEF RefreshStep
<1>1. PICK s : s = session[c.login]
  OBVIOUS
<1>2. /\ s \in SessionRecords /\ c \in Cookies /\ c.login \in Logins /\ SessionFits(c.login)
      /\ CookieFits(b) /\ session \in [Logins -> SessionRecords] /\ c.login \in Nat
      /\ supa \in SupaRecords /\ supa.begun \in Nat /\ supa.trouble \in Nat
  BY <1>1, SessFields DEF SessInv, SessTypes
<1>0. RefreshGives(c, s, fs, fc)
  BY <1>1, <1>2, RefreshFits
<1>3. /\ fs \in SessionRecords /\ fc \in Cookies /\ fs.uid = s.uid /\ fs.dropped = s.dropped
      /\ (fs.live => s.live) /\ (fc = c \/ fc = NoCookie \/ (fc.login = c.login /\ ~fc.old))
      /\ fs.reused => s.reused \/ s.dropped
      /\ fs.live /\ fc.login # None => fc.gen = fs.gen \/ (~c.old /\ fs = s /\ fc = c)
      /\ fs.live /\ fc = c => fs = s
  BY <1>0 DEF RefreshGives
<1>4. /\ ns \in SessionRecords /\ ns.live = fs.live /\ ns.gen = fs.gen /\ ns.uid = fs.uid
      /\ ns.reused = fs.reused /\ (fs.dropped => ns.dropped)
      /\ (ns = fs /\ new.cookie = fc) \/ (new.cookie = c /\ (fc # c => ns.dropped))
  BY <1>3 DEF SessionRecords
<1>5. /\ session' \in [Logins -> SessionRecords] /\ session'[c.login] = ns
      /\ \A l \in Logins : l # c.login => session'[l] = session[l]
  BY <1>2, <1>4
<1>6. SupaGrows
  BY <1>2 DEF SupaGrows
<1>7. \A l \in Logins : l \notin {browser[b].login, browser[b].cookie.login} => Fades(l)
  BY <1>5 DEF Fades, Live
<1>8. \A l \in Logins : SessionFits(l)'
  <2>1. SessionFits(c.login)'
    BY <1>1, <1>2, <1>3, <1>4, <1>5 DEF SessionFits
  <2>2. \A l \in Logins : l # c.login => SessionFits(l)'
    BY <1>5 DEF SessInv, SessionFits
  <2> QED BY <2>1, <2>2
<1>9. NoCookie.login = None /\ NoCookie.old = FALSE
  BY DEF NoCookie
<1>10. new.cookie.login \in {None, c.login} /\ (new.cookie.old => new.cookie = c)
  BY <1>3, <1>4, <1>9
<1>11. new.cookie.login # None => new.cookie.login = c.login
  BY <1>10
<1>12. browser'[b] = new
  BY DEF SessInv, SessTypes
<1>13. Live(c.login)' => Live(c.login) /\ fs.live
  BY <1>1, <1>2, <1>3, <1>4, <1>5 DEF Live
<1>14. /\ c.old => c.login # None /\ c.gen < MaxGen
       /\ c.login <= supa.begun /\ (Live(c.login) /\ c.gen # s.gen => s.dropped)
  BY <1>1, <1>2 DEF CookieFits
<1>15. ASSUME Live(c.login)', new.cookie.login # None, new.cookie.gen # ns.gen
       PROVE  ns.dropped
  <2>1. CASE ns = fs /\ new.cookie = fc
    BY <1>3, <1>4, <1>13, <1>14, <1>15, <2>1
  <2>2. CASE new.cookie = c /\ fc # c
    BY <1>4, <1>3, <2>2
  <2>3. CASE new.cookie = c /\ fc = c
    BY <1>3, <1>4, <1>13, <1>14, <1>15, <2>3
  <2> QED BY <1>4, <2>1, <2>2, <2>3
<1>16. CookieFits(b)'
  BY <1>5, <1>10, <1>11, <1>12, <1>14, <1>15 DEF CookieFits
<1>17. mirror' \in [Calls -> MirrorRecords] /\ \A d \in Calls : MirrorFits(d)'
  BY <1>6, CallsStay DEF SupaGrows
<1>18. logged' \subseteq supa'.synced
  BY DEF SessInv, LoggedMeansSynced
<1> QED BY <1>5, <1>6, <1>7, <1>8, <1>10, <1>16, <1>17, <1>18, SessStep

\* A refresh whose cookie the proxy or the layout drops.
LEMMA UnwrittenKeeps ==
  ASSUME SessInv, NEW b \in Browsers, RefreshUnwritten(b), UNCHANGED <<supa, user, mirror, logged>>,
         NEW new \in BrowserRecords, browser' = [browser EXCEPT ![b] = new],
         new.login = browser[b].login, new.cookie = browser[b].cookie, LoginFits(b)', HopsFit(b)'
  PROVE  SessInv'
<1>1. PICK c : c = browser[b].cookie
  OBVIOUS
<1>2. supa \in SupaRecords /\ supa.begun \in Nat /\ supa.trouble \in Nat
  BY SessFields DEF SessInv, SessTypes
<1>3. SupaGrows
  BY <1>2 DEF SupaGrows
<1>4. CASE c.login = None
  <2>1. session' = session
    BY <1>1, <1>4 DEF RefreshUnwritten
  <2>2. mirror' \in [Calls -> MirrorRecords] /\ \A d \in Calls : MirrorFits(d)'
    BY <1>3, CallsStay DEF SupaGrows
  <2>3. logged' \subseteq supa'.synced
    BY DEF SessInv, LoggedMeansSynced
  <2> QED BY <1>3, <2>1, <2>2, <2>3, Staying
<1>5. CASE c.login # None
  <2>1. PICK fs, fc : Refreshed(c) = [session |-> fs, cookie |-> fc]
    BY RefreshIsPair
  <2>2. PICK ns : ns = [fs EXCEPT !.dropped = @ \/ fc # c]
    OBVIOUS
  <2>3. session' = [session EXCEPT ![c.login] = ns]
    BY <1>1, <1>5, <2>1, <2>2 DEF RefreshUnwritten
  <2>4. RefreshStep(b, c, fs, fc, ns, new)
    BY <1>1, <1>5, <2>1, <2>2, <2>3 DEF RefreshStep
  <2> QED BY <2>4, RefreshMoves
<1> QED BY <1>4, <1>5

\* Who is unknown stays so.
LEMMA UnknownStays ==
  ASSUME SessInv, NEW b \in Browsers, RefreshUnwritten(b), supa' = supa,
         browser'[b].cookie = browser[b].cookie, ~UserOf(b)
  PROVE  ~UserOf(b)'
<1>1. PICK c : c = browser[b].cookie
  OBVIOUS
<1>2. c.login # None => c.login \in Logins /\ session[c.login] \in SessionRecords
  BY <1>1, SessFields DEF SessInv
<1>3. CASE c.login = None
  BY <1>1, <1>3 DEF UserOf, Knows
<1>4. CASE c.login # None
  <2>1. PICK fs, fc : Refreshed(c) = [session |-> fs, cookie |-> fc]
    BY RefreshIsPair
  <2>2. PICK s \in SessionRecords : s = session[c.login]
    BY <1>2, <1>4
  <2>3. c \in Cookies /\ session \in [Logins -> SessionRecords]
    BY <1>1, SessFields DEF SessInv, SessTypes
  <2>4. /\ fs \in SessionRecords /\ fs.uid = s.uid /\ (fs.live => s.live)
        /\ (fs.live /\ ~Knows(c) => ~Live(c.login))
    <3>1. RefreshGives(c, s, fs, fc)
      BY <1>1, <1>4, <2>1, <2>2, <2>3, RefreshFits
    <3> QED BY <3>1 DEF RefreshGives
  <2>5. PICK ns : ns = [fs EXCEPT !.dropped = @ \/ fc # c]
    OBVIOUS
  <2>6. session'[c.login] = ns
    BY <1>1, <1>2, <1>4, <2>1, <2>3, <2>5 DEF RefreshUnwritten
  <2>7. ns.live = fs.live /\ ns.uid = fs.uid
    BY <2>4, <2>5 DEF SessionRecords
  <2>8. ~Knows(c)
    BY <1>1 DEF UserOf
  <2>9. ~Live(c.login)'
    BY <2>2, <2>4, <2>6, <2>7, <2>8 DEF Live
  <2> QED BY <1>1, <2>9 DEF UserOf, Knows
<1> QED BY <1>3, <1>4

\* The proxy and the layout let a browser in, or send it on.
LEMMA GatesKeep ==
  ASSUME SessInv, NEW b \in Browsers, Proxy(b) \/ Layout(b)
  PROVE  SessInv'
<1> DEFINE old == browser[b]
           n == old.hops + 1
<1>1. /\ old \in BrowserRecords /\ LoginFits(b) /\ HopsFit(b) /\ old.hops \in Nat /\ n \in Nat
      /\ supa.trouble \in Nat /\ browser \in [Browsers -> BrowserRecords]
  BY SessFields DEF SessInv, SessTypes
<1>2. old.at = "get" /\ RefreshUnwritten(b) /\ UNCHANGED <<supa, user, mirror, logged>>
  BY DEF Proxy, Layout
<1>3. old.hops + Left(b) <= 2 + 2 * supa.trouble
  BY <1>1, <1>2 DEF HopsFit
<1>4. ASSUME NEW at \in Shown, browser' = [browser EXCEPT ![b].at = at]
      PROVE  SessInv'
  <2> DEFINE new == [old EXCEPT !.at = at]
  <2>1. browser' = [browser EXCEPT ![b] = new] /\ at \notin {"get", "exchange", "whoami", "sync", "event"}
    BY <1>1, <1>4 DEF Shown
  <2>2. /\ new \in BrowserRecords /\ new.at = at /\ new.hops = old.hops /\ new.login = old.login
        /\ new.cookie = old.cookie
    BY <1>1, <1>4 DEF BrowserRecords
  <2> HIDE DEF new
  <2>3. browser'[b] = new
    BY <1>1, <2>1
  <2>4. old.hops <= 2 + 2 * supa.trouble
    BY <1>1, <1>3 DEF Left
  <2>5. HopsFit(b)' /\ LoginFits(b)'
    BY <1>1, <1>2, <2>1, <2>2, <2>3, <2>4 DEF HopsFit, LoginFits
  <2> QED BY <1>2, <2>1, <2>2, <2>5, UnwrittenKeeps
<1>5. ASSUME NEW path \in GuestOnly \cup {"/dashboard"}, browser' = Redirect(b, path),
             UserOf(b)' => UserOf(b) \/ path = "/dashboard",
             path = "/dashboard" => old.path \in GuestOnly /\ UserOf(b),
             path # "/dashboard" => old.path = "/dashboard" /\ ~UserOf(b)
      PROVE  SessInv'
  <2> DEFINE new == [old EXCEPT !.path = path, !.hops = n]
  <2>1. browser' = [browser EXCEPT ![b].path = path, ![b].hops = n]
    BY <1>5 DEF Redirect
  <2>2. n + (IF path = "/dashboard" THEN 1 ELSE 0) <= 2 + 2 * supa.trouble
    BY <1>1, <1>3, <1>5 DEF Left, GuestOnly
  <2> HIDE DEF n
  <2>3. browser' = [browser EXCEPT ![b] = new]
    BY <1>1, <2>1
  <2>4. /\ new \in BrowserRecords /\ new.at = "get" /\ new.hops = n /\ new.login = old.login
        /\ new.cookie = old.cookie /\ new.path = path
    BY <1>1, <1>2, <1>5 DEF BrowserRecords
  <2> HIDE DEF new
  <2>5. browser'[b] = new
    BY <1>1, <2>3
  <2>6. HopsFit(b)'
    BY <1>1, <1>2, <1>5, <2>2, <2>4, <2>5 DEF HopsFit, Left
  <2>7. LoginFits(b)'
    BY <1>1, <1>2, <2>4, <2>5 DEF LoginFits
  <2> QED BY <1>2, <2>3, <2>4, <2>6, <2>7, UnwrittenKeeps
<1>6. CASE Proxy(b)
  <2>1. CASE UserOf(b)
    <3>1. browser' = Redirect(b, "/dashboard") /\ old.path \in GuestOnly
      BY <1>6, <2>1 DEF Proxy
    <3> QED BY <1>5, <2>1, <3>1 DEF GuestOnly
  <2>2. CASE ~UserOf(b)
    <3> DEFINE at == IF old.path = "/" THEN "landing" ELSE "login"
    <3>1. browser' = [browser EXCEPT ![b].at = at] /\ at \in Shown
      BY <1>6, <2>2 DEF Proxy, Shown
    <3> HIDE DEF at
    <3> QED BY <1>4, <3>1
  <2> QED BY <2>1, <2>2
<1>7. CASE Layout(b)
  <2>1. CASE UserOf(b)
    <3>1. browser' = [browser EXCEPT ![b].at = "dashboard"] /\ "dashboard" \in Shown
      BY <1>7, <2>1 DEF Layout, Shown
    <3> QED BY <1>4, <3>1
  <2>2. CASE ~UserOf(b)
    <3>1. browser' = Redirect(b, "/login") /\ old.path = "/dashboard"
      BY <1>7, <2>2 DEF Layout
    <3>2. browser'[b].cookie = old.cookie
      BY <1>1, <3>1 DEF Redirect, BrowserRecords
    <3>3. ~UserOf(b)'
      BY <1>2, <2>2, <3>2, UnknownStays
    <3> QED BY <1>5, <2>2, <3>1, <3>3 DEF GuestOnly
  <2> QED BY <2>1, <2>2
<1> QED BY <1>6, <1>7

\* A refresh whose cookie is written.
LEMMA WrittenKeeps ==
  ASSUME SessInv, NEW b \in Browsers, UNCHANGED <<supa, user, mirror, logged>>,
         NEW at \in {"dashboard", "signout", "delete"}, browser[b].at = "dashboard",
         NEW c, c = browser[b].cookie,
         browser' = [browser EXCEPT ![b].at = at, ![b].cookie = Refreshed(c).cookie],
         session' = IF c.login = None THEN session
                    ELSE [session EXCEPT ![c.login] = Refreshed(c).session]
  PROVE  SessInv'
<1>1. PICK fs, fc : Refreshed(c) = [session |-> fs, cookie |-> fc]
  BY RefreshIsPair
<1> DEFINE old == browser[b]
           new == [old EXCEPT !.at = at, !.cookie = fc]
<1>2. /\ old \in BrowserRecords /\ LoginFits(b) /\ HopsFit(b) /\ CookieFits(b) /\ old.hops \in Nat
      /\ c \in Cookies /\ browser \in [Browsers -> BrowserRecords] /\ supa \in SupaRecords
      /\ (c.login # None => c.login \in Logins /\ session[c.login] \in SessionRecords)
      /\ supa.begun \in Nat /\ supa.trouble \in Nat /\ logged \subseteq supa.synced
  BY SessFields DEF SessInv, SessTypes, LoggedMeansSynced
<1>3. fc \in Cookies /\ (c.login = None => fc = c)
  <2>1. CASE c.login = None
    BY <1>1, <1>2, <2>1 DEF Refreshed, CookieFits
  <2>2. CASE c.login # None
    <3>1. PICK s \in SessionRecords : s = session[c.login]
      BY <1>2, <2>2
    <3>2. RefreshGives(c, s, fs, fc)
      BY <1>1, <1>2, <2>2, <3>1, RefreshFits
    <3> QED BY <2>2, <3>2 DEF RefreshGives
  <2> QED BY <2>1, <2>2
<1>4. browser' = [browser EXCEPT ![b] = new]
  <2>1. browser' = [browser EXCEPT ![b].at = at, ![b].cookie = fc]
    BY <1>1
  <2> QED BY <1>2, <2>1
<1>5. /\ new \in BrowserRecords /\ new.at = at /\ new.hops = old.hops /\ new.login = old.login
      /\ new.cookie = fc
  BY <1>2, <1>3 DEF BrowserRecords, Shown
<1> HIDE DEF new
<1>6. browser'[b] = new
  BY <1>2, <1>4
<1>7. HopsFit(b)' /\ LoginFits(b)'
  BY <1>2, <1>5, <1>6 DEF HopsFit, LoginFits
<1>8. SupaGrows
  BY <1>2 DEF SupaGrows
<1>9. CASE c.login = None
  <2>1. mirror' \in [Calls -> MirrorRecords] /\ \A d \in Calls : MirrorFits(d)'
    BY <1>8, CallsStay DEF SupaGrows
  <2> QED BY <1>2, <1>3, <1>4, <1>5, <1>7, <1>8, <1>9, <2>1, Staying
<1>10. CASE c.login # None
  <2>1. session' = [session EXCEPT ![c.login] = fs]
    BY <1>1, <1>10
  <2>2. RefreshStep(b, c, fs, fc, fs, new)
    BY <1>1, <1>4, <1>5, <1>7, <1>10, <2>1 DEF RefreshStep
  <2> QED BY <2>2, RefreshMoves
<1> QED BY <1>9, <1>10

\* The refreshes whose cookie is written.
LEMMA RefreshesKeep ==
  ASSUME SessInv, NEW b \in Browsers, BrowserRefreshes(b) \/ SignOut(b) \/ DeleteAccount(b)
  PROVE  SessInv'
<1>1. PICK c : c = browser[b].cookie
  OBVIOUS
<1>2. browser[b].at = "dashboard" /\ UNCHANGED <<supa, user, mirror, logged>>
  BY DEF BrowserRefreshes, SignOut, DeleteAccount
<1>3. browser \in [Browsers -> BrowserRecords] /\ CookieFits(b)
  BY DEF SessInv, SessTypes
<1>4. ASSUME NEW at, browser' = [browser EXCEPT ![b].at = at, ![b].cookie = Refreshed(c).cookie],
             at \in {"dashboard", "signout", "delete"},
             session' = IF c.login = None THEN session
                        ELSE [session EXCEPT ![c.login] = Refreshed(c).session]
      PROVE  SessInv'
  BY <1>1, <1>2, <1>4, WrittenKeeps
<1>5. CASE BrowserRefreshes(b)
  <2>1. c.login # None
    BY <1>1, <1>3, <1>5 DEF BrowserRefreshes, CookieFits
  <2>2. session' = [session EXCEPT ![c.login] = Refreshed(c).session]
    BY <1>1, <1>5 DEF BrowserRefreshes
  <2>3. browser' = [browser EXCEPT ![b].at = "dashboard", ![b].cookie = Refreshed(c).cookie]
    <3>1. browser' = [browser EXCEPT ![b].cookie = Refreshed(c).cookie]
      BY <1>1, <1>5 DEF BrowserRefreshes
    <3>2. PICK fc : fc = Refreshed(c).cookie
      OBVIOUS
    <3>3. [browser EXCEPT ![b].cookie = fc] = [browser EXCEPT ![b].at = "dashboard", ![b].cookie = fc]
      BY <1>2, <1>3 DEF BrowserRecords
    <3> QED BY <3>1, <3>2, <3>3
  <2> QED BY <1>4, <2>1, <2>2, <2>3
<1>6. CASE SignOut(b)
  BY <1>1, <1>4, <1>6 DEF SignOut
<1>7. CASE DeleteAccount(b)
  <2>1. PICK at : at = IF Refreshed(c).cookie = NoCookie THEN "dashboard" ELSE "delete"
    OBVIOUS
  <2>2. browser' = [browser EXCEPT ![b].at = at, ![b].cookie = Refreshed(c).cookie]
    BY <1>1, <1>7, <2>1 DEF DeleteAccount
  <2> QED BY <1>1, <1>4, <1>7, <2>1, <2>2 DEF DeleteAccount
<1> QED BY <1>5, <1>6, <1>7

\* An access token ages, a session's grace ends.
LEMMA AgesKeep ==
  ASSUME SessInv, (\E b \in Browsers : TokenAges(b)) \/ (\E l \in Logins : GraceEnds(l))
  PROVE  SessInv'
<1>1. SessTypes /\ supa.begun \in Nat /\ supa.trouble \in Nat /\ supa \in SupaRecords /\ LoggedMeansSynced
  BY SessFields DEF SessInv, SessTypes
<1>2. ASSUME NEW b \in Browsers, TokenAges(b)
      PROVE  SessInv'
  <2>1. PICK c : c = browser[b].cookie
    OBVIOUS
  <2>2. PICK d : d = [c EXCEPT !.old = TRUE]
    OBVIOUS
  <2> DEFINE old == browser[b]
             new == [old EXCEPT !.cookie = d]
  <2>3. /\ old \in BrowserRecords /\ c \in Cookies /\ browser \in [Browsers -> BrowserRecords]
        /\ CookieFits(b) /\ LoginFits(b) /\ HopsFit(b) /\ old.hops \in Nat
        /\ (c.login # None => c.login \in Logins /\ session[c.login] \in SessionRecords)
        /\ c.login # None /\ ~c.old /\ c.gen < MaxGen /\ UNCHANGED <<supa, session, user, mirror, logged>>
    BY <1>1, <1>2, <2>1, SessFields DEF SessInv, SessTypes, TokenAges
  <2>4. d \in Cookies /\ d.login = c.login /\ d.gen = c.gen /\ d.old
    BY <2>2, <2>3 DEF Cookies
  <2>5. browser' = [browser EXCEPT ![b] = new]
    <3>1. browser' = [browser EXCEPT ![b].cookie.old = TRUE]
      BY <1>2 DEF TokenAges
    <3> QED BY <2>1, <2>2, <2>3, <3>1
  <2>6. /\ new \in BrowserRecords /\ new.cookie = d /\ new.login = old.login /\ new.at = old.at
        /\ new.hops = old.hops /\ new.path = old.path
    BY <2>3, <2>4 DEF BrowserRecords
  <2> HIDE DEF new
  <2>7. browser'[b] = new
    BY <2>3, <2>5
  <2>8. SupaGrows /\ mirror' \in [Calls -> MirrorRecords] /\ \A e \in Calls : MirrorFits(e)'
    <3>1. SupaGrows
      BY <1>1, <2>3 DEF SupaGrows
    <3> QED BY <2>3, <3>1, CallsStay DEF SupaGrows
  <2>9. session' \in [Logins -> SessionRecords] /\ \A l \in Logins : Fades(l) /\ SessionFits(l)'
    BY <1>1, <2>3 DEF SessInv, SessTypes, Fades, Live, SessionFits
  <2>10. CookieFits(b)' /\ LoginFits(b)'
    BY <2>1, <2>3, <2>4, <2>6, <2>7 DEF CookieFits, LoginFits, Live
  <2>11. Knows(d)' => Knows(c)
    <3>1. PICK s \in SessionRecords : s = session[c.login]
      BY <2>3
    <3>2. Knows(c) <=> c.login # None /\ Live(c.login) /\ (~c.old \/ c.gen = s.gen \/ s.grace)
      BY <2>3, <3>1, KnowsWhen
    <3>3. Knows(d)' => Live(d.login)'
      BY <2>4 DEF Knows
    <3> QED BY <2>3, <2>4, <3>2, <3>3 DEF Live
  <2>12. HopsFit(b)'
    <3>1. UserOf(b)' => UserOf(b)
      BY <2>1, <2>6, <2>7, <2>11 DEF UserOf
    <3> QED BY <1>1, <2>3, <2>6, <2>7, <3>1 DEF HopsFit, Left
  <2>13. logged' \subseteq supa'.synced
    BY <1>1, <2>3 DEF LoggedMeansSynced
  <2> QED BY <2>1, <2>3, <2>4, <2>5, <2>6, <2>8, <2>9, <2>10, <2>12, <2>13, SessStep
<1>3. ASSUME NEW l \in Logins, GraceEnds(l)
      PROVE  SessInv'
  <2>1. PICK s \in SessionRecords : s = session[l] /\ SessionFits(l)
    BY <1>1 DEF SessInv, SessTypes
  <2>2. PICK t : t = [s EXCEPT !.grace = FALSE]
    OBVIOUS
  <2>3. /\ t \in SessionRecords /\ t.live = s.live /\ t.uid = s.uid /\ t.gen = s.gen /\ t.grace = FALSE
        /\ t.dropped = s.dropped /\ t.reused = s.reused
    BY <2>2 DEF SessionRecords
  <2>4. session' = [session EXCEPT ![l] = t] /\ UNCHANGED <<supa, user, mirror, browser, logged>>
    BY <1>3, <2>1, <2>2 DEF GraceEnds
  <2>5. session' \in [Logins -> SessionRecords] /\ session'[l] = t
    BY <1>1, <2>3, <2>4 DEF SessTypes
  <2>6. SupaGrows
    BY <1>1, <2>4 DEF SupaGrows
  <2>7. ASSUME NEW k \in Logins
        PROVE  Fades(k) /\ SessionFits(k)'
    <3>1. CASE k = l
      BY <2>1, <2>3, <2>4, <2>5, <3>1 DEF Fades, Live, SessionFits
    <3>2. CASE k # l
      BY <1>1, <2>4, <3>2 DEF Fades, Live, SessionFits, SessInv, SessTypes
    <3> QED BY <3>1, <3>2
  <2> QED BY <2>4, <2>5, <2>6, <2>7, Fading
<1> QED BY <1>2, <1>3

\* A login begins: it is nobody's yet.
LEMMA SignInKeeps ==
  ASSUME SessInv, NEW b \in Browsers, SignIn(b)
  PROVE  SessInv'
<1> DEFINE old == browser[b]
           n == supa.begun + 1
           new == [old EXCEPT !.at = "exchange", !.login = n]
<1>1. /\ old \in BrowserRecords /\ LoginFits(b) /\ HopsFit(b) /\ browser \in [Browsers -> BrowserRecords]
      /\ supa \in SupaRecords /\ supa.begun \in Nat /\ supa.trouble \in Nat /\ supa.begun < MaxLogins
      /\ old.at = "login" /\ old.hops \in Nat /\ MaxLogins \in Nat
      /\ LoggedMeansSynced /\ UNCHANGED <<session, user, mirror, logged>>
  BY SessionsAssumption, SessFields DEF SessInv, SessTypes, SignIn
<1>2. n \in Logins /\ n \in 0 .. MaxLogins /\ n > supa.begun /\ n # None /\ n \in Nat
  BY <1>1 DEF Logins, None
<1>3. supa' = [supa EXCEPT !.begun = n]
  BY DEF SignIn
<1>4. browser' = [browser EXCEPT ![b] = new] \/ browser' = Go(b, "/")
  BY <1>1 DEF SignIn
<1> HIDE DEF n
<1>5. /\ supa' \in SupaRecords /\ supa'.begun = n /\ supa'.uid = supa.uid /\ supa'.made = supa.made
      /\ supa'.trouble = supa.trouble /\ supa'.synced = supa.synced
  BY <1>1, <1>2, <1>3 DEF SupaRecords
<1>6. SupaGrows
  BY <1>1, <1>2, <1>5 DEF SupaGrows
<1>7. mirror' \in [Calls -> MirrorRecords] /\ \A c \in Calls : MirrorFits(c)'
  BY <1>1, <1>6, CallsStay DEF SupaGrows
<1>8. logged' \subseteq supa'.synced
  BY <1>1, <1>5 DEF LoggedMeansSynced
<1>9. CASE browser' = Go(b, "/")
  BY <1>1, <1>6, <1>7, <1>8, <1>9, Going DEF GuestOnly
<1>10. CASE browser' = [browser EXCEPT ![b] = new]
  <2>1. /\ new \in BrowserRecords /\ new.at = "exchange" /\ new.login = n /\ new.cookie = old.cookie
        /\ new.hops = old.hops
    BY <1>1, <1>2 DEF BrowserRecords
  <2> HIDE DEF new
  <2>2. browser'[b] = new
    BY <1>1, <1>10
  <2>3. LoginFits(b)' /\ HopsFit(b)'
    BY <1>1, <1>2, <1>5, <2>1, <2>2 DEF LoginFits, HopsFit
  <2> QED BY <1>1, <1>2, <1>6, <1>7, <1>8, <1>10, <2>1, <2>3, Staying
<1> QED BY <1>4, <1>9, <1>10

\* A login that fails, or whose sync's answer is lost.
LEMMA FailuresKeep ==
  ASSUME SessInv, NEW b \in Browsers, LoginFails(b) \/ SyncLost(b)
  PROVE  SessInv'
<1>1. LoggedMeansSynced /\ supa \in SupaRecords /\ browser[b].login \in Logins \cup {None}
      /\ LoginFits(b)
  BY DEF SessInv, SessTypes, BrowserRecords
<1>2. SupaGrows /\ supa'.synced = supa.synced
  <2>1. CASE LoginFails(b)
    BY <2>1, MetOrNot DEF LoginFails
  <2>2. CASE SyncLost(b)
    <3> DEFINE failed == supa.failed \cup {browser[b].login}
    <3>1. failed \in SUBSET Logins
      BY <1>1, <2>2 DEF SyncLost, LoginFits, SupaRecords
    <3>2. Trouble /\ supa' = [Met EXCEPT !.failed = failed]
      BY <1>1, <2>2 DEF SyncLost, Met, SupaRecords
    <3> HIDE DEF failed
    <3> QED BY <3>1, <3>2, MetGrows
  <2> QED BY <2>1, <2>2
<1>3. browser' = Go(b, "/") /\ UNCHANGED <<session, user, mirror, logged>>
  BY DEF LoginFails, SyncLost
<1>4. mirror' \in [Calls -> MirrorRecords] /\ \A c \in Calls : MirrorFits(c)'
  BY <1>2, <1>3, CallsStay DEF SupaGrows
<1>5. logged' \subseteq supa'.synced
  BY <1>1, <1>2, <1>3 DEF LoggedMeansSynced
<1> QED BY <1>2, <1>3, <1>4, <1>5, Going DEF GuestOnly

\* The event of a login whose sync succeeded.
LEMMA EventKeeps ==
  ASSUME SessInv, NEW b \in Browsers, SignInEvent(b)
  PROVE  SessInv'
<1>1. LoggedMeansSynced /\ LoginFits(b)
  BY DEF SessInv
<1>2. SupaGrows /\ supa'.synced = supa.synced
  <2>1. (Trouble /\ supa' = Met) \/ supa' = supa
    BY DEF SignInEvent
  <2> QED BY <2>1, MetOrNot
<1>3. browser' = Go(b, "/dashboard") /\ UNCHANGED <<session, user, mirror>>
  BY DEF SignInEvent
<1>4. mirror' \in [Calls -> MirrorRecords] /\ \A c \in Calls : MirrorFits(c)'
  BY <1>2, <1>3, CallsStay DEF SupaGrows
<1>5. browser[b].cookie.login \in supa.synced
  BY <1>1 DEF LoginFits, SignInEvent
<1>6. logged' = logged \/ logged' = logged \cup {browser[b].cookie.login}
  BY DEF SignInEvent
<1>7. logged' \subseteq supa'.synced
  BY <1>1, <1>2, <1>5, <1>6 DEF LoggedMeansSynced
<1> QED BY <1>2, <1>3, <1>4, <1>7, Going

\* A call begins, goes on or ends; the account and the row stay.
LEMMA MirrorMoves ==
  ASSUME SessInv, NEW c \in Calls, NEW call \in MirrorRecords, mirror' = [mirror EXCEPT ![c] = call],
         supa'.uid = supa.uid, supa'.made = supa.made, user' = user,
         call.uid <= supa.made, call.at \in Working => call.uid # None,
         call.at = "save" /\ ~call.stale /\ call.uid = supa.uid => call.read.token = user.token
  PROVE  mirror' \in [Calls -> MirrorRecords] /\ \A d \in Calls : MirrorFits(d)'
<1>1. mirror \in [Calls -> MirrorRecords] /\ \A d \in Calls : MirrorFits(d)
  BY DEF SessInv, SessTypes
<1>2. mirror' \in [Calls -> MirrorRecords] /\ mirror'[c] = call
  BY <1>1
<1>3. MirrorFits(c)'
  BY <1>2 DEF MirrorFits
<1>4. ASSUME NEW d \in Calls, d # c
      PROVE  MirrorFits(d)'
  <2>1. mirror'[d] = mirror[d]
    BY <1>1, <1>4
  <2> QED BY <1>1, <2>1 DEF MirrorFits
<1> QED BY <1>2, <1>3, <1>4

\* No call.
LEMMA NoCallFits ==
  /\ NoUser \in UserRows /\ NoUser.there = FALSE /\ NoUser.token = None
  /\ NoCall \in MirrorRecords /\ NoCall.at = "idle" /\ NoCall.uid = None
<1>1. NoUser \in UserRows /\ NoUser.there = FALSE /\ NoUser.token = None
  BY DEF NoUser, UserRows, None
<1> HIDE DEF NoUser, UserRows
<1>2. NoCall \in MirrorRecords /\ NoCall.at = "idle" /\ NoCall.uid = None
  BY <1>1 DEF NoCall, MirrorRecords, None
<1> QED BY <1>1, <1>2

\* The callback asks for the sync.
LEMMA PostSyncKeeps ==
  ASSUME SessInv, NEW b \in Browsers, PostSync(b)
  PROVE  SessInv'
<1> DEFINE old == browser[b]
<1>1. PICK c : c = old.cookie
  OBVIOUS
<1>2. /\ old \in BrowserRecords /\ LoginFits(b) /\ HopsFit(b) /\ browser \in [Browsers -> BrowserRecords]
      /\ supa \in SupaRecords /\ supa.begun \in Nat /\ supa.trouble \in Nat /\ old.hops \in Nat
      /\ (c.login # None => c.login \in Logins /\ session[c.login] \in SessionRecords)
      /\ LoggedMeansSynced /\ old.at = "whoami" /\ UNCHANGED <<supa, session, user, logged>>
  BY <1>1, SessFields DEF SessInv, SessTypes, PostSync
<1>3. SupaGrows
  BY <1>2 DEF SupaGrows
<1>4. logged' \subseteq supa'.synced
  BY <1>2 DEF LoggedMeansSynced
<1>5. CASE ~UserOf(b)
  <2>1. browser' = Go(b, "/") /\ mirror' = mirror
    BY <1>5 DEF PostSync
  <2>2. mirror' \in [Calls -> MirrorRecords] /\ \A d \in Calls : MirrorFits(d)'
    BY <1>3, <2>1, CallsStay DEF SupaGrows, PostSync
  <2> QED BY <1>2, <1>3, <1>4, <2>1, <2>2, Going DEF GuestOnly
<1>6. CASE UserOf(b)
  <2> DEFINE new == [old EXCEPT !.at = "sync"]
  <2>1. browser' = [browser EXCEPT ![b] = new]
    <3>1. browser' = [browser EXCEPT ![b].at = "sync"]
      BY <1>6 DEF PostSync
    <3> QED BY <1>2, <3>1
  <2>2. PICK token \in {None, c.login} :
          mirror' = [mirror EXCEPT ![c.login] = [NoCall EXCEPT !.at = "guard",
                                                  !.uid = session[c.login].uid, !.token = token]]
    BY <1>1, <1>6 DEF PostSync
  <2>3. c.login # None /\ Live(c.login)
    BY <1>1, <1>6 DEF UserOf, Knows
  <2>4. PICK s \in SessionRecords : s = session[c.login] /\ s.uid \in Nat
    BY <1>2, <2>3 DEF SessionRecords
  <2>5. SessionFits(c.login)
    BY <1>2, <2>3 DEF SessInv
  <2>6. PICK call : call = [NoCall EXCEPT !.at = "guard", !.uid = s.uid, !.token = token]
    OBVIOUS
  <2>7. token \in Nat /\ c.login \in Calls
    BY <1>2, <2>3, SessionsAssumption DEF Logins, None, Calls
  <2>8. call \in MirrorRecords /\ call.at = "guard" /\ call.uid = s.uid
    BY <2>4, <2>6, <2>7, NoCallFits DEF MirrorRecords, Working
  <2>9. mirror' = [mirror EXCEPT ![c.login] = call]
    BY <2>2, <2>4, <2>6
  <2>10. s.uid <= supa.made /\ s.uid # None
    BY <2>3, <2>4, <2>5 DEF SessionFits, Live
  <2>11. supa'.uid = supa.uid /\ supa'.made = supa.made /\ user' = user
    BY <1>2
  <2>12. mirror' \in [Calls -> MirrorRecords] /\ \A d \in Calls : MirrorFits(d)'
    BY <2>7, <2>8, <2>9, <2>10, <2>11, MirrorMoves
  <2>13. /\ new \in BrowserRecords /\ new.at = "sync" /\ new.login = old.login /\ new.cookie = old.cookie
         /\ new.hops = old.hops
    BY <1>2 DEF BrowserRecords
  <2> HIDE DEF new
  <2>14. browser'[b] = new
    BY <1>2, <2>1
  <2>15. LoginFits(b)' /\ HopsFit(b)'
    BY <1>2, <2>13, <2>14 DEF LoginFits, HopsFit
  <2> QED BY <1>2, <1>3, <1>4, <2>1, <2>12, <2>13, <2>15, Staying
<1> QED BY <1>5, <1>6

\* The callback reads the sync's answer.
LEMMA AnsweredKeeps ==
  ASSUME SessInv, NEW b \in Browsers, SyncAnswered(b)
  PROVE  SessInv'
<1> DEFINE old == browser[b]
<1>1. PICK l : l = old.login
  OBVIOUS
<1>2. /\ old \in BrowserRecords /\ LoginFits(b) /\ HopsFit(b) /\ browser \in [Browsers -> BrowserRecords]
      /\ supa \in SupaRecords /\ supa.begun \in Nat /\ supa.trouble \in Nat /\ old.hops \in Nat
      /\ LoggedMeansSynced /\ old.at = "sync" /\ UNCHANGED <<session, user, logged>>
      /\ supa.made \in Nat
  BY SessFields DEF SessInv, SessTypes, SyncAnswered
<1>3. l \in Logins /\ l \in Calls
  BY <1>1, <1>2 DEF LoginFits, BrowserRecords, Calls
<1>4. PICK ok : ok = mirror[l].ok
  OBVIOUS
<1>5. /\ supa' = IF ok THEN [supa EXCEPT !.synced = @ \cup {l}] ELSE [supa EXCEPT !.failed = @ \cup {l}]
      /\ browser' = IF ok THEN [browser EXCEPT ![b].at = "event"] ELSE Go(b, "/")
      /\ mirror' = [mirror EXCEPT ![l] = NoCall]
  BY <1>1, <1>4 DEF SyncAnswered
<1>6. /\ supa' \in SupaRecords /\ supa'.begun = supa.begun /\ supa'.uid = supa.uid
      /\ supa'.made = supa.made /\ supa'.trouble = supa.trouble
      /\ supa'.synced = IF ok THEN supa.synced \cup {l} ELSE supa.synced
  BY <1>2, <1>3, <1>5 DEF SupaRecords
<1>7. SupaGrows
  BY <1>2, <1>6 DEF SupaGrows
<1>8. logged' \subseteq supa'.synced
  BY <1>2, <1>6 DEF LoggedMeansSynced
<1>9. mirror' \in [Calls -> MirrorRecords] /\ \A d \in Calls : MirrorFits(d)'
  <2>1. NoCall.at \notin Working /\ NoCall.uid <= supa.made
    BY <1>2, NoCallFits DEF Working, None
  <2> QED BY <1>2, <1>3, <1>5, <1>6, <2>1, NoCallFits, MirrorMoves DEF Working
<1>10. CASE ~ok
  BY <1>2, <1>5, <1>7, <1>8, <1>9, <1>10, Going DEF GuestOnly
<1>11. CASE ok
  <2> DEFINE new == [old EXCEPT !.at = "event"]
  <2>1. browser' = [browser EXCEPT ![b] = new]
    BY <1>2, <1>5, <1>11
  <2>2. /\ new \in BrowserRecords /\ new.at = "event" /\ new.login = old.login /\ new.cookie = old.cookie
        /\ new.hops = old.hops
    BY <1>2 DEF BrowserRecords
  <2> HIDE DEF new
  <2>3. browser'[b] = new
    BY <1>2, <2>1
  <2>4. LoginFits(b)' /\ HopsFit(b)'
    BY <1>1, <1>2, <1>6, <1>11, <2>2, <2>3 DEF LoginFits, HopsFit
  <2> QED BY <1>2, <1>7, <1>8, <1>9, <2>1, <2>2, <2>4, Staying
<1> QED BY <1>10, <1>11

\* An account begins or is no more: no call that is at work is of it.
LEMMA CallsOfAnother ==
  ASSUME SessInv, mirror' = mirror, supa'.made \in Nat, supa'.made >= supa.made,
         supa'.uid = None \/ (supa'.uid \in Nat /\ supa'.uid > supa.made)
  PROVE  mirror' \in [Calls -> MirrorRecords] /\ \A c \in Calls : MirrorFits(c)'
<1>1. \A c \in Calls : MirrorFits(c) /\ mirror[c].uid \in Nat /\ supa.made \in Nat
  BY SessFields DEF SessInv, SessTypes, MirrorRecords
<1>2. ASSUME NEW c \in Calls
      PROVE  MirrorFits(c)'
  BY <1>1, <1>2 DEF MirrorFits, Working
<1> QED BY <1>2 DEF SessInv, SessTypes

\* A session begins, at a first login with its account.
LEMMA ExchangeKeeps ==
  ASSUME SessInv, NEW b \in Browsers, Exchange(b)
  PROVE  SessInv'
<1> DEFINE old == browser[b]
           u == IF supa.uid = None THEN supa.made + 1 ELSE supa.uid
<1>1. PICK l : l = old.login
  OBVIOUS
<1>2. /\ old \in BrowserRecords /\ LoginFits(b) /\ HopsFit(b) /\ browser \in [Browsers -> BrowserRecords]
      /\ supa \in SupaRecords /\ supa.begun \in Nat /\ supa.trouble \in Nat /\ old.hops \in Nat
      /\ supa.made \in Nat /\ supa.uid \in Nat /\ session \in [Logins -> SessionRecords]
      /\ user \in UserRows /\ RowFits /\ LoggedMeansSynced /\ old.at = "exchange"
      /\ UNCHANGED <<mirror, logged>>
  BY SessFields DEF SessInv, SessTypes, Exchange
<1>3. l \in Logins /\ l # None /\ l \in Nat /\ l <= supa.begun
  BY <1>1, <1>2, SessFields DEF LoginFits, BrowserRecords, SessInv
<1>4. u \in Nat /\ u # None
  BY <1>2 DEF None
<1>5. PICK uid : uid = u
  OBVIOUS
<1>6. PICK t : t = [NoSession EXCEPT !.live = TRUE, !.uid = uid]
  OBVIOUS
<1>7. /\ t \in SessionRecords /\ t.live /\ t.uid = uid /\ t.gen = 0 /\ ~t.reused /\ ~t.dropped
  <2>1. uid \in Nat /\ 0 \in 0 .. MaxGen
    BY <1>4, <1>5, SessionsAssumption
  <2>2. /\ NoSession \in SessionRecords /\ NoSession.gen = 0 /\ NoSession.reused = FALSE
        /\ NoSession.dropped = FALSE
    BY <2>1 DEF NoSession, SessionRecords, None
  <2> QED BY <1>6, <2>1, <2>2 DEF SessionRecords
<1>8. session' = [session EXCEPT ![l] = t]
  BY <1>1, <1>5, <1>6 DEF Exchange
<1>9. session' \in [Logins -> SessionRecords] /\ session'[l] = t /\ \A k \in Logins : k # l => session'[k] = session[k]
  BY <1>2, <1>3, <1>7, <1>8
<1>10. /\ supa' = IF supa.uid = None THEN [supa EXCEPT !.uid = uid, !.made = uid] ELSE supa
       /\ user' = IF supa.uid = None THEN [NoUser EXCEPT !.there = TRUE] ELSE user
  BY <1>5 DEF Exchange
<1>11. /\ supa' \in SupaRecords /\ supa'.uid = uid /\ supa'.begun = supa.begun
       /\ supa'.trouble = supa.trouble /\ supa'.synced = supa.synced
       /\ supa'.made = IF supa.uid = None THEN uid ELSE supa.made
  BY <1>2, <1>4, <1>5, <1>10 DEF SupaRecords
<1>12. supa'.made \in Nat /\ supa'.made >= supa.made /\ supa'.uid <= supa'.made /\ supa'.uid # None
  BY <1>2, <1>4, <1>5, <1>11 DEF RowFits
<1>13. user' \in UserRows
  <2>1. [NoUser EXCEPT !.there = TRUE] \in UserRows
    BY NoCallFits DEF UserRows
  <2> QED BY <1>2, <1>10, <2>1
<1>14. ASSUME NEW k \in Logins, k # l
       PROVE  Fades(k) /\ SessionFits(k)'
  <2>1. session'[k] = session[k] /\ session[k].uid \in Nat /\ SessionFits(k)
    BY <1>2, <1>9, <1>14 DEF SessInv, SessionRecords
  <2>2. session[k].uid <= supa.made /\ (session[k].live => session[k].uid # None)
    BY <2>1 DEF SessionFits
  <2>3. Live(k)' => Live(k)
    <3>1. CASE supa.uid = None
      BY <1>2, <1>4, <1>5, <1>11, <2>1, <2>2, <3>1 DEF Live
    <3>2. CASE supa.uid # None
      BY <1>5, <1>11, <2>1, <3>2 DEF Live
    <3> QED BY <3>1, <3>2
  <2> QED BY <1>2, <1>12, <2>1, <2>3 DEF Fades, SessionFits
<1>15. SessionFits(l)'
  BY <1>7, <1>9, <1>11, <1>12 DEF SessionFits
<1> DEFINE c == [NoCookie EXCEPT !.login = l]
           new == [old EXCEPT !.at = "whoami", !.cookie = c]
<1>16. c \in Cookies /\ c.login = l /\ c.gen = 0 /\ ~c.old
  <2>1. 0 \in 0 .. MaxGen
    BY SessionsAssumption
  <2>2. NoCookie \in Cookies /\ NoCookie.gen = 0 /\ NoCookie.old = FALSE
    BY <2>1 DEF NoCookie, Cookies, None
  <2> QED BY <1>3, <2>2 DEF Cookies
<1>17. browser' = [browser EXCEPT ![b] = new]
  <2>1. browser' = [browser EXCEPT ![b].at = "whoami", ![b].cookie = c]
    BY <1>1 DEF Exchange
  <2> HIDE DEF c
  <2> QED BY <1>2, <2>1
<1> HIDE DEF c
<1>18. /\ new \in BrowserRecords /\ new.at = "whoami" /\ new.login = l /\ new.cookie = c
       /\ new.hops = old.hops
  BY <1>1, <1>2, <1>16 DEF BrowserRecords
<1> HIDE DEF new
<1>19. browser'[b] = new
  BY <1>2, <1>17
<1>20. CookieFits(b)' /\ LoginFits(b)' /\ HopsFit(b)'
  BY <1>2, <1>3, <1>7, <1>9, <1>11, <1>16, <1>18, <1>19 DEF CookieFits, LoginFits, HopsFit
<1>21. (\A a \in Browsers : CookieFits(a)' /\ LoginFits(a)' /\ HopsFit(a)') /\ OwnLogins'
  <2>1. \A k \in Logins : k \notin {browser[b].login, browser[b].cookie.login} => Fades(k)
    BY <1>1, <1>14
  <2>2. /\ new.login = browser[b].login /\ supa'.begun >= supa.begun /\ supa'.trouble >= supa.trouble
        /\ new.cookie.login \in {None, browser[b].login, browser[b].cookie.login}
        /\ supa.synced \subseteq supa'.synced
    BY <1>1, <1>2, <1>11, <1>16, <1>18
  <2> QED BY <1>9, <1>11, <1>17, <1>18, <1>20, <2>1, <2>2, OneBrowserMoves
<1>22. mirror' \in [Calls -> MirrorRecords] /\ \A d \in Calls : MirrorFits(d)'
  <2>1. CASE supa.uid = None
    BY <1>2, <1>4, <1>5, <1>11, <1>12, <2>1, CallsOfAnother
  <2>2. CASE supa.uid # None
    BY <1>2, <1>10, <2>2, CallsStay
  <2> QED BY <2>1, <2>2
<1>23. RowFits' /\ LoggedMeansSynced'
  BY <1>2, <1>11, <1>12 DEF RowFits, LoggedMeansSynced
<1>24. browser' \in [Browsers -> BrowserRecords]
  BY <1>2, <1>17, <1>18
<1> QED BY <1>9, <1>11, <1>13, <1>14, <1>15, <1>21, <1>22, <1>23, <1>24 DEF SessInv, SessTypes

\* The user's sessions end: they lose their life and nothing else.
LEMMA SessionsEnd ==
  ASSUME SessInv, session' = EndSessions(supa.uid)
  PROVE  /\ session' \in [Logins -> SessionRecords]
         /\ \A l \in Logins : /\ session'[l].uid = session[l].uid /\ session'[l].gen = session[l].gen
                              /\ session'[l].grace = session[l].grace
                              /\ session'[l].dropped = session[l].dropped
                              /\ session'[l].reused = session[l].reused
                              /\ session'[l].live => session[l].live /\ session[l].uid # supa.uid
<1>1. session \in [Logins -> SessionRecords]
  BY DEF SessInv, SessTypes
<1>2. ASSUME NEW l \in Logins
      PROVE  /\ session'[l] \in SessionRecords
             /\ session'[l].uid = session[l].uid /\ session'[l].gen = session[l].gen
             /\ session'[l].grace = session[l].grace /\ session'[l].dropped = session[l].dropped
             /\ session'[l].reused = session[l].reused
             /\ session'[l].live => session[l].live /\ session[l].uid # supa.uid
  <2>1. PICK s \in SessionRecords : s = session[l]
    BY <1>1
  <2>2. session'[l] = IF s.uid = supa.uid THEN [s EXCEPT !.live = FALSE] ELSE s
    BY <2>1 DEF EndSessions
  <2>3. CASE s.uid = supa.uid
    BY <2>1, <2>2, <2>3 DEF SessionRecords
  <2>4. CASE s.uid # supa.uid
    BY <2>1, <2>2, <2>4 DEF SessionRecords
  <2> QED BY <2>3, <2>4
<1>3. session' \in [Logins -> SessionRecords]
  BY <1>2 DEF EndSessions
<1> QED BY <1>2, <1>3

\* Sessions that lose at most their life still fit, and fade.
LEMMA EndedFit ==
  ASSUME SessInv, session' = session \/ session' = EndSessions(supa.uid), supa'.uid \in {supa.uid, None},
         supa'.made = supa.made
  PROVE  /\ session' \in [Logins -> SessionRecords]
         /\ \A l \in Logins : Fades(l) /\ SessionFits(l)'
<1>1. session' \in [Logins -> SessionRecords]
  BY SessionsEnd DEF SessInv, SessTypes
<1>2. ASSUME NEW l \in Logins
      PROVE  Fades(l) /\ SessionFits(l)'
  <2>1. SessionFits(l)
    BY DEF SessInv
  <2>2. CASE session' = session
    BY <2>1, <2>2 DEF Fades, SessionFits, Live
  <2>3. CASE session' = EndSessions(supa.uid)
    <3>1. /\ session'[l].uid = session[l].uid /\ session'[l].gen = session[l].gen
          /\ session'[l].grace = session[l].grace /\ session'[l].dropped = session[l].dropped
          /\ session'[l].reused = session[l].reused
          /\ session'[l].live => session[l].live /\ session[l].uid # supa.uid
      BY <2>3, SessionsEnd
    <3> QED BY <2>1, <3>1 DEF Fades, SessionFits, Live
  <2> QED BY <2>2, <2>3
<1> QED BY <1>1, <1>2

\* supabase.auth.signOut.
LEMMA SignOutKeeps ==
  ASSUME SessInv, NEW b \in Browsers, SupabaseSignOut(b)
  PROVE  SessInv'
<1> DEFINE old == browser[b]
           new == [old EXCEPT !.at = "get", !.path = "/", !.hops = 0, !.cookie = NoCookie]
<1>1. /\ old \in BrowserRecords /\ LoginFits(b) /\ browser \in [Browsers -> BrowserRecords]
      /\ supa \in SupaRecords /\ supa.begun \in Nat /\ supa.trouble \in Nat
      /\ LoggedMeansSynced /\ UNCHANGED <<user, mirror, logged>>
  BY SessFields DEF SessInv, SessTypes, SupabaseSignOut
<1>2. SupaGrows /\ supa'.synced = supa.synced
  <2>1. (Trouble /\ supa' = Met) \/ supa' = supa
    BY DEF SupabaseSignOut
  <2> QED BY <2>1, MetOrNot
<1>3. mirror' \in [Calls -> MirrorRecords] /\ \A c \in Calls : MirrorFits(c)'
  BY <1>1, <1>2, CallsStay DEF SupaGrows
<1>4. logged' \subseteq supa'.synced
  BY <1>1, <1>2 DEF LoggedMeansSynced
<1>5. \/ browser' = Go(b, "/") /\ session' = session
      \/ /\ browser' = [Go(b, "/") EXCEPT ![b].cookie = NoCookie]
         /\ session' = session \/ session' = EndSessions(supa.uid)
  BY DEF SupabaseSignOut
<1>6. CASE browser' = Go(b, "/") /\ session' = session
  BY <1>1, <1>2, <1>3, <1>4, <1>6, Going DEF GuestOnly
<1>7. CASE /\ browser' = [Go(b, "/") EXCEPT ![b].cookie = NoCookie]
           /\ session' = session \/ session' = EndSessions(supa.uid)
  <2>1. browser' = [browser EXCEPT ![b] = new]
    BY <1>1, <1>7 DEF Go
  <2>2. NoCookie \in Cookies /\ NoCookie.login = None /\ NoCookie.old = FALSE
    BY SessionsAssumption DEF NoCookie, Cookies, None
  <2> HIDE DEF NoCookie
  <2>3. /\ new \in BrowserRecords /\ new.at = "get" /\ new.hops = 0 /\ new.login = old.login
        /\ new.cookie = NoCookie /\ new.path = "/"
    BY <1>1, <2>2 DEF BrowserRecords, GuestOnly
  <2> HIDE DEF new
  <2>4. browser'[b] = new
    BY <1>1, <2>1
  <2>5. supa'.trouble \in Nat /\ supa'.begun \in Nat /\ supa'.begun >= supa.begun
    BY <1>2, SessionsAssumption DEF SupaGrows, SupaRecords
  <2>6. CookieFits(b)' /\ LoginFits(b)' /\ HopsFit(b)'
    <3>1. HopsFit(b)'
      BY <2>3, <2>4, <2>5 DEF HopsFit, Left
    <3>2. LoginFits(b)'
      BY <1>1, <2>3, <2>4, <2>5, SessFields DEF LoginFits, SessInv
    <3>3. CookieFits(b)'
      BY <2>2, <2>3, <2>4 DEF CookieFits
    <3> QED BY <3>1, <3>2, <3>3
  <2>7. session' \in [Logins -> SessionRecords] /\ \A l \in Logins : Fades(l) /\ SessionFits(l)'
    BY <1>2, <1>7, EndedFit DEF SupaGrows
  <2> QED BY <1>1, <1>2, <1>3, <1>4, <2>1, <2>2, <2>3, <2>6, <2>7, SessStep
<1> QED BY <1>5, <1>6, <1>7

\* DELETE /me: the account goes with its row, its sessions and its audit log.
LEMMA DeleteMeKeeps ==
  ASSUME SessInv, NEW b \in Browsers, DeleteMe(b)
  PROVE  SessInv'
<1> DEFINE old == browser[b]
<1>1. /\ old \in BrowserRecords /\ LoginFits(b) /\ HopsFit(b) /\ CookieFits(b) /\ old.hops \in Nat
      /\ browser \in [Browsers -> BrowserRecords] /\ supa.made \in Nat /\ supa.uid \in Nat
      /\ supa \in SupaRecords /\ supa.begun \in Nat /\ supa.trouble \in Nat /\ old.login \in Nat
      /\ LoggedMeansSynced /\ RowFits /\ mirror' = mirror /\ old.at = "delete"
      /\ old.cookie.login \in Nat
  BY SessFields DEF SessInv, SessTypes, DeleteMe
<1>2. \/ /\ browser' = [browser EXCEPT ![b].at = "signout"] \/ browser' = Go(b, "/dashboard")
         /\ supa' = [supa EXCEPT !.uid = None] \/ (Trouble /\ supa' = [Met EXCEPT !.uid = None])
         /\ session' = EndSessions(supa.uid) /\ user' = NoUser /\ logged' = {}
      \/ /\ (Trouble /\ supa' = Met) \/ supa' = supa
         /\ browser' = Go(b, "/dashboard") /\ UNCHANGED <<session, user, logged>>
  BY DEF DeleteMe
<1>3. CASE /\ (Trouble /\ supa' = Met) \/ supa' = supa
           /\ browser' = Go(b, "/dashboard") /\ UNCHANGED <<session, user, logged>>
  <2>1. SupaGrows /\ supa'.synced = supa.synced
    BY <1>3, MetOrNot
  <2>2. mirror' \in [Calls -> MirrorRecords] /\ \A c \in Calls : MirrorFits(c)'
    BY <1>1, <1>3, <2>1, CallsStay DEF SupaGrows
  <2>3. logged' \subseteq supa'.synced
    BY <1>1, <1>3, <2>1 DEF LoggedMeansSynced
  <2> QED BY <1>3, <2>1, <2>2, <2>3, Going
<1>4. CASE /\ browser' = [browser EXCEPT ![b].at = "signout"] \/ browser' = Go(b, "/dashboard")
           /\ supa' = [supa EXCEPT !.uid = None] \/ (Trouble /\ supa' = [Met EXCEPT !.uid = None])
           /\ session' = EndSessions(supa.uid) /\ user' = NoUser /\ logged' = {}
  <2>1. /\ supa' \in SupaRecords /\ supa'.uid = None /\ supa'.made = supa.made /\ supa'.begun = supa.begun
        /\ supa'.trouble >= supa.trouble /\ supa'.trouble \in Nat /\ supa'.synced = supa.synced
    <3>1. CASE supa' = [supa EXCEPT !.uid = None]
      BY <1>1, <3>1 DEF SupaRecords, None
    <3>2. CASE Trouble /\ supa' = [Met EXCEPT !.uid = None]
      <4> DEFINE n == supa.trouble + 1
      <4>1. n \in 0 .. MaxTrouble /\ n \in Nat /\ n >= supa.trouble
        BY <1>1, <3>2, SessionsAssumption DEF Trouble
      <4>2. supa' = [supa EXCEPT !.trouble = n, !.uid = None]
        BY <1>1, <3>2 DEF Met, SupaRecords
      <4> HIDE DEF n
      <4> QED BY <1>1, <4>1, <4>2 DEF SupaRecords, None
    <3> QED BY <1>4, <3>1, <3>2
  <2>2. session' \in [Logins -> SessionRecords] /\ \A l \in Logins : Fades(l) /\ SessionFits(l)'
    BY <1>4, <2>1, EndedFit
  <2>3. PICK at \in {"signout", "get"}, path \in GuestOnly \cup {"/dashboard"}, n \in Nat :
          /\ browser' = [browser EXCEPT ![b] = [old EXCEPT !.at = at, !.path = path, !.hops = n]]
          /\ n = IF at = "get" THEN 0 ELSE old.hops
    <3>1. CASE browser' = Go(b, "/dashboard")
      <4>1. browser' = [browser EXCEPT ![b] = [old EXCEPT !.at = "get", !.path = "/dashboard", !.hops = 0]]
        BY <1>1, <3>1 DEF Go
      <4> QED BY <4>1
    <3>2. CASE browser' = [browser EXCEPT ![b].at = "signout"]
      <4>1. browser' = [browser EXCEPT ![b] = [old EXCEPT !.at = "signout", !.path = old.path,
                                                           !.hops = old.hops]]
        BY <1>1, <3>2 DEF BrowserRecords
      <4>2. old.path \in GuestOnly \cup {"/dashboard"}
        BY <1>1 DEF BrowserRecords
      <4> QED BY <1>1, <4>1, <4>2
    <3> QED BY <1>4, <3>1, <3>2
  <2> DEFINE new == [old EXCEPT !.at = at, !.path = path, !.hops = n]
  <2>4. /\ new \in BrowserRecords /\ new.at = at /\ new.hops = n /\ new.login = old.login
        /\ new.cookie = old.cookie /\ new.path = path
    BY <1>1, <2>3 DEF BrowserRecords
  <2>5. browser' = [browser EXCEPT ![b] = new]
    BY <2>3
  <2> HIDE DEF new
  <2>6. browser'[b] = new
    BY <1>1, <2>5
  <2>7. HopsFit(b)'
    BY <1>1, <2>1, <2>3, <2>4, <2>6 DEF HopsFit, Left
  <2>8. LoginFits(b)'
    BY <1>1, <2>1, <2>3, <2>4, <2>6 DEF LoginFits
  <2>9. CookieFits(b)'
    <3>1. PICK l : l = old.cookie.login
      OBVIOUS
    <3>2. l # None => l \in Logins
      BY <3>1, SessFields DEF SessInv
    <3>3. l # None => ~Live(l)'
      BY <2>1, <2>2, <3>2 DEF Live, SessionFits
    <3> QED BY <1>1, <2>1, <2>4, <2>6, <3>1, <3>3 DEF CookieFits
  <2>10. (\A a \in Browsers : CookieFits(a)' /\ LoginFits(a)' /\ HopsFit(a)') /\ OwnLogins'
    <3>1. /\ new.login = browser[b].login /\ supa'.begun >= supa.begun
          /\ new.cookie.login \in {None, browser[b].login, browser[b].cookie.login}
          /\ supa.synced \subseteq supa'.synced
      BY <1>1, <2>1, <2>4
    <3> QED BY <2>1, <2>2, <2>4, <2>5, <2>7, <2>8, <2>9, <3>1, OneBrowserMoves
  <2>11. mirror' \in [Calls -> MirrorRecords] /\ \A c \in Calls : MirrorFits(c)'
    BY <1>1, <2>1, CallsOfAnother
  <2>12. user' \in UserRows /\ RowFits'
    BY <1>1, <1>4, <2>1, NoCallFits DEF RowFits, None
  <2>13. LoggedMeansSynced' /\ browser' \in [Browsers -> BrowserRecords]
    BY <1>1, <1>4, <2>4, <2>5 DEF LoggedMeansSynced
  <2> QED BY <2>1, <2>2, <2>10, <2>11, <2>12, <2>13 DEF SessInv, SessTypes
<1> QED BY <1>2, <1>3, <1>4

\* The API is at work; the browsers and their sessions stay.
LEMMA Serving ==
  ASSUME SessInv, UNCHANGED <<session, browser, logged>>, SupaGrows, user' \in UserRows,
         supa.uid = None => user' = user,
         mirror' \in [Calls -> MirrorRecords], \A c \in Calls : MirrorFits(c)'
  PROVE  SessInv'
<1>1. SessTypes /\ OwnLogins /\ LoggedMeansSynced /\ RowFits
  BY DEF SessInv
<1>2. \A l \in Logins : Fades(l) /\ SessionFits(l)'
  BY DEF SessInv, SessionFits, Fades, Live, SupaGrows
<1>3. ASSUME NEW a \in Browsers
      PROVE  CookieFits(a)' /\ LoginFits(a)' /\ HopsFit(a)'
  <2>1. browser[a].cookie.login # None => Fades(browser[a].cookie.login)
    BY <1>1, <1>2, SessFields
  <2> QED BY <1>1, <2>1, BrowserStays DEF SupaGrows, SessTypes
<1>4. SessTypes'
  BY <1>1 DEF SessTypes, SupaGrows
<1>5. RowFits' /\ LoggedMeansSynced' /\ OwnLogins'
  BY <1>1 DEF RowFits, LoggedMeansSynced, OwnLogins, SupaGrows
<1> QED BY <1>2, <1>3, <1>4, <1>5 DEF SessInv

\* An answer ends the call.
LEMMA AnswerEnds ==
  ASSUME SessInv, NEW c \in Calls, NEW ok \in BOOLEAN
  PROVE  \E call \in MirrorRecords : /\ Answers(c, ok) = [mirror EXCEPT ![c] = call]
                                     /\ call.at \notin Working /\ call.uid = None
<1>1. PICK call : call = IF \E b \in Browsers : browser[b].at = "sync" /\ browser[b].login = c
                         THEN [NoCall EXCEPT !.at = "answered", !.ok = ok]
                         ELSE NoCall
  OBVIOUS
<1>2. Answers(c, ok) = [mirror EXCEPT ![c] = call]
  BY <1>1 DEF Answers
<1>3. [NoCall EXCEPT !.at = "answered", !.ok = ok] \in MirrorRecords
  BY NoCallFits DEF MirrorRecords
<1>4. call \in MirrorRecords /\ call.at \in {"answered", "idle"} /\ call.uid = None
  BY <1>1, <1>3, NoCallFits DEF MirrorRecords
<1> QED BY <1>2, <1>4 DEF Working

\* A call that answers, the row as it is.
LEMMA AnswerKeeps ==
  ASSUME SessInv, NEW c \in Calls, NEW ok \in BOOLEAN, mirror' = Answers(c, ok),
         UNCHANGED <<session, user, browser, logged>>, (Trouble /\ supa' = Met) \/ supa' = supa
  PROVE  SessInv'
<1>1. PICK call \in MirrorRecords : /\ mirror' = [mirror EXCEPT ![c] = call]
                                    /\ call.at \notin Working /\ call.uid = None
  BY AnswerEnds
<1>2. SupaGrows /\ supa.made \in Nat /\ user \in UserRows
  BY MetOrNot, SessFields DEF SessInv, SessTypes
<1>3. mirror' \in [Calls -> MirrorRecords] /\ \A d \in Calls : MirrorFits(d)'
  <2>1. call.uid <= supa.made /\ call.at # "save" /\ supa'.uid = supa.uid /\ supa'.made = supa.made
    BY <1>1, <1>2 DEF SupaGrows, None, Working
  <2> QED BY <1>1, <2>1, MirrorMoves
<1> QED BY <1>2, <1>3, Serving

\* The calls before upsertFromAuth's save.
LEMMA CallsKeep ==
  ASSUME SessInv, NEW c \in Calls, Guard(c) \/ Identity(c) \/ Find(c)
  PROVE  SessInv'
<1>1. PICK old \in MirrorRecords : old = mirror[c]
  BY DEF SessInv, SessTypes
<1>2. MirrorFits(c) /\ mirror \in [Calls -> MirrorRecords] /\ user \in UserRows /\ supa \in SupaRecords
  BY DEF SessInv, SessTypes
<1>3. UNCHANGED <<session, user, browser, logged>>
  BY DEF Guard, Identity, Find
<1>4. ASSUME NEW call \in MirrorRecords, mirror' = [mirror EXCEPT ![c] = call], supa' = supa,
             old.at \in Working, call.uid = old.uid,
             call.at = "save" /\ call.uid = supa.uid => call.read.token = user.token
      PROVE  SessInv'
  <2>1. SupaGrows
    BY <1>2, <1>4, SessFields DEF SupaGrows, SessInv
  <2>2. call.uid <= supa.made /\ call.uid # None
    BY <1>1, <1>2, <1>4 DEF MirrorFits
  <2>3. mirror' \in [Calls -> MirrorRecords] /\ \A d \in Calls : MirrorFits(d)'
    BY <1>3, <1>4, <2>2, MirrorMoves
  <2> QED BY <1>2, <1>3, <2>1, <2>3, Serving
<1>5. CASE Guard(c)
  <2>1. CASE Live(c)
    <3> DEFINE call == [old EXCEPT !.at = "identity"]
    <3>1. mirror' = [mirror EXCEPT ![c] = call]
      BY <1>1, <1>2, <1>5, <2>1 DEF Guard
    <3>2. call \in MirrorRecords /\ call.at = "identity" /\ call.uid = old.uid
      BY <1>1 DEF MirrorRecords, Working
    <3> HIDE DEF call
    <3> QED BY <1>1, <1>4, <1>5, <3>1, <3>2 DEF Guard, Working
  <2>2. CASE ~Live(c)
    BY <1>5, <2>2, AnswerKeeps DEF Guard
  <2> QED BY <2>1, <2>2
<1>6. CASE Identity(c)
  <2>1. CASE mirror' = [mirror EXCEPT ![c].at = "find"] /\ supa' = supa
    <3> DEFINE call == [old EXCEPT !.at = "find"]
    <3>1. mirror' = [mirror EXCEPT ![c] = call]
      BY <1>1, <1>2, <2>1
    <3>2. call \in MirrorRecords /\ call.at = "find" /\ call.uid = old.uid
      BY <1>1 DEF MirrorRecords, Working
    <3> HIDE DEF call
    <3> QED BY <1>1, <1>4, <1>6, <2>1, <3>1, <3>2 DEF Identity, Working
  <2>2. CASE mirror' = Answers(c, FALSE)
    BY <1>3, <1>6, <2>2, AnswerKeeps DEF Identity
  <2> QED BY <1>6, <2>1, <2>2 DEF Identity
<1>7. CASE Find(c)
  <2>1. PICK read : read = IF old.uid = supa.uid THEN user ELSE NoUser
    OBVIOUS
  <2> DEFINE call == [old EXCEPT !.at = "save", !.stale = FALSE, !.read = read]
  <2>2. read \in UserRows
    BY <1>2, <2>1, NoCallFits
  <2>3. mirror' = [mirror EXCEPT ![c] = call]
    <3>1. mirror' = [mirror EXCEPT ![c].at = "save", ![c].stale = FALSE, ![c].read = read]
      BY <1>1, <1>7, <2>1 DEF Find
    <3> QED BY <1>1, <1>2, <3>1
  <2>4. call \in MirrorRecords /\ call.at = "save" /\ call.uid = old.uid /\ call.read = read
    BY <1>1, <2>2 DEF MirrorRecords, Working
  <2> HIDE DEF call
  <2> QED BY <1>1, <1>4, <1>7, <2>1, <2>3, <2>4 DEF Find, Working
<1> QED BY <1>5, <1>6, <1>7

\* upsertFromAuth's save: whoever has read the row before is stale by it.
LEMMA SaveKeeps ==
  ASSUME SessInv, NEW c \in Calls, Save(c)
  PROVE  SessInv'
<1>1. PICK old \in MirrorRecords : old = mirror[c]
  BY DEF SessInv, SessTypes
<1>2. /\ MirrorFits(c) /\ mirror \in [Calls -> MirrorRecords] /\ user \in UserRows /\ supa \in SupaRecords
      /\ supa.begun \in Nat /\ supa.trouble \in Nat /\ supa.made \in Nat
  BY SessFields DEF SessInv, SessTypes
<1>3. UNCHANGED <<supa, session, browser, logged>> /\ old.at = "save"
  BY <1>1 DEF Save
<1>4. SupaGrows
  BY <1>2, <1>3 DEF SupaGrows
<1>5. CASE old.uid # supa.uid
  BY <1>1, <1>3, <1>5, AnswerKeeps DEF Save
<1>6. CASE old.uid = supa.uid
  <2>1. PICK token : token = TokenSaved(c)
    OBVIOUS
  <2>2. token \in Nat
    BY <1>1, <2>1 DEF TokenSaved, MirrorRecords, UserRows
  <2>3. user' = [there |-> TRUE, token |-> token, raced |-> old.stale]
    BY <1>1, <1>6, <2>1 DEF Save
  <2>4. user' \in UserRows /\ supa.uid # None
    <3>1. old.stale \in BOOLEAN
      BY DEF MirrorRecords
    <3>2. supa.uid # None
      BY <1>1, <1>2, <1>3, <1>6 DEF MirrorFits, Working
    <3> QED BY <2>2, <2>3, <3>1, <3>2 DEF UserRows
  <2>5. PICK call \in MirrorRecords : /\ Answers(c, TRUE) = [mirror EXCEPT ![c] = call]
                                      /\ call.at \notin Working /\ call.uid = None
    BY AnswerEnds
  <2>6. mirror' = [d \in Calls |-> IF d = c THEN call
                                   ELSE [mirror[d] EXCEPT !.stale = @ \/ mirror[d].at = "save"]]
    BY <1>1, <1>2, <1>6, <2>5 DEF Save
  <2>7. ASSUME NEW d \in Calls
        PROVE  mirror'[d] \in MirrorRecords /\ MirrorFits(d)'
    <3>1. CASE d = c
      <4>1. mirror'[d] = call
        BY <2>6, <3>1
      <4> QED BY <1>2, <1>3, <2>5, <4>1 DEF MirrorFits, None, Working
    <3>2. CASE d # c
      <4>1. PICK m \in MirrorRecords : m = mirror[d]
        BY <1>2
      <4>2. PICK stale : stale = (m.stale \/ m.at = "save")
        OBVIOUS
      <4>3. mirror'[d] = [m EXCEPT !.stale = stale]
        BY <2>6, <3>2, <4>1, <4>2
      <4>4. stale \in BOOLEAN
        BY <4>2 DEF MirrorRecords
      <4>5. /\ mirror'[d] \in MirrorRecords /\ mirror'[d].at = m.at /\ mirror'[d].uid = m.uid
            /\ mirror'[d].stale = stale
        BY <4>3, <4>4 DEF MirrorRecords
      <4>6. MirrorFits(d)
        BY DEF SessInv
      <4> QED BY <1>3, <4>1, <4>2, <4>5, <4>6 DEF MirrorFits
    <3> QED BY <3>1, <3>2
  <2>8. mirror' \in [Calls -> MirrorRecords]
    BY <2>6, <2>7
  <2> QED BY <1>3, <1>4, <2>4, <2>7, <2>8, Serving
<1> QED BY <1>5, <1>6

\* A page's /me that finds no row.
LEMMA GetMeKeeps ==
  ASSUME SessInv, GetMe
  PROVE  SessInv'
<1>1. /\ supa \in SupaRecords /\ supa.begun \in Nat /\ supa.trouble \in Nat /\ supa.uid \in Nat
      /\ user \in UserRows /\ supa.uid <= supa.made /\ Me \in Calls
      /\ UNCHANGED <<supa, session, user, browser, logged>>
  BY SessFields DEF SessInv, SessTypes, RowFits, GetMe, Calls
<1>2. PICK uid : uid = supa.uid
  OBVIOUS
<1>3. PICK call : call = [NoCall EXCEPT !.at = "identity", !.uid = uid]
  OBVIOUS
<1>4. call \in MirrorRecords /\ call.at = "identity" /\ call.uid = uid /\ uid # None
  BY <1>1, <1>2, <1>3, NoCallFits DEF GetMe, MirrorRecords, Working
<1>5. mirror' = [mirror EXCEPT ![Me] = call]
  BY <1>2, <1>3 DEF GetMe
<1>6. SupaGrows
  BY <1>1 DEF SupaGrows
<1>7. mirror' \in [Calls -> MirrorRecords] /\ \A d \in Calls : MirrorFits(d)'
  BY <1>1, <1>2, <1>4, <1>5, MirrorMoves
<1> QED BY <1>1, <1>6, <1>7, Serving

\* No step of the login breaks the invariant.
LEMMA SessionsKept ==
  ASSUME SessInv, SessionsNext
  PROVE  SessInv'
<1>1. ASSUME NEW b \in Browsers,
             \/ Visit(b) \/ Proxy(b) \/ Layout(b) \/ UserUnknown(b) \/ BrowserRefreshes(b) \/ TokenAges(b)
             \/ SignIn(b) \/ Exchange(b) \/ LoginFails(b) \/ PostSync(b) \/ SyncAnswered(b) \/ SyncLost(b)
             \/ SignInEvent(b) \/ SignOut(b) \/ SupabaseSignOut(b) \/ DeleteAccount(b) \/ DeleteMe(b)
      PROVE  SessInv'
  BY <1>1, LoadsKeep, GatesKeep, RefreshesKeep, AgesKeep, SignInKeeps, ExchangeKeeps, FailuresKeep,
     PostSyncKeeps, AnsweredKeeps, EventKeeps, SignOutKeeps, DeleteMeKeeps
<1>2. ASSUME NEW c \in Calls, Guard(c) \/ Identity(c) \/ Find(c) \/ Save(c)
      PROVE  SessInv'
  BY <1>2, CallsKeep, SaveKeeps
<1> QED BY <1>1, <1>2, GetMeKeeps, AgesKeep DEF SessionsNext

\* The token is lost to no save but a raced one.
LEMMA TokenStays ==
  ASSUME SessInv, SessionsNext
  PROVE  user.token # None /\ user'.there /\ user'.token = None => user'.raced
<1>1. SessTypes /\ RowFits /\ \A c \in Calls : MirrorFits(c)
  BY DEF SessInv
<1> DEFINE Keeps == user.token # None /\ user'.there /\ user'.token = None => user'.raced
<1>2. user' = user => Keeps
  OBVIOUS
<1>3. ASSUME NEW b \in Browsers, Exchange(b)
      PROVE  Keeps
  BY <1>1, <1>2, <1>3 DEF Exchange, RowFits
<1>4. ASSUME NEW b \in Browsers, DeleteMe(b)
      PROVE  Keeps
  BY <1>2, <1>4, NoCallFits DEF DeleteMe
<1>5. ASSUME NEW c \in Calls, Save(c)
      PROVE  Keeps
  <2>1. CASE mirror[c].uid # supa.uid
    BY <1>2, <1>5, <2>1 DEF Save
  <2>2. CASE mirror[c].uid = supa.uid
    <3>1. user'.token = TokenSaved(c) /\ user'.raced = mirror[c].stale
      BY <1>5, <2>2 DEF Save
    <3>2. MirrorFits(c) /\ mirror[c].at = "save"
      BY <1>1, <1>5 DEF Save
    <3>3. mirror[c].stale \in BOOLEAN
      BY <1>1 DEF SessTypes, MirrorRecords
    <3> QED BY <2>2, <3>1, <3>2, <3>3 DEF MirrorFits, TokenSaved
  <2> QED BY <2>1, <2>2
<1> HIDE DEF Keeps
<1>6. ASSUME NEW b \in Browsers,
             \/ Visit(b) \/ Proxy(b) \/ Layout(b) \/ UserUnknown(b) \/ BrowserRefreshes(b) \/ TokenAges(b)
             \/ SignIn(b) \/ LoginFails(b) \/ PostSync(b) \/ SyncAnswered(b) \/ SyncLost(b)
             \/ SignInEvent(b) \/ SignOut(b) \/ SupabaseSignOut(b) \/ DeleteAccount(b)
      PROVE  user' = user
  BY <1>6 DEF Visit, Proxy, Layout, UserUnknown, BrowserRefreshes, TokenAges, SignIn, LoginFails, PostSync,
              SyncAnswered, SyncLost, SignInEvent, SignOut, SupabaseSignOut, DeleteAccount
<1>7. ASSUME NEW c \in Calls, Guard(c) \/ Identity(c) \/ Find(c)
      PROVE  user' = user
  BY <1>7 DEF Guard, Identity, Find
<1>8. ASSUME GetMe \/ \E l \in Logins : GraceEnds(l)
      PROVE  user' = user
  BY <1>8 DEF GetMe, GraceEnds
<1>9. Keeps
  BY <1>2, <1>3, <1>4, <1>5, <1>6, <1>7, <1>8 DEF SessionsNext
<1> QED BY <1>9 DEF Keeps

\* What the invariant says of the runs' properties.
LEMMA SessInvSuffices ==
  ASSUME SessInv
  PROVE  SessionsTypeOK /\ NoRedirectLoop /\ LoggedMeansSynced /\ LostByDroppedCookies
<1>1. /\ SessTypes /\ RowFits /\ supa.uid \in Nat /\ supa.made \in Nat /\ supa.trouble \in 0 .. MaxTrouble
      /\ supa.begun \in Nat /\ supa.trouble \in Nat
  BY SessFields DEF SessInv, SessTypes, SupaRecords
<1>2. ASSUME NEW l \in Logins
      PROVE  /\ session[l].uid \in 0 .. supa.made /\ session[l].gen \in 0 .. MaxGen
             /\ session[l].reused => session[l].dropped
  BY <1>1 DEF SessInv, SessionFits, SessTypes, SessionRecords
<1>3. ASSUME NEW b \in Browsers
      PROVE  browser[b].cookie.login \in 0 .. supa.begun /\ browser[b].hops <= 2 + 2 * supa.trouble
  <2>1. /\ CookieFits(b) /\ HopsFit(b) /\ browser[b].hops \in Nat /\ browser[b].cookie.login \in Nat
    BY <1>1, SessFields DEF SessInv
  <2>2. Left(b) \in Nat
    BY DEF Left
  <2>3. browser[b].cookie.login \in 0 .. supa.begun
    BY <1>1, <2>1 DEF CookieFits, None
  <2> QED BY <1>1, <2>1, <2>2, <2>3 DEF HopsFit
<1>4. user.there => supa.uid # None
  BY <1>1 DEF RowFits
<1> QED
  BY <1>1, <1>2, <1>3, <1>4
  DEF SessInv, RowFits, SessionsTypeOK, NoRedirectLoop, LostByDroppedCookies

\* At the beginning nobody is logged in.
LEMMA SessionsBegin ==
  ASSUME SessionsInit
  PROVE  SessInv
<1>1. NoCookie \in Cookies /\ NoCookie.login = None /\ NoCookie.old = FALSE
  BY SessionsAssumption DEF NoCookie, Cookies, None
<1>2. /\ NoSession \in SessionRecords /\ NoSession.uid = None /\ NoSession.live = FALSE
      /\ NoSession.reused = FALSE
  BY SessionsAssumption DEF NoSession, SessionRecords, None
<1> HIDE DEF NoCookie, NoSession
<1>3. supa \in SupaRecords /\ supa.uid = 1 /\ supa.made = 1 /\ supa.begun = 0 /\ supa.trouble = 0
  BY SessionsAssumption DEF SessionsInit, SupaRecords
<1>4. user \in UserRows
  BY NoCallFits DEF SessionsInit, UserRows
<1>5. mirror \in [Calls -> MirrorRecords] /\ session \in [Logins -> SessionRecords] /\ logged = {}
  BY <1>2, NoCallFits DEF SessionsInit
<1>6. ASSUME NEW b \in Browsers
      PROVE  /\ browser[b] \in BrowserRecords /\ browser[b].at = "landing" /\ browser[b].hops = 0
             /\ browser[b].login = None /\ browser[b].cookie = NoCookie
  <2>1. browser[b] = [at |-> "landing", path |-> "/", cookie |-> NoCookie, hops |-> 0, login |-> None]
    BY DEF SessionsInit
  <2> QED BY <1>1, <2>1 DEF BrowserRecords, Shown, GuestOnly
<1>7. browser \in [Browsers -> BrowserRecords]
  BY <1>6 DEF SessionsInit
<1>8. \A b \in Browsers : CookieFits(b) /\ LoginFits(b) /\ HopsFit(b)
  BY <1>1, <1>3, <1>6 DEF CookieFits, LoginFits, HopsFit, None
<1>9. OwnLogins
  BY <1>1, <1>6 DEF OwnLogins
<1>10. \A l \in Logins : SessionFits(l)
  BY <1>2, <1>3 DEF SessionsInit, SessionFits, None
<1>11. \A c \in Calls : MirrorFits(c)
  BY <1>3, NoCallFits DEF SessionsInit, MirrorFits, None, Working
<1>12. RowFits /\ LoggedMeansSynced
  BY <1>3, <1>5 DEF RowFits, LoggedMeansSynced, None
<1> QED BY <1>3, <1>4, <1>5, <1>7, <1>8, <1>9, <1>10, <1>11, <1>12 DEF SessInv, SessTypes

\* The proxy, the layout and the callback agree about who is logged in, no page load
\* is redirected for ever, a login is in the audit log only after its sync, Supabase
\* ends a session only after a dropped cookie, and a stored GitHub token is lost to no
\* write but one that raced another (proxy.ts, callback/route.ts, user.repository.ts),
\* for any number of browsers, logins, refreshes and failures.
THEOREM SessionsAlwaysHold == Spec => SessionsHold
<1>1. Init => SessInv
  BY SessionsBegin DEF Init
<1>2. SessInv /\ [Next]_vars => /\ SessInv'
                                /\ [user.token # None /\ user'.there /\ user'.token = None => user'.raced]_sessionVars
  <2> SUFFICES ASSUME SessInv, [Next]_vars
               PROVE  /\ SessInv'
                      /\ [user.token # None /\ user'.there /\ user'.token = None => user'.raced]_sessionVars
    OBVIOUS
  <2>1. SessionsNext \/ UNCHANGED sessionVars
    BY DEF Next, ListingsFeature, RescoreFeature, AnalyticsFeature, SessionsFeature, ApiKeysFeature,
           LlmKeysFeature, CommitMessagesFeature, vars
  <2>2. CASE SessionsNext
    BY <2>2, SessionsKept, TokenStays
  <2>3. CASE UNCHANGED sessionVars
    <3>1. UNCHANGED <<supa, session, user, mirror, browser, logged>>
      BY <2>3 DEF sessionVars
    <3>2. SupaGrows
      BY <3>1, SessFields DEF SupaGrows, SessInv, SessTypes
    <3>3. user' \in UserRows /\ mirror' \in [Calls -> MirrorRecords] /\ \A c \in Calls : MirrorFits(c)'
      BY <3>1, CallsStay DEF SessInv, SessTypes
    <3>4. SessInv'
      BY <3>1, <3>2, <3>3, Serving
    <3> QED BY <2>3, <3>4
  <2> QED BY <2>1, <2>2, <2>3
<1>3. SessInv => SessionsTypeOK /\ NoRedirectLoop /\ LoggedMeansSynced /\ LostByDroppedCookies
  BY SessInvSuffices
<1> QED BY <1>1, <1>2, <1>3, PTL DEF Spec, SessionsHold, TokenKept

(***************************************************************************)
(* The statistics.                                                         *)
(***************************************************************************)
Versions == Nat \cup {NoVersion}
EntryRecords == [v : Versions, ttl : BOOLEAN, late : BOOLEAN]
ReaderRecords == [at : {"idle", "get", "load", "set"}, kind : Kinds \cup {""}, got : Versions,
                  forPage : BOOLEAN]
ChartRecords == [v : Versions, asked : BOOLEAN, failed : BOOLEAN, excused : BOOLEAN]
DataRecords == [version : Nat, announced : Nat, syncing : BOOLEAN, faults : Nat]
SweepRecords == [on : BOOLEAN, left : SUBSET Kinds]

CacheTypes ==
  /\ data \in DataRecords /\ sweep \in SweepRecords
  /\ cache \in [Kinds -> EntryRecords] /\ chart \in [Kinds -> ChartRecords]
  /\ reader \in [Readers -> ReaderRecords]
  /\ \A r \in Readers : reader[r].at # "idle" => reader[r].kind \in Kinds

EntryFits(k) ==
  cache[k].v # NoVersion /\ cache[k].v < data.announced => cache[k].late \/ k \in sweep.left
ChartFits(k) ==
  ~chart[k].asked /\ ~chart[k].failed /\ chart[k].v < data.announced => chart[k].excused

CacheInv == CacheTypes /\ \A k \in Kinds : EntryFits(k) /\ ChartFits(k)

\* Nothing of the cache moves in a step of the rescore job.
LEMMA CacheStays ==
  ASSUME CacheInv, UNCHANGED cacheVars
  PROVE  CacheInv'
<1>1. UNCHANGED <<data, cache, reader, sweep, chart>>
  BY DEF cacheVars
<1> QED BY <1>1 DEF CacheInv, CacheTypes, EntryFits, ChartFits

\* A page that asks again, or that nobody told, owes nothing.
LEMMA ChartsExcused ==
  ASSUME CacheInv, chart' = Untold \/ chart' = Refetch
  PROVE  chart' \in [Kinds -> ChartRecords] /\ \A k \in Kinds : ChartFits(k)'
<1>1. ASSUME NEW k \in Kinds
      PROVE  chart'[k] \in ChartRecords /\ (chart'[k].asked \/ chart'[k].excused)
  <2>1. PICK c \in ChartRecords : c = chart[k]
    BY DEF CacheInv, CacheTypes
  <2>2. CASE chart' = Untold
    <3>1. chart'[k] = [c EXCEPT !.excused = TRUE]
      BY <2>1, <2>2 DEF Untold
    <3> QED BY <3>1 DEF ChartRecords
  <2>3. CASE chart' = Refetch
    <3>1. chart'[k] = [c EXCEPT !.asked = TRUE, !.failed = FALSE, !.excused = FALSE]
      BY <2>1, <2>3 DEF Refetch
    <3> QED BY <3>1 DEF ChartRecords
  <2> QED BY <2>2, <2>3
<1>2. chart' \in [Kinds -> ChartRecords]
  BY <1>1 DEF Untold, Refetch
<1> QED BY <1>1, <1>2 DEF ChartFits

\* An event is announced: every entry is in the sweep's way.
LEMMA Announced ==
  ASSUME CacheInv, sweep' = [on |-> TRUE, left |-> Kinds], cache' = cache, data' \in DataRecords,
         chart' = Untold \/ chart' = Refetch,
         \/ reader' = reader
         \/ reader' = [r \in Readers |-> [reader[r] EXCEPT !.forPage = FALSE]]
  PROVE  CacheInv'
<1>1. \A k \in Kinds : EntryFits(k)'
  BY DEF EntryFits
<1>2. sweep' \in SweepRecords
  BY DEF SweepRecords
<1>3. ASSUME NEW r \in Readers
      PROVE  reader'[r] \in ReaderRecords /\ (reader'[r].at # "idle" => reader'[r].kind \in Kinds)
  <2>1. PICK old \in ReaderRecords : old = reader[r] /\ (old.at # "idle" => old.kind \in Kinds)
    BY DEF CacheInv, CacheTypes
  <2>2. CASE reader' = reader
    BY <2>1, <2>2
  <2>3. CASE reader' = [s \in Readers |-> [reader[s] EXCEPT !.forPage = FALSE]]
    <3>1. reader'[r] = [old EXCEPT !.forPage = FALSE]
      BY <2>1, <2>3
    <3> QED BY <2>1, <3>1 DEF ReaderRecords
  <2> QED BY <2>2, <2>3
<1>4. reader' \in [Readers -> ReaderRecords]
  BY <1>3 DEF CacheInv, CacheTypes
<1> QED BY <1>1, <1>2, <1>3, <1>4, ChartsExcused DEF CacheInv, CacheTypes

\* The writers and their events.
LEMMA WritersKeep ==
  ASSUME CacheInv,
         SyncWrites \/ RescoreWrites \/ RescoreEnds \/ Purges \/ \E seen \in BOOLEAN : SyncEnds(seen)
  PROVE  CacheInv'
<1>1. data \in DataRecords
  BY DEF CacheInv, CacheTypes
<1>2. ASSUME UNCHANGED <<cache, reader, sweep, chart>>, data' \in DataRecords,
             data'.announced = data.announced
      PROVE  CacheInv'
  BY <1>2 DEF CacheInv, CacheTypes, EntryFits, ChartFits
<1>3. ASSUME SyncWrites \/ RescoreWrites
      PROVE  CacheInv'
  <2> DEFINE n == data.version + 1
  <2>1. data' = [data EXCEPT !.version = n] \/ data' = [data EXCEPT !.version = n, !.syncing = TRUE]
    BY <1>3 DEF SyncWrites, RescoreWrites
  <2>2. data' \in DataRecords /\ data'.announced = data.announced
    <3>1. n \in Nat
      BY <1>1 DEF DataRecords
    <3> HIDE DEF n
    <3> QED BY <1>1, <2>1, <3>1 DEF DataRecords
  <2>3. UNCHANGED <<cache, reader, sweep, chart>>
    BY <1>3 DEF SyncWrites, RescoreWrites
  <2> QED BY <1>2, <2>2, <2>3
<1>4. ASSUME NEW trigger, Invalidate(trigger)
      PROVE  data' \in DataRecords /\ sweep' = [on |-> TRUE, left |-> Kinds]
  BY <1>1, <1>4 DEF Invalidate, DataRecords
<1>5. CASE RescoreEnds
  <2>1. CASE Invalidate("rescored") /\ chart' = Untold
    <3>1. cache' = cache /\ reader' = reader
      BY <1>5 DEF RescoreEnds
    <3> QED BY <1>4, <2>1, <3>1, Announced
  <2>2. CASE UNCHANGED <<sweep, data, chart>>
    <3>1. UNCHANGED cacheVars
      BY <1>5, <2>2 DEF RescoreEnds, cacheVars
    <3> QED BY <3>1, CacheStays
  <2> QED BY <1>5, <2>1, <2>2 DEF RescoreEnds
<1>6. CASE Purges
  <2> DEFINE n == data.version + 1
  <2>1. data' = [data EXCEPT !.version = n, !.announced = n]
    BY <1>6 DEF Purges
  <2>2. data' \in DataRecords
    <3>1. n \in Nat
      BY <1>1 DEF DataRecords
    <3> HIDE DEF n
    <3> QED BY <1>1, <2>1, <3>1 DEF DataRecords
  <2> QED BY <1>6, <2>2, Announced DEF Purges
<1>7. ASSUME NEW seen \in BOOLEAN, SyncEnds(seen)
      PROVE  CacheInv'
  <2>1. Invalidate("synced") /\ cache' = cache
    BY <1>7 DEF SyncEnds
  <2>2. chart' = Untold \/ chart' = Refetch
    BY <1>7 DEF SyncEnds
  <2>3. reader' = reader \/ reader' = [r \in Readers |-> [reader[r] EXCEPT !.forPage = FALSE]]
    BY <1>7 DEF SyncEnds
  <2> QED BY <1>4, <2>1, <2>2, <2>3, Announced
<1> QED BY <1>3, <1>5, <1>6, <1>7

\* The sweep, also where Redis fails, and the time to live.
LEMMA SweepsKeep ==
  ASSUME CacheInv, SweepStep \/ SweepFails \/ \E k \in Kinds : Expire(k)
  PROVE  CacheInv'
<1>1. /\ data \in DataRecords /\ sweep \in SweepRecords /\ cache \in [Kinds -> EntryRecords]
      /\ chart \in [Kinds -> ChartRecords] /\ \A k \in Kinds : EntryFits(k) /\ ChartFits(k)
  BY DEF CacheInv, CacheTypes
<1>2. reader' = reader /\ chart' = chart
  BY DEF SweepStep, SweepFails, Expire
<1>3. ASSUME data' \in DataRecords, data'.announced = data.announced, sweep' \in SweepRecords,
             \A k \in Kinds : cache'[k] \in EntryRecords /\ EntryFits(k)',
             cache' \in [Kinds -> EntryRecords]
      PROVE  CacheInv'
  BY <1>1, <1>2, <1>3 DEF CacheInv, CacheTypes, ChartFits
<1>4. Absent \in EntryRecords /\ Absent.v = NoVersion
  BY DEF Absent, EntryRecords, Versions
<1>5. NoSweep \in SweepRecords /\ NoSweep.left = {}
  BY DEF NoSweep, SweepRecords
<1> HIDE DEF Absent, NoSweep, NoVersion, Versions
<1>6. CASE SweepStep
  <2>1. data' = data
    BY <1>6 DEF SweepStep
  <2>2. CASE sweep.left = {}
    <3>1. sweep' = NoSweep /\ cache' = cache
      BY <1>6, <2>2 DEF SweepStep
    <3> QED BY <1>1, <1>3, <1>5, <2>1, <2>2, <3>1 DEF EntryFits
  <2>3. CASE sweep.left # {}
    <3>1. PICK k \in sweep.left : /\ sweep' = [sweep EXCEPT !.left = @ \ {k}]
                                  /\ cache' = [cache EXCEPT ![k] = Absent]
      BY <1>6, <2>3 DEF SweepStep
    <3>2. k \in Kinds /\ sweep' \in SweepRecords /\ sweep'.left = sweep.left \ {k}
      BY <1>1, <3>1 DEF SweepRecords
    <3>3. ASSUME NEW j \in Kinds
          PROVE  cache'[j] \in EntryRecords /\ EntryFits(j)'
      <4>1. CASE j = k
        BY <1>1, <1>4, <3>1, <3>2, <4>1 DEF EntryFits
      <4>2. CASE j # k
        BY <1>1, <2>1, <3>1, <3>2, <4>2 DEF EntryFits
      <4> QED BY <4>1, <4>2
    <3> QED BY <1>1, <1>3, <1>4, <2>1, <3>1, <3>2, <3>3
  <2> QED BY <2>2, <2>3
<1>7. CASE SweepFails
  <2> DEFINE n == data.faults + 1
  <2>1. data' = [data EXCEPT !.faults = n] /\ sweep' = NoSweep
    BY <1>7 DEF SweepFails
  <2>2. data' \in DataRecords /\ data'.announced = data.announced
    <3>1. n \in Nat
      BY <1>1 DEF DataRecords
    <3> HIDE DEF n
    <3> QED BY <1>1, <2>1, <3>1 DEF DataRecords
  <2>3. ASSUME NEW k \in Kinds
        PROVE  cache'[k] \in EntryRecords /\ EntryFits(k)'
    <3>1. PICK e \in EntryRecords : e = cache[k]
      BY <1>1
    <3>2. PICK late \in BOOLEAN : late = (e.late \/ k \in sweep.left)
      OBVIOUS
    <3>3. cache'[k] = [e EXCEPT !.late = late]
      BY <1>7, <3>1, <3>2 DEF SweepFails
    <3>4. cache'[k] \in EntryRecords /\ cache'[k].v = e.v /\ cache'[k].late = late
      BY <3>3 DEF EntryRecords
    <3> QED BY <1>1, <2>2, <3>1, <3>2, <3>4 DEF EntryFits
  <2>4. cache' \in [Kinds -> EntryRecords]
    BY <1>7, <2>3 DEF SweepFails
  <2> QED BY <1>3, <1>5, <2>1, <2>2, <2>3, <2>4
<1>8. ASSUME NEW k \in Kinds, Expire(k)
      PROVE  CacheInv'
  <2>1. data' = data /\ sweep' = sweep /\ cache' = [cache EXCEPT ![k] = Absent]
    BY <1>8 DEF Expire
  <2>2. ASSUME NEW j \in Kinds
        PROVE  cache'[j] \in EntryRecords /\ EntryFits(j)'
    <3>1. CASE j = k
      BY <1>1, <1>4, <2>1, <3>1 DEF EntryFits
    <3>2. CASE j # k
      BY <1>1, <2>1, <3>2 DEF EntryFits
    <3> QED BY <3>1, <3>2
  <2> QED BY <1>1, <1>3, <1>4, <2>1, <2>2
<1> QED BY <1>6, <1>7, <1>8

\* An answer that is older than the last event was met on the sweep's way, or is
\* that of a late fill.
LEMMA ReturnFits ==
  ASSUME CacheInv, NEW r \in Readers, reader[r].at # "idle", NEW v \in Versions, NEW raced \in BOOLEAN,
         Return(r, v, raced), v < data.announced => raced, data' = data, sweep' = sweep,
         cache' \in [Kinds -> EntryRecords], \A k \in Kinds : EntryFits(k)'
  PROVE  CacheInv'
<1>1. PICK old \in ReaderRecords : old = reader[r] /\ old.kind \in Kinds
  BY DEF CacheInv, CacheTypes
<1>2. /\ chart \in [Kinds -> ChartRecords] /\ reader \in [Readers -> ReaderRecords]
      /\ \A k \in Kinds : ChartFits(k)
  BY DEF CacheInv, CacheTypes
<1>3. reader' = [reader EXCEPT ![r] = NoRead]
  BY DEF Return
<1>4. NoRead \in ReaderRecords /\ NoRead.at = "idle"
  BY DEF NoRead, ReaderRecords, Versions, NoVersion
<1>5. /\ reader' \in [Readers -> ReaderRecords]
      /\ \A s \in Readers : reader'[s].at # "idle" => reader'[s].kind \in Kinds
  BY <1>3, <1>4 DEF CacheInv, CacheTypes
<1>6. chart' \in [Kinds -> ChartRecords] /\ \A k \in Kinds : ChartFits(k)'
  <2>1. CASE chart' = chart
    BY <1>2, <2>1 DEF ChartFits
  <2>2. ASSUME chart' = [chart EXCEPT ![old.kind] = [v |-> v, asked |-> FALSE, failed |-> FALSE,
                                                       excused |-> raced]]
        PROVE  chart' \in [Kinds -> ChartRecords] /\ \A k \in Kinds : ChartFits(k)'
    <3>1. PICK c \in ChartRecords : c = [v |-> v, asked |-> FALSE, failed |-> FALSE, excused |-> raced]
      BY DEF ChartRecords
    <3>2. chart' = [chart EXCEPT ![old.kind] = c] /\ c.v = v /\ c.excused = raced
      BY <2>2, <3>1
    <3>3. chart' \in [Kinds -> ChartRecords] /\ chart'[old.kind] = c
      BY <1>1, <1>2, <3>2
    <3>4. ASSUME NEW k \in Kinds
          PROVE  ChartFits(k)'
      <4>1. CASE k = old.kind
        BY <3>2, <3>3, <4>1 DEF ChartFits
      <4>2. CASE k # old.kind
        BY <1>2, <3>2, <4>2 DEF ChartFits
      <4> QED BY <4>1, <4>2
    <3> QED BY <3>3, <3>4
  <2> QED BY <1>1, <2>1, <2>2 DEF Return
<1> QED BY <1>5, <1>6 DEF CacheInv, CacheTypes

\* The readers, and the page that asks again.
LEMMA ReadersKeep ==
  ASSUME CacheInv, (\E r \in Readers : ReaderStep(r)) \/ (\E k \in Kinds : RetryChart(k))
  PROVE  CacheInv'
<1>1. /\ data \in DataRecords /\ sweep \in SweepRecords /\ cache \in [Kinds -> EntryRecords]
      /\ chart \in [Kinds -> ChartRecords] /\ reader \in [Readers -> ReaderRecords]
      /\ \A k \in Kinds : EntryFits(k) /\ ChartFits(k)
      /\ \A r \in Readers : reader[r].at # "idle" => reader[r].kind \in Kinds
  BY DEF CacheInv, CacheTypes
<1>2. data' = data /\ sweep' = sweep
  BY DEF ReaderStep, Begin, Get, Load, LoadFails, Set, RetryChart
<1>3. cache' = cache => cache' \in [Kinds -> EntryRecords] /\ \A k \in Kinds : EntryFits(k)'
  BY <1>1, <1>2 DEF EntryFits
<1>4. ASSUME NEW r \in Readers, NEW new \in ReaderRecords, reader' = [reader EXCEPT ![r] = new],
             new.at # "idle" => new.kind \in Kinds, cache' = cache,
             chart' \in [Kinds -> ChartRecords], \A k \in Kinds : ChartFits(k)'
      PROVE  CacheInv'
  BY <1>1, <1>2, <1>3, <1>4 DEF CacheInv, CacheTypes
<1>5. chart' = chart => chart' \in [Kinds -> ChartRecords] /\ \A k \in Kinds : ChartFits(k)'
  BY <1>1, <1>2 DEF ChartFits
<1>6. ASSUME NEW k \in Kinds, NEW c \in ChartRecords, chart' = [chart EXCEPT ![k] = c], c.asked \/ c.failed
      PROVE  chart' \in [Kinds -> ChartRecords] /\ \A j \in Kinds : ChartFits(j)'
  <2>1. ASSUME NEW j \in Kinds
        PROVE  ChartFits(j)'
    <3>1. CASE j = k
      BY <1>1, <1>6, <3>1 DEF ChartFits
    <3>2. CASE j # k
      BY <1>1, <1>2, <1>6, <3>2 DEF ChartFits
    <3> QED BY <3>1, <3>2
  <2> QED BY <1>1, <1>6, <2>1
<1>7. ASSUME NEW r \in Readers, NEW k \in Kinds, Begin(r, k)
      PROVE  CacheInv'
  <2>1. PICK forPage \in BOOLEAN :
          reader' = [reader EXCEPT ![r] = [at |-> "get", kind |-> k, got |-> NoVersion,
                                           forPage |-> forPage]]
    BY <1>7 DEF Begin
  <2>2. PICK new : new = [at |-> "get", kind |-> k, got |-> NoVersion, forPage |-> forPage]
    OBVIOUS
  <2>3. new \in ReaderRecords /\ new.kind = k
    BY <2>2 DEF ReaderRecords, Versions
  <2>4. cache' = cache /\ chart' = chart
    BY <1>7 DEF Begin
  <2> QED BY <1>4, <1>5, <2>1, <2>2, <2>3, <2>4
<1>8. ASSUME NEW r \in Readers, Get(r) \/ Load(r) \/ LoadFails(r) \/ Set(r)
      PROVE  CacheInv'
  <2>1. PICK old \in ReaderRecords : old = reader[r] /\ old.kind \in Kinds
    BY <1>1, <1>8 DEF Get, Load, LoadFails, Set
  <2>2. PICK entry \in EntryRecords : entry = cache[old.kind]
    BY <1>1, <2>1
  <2>3. CASE Get(r)
    <3>0. cache' = cache
      BY <2>3 DEF Get
    <3>1. CASE entry.v # NoVersion
      <4>1. PICK raced \in BOOLEAN : raced = (entry.late \/ old.kind \in sweep.left)
        OBVIOUS
      <4>2. Return(r, entry.v, raced)
        BY <2>1, <2>2, <2>3, <3>1, <4>1 DEF Get
      <4>3. entry.v < data.announced => raced
        BY <1>1, <2>1, <2>2, <3>1, <4>1 DEF EntryFits
      <4>4. entry.v \in Versions /\ reader[r].at # "idle"
        BY <2>3 DEF EntryRecords, Get
      <4> QED BY <1>2, <1>3, <3>0, <4>2, <4>3, <4>4, ReturnFits
    <3>2. CASE entry.v = NoVersion
      <4> DEFINE new == [old EXCEPT !.at = "load"]
      <4>1. reader' = [reader EXCEPT ![r] = new] /\ chart' = chart
        BY <1>1, <2>1, <2>2, <2>3, <3>2 DEF Get
      <4>2. new \in ReaderRecords /\ new.kind = old.kind
        BY <2>1 DEF ReaderRecords
      <4> HIDE DEF new
      <4> QED BY <1>4, <1>5, <2>1, <3>0, <4>1, <4>2
    <3> QED BY <3>1, <3>2
  <2>4. CASE Load(r)
    <3> DEFINE new == [old EXCEPT !.at = "set", !.got = data.version]
    <3>1. reader' = [reader EXCEPT ![r] = new] /\ chart' = chart /\ cache' = cache
      BY <1>1, <2>1, <2>4 DEF Load
    <3>2. data.version \in Versions
      BY <1>1 DEF DataRecords, Versions
    <3>3. new \in ReaderRecords /\ new.kind = old.kind
      BY <2>1, <3>2 DEF ReaderRecords
    <3> HIDE DEF new
    <3> QED BY <1>4, <1>5, <2>1, <3>1, <3>3
  <2>5. CASE LoadFails(r)
    <3>1. reader' = [reader EXCEPT ![r] = NoRead] /\ cache' = cache
      BY <2>5 DEF LoadFails
    <3>2. NoRead \in ReaderRecords /\ NoRead.at = "idle"
      BY DEF NoRead, ReaderRecords, Versions, NoVersion
    <3>3. chart' \in [Kinds -> ChartRecords] /\ \A k \in Kinds : ChartFits(k)'
      <4>1. PICK c \in ChartRecords : c = chart[old.kind]
        BY <1>1, <2>1
      <4> DEFINE new == [c EXCEPT !.asked = FALSE, !.failed = TRUE]
      <4>2. new \in ChartRecords /\ new.failed
        BY DEF ChartRecords
      <4>3. chart' = chart \/ chart' = [chart EXCEPT ![old.kind] = new]
        BY <1>1, <2>1, <2>5, <4>1 DEF LoadFails
      <4> HIDE DEF new
      <4> QED BY <1>5, <1>6, <2>1, <4>2, <4>3
    <3> QED BY <1>4, <3>1, <3>2, <3>3
  <2>6. CASE Set(r)
    <3>0. old.got \in Int /\ data.announced \in Int
      <4>1. old.got \in Versions /\ data.announced \in Nat
        BY <1>1 DEF ReaderRecords, DataRecords
      <4>2. NoVersion \in Int
        BY DEF NoVersion
      <4> HIDE DEF NoVersion
      <4> QED BY <4>1, <4>2 DEF Versions
    <3>1. PICK late \in BOOLEAN : late = (old.got < data.announced)
      <4>1. CASE old.got < data.announced
        <5>1. TRUE = (old.got < data.announced)
          BY <4>1
        <5> QED BY <5>1
      <4>2. CASE ~(old.got < data.announced)
        <5>1. FALSE = (old.got < data.announced)
          BY <4>2
        <5> QED BY <5>1
      <4> QED BY <4>1, <4>2
    <3>2. Return(r, old.got, late)
      BY <2>1, <2>6, <3>1 DEF Set
    <3>3. PICK e : e = [v |-> old.got, ttl |-> TRUE, late |-> late]
      OBVIOUS
    <3>4. e \in EntryRecords /\ e.v = old.got /\ e.late = late
      BY <3>3 DEF EntryRecords, ReaderRecords
    <3>5. cache' = cache \/ cache' = [cache EXCEPT ![old.kind] = e]
      BY <2>1, <2>6, <3>1, <3>3 DEF Set, Stored
    <3>6. cache' \in [Kinds -> EntryRecords] /\ \A k \in Kinds : EntryFits(k)'
      <4>1. CASE cache' = cache
        BY <1>3, <4>1
      <4>2. ASSUME cache' = [cache EXCEPT ![old.kind] = e], NEW k \in Kinds
            PROVE  EntryFits(k)'
        <5>1. CASE k = old.kind
          BY <1>1, <1>2, <3>1, <3>4, <4>2, <5>1 DEF EntryFits
        <5>2. CASE k # old.kind
          BY <1>1, <1>2, <4>2, <5>2 DEF EntryFits
        <5> QED BY <5>1, <5>2
      <4> QED BY <1>1, <3>4, <3>5, <4>1, <4>2
    <3>7. old.got \in Versions /\ reader[r].at # "idle"
      BY <2>6 DEF ReaderRecords, Set
    <3> QED BY <1>2, <3>1, <3>2, <3>6, <3>7, ReturnFits
  <2> QED BY <1>8, <2>3, <2>4, <2>5, <2>6
<1>9. ASSUME NEW k \in Kinds, RetryChart(k)
      PROVE  CacheInv'
  <2>1. PICK c \in ChartRecords : c = chart[k]
    BY <1>1
  <2> DEFINE new == [c EXCEPT !.asked = TRUE, !.failed = FALSE]
  <2>2. new \in ChartRecords /\ new.asked
    BY DEF ChartRecords
  <2>3. chart' = [chart EXCEPT ![k] = new] /\ cache' = cache /\ reader' = reader
    BY <1>1, <1>9, <2>1 DEF RetryChart
  <2> HIDE DEF new
  <2>4. chart' \in [Kinds -> ChartRecords] /\ \A j \in Kinds : ChartFits(j)'
    BY <1>6, <2>2, <2>3
  <2> QED BY <1>1, <1>2, <1>3, <2>3, <2>4 DEF CacheInv, CacheTypes
<1> QED BY <1>7, <1>8, <1>9 DEF ReaderStep

\* At the beginning nothing is cached, and nothing was announced.
LEMMA CacheBegins ==
  ASSUME CacheInit
  PROVE  CacheInv
<1>1. NoVersion = -1 /\ NoVersion \in Versions /\ 0 \in Versions
  BY DEF NoVersion, Versions
<1>2. Absent \in EntryRecords /\ Absent.v = NoVersion
  BY DEF Absent, EntryRecords, Versions
<1>3. NoRead \in ReaderRecords /\ NoRead.at = "idle"
  BY DEF NoRead, ReaderRecords, Versions
<1>4. data \in DataRecords /\ data.announced = 0
  BY DEF CacheInit, DataRecords
<1>5. sweep \in SweepRecords
  BY DEF CacheInit, NoSweep, SweepRecords
<1> HIDE DEF Absent, NoRead, NoVersion, Versions
<1>6. cache \in [Kinds -> EntryRecords] /\ \A k \in Kinds : cache[k] = Absent
  BY <1>2 DEF CacheInit
<1>7. reader \in [Readers -> ReaderRecords] /\ \A r \in Readers : reader[r].at = "idle"
  BY <1>3 DEF CacheInit
<1>8. chart \in [Kinds -> ChartRecords] /\ \A k \in Kinds : chart[k].v = 0
  <2>1. [v |-> 0, asked |-> FALSE, failed |-> FALSE, excused |-> FALSE] \in ChartRecords
    BY <1>1 DEF ChartRecords
  <2> QED BY <2>1 DEF CacheInit
<1> QED BY <1>2, <1>4, <1>5, <1>6, <1>7, <1>8 DEF CacheInv, CacheTypes, EntryFits, ChartFits

\* An entry is older than the last event only in the way of a sweep, after a failed one
\* or by a late fill, and the page that was told of a sync shows its data but for such
\* an entry (analytics-cache.service.ts, on-repository-synced.handler.ts), for any number
\* of kinds, readers and writes.
THEOREM StatsAlwaysFollow == Spec => []StatsFollowSync
<1>1. Init => CacheInv
  BY CacheBegins DEF Init, AnalyticsInit
<1>2. CacheInv /\ [Next]_vars => CacheInv'
  <2> SUFFICES ASSUME CacheInv, [Next]_vars
               PROVE  CacheInv'
    OBVIOUS
  <2>1. AnalyticsNext \/ UNCHANGED cacheVars
    BY DEF Next, ListingsFeature, RescoreFeature, AnalyticsFeature, SessionsFeature, ApiKeysFeature,
           LlmKeysFeature, CommitMessagesFeature, vars, analyticsVars
  <2>2. CASE AnalyticsNext
    BY <2>2, WritersKeep, SweepsKeep, ReadersKeep, CacheStays DEF AnalyticsNext, RescoreStep
  <2> QED BY <2>1, <2>2, CacheStays
<1>3. CacheInv => StatsFollowSync
  BY DEF CacheInv, EntryFits, ChartFits, StatsFollowSync, StaleOnlyByOverlap, PageShowsSync
<1> QED BY <1>1, <1>2, <1>3, PTL DEF Spec

-----------------------------------------------------------------------------
\* The paged lists.

ListRows == [id : RowIds, at : Ticks, type : EventTypes]
Filters == EventTypes \cup {NoFilter}
Views == {"history", "activity"}
Cursors == {NoCursor} \cup [at : Nat, id : RowIds]
ListKeys == [filter : Filters, cursor : Cursors]
Bodies == [items : Seq(ListRows), next : Cursors, from : SUBSET ListRows]
ListPages == [cursor : Cursors, items : Seq(ListRows), next : Cursors]
ListCaches == UNION {[K -> Bodies] : K \in SUBSET ListKeys}
ListViews ==
  [view : Views, filter : Filters, pages : Seq(ListPages), cached : ListCaches,
   asked : SUBSET ListKeys, failed : SUBSET ListKeys, open : RowIds \cup {NoneOpen}, changes : Nat]

RowsFit(R) ==
  R \subseteq ListRows /\ IsFiniteSet(R) /\ \A r, s \in R : r.id = s.id => r = s

\* The rows of a page, or of a body, pass the filter and lie behind its cursor, newest
\* first, and the next cursor is its last row's.
PageFits(R, view, filter, c, p) ==
  /\ p.items \in Seq(R)
  /\ \A i, j \in 1 .. Len(p.items) : i < j => Before(p.items[i], p.items[j])
  /\ \A i \in 1 .. Len(p.items) : Matches(p.items[i], filter) /\ AfterCursor(view, p.items[i], c)
  /\ p.next # NoCursor => p.items # <<>> /\ p.next = CursorOf(Last(p.items))

\* What a body leaves out of the rows behind its cursor lies behind its last row, or came
\* after it was read: such a row can only be behind the cursor if it is of its date.
LeavesNoneOut(R, view, key, body) ==
  \A r \in R : Matches(r, key.filter) /\ AfterCursor(view, r, key.cursor) =>
    \/ r \in ToSet(body.items)
    \/ body.next # NoCursor /\ Before(Last(body.items), r)
    \/ key.cursor = NoCursor /\ r \notin body.from
    \/ key.cursor # NoCursor /\ r.at = key.cursor.at

CursorKnown(R, c) == c = NoCursor \/ \E r \in R : c = CursorOf(r)

BodyFits(R, view, key, body) ==
  /\ body.from \subseteq R
  /\ PageFits(R, view, key.filter, key.cursor, body) /\ LeavesNoneOut(R, view, key, body)

BodiesFit(R, l) ==
  /\ \A k \in l.asked : CursorKnown(R, k.cursor)
  /\ \A k \in DOMAIN l.cached : CursorKnown(R, k.cursor) /\ BodyFits(R, l.view, k, l.cached[k])

\* The pages hang together: each begins where the one before it ended.
PagesHang(R, l) ==
  /\ Len(l.pages) > 0 /\ l.pages[1].cursor = NoCursor
  /\ \A i \in 1 .. Len(l.pages) : PageFits(R, l.view, l.filter, l.pages[i].cursor, l.pages[i])
  /\ \A i \in 1 .. Len(l.pages) - 1 :
       l.pages[i].next # NoCursor /\ l.pages[i + 1].cursor = l.pages[i].next

PagesOrdered(l) ==
  \A i, j \in 1 .. Len(l.pages) : i < j =>
    \A a \in 1 .. Len(l.pages[i].items), b \in 1 .. Len(l.pages[j].items) :
      Before(l.pages[i].items[a], l.pages[j].items[b])

\* Of what the first page was read from, the walk has shown a row, has lost it to a
\* cursor or has still to come to it.
PassedBy(l, r) ==
  \E i \in 1 .. Len(l.pages) - 1 :
    r \in ToSet(l.pages[i].items) \/ Millis(Last(l.pages[i].items).at) = Millis(r.at)
WalkGoesOn(l) ==
  Len(l.pages) > 1 =>
    LET first == Key(l.filter, NoCursor) IN
    /\ first \in DOMAIN l.cached /\ first \notin l.asked
    /\ \A r \in l.cached[first].from : Matches(r, l.filter) =>
         PassedBy(l, r) \/ AfterCursor(l.view, r, LastPage(l).cursor)

Walks(R, l) ==
  l \in ListViews /\ BodiesFit(R, l) /\ PagesHang(R, l) /\ PagesOrdered(l) /\ WalkGoesOn(l)

\* The last page shows what is cached under its key.
LastShown(l) ==
  IF ActiveKey(l) \in DOMAIN l.cached
  THEN LastPage(l).items = l.cached[ActiveKey(l)].items /\ LastPage(l).next = l.cached[ActiveKey(l)].next
  ELSE LastPage(l).next = NoCursor

ListInv == RowsFit(rows) /\ Walks(rows, list) /\ LastShown(list)

-----------------------------------------------------------------------------
\* The order of the rows.

\* Rows are ordered by date and id.
LEMMA BeforeOrders ==
  ASSUME NEW R, RowsFit(R)
  PROVE  /\ \A r \in R : r \in ListRows /\ r.at \in Nat /\ r.id \in Nat /\ ~Before(r, r)
         /\ \A r, s \in R : Before(r, s) => ~Before(s, r)
         /\ \A r, s \in R : r # s => Before(r, s) \/ Before(s, r)
         /\ \A r, s, u \in R : Before(r, s) /\ Before(s, u) => Before(r, u)
<1>1. \A r \in R : r \in ListRows /\ r.at \in Nat /\ r.id \in Nat
  BY ListsAssumption DEF RowsFit, ListRows
<1>2. \A r, s \in R : r # s => r.id # s.id
  BY DEF RowsFit
<1> QED BY <1>1, <1>2 DEF Before

\* A set of rows has one sequence that lists it newest first.
LEMMA SortedOnce ==
  ASSUME NEW S, RowsFit(S)
  PROVE  \E s \in SetToSeqs(S) : \A i, j \in DOMAIN s : i < j => Before(s[i], s[j])
<1> DEFINE n == Cardinality(S)
           Earlier(r) == {x \in S : Before(x, r)}
           rank == [r \in S |-> Cardinality(Earlier(r)) + 1]
<1>1. IsFiniteSet(S) /\ n \in Nat
  BY FS_CardinalityType DEF RowsFit
<1>2. ASSUME NEW r \in S
      PROVE  IsFiniteSet(Earlier(r)) /\ Cardinality(Earlier(r)) \in Nat /\ Cardinality(Earlier(r)) < n
  <2>1. Earlier(r) \in SUBSET S /\ Earlier(r) # S
    BY BeforeOrders
  <2>2. /\ IsFiniteSet(Earlier(r)) /\ Cardinality(Earlier(r)) <= n
        /\ n = Cardinality(Earlier(r)) => S = Earlier(r)
    BY <1>1, <2>1, FS_Subset
  <2>3. Cardinality(Earlier(r)) \in Nat
    BY <2>2, FS_CardinalityType
  <2> QED BY <1>1, <2>1, <2>2, <2>3
<1>3. ASSUME NEW r \in S, NEW s \in S, Before(r, s)
      PROVE  rank[r] < rank[s]
  <2>1. Earlier(r) \in SUBSET Earlier(s) /\ r \in Earlier(s) /\ r \notin Earlier(r)
    BY <1>3, BeforeOrders
  <2>2. /\ Cardinality(Earlier(r)) <= Cardinality(Earlier(s))
        /\ Cardinality(Earlier(s)) = Cardinality(Earlier(r)) => Earlier(s) = Earlier(r)
    BY <1>2, <2>1, FS_Subset
  <2>3. Cardinality(Earlier(r)) # Cardinality(Earlier(s))
    BY <2>1, <2>2
  <2>4. Cardinality(Earlier(r)) \in Nat /\ Cardinality(Earlier(s)) \in Nat
    BY <1>2
  <2> HIDE DEF Earlier
  <2> QED BY <2>2, <2>3, <2>4
<1>4. \A r \in S : rank[r] \in 1 .. n
  <2> HIDE DEF Earlier, n
  <2> QED BY <1>1, <1>2
<1> HIDE DEF Earlier
<1>5. rank \in [S -> 1 .. n]
  BY <1>4
<1>6. DOMAIN rank = S
  OBVIOUS
<1> HIDE DEF rank
<1>7. rank \in Injection(S, 1 .. n)
  <2>1. ASSUME NEW r \in S, NEW s \in S, r # s
        PROVE  rank[r] # rank[s]
    <3>1. rank[r] < rank[s] \/ rank[s] < rank[r]
      BY <1>3, <2>1, BeforeOrders
    <3>2. rank[r] \in Nat /\ rank[s] \in Nat
      BY <1>4
    <3> QED BY <3>1, <3>2
  <2> QED BY <1>5, <1>6, <2>1 DEF Injection, IsInjective
<1>8. IsFiniteSet(1 .. n) /\ Cardinality(1 .. n) = n
  <2>1. 1 \in Int /\ n \in Int
    BY <1>1
  <2>2. IsFiniteSet(1 .. n) /\ Cardinality(1 .. n) = IF 1 > n THEN 0 ELSE n - 1 + 1
    BY <2>1, FS_Interval
  <2> HIDE DEF n
  <2> QED BY <1>1, <2>2
<1>9. \A i \in 1 .. n : \E r \in S : rank[r] = i
  <2>1. rank \in Surjection(S, 1 .. n)
    BY <1>7, <1>8, FS_Injection
  <2> QED BY <2>1 DEF Surjection
<1> DEFINE g == [i \in 1 .. n |-> CHOOSE r \in S : rank[r] = i]
<1>10. \A i \in 1 .. n : g[i] \in S /\ rank[g[i]] = i
  BY <1>9
<1>11. g \in [1 .. n -> S] /\ DOMAIN g = 1 .. n
  BY <1>10
<1> HIDE DEF g
<1>12. \A i, j \in 1 .. n : i # j => g[i] # g[j]
  BY <1>10
<1>13. ASSUME NEW i \in 1 .. n, NEW j \in 1 .. n, i < j
       PROVE  Before(g[i], g[j])
  <2>1. CASE Before(g[j], g[i])
    <3>1. rank[g[j]] < rank[g[i]]
      BY <1>3, <1>10, <2>1
    <3>2. j < i /\ i \in Nat /\ j \in Nat
      BY <1>10, <3>1
    <3> QED BY <1>13, <3>2
  <2>2. g[i] # g[j]
    BY <1>12, <1>13
  <2> QED BY <1>10, <2>1, <2>2, BeforeOrders
<1>14. g \in SetToSeqs(S)
  BY <1>11, <1>12 DEF SetToSeqs
<1> QED BY <1>11, <1>13, <1>14

\* NewestFirst lists the rows it is given, each once, newest first.
LEMMA NewestFirstLists ==
  ASSUME NEW S, RowsFit(S)
  PROVE  LET s == NewestFirst(S) IN
         /\ s \in Seq(S)
         /\ \A i, j \in 1 .. Len(s) : i < j => Before(s[i], s[j])
         /\ \A r \in S : \E i \in 1 .. Len(s) : s[i] = r
<1> DEFINE s == NewestFirst(S)
           n == Cardinality(S)
<1>1. s \in SetToSeqs(S) /\ \A i, j \in DOMAIN s : i < j => Before(s[i], s[j])
  BY SortedOnce DEF NewestFirst
<1> HIDE DEF s
<1>2. s \in [1 .. n -> S] /\ \A i, j \in 1 .. n : i # j => s[i] # s[j]
  BY <1>1 DEF SetToSeqs
<1>3. IsFiniteSet(S) /\ n \in Nat
  BY FS_CardinalityType DEF RowsFit
<1>4. DOMAIN s = 1 .. n
  BY <1>2
<1>5. s \in Seq(S) /\ Len(s) = n
  <2> HIDE DEF n
  <2>1. s \in Seq(S)
    BY <1>2, <1>3, SeqDef
  <2>2. DOMAIN s = 1 .. Len(s) /\ Len(s) \in Nat
    BY <2>1, LenProperties
  <2> QED BY <1>3, <1>4, <2>1, <2>2
<1>6. \A r \in S : \E i \in 1 .. n : s[i] = r
  <2>1. s \in Injection(1 .. n, S)
    BY <1>2, <1>4 DEF Injection, IsInjective
  <2>2. 1 \in Int /\ n \in Int
    BY <1>3
  <2>3. IsFiniteSet(1 .. n) /\ Cardinality(1 .. n) = IF 1 > n THEN 0 ELSE n - 1 + 1
    BY <2>2, FS_Interval
  <2>4. Cardinality(1 .. n) = Cardinality(S)
    BY <1>3, <2>3
  <2>5. s \in Surjection(1 .. n, S)
    BY <1>3, <2>1, <2>4, FS_Injection
  <2> QED BY <2>5 DEF Surjection
<1> QED BY <1>1, <1>4, <1>5, <1>6 DEF s

-----------------------------------------------------------------------------
\* Cursors.

\* Millis cuts a date off to its millisecond.
LEMMA MillisCut ==
  ASSUME NEW t \in Nat
  PROVE  /\ Millis(t) \in Nat /\ Millis(t) <= t /\ t < Millis(t) + TicksPerMs
         /\ Millis(t) = TicksPerMs * (t \div TicksPerMs)
<1>1. TicksPerMs \in Nat /\ TicksPerMs > 0
  BY ListsAssumption
<1>2. /\ t % TicksPerMs \in Nat /\ t % TicksPerMs < TicksPerMs /\ t \div TicksPerMs \in Nat
      /\ t = TicksPerMs * (t \div TicksPerMs) + (t % TicksPerMs)
  BY <1>1
<1>3. TicksPerMs * (t \div TicksPerMs) \in Nat
  BY <1>1, <1>2
<1> QED BY <1>1, <1>2, <1>3 DEF Millis

\* What lies between a date and its millisecond is of the same millisecond.
LEMMA SameMillis ==
  ASSUME NEW s \in Nat, NEW t \in Nat, Millis(t) <= s, s <= t
  PROVE  Millis(s) = Millis(t)
<1> DEFINE p == s \div TicksPerMs
           q == t \div TicksPerMs
<1>1. TicksPerMs \in Nat /\ p \in Nat /\ q \in Nat
  BY ListsAssumption
<1>2. /\ Millis(s) \in Nat /\ Millis(s) <= s /\ s < Millis(s) + TicksPerMs /\ Millis(s) = TicksPerMs * p
      /\ Millis(t) \in Nat /\ Millis(t) <= t /\ t < Millis(t) + TicksPerMs /\ Millis(t) = TicksPerMs * q
  BY MillisCut
<1> HIDE DEF p, q
<1>3. TicksPerMs * (q + 1) = TicksPerMs * q + TicksPerMs /\ TicksPerMs * (p + 1) = TicksPerMs * p + TicksPerMs
  BY <1>1
<1>4. ASSUME NEW a \in Nat, NEW b \in Nat, a <= b
      PROVE  TicksPerMs * a <= TicksPerMs * b
  BY <1>1, <1>4
<1>5. CASE p >= q + 1
  <2>1. TicksPerMs * (q + 1) <= TicksPerMs * p
    BY <1>1, <1>4, <1>5
  <2> QED BY <1>1, <1>2, <1>3, <2>1
<1>6. CASE q >= p + 1
  <2>1. TicksPerMs * (p + 1) <= TicksPerMs * q
    BY <1>1, <1>4, <1>6
  <2> QED BY <1>1, <1>2, <1>3, <2>1
<1>7. CASE p = q
  BY <1>2, <1>7
<1> QED BY <1>1, <1>5, <1>6, <1>7

\* A cursor is told from none, and what lies behind it lies behind its row.
LEMMA CursorsTell ==
  ASSUME NEW R, RowsFit(R), NEW l \in R
  PROVE  /\ CursorOf(l) \in Cursors /\ CursorOf(l) # NoCursor
         /\ CursorOf(l).at = Millis(l.at) /\ CursorOf(l).id = l.id
         /\ \A view : \A r \in R : AfterCursor(view, r, CursorOf(l)) => Before(l, r)
         /\ \A view : \A r \in R :
              Before(l, r) => AfterCursor(view, r, CursorOf(l)) \/ Millis(l.at) = Millis(r.at)
         /\ \A view : \A r \in R :
              l.at <= r.at /\ AfterCursor(view, r, CursorOf(l)) => r.at = Millis(l.at)
<1>1. l.at \in Nat /\ l.id \in Nat /\ l.id \in RowIds
  BY BeforeOrders DEF ListRows
<1>2. Millis(l.at) \in Nat /\ Millis(l.at) <= l.at
  BY <1>1, MillisCut
<1> DEFINE c == CursorOf(l)
<1>3. c.at = Millis(l.at) /\ c.id = l.id /\ c \in [at : Nat, id : RowIds]
  BY <1>1, <1>2 DEF CursorOf
<1>4. c # NoCursor
  BY <1>2, <1>3 DEF NoCursor
<1> HIDE DEF c
<1>5. ASSUME NEW view, NEW r \in R
      PROVE  /\ AfterCursor(view, r, c) => Before(l, r)
             /\ Before(l, r) => AfterCursor(view, r, c) \/ Millis(l.at) = Millis(r.at)
             /\ l.at <= r.at /\ AfterCursor(view, r, c) => r.at = Millis(l.at)
  <2>1. r.at \in Nat /\ r.id \in Nat
    BY BeforeOrders
  <2>2. AfterCursor(view, r, c) => r.at < Millis(l.at) \/ (r.at = Millis(l.at) /\ r.id < l.id)
    BY <1>3, <1>4 DEF AfterCursor
  <2>3. r.at < Millis(l.at) => AfterCursor(view, r, c)
    BY <1>3 DEF AfterCursor
  <2>4. Millis(l.at) <= r.at /\ r.at <= l.at => Millis(l.at) = Millis(r.at)
    BY <1>1, <2>1, SameMillis
  <2>5. AfterCursor(view, r, c) => Before(l, r)
    BY <1>1, <1>2, <2>1, <2>2 DEF Before
  <2>6. Before(l, r) => r.at <= l.at
    BY <1>1, <2>1 DEF Before
  <2> QED BY <1>1, <1>2, <2>1, <2>2, <2>3, <2>4, <2>5, <2>6
<1> QED BY <1>3, <1>4, <1>5 DEF c, Cursors

\* What the API answers fits.
LEMMA PagesRead ==
  ASSUME RowsFit(rows), NEW view, NEW key \in ListKeys
  PROVE  LET body == ListPage(view, key.filter, key.cursor) IN
         body \in Bodies /\ BodyFits(rows, view, key, body)
<1> DEFINE hits == {r \in rows : Matches(r, key.filter) /\ AfterCursor(view, r, key.cursor)}
           all == NewestFirst(hits)
           found == SubSeq(all, 1, IF PageSize + 1 < Len(all) THEN PageSize + 1 ELSE Len(all))
           hasMore == Len(found) > PageSize
           items == IF hasMore THEN SubSeq(found, 1, PageSize) ELSE found
           next == IF hasMore THEN CursorOf(Last(items)) ELSE NoCursor
           from == IF key.cursor = NoCursor THEN rows ELSE {}
           body == ListPage(view, key.filter, key.cursor)
<1>1. body = [items |-> items, next |-> next, from |-> from]
  BY DEF ListPage, ListByUser
<1>2. hits \subseteq rows /\ RowsFit(hits)
  <2>1. hits \in SUBSET rows
    OBVIOUS
  <2>2. IsFiniteSet(hits)
    BY <2>1, FS_Subset DEF RowsFit
  <2> QED BY <2>1, <2>2 DEF RowsFit
<1>3. /\ all \in Seq(hits)
      /\ \A i, j \in 1 .. Len(all) : i < j => Before(all[i], all[j])
      /\ \A r \in hits : \E i \in 1 .. Len(all) : all[i] = r
  <2> HIDE DEF hits
  <2> QED BY <1>2, NewestFirstLists
<1>4. from \subseteq rows
  OBVIOUS
<1>5. \A r \in rows : r \in hits <=> Matches(r, key.filter) /\ AfterCursor(view, r, key.cursor)
  OBVIOUS
<1> DEFINE N == Len(all)
           m == IF PageSize < N THEN PageSize ELSE N
<1>6. N \in Nat /\ PageSize \in Nat /\ PageSize >= 1
  BY <1>3, ListsAssumption, LenProperties
<1> HIDE DEF hits, all, body
<1>7. /\ items \in Seq(hits) /\ Len(items) = m /\ \A i \in 1 .. m : items[i] = all[i]
      /\ hasMore <=> N > PageSize
  <2> DEFINE k == IF PageSize + 1 < N THEN PageSize + 1 ELSE N
  <2>1. k \in Nat /\ (k > PageSize <=> N > PageSize) /\ (k <= PageSize => m = k) /\ (k > PageSize => m = PageSize)
    BY <1>6
  <2>2. k <= N
    BY <1>6
  <2>3. found \in Seq(hits) /\ Len(found) = k /\ \A i \in 1 .. k : found[i] = all[i]
    <3>1. \A i \in 1 .. k : i \in 1 .. N
      BY <2>1, <2>2, <1>6
    <3>2. /\ SubSeq(all, 1, k) \in Seq(hits)
          /\ Len(SubSeq(all, 1, k)) = IF 1 <= k THEN k - 1 + 1 ELSE 0
          /\ \A i \in 1 .. k - 1 + 1 : SubSeq(all, 1, k)[i] = all[1 + i - 1]
      <4> HIDE DEF k, N
      <4>1. \A i \in 1 .. k : i \in 1 .. Len(all)
        BY <3>1 DEF N
      <4> QED BY <1>3, <2>1, <4>1, SubSeqProperties
    <3>3. found = SubSeq(all, 1, k)
      OBVIOUS
    <3> HIDE DEF k, found
    <3> QED BY <2>1, <3>2, <3>3
  <2> HIDE DEF k, found
  <2>4. CASE k > PageSize
    <3>1. \A i \in 1 .. PageSize : i \in 1 .. Len(found)
      BY <1>6, <2>1, <2>3, <2>4
    <3>2. /\ SubSeq(found, 1, PageSize) \in Seq(hits)
          /\ Len(SubSeq(found, 1, PageSize)) = IF 1 <= PageSize THEN PageSize - 1 + 1 ELSE 0
          /\ \A i \in 1 .. PageSize - 1 + 1 : SubSeq(found, 1, PageSize)[i] = found[1 + i - 1]
      BY <1>6, <2>3, <3>1, SubSeqProperties
    <3>3. items = SubSeq(found, 1, PageSize) /\ m = PageSize /\ hasMore /\ N > PageSize
      BY <2>1, <2>3, <2>4
    <3> HIDE DEF items, m, hasMore
    <3> QED BY <1>6, <2>1, <2>3, <2>4, <3>1, <3>2, <3>3
  <2>5. CASE k <= PageSize
    <3>1. items = found /\ m = k /\ ~hasMore /\ ~(N > PageSize)
      BY <1>6, <2>1, <2>3, <2>5
    <3> HIDE DEF items, m, hasMore
    <3> QED BY <2>3, <3>1
  <2> QED BY <1>6, <2>1, <2>4, <2>5
<1>8. /\ m \in Nat /\ m <= N
      /\ hasMore => m = PageSize /\ m >= 1 /\ m < N
      /\ ~hasMore => m = N
  BY <1>6, <1>7
<1> HIDE DEF items, m, N, hasMore, found
<1>9. \A i \in 1 .. m : i \in 1 .. N /\ items[i] = all[i] /\ items[i] \in hits
  <2>1. \A i \in 1 .. m : i \in 1 .. N
    BY <1>6, <1>8
  <2>2. \A i \in 1 .. N : all[i] \in hits
    BY <1>3, ElementOfSeq DEF N
  <2> QED BY <1>7, <2>1, <2>2
<1>10. hasMore => /\ items # <<>> /\ next = CursorOf(Last(items)) /\ Last(items) = all[m]
                  /\ Last(items) \in rows /\ next # NoCursor /\ next \in Cursors
  <2> SUFFICES ASSUME hasMore
               PROVE  /\ items # <<>> /\ next = CursorOf(Last(items)) /\ Last(items) = all[m]
                      /\ Last(items) \in rows /\ next # NoCursor /\ next \in Cursors
    OBVIOUS
  <2>1. m \in 1 .. m /\ Len(items) = m /\ m >= 1
    BY <1>7, <1>8
  <2>2. Last(items) = items[m]
    BY <2>1 DEF Last
  <2>3. Last(items) = all[m] /\ Last(items) \in rows
    BY <1>2, <1>9, <2>1, <2>2
  <2>4. items # <<>>
    BY <2>1, EmptySeq
  <2> QED BY <2>3, <2>4, CursorsTell
<1>11. ~hasMore => next = NoCursor /\ next \in Cursors
  BY DEF Cursors
<1> HIDE DEF next, from
<1>12. PageFits(rows, view, key.filter, key.cursor, body)
  <2>1. items \in Seq(rows)
    BY <1>2, <1>7, SeqMonotonic
  <2>2. \A i, j \in 1 .. Len(items) : i < j => Before(items[i], items[j])
    BY <1>3, <1>7, <1>9 DEF N
  <2>3. \A i \in 1 .. Len(items) :
          Matches(items[i], key.filter) /\ AfterCursor(view, items[i], key.cursor)
    BY <1>2, <1>5, <1>7, <1>9
  <2>4. next # NoCursor => items # <<>> /\ next = CursorOf(Last(items))
    BY <1>10, <1>11
  <2>5. body.items = items /\ body.next = next
    BY <1>1
  <2> QED BY <2>1, <2>2, <2>3, <2>4, <2>5 DEF PageFits
<1>13. LeavesNoneOut(rows, view, key, body)
  <2> SUFFICES ASSUME NEW r \in rows, Matches(r, key.filter), AfterCursor(view, r, key.cursor)
               PROVE  r \in ToSet(items) \/ (next # NoCursor /\ Before(Last(items), r))
    BY <1>1 DEF LeavesNoneOut
  <2>1. PICK k \in 1 .. N : all[k] = r
    BY <1>3, <1>5 DEF N
  <2>2. CASE k <= m
    <3>1. k \in 1 .. Len(items) /\ items[k] = r
      BY <1>7, <1>8, <1>9, <2>1, <2>2
    <3>2. DOMAIN items = 1 .. Len(items)
      BY <1>7, LenProperties
    <3> QED BY <3>1, <3>2 DEF ToSet
  <2>3. CASE k > m
    <3>1. hasMore /\ m \in 1 .. N /\ m < k
      BY <1>6, <1>8, <2>3
    <3>2. Before(all[m], all[k])
      BY <1>3, <3>1 DEF N
    <3> QED BY <1>10, <2>1, <3>1, <3>2
  <2> QED BY <1>8, <2>2, <2>3
<1>14. body \in Bodies
  <2>1. items \in Seq(ListRows) /\ from \in SUBSET ListRows
    <3>1. hits \subseteq ListRows /\ rows \subseteq ListRows
      BY <1>2 DEF RowsFit
    <3> QED BY <1>4, <1>7, <3>1, SeqMonotonic
  <2>2. next \in Cursors
    BY <1>10, <1>11
  <2> QED BY <1>1, <2>1, <2>2 DEF Bodies
<1>15. body.from \subseteq rows
  BY <1>1, <1>4
<1> QED BY <1>12, <1>13, <1>14, <1>15 DEF BodyFits, body

-----------------------------------------------------------------------------
\* The pages of the view.

\* There is one page or there are more.
LEMMA OneOrMore == \A n \in Nat : n > 0 => n = 1 \/ n > 1
OBVIOUS

\* What the view's record is made of.
LEMMA ListFields ==
  ASSUME NEW l \in ListViews
  PROVE  /\ l.view \in Views /\ l.filter \in Filters /\ l.pages \in Seq(ListPages)
         /\ l.cached \in ListCaches /\ l.asked \in SUBSET ListKeys /\ l.failed \in SUBSET ListKeys
         /\ l.open \in RowIds \cup {NoneOpen} /\ l.changes \in Nat
         /\ DOMAIN l.cached \subseteq ListKeys /\ \A k \in DOMAIN l.cached : l.cached[k] \in Bodies
         /\ Len(l.pages) \in Nat /\ \A i \in 1 .. Len(l.pages) : l.pages[i] \in ListPages
<1>1. /\ l.view \in Views /\ l.filter \in Filters /\ l.pages \in Seq(ListPages)
      /\ l.cached \in ListCaches /\ l.asked \in SUBSET ListKeys /\ l.failed \in SUBSET ListKeys
      /\ l.open \in RowIds \cup {NoneOpen} /\ l.changes \in Nat
  BY DEF ListViews
<1>2. PICK K \in SUBSET ListKeys : l.cached \in [K -> Bodies]
  BY <1>1 DEF ListCaches
<1>3. DOMAIN l.cached \subseteq ListKeys /\ \A k \in DOMAIN l.cached : l.cached[k] \in Bodies
  BY <1>2
<1>4. Len(l.pages) \in Nat /\ \A i \in 1 .. Len(l.pages) : l.pages[i] \in ListPages
  BY <1>1, LenProperties, ElementOfSeq
<1> QED BY <1>1, <1>3, <1>4

\* The rows of a page.
LEMMA PageRows ==
  ASSUME NEW R, NEW l, Walks(R, l), NEW i \in 1 .. Len(l.pages)
  PROVE  /\ l.pages[i] \in ListPages /\ l.pages[i].items \in Seq(R) /\ Len(l.pages[i].items) \in Nat
         /\ DOMAIN l.pages[i].items = 1 .. Len(l.pages[i].items)
         /\ \A a \in 1 .. Len(l.pages[i].items) : l.pages[i].items[a] \in R
<1>1. l.pages[i] \in ListPages /\ l.pages[i].items \in Seq(R)
  BY ListFields DEF Walks, PagesHang, PageFits
<1> QED BY <1>1, LenProperties, ElementOfSeq

\* Of pages that hang together every page but the last has a last row, which the next
\* page's cursor tells, and all rows before it come first.
LEMMA PagesFollow ==
  ASSUME NEW R, RowsFit(R), NEW l, Walks(R, l), Len(l.pages) > 1
  PROVE  LET prev == l.pages[Len(l.pages) - 1]
             last == Last(prev.items)
         IN /\ last \in R /\ LastPage(l).cursor = CursorOf(last) /\ LastPage(l).cursor # NoCursor
            /\ \A i \in 1 .. Len(l.pages) - 1 : \A a \in 1 .. Len(l.pages[i].items) :
                 l.pages[i].items[a] = last \/ Before(l.pages[i].items[a], last)
<1> DEFINE n == Len(l.pages)
           prev == l.pages[n - 1]
           last == Last(prev.items)
           k == Len(prev.items)
<1>1. n \in Nat /\ n > 1 /\ n - 1 \in 1 .. n /\ n - 1 \in 1 .. n - 1 /\ n - 1 + 1 = n
  BY ListFields DEF Walks
<1>2. prev.next # NoCursor /\ l.pages[n].cursor = prev.next /\ PageFits(R, l.view, l.filter, prev.cursor, prev)
  BY <1>1 DEF Walks, PagesHang
<1>3. prev.items # <<>> /\ prev.next = CursorOf(last)
  BY <1>2 DEF PageFits
<1>4. prev.items \in Seq(R) /\ k \in Nat /\ \A a \in 1 .. k : prev.items[a] \in R
  BY <1>1, PageRows
<1>5. k \in 1 .. k /\ last = prev.items[k]
  <2>1. k # 0
    BY <1>3, <1>4, EmptySeq
  <2> QED BY <1>4, <2>1 DEF Last
<1>6. last \in R /\ LastPage(l).cursor = CursorOf(last) /\ LastPage(l).cursor # NoCursor
  BY <1>2, <1>3, <1>4, <1>5 DEF LastPage, Last
<1>7. ASSUME NEW i \in 1 .. n - 1, NEW a \in 1 .. Len(l.pages[i].items)
      PROVE  l.pages[i].items[a] = last \/ Before(l.pages[i].items[a], last)
  <2>1. CASE i = n - 1
    <3>1. a \in 1 .. k /\ l.pages[i].items[a] = prev.items[a]
      BY <2>1
    <3>2. a < k => Before(prev.items[a], prev.items[k])
      BY <1>2, <1>5, <3>1 DEF PageFits
    <3>3. a < k \/ a = k
      BY <1>4, <3>1
    <3> QED BY <1>5, <3>1, <3>2, <3>3
  <2>2. CASE i # n - 1
    <3>1. i \in 1 .. n /\ i < n - 1
      BY <1>1, <2>2
    <3>2. Before(l.pages[i].items[a], l.pages[n - 1].items[k])
      BY <1>1, <1>5, <3>1 DEF Walks, PagesOrdered
    <3> QED BY <1>5, <3>2
  <2> QED BY <2>1, <2>2
<1> QED BY <1>6, <1>7

\* The active key is one the API was, or may be, asked for.
LEMMA ActiveKnown ==
  ASSUME NEW R, RowsFit(R), NEW l, Walks(R, l)
  PROVE  /\ ActiveKey(l) \in ListKeys /\ CursorKnown(R, ActiveKey(l).cursor)
         /\ ActiveKey(l).filter = l.filter /\ ActiveKey(l).cursor = LastPage(l).cursor
         /\ Len(l.pages) = 1 => ActiveKey(l) = Key(l.filter, NoCursor)
         /\ Len(l.pages) > 1 => ActiveKey(l) # Key(l.filter, NoCursor)
         /\ Len(l.pages) \in Nat /\ Len(l.pages) > 0 /\ LastPage(l) = l.pages[Len(l.pages)]
         /\ LastPage(l) \in ListPages
<1>1. Len(l.pages) \in Nat /\ Len(l.pages) > 0 /\ l.pages[1].cursor = NoCursor /\ l.filter \in Filters
  BY ListFields DEF Walks, PagesHang
<1>2. LastPage(l) = l.pages[Len(l.pages)] /\ LastPage(l) \in ListPages
  BY <1>1, ListFields DEF LastPage, Last, Walks
<1>3. LastPage(l).cursor \in Cursors
  BY <1>2 DEF ListPages
<1>4. ActiveKey(l) = [filter |-> l.filter, cursor |-> LastPage(l).cursor]
  BY DEF ActiveKey, Key
<1>5. Len(l.pages) = 1 => LastPage(l).cursor = NoCursor
  BY <1>1, <1>2
<1>6. Len(l.pages) > 1 => LastPage(l).cursor # NoCursor /\ CursorKnown(R, LastPage(l).cursor)
  BY PagesFollow DEF CursorKnown
<1>7. CursorKnown(R, LastPage(l).cursor)
  <2>1. Len(l.pages) = 1 \/ Len(l.pages) > 1
    BY <1>1, OneOrMore
  <2>2. CursorKnown(R, NoCursor)
    BY DEF CursorKnown
  <2> QED BY <1>5, <1>6, <2>1, <2>2
<1>8. Key(l.filter, NoCursor) = [filter |-> l.filter, cursor |-> NoCursor]
  BY DEF Key
<1> HIDE DEF NoCursor
<1>9. ActiveKey(l) \in ListKeys
  BY <1>1, <1>3, <1>4 DEF ListKeys
<1> QED BY <1>1, <1>2, <1>4, <1>5, <1>6, <1>7, <1>8, <1>9

\* A sequence with its last element replaced.
LEMMA LastReplaced ==
  ASSUME NEW S, NEW s \in Seq(S), Len(s) > 0, NEW e \in S
  PROVE  LET t == Append(Front(s), e) IN
         /\ t \in Seq(S) /\ Len(t) = Len(s) /\ t[Len(s)] = e
         /\ \A i \in 1 .. Len(s) - 1 : t[i] = s[i]
<1> DEFINE n == Len(s)
           f == Front(s)
<1>1. n \in Nat /\ n > 0
  BY LenProperties
<1>2. f = SubSeq(s, 1, n - 1) /\ \A i \in 1 .. n - 1 : i \in 1 .. n
  BY <1>1 DEF Front
<1>3. /\ SubSeq(s, 1, n - 1) \in Seq(S)
      /\ Len(SubSeq(s, 1, n - 1)) = IF 1 <= n - 1 THEN n - 1 - 1 + 1 ELSE 0
      /\ \A i \in 1 .. n - 1 - 1 + 1 : SubSeq(s, 1, n - 1)[i] = s[1 + i - 1]
  BY <1>1, <1>2, SubSeqProperties
<1>4. f \in Seq(S) /\ Len(f) = n - 1 /\ \A i \in 1 .. n - 1 : f[i] = s[i]
  <2>1. f \in Seq(S)
    BY <1>2, <1>3
  <2>2. Len(f) = IF 1 <= n - 1 THEN n - 1 - 1 + 1 ELSE 0
    BY <1>2, <1>3
  <2>3. \A i \in 1 .. n - 1 - 1 + 1 : f[i] = s[1 + i - 1]
    BY <1>2, <1>3
  <2> HIDE DEF f, n
  <2>4. n - 1 - 1 + 1 = n - 1 /\ \A i \in 1 .. n - 1 : 1 + i - 1 = i
    BY <1>1
  <2>5. 1 <= n - 1 \/ n - 1 = 0
    BY <1>1
  <2> QED BY <1>1, <2>1, <2>2, <2>3, <2>4, <2>5
<1> HIDE DEF f
<1>5. /\ Append(f, e) \in Seq(S) /\ Len(Append(f, e)) = Len(f) + 1
      /\ \A i \in 1 .. Len(f) : Append(f, e)[i] = f[i]
      /\ Append(f, e)[Len(f) + 1] = e
  BY <1>4, AppendProperties
<1>6. Len(f) + 1 = n
  BY <1>1, <1>4
<1> QED BY <1>4, <1>5, <1>6 DEF f

\* The last page takes what is cached: the pages still hang together, and the last one
\* shows it.
LEMMA EffectShows ==
  ASSUME NEW R, RowsFit(R), NEW l, Walks(R, l),
         ActiveKey(l) \notin DOMAIN l.cached => LastPage(l).next = NoCursor
  PROVE  LET e == Effect(l) IN
         /\ Walks(R, e) /\ LastShown(e) /\ e.asked = l.asked /\ e.failed = l.failed
         /\ ActiveKey(e) = ActiveKey(l)
<1>1. CASE ActiveKey(l) \notin DOMAIN l.cached
  <2>1. Effect(l) = l
    BY <1>1 DEF Effect
  <2> QED BY <1>1, <2>1 DEF LastShown
<1>2. CASE ActiveKey(l) \in DOMAIN l.cached
  <2> DEFINE n == Len(l.pages)
             key == ActiveKey(l)
             body == l.cached[key]
             page == [cursor |-> LastPage(l).cursor, items |-> body.items, next |-> body.next]
             ps == Append(Front(l.pages), page)
             e == [l EXCEPT !.pages = ps]
  <2>1. Effect(l) = e
    BY <1>2 DEF Effect
  <2>2. /\ n \in Nat /\ n > 0 /\ LastPage(l) \in ListPages /\ key.cursor = LastPage(l).cursor
        /\ key.filter = l.filter /\ LastPage(l) = l.pages[n]
    BY ActiveKnown
  <2>3. l \in ListViews /\ body \in Bodies /\ BodyFits(R, l.view, key, body)
    BY <1>2, ListFields DEF Walks, BodiesFit
  <2>4. /\ page \in ListPages /\ page.cursor = LastPage(l).cursor /\ page.items = body.items
        /\ page.next = body.next
    BY <2>2, <2>3 DEF ListPages, Bodies
  <2>5. PageFits(R, l.view, l.filter, page.cursor, page)
    <3>1. PageFits(R, l.view, l.filter, page.cursor, body)
      BY <2>2, <2>3, <2>4 DEF BodyFits
    <3> HIDE DEF page, body
    <3> QED BY <2>4, <3>1 DEF PageFits
  <2> HIDE DEF page, body, key
  <2>6. /\ ps \in Seq(ListPages) /\ Len(ps) = n /\ ps[n] = page
        /\ \A i \in 1 .. n - 1 : ps[i] = l.pages[i]
    BY <2>2, <2>3, <2>4, ListFields, LastReplaced
  <2> HIDE DEF ps
  <2>7. /\ e \in ListViews /\ e.pages = ps /\ e.view = l.view /\ e.filter = l.filter
        /\ e.cached = l.cached /\ e.asked = l.asked /\ e.failed = l.failed
    BY <2>3, <2>6 DEF ListViews
  <2> HIDE DEF e
  <2>8. LastPage(e) = page /\ ActiveKey(e) = key
    BY <2>2, <2>4, <2>6, <2>7 DEF LastPage, Last, ActiveKey, key
  <2>9. BodiesFit(R, e)
    BY <2>7 DEF Walks, BodiesFit
  <2>10. \A i \in 1 .. n : i = n \/ i \in 1 .. n - 1
    BY <2>2
  <2>11. \A i \in 1 .. n : ps[i].cursor = l.pages[i].cursor
    BY <2>2, <2>4, <2>6, <2>10
  <2>12. PagesHang(R, e)
    <3>1. ps[1].cursor = NoCursor
      <4>1. 1 \in 1 .. n /\ l.pages[1].cursor = NoCursor
        BY <2>2 DEF Walks, PagesHang
      <4> QED BY <2>11, <4>1
    <3>2. \A i \in 1 .. n : PageFits(R, l.view, l.filter, ps[i].cursor, ps[i])
      <4>1. \A i \in 1 .. n - 1 : PageFits(R, l.view, l.filter, l.pages[i].cursor, l.pages[i])
        BY <2>2 DEF Walks, PagesHang
      <4> QED BY <2>5, <2>6, <2>10, <4>1
    <3>3. \A i \in 1 .. n - 1 : ps[i].next # NoCursor /\ ps[i + 1].cursor = ps[i].next
      <4>1. \A i \in 1 .. n - 1 : i + 1 \in 1 .. n
        BY <2>2
      <4>2. \A i \in 1 .. n - 1 : l.pages[i].next # NoCursor /\ l.pages[i + 1].cursor = l.pages[i].next
        BY DEF Walks, PagesHang
      <4> QED BY <2>6, <2>11, <4>1, <4>2
    <3> QED BY <2>2, <2>6, <2>7, <3>1, <3>2, <3>3 DEF PagesHang
  <2>13. PagesOrdered(e)
    <3>1. ASSUME NEW i \in 1 .. n, NEW j \in 1 .. n, i < j, NEW a \in 1 .. Len(ps[i].items),
                 NEW b \in 1 .. Len(ps[j].items)
          PROVE  Before(ps[i].items[a], ps[j].items[b])
      <4>1. i \in 1 .. n - 1 /\ ps[i] = l.pages[i] /\ n > 1
        BY <2>2, <2>6, <3>1
      <4>2. CASE j # n
        <5>1. j \in 1 .. n - 1 /\ ps[j] = l.pages[j]
          BY <2>6, <2>10, <4>2
        <5> QED BY <3>1, <4>1, <5>1 DEF Walks, PagesOrdered
      <4>3. CASE j = n
        <5> DEFINE last == Last(l.pages[n - 1].items)
                   x == l.pages[i].items[a]
                   y == page.items[b]
        <5>1. last \in R /\ page.cursor = CursorOf(last) /\ (x = last \/ Before(x, last))
          BY <2>4, <3>1, <4>1, PagesFollow
        <5>2. b \in 1 .. Len(page.items) /\ ps[j].items[b] = y /\ ps[i].items[a] = x
          BY <2>6, <3>1, <4>1, <4>3
        <5>3. AfterCursor(l.view, y, CursorOf(last)) /\ page.items \in Seq(R)
          BY <2>5, <5>1, <5>2 DEF PageFits
        <5>4. y \in R
          BY <5>2, <5>3, ElementOfSeq
        <5>5. x \in R
          BY <3>1, <4>1, PageRows
        <5> HIDE DEF last, x, y
        <5>6. Before(last, y)
          BY <5>1, <5>3, <5>4, CursorsTell
        <5> QED BY <5>1, <5>2, <5>4, <5>5, <5>6, BeforeOrders
      <4> QED BY <4>2, <4>3
    <3> QED BY <2>6, <2>7, <3>1 DEF PagesOrdered
  <2>14. WalkGoesOn(e)
    <3>1. \A r : PassedBy(l, r) <=> PassedBy(e, r)
      BY <2>6, <2>7 DEF PassedBy
    <3> QED BY <2>4, <2>6, <2>7, <2>8, <3>1 DEF Walks, WalkGoesOn
  <2>15. LastShown(e)
    BY <1>2, <2>4, <2>7, <2>8 DEF LastShown, body, key
  <2> QED BY <2>1, <2>7, <2>8, <2>9, <2>12, <2>13, <2>14, <2>15 DEF Walks, key
<1> QED BY <1>1, <1>2

\* Rendering asks for the active key.
LEMMA RenderShows ==
  ASSUME NEW R, RowsFit(R), NEW l, Walks(R, l),
         ActiveKey(l) \notin DOMAIN l.cached => LastPage(l).next = NoCursor
  PROVE  Walks(R, Render(l)) /\ LastShown(Render(l))
<1> DEFINE s == Effect(l)
           key == ActiveKey(l)
           asked == s.asked \cup {key}
           failed == s.failed \ {key}
           e == [s EXCEPT !.asked = asked, !.failed = failed]
<1>1. Render(l) = e
  BY DEF Render
<1>2. Walks(R, s) /\ LastShown(s) /\ ActiveKey(s) = key
  BY EffectShows
<1> HIDE DEF s
<1>3. /\ key \in ListKeys /\ CursorKnown(R, key.cursor)
      /\ Len(s.pages) > 1 => key # Key(s.filter, NoCursor)
  BY <1>2, ActiveKnown
<1> HIDE DEF key
<1>4. s \in ListViews /\ asked \in SUBSET ListKeys /\ failed \in SUBSET ListKeys
  BY <1>2, <1>3, ListFields DEF Walks
<1>5. \A k \in asked : CursorKnown(R, k.cursor)
  BY <1>2, <1>3 DEF Walks, BodiesFit
<1>6. \A k \in asked : k \in s.asked \/ k = key
  OBVIOUS
<1> HIDE DEF asked, failed
<1>7. /\ e \in ListViews /\ e.pages = s.pages /\ e.view = s.view /\ e.filter = s.filter
      /\ e.cached = s.cached /\ e.asked = asked
  BY <1>4 DEF ListViews
<1> HIDE DEF e
<1>8. LastPage(e) = LastPage(s) /\ ActiveKey(e) = ActiveKey(s)
  BY <1>7 DEF LastPage, ActiveKey
<1>9. LastShown(e)
  BY <1>2, <1>7, <1>8 DEF LastShown
<1>10. BodiesFit(R, e) /\ PagesHang(R, e) /\ PagesOrdered(e)
  BY <1>2, <1>5, <1>7 DEF Walks, BodiesFit, PagesHang, PagesOrdered
<1>11. WalkGoesOn(e)
  <2>1. \A r : PassedBy(s, r) <=> PassedBy(e, r)
    BY <1>7 DEF PassedBy
  <2> QED BY <1>2, <1>3, <1>6, <1>7, <1>8, <2>1 DEF Walks, WalkGoesOn
<1> QED BY <1>1, <1>7, <1>9, <1>10, <1>11 DEF Walks

\* A row behind the cursor of a last page that is shown from the cache is on it, lies
\* behind it, or is of the millisecond of the page before.
LEMMA BehindTheCursor ==
  ASSUME NEW R, RowsFit(R), NEW l, Walks(R, l), LastShown(l), ActiveKey(l) \in DOMAIN l.cached,
         NEW r \in R, Matches(r, l.filter), AfterCursor(l.view, r, LastPage(l).cursor),
         Len(l.pages) = 1 => r \in l.cached[ActiveKey(l)].from
  PROVE  \/ r \in ToSet(LastPage(l).items)
         \/ LastPage(l).next # NoCursor /\ Before(Last(LastPage(l).items), r)
         \/ /\ Len(l.pages) > 1
            /\ Millis(Last(l.pages[Len(l.pages) - 1].items).at) = Millis(r.at)
<1> DEFINE n == Len(l.pages)
           key == ActiveKey(l)
           body == l.cached[key]
           last == Last(l.pages[n - 1].items)
<1>1. /\ n \in Nat /\ n > 0 /\ key.filter = l.filter /\ key.cursor = LastPage(l).cursor
      /\ n = 1 => key = Key(l.filter, NoCursor)
  BY ActiveKnown
<1>2. body.items = LastPage(l).items /\ body.next = LastPage(l).next /\ LeavesNoneOut(R, l.view, key, body)
  BY DEF LastShown, Walks, BodiesFit, BodyFits
<1>3. n = 1 => key.cursor = NoCursor /\ r \in body.from
  BY <1>1 DEF Key
<1>4. n > 1 => last \in R /\ key.cursor = CursorOf(last) /\ key.cursor # NoCursor
  BY <1>1, PagesFollow
<1> HIDE DEF key, body
<1>5. \/ r \in ToSet(body.items)
      \/ body.next # NoCursor /\ Before(Last(body.items), r)
      \/ key.cursor = NoCursor /\ r \notin body.from
      \/ key.cursor # NoCursor /\ r.at = key.cursor.at
  BY <1>1, <1>2 DEF LeavesNoneOut
<1>6. n = 1 \/ n > 1
  BY <1>1, OneOrMore
<1>7. n > 1 /\ r.at = key.cursor.at => Millis(last.at) = Millis(r.at)
  <2> HIDE DEF last, n
  <2> SUFFICES ASSUME n > 1, r.at = key.cursor.at
               PROVE  Millis(last.at) = Millis(r.at)
    OBVIOUS
  <2>1. last \in R /\ r.at = Millis(last.at)
    BY <1>4, CursorsTell
  <2>2. last.at \in Nat /\ r.at \in Nat /\ r.at <= last.at
    BY <2>1, BeforeOrders, MillisCut
  <2> QED BY <2>1, <2>2, SameMillis
<1> HIDE DEF n, last
<1>8. CASE n = 1
  BY <1>2, <1>3, <1>5, <1>8
<1>9. CASE n > 1
  BY <1>2, <1>4, <1>5, <1>7, <1>9 DEF n, last
<1> QED BY <1>6, <1>8, <1>9

\* One page more, still empty, behind the next cursor of one that is shown.
LEMMA PageAdded ==
  ASSUME NEW R, RowsFit(R), NEW l, Walks(R, l), LastShown(l), LastPage(l).next # NoCursor,
         ActiveKey(l) \notin l.asked
  PROVE  LET e == [l EXCEPT !.pages = Append(@, EmptyPage(LastPage(l).next))] IN
         Walks(R, e) /\ LastPage(e).next = NoCursor
<1> DEFINE n == Len(l.pages)
           key == ActiveKey(l)
           p == EmptyPage(LastPage(l).next)
           ps == Append(l.pages, p)
           e == [l EXCEPT !.pages = ps]
<1>1. /\ n \in Nat /\ n > 0 /\ LastPage(l) \in ListPages /\ key.cursor = LastPage(l).cursor
      /\ key.filter = l.filter /\ LastPage(l) = l.pages[n]
      /\ n = 1 => key = Key(l.filter, NoCursor)
  BY ActiveKnown
<1>2. key \in DOMAIN l.cached
  BY DEF LastShown
<1>3. l \in ListViews
  BY DEF Walks
<1>4. p \in ListPages /\ p.cursor = LastPage(l).next /\ p.items = <<>> /\ p.next = NoCursor
  <2>1. NoCursor \in Cursors /\ LastPage(l).next \in Cursors
    BY <1>1 DEF Cursors, ListPages
  <2>2. <<>> \in Seq(ListRows)
    BY EmptySeq
  <2> HIDE DEF NoCursor
  <2> QED BY <2>1, <2>2 DEF EmptyPage, ListPages
<1> HIDE DEF p
<1>5. /\ ps \in Seq(ListPages) /\ Len(ps) = n + 1 /\ ps[n + 1] = p
      /\ \A i \in 1 .. n : ps[i] = l.pages[i]
  BY <1>3, <1>4, ListFields, AppendProperties
<1> HIDE DEF ps
<1>6. /\ e \in ListViews /\ e.pages = ps /\ e.view = l.view /\ e.filter = l.filter
      /\ e.cached = l.cached /\ e.asked = l.asked
  BY <1>3, <1>5 DEF ListViews
<1> HIDE DEF e
<1>7. LastPage(e) = p
  BY <1>5, <1>6 DEF LastPage, Last
<1>8. BodiesFit(R, e)
  BY <1>6 DEF Walks, BodiesFit
<1>9. \A i \in 1 .. n + 1 : i = n + 1 \/ i \in 1 .. n
  BY <1>1
<1>10. PageFits(R, l.view, l.filter, p.cursor, p)
  <2>1. <<>> \in Seq(R) /\ Len(<<>>) = 0
    BY EmptySeq
  <2>2. p.items \in Seq(R) /\ 1 .. Len(p.items) = {}
    BY <1>4, <2>1
  <2> QED BY <1>4, <2>2 DEF PageFits
<1>11. PagesHang(R, e)
  <2>1. ps[1].cursor = NoCursor
    <3>1. 1 \in 1 .. n /\ l.pages[1].cursor = NoCursor
      BY <1>1 DEF Walks, PagesHang
    <3> QED BY <1>5, <3>1
  <2>2. \A i \in 1 .. n + 1 : PageFits(R, l.view, l.filter, ps[i].cursor, ps[i])
    <3>1. \A i \in 1 .. n : PageFits(R, l.view, l.filter, l.pages[i].cursor, l.pages[i])
      BY DEF Walks, PagesHang
    <3> QED BY <1>5, <1>9, <1>10, <3>1
  <2>3. ASSUME NEW i \in 1 .. n
        PROVE  ps[i].next # NoCursor /\ ps[i + 1].cursor = ps[i].next
    <3>1. CASE i = n
      BY <1>1, <1>4, <1>5, <3>1
    <3>2. CASE i # n
      <4>1. i \in 1 .. n - 1 /\ i + 1 \in 1 .. n
        BY <1>1, <3>2
      <4>2. l.pages[i].next # NoCursor /\ l.pages[i + 1].cursor = l.pages[i].next
        BY <4>1 DEF Walks, PagesHang
      <4> QED BY <1>5, <4>1, <4>2
    <3> QED BY <3>1, <3>2
  <2>4. n + 1 > 0 /\ n + 1 - 1 = n
    BY <1>1
  <2> QED BY <1>5, <1>6, <2>1, <2>2, <2>3, <2>4 DEF PagesHang
<1>12. PagesOrdered(e)
  <2>1. ASSUME NEW i \in 1 .. n + 1, NEW j \in 1 .. n + 1, i < j, NEW a \in 1 .. Len(ps[i].items),
               NEW b \in 1 .. Len(ps[j].items)
        PROVE  Before(ps[i].items[a], ps[j].items[b])
    <3>1. j # n + 1
      BY <1>4, <1>5, EmptySeq
    <3>2. i \in 1 .. n /\ j \in 1 .. n
      BY <1>1, <2>1, <3>1
    <3> QED BY <1>5, <2>1, <3>2 DEF Walks, PagesOrdered
  <2> QED BY <1>5, <1>6, <2>1 DEF PagesOrdered
<1>13. WalkGoesOn(e)
  <2> DEFINE first == Key(l.filter, NoCursor)
             from == l.cached[first].from
  <2>1. first \in DOMAIN l.cached /\ first \notin l.asked
    <3>1. CASE n = 1
      BY <1>1, <1>2, <3>1
    <3>2. CASE n > 1
      BY <3>2 DEF Walks, WalkGoesOn
    <3> QED BY <1>1, <3>1, <3>2, OneOrMore
  <2>2. from \subseteq R
    BY <2>1 DEF Walks, BodiesFit, BodyFits
  <2>3. ASSUME NEW r \in from, Matches(r, l.filter)
        PROVE  PassedBy(e, r) \/ AfterCursor(l.view, r, p.cursor)
    <3>1. r \in R
      BY <2>2
    <3>2. ASSUME NEW i \in 1 .. n,
                 r \in ToSet(l.pages[i].items) \/ Millis(Last(l.pages[i].items).at) = Millis(r.at)
          PROVE  PassedBy(e, r)
      <4>1. ps[i] = l.pages[i] /\ i \in 1 .. Len(ps) - 1
        BY <1>1, <1>5
      <4> QED BY <1>6, <3>2, <4>1 DEF PassedBy
    <3>3. CASE PassedBy(l, r)
      <4>1. PICK i \in 1 .. n - 1 :
              r \in ToSet(l.pages[i].items) \/ Millis(Last(l.pages[i].items).at) = Millis(r.at)
        BY <3>3 DEF PassedBy
      <4>2. i \in 1 .. n
        BY <1>1
      <4> QED BY <3>2, <4>1, <4>2
    <3>4. CASE ~PassedBy(l, r)
      <4>1. AfterCursor(l.view, r, LastPage(l).cursor)
        <5>1. CASE n = 1
          BY <1>1, <5>1 DEF AfterCursor, Key
        <5>2. CASE n > 1
          BY <2>3, <3>4, <5>2 DEF Walks, WalkGoesOn
        <5> QED BY <1>1, <5>1, <5>2, OneOrMore
      <4>2. n = 1 => r \in l.cached[key].from
        BY <1>1, <2>3
      <4>3. \/ r \in ToSet(LastPage(l).items)
            \/ Before(Last(LastPage(l).items), r)
            \/ n > 1 /\ Millis(Last(l.pages[n - 1].items).at) = Millis(r.at)
        BY <1>2, <2>3, <3>1, <4>1, <4>2, BehindTheCursor
      <4>4. n \in 1 .. n /\ (n > 1 => n - 1 \in 1 .. n)
        BY <1>1
      <4>5. CASE Before(Last(LastPage(l).items), r)
        <5> DEFINE last == Last(LastPage(l).items)
        <5>1. PageFits(R, l.view, l.filter, LastPage(l).cursor, LastPage(l))
          BY <1>1, <4>4 DEF Walks, PagesHang
        <5>2. LastPage(l).items \in Seq(R) /\ LastPage(l).items # <<>> /\ LastPage(l).next = CursorOf(last)
          BY <5>1 DEF PageFits
        <5>3. last \in R
          <6>1. Len(LastPage(l).items) \in 1 .. Len(LastPage(l).items)
            BY <5>2, EmptySeq
          <6> QED BY <5>2, <6>1, ElementOfSeq DEF Last
        <5> HIDE DEF last
        <5>4. AfterCursor(l.view, r, CursorOf(last)) \/ Millis(last.at) = Millis(r.at)
          BY <3>1, <4>5, <5>3, CursorsTell DEF last
        <5> QED BY <1>1, <1>4, <3>2, <4>4, <5>2, <5>4 DEF last
      <4> QED BY <1>1, <3>2, <4>3, <4>4, <4>5
    <3> QED BY <3>3, <3>4
  <2> QED BY <1>6, <1>7, <2>1, <2>3 DEF WalkGoesOn
<1>14. e = [l EXCEPT !.pages = Append(@, EmptyPage(LastPage(l).next))]
  BY DEF e, ps, p
<1> QED BY <1>4, <1>6, <1>7, <1>8, <1>11, <1>12, <1>13, <1>14 DEF Walks

\* A view with one empty page.
LEMMA WalkStarts ==
  ASSUME NEW R, RowsFit(R), NEW l \in ListViews, BodiesFit(R, l), l.pages = <<EmptyPage(NoCursor)>>
  PROVE  Walks(R, l) /\ LastPage(l).next = NoCursor
<1> DEFINE p == EmptyPage(NoCursor)
<1>1. p.cursor = NoCursor /\ p.items = <<>> /\ p.next = NoCursor
  BY DEF EmptyPage
<1> HIDE DEF p
<1>2. Len(l.pages) = 1 /\ l.pages[1] = p /\ LastPage(l) = p /\ 1 .. 1 = {1}
  BY DEF LastPage, Last, p
<1>3. p.items \in Seq(R) /\ 1 .. Len(p.items) = {}
  <2>1. <<>> \in Seq(R) /\ Len(<<>>) = 0
    BY EmptySeq
  <2> QED BY <1>1, <2>1
<1>4. PageFits(R, l.view, l.filter, p.cursor, p)
  BY <1>1, <1>3 DEF PageFits
<1>5. PagesHang(R, l)
  BY <1>1, <1>2, <1>4 DEF PagesHang
<1>6. PagesOrdered(l)
  BY <1>2, <1>3 DEF PagesOrdered
<1>7. WalkGoesOn(l)
  BY <1>2 DEF WalkGoesOn
<1> QED BY <1>1, <1>2, <1>5, <1>6, <1>7 DEF Walks

\* A row that comes is the newest: nothing that was read misses it.
LEMMA RowComes ==
  ASSUME NEW R, RowsFit(R), NEW l, Walks(R, l), NEW new \in ListRows,
         \A r \in R : r.id # new.id /\ r.at <= new.at
  PROVE  RowsFit(R \cup {new}) /\ Walks(R \cup {new}, l)
<1> DEFINE T == R \cup {new}
<1>1. RowsFit(T)
  <2>1. IsFiniteSet(T)
    BY FS_AddElement DEF RowsFit
  <2>2. \A r, s \in T : r.id = s.id => r = s
    BY DEF RowsFit
  <2> QED BY <2>1, <2>2 DEF RowsFit
<1>2. R \subseteq T /\ new \in T /\ new \notin R
  OBVIOUS
<1>3. \A r \in T : r \in R \/ r = new
  OBVIOUS
<1> HIDE DEF T
<1>4. \A c : CursorKnown(R, c) => CursorKnown(T, c)
  BY <1>2 DEF CursorKnown
<1>5. \A view, filter, c, p : PageFits(R, view, filter, c, p) => PageFits(T, view, filter, c, p)
  <2>1. \A s \in Seq(R) : s \in Seq(T)
    BY <1>2, SeqMonotonic
  <2> QED BY <2>1 DEF PageFits
<1>6. ASSUME NEW view, NEW key, NEW body, CursorKnown(R, key.cursor), BodyFits(R, view, key, body)
      PROVE  BodyFits(T, view, key, body)
  <2>1. body.from \subseteq T /\ new \notin body.from
    BY <1>2, <1>6 DEF BodyFits
  <2>2. AfterCursor(view, new, key.cursor) /\ key.cursor # NoCursor => new.at = key.cursor.at
    <3> SUFFICES ASSUME AfterCursor(view, new, key.cursor), key.cursor # NoCursor
                 PROVE  new.at = key.cursor.at
      OBVIOUS
    <3>1. PICK r \in R : key.cursor = CursorOf(r)
      BY <1>6 DEF CursorKnown
    <3>2. r \in T /\ r.at <= new.at
      BY <1>2
    <3> QED BY <1>1, <1>2, <3>1, <3>2, CursorsTell
  <2>3. LeavesNoneOut(T, view, key, body)
    <3> SUFFICES ASSUME NEW r \in T, Matches(r, key.filter), AfterCursor(view, r, key.cursor)
                 PROVE  \/ r \in ToSet(body.items)
                        \/ body.next # NoCursor /\ Before(Last(body.items), r)
                        \/ key.cursor = NoCursor /\ r \notin body.from
                        \/ key.cursor # NoCursor /\ r.at = key.cursor.at
      BY DEF LeavesNoneOut
    <3>1. CASE r \in R
      BY <1>6, <3>1 DEF BodyFits, LeavesNoneOut
    <3>2. CASE r = new
      BY <2>1, <2>2, <3>2
    <3> QED BY <1>3, <3>1, <3>2
  <2> QED BY <1>5, <1>6, <2>1, <2>3 DEF BodyFits
<1>7. BodiesFit(T, l)
  BY <1>4, <1>6 DEF Walks, BodiesFit
<1>8. PagesHang(T, l)
  BY <1>5 DEF Walks, PagesHang
<1> QED BY <1>1, <1>7, <1>8 DEF Walks, T

\* What changes neither pages nor filter nor view nor cache keeps the walk.
LEMMA WalkStays ==
  ASSUME NEW R, NEW l, Walks(R, l), LastShown(l), NEW e \in ListViews,
         e.pages = l.pages, e.view = l.view, e.filter = l.filter, e.cached = l.cached,
         e.asked \subseteq l.asked
  PROVE  Walks(R, e) /\ LastShown(e)
<1>1. LastPage(e) = LastPage(l) /\ ActiveKey(e) = ActiveKey(l)
  BY DEF LastPage, ActiveKey
<1>2. \A r : PassedBy(l, r) <=> PassedBy(e, r)
  BY DEF PassedBy
<1>3. WalkGoesOn(e)
  BY <1>1, <1>2 DEF Walks, WalkGoesOn
<1>4. BodiesFit(R, e) /\ PagesHang(R, e) /\ PagesOrdered(e)
  BY DEF Walks, BodiesFit, PagesHang, PagesOrdered
<1> QED BY <1>1, <1>3, <1>4 DEF Walks, LastShown

\* An answer is cached and, if it is the active page's, shown.
LEMMA PageAnsweredKeeps ==
  ASSUME ListInv, NEW key \in list.asked, Answered(key)
  PROVE  ListInv'
<1> DEFINE body == ListPage(list.view, key.filter, key.cursor)
           asked == list.asked \ {key}
           cached == Store(list.cached, key, body)
           got == [list EXCEPT !.asked = asked, !.cached = cached]
<1>1. /\ list' = IF key = ActiveKey(list) THEN Effect(got) ELSE got
      /\ rows' = rows
  BY DEF Answered
<1>2. RowsFit(rows) /\ Walks(rows, list) /\ LastShown(list) /\ list \in ListViews
  BY DEF ListInv, Walks
<1>3. key \in ListKeys /\ CursorKnown(rows, key.cursor)
  BY <1>2, ListFields DEF Walks, BodiesFit
<1>4. body \in Bodies /\ BodyFits(rows, list.view, key, body)
  BY <1>2, <1>3, PagesRead
<1> HIDE DEF body
<1>5. /\ DOMAIN cached = DOMAIN list.cached \cup {key} /\ cached[key] = body
      /\ \A k \in DOMAIN list.cached : k # key => cached[k] = list.cached[k]
  BY DEF Store
<1>6. cached \in ListCaches
  <2>1. DOMAIN cached \in SUBSET ListKeys /\ \A k \in DOMAIN cached : cached[k] \in Bodies
    BY <1>2, <1>3, <1>4, <1>5, ListFields
  <2>2. cached = [k \in DOMAIN cached |-> cached[k]]
    BY DEF Store
  <2> HIDE DEF cached
  <2>3. cached \in [DOMAIN cached -> Bodies]
    BY <2>1, <2>2
  <2> QED BY <2>1, <2>3 DEF ListCaches
<1>7. asked \in SUBSET ListKeys /\ asked \subseteq list.asked
  BY <1>2, ListFields
<1> HIDE DEF cached, asked
<1>8. /\ got \in ListViews /\ got.pages = list.pages /\ got.view = list.view
      /\ got.filter = list.filter /\ got.cached = cached /\ got.asked = asked
  BY <1>2, <1>6, <1>7 DEF ListViews
<1> HIDE DEF got
<1>9. LastPage(got) = LastPage(list) /\ ActiveKey(got) = ActiveKey(list)
  BY <1>8 DEF LastPage, ActiveKey
<1>10. BodiesFit(rows, got)
  BY <1>2, <1>3, <1>4, <1>5, <1>7, <1>8 DEF Walks, BodiesFit
<1>11. PagesHang(rows, got) /\ PagesOrdered(got)
  BY <1>2, <1>8 DEF Walks, PagesHang, PagesOrdered
<1>12. WalkGoesOn(got)
  <2>1. \A r : PassedBy(list, r) <=> PassedBy(got, r)
    BY <1>8 DEF PassedBy
  <2> QED BY <1>2, <1>5, <1>7, <1>8, <1>9, <2>1 DEF Walks, WalkGoesOn
<1>13. Walks(rows, got)
  BY <1>8, <1>10, <1>11, <1>12 DEF Walks
<1>14. CASE key = ActiveKey(list)
  <2>1. ActiveKey(got) \in DOMAIN got.cached
    BY <1>5, <1>8, <1>9, <1>14
  <2> QED BY <1>1, <1>2, <1>13, <1>14, <2>1, EffectShows DEF ListInv
<1>15. CASE key # ActiveKey(list)
  <2>1. LastShown(got)
    BY <1>2, <1>5, <1>8, <1>9, <1>15 DEF LastShown
  <2> QED BY <1>1, <1>2, <1>13, <1>15, <2>1 DEF ListInv
<1> QED BY <1>14, <1>15

\* The clicks, the failures and the writes of others.
LEMMA ListMovesKeep ==
  ASSUME ListInv, ListsNext
  PROVE  ListInv'
<1>1. RowsFit(rows) /\ Walks(rows, list) /\ LastShown(list) /\ list \in ListViews
  BY DEF ListInv, Walks
<1>2. /\ list.asked \in SUBSET ListKeys /\ list.failed \in SUBSET ListKeys /\ list.changes \in Nat
      /\ list.view \in Views /\ list.filter \in Filters
      /\ list.open \in RowIds \cup {NoneOpen}
  BY <1>1, ListFields
<1>3. CASE AddRow
  <2>1. PICK id \in RowIds, at \in Ticks, type \in EventTypes :
          /\ \A r \in rows : r.id # id /\ r.at <= at
          /\ rows' = rows \cup {[id |-> id, at |-> at, type |-> type]}
          /\ UNCHANGED list
    BY <1>3 DEF AddRow
  <2> DEFINE new == [id |-> id, at |-> at, type |-> type]
  <2>2. new \in ListRows /\ new.id = id /\ new.at = at
    BY DEF ListRows
  <2> HIDE DEF new
  <2>3. \A r \in rows : r.id # new.id /\ r.at <= new.at
    BY <2>1, <2>2
  <2>4. RowsFit(rows \cup {new}) /\ Walks(rows \cup {new}, list)
    BY <1>1, <2>2, <2>3, RowComes
  <2> QED BY <1>1, <2>1, <2>4 DEF ListInv, new
<1>4. CASE LoadMore
  <2> DEFINE e == [list EXCEPT !.pages = Append(@, EmptyPage(LastPage(list).next))]
  <2>1. ActiveKey(list) \notin list.asked /\ LastPage(list).next # NoCursor /\ list' = Render(e) /\ rows' = rows
    BY <1>4 DEF LoadMore, Fetching
  <2>2. Walks(rows, e) /\ LastPage(e).next = NoCursor
    BY <1>1, <2>1, PageAdded
  <2> HIDE DEF e
  <2>3. Walks(rows, Render(e)) /\ LastShown(Render(e))
    BY <1>1, <2>2, RenderShows
  <2> QED BY <1>1, <2>1, <2>3 DEF ListInv
<1>5. CASE FilterChange
  <2>1. PICK filter \in (EventTypes \cup {NoFilter}) \ {list.filter} :
          list' = Render([list EXCEPT !.filter = filter, !.changes = @ + 1,
                                      !.pages = <<EmptyPage(NoCursor)>>])
    BY <1>5 DEF FilterChange
  <2> DEFINE ps == <<EmptyPage(NoCursor)>>
             m == list.changes + 1
             e == [list EXCEPT !.filter = filter, !.changes = m, !.pages = ps]
  <2>2. rows' = rows /\ list' = Render(e)
    BY <1>5, <2>1 DEF FilterChange
  <2>3. ps \in Seq(ListPages)
    <3>1. NoCursor \in Cursors
      BY DEF Cursors
    <3>2. <<>> \in Seq(ListRows)
      BY EmptySeq
    <3>3. EmptyPage(NoCursor) \in ListPages
      BY <3>1, <3>2 DEF EmptyPage, ListPages
    <3> HIDE DEF ListPages
    <3> QED BY <3>3
  <2>4. filter \in Filters /\ m \in Nat
    BY <1>2 DEF Filters
  <2>5. ps = <<EmptyPage(NoCursor)>>
    OBVIOUS
  <2> HIDE DEF ps, m
  <2>6. /\ e \in ListViews /\ e.pages = ps /\ e.view = list.view /\ e.cached = list.cached
        /\ e.asked = list.asked
    BY <1>1, <2>3, <2>4 DEF ListViews
  <2> HIDE DEF e
  <2>7. BodiesFit(rows, e)
    BY <1>1, <2>6 DEF Walks, BodiesFit
  <2>8. Walks(rows, e) /\ LastPage(e).next = NoCursor
    BY <1>1, <2>5, <2>6, <2>7, WalkStarts
  <2>9. Walks(rows, Render(e)) /\ LastShown(Render(e))
    BY <1>1, <2>8, RenderShows
  <2> QED BY <1>1, <2>2, <2>9 DEF ListInv
<1>6. CASE Retry
  <2>1. list' = Render(list) /\ rows' = rows
    BY <1>6 DEF Retry
  <2>2. ActiveKey(list) \notin DOMAIN list.cached => LastPage(list).next = NoCursor
    BY <1>1 DEF LastShown
  <2>3. Walks(rows, Render(list)) /\ LastShown(Render(list))
    BY <1>1, <2>2, RenderShows
  <2> QED BY <1>1, <2>1, <2>3 DEF ListInv
<1>7. ASSUME NEW asked \in SUBSET list.asked, NEW failed \in SUBSET ListKeys,
             NEW open \in RowIds \cup {NoneOpen}, rows' = rows,
             list' = [list EXCEPT !.asked = asked, !.failed = failed, !.open = open]
      PROVE  ListInv'
  <2>1. asked \in SUBSET ListKeys
    BY <1>2
  <2>2. /\ list' \in ListViews /\ list'.pages = list.pages /\ list'.view = list.view
        /\ list'.filter = list.filter /\ list'.cached = list.cached /\ list'.asked = asked
    BY <1>1, <1>7, <2>1 DEF ListViews
  <2>3. Walks(rows, list') /\ LastShown(list')
    BY <1>1, <2>2, WalkStays
  <2> QED BY <1>1, <1>7, <2>3 DEF ListInv
<1>8. \A asked \in SUBSET ListKeys, failed \in SUBSET ListKeys :
        [list EXCEPT !.asked = asked, !.failed = failed, !.open = list.open]
          = [list EXCEPT !.asked = asked, !.failed = failed]
  BY <1>1 DEF ListViews
<1>9. \A open \in RowIds \cup {NoneOpen} :
        [list EXCEPT !.asked = list.asked, !.failed = list.failed, !.open = open]
          = [list EXCEPT !.open = open]
  BY <1>1 DEF ListViews
<1>10. ASSUME NEW key \in list.asked, Failed(key)
       PROVE  ListInv'
  <2> DEFINE asked == list.asked \ {key}
             failed == list.failed \cup {key}
  <2>1. list' = [list EXCEPT !.asked = asked, !.failed = failed] /\ rows' = rows
    BY <1>10 DEF Failed
  <2>2. asked \in SUBSET list.asked /\ asked \in SUBSET ListKeys /\ failed \in SUBSET ListKeys
    BY <1>2
  <2> HIDE DEF asked, failed
  <2> QED BY <1>2, <1>7, <1>8, <2>1, <2>2
<1>11. ASSUME NEW open \in RowIds \cup {NoneOpen}, list' = [list EXCEPT !.open = open], rows' = rows
       PROVE  ListInv'
  <2>1. list.asked \in SUBSET list.asked
    OBVIOUS
  <2> QED BY <1>2, <1>7, <1>9, <1>11, <2>1
<1>12. CASE Select
  <2>1. PICK r \in Items(list) : list' = [list EXCEPT !.open = r.id]
    BY <1>12 DEF Select
  <2>2. PICK i \in DOMAIN list.pages : r \in ToSet(list.pages[i].items)
    BY <2>1 DEF Items
  <2>3. i \in 1 .. Len(list.pages)
    BY <1>1, ListFields, LenProperties
  <2>4. r \in rows
    BY <1>1, <2>2, <2>3, PageRows DEF ToSet
  <2>5. r.id \in RowIds
    BY <1>1, <2>4 DEF RowsFit, ListRows
  <2> QED BY <1>11, <1>12, <2>1, <2>5 DEF Select
<1>13. CASE Close
  BY <1>11, <1>13 DEF Close
<1> QED BY <1>3, <1>4, <1>5, <1>6, <1>10, <1>12, <1>13, PageAnsweredKeeps DEF ListsNext

\* The view opens on the page the server has loaded.
LEMMA ListMounts ==
  ASSUME RowsFit(rows), NEW view \in Views, NEW filter \in Filters, list = Mounted(view, filter)
  PROVE  ListInv
<1> DEFINE key == Key(filter, NoCursor)
           body == ListPage(view, filter, NoCursor)
           page == [cursor |-> NoCursor, items |-> body.items, next |-> body.next]
           cached == [k \in {key} |-> body]
           ps == <<page>>
<1>1. list = [view |-> view, filter |-> filter, pages |-> ps, cached |-> cached,
              asked |-> {key}, failed |-> {}, open |-> NoneOpen, changes |-> 0]
  BY DEF Mounted
<1>2. key \in ListKeys /\ key.filter = filter /\ key.cursor = NoCursor
  <2>1. NoCursor \in Cursors
    BY DEF Cursors
  <2> HIDE DEF NoCursor
  <2> QED BY <2>1 DEF Key, ListKeys
<1>3. body \in Bodies /\ BodyFits(rows, view, key, body)
  <2>1. \A c : c = key.cursor => ListPage(view, key.filter, key.cursor) = ListPage(view, filter, c)
    BY <1>2
  <2> QED BY <1>2, <2>1, PagesRead
<1> HIDE DEF body
<1>4. page \in ListPages /\ page.cursor = NoCursor /\ page.items = body.items /\ page.next = body.next
  <2>1. NoCursor \in Cursors
    BY DEF Cursors
  <2> HIDE DEF NoCursor
  <2> QED BY <1>3, <2>1 DEF ListPages, Bodies
<1>5. PageFits(rows, view, filter, page.cursor, page)
  BY <1>2, <1>3, <1>4 DEF BodyFits, PageFits
<1> HIDE DEF page
<1>6. ps \in Seq(ListPages) /\ Len(ps) = 1 /\ ps[1] = page /\ 1 .. 1 = {1}
  <2> HIDE DEF ListPages
  <2> QED BY <1>4
<1> HIDE DEF key, ps
<1>7. DOMAIN cached = {key} /\ cached[key] = body /\ cached \in ListCaches
  <2>1. cached \in [{key} -> Bodies] /\ {key} \in SUBSET ListKeys
    BY <1>2, <1>3
  <2> QED BY <2>1 DEF ListCaches
<1> HIDE DEF cached
<1>8. /\ list \in ListViews /\ list.view = view /\ list.filter = filter /\ list.pages = ps
      /\ list.cached = cached /\ list.asked = {key}
  BY <1>1, <1>2, <1>6, <1>7 DEF ListViews
<1>9. LastPage(list) = page /\ ActiveKey(list) = key
  BY <1>4, <1>6, <1>8 DEF LastPage, Last, ActiveKey, key
<1>10. BodiesFit(rows, list)
  BY <1>2, <1>3, <1>7, <1>8 DEF BodiesFit, CursorKnown
<1>11. PagesHang(rows, list)
  <2>1. 1 .. 1 - 1 = {}
    OBVIOUS
  <2>2. \A i \in 1 .. 1 : PageFits(rows, view, filter, ps[i].cursor, ps[i])
    BY <1>5, <1>6
  <2>3. ps[1].cursor = NoCursor
    BY <1>4, <1>6
  <2>4. Len(list.pages) = 1 /\ list.pages = ps
    BY <1>6, <1>8
  <2>5. \A i \in 1 .. Len(list.pages) - 1 : FALSE
    BY <2>1, <2>4
  <2> QED BY <1>8, <2>2, <2>3, <2>4, <2>5 DEF PagesHang
<1>12. PagesOrdered(list) /\ WalkGoesOn(list)
  <2>1. \A i, j \in 1 .. 1 : ~(i < j)
    OBVIOUS
  <2>2. ~(1 > 1)
    OBVIOUS
  <2> QED BY <1>6, <1>8, <2>1, <2>2 DEF PagesOrdered, WalkGoesOn
<1>13. LastShown(list)
  BY <1>4, <1>7, <1>8, <1>9 DEF LastShown
<1> QED BY <1>8, <1>10, <1>11, <1>12, <1>13 DEF ListInv, Walks

\* No row or finitely many with distinct ids are there at first.
LEMMA ListsBegin ==
  ASSUME ListsInit \/ (rows = {} /\ list = Mounted("history", NoFilter))
  PROVE  ListInv
<1>1. "history" \in Views /\ "activity" \in Views /\ NoFilter \in Filters /\ EventTypes \cup {NoFilter} = Filters
  BY DEF Views, Filters
<1>2. CASE rows = {} /\ list = Mounted("history", NoFilter)
  <2>1. RowsFit(rows)
    BY <1>2, FS_EmptySet DEF RowsFit
  <2> QED BY <1>1, <1>2, <2>1, ListMounts
<1>3. CASE ListsInit
  <2>1. PICK ids \in SUBSET RowIds : \E at \in [ids -> Ticks], type \in [ids -> EventTypes] :
          rows = {[id |-> i, at |-> at[i], type |-> type[i]] : i \in ids}
    BY <1>3 DEF ListsInit
  <2>2. PICK at \in [ids -> Ticks], type \in [ids -> EventTypes] :
          rows = {[id |-> i, at |-> at[i], type |-> type[i]] : i \in ids}
    BY <2>1
  <2> DEFINE f == [i \in ids |-> [id |-> i, at |-> at[i], type |-> type[i]]]
  <2>3. IsFiniteSet(ids)
    BY ListsAssumption, FS_Subset
  <2>4. f \in Surjection(ids, rows)
    <3>1. f \in [ids -> rows] /\ \A r \in rows : \E i \in ids : f[i] = r
      BY <2>2
    <3> QED BY <3>1 DEF Surjection
  <2>5. IsFiniteSet(rows)
    BY <2>3, <2>4, FS_Surjection
  <2>6. rows \subseteq ListRows /\ \A r, s \in rows : r.id = s.id => r = s
    BY <2>2 DEF ListRows
  <2>7. RowsFit(rows)
    BY <2>5, <2>6 DEF RowsFit
  <2> QED BY <1>1, <1>3, <2>7, ListMounts DEF ListsInit
<1> QED BY <1>2, <1>3

\* What the invariant says of the rows that are shown.
LEMMA ListInvSuffices ==
  ASSUME ListInv
  PROVE  ListsShowEveryRow
<1>1. RowsFit(rows) /\ Walks(rows, list) /\ LastShown(list) /\ list \in ListViews
  BY DEF ListInv, Walks
<1> DEFINE n == Len(list.pages)
<1>2. n \in Nat /\ n > 0 /\ LastPage(list) = list.pages[n] /\ DOMAIN list.pages = 1 .. n
  BY <1>1, ActiveKnown, ListFields, LenProperties
<1>3. ASSUME NEW i \in 1 .. n
      PROVE  /\ DOMAIN list.pages[i].items = 1 .. Len(list.pages[i].items)
             /\ Len(list.pages[i].items) \in Nat
             /\ \A a \in DOMAIN list.pages[i].items :
                  list.pages[i].items[a] \in rows /\ Matches(list.pages[i].items[a], list.filter)
  <2>1. PageFits(rows, list.view, list.filter, list.pages[i].cursor, list.pages[i])
    BY <1>1 DEF Walks, PagesHang
  <2> QED BY <1>1, <2>1, PageRows DEF PageFits
<1>4. ASSUME NEW i \in 1 .. n, NEW j \in 1 .. n, NEW a \in DOMAIN list.pages[i].items,
             NEW b \in DOMAIN list.pages[j].items, i < j \/ (i = j /\ a < b)
      PROVE  list.pages[i].items[a].id # list.pages[j].items[b].id
  <2> DEFINE x == list.pages[i].items[a]
             y == list.pages[j].items[b]
  <2>1. x \in rows /\ y \in rows
    BY <1>3
  <2>2. Before(x, y)
    <3>1. CASE i < j
      BY <1>1, <1>3, <3>1 DEF Walks, PagesOrdered
    <3>2. CASE i = j /\ a < b
      <4>1. PageFits(rows, list.view, list.filter, list.pages[i].cursor, list.pages[i])
        BY <1>1 DEF Walks, PagesHang
      <4> QED BY <1>3, <3>2, <4>1 DEF PageFits
    <3> QED BY <1>4, <3>1, <3>2
  <2> HIDE DEF x, y
  <2>3. x # y
    BY <1>1, <2>1, <2>2, BeforeOrders
  <2>4. x.id # y.id
    BY <1>1, <2>1, <2>3 DEF RowsFit
  <2> QED BY <2>4 DEF x, y
<1>5. NothingTwice
  <2>1. ASSUME NEW i \in DOMAIN list.pages, NEW j \in DOMAIN list.pages,
               NEW a \in DOMAIN list.pages[i].items, NEW b \in DOMAIN list.pages[j].items,
               list.pages[i].items[a].id = list.pages[j].items[b].id
        PROVE  i = j /\ a = b
    <3>1. i \in 1 .. n /\ j \in 1 .. n
      BY <1>2
    <3>2. ~(i < j) /\ ~(j < i)
      BY <1>4, <2>1, <3>1
    <3>3. i = j
      BY <1>2, <3>1, <3>2
    <3>4. ~(a < b) /\ ~(b < a)
      BY <1>4, <2>1, <3>1, <3>3
    <3>5. a \in Nat /\ b \in Nat
      BY <1>3, <3>1
    <3> QED BY <3>3, <3>4, <3>5
  <2>2. \A r \in Items(list) : Matches(r, list.filter)
    BY <1>2, <1>3 DEF Items, ToSet
  <2> QED BY <2>1, <2>2 DEF NothingTwice
<1>6. WalkIsComplete
  <2> SUFFICES ASSUME Ended, NEW r \in WalkFrom, Matches(r, list.filter), ~SharesMs(r)
               PROVE  r \in Items(list)
    BY DEF WalkIsComplete
  <2>1. ActiveKey(list) \in DOMAIN list.cached /\ LastPage(list).next = NoCursor
    BY DEF Ended
  <2>2. ASSUME NEW i \in 1 .. n, r \in ToSet(list.pages[i].items)
        PROVE  r \in Items(list)
    BY <1>2, <2>2 DEF Items
  <2>3. ASSUME NEW i \in 1 .. n - 1
        PROVE  Millis(Last(list.pages[i].items).at) # Millis(r.at)
    <3>1. i \in DOMAIN list.pages /\ i < n
      BY <1>2
    <3> QED BY <3>1 DEF SharesMs
  <2>4. n = 1 => ActiveKey(list) = Key(list.filter, NoCursor)
    BY <1>1, ActiveKnown
  <2>5. n > 1 => Key(list.filter, NoCursor) \in DOMAIN list.cached
    BY <1>1 DEF Walks, WalkGoesOn
  <2>6. r \in rows
    <3>1. Key(list.filter, NoCursor) \in DOMAIN list.cached
      BY <1>2, <2>1, <2>4, <2>5, OneOrMore
    <3> QED BY <1>1, <3>1 DEF WalkFrom, Walks, BodiesFit, BodyFits
  <2>7. CASE PassedBy(list, r)
    <3>1. PICK i \in 1 .. n - 1 :
            r \in ToSet(list.pages[i].items) \/ Millis(Last(list.pages[i].items).at) = Millis(r.at)
      BY <2>7 DEF PassedBy
    <3>2. i \in 1 .. n
      BY <1>2
    <3> QED BY <2>2, <2>3, <3>1, <3>2
  <2>8. CASE ~PassedBy(list, r)
    <3>1. AfterCursor(list.view, r, LastPage(list).cursor)
      <4>1. CASE n = 1
        <5>1. LastPage(list).cursor = NoCursor
          BY <1>1, <1>2, <4>1 DEF Walks, PagesHang
        <5> QED BY <5>1 DEF AfterCursor
      <4>2. CASE n > 1
        BY <1>1, <2>8, <4>2 DEF Walks, WalkGoesOn, WalkFrom
      <4> QED BY <1>2, <4>1, <4>2, OneOrMore
    <3>2. n = 1 => r \in list.cached[ActiveKey(list)].from
      BY <2>4 DEF WalkFrom
    <3>3. \/ r \in ToSet(LastPage(list).items)
          \/ n > 1 /\ Millis(Last(list.pages[n - 1].items).at) = Millis(r.at)
      BY <1>1, <2>1, <2>6, <3>1, <3>2, BehindTheCursor
    <3>4. n \in 1 .. n /\ (n > 1 => n - 1 \in 1 .. n - 1)
      BY <1>2
    <3> QED BY <1>2, <2>2, <2>3, <3>3, <3>4
  <2> QED BY <2>7, <2>8
<1> QED BY <1>5, <1>6 DEF ListsShowEveryRow

\* A walk of a list shows no row twice, none the filter hides, and at its end every row
\* that was there when it began but those a cursor of milliseconds loses (history-view.tsx,
\* activity-view.tsx, generation-history.service.ts, audit.service.ts), for any rows, page
\* length and resolution of dates, whatever is added, answered late, refused or filtered.
THEOREM ListsAlwaysShowEveryRow == Spec => []ListsShowEveryRow
<1>1. Init => ListInv
  BY ListsBegin DEF Init
<1>2. ListInv /\ [Next]_vars => ListInv'
  <2> SUFFICES ASSUME ListInv, [Next]_vars
               PROVE  ListInv'
    OBVIOUS
  <2>1. ListsNext \/ UNCHANGED listVars
    BY DEF Next, ListingsFeature, RescoreFeature, AnalyticsFeature, SessionsFeature, ApiKeysFeature,
           LlmKeysFeature, CommitMessagesFeature, vars
  <2>2. CASE UNCHANGED listVars
    BY <2>2 DEF listVars, ListInv
  <2> QED BY <2>1, <2>2, ListMovesKeep
<1>3. ListInv => ListsShowEveryRow
  BY ListInvSuffices
<1> QED BY <1>1, <1>2, <1>3, PTL DEF Spec

==============================================================================
