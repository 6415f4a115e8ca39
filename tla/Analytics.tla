------------------------------ MODULE Analytics ------------------------------
(* The analytics of one repository: the read-through cache in Redis, its
   invalidation by the events of a sync, a rescore and a purge, the API's
   readers and the mounted analytics page.  What a loader reads is the version
   of the repository's data, counted by the writes of Rescore.  An event's
   handler runs in the API instance that published it, a reader in any. *)
EXTENDS Rescore

CONSTANTS Kinds, Readers, MaxWrites, MaxSweepFaults

NoVersion == -1

VARIABLES data,    \* version: writes made; announced: the version at the last event; ...
          cache,   \* [kind -> what Redis holds]
          reader,  \* [reader -> a getOrSet with its local variables]
          sweep,   \* the invalidation handlers' runs
          chart    \* the page: [kind -> what React Query shows]; excused: history

cacheVars == <<data, cache, reader, sweep, chart>>
analyticsVars == <<rescoreVars, cacheVars>>

Absent == [v |-> NoVersion, ttl |-> TRUE, late |-> FALSE]
NoRead == [at |-> "idle", kind |-> "", got |-> NoVersion, forPage |-> FALSE]
NoSweep == [on |-> FALSE, left |-> {}]

CacheInit ==
    /\ data = [version |-> 0, announced |-> 0, syncing |-> FALSE, faults |-> 0]
    /\ cache = [k \in Kinds |-> Absent]
    /\ reader = [r \in Readers |-> NoRead]
    /\ sweep = NoSweep
    /\ chart = [k \in Kinds |-> [v |-> 0, asked |-> FALSE, failed |-> FALSE, excused |-> FALSE]]

\* The date of every commit: which it is does not matter here.
OneDate == CHOOSE d \in Dates : TRUE

AnalyticsInit ==
    /\ commits = {[id |-> Min(CommitIds), at |-> OneDate]}
    /\ rescored = {} /\ job = NoJob /\ CacheInit

-----------------------------------------------------------------------------
\* The writers.  A sync's last step and a rescore's end publish their event,
\* a purge with its rows.

\* Mutant: rescores do not invalidate.
InvalidateIgnoringRescore(trigger) ==
    /\ sweep' = IF trigger = "rescored" THEN sweep ELSE [on |-> TRUE, left |-> Kinds]
    /\ data' = [data EXCEPT !.announced = data.version, !.syncing = FALSE]

\* The event is published: OnRepositorySyncedHandler begins to scan.  (A second
\* event's scan, over the same keys, starts the one run of the model again.)
Invalidate(trigger) ==
    /\ sweep' = [on |-> TRUE, left |-> Kinds]
    /\ data' = [data EXCEPT !.announced = data.version, !.syncing = FALSE]

\* Which commit is written does not matter here.
SyncWrites ==
    /\ data.version < MaxWrites
    /\ \E i \in CommitIds : /\ \A r \in commits : r.id < i
                           /\ \A j \in CommitIds : (\A r \in commits : r.id < j) => i <= j
                           /\ SyncBatch(i, OneDate)
    /\ data' = [data EXCEPT !.version = @ + 1, !.syncing = TRUE]
    /\ UNCHANGED <<cache, reader, sweep, chart>>

\* A page nobody told keeps what it has.
Untold == [k \in Kinds |-> [chart[k] EXCEPT !.excused = TRUE]]

\* onCompleted: invalidateQueries over the analytics prefix.
Refetch == [k \in Kinds |-> [chart[k] EXCEPT !.asked = TRUE, !.failed = FALSE, !.excused = FALSE]]

\* markCompleted and setLastSynced, then RepoSyncedEvent.  The gateway's message
\* may reach the page, or not; a fetch under way is given up for the new one.
SyncEnds(seen) ==
    /\ data.syncing
    /\ Invalidate("synced")
    /\ chart' = IF seen THEN Refetch ELSE Untold
    /\ reader' = IF seen THEN [r \in Readers |-> [reader[r] EXCEPT !.forPage = FALSE]]
                 ELSE reader
    /\ UNCHANGED <<rescoreVars, cache>>

RescoreWrites ==
    /\ data.version < MaxWrites /\ UpsertPage
    /\ data' = [data EXCEPT !.version = @ + 1]
    /\ UNCHANGED <<cache, reader, sweep, chart>>

\* The loop's end: the event is published if anything was scored.
RescoreEnds ==
    /\ SelectPage
    /\ IF job'.state = "completed" /\ job.processed > 0
         THEN Invalidate("rescored") /\ chart' = Untold
         ELSE UNCHANGED <<sweep, data, chart>>
    /\ UNCHANGED <<cache, reader>>

Purges ==
    /\ data.version < MaxWrites /\ Purge
    /\ sweep' = [on |-> TRUE, left |-> Kinds]
    /\ data' = [data EXCEPT !.version = @ + 1, !.announced = data.version + 1]
    /\ chart' = Untold
    /\ UNCHANGED <<cache, reader>>

\* delByPattern: SCAN returns each key once in some order, and what it returns
\* is deleted.
SweepStep ==
    /\ sweep.on
    /\ IF sweep.left = {} THEN sweep' = NoSweep /\ UNCHANGED cache
       ELSE \E k \in sweep.left : /\ sweep' = [sweep EXCEPT !.left = @ \ {k}]
                                  /\ cache' = [cache EXCEPT ![k] = Absent]
    /\ UNCHANGED <<rescoreVars, data, reader, chart>>

\* Redis fails in the middle of the scan: the handler logs it and ends.
SweepFails ==
    /\ sweep.on /\ data.faults < MaxSweepFaults
    /\ sweep' = NoSweep
    /\ data' = [data EXCEPT !.faults = @ + 1]
    /\ cache' = [k \in Kinds |-> [cache[k] EXCEPT !.late = @ \/ k \in sweep.left]]
    /\ UNCHANGED <<rescoreVars, reader, chart>>

-----------------------------------------------------------------------------
\* The readers.

\* A request passes assertRepoOwnership and comes to getOrSet: the page's, or
\* another client's.
Begin(r, k) ==
    /\ reader[r].at = "idle"
    /\ \E forPage \in BOOLEAN :
         /\ forPage => chart[k].asked /\ \A s \in Readers : ~(reader[s].forPage /\ reader[s].kind = k)
         /\ reader' = [reader EXCEPT ![r] = [at |-> "get", kind |-> k, got |-> NoVersion,
                                             forPage |-> forPage]]
    /\ UNCHANGED <<rescoreVars, data, cache, sweep, chart>>

\* excused: the page gets data that were read before the last event.
Return(r, v, raced) ==
    LET k == reader[r].kind IN
    /\ reader' = [reader EXCEPT ![r] = NoRead]
    /\ chart' = IF reader[r].forPage
                THEN [chart EXCEPT ![k] = [v |-> v, asked |-> FALSE, failed |-> FALSE,
                                            excused |-> raced]]
                ELSE chart

\* getJson: a hit is returned, a miss goes on.
Get(r) ==
    /\ reader[r].at = "get"
    /\ IF cache[reader[r].kind].v # NoVersion
         THEN LET k == reader[r].kind
              IN Return(r, cache[k].v, cache[k].late \/ k \in sweep.left)
         ELSE reader' = [reader EXCEPT ![r].at = "load"] /\ UNCHANGED chart
    /\ UNCHANGED <<rescoreVars, data, cache, sweep>>

\* The loader's one statement.
Load(r) ==
    /\ reader[r].at = "load"
    /\ reader' = [reader EXCEPT ![r].at = "set", ![r].got = data.version]
    /\ UNCHANGED <<rescoreVars, data, cache, sweep, chart>>

\* The statement fails, and with it the request: retry is 0, so the card shows
\* its error state in the data's place.
LoadFails(r) ==
    /\ reader[r].at = "load"
    /\ reader' = [reader EXCEPT ![r] = NoRead]
    /\ chart' = IF reader[r].forPage
                THEN [chart EXCEPT ![reader[r].kind].asked = FALSE,
                                   ![reader[r].kind].failed = TRUE]
                ELSE chart
    /\ UNCHANGED <<rescoreVars, data, cache, sweep>>

\* The error state's retry button, disabled while the query fetches.
RetryChart(k) ==
    /\ chart[k].failed /\ ~chart[k].asked
    /\ chart' = [chart EXCEPT ![k].asked = TRUE, ![k].failed = FALSE]
    /\ UNCHANGED <<rescoreVars, data, cache, reader, sweep>>

\* Mutant: the entry has no time to live.
StoredForever(r) ==
    [v |-> reader[r].got, ttl |-> FALSE, late |-> reader[r].got < data.announced]

\* The entry setJson stores, with its TTL; late marks a fill that began before
\* an event and ends after it (no guard reads it).
Stored(r) ==
    [v |-> reader[r].got, ttl |-> TRUE, late |-> reader[r].got < data.announced]

\* setJson, whose failure is logged only; the result is returned either way.
Set(r) ==
    /\ reader[r].at = "set"
    /\ \/ cache' = [cache EXCEPT ![reader[r].kind] = Stored(r)]
       \/ UNCHANGED cache
    /\ Return(r, reader[r].got, reader[r].got < data.announced)
    /\ UNCHANGED <<rescoreVars, data, sweep>>

\* Redis drops an entry whose time is over.
Expire(k) ==
    /\ cache[k].v # NoVersion /\ cache[k].ttl
    /\ cache' = [cache EXCEPT ![k] = Absent]
    /\ UNCHANGED <<rescoreVars, data, reader, sweep, chart>>

RescoreStep ==
    /\ EnqueueRescore \/ TakeRescore \/ UpsertFails
    /\ UNCHANGED cacheVars

ReaderStep(r) == (\E k \in Kinds : Begin(r, k)) \/ Get(r) \/ Load(r) \/ LoadFails(r) \/ Set(r)

AnalyticsNext ==
    \/ SyncWrites \/ RescoreWrites \/ RescoreEnds \/ Purges \/ RescoreStep
    \/ \E seen \in BOOLEAN : SyncEnds(seen)
    \/ SweepStep \/ SweepFails
    \/ \E r \in Readers : ReaderStep(r)
    \/ \E k \in Kinds : Expire(k) \/ RetryChart(k)

\* An entry older than the last sync, rescore or purge that was announced, once
\* the sweep has passed its key, was stored by a fill that had read before the
\* event, or was left by a sweep that failed
\* (analytics-cache.service.ts:31 and :61, on-repository-synced.handler.ts:18).
StaleOnlyByOverlap ==
    \A k \in Kinds :
      cache[k].v # NoVersion /\ cache[k].v < data.announced =>
        cache[k].late \/ k \in sweep.left

\* A page that was told of a sync shows its data, unless its fetch met an entry
\* the sweep had not come to or a late fill had left, or a later event nobody
\* told it of (sync-progress-context.tsx:59 against analytics-cache.service.ts:38).
PageShowsSync ==
    \A k \in Kinds :
      ~chart[k].asked /\ ~chart[k].failed /\ chart[k].v < data.announced =>
        chart[k].excused

\* Whatever a fill or a failed sweep leaves behind, no entry stays old for ever:
\* the time to live ends it (ANALYTICS_CACHE_TTL), even where no event was
\* published, as after a rescore that failed half-way.
CacheComesFresh ==
    \A k \in Kinds : []<>(cache[k].v \in {NoVersion, data.version})
=============================================================================
