------------------------------ MODULE PagedLists ------------------------------
(* The two lists a page walks with "Load more": the generation history and the
   audit log.  One side is the API's page (row values compared in SQL, a cursor
   that is an ISO date), the other the React view that keeps the pages it has
   loaded, with React Query's cache between them.  A time is a number of ticks,
   TicksPerMs to the millisecond: created_at holds ticks, a cursor holds
   milliseconds.  The contents of a row are left out, but for the event type
   the activity view filters by. *)
EXTENDS Integers, FiniteSets, Sequences, SequencesExt

CONSTANTS PageSize, RowIds, Ticks, TicksPerMs, EventTypes, MaxChanges

ASSUME ListsAssumption ==
    /\ PageSize \in Nat \ {0} /\ TicksPerMs \in Nat \ {0}
    /\ RowIds \subseteq Nat /\ IsFiniteSet(RowIds) /\ Ticks \subseteq Nat /\ MaxChanges \in Nat

NoCursor == [at |-> -1, id |-> -1]
NoFilter == "all"
NoneOpen == 0

VARIABLES rows,     \* the user's rows of the table
          list      \* the mounted view, and React Query's cache

listVars == <<rows, list>>

-----------------------------------------------------------------------------
\* The API

Millis(t) == t - (t % TicksPerMs)

\* ORDER BY created_at DESC, id DESC (the audit log has no second column: ids
\* then stand for whatever order Postgres gives equal dates).
Before(r, s) == r.at > s.at \/ (r.at = s.at /\ r.id > s.id)

AfterCursor(view, r, c) ==
    \/ c = NoCursor
    \/ r.at < c.at
    \/ view = "history" /\ r.at = c.at /\ r.id < c.id

Matches(r, filter) == filter = NoFilter \/ r.type = filter

NewestFirst(hits) ==
    CHOOSE s \in SetToSeqs(hits) : \A i, j \in DOMAIN s : i < j => Before(s[i], s[j])

\* listByUser and list: at most take rows behind the cursor, newest first.
ListByUser(view, filter, c, take) ==
    LET hits == {r \in rows : Matches(r, filter) /\ AfterCursor(view, r, c)}
        all == NewestFirst(hits)
    IN SubSeq(all, 1, IF take < Len(all) THEN take ELSE Len(all))

\* encodeGenerationHistoryCursor and toISOString: milliseconds.
CursorOf(r) == [at |-> Millis(r.at), id |-> r.id]

\* GenerationHistoryService.list and AuditService.list; from is the table
\* a first page was read from (no guard reads it).
ListPage(view, filter, c) ==
    LET found == ListByUser(view, filter, c, PageSize + 1)
        hasMore == Len(found) > PageSize
        page == IF hasMore THEN SubSeq(found, 1, PageSize) ELSE found
    IN [items |-> page, next |-> IF hasMore THEN CursorOf(Last(page)) ELSE NoCursor,
        from |-> IF c = NoCursor THEN rows ELSE {}]

\* A generation or an audited event writes a row: created_at is now.
AddRow ==
    \E id \in RowIds, at \in Ticks, type \in EventTypes :
      /\ \A r \in rows : r.id # id /\ r.at <= at
      /\ rows' = rows \cup {[id |-> id, at |-> at, type |-> type]}
      /\ UNCHANGED list

-----------------------------------------------------------------------------
\* The view.  pages is its state; cached, what React Query has for each key;
\* asked, the keys being fetched; failed, the keys whose last fetch failed; open,
\* the entry named in the URL; changes, how often the filter was changed (bounded
\* by MaxChanges).

\* Mutant: the query key leaves the event type out.
KeyUnfiltered(filter, c) == [filter |-> NoFilter, cursor |-> c]

Key(filter, c) == [filter |-> filter, cursor |-> c]

LastPage(l) == Last(l.pages)
ActiveKey(l) == Key(l.filter, LastPage(l).cursor)
Fetching == ActiveKey(list) \in list.asked
Items(l) == UNION {ToSet(l.pages[i].items) : i \in DOMAIN l.pages}

EmptyPage(c) == [cursor |-> c, items |-> <<>>, next |-> NoCursor]

Store(cached, key, body) ==
    [k \in DOMAIN cached \cup {key} |-> IF k = key THEN body ELSE cached[k]]

\* The effect on query.data: the active page takes what is cached for its key.
Effect(l) ==
    IF ActiveKey(l) \notin DOMAIN l.cached THEN l
    ELSE LET body == l.cached[ActiveKey(l)]
             page == [cursor |-> LastPage(l).cursor, items |-> body.items, next |-> body.next]
         IN [l EXCEPT !.pages = Append(Front(@), page)]

\* Rendering another key fetches it (staleTime 0), after the effect has shown
\* what is cached.
Render(l) ==
    LET shown == Effect(l)
    IN [shown EXCEPT !.asked = @ \cup {ActiveKey(l)}, !.failed = @ \ {ActiveKey(l)}]

\* The server component has loaded the first page, for the filter in the URL;
\* the mounted view shows it and asks for it again.
Mounted(view, filter) ==
    LET body == ListPage(view, filter, NoCursor)
        page == [cursor |-> NoCursor, items |-> body.items, next |-> body.next]
        key == Key(filter, NoCursor)
    IN [view |-> view, filter |-> filter, pages |-> <<page>>, cached |-> [k \in {key} |-> body],
        asked |-> {key}, failed |-> {}, open |-> NoneOpen,
        changes |-> 0]

ListsInit ==
    /\ \E ids \in SUBSET RowIds : \E at \in [ids -> Ticks], type \in [ids -> EventTypes] :
         /\ Cardinality(ids) = Cardinality(RowIds) - 1
         /\ rows = {[id |-> i, at |-> at[i], type |-> type[i]] : i \in ids}
    /\ \/ list = Mounted("history", NoFilter)
       \/ \E filter \in EventTypes \cup {NoFilter} : list = Mounted("activity", filter)

\* An answer comes: it is cached under its key, and shown if the key is active.
Answered(key) ==
    /\ key \in list.asked
    /\ LET body == ListPage(list.view, key.filter, key.cursor)
           got == [list EXCEPT !.asked = @ \ {key}, !.cached = Store(@, key, body)]
       IN list' = IF key = ActiveKey(list) THEN Effect(got) ELSE got
    /\ UNCHANGED rows

\* retry: 0, so a failure is final until somebody asks again.
Failed(key) ==
    /\ key \in list.asked
    /\ list' = [list EXCEPT !.asked = @ \ {key}, !.failed = @ \cup {key}]
    /\ UNCHANGED rows

\* handleLoadMore, behind a button that is there with a next cursor and disabled
\* while the active page is fetched.
LoadMore ==
    /\ ~Fetching /\ LastPage(list).next # NoCursor /\ Items(list) # {}
    /\ list' = Render([list EXCEPT !.pages = Append(@, EmptyPage(LastPage(list).next))])
    /\ UNCHANGED rows

\* handleFilterChange, from the select or from the empty state's button.
FilterChange ==
    /\ list.view = "activity" /\ list.changes < MaxChanges
    /\ \E filter \in (EventTypes \cup {NoFilter}) \ {list.filter} :
         list' = Render([list EXCEPT !.filter = filter, !.changes = @ + 1,
                                     !.pages = <<EmptyPage(NoCursor)>>])
    /\ UNCHANGED rows

\* ErrorState's retry, shown when nothing else is.
Retry ==
    /\ ActiveKey(list) \in list.failed /\ Items(list) = {} /\ ~Fetching
    /\ list' = Render(list)
    /\ UNCHANGED rows

\* handleSelect and handleClose move the entry's id in and out of the URL; the
\* drawer shows the entry of the loaded pages, or asks for it.
Select ==
    /\ list.view = "history"
    /\ \E r \in Items(list) : list' = [list EXCEPT !.open = r.id]
    /\ UNCHANGED rows

Close ==
    /\ list.open # NoneOpen
    /\ list' = [list EXCEPT !.open = NoneOpen]
    /\ UNCHANGED rows

ListsNext ==
    \/ AddRow \/ LoadMore \/ FilterChange \/ Retry \/ Select \/ Close
    \/ \E key \in list.asked : Answered(key) \/ Failed(key)

-----------------------------------------------------------------------------
\* The end of the list: the last page's answer has come and names no next one.
Ended ==
    /\ ~Fetching /\ ActiveKey(list) \in DOMAIN list.cached
    /\ ActiveKey(list) \notin list.failed
    /\ LastPage(list).next = NoCursor

\* What the walk's first page was read from.
WalkFrom == list.cached[Key(list.filter, NoCursor)].from

\* Lost to a cursor: a row of the same millisecond as the last row of a page.
SharesMs(r) ==
    \E i \in DOMAIN list.pages :
      /\ i < Len(list.pages)
      /\ Millis(Last(list.pages[i].items).at) = Millis(r.at)

\* No row is shown twice and every row shown passes the filter, whatever was
\* inserted, refetched or filtered between two pages (history-view.tsx and
\* activity-view.tsx, the effect on query.data and handleLoadMore).
NothingTwice ==
    /\ \A i, j \in DOMAIN list.pages :
         \A a \in DOMAIN list.pages[i].items, b \in DOMAIN list.pages[j].items :
           list.pages[i].items[a].id = list.pages[j].items[b].id => i = j /\ a = b
    /\ \A r \in Items(list) : Matches(r, list.filter)

\* A walk that has reached the end shows every row that was there when its first
\* page was loaded, except rows of the same millisecond as a page's last row
\* (generation-history.service.ts:55, audit.service.ts:51).
WalkIsComplete ==
    Ended => \A r \in WalkFrom :
               Matches(r, list.filter) => r \in Items(list) \/ SharesMs(r)

=============================================================================
