----------------------------- MODULE RepoFilters ------------------------------
(* useRepoFilters: the filters of the repositories page, kept in the component's
   state and, for links and the back button, in the URL's query.  router.replace
   ends later, and a later one may end an earlier one's navigation. *)
EXTENDS Naturals, Sequences, FiniteSets

CONSTANTS Repos, ArchivedRepos, FoundRepos, ReposPerPage, MaxEdits

ASSUME RepoFiltersAssumption ==
    /\ ArchivedRepos \subseteq Repos /\ FoundRepos \subseteq Repos /\ IsFiniteSet(Repos)
    /\ ReposPerPage \in Nat \ {0} /\ MaxEdits \in Nat

NoFilters == [search |-> FALSE, archived |-> FALSE, page |-> 1]
NoTimer == <<>>

VARIABLE filters  \* state, url, timer (the captured next), replaces under way,
                  \* pendingUrls; items; edits made; stale: a filter was changed
                  \* while the timer ran; muddled: pendingUrls, a set, holds what no
                  \* replace will bring, or holds once what two will

FiltersInit ==
    \E url \in {NoFilters, [NoFilters EXCEPT !.page = 2]} :
      filters = [state |-> url, url |-> url, timer |-> NoTimer, nav |-> <<>>, pending |-> {},
                 items |-> Repos, edits |-> 0, stale |-> FALSE, muddled |-> FALSE]

EditMade(f) == [f EXCEPT !.edits = @ + 1]

\* syncUrl
SyncUrl(f, next) == [f EXCEPT !.pending = @ \cup {next}, !.nav = Append(@, next),
                              !.muddled = @ \/ next \in f.pending]

\* setSearch: a timer, the former one cleared, goes on with this next.
SetSearch(found) ==
    LET next == [filters.state EXCEPT !.search = found, !.page = 1] IN
    filters' = [EditMade(filters) EXCEPT !.state = next, !.timer = <<next>>]

\* setSortBy, setVisibility, setShowArchived, setPage: at once, and the timer runs
\* on; its next is then from before this one.
SetAtOnce(next) ==
    filters' = [SyncUrl(EditMade(filters), next) EXCEPT !.state = next, !.stale = @ \/ filters.timer # NoTimer]

SetShowArchived(archived) == SetAtOnce([filters.state EXCEPT !.archived = archived, !.page = 1])
SetPage(page) == SetAtOnce([filters.state EXCEPT !.page = page])

\* Mutant: the timer survives a reset.
ResetKeepingTimer ==
    filters' = [SyncUrl(EditMade(filters), NoFilters) EXCEPT !.state = NoFilters]

\* reset
ResetFilters ==
    filters' = [SyncUrl(EditMade(filters), NoFilters) EXCEPT !.state = NoFilters, !.timer = NoTimer]

SearchTimerFires ==
    /\ filters.timer # NoTimer
    /\ filters' = [SyncUrl(filters, filters.timer[1]) EXCEPT !.timer = NoTimer]

\* The effect on a change of the URL's query: an echo of a replace is forgotten,
\* anything else is taken over.
UrlChanged(f, url) ==
    IF url = f.url THEN f
    ELSE IF url \in f.pending THEN [f EXCEPT !.url = url, !.pending = @ \ {url}]
    ELSE [f EXCEPT !.url = url, !.pending = {}, !.state = url]

\* The router shows the latest of some replaces; those before it are never seen,
\* nor is one that changes nothing.
ReplaceEnds ==
    \E k \in DOMAIN filters.nav :
      LET f == [filters EXCEPT !.nav = SubSeq(@, k + 1, Len(@)),
                               !.muddled = @ \/ k > 1 \/ filters.nav[k] = filters.url]
      IN filters' = UrlChanged(f, filters.nav[k])

\* The back and forward buttons, with no replace under way.
Navigate(url) ==
    /\ filters.nav = <<>> /\ filters.timer = NoTimer
    /\ filters' = UrlChanged(EditMade(filters), url)

\* The list is read again.
ItemsChange(items) == filters' = [EditMade(filters) EXCEPT !.items = items]

PageNumbers == 1 .. Cardinality(Repos)

FiltersNext ==
    \/ SearchTimerFires \/ ReplaceEnds
    \/ /\ filters.edits < MaxEdits
       /\ \/ \E b \in BOOLEAN : SetSearch(b) \/ SetShowArchived(b)
          \/ \E p \in PageNumbers : SetPage(p) \/ Navigate([NoFilters EXCEPT !.page = p])
          \/ ResetFilters
          \/ \E items \in SUBSET Repos : ItemsChange(items)

-----------------------------------------------------------------------------
\* What is shown

\* filterRepos
Filtered ==
    {r \in filters.items : /\ filters.state.archived \/ r \notin ArchivedRepos
                           /\ filters.state.search => r \in FoundRepos}

TotalFiltered == Cardinality(Filtered)
TotalPages ==
    IF TotalFiltered = 0 THEN 1 ELSE (TotalFiltered + ReposPerPage - 1) \div ReposPerPage

ClampedPage == IF filters.state.page < TotalPages THEN filters.state.page ELSE TotalPages

\* The numbers, in the sorted list, of the repositories on the page.
Paginated == {i \in 1 .. TotalFiltered :
                /\ (ClampedPage - 1) * ReposPerPage < i /\ i <= ClampedPage * ReposPerPage}

\* use-repo-filters.ts 134-156: once the timer and the router are done, the URL's
\* query is the state, so that a reload or a link shows the same, unless a
\* filter was changed while the search's timer ran (its captured next is then
\* written over it), or pendingUrls had got muddled.
UrlTellsFilters ==
    filters.timer = NoTimer /\ filters.nav = <<>> /\ ~filters.stale /\ ~filters.muddled
      => filters.url = filters.state

\* An echo of a replace never takes back what was typed or clicked since: the state
\* changes only by an edit or by a navigation (the comment at 114-115), unless
\* pendingUrls had got muddled.
EchoesIgnored ==
    [][filters'.edits = filters.edits /\ ~filters'.muddled => filters'.state = filters.state]_filters

\* The page is empty only when no repository passes the filters, however the list,
\* the filters and the page of the URL, a number, came together.
PageNotEmpty == Filtered # {} => Paginated # {}
===============================================================================
