---------------------------- MODULE PolicyListPage ----------------------------
(* The list of a repository's policies: create, activate and delete with their
   optimistic updates, and the dialogs.  A policy is its id; an id that was deleted
   is not given again. *)
EXTENDS Naturals, QueryCache

CONSTANTS PolicyIds, ListCalls, MaxListFaults

ASSUME PolicyListAssumption == ListCalls \subseteq Nat \ {0} /\ MaxListFaults \in Nat

Nobody == "none"

VARIABLES policyRows,  \* the API's policies, the active one, the ids that were given
          listCall,    \* [call -> a create, activation or deletion]
          policyPage   \* the query (data: items, active), the dialogs, the latest calls;
                       \* where: shown, or left for the editor of a policy just made

policyListVars == <<policyRows, listCall, policyPage>>

NoListCall == [op |-> "none", at |-> "idle", id |-> Nobody, ok |-> FALSE, waiting |-> FALSE, prev |-> {}]

\* The rows a list shows; at most one of them is active in the table (PolicyDb).
Item(id, active) == [id |-> id, active |-> active]
PolicyItems(rowset) == {Item(id, id = rowset.active) : id \in rowset.ids}

PolicyListInit ==
    \E ids \in SUBSET PolicyIds : \E active \in ids \cup {Nobody} :
      LET rowset == [ids |-> ids, active |-> active, given |-> ids] IN
      /\ policyRows = rowset
      /\ listCall = [c \in ListCalls |-> NoListCall]
      /\ policyPage = [query |-> MountedQuery(PolicyItems(rowset)), deleting |-> {}, create |-> FALSE, name |-> FALSE,
                       submitting |-> FALSE, latest |-> [activate |-> 0, delete |-> 0],
                       away |-> FALSE, faults |-> 0, early |-> FALSE]

PolicyListFault == policyPage.faults < MaxListFaults

ListPending(op, id) ==
    LET c == policyPage.latest[op] IN c # 0 /\ listCall[c].waiting /\ listCall[c].id = id

ListCallMade(c, op, id, p) ==
    /\ listCall[c].op = "none" /\ ~policyPage.away
    /\ listCall' = [listCall EXCEPT ![c] = [NoListCall EXCEPT !.op = op, !.at = "work", !.id = id,
                                              !.waiting = TRUE, !.prev = policyPage.query.data]]
    /\ policyPage' = p
    /\ UNCHANGED policyRows

Optimistic(q, items) == SetQueryData(CancelQueries(q), items)

-----------------------------------------------------------------------------
\* The clicks

\* onMutate of useActivatePolicyMutation
ShownActive(items, id) == {Item(i.id, i.id = id) : i \in items}

ActivateFromList(c, id) ==
    /\ Item(id, FALSE) \in policyPage.query.data /\ ~policyPage.query.error /\ ~ListPending("activate", id)
    /\ policyPage.deleting = {} /\ ~policyPage.create
    /\ ListCallMade(c, "activate", id,
         [policyPage EXCEPT !.query = Optimistic(@, ShownActive(@.data, id)), !.latest.activate = c])

\* The dialog keeps the row it was opened for.
AskDeleteRow(id) ==
    /\ Item(id, FALSE) \in policyPage.query.data /\ ~policyPage.query.error /\ ~ListPending("delete", id)
    /\ ~policyPage.away /\ policyPage.deleting = {} /\ ~policyPage.create
    /\ policyPage' = [policyPage EXCEPT !.deleting = {id}]
    /\ UNCHANGED <<policyRows, listCall>>

CancelDeleteRow ==
    /\ policyPage.deleting # {}
    /\ policyPage' = [policyPage EXCEPT !.deleting = {}]
    /\ UNCHANGED <<policyRows, listCall>>

\* handleDelete and onMutate of useDeletePolicyMutation
ConfirmDeleteRow(c, id) ==
    /\ id \in policyPage.deleting
    /\ ListCallMade(c, "delete", id,
         [policyPage EXCEPT !.query = Optimistic(@, {i \in @.data : i.id # id}),
                            !.latest.delete = c, !.deleting = {}])

\* The dialog's name is typed, or it is closed, which resets it.
OpenCreate ==
    /\ ~policyPage.create /\ ~policyPage.away /\ policyPage.deleting = {}
    /\ policyPage' = [policyPage EXCEPT !.create = TRUE]
    /\ UNCHANGED <<policyRows, listCall>>

TypePolicyName ==
    /\ policyPage.create /\ ~policyPage.name
    /\ policyPage' = [policyPage EXCEPT !.name = TRUE]
    /\ UNCHANGED <<policyRows, listCall>>

ResetCreate(p) == [p EXCEPT !.name = FALSE, !.submitting = FALSE]

CloseCreate ==
    /\ policyPage.create
    /\ policyPage' = [ResetCreate(policyPage) EXCEPT !.create = FALSE]
    /\ UNCHANGED <<policyRows, listCall>>

SubmitCreate(c) ==
    /\ policyPage.create /\ policyPage.name /\ ~policyPage.submitting
    /\ ListCallMade(c, "create", Nobody, [policyPage EXCEPT !.submitting = TRUE])

-----------------------------------------------------------------------------
\* The API

ListCallDone(c, rowset, ok) ==
    /\ policyRows' = rowset
    /\ listCall' = [listCall EXCEPT ![c].at = "answer", ![c].ok = ok]
    /\ policyPage' = [policyPage EXCEPT !.early = @ \/ ~listCall[c].waiting]

PolicyCreated(c, id) ==
    /\ listCall[c].at = "work" /\ listCall[c].op = "create" /\ id \notin policyRows.given
    /\ ListCallDone(c, [policyRows EXCEPT !.ids = @ \cup {id}, !.given = @ \cup {id}], TRUE)

RowActivated(c) ==
    LET id == listCall[c].id IN
    /\ listCall[c].at = "work" /\ listCall[c].op = "activate"
    /\ IF id \in policyRows.ids THEN ListCallDone(c, [policyRows EXCEPT !.active = id], TRUE)
       ELSE ListCallDone(c, policyRows, FALSE)

\* An active policy is not deleted.
RowDeleted(c) ==
    LET id == listCall[c].id IN
    /\ listCall[c].at = "work" /\ listCall[c].op = "delete"
    /\ IF id \in policyRows.ids /\ id # policyRows.active
       THEN ListCallDone(c, [policyRows EXCEPT !.ids = @ \ {id}], TRUE)
       ELSE ListCallDone(c, policyRows, FALSE)

-----------------------------------------------------------------------------
\* The answers

\* Mutant: an activation that ends reads no list.
ActivationSettledQuietly(c, ok) ==
    IF ok THEN policyPage ELSE [policyPage EXCEPT !.query = SetQueryData(@, listCall[c].prev)]

\* onError and onSettled of an activation and of a deletion.
RowCallSettled(c, ok) ==
    LET p == IF ok THEN policyPage ELSE [policyPage EXCEPT !.query = SetQueryData(@, listCall[c].prev)]
    IN [p EXCEPT !.query = InvalidateQueries(@)]

\* useCreatePolicyMutation, handleCreate and the dialog's own handleCreate: whichever
\* dialog is open by then is reset and closed, and the page is left.
PolicyCreateSettled(c, ok) ==
    LET p == [policyPage EXCEPT !.query = InvalidateQueries(@), !.submitting = FALSE]
    IN IF ok THEN [ResetCreate(p) EXCEPT !.create = FALSE, !.away = TRUE] ELSE p

ListSettled(c, ok) == IF listCall[c].op = "create" THEN PolicyCreateSettled(c, ok) ELSE RowCallSettled(c, ok)

ListAnswered(c) ==
    /\ listCall[c].at = "answer" /\ listCall[c].waiting
    /\ policyPage' = ListSettled(c, listCall[c].ok)
    /\ listCall' = [listCall EXCEPT ![c].waiting = FALSE]
    /\ UNCHANGED policyRows

ListLost(c) ==
    /\ PolicyListFault /\ listCall[c].waiting
    /\ policyPage' = [ListSettled(c, FALSE) EXCEPT !.faults = @ + 1]
    /\ listCall' = [listCall EXCEPT ![c].waiting = FALSE]
    /\ UNCHANGED policyRows

PolicyListRead ==
    /\ policyPage.query.fetch.at = "sent"
    /\ policyPage' = [policyPage EXCEPT !.query = Reads(@, PolicyItems(policyRows)), !.early = FALSE]
    /\ UNCHANGED <<policyRows, listCall>>

PolicyListAnswered ==
    /\ policyPage.query.fetch.at = "back"
    /\ policyPage' = [policyPage EXCEPT !.query = Succeeds(@)]
    /\ UNCHANGED <<policyRows, listCall>>

PolicyListFailed ==
    /\ PolicyListFault /\ ~Idle(policyPage.query)
    /\ policyPage' = [policyPage EXCEPT !.query = Fails(@), !.faults = @ + 1]
    /\ UNCHANGED <<policyRows, listCall>>

PolicyListRetry ==
    /\ policyPage.query.error /\ Idle(policyPage.query)
    /\ policyPage' = [policyPage EXCEPT !.query = InvalidateQueries(@)]
    /\ UNCHANGED <<policyRows, listCall>>

\* The list is opened again: an invalidated list is read.
BackToList ==
    /\ policyPage.away
    /\ policyPage' = [policyPage EXCEPT !.away = FALSE, !.latest = [activate |-> 0, delete |-> 0],
                                        !.query = InvalidateQueries(@)]
    /\ UNCHANGED <<policyRows, listCall>>

PolicyListNext ==
    \/ CancelDeleteRow \/ OpenCreate \/ TypePolicyName \/ CloseCreate \/ BackToList
    \/ PolicyListRead \/ PolicyListAnswered \/ PolicyListFailed \/ PolicyListRetry
    \/ \E id \in PolicyIds : AskDeleteRow(id)
    \/ \E c \in ListCalls :
         \/ SubmitCreate(c) \/ RowActivated(c) \/ RowDeleted(c) \/ ListAnswered(c) \/ ListLost(c)
         \/ \E id \in PolicyIds : ActivateFromList(c, id) \/ ConfirmDeleteRow(c, id) \/ PolicyCreated(c, id)

-----------------------------------------------------------------------------
\* policies/hooks.ts 52-208: activations and deletions that overlap, one rolled back over
\* the other, end in the API's list when nothing is under way, unless the API went on
\* with a call the page had given up, and the list was not read since.
PolicyListSettles ==
    /\ Idle(policyPage.query) /\ ~policyPage.query.error /\ ~policyPage.early
    /\ \A c \in ListCalls : ~listCall[c].waiting /\ listCall[c].at # "work"
    => policyPage.query.data = PolicyItems(policyRows)

\* policies/hooks.ts 119-164: never are two policies shown as active, in whatever order
\* the roll-backs and the lists come.
OneShownActive == \A i, j \in policyPage.query.data : i.active /\ j.active => i = j

\* create-policy-dialog.tsx 43-60: a dialog whose button waits has a call to wait for,
\* however often it was closed and opened meanwhile.
SubmittingEnds ==
    policyPage.submitting => \E c \in ListCalls : listCall[c].op = "create" /\ listCall[c].waiting
===============================================================================
