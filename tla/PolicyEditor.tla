----------------------------- MODULE PolicyEditor -----------------------------
(* The policy editor: a form over a policy's name and rules, with its mutations
   and the cached policy that outlives a visit of the page.  One policy; a name
   is a text whose surrounding blanks the save trims. *)
EXTENDS Naturals, Sequences, QueryCache, RuleForm

CONSTANTS EditorCalls, MaxEditorEdits, MaxEditorFaults

ASSUME PolicyEditorAssumption ==
    EditorCalls \subseteq Nat \ {0} /\ MaxEditorEdits \in Nat /\ MaxEditorFaults \in Nat

VARIABLES policyRow,   \* the API's policy
          editorCall,  \* [call -> a save, activation or deletion of the page]
          editor       \* the visit and its form, the cached policy (detail, and
                       \* whether it is invalidated); ghosts: edited since the form was last
                       \* built, lost: a call was given up, overlap: a call or a visit
                       \* began while a call was under way

editorVars == <<policyRow, editorCall, editor>>

EditorOps == {"save", "activate", "delete"}
NoEditorCall == [op |-> "none", at |-> "idle", body |-> <<>>, ok |-> FALSE, reply |-> <<>>, waiting |-> FALSE]
NobodyLatest == [o \in EditorOps |-> 0]

PolicyOf(name, rules, active) == [there |-> TRUE, name |-> name, rules |-> rules, active |-> active]

\* baselineRef starts from the server component's policy, the fields from the cached
\* one: an earlier visit may have left an older one.
OpenedForm(cached, initial) ==
    FormOf(cached.name, cached.rules, Snapshot(initial.name, BuildEntries(initial.rules)))

PolicyEditorInit ==
    LET policy == PolicyOf(Spelt("a"), <<>>, FALSE) IN
    /\ policyRow = policy
    /\ editorCall = [c \in EditorCalls |-> NoEditorCall]
    /\ editor = [open |-> TRUE, form |-> OpenedForm(policy, policy), asked |-> FALSE, latest |-> NobodyLatest,
                 detail |-> [MountedQuery(policy) EXCEPT !.fetch = NoFetch], stale |-> FALSE,
                 edits |-> 0, faults |-> 0, edited |-> FALSE, lost |-> FALSE, overlap |-> FALSE]

EditorFault == editor.faults < MaxEditorFaults

AnyWaiting == \E c \in EditorCalls : editorCall[c].waiting

\* isPending: of the call this visit made last.
EditorPending(op) == editor.latest[op] # 0 /\ editorCall[editor.latest[op]].waiting

-----------------------------------------------------------------------------
\* The visit

\* The cached policy's fetch is given up with the page.
LeaveEditor ==
    /\ editor.open
    /\ editor' = [editor EXCEPT !.open = FALSE, !.asked = FALSE, !.latest = NobodyLatest, !.detail = CancelQueries(@)]
    /\ UNCHANGED <<policyRow, editorCall>>

\* An invalidated policy, or one older than staleTime, is read again.
OpenEditor ==
    /\ ~editor.open /\ policyRow.there
    /\ \E fetched \in {b \in BOOLEAN : editor.stale => b} :
         editor' = [editor EXCEPT !.open = TRUE, !.form = OpenedForm(editor.detail.data, policyRow),
                                  !.edited = FALSE, !.overlap = @ \/ AnyWaiting,
                                  !.detail = IF fetched THEN InvalidateQueries(@) ELSE @]
    /\ UNCHANGED <<policyRow, editorCall>>

EditorFormIs(form) ==
    /\ editor.open /\ editor.edits < MaxEditorEdits
    /\ editor' = [editor EXCEPT !.form = form, !.edits = @ + 1, !.edited = TRUE]
    /\ UNCHANGED <<policyRow, editorCall>>

TypeName(name) == EditorFormIs([editor.form EXCEPT !.head = name, !.headError = FALSE])
EditRows == \E form \in RowsEdited(editor.form) : EditorFormIs(form)

\* The delete button is disabled for a policy that is shown as active.
AskDeletePolicy ==
    /\ editor.open /\ ~editor.asked /\ ~editor.detail.data.active /\ ~EditorPending("delete")
    /\ editor' = [editor EXCEPT !.asked = TRUE]
    /\ UNCHANGED <<policyRow, editorCall>>

CancelDeletePolicy ==
    /\ editor.asked
    /\ editor' = [editor EXCEPT !.asked = FALSE]
    /\ UNCHANGED <<policyRow, editorCall>>

EditorCallMade(c, op, body, e) ==
    /\ editorCall[c].op = "none"
    /\ editorCall' = [editorCall EXCEPT ![c] = [NoEditorCall EXCEPT !.op = op, !.at = "work",
                                                  !.body = body, !.waiting = TRUE]]
    /\ editor' = [e EXCEPT !.latest[op] = c,
                           !.overlap = @ \/ AnyWaiting]

\* handleSave
SavePolicy(c) ==
    LET form == Checked([editor.form EXCEPT !.headError = editor.form.head.is = ""]) IN
    /\ editor.open /\ ~EditorPending("save") /\ Dirty(editor.form)
    /\ IF form.headError \/ form.errors # {}
       THEN editor' = [editor EXCEPT !.form = form] /\ UNCHANGED editorCall
       ELSE EditorCallMade(c, "save", Snapshot(Spelt(form.head.is), RulesToSend(form)),
                           [editor EXCEPT !.form = form])
    /\ UNCHANGED policyRow

\* handleActivate; onMutate gives the policy's fetch up.
ActivateFromEditor(c) ==
    /\ editor.open /\ ~editor.detail.data.active /\ ~EditorPending("activate") /\ ~Dirty(editor.form)
    /\ EditorCallMade(c, "activate", <<>>, [editor EXCEPT !.detail = CancelQueries(@)])
    /\ UNCHANGED policyRow

\* handleDeleteConfirm: the dialog's button too is disabled for an active policy.
ConfirmDeletePolicy(c) ==
    /\ editor.asked /\ ~editor.detail.data.active
    /\ EditorCallMade(c, "delete", <<>>, [editor EXCEPT !.detail = CancelQueries(@), !.asked = FALSE])
    /\ UNCHANGED policyRow

-----------------------------------------------------------------------------
\* The API, each call in a transaction: a policy that is gone is not found, an active
\* one is not deleted.

EditorCallDone(c, row, ok) ==
    /\ policyRow' = row
    /\ editorCall' = [editorCall EXCEPT ![c].at = "answer", ![c].ok = ok, ![c].reply = row]
    /\ UNCHANGED editor

EditorCallRefused(c) ==
    /\ editorCall[c].at = "work"
    /\ ~policyRow.there \/ (editorCall[c].op = "delete" /\ policyRow.active)
    /\ EditorCallDone(c, policyRow, FALSE)

\* Another policy has the name, or the API fails.
EditorCallFails(c) ==
    /\ EditorFault /\ editorCall[c].at = "work"
    /\ editorCall' = [editorCall EXCEPT ![c].at = "answer", ![c].reply = policyRow]
    /\ editor' = [editor EXCEPT !.faults = @ + 1]
    /\ UNCHANGED policyRow

PolicySaved(c) ==
    /\ editorCall[c].at = "work" /\ editorCall[c].op = "save" /\ policyRow.there
    /\ EditorCallDone(c, [policyRow EXCEPT !.name = editorCall[c].body.head, !.rules = editorCall[c].body.rules], TRUE)

PolicyActivated(c) ==
    /\ editorCall[c].at = "work" /\ editorCall[c].op = "activate" /\ policyRow.there
    /\ EditorCallDone(c, [policyRow EXCEPT !.active = TRUE], TRUE)

PolicyDeleted(c) ==
    /\ editorCall[c].at = "work" /\ editorCall[c].op = "delete" /\ policyRow.there /\ ~policyRow.active
    /\ EditorCallDone(c, [policyRow EXCEPT !.there = FALSE], TRUE)

-----------------------------------------------------------------------------
\* The answers.  What the hooks do is done whether the page is still open or not;
\* what handleSave and handleDeleteConfirm passed along is not.

Invalidated(e) ==
    [e EXCEPT !.stale = TRUE, !.detail = IF e.open THEN InvalidateQueries(@) ELSE @]

DetailIs(e, policy) == [e EXCEPT !.detail = SetQueryData(@, policy), !.stale = FALSE]

\* Mutant: a save leaves the cached policy as it was.
UpdateSettledApart(c, ok) == editor

\* useUpdatePolicyMutation
UpdateSettled(c, ok) ==
    Invalidated(IF ok THEN DetailIs(editor, editorCall[c].reply) ELSE editor)

SaveSettled(c, ok) ==
    IF ok /\ editor.latest.save = c
    THEN [UpdateSettled(c, ok) EXCEPT !.form = SyncedForm(editorCall[c].reply.name, editorCall[c].reply.rules),
                                      !.edited = FALSE]
    ELSE UpdateSettled(c, ok)

\* useActivatePolicyMutation: a failure leaves the policy's own query alone.
ActivateSettled(c, ok) == IF ok THEN DetailIs(editor, editorCall[c].reply) ELSE editor

\* useDeletePolicyMutation and handleDeleteConfirm: the page is left for the list.
DeletePolicySettled(c, ok) ==
    IF ok /\ editor.latest.delete = c
    THEN [editor EXCEPT !.open = FALSE, !.asked = FALSE, !.latest = NobodyLatest, !.detail = CancelQueries(@)]
    ELSE [editor EXCEPT !.asked = @ /\ editor.latest.delete # c]

EditorSettled(c, ok) ==
    CASE editorCall[c].op = "save" -> SaveSettled(c, ok)
      [] editorCall[c].op = "activate" -> ActivateSettled(c, ok)
      [] OTHER -> DeletePolicySettled(c, ok)

EditorAnswered(c) ==
    /\ editorCall[c].at = "answer" /\ editorCall[c].waiting
    /\ editor' = EditorSettled(c, editorCall[c].ok)
    /\ editorCall' = [editorCall EXCEPT ![c].waiting = FALSE]
    /\ UNCHANGED policyRow

\* The connection breaks: an error for the page, while the API works on.
EditorLost(c) ==
    /\ EditorFault /\ editorCall[c].waiting
    /\ editor' = [EditorSettled(c, FALSE) EXCEPT !.faults = @ + 1, !.lost = TRUE]
    /\ editorCall' = [editorCall EXCEPT ![c].waiting = FALSE]
    /\ UNCHANGED policyRow

PolicyRead ==
    /\ editor.detail.fetch.at = "sent"
    /\ editor' = [editor EXCEPT !.detail = Reads(@, policyRow)]
    /\ UNCHANGED <<policyRow, editorCall>>

PolicyReadAnswered ==
    /\ editor.detail.fetch.at = "back"
    /\ editor' = IF editor.detail.fetch.body.there
                 THEN [editor EXCEPT !.detail = Succeeds(@), !.stale = FALSE]
                 ELSE [editor EXCEPT !.detail = Fails(@)]
    /\ UNCHANGED <<policyRow, editorCall>>

PolicyReadFailed ==
    /\ EditorFault /\ ~Idle(editor.detail)
    /\ editor' = [editor EXCEPT !.detail = Fails(@), !.faults = @ + 1]
    /\ UNCHANGED <<policyRow, editorCall>>

PolicyEditorNext ==
    \/ LeaveEditor \/ OpenEditor \/ EditRows \/ AskDeletePolicy \/ CancelDeletePolicy
    \/ \E name \in {Spelt(""), Spelt("a"), Loose("b")} : TypeName(name)
    \/ \E c \in EditorCalls :
         \/ SavePolicy(c) \/ ActivateFromEditor(c) \/ ConfirmDeletePolicy(c)
         \/ EditorCallRefused(c) \/ EditorCallFails(c) \/ PolicySaved(c)
         \/ PolicyActivated(c) \/ PolicyDeleted(c) \/ EditorAnswered(c) \/ EditorLost(c)
    \/ PolicyRead \/ PolicyReadAnswered \/ PolicyReadFailed

-----------------------------------------------------------------------------
\* The types; an error belongs to a row that is in the form.
PolicyEditorTypeOK ==
    /\ editor.open \in BOOLEAN /\ editor.stale \in BOOLEAN
    /\ \A c \in EditorCalls : editorCall[c].at \in {"idle", "work", "answer"}
    /\ editor.form.errors \subseteq UsedKinds(editor.form)
    /\ UsedKinds(editor.form) \subseteq RuleTypes

\* policy-editor-view.tsx 96-113: "All changes saved" is true: once nothing is under
\* way a form without unsaved changes shows what the API holds, unless a call was
\* given up or another one began before it ended.
SavedMeansSaved ==
    editor.open /\ ~AnyWaiting /\ ~editor.lost /\ ~editor.overlap /\ ~Dirty(editor.form) =>
        /\ editor.form.head = policyRow.name
        /\ editor.form.entries = BuildEntries(policyRow.rules)

\* policy-editor-view.tsx 86-103: the fields start from the cached policy and the
\* baseline from the server's; nobody who has changed nothing is told of
\* unsaved changes, unless a call was given up or another one began before it ended.
DirtyMeansEdited ==
    editor.open /\ ~editor.edited /\ ~editor.lost /\ ~editor.overlap => ~Dirty(editor.form)

\* policies/hooks.ts 74-165: a save, an activation and the policy's own reading write
\* the same cache entry; at rest it is the API's policy, unless calls
\* overlapped or one was given up.
DetailSettles ==
    policyRow.there /\ ~AnyWaiting /\ Idle(editor.detail) /\ ~editor.stale /\ ~editor.lost /\ ~editor.overlap
      => editor.detail.data = policyRow

\* rule-form.ts 32-141: a row that can be sent comes back from the server as a row that
\* sends the same rule, whatever its mode and its spelling.
SavedRowComesBack ==
    \A i \in DOMAIN editor.form.entries :
      LET state == editor.form.entries[i]
          back == InputToFormState(FormStateToInput(state))
      IN Sendable(state) => Sendable(back) /\ FormStateToInput(back) = FormStateToInput(state)

-------------------------------------------------------------------------------
(* ManualValidatePanel, beside the editor: a commit message is checked against the
   saved policy some time after the last key (DEBOUNCE_MS), by requests whose answers
   may overtake each other.  A verdict is the message it is about. *)

CONSTANTS PanelMessages, MaxChecks

Blank == ""
NoVerdict == "none"
NoDebounce == "none"

ASSUME ValidatePanelAssumption == NoDebounce \notin PanelMessages /\ MaxChecks \in Nat

VARIABLE panel  \* message, status, result, the timer's text (debounce), the token,
                \* the mutation's latest call and the calls sent and not answered

PanelInit ==
    panel = [message |-> Blank, status |-> "idle", result |-> NoVerdict, debounce |-> NoDebounce,
             token |-> 0, latest |-> 0, sent |-> {}, keys |-> 0]

\* Mutant: the status stays.
SilencedKeepingStatus(p) == [p EXCEPT !.token = @ + 1, !.result = NoVerdict, !.debounce = NoDebounce]

\* Idle again: a blank message, or the clear button.
Silenced(p) == [p EXCEPT !.token = @ + 1, !.status = "idle", !.result = NoVerdict, !.debounce = NoDebounce]

\* runValidation.  A mutation calls back only for its latest call.
RunValidation(p, raw) ==
    [p EXCEPT !.token = @ + 1, !.status = "checking", !.latest = p.token + 1,
              !.sent = @ \cup {[token |-> p.token + 1, message |-> raw]}]

\* scheduleValidation, by a key or by an example.
TypeMessage(raw) ==
    LET typed == [panel EXCEPT !.message = raw, !.keys = @ + 1] IN
    /\ panel.keys < MaxChecks
    /\ panel' = IF raw = Blank THEN Silenced(typed)
                ELSE [typed EXCEPT !.status = "debouncing", !.debounce = raw]

DebounceFires ==
    /\ panel.debounce # NoDebounce
    /\ panel' = RunValidation([panel EXCEPT !.debounce = NoDebounce], panel.debounce)

\* handleClear
ClearMessage ==
    /\ panel.message # Blank
    /\ panel' = [Silenced(panel) EXCEPT !.message = Blank]

\* handleRetry: the error's button; a timer may still run.
RetryCheck ==
    /\ panel.status = "error" /\ panel.message # Blank /\ panel.keys < MaxChecks
    /\ panel' = RunValidation([panel EXCEPT !.keys = @ + 1], panel.message)

\* The callbacks of mutate.
CheckAnswered(r) ==
    \E ok \in BOOLEAN :
      LET p == [panel EXCEPT !.sent = @ \ {r}] IN
      panel' = IF r.token # panel.latest \/ r.token # panel.token THEN p
               ELSE IF ok THEN [p EXCEPT !.result = r.message, !.status = "success"]
               ELSE [p EXCEPT !.result = NoVerdict, !.status = "error"]

PanelNext ==
    \/ \E raw \in PanelMessages \cup {Blank} : TypeMessage(raw)
    \/ DebounceFires \/ ClearMessage \/ RetryCheck
    \/ \E r \in panel.sent : CheckAnswered(r)

-----------------------------------------------------------------------------
\* manual-validate-panel.tsx 92-177: a verdict on the screen is about the message on
\* the screen, however late an answer comes; while a timer runs it may be about the
\* message before (the answer to it puts "success" over "debouncing").
VerdictIsAboutMessage ==
    panel.status = "success" /\ panel.debounce = NoDebounce => panel.result = panel.message

\* The panel never says it is checking when no timer and no request will end it.
CheckingEnds ==
    /\ panel.status = "debouncing" => panel.debounce # NoDebounce
    /\ panel.status = "checking" => \E r \in panel.sent : r.token = panel.token
===============================================================================
