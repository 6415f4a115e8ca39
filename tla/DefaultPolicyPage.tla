--------------------------- MODULE DefaultPolicyPage --------------------------
(* The settings page of the default policy: a form over the user's template, which
   a refetch seeds anew when it has no unsaved changes.  One visit of the page;
   another device may change the template. *)
EXTENDS Naturals, Sequences, QueryCache, RuleForm

CONSTANTS MaxTemplateEdits, MaxRemoteEdits, MaxTemplateFaults

ASSUME DefaultPolicyAssumption ==
    MaxTemplateEdits \in Nat /\ MaxRemoteEdits \in Nat /\ MaxTemplateFaults \in Nat

TemplateOf(enabled, rules) == [stored |-> TRUE, enabled |-> enabled, rules |-> rules]

\* A template that is null, with TEMPLATE_DEFAULTS in its place.
NoTemplate == [stored |-> FALSE, enabled |-> TRUE, rules |-> <<>>]

VARIABLES templateRow,   \* users.default_policy_template
          templateCall,  \* the save or the clear under way
          defaults       \* the page: query, form, what the effect saw last
                         \* (lastSynced), dialog; ghost skipped: a new template was not
                         \* taken into a form with unsaved changes

templateVars == <<templateRow, templateCall, defaults>>

NoTemplateCall == [op |-> "none", at |-> "idle", template |-> NoTemplate, ok |-> FALSE]

TemplateForm(template) == SyncedForm(template.enabled, template.rules)

DefaultPolicyInit ==
    \E template \in {NoTemplate, TemplateOf(FALSE, <<Rule("maxSubjectLength", One(72))>>)} :
      /\ templateRow = template
      /\ templateCall = NoTemplateCall
      /\ defaults = [query |-> [MountedQuery(template) EXCEPT !.fetch = NoFetch], form |-> TemplateForm(template),
                     lastSynced |-> template, asked |-> FALSE, skipped |-> FALSE,
                     edits |-> 0, remote |-> 0, faults |-> 0]

TemplateFault == defaults.faults < MaxTemplateFaults
TemplatePending(op) == templateCall.op = op /\ templateCall.at # "idle"

\* syncFromTemplate
Synced(d, template) == [d EXCEPT !.form = TemplateForm(template), !.skipped = FALSE]

\* The effect on the query's template.
Reseed(d) ==
    IF d.query.data = d.lastSynced THEN d
    ELSE LET seen == [d EXCEPT !.lastSynced = d.query.data]
         IN IF Dirty(d.form) THEN [seen EXCEPT !.skipped = TRUE] ELSE Synced(seen, d.query.data)

TemplateFormIs(form) ==
    /\ defaults.edits < MaxTemplateEdits
    /\ defaults' = [defaults EXCEPT !.form = form, !.edits = @ + 1]
    /\ UNCHANGED <<templateRow, templateCall>>

ToggleEnabled == TemplateFormIs([defaults.form EXCEPT !.head = ~@])
EditTemplateRows == \E form \in RowsEdited(defaults.form) : TemplateFormIs(form)

\* handleSave
SaveTemplate ==
    LET form == Checked(defaults.form) IN
    /\ templateCall.at = "idle" /\ Dirty(defaults.form)
    /\ defaults' = [defaults EXCEPT !.form = form]
    /\ templateCall' = IF form.errors # {} THEN templateCall
                       ELSE [NoTemplateCall EXCEPT !.op = "save", !.at = "work",
                                                   !.template = TemplateOf(form.head, RulesToSend(form))]
    /\ UNCHANGED templateRow

\* The dialog is shut while it clears.
AskClear ==
    /\ ~defaults.asked /\ defaults.query.data.stored /\ templateCall.at = "idle"
    /\ defaults' = [defaults EXCEPT !.asked = TRUE]
    /\ UNCHANGED <<templateRow, templateCall>>

CancelClear ==
    /\ defaults.asked /\ ~TemplatePending("clear")
    /\ defaults' = [defaults EXCEPT !.asked = FALSE]
    /\ UNCHANGED <<templateRow, templateCall>>

ConfirmClear ==
    /\ defaults.asked /\ templateCall.at = "idle"
    /\ templateCall' = [NoTemplateCall EXCEPT !.op = "clear", !.at = "work"]
    /\ UNCHANGED <<templateRow, defaults>>

-----------------------------------------------------------------------------
\* setDefaultPolicyTemplate and clearDefaultPolicyTemplate
TemplateStored ==
    /\ templateCall.at = "work"
    /\ templateRow' = templateCall.template
    /\ templateCall' = [templateCall EXCEPT !.at = "answer", !.ok = TRUE]
    /\ UNCHANGED defaults

TemplateFails ==
    /\ TemplateFault /\ templateCall.at = "work"
    /\ templateCall' = [templateCall EXCEPT !.at = "answer"]
    /\ defaults' = [defaults EXCEPT !.faults = @ + 1]
    /\ UNCHANGED templateRow

\* useUpdateDefaultPolicyMutation and useClearDefaultPolicyMutation, then what the
\* page passed along; a dialog that waited is closed.
TemplateSettled(ok) ==
    LET told == [defaults EXCEPT !.query = IF ok THEN SetQueryData(@, templateCall.template) ELSE @]
        fetched == [Reseed(told) EXCEPT !.query = InvalidateQueries(@), !.asked = @ /\ templateCall.op # "clear"]
    IN IF ok THEN Synced(fetched, templateCall.template) ELSE fetched

TemplateAnswered ==
    /\ templateCall.at = "answer"
    /\ defaults' = TemplateSettled(templateCall.ok)
    /\ templateCall' = NoTemplateCall
    /\ UNCHANGED templateRow

\* The answer is lost; the API has done its work, or never will.
TemplateLost ==
    /\ TemplateFault /\ templateCall.at # "idle"
    /\ defaults' = [TemplateSettled(FALSE) EXCEPT !.faults = @ + 1]
    /\ templateCall' = NoTemplateCall
    /\ UNCHANGED templateRow

\* Another device saves a template.
RemoteSave ==
    /\ defaults.remote < MaxRemoteEdits
    /\ \E enabled \in BOOLEAN :
         templateRow' = TemplateOf(enabled, <<Rule("bodyRequired", Flag(TRUE))>>)
    /\ defaults' = [defaults EXCEPT !.remote = @ + 1]
    /\ UNCHANGED templateCall

\* The window gets the focus, or the network comes back, when the template is stale.
RefetchTemplate ==
    /\ Idle(defaults.query) /\ defaults.query.data # templateRow
    /\ defaults' = [defaults EXCEPT !.query = InvalidateQueries(@)]
    /\ UNCHANGED <<templateRow, templateCall>>

TemplateRead ==
    /\ defaults.query.fetch.at = "sent"
    /\ defaults' = [defaults EXCEPT !.query = Reads(@, templateRow)]
    /\ UNCHANGED <<templateRow, templateCall>>

TemplateReadAnswered ==
    /\ defaults.query.fetch.at = "back"
    /\ defaults' = Reseed([defaults EXCEPT !.query = Succeeds(@)])
    /\ UNCHANGED <<templateRow, templateCall>>

TemplateReadFailed ==
    /\ TemplateFault /\ ~Idle(defaults.query)
    /\ defaults' = [defaults EXCEPT !.query = Fails(@), !.faults = @ + 1]
    /\ UNCHANGED <<templateRow, templateCall>>

DefaultPolicyNext ==
    \/ ToggleEnabled \/ EditTemplateRows \/ SaveTemplate \/ AskClear \/ CancelClear \/ ConfirmClear
    \/ TemplateStored \/ TemplateFails \/ TemplateAnswered \/ TemplateLost \/ RemoteSave
    \/ RefetchTemplate \/ TemplateRead \/ TemplateReadAnswered \/ TemplateReadFailed

-----------------------------------------------------------------------------
\* default-policy-view.tsx 91-100: a form that tells of no unsaved changes shows the
\* template of the query, whatever devices saved, cleared and read, unless a new one
\* came while there were changes, which the user then took back.
FormFollowsTemplate ==
    templateCall.at = "idle" /\ ~Dirty(defaults.form) /\ ~defaults.skipped =>
        /\ defaults.form.head = defaults.query.data.enabled
        /\ defaults.form.entries = BuildEntries(defaults.query.data.rules)

\* The same effect: "Avoids overwriting in-flight edits": the arrival of a template
\* that the page did not save itself changes no form with unsaved changes.
EditsSurviveRefetch ==
    [][Dirty(defaults.form) /\ defaults.query.fetch.at = "back" /\ defaults'.query.fetch.at = "none"
         => defaults'.form = defaults.form]_templateVars
===============================================================================
