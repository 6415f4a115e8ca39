------------------------------- MODULE RuleForm -------------------------------
(* rule-form.ts and the forms built on it, the policy editor's and the default
   policy's: rows of rules as they are typed, their errors, and the snapshot the
   form is compared with to tell unsaved changes.  A kind is in a form at most
   once, so a row's uid is its kind.  A text is what it is split or read into,
   and whether it is spelt as the server's value would be; values of different
   types are kept in records of different shapes. *)
EXTENDS Naturals, Sequences, SequencesExt

CONSTANT RuleTypes  \* of policyRuleTypes, those the forms use

policyRuleTypes == {"allowedTypes", "allowedScopes", "maxSubjectLength", "bodyRequired", "footerRequired"}

ASSUME RuleFormAssumption == RuleTypes \subseteq policyRuleTypes

Spelt(value) == [is |-> value, tidy |-> TRUE]
Loose(value) == [is |-> value, tidy |-> FALSE]

Types(raw) == [ruleType |-> "allowedTypes", raw |-> raw]
Scopes(mode, raw, pattern) ==
    [ruleType |-> "allowedScopes", mode |-> mode, raw |-> raw, pattern |-> pattern]
Subject(value) == [ruleType |-> "maxSubjectLength", value |-> value]
Required(kind, value) == [ruleType |-> kind, checked |-> value]

Rule(kind, value) == [ruleType |-> kind, ruleValue |-> value]
One(value) == [kind |-> "one", is |-> value]
Flag(value) == [kind |-> "flag", on |-> value]
List(values) == [kind |-> "list", values |-> values]
Regex(pattern) == [kind |-> "regex", pattern |-> pattern]

\* inputToFormState and dtoToFormState
InputToFormState(rule) ==
    CASE rule.ruleType = "allowedTypes" -> Types(Spelt(rule.ruleValue.values))
      [] rule.ruleType = "allowedScopes" ->
           IF rule.ruleValue.kind = "list" THEN Scopes("list", Spelt(rule.ruleValue.values), "")
           ELSE Scopes("regex", Spelt(<<>>), rule.ruleValue.pattern)
      [] rule.ruleType = "maxSubjectLength" -> Subject(Spelt(rule.ruleValue.is))
      [] OTHER -> Required(rule.ruleType, rule.ruleValue.on)

DefaultFormState(kind) ==
    CASE kind = "allowedTypes" -> Types(Spelt(<<"feat", "fix">>))
      [] kind = "allowedScopes" -> Scopes("list", Spelt(<<>>), "")
      [] kind = "maxSubjectLength" -> Subject(Spelt(72))
      [] OTHER -> Required(kind, kind = "bodyRequired")

BadPattern == "("

\* formStateToInput: whether a row can be sent, and as which rule.
Sendable(state) ==
    CASE state.ruleType = "allowedTypes" -> state.raw.is # <<>>
      [] state.ruleType = "allowedScopes" ->
           IF state.mode = "list" THEN state.raw.is # <<>> ELSE state.pattern # BadPattern
      [] state.ruleType = "maxSubjectLength" -> state.value.is \in 1 .. 500
      [] OTHER -> TRUE

FormStateToInput(state) ==
    CASE state.ruleType = "allowedTypes" -> Rule("allowedTypes", List(state.raw.is))
      [] state.ruleType = "allowedScopes" ->
           Rule("allowedScopes", IF state.mode = "list" THEN List(state.raw.is) ELSE Regex(state.pattern))
      [] state.ruleType = "maxSubjectLength" -> Rule("maxSubjectLength", One(state.value.is))
      [] OTHER -> Rule(state.ruleType, Flag(state.checked))

\* What a row's editor makes of a row: each field is changed alone.
RowEdits(state) ==
    CASE state.ruleType = "allowedTypes" -> {Types(raw) : raw \in {Spelt(<<>>), Loose(<<"feat">>)}}
      [] state.ruleType = "allowedScopes" ->
           {[state EXCEPT !.mode = m] : m \in {"list", "regex"}}
             \cup (IF state.mode = "list" THEN {[state EXCEPT !.raw = Loose(<<"ui">>)]}
                   ELSE {[state EXCEPT !.pattern = p] : p \in {"ui.*", BadPattern}})
      [] state.ruleType = "maxSubjectLength" -> {Subject(v) : v \in {Loose(72), Spelt(500), Spelt(501), Loose(0)}}
      [] OTHER -> {Required(state.ruleType, ~state.checked)}

-----------------------------------------------------------------------------
\* A form: its head is the policy's name, or the template's enabled.

Snapshot(head, entries) == [head |-> head, rules |-> entries]

BuildEntries(rules) == [i \in DOMAIN rules |-> InputToFormState(rules[i])]

\* syncFromServer and syncFromTemplate; entries and baseline may differ at the mount.
FormOf(head, rules, baseline) ==
    [head |-> head, headError |-> FALSE, entries |-> BuildEntries(rules), errors |-> {},
     baseline |-> baseline]

SyncedForm(head, rules) == FormOf(head, rules, Snapshot(head, BuildEntries(rules)))

Dirty(form) == Snapshot(form.head, form.entries) # form.baseline

UsedKinds(form) == {form.entries[i].ruleType : i \in DOMAIN form.entries}

\* handleAddRule; AddRuleGrid offers the kinds that are not used.
AddRule(form, kind) == [form EXCEPT !.entries = Append(@, DefaultFormState(kind))]

\* handleRuleChange
ChangeRule(form, state) ==
    [form EXCEPT !.entries = [i \in DOMAIN @ |-> IF @[i].ruleType = state.ruleType THEN state ELSE @[i]],
                 !.errors = @ \ {state.ruleType}]

\* handleRuleRemove, of the row with this uid.
RemoveRule(form, i) ==
    [form EXCEPT !.entries = RemoveAt(@, i), !.errors = @ \ {form.entries[i].ruleType}]

\* The forms a click or a key makes of a form.
RowsEdited(form) ==
    {AddRule(form, k) : k \in RuleTypes \ UsedKinds(form)}
      \cup {RemoveRule(form, i) : i \in DOMAIN form.entries}
      \cup UNION {{ChangeRule(form, s) : s \in RowEdits(form.entries[i])} : i \in DOMAIN form.entries}

\* The first half of handleSave: the errors of the rows that cannot be sent.
Checked(form) ==
    [form EXCEPT !.errors = {form.entries[i].ruleType : i \in {j \in DOMAIN form.entries : ~Sendable(form.entries[j])}}]

RulesToSend(form) == [i \in DOMAIN form.entries |-> FormStateToInput(form.entries[i])]
===============================================================================
