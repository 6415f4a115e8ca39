------------------------------ MODULE GenerateForm ----------------------------
(* The form of the generate page: the diff with the files and the clipboard it is
   read from, the provider and its model, the repository and its policy, and what
   is sent.  The stream itself is GenerationWeb's. *)
EXTENDS Naturals, FiniteSets

CONSTANTS DiffTexts, ValidTexts, LargeTexts,  \* diffs; those the validator accepts; those over 1 MB
          DiffFiles,                          \* files on the disk, by name
          FormProviders, FormRepos, RepoPolicies,
          MaxFormSteps                        \* bounds what is read, typed and answered

ASSUME GenerateFormAssumption ==
    /\ ValidTexts \subseteq DiffTexts /\ LargeTexts \subseteq DiffTexts
    /\ DiffFiles \subseteq DiffTexts /\ MaxFormSteps \in Nat

NoText == ""
NoChoice == "none"

VARIABLES form,      \* diff, file (the name shown), judged (the text diffValidity is about),
                     \* provider, model, repo, policy; streaming; sent
          reading,   \* the reads of a file or of the clipboard under way
          formKeys,  \* [provider -> the status of its key], as the query has it
          choices    \* the policies of each repository: there, and as the query lists them

formVars == <<form, reading, formKeys, choices>>

\* A file is named for its text; a model and a policy tell what they belong to.
ModelsOf(p) == {<<p, "default">>, <<p, "other">>}
DefaultModel(p) == <<p, "default">>
PoliciesOf(r) == {<<r, p>> : p \in RepoPolicies}

\* The providers pickInitialProvider may pick: verified ones first.
PickInitialProvider(keys) ==
    LET verified == {p \in FormProviders : keys[p] = "ok"}
    IN IF verified # {} THEN verified ELSE {p \in FormProviders : keys[p] = "unknown"}

Usable(keys, p) == keys[p] \in {"ok", "unknown"}

\* The picks a form makes when it has none.
WithProvider(f, keys) ==
    IF f.provider = NoChoice /\ PickInitialProvider(keys) # {}
    THEN {[f EXCEPT !.provider = p, !.model = DefaultModel(p)] : p \in PickInitialProvider(keys)}
    ELSE {f}

EmptyForm == [diff |-> NoText, file |-> NoText, judged |-> NoText, provider |-> NoChoice,
              model |-> <<>>, repo |-> NoChoice, policy |-> <<>>, streaming |-> FALSE,
              lapsed |-> FALSE, steps |-> 0, sent |-> {}]

Unlisted == [ok |-> FALSE, items |-> {}]

\* The diff of the dashboard's quick form is taken from the session's storage.
GenerateFormInit ==
    /\ formKeys \in [FormProviders -> {"ok", "unknown", "invalid", NoChoice}]
    /\ \E quick \in DiffTexts \cup {NoText} :
         form \in WithProvider([EmptyForm EXCEPT !.diff = quick], formKeys)
    /\ reading = {}
    /\ choices = [there |-> [r \in FormRepos |-> PoliciesOf(r)],
                  listed |-> [r \in FormRepos |-> Unlisted]]

FormStep == form.steps < MaxFormSteps
Counted(f) == [f EXCEPT !.steps = @ + 1]

FormBecomes(f) == form' = f /\ UNCHANGED <<reading, formKeys, choices>>

-----------------------------------------------------------------------------
\* The diff

\* handleEditorChange
Edited(f, text) == [f EXCEPT !.diff = text, !.file = NoText]

\* A key, an undo or a redo; the editor is read-only while a stream runs.
TypeDiff(text) ==
    /\ FormStep /\ ~form.streaming /\ text # form.diff
    /\ FormBecomes(Edited(Counted(form), text))

ClearDiff ==
    /\ ~form.streaming /\ form.diff # NoText
    /\ FormBecomes(Edited(form, NoText))

\* readFile is started by the button or by a drop, which does not look whether a
\* stream runs; a large file is refused.
OpenFile(name) ==
    /\ FormStep /\ name \notin LargeTexts
    /\ form' = Counted(form)
    /\ reading' = reading \cup {[of |-> "file", text |-> name]}
    /\ UNCHANGED <<formKeys, choices>>

ReadClipboard(text) ==
    /\ FormStep /\ ~form.streaming
    /\ form' = Counted(form)
    /\ reading' = reading \cup {[of |-> "clipboard", text |-> text]}
    /\ UNCHANGED <<formKeys, choices>>

\* What was read replaces the diff, even while a stream runs; an empty clipboard does not.
ReadEnds(r) ==
    /\ reading' = reading \ {r}
    /\ form' = IF r.text = NoText THEN form
               ELSE [form EXCEPT !.diff = r.text, !.file = IF r.of = "file" THEN r.text ELSE NoText]
    /\ UNCHANGED <<formKeys, choices>>

ReadFails(r) ==
    /\ reading' = reading \ {r}
    /\ UNCHANGED <<form, formKeys, choices>>

\* The render of the deferred value, and the effect that tells its verdict.
DeferredRender ==
    /\ form.judged # form.diff
    /\ FormBecomes([form EXCEPT !.judged = form.diff])

-----------------------------------------------------------------------------
\* The provider and the model

\* handleProviderChange
ChooseProvider(p) ==
    /\ ~form.streaming /\ Usable(formKeys, p)
    /\ FormBecomes([form EXCEPT !.provider = p, !.model = DefaultModel(p), !.lapsed = FALSE])

ChooseModel(m) ==
    /\ ~form.streaming /\ form.provider # NoChoice /\ m \in ModelsOf(form.provider)
    /\ \E p \in FormProviders : Usable(formKeys, p)
    /\ FormBecomes([form EXCEPT !.model = m])

\* A refetch brings a key that was added, checked or removed elsewhere.
KeysRefetched(p, status) ==
    LET keys == [formKeys EXCEPT ![p] = status]
        lapsed == form.lapsed \/ (form.provider = p /\ Usable(formKeys, p) /\ ~Usable(keys, p))
    IN /\ FormStep /\ status # formKeys[p]
       /\ formKeys' = keys
       /\ form' \in WithProvider(Counted([form EXCEPT !.lapsed = lapsed]), keys)
       /\ UNCHANGED <<reading, choices>>

-----------------------------------------------------------------------------
\* The repository and the policy

\* Mutant: the policy of the repository before stays.
ChooseRepoOnly(r) ==
    /\ ~form.streaming /\ r # form.repo
    /\ FormBecomes([form EXCEPT !.repo = r])

ChooseRepo(r) ==
    /\ ~form.streaming /\ r # form.repo
    /\ FormBecomes([form EXCEPT !.repo = r, !.policy = <<>>])

ChoosePolicy(p) ==
    /\ ~form.streaming /\ form.repo # NoChoice
    /\ p \in choices.listed[form.repo].items \cup {<<>>}
    /\ FormBecomes([form EXCEPT !.policy = p])

\* The picker's effect, after a render.
DroppedPolicy(f, listed) ==
    IF f.repo = NoChoice \/ (listed[f.repo].ok /\ f.policy \notin listed[f.repo].items)
    THEN [f EXCEPT !.policy = <<>>] ELSE f

\* The list of the chosen repository is fetched: at first, and again when it is stale.
PoliciesFetched(ok) ==
    LET r == form.repo
        listed == [choices.listed EXCEPT ![r] = [ok |-> ok, items |-> IF ok THEN choices.there[r] ELSE @.items]]
    IN /\ FormStep /\ r # NoChoice
       /\ choices' = [choices EXCEPT !.listed = listed]
       /\ form' = DroppedPolicy(Counted(form), listed)
       /\ UNCHANGED <<reading, formKeys>>

\* A policy is deleted elsewhere.
PolicyGoesAway(r, p) ==
    /\ p \in choices.there[r]
    /\ choices' = [choices EXCEPT !.there[r] = @ \ {p}]
    /\ UNCHANGED <<form, reading, formKeys>>

-----------------------------------------------------------------------------
\* The stream

CanSubmit ==
    /\ ~form.streaming /\ form.diff # NoText /\ form.diff \notin LargeTexts
    /\ form.judged \in ValidTexts
    /\ form.provider # NoChoice /\ form.model # <<>>

SubmitForm ==
    /\ CanSubmit
    /\ FormBecomes([form EXCEPT !.streaming = TRUE,
                      !.sent = {[provider |-> form.provider, model |-> form.model,
                                 repo |-> form.repo, policy |-> form.policy]}])

\* It is done, has failed, or is cancelled.
StreamOver ==
    /\ form.streaming
    /\ FormBecomes([form EXCEPT !.streaming = FALSE, !.sent = {}])

GenerateFormNext ==
    \/ \E text \in DiffTexts : TypeDiff(text)
    \/ ClearDiff
    \/ \E name \in DiffFiles : OpenFile(name)
    \/ \E text \in DiffTexts \cup {NoText} : ReadClipboard(text)
    \/ \E r \in reading : ReadEnds(r) \/ ReadFails(r)
    \/ DeferredRender
    \/ \E p \in FormProviders :
         \/ ChooseProvider(p)
         \/ \E m \in ModelsOf(p) : ChooseModel(m)
         \/ \E status \in {"ok", "unknown", "invalid", NoChoice} : KeysRefetched(p, status)
    \/ \E r \in FormRepos \cup {NoChoice} : ChooseRepo(r)
    \/ \E p \in {<<>>} \cup UNION {choices.listed[r].items : r \in FormRepos} : ChoosePolicy(p)
    \/ \E ok \in BOOLEAN : PoliciesFetched(ok)
    \/ \E r \in FormRepos : \E p \in choices.there[r] : PolicyGoesAway(r, p)
    \/ SubmitForm \/ StreamOver

-----------------------------------------------------------------------------
\* diff-input.tsx 97-108: the name shown under the diff is that of the file the diff
\* came from, though reads overlap each other, the clipboard's and the keys.
FileNameTellsText == form.file # NoText => form.diff = form.file

\* generate-view.tsx 124-135: a policy is sent only with the repository it belongs to,
\* also while the list of a repository chosen just now is on its way.
SentPolicyOfRepo ==
    \A s \in form.sent : s.policy # <<>> => s.repo # NoChoice /\ s.policy \in PoliciesOf(s.repo)

\* policy-picker.tsx 45-56: no policy stays chosen that the repository's list, once it
\* has come, lacks.
StalePolicyCleared ==
    form.policy # <<>> /\ form.repo # NoChoice /\ choices.listed[form.repo].ok
        => form.policy \in choices.listed[form.repo].items

\* provider-selector.tsx 42-45: the provider sent has a key that is not known to be
\* invalid, unless the key was found so, or removed, after the choice.
ProviderUsable == form.provider # NoChoice /\ ~Usable(formKeys, form.provider) => form.lapsed

\* constants.ts 3-6: the model sent is one of the provider's.
SentModelOfProvider == \A s \in form.sent : s.model \in ModelsOf(s.provider)
===============================================================================
