----------------------------- MODULE PagesProofs -----------------------------
(***************************************************************************)
(* The pages for every set of messages, texts, providers, repositories,    *)
(* policies, calls and edits: the check panel, the generate form, the      *)
(* repositories page, its filters, the policy list, the forms of the       *)
(* policy editor and of the default policy, the configuration of the       *)
(* command line, the viewer of the diff and its split view.  Each has an   *)
(* inductive invariant about its own variables; the other pages leave      *)
(* those alone.                                                            *)
(***************************************************************************)
EXTENDS Pages, FiniteSetTheorems, SequenceTheorems, TLAPS

(***************************************************************************)
(* The panel that checks a message.                                        *)
(***************************************************************************)
Checks == [token : Nat, message : PanelMessages \cup {Blank}]

PanelTypes ==
  panel \in [message : PanelMessages \cup {Blank},
             status : {"idle", "debouncing", "checking", "success", "error"},
             result : PanelMessages \cup {Blank, NoVerdict},
             debounce : PanelMessages \cup {NoDebounce},
             token : Nat, latest : Nat, sent : SUBSET Checks, keys : Nat]

\* The timer's text is the message on the screen.
TimerTellsMessage == panel.debounce # NoDebounce => panel.debounce = panel.message

\* No request is younger than the token, and the one that has it is about the message
\* on the screen unless a timer runs.
CheckTellsMessage ==
  \A r \in panel.sent :
    /\ r.token <= panel.token
    /\ panel.debounce = NoDebounce /\ r.token = panel.token => r.message = panel.message

\* While the panel checks, its mutation calls back for the request with the token.
LatestHasToken == panel.status = "checking" => panel.latest = panel.token

PanelInv ==
  /\ PanelTypes /\ TimerTellsMessage /\ CheckTellsMessage /\ LatestHasToken
  /\ VerdictsFollowMessage

\* Nothing has been typed.
LEMMA PanelStarts ==
  ASSUME PanelInit
  PROVE  PanelInv
<1>1. /\ panel.message = Blank /\ panel.status = "idle" /\ panel.debounce = NoDebounce
      /\ panel.token = 0 /\ panel.latest = 0 /\ panel.sent = {}
  BY DEF PanelInit
<1>2. PanelTypes
  BY DEF PanelInit, PanelTypes
<1> QED
  BY <1>1, <1>2 DEF PanelInv, TimerTellsMessage, CheckTellsMessage,
     LatestHasToken, VerdictsFollowMessage, VerdictIsAboutMessage, CheckingEnds

\* Silencing raises the token: the answers under way are about nothing any more.
LEMMA SilencedIsIdle ==
  ASSUME PanelInv, NEW m \in PanelMessages \cup {Blank}, NEW k \in Nat,
         panel' = Silenced([panel EXCEPT !.message = m, !.keys = k])
  PROVE  PanelInv'
<1>1. /\ panel'.message = m /\ panel'.status = "idle" /\ panel'.result = NoVerdict
      /\ panel'.debounce = NoDebounce /\ panel'.token = panel.token + 1
      /\ panel'.latest = panel.latest /\ panel'.sent = panel.sent
  BY DEF PanelInv, PanelTypes, Silenced
<1>2. PanelTypes'
  <2>1. panel.token + 1 \in Nat
    BY DEF PanelInv, PanelTypes
  <2> DEFINE t == panel.token + 1
  <2>2. panel' = [panel EXCEPT !.message = m, !.keys = k, !.token = t, !.status = "idle",
                               !.result = NoVerdict, !.debounce = NoDebounce]
    BY DEF PanelInv, PanelTypes, Silenced
  <2>3. t \in Nat
    BY <2>1
  <2> HIDE DEF t
  <2> QED BY <2>2, <2>3 DEF PanelInv, PanelTypes
<1>3. \A r \in panel.sent : r.token \in Nat /\ r.token <= panel.token /\ panel.token \in Nat
  BY DEF PanelInv, PanelTypes, CheckTellsMessage, Checks
<1>4. CheckTellsMessage'
  BY <1>1, <1>3 DEF CheckTellsMessage
<1> QED
  BY <1>1, <1>2, <1>4 DEF PanelInv, TimerTellsMessage, LatestHasToken,
     VerdictsFollowMessage, VerdictIsAboutMessage, CheckingEnds

\* A request gets a token of its own and is about the message on the screen.
LEMMA RunIsChecking ==
  ASSUME PanelInv, NEW k \in Nat, panel.message \in PanelMessages \cup {Blank},
         panel' \in {RunValidation([panel EXCEPT !.debounce = NoDebounce, !.keys = k], panel.message),
                     RunValidation([panel EXCEPT !.keys = k], panel.message)}
  PROVE  PanelInv'
<1> DEFINE c == [token |-> panel.token + 1, message |-> panel.message]
<1>1. /\ panel'.message = panel.message /\ panel'.status = "checking"
      /\ panel'.debounce \in {NoDebounce, panel.debounce} /\ panel'.token = panel.token + 1
      /\ panel'.latest = panel.token + 1 /\ panel'.sent = panel.sent \cup {c}
  BY DEF PanelInv, PanelTypes, RunValidation
<1>2. panel.token \in Nat /\ c \in Checks
  BY DEF PanelInv, PanelTypes, Checks
<1>3. PanelTypes'
  <2> DEFINE t == panel.token + 1
             d == panel'.debounce
             j == panel'.keys
             b == panel.sent \cup {c}
  <2>1. t \in Nat /\ d \in PanelMessages \cup {NoDebounce} /\ j \in Nat
    <3>1. t \in Nat /\ d \in PanelMessages \cup {NoDebounce}
      BY <1>1, <1>2 DEF PanelInv, PanelTypes
    <3>2. panel'.keys \in {k, panel.keys}
      BY DEF PanelInv, PanelTypes, RunValidation
    <3> QED BY <3>1, <3>2 DEF PanelInv, PanelTypes
  <2>2. b \in SUBSET Checks
    BY <1>2 DEF PanelInv, PanelTypes
  <2>3. panel' = [panel EXCEPT !.debounce = d, !.keys = j, !.token = t, !.status = "checking",
                               !.latest = t, !.sent = b]
    BY DEF PanelInv, PanelTypes, RunValidation
  <2> HIDE DEF t, d, j, b
  <2> QED BY <2>1, <2>2, <2>3 DEF PanelInv, PanelTypes
<1>4. \A r \in panel.sent : r.token \in Nat /\ r.token <= panel.token
  BY DEF PanelInv, PanelTypes, CheckTellsMessage, Checks
<1>5. CheckTellsMessage'
  BY <1>1, <1>2, <1>4 DEF CheckTellsMessage
<1>6. c \in panel'.sent /\ c.token = panel'.token
  BY <1>1
<1>7. CheckingEnds'
  BY <1>1, <1>6 DEF CheckingEnds
<1>8. TimerTellsMessage' /\ LatestHasToken' /\ VerdictIsAboutMessage'
  BY <1>1 DEF PanelInv, TimerTellsMessage, LatestHasToken, VerdictIsAboutMessage
<1> QED
  BY <1>3, <1>5, <1>7, <1>8 DEF PanelInv, VerdictsFollowMessage

\* An answer counts only with the token, so that it is about the message on the screen
\* or a timer runs; no other answer ends the checking.
LEMMA AnswerKeepsPanel ==
  ASSUME PanelInv, NEW r \in panel.sent, CheckAnswered(r)
  PROVE  PanelInv'
<1> DEFINE p == [panel EXCEPT !.sent = @ \ {r}]
<1>1. PICK ok \in BOOLEAN :
        panel' = IF r.token # panel.latest \/ r.token # panel.token THEN p
                 ELSE IF ok THEN [p EXCEPT !.result = r.message, !.status = "success"]
                 ELSE [p EXCEPT !.result = NoVerdict, !.status = "error"]
  BY DEF CheckAnswered
<1>2. /\ panel'.message = panel.message /\ panel'.debounce = panel.debounce
      /\ panel'.token = panel.token /\ panel'.latest = panel.latest
      /\ panel'.sent = panel.sent \ {r}
  BY <1>1 DEF PanelInv, PanelTypes
<1>3. PanelTypes'
  BY <1>1 DEF PanelInv, PanelTypes, Checks
<1>4. CheckTellsMessage' /\ TimerTellsMessage'
  BY <1>2 DEF PanelInv, CheckTellsMessage, TimerTellsMessage
<1>5. CASE r.token # panel.latest \/ r.token # panel.token
  <2>1. panel'.status = panel.status /\ panel'.result = panel.result
    BY <1>1, <1>5 DEF PanelInv, PanelTypes
  <2>2. CheckingEnds'
    BY <1>2, <1>5, <2>1 DEF PanelInv, VerdictsFollowMessage, CheckingEnds, LatestHasToken
  <2>3. LatestHasToken' /\ VerdictIsAboutMessage'
    BY <1>2, <2>1 DEF PanelInv, VerdictsFollowMessage, LatestHasToken, VerdictIsAboutMessage
  <2> QED BY <1>3, <1>4, <2>2, <2>3 DEF PanelInv, VerdictsFollowMessage
<1>6. CASE ~(r.token # panel.latest \/ r.token # panel.token)
  <2>1. \/ panel'.status = "success" /\ panel'.result = r.message
        \/ panel'.status = "error"
    BY <1>1, <1>6 DEF PanelInv, PanelTypes
  <2>2. VerdictIsAboutMessage'
    BY <1>2, <1>6, <2>1 DEF PanelInv, CheckTellsMessage, VerdictIsAboutMessage
  <2>3. CheckingEnds' /\ LatestHasToken'
    BY <2>1 DEF CheckingEnds, LatestHasToken
  <2> QED BY <1>3, <1>4, <2>2, <2>3 DEF PanelInv, VerdictsFollowMessage
<1> QED BY <1>5, <1>6

\* Every step of the panel keeps its invariant.
LEMMA PanelKept ==
  ASSUME PanelInv, PanelNext
  PROVE  PanelInv'
<1>1. ASSUME NEW raw \in PanelMessages \cup {Blank}, TypeMessage(raw)
      PROVE  PanelInv'
  <2>0. panel.keys \in Nat /\ panel.keys + 1 \in Nat
    BY DEF PanelInv, PanelTypes
  <2>1. CASE raw = Blank
    <3>1. panel' = Silenced([panel EXCEPT !.message = raw, !.keys = panel.keys + 1])
      BY <1>1, <2>1 DEF TypeMessage
    <3> QED BY <2>0, <3>1, SilencedIsIdle
  <2>2. CASE raw # Blank
    <3>1. panel' = [[panel EXCEPT !.message = raw, !.keys = @ + 1]
                       EXCEPT !.status = "debouncing", !.debounce = raw]
      BY <1>1, <2>2 DEF TypeMessage
    <3>2. /\ panel'.message = raw /\ panel'.status = "debouncing" /\ panel'.debounce = raw
          /\ panel'.token = panel.token /\ panel'.sent = panel.sent
      BY <3>1 DEF PanelInv, PanelTypes
    <3>3. raw \in PanelMessages /\ raw # NoDebounce
      BY <2>2, ValidatePanelAssumption
    <3>4. PanelTypes'
      BY <2>0, <3>1, <3>3 DEF PanelInv, PanelTypes
    <3> QED BY <3>2, <3>3, <3>4 DEF PanelInv, TimerTellsMessage, CheckTellsMessage,
               LatestHasToken, VerdictsFollowMessage, VerdictIsAboutMessage, CheckingEnds
  <2> QED BY <2>1, <2>2
<1>2. ASSUME DebounceFires
      PROVE  PanelInv'
  <2>1. panel.debounce = panel.message /\ panel.keys \in Nat
        /\ panel.message \in PanelMessages \cup {Blank}
    BY <1>2 DEF DebounceFires, PanelInv, PanelTypes, TimerTellsMessage
  <2>2. [panel EXCEPT !.debounce = NoDebounce]
          = [panel EXCEPT !.debounce = NoDebounce, !.keys = panel.keys]
    BY DEF PanelInv, PanelTypes
  <2>3. panel' = RunValidation([panel EXCEPT !.debounce = NoDebounce, !.keys = panel.keys],
                               panel.message)
    BY <1>2, <2>1, <2>2 DEF DebounceFires
  <2> QED BY <2>1, <2>3, RunIsChecking
<1>3. ASSUME ClearMessage
      PROVE  PanelInv'
  <2>1. panel.keys \in Nat /\ Blank \in PanelMessages \cup {Blank}
    BY DEF PanelInv, PanelTypes
  <2>2. panel' = Silenced([panel EXCEPT !.message = Blank, !.keys = panel.keys])
    BY <1>3 DEF ClearMessage, Silenced, PanelInv, PanelTypes
  <2> QED BY <2>1, <2>2, SilencedIsIdle
<1>4. ASSUME RetryCheck
      PROVE  PanelInv'
  <2>1. panel.keys + 1 \in Nat /\ panel.message \in PanelMessages \cup {Blank}
    BY DEF PanelInv, PanelTypes
  <2>2. panel' = RunValidation([panel EXCEPT !.keys = panel.keys + 1], panel.message)
    BY <1>4 DEF RetryCheck
  <2> QED BY <2>1, <2>2, RunIsChecking
<1>5. ASSUME NEW r \in panel.sent, CheckAnswered(r)
      PROVE  PanelInv'
  BY <1>5, AnswerKeepsPanel
<1> QED BY <1>1, <1>2, <1>3, <1>4, <1>5 DEF PanelNext

\* manual-validate-panel.tsx 92-177: the verdict on the screen is about the message on
\* the screen, and "checking" ends, for any messages and any number of requests.
THEOREM VerdictsFollow == Spec => []VerdictsFollowMessage
<1>1. Init => PanelInv
  BY PanelStarts DEF Init
<1>2. PanelInv /\ [Next]_vars => PanelInv'
  <2> SUFFICES ASSUME PanelInv, [Next]_vars
               PROVE  PanelInv'
    OBVIOUS
  <2>1. PanelNext \/ UNCHANGED panel
    BY DEF Next, vars, ReposPagePage, RepoFiltersPage, PolicyEditorPage, PolicyListPage,
       DefaultPolicyPage, ValidatePanelPage, GenerateFormPage, DiffReadersPage,
       DiffBudgetPage, SplitDocsPage, DiffViewerPage, CliConfigPage
  <2>2. CASE UNCHANGED panel
    BY <2>2 DEF PanelInv, PanelTypes, TimerTellsMessage, CheckTellsMessage, LatestHasToken,
       VerdictsFollowMessage, VerdictIsAboutMessage, CheckingEnds
  <2> QED BY <2>1, <2>2, PanelKept
<1>3. PanelInv => VerdictsFollowMessage
  BY DEF PanelInv
<1> QED BY <1>1, <1>2, <1>3, PTL DEF Spec

(***************************************************************************)
(* The generate form.                                                      *)
(***************************************************************************)
Texts == DiffTexts \cup {NoText}
Models == {<<>>} \cup UNION {ModelsOf(p) : p \in FormProviders}
Policies == {<<>>} \cup UNION {PoliciesOf(r) : r \in FormRepos}
OrNone(S) == S \cup {NoChoice}
Bodies == [provider : OrNone(FormProviders), model : Models,
           repo : OrNone(FormRepos), policy : Policies]
Sends == SUBSET Bodies

Forms == [diff : Texts, file : Texts, judged : Texts,
          provider : OrNone(FormProviders), model : Models,
          repo : OrNone(FormRepos), policy : Policies,
          streaming : BOOLEAN, lapsed : BOOLEAN, steps : Nat, sent : Sends]

Listing == [ok : BOOLEAN, items : SUBSET Policies]

FormTypes ==
  /\ form \in Forms
  /\ reading \in SUBSET [of : {"file", "clipboard"}, text : Texts]
  /\ formKeys \in [FormProviders -> {"ok", "unknown", "invalid", NoChoice}]
  /\ choices \in [there : [FormRepos -> SUBSET Policies], listed : [FormRepos -> Listing]]

\* The policies a repository has, or is listed with, are its own.
PoliciesAreOwn ==
  \A r \in FormRepos : /\ choices.there[r] \subseteq PoliciesOf(r)
                       /\ choices.listed[r].items \subseteq PoliciesOf(r)

\* What is chosen belongs together before it is sent.
ModelOfProvider(f) == f.provider # NoChoice => f.model \in ModelsOf(f.provider)
PolicyOfRepo(f) == f.policy # <<>> => f.repo # NoChoice /\ f.policy \in PoliciesOf(f.repo)

FormInv ==
  /\ FormTypes /\ PoliciesAreOwn
  /\ ModelOfProvider(form) /\ PolicyOfRepo(form)
  /\ FormSendsWhatItShows

\* Each conjunct speaks of a few fields: what has to be shown when a step of the form
\* leaves the keys and the lists alone.
LEMMA FormStepKeeps ==
  ASSUME FormInv, UNCHANGED <<formKeys, choices>>, FormTypes',
         FileNameTellsText', ModelOfProvider(form'), PolicyOfRepo(form'),
         ProviderUsable', SentModelOfProvider', SentPolicyOfRepo', StalePolicyCleared'
  PROVE  FormInv'
<1>1. PoliciesAreOwn'
  BY DEF FormInv, PoliciesAreOwn
<1>2. ModelOfProvider(form)' /\ PolicyOfRepo(form)'
  BY DEF ModelOfProvider, PolicyOfRepo
<1> QED BY <1>1, <1>2 DEF FormInv, FormSendsWhatItShows

\* A step that leaves the choices and what was sent alone.
LEMMA ChoicesStay ==
  ASSUME FormInv, UNCHANGED <<formKeys, choices>>, FormTypes', FileNameTellsText',
         form'.provider = form.provider, form'.model = form.model, form'.repo = form.repo,
         form'.policy = form.policy, form'.lapsed = form.lapsed, form'.sent \subseteq form.sent
  PROVE  FormInv'
<1>1. ModelOfProvider(form') /\ PolicyOfRepo(form')
  BY DEF FormInv, ModelOfProvider, PolicyOfRepo
<1>2. ProviderUsable' /\ StalePolicyCleared'
  BY DEF FormInv, FormSendsWhatItShows, ProviderUsable, StalePolicyCleared, Usable
<1>3. SentModelOfProvider' /\ SentPolicyOfRepo'
  BY DEF FormInv, FormSendsWhatItShows, SentModelOfProvider, SentPolicyOfRepo
<1> QED BY <1>1, <1>2, <1>3, FormStepKeeps

\* A key typed, a clearing, and the deferred render.
LEMMA TextKept ==
  ASSUME FormInv, NEW text \in Texts, NEW k \in Nat,
         \/ form' = [form EXCEPT !.diff = text, !.file = NoText, !.steps = k]
         \/ form' = [form EXCEPT !.judged = text],
         UNCHANGED <<reading, formKeys, choices>>
  PROVE  FormInv'
<1>1. NoText \in Texts
  BY DEF Texts
<1>2. form' \in Forms
  BY <1>1 DEF FormInv, FormTypes, Forms
<1>3. FormTypes'
  BY <1>2 DEF FormInv, FormTypes
<1>4. /\ form'.provider = form.provider /\ form'.model = form.model /\ form'.repo = form.repo
      /\ form'.policy = form.policy /\ form'.lapsed = form.lapsed /\ form'.sent = form.sent
      /\ form'.file = NoText \/ (form'.file = form.file /\ form'.diff = form.diff)
  BY DEF FormInv, FormTypes, Forms
<1>5. FileNameTellsText'
  BY <1>4 DEF FormInv, FormSendsWhatItShows, FileNameTellsText
<1> QED BY <1>3, <1>4, <1>5, ChoicesStay

\* A read begins, or ends with a text that is named, if at all, for itself.
LEMMA ReadsKept ==
  ASSUME FormInv,
         \/ \E name \in DiffFiles : OpenFile(name)
         \/ \E text \in DiffTexts \cup {NoText} : ReadClipboard(text)
         \/ \E r \in reading : ReadEnds(r) \/ ReadFails(r)
  PROVE  FormInv'
<1>1. UNCHANGED <<formKeys, choices>>
  BY DEF OpenFile, ReadClipboard, ReadEnds, ReadFails
<1>2. reading' \in SUBSET [of : {"file", "clipboard"}, text : Texts]
  <2>1. DiffFiles \subseteq Texts /\ DiffTexts \cup {NoText} \subseteq Texts
    BY GenerateFormAssumption DEF Texts
  <2>2. reading \in SUBSET [of : {"file", "clipboard"}, text : Texts]
    BY DEF FormInv, FormTypes
  <2>3. ASSUME NEW name \in DiffFiles, OpenFile(name)
        PROVE  reading' \in SUBSET [of : {"file", "clipboard"}, text : Texts]
    BY <2>1, <2>2, <2>3 DEF OpenFile
  <2>4. ASSUME NEW text \in DiffTexts \cup {NoText}, ReadClipboard(text)
        PROVE  reading' \in SUBSET [of : {"file", "clipboard"}, text : Texts]
    BY <2>1, <2>2, <2>4 DEF ReadClipboard
  <2>5. ASSUME NEW r \in reading, ReadEnds(r) \/ ReadFails(r)
        PROVE  reading' \in SUBSET [of : {"file", "clipboard"}, text : Texts]
    BY <2>2, <2>5 DEF ReadEnds, ReadFails
  <2> QED BY <2>3, <2>4, <2>5
<1>3. PICK r \in [of : {"file", "clipboard"}, text : Texts], k \in Nat :
        \/ form' = [form EXCEPT !.steps = k]
        \/ form' = form
        \/ form' = [form EXCEPT !.diff = r.text, !.file = IF r.of = "file" THEN r.text ELSE NoText]
  <2>1. form.steps + 1 \in Nat /\ NoText \in Texts
    BY DEF FormInv, FormTypes, Forms, Texts
  <2>2. [of |-> "file", text |-> NoText] \in [of : {"file", "clipboard"}, text : Texts]
    BY <2>1
  <2>3. CASE \/ \E name \in DiffFiles : OpenFile(name)
             \/ \E text \in DiffTexts \cup {NoText} : ReadClipboard(text)
    <3>1. form' = [form EXCEPT !.steps = form.steps + 1]
      BY <2>3 DEF OpenFile, ReadClipboard, Counted
    <3> QED BY <2>1, <2>2, <3>1
  <2>4. CASE \E r \in reading : ReadEnds(r) \/ ReadFails(r)
    <3>1. PICK r \in reading : ReadEnds(r) \/ ReadFails(r)
      BY <2>4
    <3>2. r \in [of : {"file", "clipboard"}, text : Texts]
      BY DEF FormInv, FormTypes
    <3>3. \/ form' = form
          \/ form' = [form EXCEPT !.diff = r.text, !.file = IF r.of = "file" THEN r.text ELSE NoText]
      BY <3>1 DEF ReadEnds, ReadFails
    <3> QED BY <2>1, <3>2, <3>3
  <2> QED BY <2>3, <2>4
<1> DEFINE name == IF r.of = "file" THEN r.text ELSE NoText
<1>4. r.text \in Texts /\ name \in Texts /\ (name = NoText \/ name = r.text)
  BY DEF Texts
<1>5. \/ form' = [form EXCEPT !.steps = k]
      \/ form' = form
      \/ form' = [form EXCEPT !.diff = r.text, !.file = name]
  BY <1>3
<1> HIDE DEF name
<1>6. form' \in Forms
  BY <1>4, <1>5 DEF FormInv, FormTypes, Forms
<1>7. /\ form'.provider = form.provider /\ form'.model = form.model /\ form'.repo = form.repo
      /\ form'.policy = form.policy /\ form'.lapsed = form.lapsed /\ form'.sent = form.sent
      /\ \/ form'.file = form.file /\ form'.diff = form.diff
         \/ form'.file = name /\ form'.diff = r.text
  BY <1>5 DEF FormInv, FormTypes, Forms
<1>8. FormTypes'
  BY <1>1, <1>2, <1>6 DEF FormInv, FormTypes
<1>9. FileNameTellsText'
  BY <1>4, <1>7 DEF FormInv, FormSendsWhatItShows, FileNameTellsText
<1> QED BY <1>1, <1>7, <1>8, <1>9, ChoicesStay

\* The picks of WithProvider are usable and come with a model of theirs.
LEMMA WithProviderPicks ==
  ASSUME NEW f \in Forms, NEW keys \in [FormProviders -> {"ok", "unknown", "invalid", NoChoice}],
         NEW g \in WithProvider(f, keys)
  PROVE  /\ g \in Forms
         /\ g.diff = f.diff /\ g.file = f.file /\ g.repo = f.repo /\ g.policy = f.policy
         /\ g.lapsed = f.lapsed /\ g.sent = f.sent
         /\ \/ g.provider = f.provider /\ g.model = f.model
            \/ /\ f.provider = NoChoice /\ g.provider \in FormProviders
               /\ g.model \in ModelsOf(g.provider) /\ Usable(keys, g.provider)
<1>1. CASE g = f
  BY <1>1
<1>2. CASE g # f
  <2>1. f.provider = NoChoice /\ PickInitialProvider(keys) # {}
    BY <1>2 DEF WithProvider
  <2>2. PICK p \in PickInitialProvider(keys) :
          g = [f EXCEPT !.provider = p, !.model = DefaultModel(p)]
    BY <2>1 DEF WithProvider
  <2>3. p \in FormProviders /\ Usable(keys, p)
    BY DEF PickInitialProvider, Usable
  <2> DEFINE m == DefaultModel(p)
  <2>4. m \in ModelsOf(p)
    BY DEF DefaultModel, ModelsOf
  <2>5. m \in Models /\ p \in OrNone(FormProviders)
    BY <2>3, <2>4 DEF Models, OrNone
  <2>6. g = [f EXCEPT !.provider = p, !.model = m]
    BY <2>2
  <2> HIDE DEF m
  <2>7. g \in Forms
    BY <2>5, <2>6 DEF Forms
  <2>8. /\ g.diff = f.diff /\ g.file = f.file /\ g.repo = f.repo /\ g.policy = f.policy
        /\ g.lapsed = f.lapsed /\ g.sent = f.sent /\ g.provider = p /\ g.model = m
    BY <2>6 DEF Forms
  <2> QED BY <2>1, <2>3, <2>4, <2>7, <2>8
<1> QED BY <1>1, <1>2

\* The user chooses a provider or a model.
LEMMA ProviderKept ==
  ASSUME FormInv, NEW p \in FormProviders,
         ChooseProvider(p) \/ \E m \in ModelsOf(p) : ChooseModel(m)
  PROVE  FormInv'
<1>0. UNCHANGED <<reading, formKeys, choices>>
  BY DEF ChooseProvider, ChooseModel, FormBecomes
<1>1. PICK q \in FormProviders, m \in Models, b \in BOOLEAN :
        /\ m \in ModelsOf(q)
        /\ form' = [form EXCEPT !.provider = q, !.model = m, !.lapsed = b]
        /\ (q = form.provider /\ b = form.lapsed) \/ Usable(formKeys, q)
  <2>1. CASE ChooseProvider(p)
    <3>1. DefaultModel(p) \in ModelsOf(p) /\ DefaultModel(p) \in Models
      BY DEF DefaultModel, ModelsOf, Models
    <3>2. form' = [form EXCEPT !.provider = p, !.model = DefaultModel(p), !.lapsed = FALSE]
      BY <2>1 DEF ChooseProvider, FormBecomes
    <3>3. Usable(formKeys, p)
      BY <2>1 DEF ChooseProvider
    <3> QED BY <3>1, <3>2, <3>3
  <2>2. CASE \E m \in ModelsOf(p) : ChooseModel(m)
    <3>1. PICK m \in ModelsOf(p) : ChooseModel(m)
      BY <2>2
    <3>2. /\ form.provider # NoChoice /\ m \in ModelsOf(form.provider)
          /\ form' = [form EXCEPT !.model = m]
      BY <3>1 DEF ChooseModel, FormBecomes
    <3>3. form.provider \in FormProviders /\ form.lapsed \in BOOLEAN
      BY <3>2 DEF FormInv, FormTypes, Forms, OrNone
    <3>4. form' = [form EXCEPT !.provider = form.provider, !.model = m, !.lapsed = form.lapsed]
      BY <3>2 DEF FormInv, FormTypes, Forms
    <3>5. m \in Models
      BY <3>2, <3>3 DEF Models
    <3> QED BY <3>2, <3>3, <3>4, <3>5
  <2> QED BY <2>1, <2>2
<1>2. q \in OrNone(FormProviders) /\ m \in Models
  BY DEF OrNone
<1>3. form' \in Forms
  BY <1>1, <1>2 DEF FormInv, FormTypes, Forms
<1>4. FormTypes'
  BY <1>0, <1>3 DEF FormInv, FormTypes
<1>5. /\ form'.provider = q /\ form'.model = m /\ form'.lapsed = b
      /\ form'.diff = form.diff /\ form'.file = form.file /\ form'.repo = form.repo
      /\ form'.policy = form.policy /\ form'.sent = form.sent
  BY <1>1 DEF FormInv, FormTypes, Forms
<1>6. FileNameTellsText' /\ ModelOfProvider(form') /\ PolicyOfRepo(form')
  BY <1>1, <1>5 DEF FormInv, FormSendsWhatItShows, FileNameTellsText, ModelOfProvider, PolicyOfRepo
<1>7. ProviderUsable'
  BY <1>0, <1>1, <1>5 DEF FormInv, FormSendsWhatItShows, ProviderUsable, Usable
<1>8. SentModelOfProvider' /\ SentPolicyOfRepo' /\ StalePolicyCleared'
  BY <1>0, <1>5 DEF FormInv, FormSendsWhatItShows, SentModelOfProvider, SentPolicyOfRepo, StalePolicyCleared
<1> QED BY <1>0, <1>4, <1>6, <1>7, <1>8, FormStepKeeps

\* A refetch of the keys: who loses a usable key has lapsed, who gets a provider gets a
\* usable one.
LEMMA KeysKept ==
  ASSUME FormInv, NEW p \in FormProviders, NEW status \in {"ok", "unknown", "invalid", NoChoice},
         KeysRefetched(p, status)
  PROVE  FormInv'
<1> DEFINE keys == [formKeys EXCEPT ![p] = status]
           lapsed == form.lapsed \/ (form.provider = p /\ Usable(formKeys, p) /\ ~Usable(keys, p))
           f == Counted([form EXCEPT !.lapsed = lapsed])
<1>1. formKeys' = keys /\ form' \in WithProvider(f, keys) /\ UNCHANGED <<reading, choices>>
  BY DEF KeysRefetched
<1>2. keys \in [FormProviders -> {"ok", "unknown", "invalid", NoChoice}]
  BY DEF FormInv, FormTypes
<1>3. lapsed \in BOOLEAN
  BY DEF Usable, FormInv, FormTypes, Forms
<1>4. \A q \in FormProviders : q # p => keys[q] = formKeys[q]
  BY DEF FormInv, FormTypes
<1>5. form.provider # NoChoice /\ ~Usable(keys, form.provider) => lapsed
  <2> SUFFICES ASSUME form.provider # NoChoice, ~Usable(keys, form.provider)
               PROVE  lapsed
    OBVIOUS
  <2>0. form.provider \in FormProviders
    BY DEF FormInv, FormTypes, Forms, OrNone
  <2>1. CASE form.provider = p
    <3>1. CASE Usable(formKeys, p)
      BY <2>1, <3>1
    <3>2. CASE ~Usable(formKeys, p)
      BY <2>1, <3>2 DEF FormInv, FormSendsWhatItShows, ProviderUsable
    <3> QED BY <3>1, <3>2
  <2>2. CASE form.provider # p
    <3>1. ~Usable(formKeys, form.provider)
      BY <1>4, <2>0, <2>2 DEF Usable
    <3> QED BY <3>1 DEF FormInv, FormSendsWhatItShows, ProviderUsable
  <2> QED BY <2>1, <2>2
<1> HIDE DEF lapsed, keys
<1>6. /\ f \in Forms /\ f.lapsed = lapsed
      /\ f.diff = form.diff /\ f.file = form.file /\ f.repo = form.repo /\ f.policy = form.policy
      /\ f.sent = form.sent /\ f.provider = form.provider /\ f.model = form.model
  <2>1. form.steps + 1 \in Nat
    BY DEF FormInv, FormTypes, Forms
  <2> DEFINE k == form.steps + 1
  <2>2. f = [form EXCEPT !.lapsed = lapsed, !.steps = k]
    BY DEF Counted, FormInv, FormTypes, Forms
  <2>3. k \in Nat
    BY <2>1
  <2> HIDE DEF k, f
  <2> QED BY <1>3, <2>2, <2>3 DEF FormInv, FormTypes, Forms
<1> HIDE DEF f
<1>7. /\ form' \in Forms
      /\ form'.diff = form.diff /\ form'.file = form.file /\ form'.repo = form.repo
      /\ form'.policy = form.policy /\ form'.lapsed = lapsed /\ form'.sent = form.sent
      /\ \/ form'.provider = form.provider /\ form'.model = form.model
         \/ /\ form.provider = NoChoice /\ form'.provider \in FormProviders
            /\ form'.model \in ModelsOf(form'.provider) /\ Usable(keys, form'.provider)
  BY <1>1, <1>2, <1>6, WithProviderPicks
<1>8. FormTypes'
  BY <1>1, <1>2, <1>7 DEF FormInv, FormTypes
<1>9. PoliciesAreOwn'
  BY <1>1 DEF FormInv, PoliciesAreOwn
<1>10. ModelOfProvider(form)' /\ PolicyOfRepo(form)'
  BY <1>7 DEF FormInv, ModelOfProvider, PolicyOfRepo
<1>11. FileNameTellsText' /\ SentModelOfProvider' /\ SentPolicyOfRepo' /\ StalePolicyCleared'
  BY <1>1, <1>7 DEF FormInv, FormSendsWhatItShows, FileNameTellsText, SentModelOfProvider,
     SentPolicyOfRepo, StalePolicyCleared
<1>12. ProviderUsable'
  <2>1. CASE form'.provider = form.provider
    BY <1>1, <1>5, <1>7, <2>1 DEF ProviderUsable, Usable
  <2>2. CASE Usable(keys, form'.provider)
    BY <1>1, <2>2 DEF ProviderUsable, Usable
  <2> QED BY <1>7, <2>1, <2>2
<1> QED BY <1>8, <1>9, <1>10, <1>11, <1>12 DEF FormInv, FormSendsWhatItShows

\* Neither a policy nor a model need be chosen.
LEMMA NothingChosen == <<>> \in Policies /\ <<>> \in Models
BY DEF Policies, Models

\* A repository chosen anew has no policy chosen; a policy is chosen from its list.
LEMMA RepoKept ==
  ASSUME FormInv,
         \/ \E r \in FormRepos \cup {NoChoice} : ChooseRepo(r)
         \/ \E p \in {<<>>} \cup UNION {choices.listed[r].items : r \in FormRepos} : ChoosePolicy(p)
  PROVE  FormInv'
<1>0. UNCHANGED <<reading, formKeys, choices>>
  BY DEF ChooseRepo, ChoosePolicy, FormBecomes
<1>1. PICK r \in OrNone(FormRepos), p \in Policies :
        /\ form' = [form EXCEPT !.repo = r, !.policy = p]
        /\ p # <<>> => r \in FormRepos /\ r # NoChoice /\ p \in choices.listed[r].items
  <2>1. CASE \E r \in FormRepos \cup {NoChoice} : ChooseRepo(r)
    <3>1. PICK r \in FormRepos \cup {NoChoice} : ChooseRepo(r)
      BY <2>1
    <3>2. <<>> \in Policies /\ r \in OrNone(FormRepos)
      BY <3>1, NothingChosen DEF OrNone
    <3>3. form' = [form EXCEPT !.repo = r, !.policy = <<>>]
      BY <3>1 DEF ChooseRepo, FormBecomes
    <3> QED BY <3>2, <3>3
  <2>2. CASE \E p \in {<<>>} \cup UNION {choices.listed[r].items : r \in FormRepos} : ChoosePolicy(p)
    <3>1. PICK p : ChoosePolicy(p)
      BY <2>2
    <3>2. /\ form.repo # NoChoice /\ p \in choices.listed[form.repo].items \cup {<<>>}
          /\ form' = [form EXCEPT !.policy = p]
      BY <3>1 DEF ChoosePolicy, FormBecomes
    <3>3. form.repo \in FormRepos /\ form.repo \in OrNone(FormRepos)
      BY <3>2 DEF FormInv, FormTypes, Forms, OrNone
    <3>4. choices.listed[form.repo].items \subseteq Policies /\ <<>> \in Policies
      BY <3>3, NothingChosen DEF FormInv, FormTypes, Listing
    <3>5. form' = [form EXCEPT !.repo = form.repo, !.policy = p]
      BY <3>2 DEF FormInv, FormTypes, Forms
    <3> QED BY <3>2, <3>3, <3>4, <3>5
  <2> QED BY <2>1, <2>2
<1>2. form' \in Forms
  BY <1>1 DEF FormInv, FormTypes, Forms
<1>3. FormTypes'
  BY <1>0, <1>2 DEF FormInv, FormTypes
<1>4. /\ form'.repo = r /\ form'.policy = p
      /\ form'.diff = form.diff /\ form'.file = form.file /\ form'.provider = form.provider
      /\ form'.model = form.model /\ form'.lapsed = form.lapsed /\ form'.sent = form.sent
  BY <1>1 DEF FormInv, FormTypes, Forms
<1>5. FileNameTellsText' /\ ModelOfProvider(form')
  BY <1>4 DEF FormInv, FormSendsWhatItShows, FileNameTellsText, ModelOfProvider
<1>6. PolicyOfRepo(form')
  BY <1>1, <1>4 DEF FormInv, PoliciesAreOwn, PolicyOfRepo
<1>7. ProviderUsable' /\ SentModelOfProvider' /\ SentPolicyOfRepo'
  BY <1>0, <1>4 DEF FormInv, FormSendsWhatItShows, ProviderUsable, Usable, SentModelOfProvider,
     SentPolicyOfRepo
<1>8. StalePolicyCleared'
  BY <1>0, <1>1, <1>4 DEF StalePolicyCleared
<1> QED BY <1>0, <1>3, <1>5, <1>6, <1>7, <1>8, FormStepKeeps

\* A list comes: the effect after the render drops a policy that it lacks.
LEMMA PoliciesFetchedKept ==
  ASSUME FormInv, NEW ok \in BOOLEAN, PoliciesFetched(ok)
  PROVE  FormInv'
<1> DEFINE r == form.repo
           items == IF ok THEN choices.there[r] ELSE choices.listed[r].items
           entry == [ok |-> ok, items |-> items]
           listed == [choices.listed EXCEPT ![r] = entry]
<1>1. /\ r # NoChoice /\ choices' = [choices EXCEPT !.listed = listed]
      /\ form' = DroppedPolicy(Counted(form), listed) /\ UNCHANGED <<reading, formKeys>>
  BY DEF PoliciesFetched
<1>2. r \in FormRepos
  BY <1>1 DEF FormInv, FormTypes, Forms, OrNone
<1>3. items \in SUBSET Policies /\ items \subseteq PoliciesOf(r)
  BY <1>2 DEF FormInv, FormTypes, Listing, PoliciesAreOwn
<1> HIDE DEF items
<1>4. entry \in Listing /\ entry.items = items /\ entry.ok = ok
  BY <1>3 DEF Listing
<1> HIDE DEF entry
<1>5. /\ listed \in [FormRepos -> Listing] /\ listed[r] = entry
      /\ \A s \in FormRepos : s # r => listed[s] = choices.listed[s]
  BY <1>2, <1>4 DEF FormInv, FormTypes
<1> HIDE DEF listed
<1>6. /\ choices' \in [there : [FormRepos -> SUBSET Policies], listed : [FormRepos -> Listing]]
      /\ choices'.there = choices.there /\ choices'.listed = listed
  BY <1>1, <1>5 DEF FormInv, FormTypes
<1>7. PICK p \in {form.policy, <<>>} :
        /\ form' = [form EXCEPT !.steps = form.steps + 1, !.policy = p]
        /\ p # <<>> /\ listed[form.repo].ok => p \in listed[form.repo].items
  <2> DEFINE f == Counted(form)
  <2>1. /\ f.repo = form.repo /\ f.policy = form.policy
        /\ f = [form EXCEPT !.steps = form.steps + 1, !.policy = form.policy]
        /\ [f EXCEPT !.policy = <<>>] = [form EXCEPT !.steps = form.steps + 1, !.policy = <<>>]
    BY DEF Counted, FormInv, FormTypes, Forms
  <2>5. form' = DroppedPolicy(f, listed) /\ form.repo # NoChoice
    BY <1>1
  <2> HIDE DEF f
  <2>2. form' = IF listed[form.repo].ok /\ form.policy \notin listed[form.repo].items
                THEN [f EXCEPT !.policy = <<>>] ELSE f
    BY <2>1, <2>5 DEF DroppedPolicy
  <2>3. CASE listed[form.repo].ok /\ form.policy \notin listed[form.repo].items
    BY <2>1, <2>2, <2>3
  <2>4. CASE ~(listed[form.repo].ok /\ form.policy \notin listed[form.repo].items)
    BY <2>1, <2>2, <2>4
  <2> QED BY <2>3, <2>4
<1>8. form.steps + 1 \in Nat /\ p \in Policies
  BY NothingChosen DEF FormInv, FormTypes, Forms
<1>9. form' \in Forms
  BY <1>7, <1>8 DEF FormInv, FormTypes, Forms
<1>10. FormTypes'
  BY <1>1, <1>6, <1>9 DEF FormInv, FormTypes
<1>11. /\ form'.policy = p /\ form'.repo = form.repo
       /\ form'.diff = form.diff /\ form'.file = form.file /\ form'.provider = form.provider
       /\ form'.model = form.model /\ form'.lapsed = form.lapsed /\ form'.sent = form.sent
  BY <1>7 DEF FormInv, FormTypes, Forms
<1>12. PoliciesAreOwn'
  BY <1>2, <1>3, <1>4, <1>5, <1>6 DEF FormInv, PoliciesAreOwn, PoliciesOf
<1>13. ModelOfProvider(form)' /\ PolicyOfRepo(form)'
  BY <1>7, <1>11 DEF FormInv, ModelOfProvider, PolicyOfRepo
<1>14. FileNameTellsText' /\ SentModelOfProvider' /\ SentPolicyOfRepo' /\ ProviderUsable'
  BY <1>1, <1>11 DEF FormInv, FormSendsWhatItShows, FileNameTellsText, SentModelOfProvider,
     SentPolicyOfRepo, ProviderUsable, Usable
<1>15. StalePolicyCleared'
  BY <1>6, <1>7, <1>11 DEF StalePolicyCleared
<1> QED BY <1>10, <1>12, <1>13, <1>14, <1>15 DEF FormInv, FormSendsWhatItShows

\* A policy deleted elsewhere is not in the repository any more; the lists are as they were.
LEMMA PolicyGoneKept ==
  ASSUME FormInv, NEW r \in FormRepos, NEW p \in choices.there[r], PolicyGoesAway(r, p)
  PROVE  FormInv'
<1> DEFINE left == choices.there[r] \ {p}
           there == [choices.there EXCEPT ![r] = left]
<1>1. choices' = [choices EXCEPT !.there = there] /\ UNCHANGED <<form, reading, formKeys>>
  BY DEF PolicyGoesAway, FormInv, FormTypes
<1>2. left \in SUBSET Policies /\ left \subseteq choices.there[r]
  BY DEF FormInv, FormTypes
<1> HIDE DEF left
<1>3. there \in [FormRepos -> SUBSET Policies]
      /\ \A s \in FormRepos : there[s] \subseteq choices.there[s]
  BY <1>2 DEF FormInv, FormTypes
<1> HIDE DEF there
<1>4. /\ choices' \in [there : [FormRepos -> SUBSET Policies], listed : [FormRepos -> Listing]]
      /\ choices'.there = there /\ choices'.listed = choices.listed
  BY <1>1, <1>3 DEF FormInv, FormTypes
<1>5. FormTypes'
  BY <1>1, <1>4 DEF FormInv, FormTypes
<1>6. PoliciesAreOwn'
  BY <1>3, <1>4 DEF FormInv, PoliciesAreOwn, PoliciesOf
<1>7. FormSendsWhatItShows'
  BY <1>1, <1>4 DEF FormInv, FormSendsWhatItShows, FileNameTellsText, SentModelOfProvider,
     SentPolicyOfRepo, ProviderUsable, Usable, StalePolicyCleared
<1>8. ModelOfProvider(form)' /\ PolicyOfRepo(form)'
  BY <1>1 DEF FormInv, ModelOfProvider, PolicyOfRepo
<1> QED BY <1>5, <1>6, <1>7, <1>8 DEF FormInv

\* What is sent is what is chosen, and belongs together as that does.
LEMMA SubmitKept ==
  ASSUME FormInv, SubmitForm \/ StreamOver
  PROVE  FormInv'
<1> DEFINE body == [provider |-> form.provider, model |-> form.model,
                    repo |-> form.repo, policy |-> form.policy]
<1>0. UNCHANGED <<reading, formKeys, choices>>
  BY DEF SubmitForm, StreamOver, FormBecomes
<1>1. body \in Bodies
  BY DEF FormInv, FormTypes, Forms, Bodies
<1>2. PICK s \in {{}, {body}}, b \in BOOLEAN :
        /\ form' = [form EXCEPT !.streaming = b, !.sent = s]
        /\ s = {} \/ form.provider # NoChoice
  <2>1. CASE SubmitForm
    <3>1. form' = [form EXCEPT !.streaming = TRUE, !.sent = {body}] /\ form.provider # NoChoice
      BY <2>1 DEF SubmitForm, FormBecomes, CanSubmit
    <3> QED BY <3>1
  <2>2. CASE StreamOver
    <3>1. form' = [form EXCEPT !.streaming = FALSE, !.sent = {}]
      BY <2>2 DEF StreamOver, FormBecomes
    <3> QED BY <3>1
  <2> QED BY <2>1, <2>2
<1>3. s \in Sends
  BY <1>1 DEF Sends
<1>4. form' \in Forms
  BY <1>2, <1>3 DEF FormInv, FormTypes, Forms
<1>5. FormTypes'
  BY <1>0, <1>4 DEF FormInv, FormTypes
<1>6. /\ form'.sent = s
      /\ form'.diff = form.diff /\ form'.file = form.file /\ form'.provider = form.provider
      /\ form'.model = form.model /\ form'.lapsed = form.lapsed
      /\ form'.repo = form.repo /\ form'.policy = form.policy
  BY <1>2 DEF FormInv, FormTypes, Forms
<1>7. FileNameTellsText' /\ ModelOfProvider(form') /\ PolicyOfRepo(form')
  BY <1>6 DEF FormInv, FormSendsWhatItShows, FileNameTellsText, ModelOfProvider, PolicyOfRepo
<1>8. ProviderUsable' /\ StalePolicyCleared'
  BY <1>0, <1>6 DEF FormInv, FormSendsWhatItShows, ProviderUsable, Usable, StalePolicyCleared
<1>9. SentModelOfProvider' /\ SentPolicyOfRepo'
  <2>1. \A t \in s : t = body /\ form.provider # NoChoice
    BY <1>2
  <2>2. \A t \in s : t.model \in ModelsOf(t.provider)
    BY <2>1 DEF FormInv, ModelOfProvider
  <2>3. \A t \in s : t.policy # <<>> => t.repo # NoChoice /\ t.policy \in PoliciesOf(t.repo)
    BY <2>1 DEF FormInv, PolicyOfRepo
  <2> QED BY <1>6, <2>2, <2>3 DEF SentModelOfProvider, SentPolicyOfRepo
<1> QED BY <1>0, <1>5, <1>7, <1>8, <1>9, FormStepKeeps

\* Every step of the form keeps its invariant.
LEMMA FormKept ==
  ASSUME FormInv, GenerateFormNext
  PROVE  FormInv'
<1>0. form.steps \in Nat /\ form.steps + 1 \in Nat /\ NoText \in Texts /\ form.diff \in Texts
      /\ form \in Forms
  BY DEF FormInv, FormTypes, Forms, Texts
<1>1. ASSUME NEW text \in DiffTexts, TypeDiff(text)
      PROVE  FormInv'
  <2>1. form' = [form EXCEPT !.diff = text, !.file = NoText, !.steps = form.steps + 1]
        /\ UNCHANGED <<reading, formKeys, choices>>
    BY <1>0, <1>1 DEF TypeDiff, FormBecomes, Edited, Counted, Forms
  <2>2. text \in Texts
    BY DEF Texts
  <2> QED BY <1>0, <2>1, <2>2, TextKept
<1>2. ASSUME ClearDiff
      PROVE  FormInv'
  <2>1. form' = [form EXCEPT !.diff = NoText, !.file = NoText, !.steps = form.steps]
        /\ UNCHANGED <<reading, formKeys, choices>>
    BY <1>0, <1>2 DEF ClearDiff, FormBecomes, Edited, Forms
  <2> QED BY <1>0, <2>1, TextKept
<1>3. ASSUME DeferredRender
      PROVE  FormInv'
  <2>1. form' = [form EXCEPT !.judged = form.diff] /\ UNCHANGED <<reading, formKeys, choices>>
    BY <1>3 DEF DeferredRender, FormBecomes
  <2> QED BY <1>0, <2>1, TextKept
<1>4. CASE \/ \E name \in DiffFiles : OpenFile(name)
           \/ \E text \in DiffTexts \cup {NoText} : ReadClipboard(text)
           \/ \E r \in reading : ReadEnds(r) \/ ReadFails(r)
  BY <1>4, ReadsKept
<1>5. ASSUME NEW p \in FormProviders, ChooseProvider(p) \/ \E m \in ModelsOf(p) : ChooseModel(m)
      PROVE  FormInv'
  BY <1>5, ProviderKept
<1>6. ASSUME NEW p \in FormProviders, NEW status \in {"ok", "unknown", "invalid", NoChoice},
             KeysRefetched(p, status)
      PROVE  FormInv'
  BY <1>6, KeysKept
<1>7. CASE \/ \E r \in FormRepos \cup {NoChoice} : ChooseRepo(r)
           \/ \E p \in {<<>>} \cup UNION {choices.listed[r].items : r \in FormRepos} : ChoosePolicy(p)
  BY <1>7, RepoKept
<1>8. ASSUME NEW ok \in BOOLEAN, PoliciesFetched(ok)
      PROVE  FormInv'
  BY <1>8, PoliciesFetchedKept
<1>9. ASSUME NEW r \in FormRepos, NEW p \in choices.there[r], PolicyGoesAway(r, p)
      PROVE  FormInv'
  BY <1>9, PolicyGoneKept
<1>10. CASE SubmitForm \/ StreamOver
  BY <1>10, SubmitKept
<1> QED
  BY <1>1, <1>2, <1>3, <1>4, <1>5, <1>6, <1>7, <1>8, <1>9, <1>10 DEF GenerateFormNext

\* The empty form, or the dashboard's diff with a provider picked.
LEMMA FormStarts ==
  ASSUME GenerateFormInit
  PROVE  FormInv
<1>1. PICK quick \in Texts : form \in WithProvider([EmptyForm EXCEPT !.diff = quick], formKeys)
  BY DEF GenerateFormInit, Texts
<1> DEFINE f == [EmptyForm EXCEPT !.diff = quick]
<1>2. formKeys \in [FormProviders -> {"ok", "unknown", "invalid", NoChoice}] /\ reading = {}
  BY DEF GenerateFormInit
<1>3. NoText \in Texts /\ NoChoice \in OrNone(FormProviders) /\ NoChoice \in OrNone(FormRepos)
  BY DEF Texts, OrNone
<1>15. form \in WithProvider(f, formKeys)
  BY <1>1
<1> HIDE DEF f
<1>4. /\ EmptyForm \in Forms
      /\ EmptyForm.file = NoText /\ EmptyForm.provider = NoChoice /\ EmptyForm.policy = <<>>
      /\ EmptyForm.sent = {}
  <2>1. {} \in Sends
    BY DEF Sends
  <2> QED BY <1>3, <2>1, NothingChosen DEF Forms, EmptyForm
<1>5. /\ f \in Forms
      /\ f.file = NoText /\ f.provider = NoChoice /\ f.policy = <<>> /\ f.sent = {}
  <2>1. f = [EmptyForm EXCEPT !.diff = quick]
    BY DEF f
  <2> QED BY <1>4, <2>1 DEF Forms
<1>6. /\ form \in Forms
      /\ form.file = NoText /\ form.policy = <<>> /\ form.sent = {}
      /\ \/ form.provider = NoChoice
         \/ form.model \in ModelsOf(form.provider) /\ Usable(formKeys, form.provider)
  BY <1>2, <1>5, <1>15, WithProviderPicks
<1>7. choices = [there |-> [r \in FormRepos |-> PoliciesOf(r)],
                 listed |-> [r \in FormRepos |-> Unlisted]]
  BY DEF GenerateFormInit
<1>8. \A r \in FormRepos : PoliciesOf(r) \in SUBSET Policies
  BY DEF Policies
<1>9. Unlisted \in Listing /\ Unlisted.items = {}
  BY DEF Unlisted, Listing
<1>10. choices \in [there : [FormRepos -> SUBSET Policies], listed : [FormRepos -> Listing]]
  BY <1>7, <1>8, <1>9
<1>11. FormTypes
  BY <1>2, <1>6, <1>10 DEF FormTypes
<1>12. PoliciesAreOwn
  BY <1>7, <1>9 DEF PoliciesAreOwn
<1>13. ModelOfProvider(form) /\ PolicyOfRepo(form)
  BY <1>6 DEF ModelOfProvider, PolicyOfRepo
<1>14. FormSendsWhatItShows
  BY <1>6 DEF FormSendsWhatItShows, FileNameTellsText, ProviderUsable, SentModelOfProvider,
     SentPolicyOfRepo, StalePolicyCleared
<1> QED BY <1>11, <1>12, <1>13, <1>14 DEF FormInv

\* generate-view.tsx 96-166, policy-picker.tsx 45-56: whatever is read, chosen, fetched and
\* deleted in between, what is sent belongs together, for any providers and repositories.
THEOREM FormSends == Spec => []FormSendsWhatItShows
<1>1. Init => FormInv
  BY FormStarts DEF Init
<1>2. FormInv /\ [Next]_vars => FormInv'
  <2> SUFFICES ASSUME FormInv, [Next]_vars
               PROVE  FormInv'
    OBVIOUS
  <2>1. GenerateFormNext \/ UNCHANGED formVars
    BY DEF Next, vars, ReposPagePage, RepoFiltersPage, PolicyEditorPage, PolicyListPage,
       DefaultPolicyPage, ValidatePanelPage, GenerateFormPage, DiffReadersPage,
       DiffBudgetPage, SplitDocsPage, DiffViewerPage, CliConfigPage
  <2>2. CASE UNCHANGED formVars
    <3>1. FormTypes' /\ PoliciesAreOwn' /\ ModelOfProvider(form)' /\ PolicyOfRepo(form)'
      BY <2>2 DEF formVars, FormInv, FormTypes, PoliciesAreOwn, ModelOfProvider, PolicyOfRepo
    <3>2. FormSendsWhatItShows'
      BY <2>2 DEF formVars, FormInv, FormSendsWhatItShows, FileNameTellsText, SentModelOfProvider,
         SentPolicyOfRepo, ProviderUsable, Usable, StalePolicyCleared
    <3> QED BY <3>1, <3>2 DEF FormInv
  <2> QED BY <2>1, <2>2, FormKept
<1>3. FormInv => FormSendsWhatItShows
  BY DEF FormInv
<1> QED BY <1>1, <1>2, <1>3, PTL DEF Spec

(***************************************************************************)
(* The repositories page and the policy list.                              *)
(***************************************************************************)
RepoEntries == [repo : GithubIds, stub : BOOLEAN]
ListStages == {"none", "sent", "back"}
QueriesOf(S) == [data : SUBSET S, error : BOOLEAN, fetch : [at : ListStages, body : SUBSET S]]
RepoCallRecords ==
  [op : {"none", "connect", "disconnect"}, at : {"idle", "find", "write", "answer"},
   repo : GithubIds \cup {NoRepo}, ok : BOOLEAN, waiting : BOOLEAN, early : BOOLEAN,
   prevGithub : SUBSET GithubIds, prevConnected : SUBSET RepoEntries]
RepoPageRecords ==
  [github : QueriesOf(GithubIds), connected : QueriesOf(RepoEntries), asked : GithubIds \cup {NoRepo},
   latest : [connect : Nat, disconnect : Nat], faults : Nat]

RepoTypes ==
  /\ connectedRow \in SUBSET GithubIds /\ repoCall \in [RepoCalls -> RepoCallRecords]
  /\ repoPage \in RepoPageRecords

\* A call that may still change a row is waited for, or was given up early.
RepoPhase(call) ==
  /\ call.op = "none" <=> call.at = "idle"
  /\ call.op = "none" => ~call.waiting /\ ~call.early
  /\ call.op # "none" => call.repo \in GithubIds
  /\ call.at # "answer" => ~call.ok
  /\ call.at \in {"find", "write"} => call.waiting \/ call.early
RepoPhases == \A c \in RepoCalls : RepoPhase(repoCall[c])

\* What is read is what there is while no call is open; a row that is read is no stub.
ReadsAre(query, rows) ==
  /\ query.fetch.at = "back" => query.fetch.body = rows
  /\ query.fetch.at = "none" /\ ~query.error => query.data = rows
ReposFollow ==
  RepoCallsOver =>
    ReadsAre(repoPage.github, connectedRow) /\ ReadsAre(repoPage.connected, Reals(connectedRow))
RealsAreRead == \A e \in repoPage.connected.fetch.body : ~e.stub

ReposInv == RepoTypes /\ RepoPhases /\ ReposFollow /\ RealsAreRead /\ StubOrRow

Items == [id : PolicyIds, active : BOOLEAN]
PolicyRowSets == [ids : SUBSET PolicyIds, active : PolicyIds \cup {Nobody}, given : SUBSET PolicyIds]
ListCallRecords ==
  [op : {"none", "create", "activate", "delete"}, at : {"idle", "work", "answer"},
   id : PolicyIds \cup {Nobody}, ok : BOOLEAN, waiting : BOOLEAN, prev : SUBSET Items]
PolicyPageRecords ==
  [query : QueriesOf(Items), deleting : SUBSET PolicyIds, create : BOOLEAN, name : BOOLEAN,
   submitting : BOOLEAN, latest : [activate : Nat, delete : Nat], away : BOOLEAN, faults : Nat,
   early : BOOLEAN]

PolicyListTypes ==
  /\ policyRows \in PolicyRowSets /\ listCall \in [ListCalls -> ListCallRecords]
  /\ policyPage \in PolicyPageRecords

\* A call that is waited for has an operation, one that works is waited for or was given up.
ListPhases == \A c \in ListCalls : listCall[c].op = "none" => listCall[c].at = "idle" /\ ~listCall[c].waiting

ListCallsOver == \A c \in ListCalls : ~listCall[c].waiting /\ listCall[c].at # "work"

PolicyListFollows ==
  ListCallsOver /\ ~policyPage.early => ReadsAre(policyPage.query, PolicyItems(policyRows))

\* Of what is shown, read or remembered at most one is active.
OneActive(items) == \A i, j \in items : i.active /\ j.active => i = j
OneIsActive ==
  /\ OneActive(policyPage.query.data) /\ OneActive(policyPage.query.fetch.body)
  /\ \A c \in ListCalls : OneActive(listCall[c].prev)

PolicyListInv ==
  PolicyListTypes /\ ListPhases /\ PolicyListFollows /\ OneIsActive /\ SubmittingEnds

\* The queries at rest and on their way.
LEMMA FetchStages ==
  ASSUME NEW S
  PROVE  /\ NoFetch \in [at : ListStages, body : SUBSET S] /\ NoFetch.at = "none" /\ NoFetch.body = {}
         /\ Sent \in [at : ListStages, body : SUBSET S] /\ Sent.at = "sent" /\ Sent.body = {}
BY DEF NoFetch, Sent, ListStages

\* An answer is read.
LEMMA QueryReads ==
  ASSUME NEW S, NEW q \in QueriesOf(S), NEW rows \in SUBSET S
  PROVE  /\ Reads(q, rows) \in QueriesOf(S) /\ Reads(q, rows).data = q.data
         /\ Reads(q, rows).fetch = [at |-> "back", body |-> rows]
<1> DEFINE f == [at |-> "back", body |-> rows]
<1>1. f \in [at : ListStages, body : SUBSET S]
  BY DEF ListStages
<1>2. Reads(q, rows) = [q EXCEPT !.fetch = f]
  BY DEF Reads
<1> HIDE DEF f
<1>3. Reads(q, rows) \in QueriesOf(S) /\ Reads(q, rows).data = q.data /\ Reads(q, rows).fetch = f
  BY <1>1, <1>2 DEF QueriesOf
<1> QED BY <1>3 DEF f

\* What the other operations of React Query make of a query.
LEMMA QuerySteps ==
  ASSUME NEW S, NEW q \in QueriesOf(S), NEW rows \in SUBSET S
  PROVE  /\ Succeeds(q) \in QueriesOf(S) /\ Succeeds(q).data = q.fetch.body
         /\ Succeeds(q).fetch = NoFetch
         /\ Fails(q) \in QueriesOf(S) /\ Fails(q).data = q.data /\ Fails(q).error
         /\ Fails(q).fetch = NoFetch
         /\ InvalidateQueries(q) \in QueriesOf(S) /\ InvalidateQueries(q).data = q.data
         /\ InvalidateQueries(q).fetch = Sent
         /\ CancelQueries(q) \in QueriesOf(S) /\ CancelQueries(q).data = q.data
         /\ CancelQueries(q).fetch = NoFetch
         /\ SetQueryData(q, rows) \in QueriesOf(S) /\ SetQueryData(q, rows).data = rows
         /\ SetQueryData(q, rows).fetch = q.fetch
<1>1. Succeeds(q) \in QueriesOf(S) /\ Succeeds(q).data = q.fetch.body /\ Succeeds(q).fetch = NoFetch
  BY FetchStages DEF Succeeds, QueriesOf
<1>2. /\ Fails(q) \in QueriesOf(S) /\ Fails(q).data = q.data /\ Fails(q).error
      /\ Fails(q).fetch = NoFetch
  BY FetchStages DEF Fails, QueriesOf
<1>3. InvalidateQueries(q) \in QueriesOf(S) /\ InvalidateQueries(q).data = q.data
      /\ InvalidateQueries(q).fetch = Sent
  BY FetchStages DEF InvalidateQueries, QueriesOf
<1>4. CancelQueries(q) \in QueriesOf(S) /\ CancelQueries(q).data = q.data
      /\ CancelQueries(q).fetch = NoFetch
  BY FetchStages DEF CancelQueries, QueriesOf
<1>5. SetQueryData(q, rows) \in QueriesOf(S) /\ SetQueryData(q, rows).data = rows
      /\ SetQueryData(q, rows).fetch = q.fetch
  BY DEF SetQueryData, QueriesOf
<1> QED BY <1>1, <1>2, <1>3, <1>4, <1>5

\* Only the page moves: the rows and the calls stay.
LEMMA PolicyPageMoves ==
  ASSUME PolicyListInv, UNCHANGED <<policyRows, listCall>>, policyPage' \in PolicyPageRecords,
         OneActive(policyPage'.query.data), OneActive(policyPage'.query.fetch.body),
         PolicyListFollows', policyPage'.submitting => policyPage.submitting
  PROVE  PolicyListInv'
<1>1. PolicyListTypes' /\ ListPhases'
  BY DEF PolicyListInv, PolicyListTypes, ListPhases
<1>2. OneIsActive'
  BY DEF PolicyListInv, OneIsActive, OneActive
<1>3. SubmittingEnds'
  BY DEF PolicyListInv, SubmittingEnds
<1> QED BY <1>1, <1>2, <1>3 DEF PolicyListInv

\* A call moves on, and the page and the rows with it.
LEMMA ListCallMoves ==
  ASSUME PolicyListInv, NEW c \in ListCalls, NEW new \in ListCallRecords,
         listCall' = [listCall EXCEPT ![c] = new], new.op # "none", OneActive(new.prev),
         policyRows' \in PolicyRowSets, policyPage' \in PolicyPageRecords,
         OneActive(policyPage'.query.data), OneActive(policyPage'.query.fetch.body),
         PolicyListFollows',
         policyPage'.submitting =>
           \/ new.op = "create" /\ new.waiting
           \/ policyPage.submitting /\ ~(listCall[c].op = "create" /\ listCall[c].waiting)
  PROVE  PolicyListInv'
<1>1. /\ listCall' \in [ListCalls -> ListCallRecords] /\ listCall'[c] = new
      /\ \A d \in ListCalls : d # c => listCall'[d] = listCall[d]
  BY DEF PolicyListInv, PolicyListTypes
<1>2. PolicyListTypes' /\ ListPhases'
  BY <1>1 DEF PolicyListInv, PolicyListTypes, ListPhases
<1>3. OneIsActive'
  BY <1>1 DEF PolicyListInv, OneIsActive, OneActive
<1>4. SubmittingEnds'
  BY <1>1 DEF PolicyListInv, SubmittingEnds
<1> QED BY <1>2, <1>3, <1>4 DEF PolicyListInv

\* What the table holds has one active row at most.
LEMMA RowsHaveOneActive ==
  ASSUME PolicyListTypes
  PROVE  PolicyItems(policyRows) \in SUBSET Items /\ OneActive(PolicyItems(policyRows))
<1> DEFINE on == policyRows.active
<1>1. \A id \in PolicyIds : Item(id, id = on) \in Items /\ Item(id, id = on).id = id
                           /\ (Item(id, id = on).active => id = on)
  BY DEF Item, Items
<1>2. policyRows.ids \in SUBSET PolicyIds
  BY DEF PolicyListTypes, PolicyRowSets
<1>3. PolicyItems(policyRows) = {Item(id, id = on) : id \in policyRows.ids}
  BY DEF PolicyItems
<1>4. PolicyItems(policyRows) \in SUBSET Items
  BY <1>1, <1>2, <1>3
<1>5. OneActive(PolicyItems(policyRows))
  BY <1>1, <1>2, <1>3 DEF OneActive
<1> QED BY <1>4, <1>5

\* What an activation and a deletion make of the list before the API has answered.
LEMMA ChangedItems ==
  ASSUME NEW S \in SUBSET Items, OneActive(S), NEW id \in PolicyIds
  PROVE  /\ ShownActive(S, id) \in SUBSET Items /\ OneActive(ShownActive(S, id))
         /\ {i \in S : i.id # id} \in SUBSET Items /\ OneActive({i \in S : i.id # id})
<1>1. ShownActive(S, id) \in SUBSET Items
  <2>1. \A i \in S : Item(i.id, i.id = id) \in Items
    BY DEF Item, Items
  <2>2. ShownActive(S, id) = {Item(i.id, i.id = id) : i \in S}
    BY DEF ShownActive
  <2> QED BY <2>1, <2>2
<1>2. OneActive(ShownActive(S, id))
  BY DEF ShownActive, Item, Items, OneActive
<1>3. {i \in S : i.id # id} \in SUBSET Items /\ OneActive({i \in S : i.id # id})
  BY DEF OneActive
<1> QED BY <1>1, <1>2, <1>3

\* The dialogs: none begins a call.
LEMMA ListDialogsKeep ==
  ASSUME PolicyListInv,
         CancelDeleteRow \/ OpenCreate \/ TypePolicyName \/ CloseCreate \/ \E id \in PolicyIds : AskDeleteRow(id)
  PROVE  PolicyListInv'
<1>1. policyPage \in PolicyPageRecords
  BY DEF PolicyListInv, PolicyListTypes
<1>2. UNCHANGED <<policyRows, listCall>>
  BY DEF CancelDeleteRow, OpenCreate, TypePolicyName, CloseCreate, AskDeleteRow
<1>3. PICK d \in SUBSET PolicyIds, create \in BOOLEAN, name \in BOOLEAN, s \in BOOLEAN :
        /\ policyPage' = [policyPage EXCEPT !.deleting = d, !.create = create, !.name = name,
                                            !.submitting = s]
        /\ s => policyPage.submitting
  <2>1. /\ policyPage.deleting \in SUBSET PolicyIds /\ policyPage.create \in BOOLEAN
        /\ policyPage.name \in BOOLEAN /\ policyPage.submitting \in BOOLEAN
    BY <1>1 DEF PolicyPageRecords
  <2>2. CASE CancelDeleteRow
    <3>1. policyPage' = [policyPage EXCEPT !.deleting = {}, !.create = policyPage.create,
                           !.name = policyPage.name, !.submitting = policyPage.submitting]
      BY <1>1, <2>2 DEF CancelDeleteRow, PolicyPageRecords
    <3> QED BY <2>1, <3>1
  <2>3. CASE OpenCreate
    <3>1. policyPage' = [policyPage EXCEPT !.deleting = policyPage.deleting, !.create = TRUE,
                           !.name = policyPage.name, !.submitting = policyPage.submitting]
      BY <1>1, <2>3 DEF OpenCreate, PolicyPageRecords
    <3> QED BY <2>1, <3>1
  <2>4. CASE TypePolicyName
    <3>1. policyPage' = [policyPage EXCEPT !.deleting = policyPage.deleting, !.create = policyPage.create,
                           !.name = TRUE, !.submitting = policyPage.submitting]
      BY <1>1, <2>4 DEF TypePolicyName, PolicyPageRecords
    <3> QED BY <2>1, <3>1
  <2>5. CASE CloseCreate
    <3>1. policyPage' = [policyPage EXCEPT !.deleting = policyPage.deleting, !.create = FALSE,
                           !.name = FALSE, !.submitting = FALSE]
      BY <1>1, <2>5 DEF CloseCreate, ResetCreate, PolicyPageRecords
    <3> QED BY <2>1, <3>1
  <2>6. CASE \E id \in PolicyIds : AskDeleteRow(id)
    <3>1. PICK id \in PolicyIds : policyPage' = [policyPage EXCEPT !.deleting = {id}]
      BY <2>6 DEF AskDeleteRow
    <3>2. policyPage' = [policyPage EXCEPT !.deleting = {id}, !.create = policyPage.create,
                           !.name = policyPage.name, !.submitting = policyPage.submitting]
      BY <1>1, <3>1 DEF PolicyPageRecords
    <3>3. {id} \in SUBSET PolicyIds
      OBVIOUS
    <3> QED BY <2>1, <3>2, <3>3
  <2> QED BY <2>2, <2>3, <2>4, <2>5, <2>6
<1>4. /\ policyPage' \in PolicyPageRecords /\ policyPage'.query = policyPage.query
      /\ policyPage'.submitting = s /\ policyPage'.early = policyPage.early
  BY <1>1, <1>3 DEF PolicyPageRecords
<1>5. PolicyListFollows'
  BY <1>2, <1>4 DEF PolicyListInv, PolicyListFollows, ListCallsOver, ReadsAre, PolicyItems
<1>6. OneActive(policyPage'.query.data) /\ OneActive(policyPage'.query.fetch.body)
  BY <1>4 DEF PolicyListInv, OneIsActive
<1> QED BY <1>2, <1>3, <1>4, <1>5, <1>6, PolicyPageMoves

\* The list is read, answered, failed, asked for again, and opened again.
LEMMA PolicyReadsKeep ==
  ASSUME PolicyListInv,
         PolicyListRead \/ PolicyListAnswered \/ PolicyListFailed \/ PolicyListRetry \/ BackToList
  PROVE  PolicyListInv'
<1> DEFINE q == policyPage.query
           rows == PolicyItems(policyRows)
<1>1. /\ policyPage \in PolicyPageRecords /\ q \in QueriesOf(Items)
      /\ q.fetch \in [at : ListStages, body : SUBSET Items] /\ policyPage.faults \in Nat
      /\ policyPage.faults + 1 \in Nat /\ policyPage.early \in BOOLEAN
      /\ q.data \in SUBSET Items /\ q.fetch.body \in SUBSET Items
      /\ OneActive(q.data) /\ OneActive(q.fetch.body)
  BY DEF PolicyListInv, PolicyListTypes, PolicyPageRecords, QueriesOf, OneIsActive
<1>2. UNCHANGED <<policyRows, listCall>> /\ rows' = rows
  BY DEF PolicyListRead, PolicyListAnswered, PolicyListFailed, PolicyListRetry, BackToList, PolicyItems
<1>3. rows \in SUBSET Items /\ OneActive(rows)
  BY RowsHaveOneActive DEF PolicyListInv
<1> HIDE DEF rows
<1>4. ASSUME NEW new \in QueriesOf(Items), OneActive(new.data), OneActive(new.fetch.body),
             policyPage' \in PolicyPageRecords, policyPage'.query = new,
             policyPage'.submitting = policyPage.submitting,
             ListCallsOver /\ ~policyPage'.early => ReadsAre(new, rows)
      PROVE  PolicyListInv'
  <2>1. PolicyListFollows'
    BY <1>2, <1>4 DEF PolicyListFollows, ListCallsOver, ReadsAre, rows
  <2> QED BY <1>2, <1>4, <2>1, PolicyPageMoves
<1>5. ListCallsOver /\ ~policyPage.early => ReadsAre(q, rows)
  BY DEF PolicyListInv, PolicyListFollows, rows
<1>6. OneActive({})
  BY DEF OneActive
<1>7. CASE PolicyListRead
  <2> DEFINE f == [at |-> "back", body |-> rows]
             new == [q EXCEPT !.fetch = f]
  <2>1. policyPage' = [policyPage EXCEPT !.query = new, !.early = FALSE]
    BY <1>7 DEF PolicyListRead, Reads, rows
  <2>2. f \in [at : ListStages, body : SUBSET Items] /\ f.at = "back" /\ f.body = rows
    BY <1>3 DEF ListStages
  <2> HIDE DEF f
  <2>3. new \in QueriesOf(Items) /\ new.fetch = f /\ new.data = q.data
    BY <1>1, <2>2 DEF QueriesOf
  <2> HIDE DEF new
  <2>4. /\ policyPage' \in PolicyPageRecords /\ policyPage'.query = new
        /\ policyPage'.submitting = policyPage.submitting
    BY <1>1, <2>1, <2>3 DEF PolicyPageRecords
  <2>5. ReadsAre(new, rows)
    BY <2>2, <2>3 DEF ReadsAre
  <2> QED BY <1>1, <1>3, <1>4, <2>2, <2>3, <2>4, <2>5
<1>8. CASE PolicyListAnswered
  <2> DEFINE new == [data |-> q.fetch.body, error |-> FALSE, fetch |-> NoFetch]
  <2>1. policyPage' = [policyPage EXCEPT !.query = new] /\ q.fetch.at = "back"
    BY <1>8 DEF PolicyListAnswered, Succeeds
  <2>2. new \in QueriesOf(Items) /\ new.fetch = NoFetch /\ new.data = q.fetch.body
    BY <1>1, FetchStages DEF QueriesOf
  <2> HIDE DEF new
  <2>3. /\ policyPage' \in PolicyPageRecords /\ policyPage'.query = new
        /\ policyPage'.submitting = policyPage.submitting /\ policyPage'.early = policyPage.early
    BY <1>1, <2>1, <2>2 DEF PolicyPageRecords
  <2>4. ListCallsOver /\ ~policyPage.early => ReadsAre(new, rows)
    BY <1>5, <2>1, <2>2, FetchStages DEF ReadsAre
  <2> QED BY <1>1, <1>4, <1>6, <2>2, <2>3, <2>4, FetchStages
<1>9. CASE PolicyListFailed
  <2> DEFINE new == [q EXCEPT !.error = TRUE, !.fetch = NoFetch]
             n == policyPage.faults + 1
  <2>1. policyPage' = [policyPage EXCEPT !.query = new, !.faults = n]
    BY <1>9 DEF PolicyListFailed, Fails
  <2>2. new \in QueriesOf(Items) /\ new.fetch = NoFetch /\ new.data = q.data /\ new.error
    BY <1>1, FetchStages DEF QueriesOf
  <2>0. n \in Nat
    BY <1>1
  <2> HIDE DEF new, n
  <2>3. /\ policyPage' \in PolicyPageRecords /\ policyPage'.query = new
        /\ policyPage'.submitting = policyPage.submitting
    BY <1>1, <2>0, <2>1, <2>2 DEF PolicyPageRecords
  <2>4. ReadsAre(new, rows)
    BY <2>2, FetchStages DEF ReadsAre
  <2> QED BY <1>1, <1>4, <1>6, <2>2, <2>3, <2>4, FetchStages
<1>10. CASE PolicyListRetry \/ BackToList
  <2> DEFINE new == [q EXCEPT !.fetch = Sent]
  <2>2. new \in QueriesOf(Items) /\ new.fetch = Sent /\ new.data = q.data
    BY <1>1, FetchStages DEF QueriesOf
  <2>3. /\ policyPage' \in PolicyPageRecords /\ policyPage'.query = new
        /\ policyPage'.submitting = policyPage.submitting
    <3>1. CASE PolicyListRetry
      <4>1. policyPage' = [policyPage EXCEPT !.query = new]
        BY <3>1 DEF PolicyListRetry, InvalidateQueries
      <4> HIDE DEF new
      <4> QED BY <1>1, <2>2, <4>1 DEF PolicyPageRecords
    <3>2. CASE BackToList
      <4>1. policyPage' = [policyPage EXCEPT !.away = FALSE, !.latest = [activate |-> 0, delete |-> 0],
                                             !.query = new]
        BY <3>2 DEF BackToList, InvalidateQueries
      <4> HIDE DEF new
      <4> QED BY <1>1, <2>2, <4>1 DEF PolicyPageRecords
    <3> QED BY <1>10, <3>1, <3>2
  <2> HIDE DEF new
  <2>4. ReadsAre(new, rows)
    BY <2>2, FetchStages DEF ReadsAre
  <2> QED BY <1>1, <1>4, <1>6, <2>2, <2>3, <2>4, FetchStages
<1> QED BY <1>7, <1>8, <1>9, <1>10

\* A click begins a call with what the list shows: only now is a list changed by hand.
LEMMA ListClicksKeep ==
  ASSUME PolicyListInv, NEW c \in ListCalls,
         \/ SubmitCreate(c)
         \/ \E id \in PolicyIds : ActivateFromList(c, id) \/ ConfirmDeleteRow(c, id)
  PROVE  PolicyListInv'
<1> DEFINE q == policyPage.query
<1>1. /\ policyPage \in PolicyPageRecords /\ q \in QueriesOf(Items) /\ policyRows \in PolicyRowSets
      /\ q.data \in SUBSET Items /\ q.fetch.body \in SUBSET Items
      /\ OneActive(q.data) /\ OneActive(q.fetch.body) /\ ~(listCall[c].op = "create" /\ listCall[c].waiting)
  BY DEF PolicyListInv, PolicyListTypes, PolicyPageRecords, QueriesOf, OneIsActive, SubmitCreate,
     ActivateFromList, ConfirmDeleteRow, ListCallMade
<1>2. ASSUME NEW op \in {"create", "activate", "delete"}, NEW id \in PolicyIds \cup {Nobody}, NEW p,
             ListCallMade(c, op, id, p), p \in PolicyPageRecords,
             OneActive(p.query.data), OneActive(p.query.fetch.body),
             p.submitting => op = "create" \/ policyPage.submitting
      PROVE  PolicyListInv'
  <2> DEFINE new == [NoListCall EXCEPT !.op = op, !.at = "work", !.id = id, !.waiting = TRUE,
                                       !.prev = q.data]
  <2>1. listCall' = [listCall EXCEPT ![c] = new] /\ policyPage' = p /\ policyRows' = policyRows
    BY <1>2 DEF ListCallMade
  <2>2. new \in ListCallRecords /\ new.op = op /\ new.at = "work" /\ new.waiting /\ new.prev = q.data
    BY <1>1 DEF NoListCall, ListCallRecords
  <2> HIDE DEF new
  <2>3. listCall'[c] = new
    BY <2>1 DEF PolicyListInv, PolicyListTypes
  <2>4. PolicyListFollows'
    BY <2>2, <2>3 DEF PolicyListFollows, ListCallsOver
  <2> QED BY <1>1, <1>2, <2>1, <2>2, <2>4, ListCallMoves
<1>3. CASE SubmitCreate(c)
  <2> DEFINE p == [policyPage EXCEPT !.submitting = TRUE]
  <2>1. ListCallMade(c, "create", Nobody, p)
    BY <1>3 DEF SubmitCreate
  <2>2. p \in PolicyPageRecords /\ p.query = q
    BY <1>1 DEF PolicyPageRecords
  <2> HIDE DEF p
  <2> QED BY <1>1, <1>2, <2>1, <2>2
<1>4. ASSUME NEW items \in SUBSET Items, OneActive(items)
      PROVE  /\ Optimistic(q, items) \in QueriesOf(Items) /\ Optimistic(q, items).data = items
             /\ OneActive(Optimistic(q, items).fetch.body)
  <2> DEFINE nq == [[q EXCEPT !.fetch = NoFetch] EXCEPT !.data = items, !.error = FALSE]
  <2>1. Optimistic(q, items) = nq
    BY DEF Optimistic, SetQueryData, CancelQueries
  <2>2. nq \in QueriesOf(Items) /\ nq.data = items /\ nq.fetch = NoFetch
    BY <1>1, <1>4, FetchStages DEF QueriesOf
  <2> HIDE DEF nq
  <2> QED BY <2>1, <2>2, FetchStages DEF OneActive
<1>5. c \in Nat
  BY PolicyListAssumption
<1>6. ASSUME NEW id \in PolicyIds, ActivateFromList(c, id)
      PROVE  PolicyListInv'
  <2> DEFINE nq == Optimistic(q, ShownActive(q.data, id))
             p == [policyPage EXCEPT !.query = nq, !.latest.activate = c]
  <2>1. ListCallMade(c, "activate", id, p)
    BY <1>6 DEF ActivateFromList
  <2>2. nq \in QueriesOf(Items) /\ OneActive(nq.data) /\ OneActive(nq.fetch.body)
    BY <1>1, <1>4, ChangedItems
  <2> HIDE DEF nq
  <2>3. p \in PolicyPageRecords /\ p.query = nq /\ p.submitting = policyPage.submitting
    BY <1>1, <1>5, <2>2 DEF PolicyPageRecords
  <2> HIDE DEF p
  <2> QED BY <1>2, <2>1, <2>2, <2>3
<1>7. ASSUME NEW id \in PolicyIds, ConfirmDeleteRow(c, id)
      PROVE  PolicyListInv'
  <2> DEFINE nq == Optimistic(q, {i \in q.data : i.id # id})
             p == [policyPage EXCEPT !.query = nq, !.latest.delete = c, !.deleting = {}]
  <2>1. ListCallMade(c, "delete", id, p)
    BY <1>7 DEF ConfirmDeleteRow
  <2>2. nq \in QueriesOf(Items) /\ OneActive(nq.data) /\ OneActive(nq.fetch.body)
    BY <1>1, <1>4, ChangedItems
  <2> HIDE DEF nq
  <2>3. p \in PolicyPageRecords /\ p.query = nq /\ p.submitting = policyPage.submitting
    BY <1>1, <1>5, <2>2 DEF PolicyPageRecords
  <2> HIDE DEF p
  <2> QED BY <1>2, <2>1, <2>2, <2>3
<1> QED BY <1>3, <1>6, <1>7

\* The API changes its rows for a call that is waited for, or the page's list is early.
LEMMA ListWorksKeep ==
  ASSUME PolicyListInv, NEW c \in ListCalls,
         RowActivated(c) \/ RowDeleted(c) \/ \E id \in PolicyIds : PolicyCreated(c, id)
  PROVE  PolicyListInv'
<1> DEFINE old == listCall[c]
<1>1. /\ policyPage \in PolicyPageRecords /\ policyRows \in PolicyRowSets /\ old \in ListCallRecords
      /\ policyPage.early \in BOOLEAN /\ old.waiting \in BOOLEAN /\ old.id \in PolicyIds \cup {Nobody}
      /\ OneActive(old.prev) /\ policyRows.ids \in SUBSET PolicyIds
      /\ policyRows.given \in SUBSET PolicyIds
  BY DEF PolicyListInv, PolicyListTypes, PolicyPageRecords, ListCallRecords, OneIsActive, PolicyRowSets
<1>2. old.op # "none"
  BY DEF PolicyListInv, ListPhases, RowActivated, RowDeleted, PolicyCreated
<1>3. PICK rowset \in PolicyRowSets, ok \in BOOLEAN : ListCallDone(c, rowset, ok)
  <2>1. CASE RowActivated(c)
    <3>1. CASE old.id \in policyRows.ids
      <4>1. [policyRows EXCEPT !.active = old.id] \in PolicyRowSets
        BY <1>1, <3>1 DEF PolicyRowSets
      <4> QED BY <2>1, <3>1, <4>1 DEF RowActivated
    <3>2. CASE old.id \notin policyRows.ids
      BY <1>1, <2>1, <3>2 DEF RowActivated
    <3> QED BY <3>1, <3>2
  <2>2. CASE RowDeleted(c)
    <3>1. CASE old.id \in policyRows.ids /\ old.id # policyRows.active
      <4> DEFINE ids == policyRows.ids \ {old.id}
      <4>1. ids \in SUBSET PolicyIds
        BY <1>1
      <4>2. ListCallDone(c, [policyRows EXCEPT !.ids = ids], TRUE)
        BY <2>2, <3>1 DEF RowDeleted
      <4> HIDE DEF ids
      <4>3. [policyRows EXCEPT !.ids = ids] \in PolicyRowSets
        BY <1>1, <4>1 DEF PolicyRowSets
      <4> QED BY <4>2, <4>3
    <3>2. CASE ~(old.id \in policyRows.ids /\ old.id # policyRows.active)
      BY <1>1, <2>2, <3>2 DEF RowDeleted
    <3> QED BY <3>1, <3>2
  <2>3. CASE \E id \in PolicyIds : PolicyCreated(c, id)
    <3>1. PICK id \in PolicyIds : PolicyCreated(c, id)
      BY <2>3
    <3> DEFINE ids == policyRows.ids \cup {id}
               given == policyRows.given \cup {id}
    <3>2. ids \in SUBSET PolicyIds /\ given \in SUBSET PolicyIds
      BY <1>1
    <3>3. ListCallDone(c, [policyRows EXCEPT !.ids = ids, !.given = given], TRUE)
      BY <3>1 DEF PolicyCreated
    <3> HIDE DEF ids, given
    <3>4. [policyRows EXCEPT !.ids = ids, !.given = given] \in PolicyRowSets
      BY <1>1, <3>2 DEF PolicyRowSets
    <3> QED BY <3>3, <3>4
  <2> QED BY <2>1, <2>2, <2>3
<1> DEFINE new == [old EXCEPT !.at = "answer", !.ok = ok]
           e == policyPage.early \/ ~old.waiting
<1>4. /\ policyRows' = rowset /\ listCall' = [listCall EXCEPT ![c] = new]
      /\ policyPage' = [policyPage EXCEPT !.early = e]
  BY <1>3 DEF ListCallDone, PolicyListInv, PolicyListTypes
<1>5. new \in ListCallRecords /\ new.op = old.op /\ new.waiting = old.waiting /\ new.prev = old.prev
  BY <1>1 DEF ListCallRecords
<1>6. e \in BOOLEAN /\ (~e => old.waiting)
  BY <1>1
<1> HIDE DEF new, e
<1>7. /\ policyPage' \in PolicyPageRecords /\ policyPage'.query = policyPage.query
      /\ policyPage'.submitting = policyPage.submitting /\ policyPage'.early = e
  BY <1>1, <1>4, <1>6 DEF PolicyPageRecords
<1>8. listCall'[c] = new
  BY <1>4 DEF PolicyListInv, PolicyListTypes
<1>9. PolicyListFollows'
  BY <1>5, <1>6, <1>7, <1>8 DEF PolicyListFollows, ListCallsOver
<1>10. OneActive(policyPage'.query.data) /\ OneActive(policyPage'.query.fetch.body)
  BY <1>7 DEF PolicyListInv, OneIsActive
<1>11. policyPage'.submitting =>
         \/ new.op = "create" /\ new.waiting
         \/ policyPage.submitting /\ ~(old.op = "create" /\ old.waiting)
  BY <1>5, <1>7
<1> QED BY <1>1, <1>2, <1>4, <1>5, <1>7, <1>9, <1>10, <1>11, ListCallMoves

\* The answers: whatever list they bring back, it is asked for again.
LEMMA ListAnswersKeep ==
  ASSUME PolicyListInv, NEW c \in ListCalls, ListAnswered(c) \/ ListLost(c)
  PROVE  PolicyListInv'
<1> DEFINE old == listCall[c]
           q == policyPage.query
           new == [old EXCEPT !.waiting = FALSE]
<1>1. /\ policyPage \in PolicyPageRecords /\ q \in QueriesOf(Items) /\ policyRows \in PolicyRowSets
      /\ old \in ListCallRecords /\ old.prev \in SUBSET Items /\ OneActive(old.prev)
      /\ q.data \in SUBSET Items /\ OneActive(q.data)
      /\ policyPage.faults \in Nat /\ policyPage.faults + 1 \in Nat
  BY DEF PolicyListInv, PolicyListTypes, PolicyPageRecords, ListCallRecords, QueriesOf, OneIsActive
<1>2. old.waiting /\ old.op # "none"
  BY DEF PolicyListInv, ListPhases, ListAnswered, ListLost
<1>3. policyRows' = policyRows /\ listCall' = [listCall EXCEPT ![c] = new]
  BY DEF ListAnswered, ListLost, PolicyListInv, PolicyListTypes
<1>4. new \in ListCallRecords /\ new.op = old.op /\ new.prev = old.prev /\ ~new.waiting
  BY <1>1 DEF ListCallRecords
<1> HIDE DEF new
<1>5. ASSUME policyPage' \in PolicyPageRecords, policyPage'.query.fetch = Sent,
             OneActive(policyPage'.query.data),
             policyPage'.submitting => policyPage.submitting /\ old.op # "create"
      PROVE  PolicyListInv'
  <2>1. PolicyListFollows'
    BY <1>5, FetchStages DEF PolicyListFollows, ReadsAre
  <2>2. OneActive(policyPage'.query.fetch.body)
    BY <1>5, FetchStages DEF OneActive
  <2> QED BY <1>1, <1>2, <1>3, <1>4, <1>5, <2>1, <2>2, ListCallMoves
<1>6. PICK ok \in BOOLEAN, n \in Nat : policyPage' = [ListSettled(c, ok) EXCEPT !.faults = n]
  <2>1. \A ok : ListSettled(c, ok).faults = policyPage.faults
    BY <1>1 DEF ListSettled, PolicyCreateSettled, RowCallSettled, ResetCreate, PolicyPageRecords
  <2>2. CASE ListAnswered(c)
    <3>1. ListSettled(c, old.ok) = [ListSettled(c, old.ok) EXCEPT !.faults = policyPage.faults]
      BY <1>1 DEF ListSettled, PolicyCreateSettled, RowCallSettled, ResetCreate, PolicyPageRecords
    <3>2. old.ok \in BOOLEAN
      BY <1>1 DEF ListCallRecords
    <3> QED BY <1>1, <2>2, <3>1, <3>2 DEF ListAnswered
  <2>3. CASE ListLost(c)
    BY <1>1, <2>1, <2>3 DEF ListLost
  <2> QED BY <2>2, <2>3
<1> DEFINE kept == [q EXCEPT !.fetch = Sent]
           back == [[q EXCEPT !.data = old.prev, !.error = FALSE] EXCEPT !.fetch = Sent]
<1>7. /\ InvalidateQueries(q) = kept /\ kept \in QueriesOf(Items) /\ kept.fetch = Sent
      /\ kept.data = q.data
  BY <1>1, FetchStages DEF InvalidateQueries, QueriesOf
<1>8. /\ InvalidateQueries(SetQueryData(q, old.prev)) = back /\ back \in QueriesOf(Items)
      /\ back.fetch = Sent /\ back.data = old.prev
  BY <1>1, FetchStages DEF InvalidateQueries, SetQueryData, QueriesOf
<1> HIDE DEF kept, back
<1>9. CASE old.op = "create" /\ ok
  <2>1. policyPage' = [policyPage EXCEPT !.query = kept, !.submitting = FALSE, !.name = FALSE,
                                         !.create = FALSE, !.away = TRUE, !.faults = n]
    BY <1>1, <1>6, <1>7, <1>9 DEF ListSettled, PolicyCreateSettled, ResetCreate, PolicyPageRecords
  <2>2. policyPage' \in PolicyPageRecords /\ policyPage'.query = kept /\ policyPage'.submitting = FALSE
    BY <1>1, <1>7, <2>1 DEF PolicyPageRecords
  <2> QED BY <1>1, <1>5, <1>7, <2>2
<1>10. CASE old.op = "create" /\ ~ok
  <2>1. policyPage' = [policyPage EXCEPT !.query = kept, !.submitting = FALSE, !.faults = n]
    BY <1>1, <1>6, <1>7, <1>10 DEF ListSettled, PolicyCreateSettled, PolicyPageRecords
  <2>2. policyPage' \in PolicyPageRecords /\ policyPage'.query = kept /\ policyPage'.submitting = FALSE
    BY <1>1, <1>7, <2>1 DEF PolicyPageRecords
  <2> QED BY <1>1, <1>5, <1>7, <2>2
<1>11. CASE old.op # "create"
  <2>1. PICK nq \in QueriesOf(Items) :
          /\ RowCallSettled(c, ok) = [policyPage EXCEPT !.query = nq]
          /\ nq.fetch = Sent /\ OneActive(nq.data)
    <3>1. CASE ok
      <4>1. RowCallSettled(c, ok) = [policyPage EXCEPT !.query = kept]
        BY <1>7, <3>1 DEF RowCallSettled
      <4> QED BY <1>1, <1>7, <4>1
    <3>2. CASE ~ok
      <4>1. RowCallSettled(c, ok) = [policyPage EXCEPT !.query = back]
        BY <1>1, <1>8, <3>2 DEF RowCallSettled, PolicyPageRecords
      <4> QED BY <1>1, <1>8, <4>1
    <3> QED BY <3>1, <3>2
  <2>2. policyPage' = [policyPage EXCEPT !.query = nq, !.faults = n]
    BY <1>6, <1>11, <2>1 DEF ListSettled
  <2>3. /\ policyPage' \in PolicyPageRecords /\ policyPage'.query = nq
        /\ policyPage'.submitting = policyPage.submitting
    BY <1>1, <2>1, <2>2 DEF PolicyPageRecords
  <2> QED BY <1>5, <1>11, <2>1, <2>3
<1> QED BY <1>9, <1>10, <1>11

\* The list of the server is on the page, and nothing is under way.
LEMMA PolicyListStarts ==
  ASSUME PolicyListInit
  PROVE  PolicyListInv
<1>1. PICK ids \in SUBSET PolicyIds, active \in PolicyIds \cup {Nobody} :
        /\ policyRows = [ids |-> ids, active |-> active, given |-> ids]
        /\ listCall = [c \in ListCalls |-> NoListCall]
        /\ policyPage = [query |-> MountedQuery(PolicyItems(policyRows)), deleting |-> {}, create |-> FALSE,
                         name |-> FALSE, submitting |-> FALSE, latest |-> [activate |-> 0, delete |-> 0],
                         away |-> FALSE, faults |-> 0, early |-> FALSE]
  BY DEF PolicyListInit
<1>2. policyRows \in PolicyRowSets
  BY <1>1 DEF PolicyRowSets
<1> DEFINE rows == PolicyItems(policyRows)
           q == MountedQuery(rows)
<1>3. NoListCall \in ListCallRecords /\ NoListCall.op = "none" /\ NoListCall.at = "idle"
      /\ ~NoListCall.waiting /\ NoListCall.prev = {}
  BY DEF NoListCall, ListCallRecords
<1>4. \A c \in ListCalls : listCall[c] = NoListCall
  BY <1>1
<1>5. listCall \in [ListCalls -> ListCallRecords]
  BY <1>1, <1>3
<1>6. rows \in SUBSET Items /\ OneActive(rows)
  <2>1. \A id \in PolicyIds : Item(id, id = active) \in Items /\ Item(id, id = active).id = id
                              /\ (Item(id, id = active).active => id = active)
    BY DEF Item, Items
  <2>2. rows = {Item(id, id = active) : id \in ids}
    BY <1>1 DEF PolicyItems
  <2>3. rows \in SUBSET Items
    BY <2>1, <2>2
  <2>4. OneActive(rows)
    BY <2>1, <2>2 DEF OneActive
  <2> QED BY <2>3, <2>4
<1>7. policyPage = [query |-> q, deleting |-> {}, create |-> FALSE,
                    name |-> FALSE, submitting |-> FALSE, latest |-> [activate |-> 0, delete |-> 0],
                    away |-> FALSE, faults |-> 0, early |-> FALSE]
  BY <1>1
<1> HIDE DEF rows
<1>8. q \in QueriesOf(Items) /\ q.data = rows /\ q.fetch = Sent
  BY <1>6, FetchStages DEF MountedQuery, QueriesOf
<1> HIDE DEF q
<1>9. policyPage \in PolicyPageRecords /\ policyPage.query = q /\ policyPage.submitting = FALSE
  BY <1>7, <1>8 DEF PolicyPageRecords
<1>10. PolicyListTypes /\ ListPhases
  BY <1>2, <1>3, <1>4, <1>5, <1>9 DEF PolicyListTypes, ListPhases
<1>11. PolicyListFollows
  BY <1>8, <1>9, FetchStages DEF PolicyListFollows, ReadsAre
<1>12. OneIsActive /\ SubmittingEnds
  BY <1>3, <1>4, <1>6, <1>8, <1>9, FetchStages DEF OneIsActive, OneActive, SubmittingEnds
<1> QED BY <1>10, <1>11, <1>12 DEF PolicyListInv

\* Whatever is clicked, done or answered on the page.
LEMMA PolicyListKept ==
  ASSUME PolicyListInv, PolicyListNext
  PROVE  PolicyListInv'
<1>1. CASE \/ CancelDeleteRow \/ OpenCreate \/ TypePolicyName \/ CloseCreate
           \/ \E id \in PolicyIds : AskDeleteRow(id)
  BY <1>1, ListDialogsKeep
<1>2. CASE PolicyListRead \/ PolicyListAnswered \/ PolicyListFailed \/ PolicyListRetry \/ BackToList
  BY <1>2, PolicyReadsKeep
<1>3. ASSUME NEW c \in ListCalls,
             \/ SubmitCreate(c)
             \/ \E id \in PolicyIds : ActivateFromList(c, id) \/ ConfirmDeleteRow(c, id)
      PROVE  PolicyListInv'
  BY <1>3, ListClicksKeep
<1>4. ASSUME NEW c \in ListCalls,
             RowActivated(c) \/ RowDeleted(c) \/ \E id \in PolicyIds : PolicyCreated(c, id)
      PROVE  PolicyListInv'
  BY <1>4, ListWorksKeep
<1>5. ASSUME NEW c \in ListCalls, ListAnswered(c) \/ ListLost(c)
      PROVE  PolicyListInv'
  BY <1>5, ListAnswersKeep
<1> QED BY <1>1, <1>2, <1>3, <1>4, <1>5 DEF PolicyListNext

\* The repositories: no call has failed or was given up so far.
RepoClean ==
  /\ \A c \in RepoCalls :
       repoCall[c].op # "none" /\ ~repoCall[c].waiting => repoCall[c].ok /\ ~repoCall[c].early
  /\ repoPage.faults = 0
OneEntry(entries) == \A g \in GithubIds : ~({Real(g), Stub(g)} \subseteq entries)

\* Entries are what they are made of.
LEMMA EntryTypes ==
  ASSUME NEW g \in GithubIds
  PROVE  /\ Real(g) \in RepoEntries /\ Real(g).repo = g /\ ~Real(g).stub
         /\ Stub(g) \in RepoEntries /\ Stub(g).repo = g /\ Stub(g).stub
BY DEF Real, Stub, RepoEntries

\* The rows that are read are no stubs.
LEMMA RealsTypes ==
  ASSUME NEW ids \in SUBSET GithubIds
  PROVE  Reals(ids) \in SUBSET RepoEntries /\ \A e \in Reals(ids) : ~e.stub
<1>1. Reals(ids) = {Real(g) : g \in ids}
  BY DEF Reals
<1> QED BY <1>1, EntryTypes

\* A list without stubs shows nothing twice.
LEMMA NoStubsOneEntry ==
  ASSUME NEW entries, \A e \in entries : ~e.stub
  PROVE  OneEntry(entries)
BY EntryTypes DEF OneEntry

\* Only the page moves; a fault is counted.
LEMMA RepoPageMoves ==
  ASSUME ReposInv, UNCHANGED <<connectedRow, repoCall>>, repoPage' \in RepoPageRecords,
         ReposFollow', RealsAreRead',
         repoPage'.faults = 0 =>
           repoPage.faults = 0 /\ (OneEntry(repoPage.connected.data) => OneEntry(repoPage'.connected.data))
  PROVE  ReposInv'
<1>1. RepoTypes' /\ RepoPhases'
  BY DEF ReposInv, RepoTypes, RepoPhases, RepoPhase
<1>2. RepoClean' => RepoClean
  BY DEF RepoClean
<1>3. StubOrRow'
  BY <1>2 DEF ReposInv, StubOrRow, RepoClean, OneEntry
<1> QED BY <1>1, <1>3 DEF ReposInv

\* A call moves on: one that had failed, or was given up, stays so.
LEMMA RepoCallMoves ==
  ASSUME ReposInv, NEW c \in RepoCalls, NEW new \in RepoCallRecords,
         repoCall' = [repoCall EXCEPT ![c] = new], RepoPhase(new), new.op # "none",
         repoCall[c].op # "none" /\ ~repoCall[c].waiting =>
           ~new.waiting /\ (new.ok /\ ~new.early => repoCall[c].ok /\ ~repoCall[c].early),
         connectedRow' \in SUBSET GithubIds, repoPage' \in RepoPageRecords,
         ReposFollow', RealsAreRead',
         repoPage'.faults = 0 => repoPage.faults = 0,
         (/\ OneEntry(repoPage.connected.data) /\ repoPage'.faults = 0
          /\ ~new.waiting => new.ok /\ ~new.early)
         => OneEntry(repoPage'.connected.data)
  PROVE  ReposInv'
<1>1. /\ repoCall' \in [RepoCalls -> RepoCallRecords] /\ repoCall'[c] = new
      /\ \A d \in RepoCalls : d # c => repoCall'[d] = repoCall[d]
  BY DEF ReposInv, RepoTypes
<1>2. RepoTypes' /\ RepoPhases'
  BY <1>1 DEF ReposInv, RepoTypes, RepoPhases, RepoPhase
<1>3. RepoClean' => RepoClean
  BY <1>1 DEF RepoClean
<1>4. RepoClean' => repoPage'.faults = 0 /\ (~new.waiting => new.ok /\ ~new.early)
  BY <1>1 DEF RepoClean
<1>5. RepoClean => OneEntry(repoPage.connected.data)
  BY DEF ReposInv, StubOrRow, RepoClean, OneEntry
<1>6. RepoClean' => OneEntry(repoPage'.connected.data)
  BY <1>3, <1>4, <1>5
<1>7. StubOrRow'
  BY <1>6 DEF StubOrRow, RepoClean, OneEntry
<1> QED BY <1>2, <1>7 DEF ReposInv

\* The dialog, and the two lists' reads.
LEMMA RepoReadsKeep ==
  ASSUME ReposInv,
         \/ CancelDisconnect \/ \E g \in GithubIds : AskDisconnect(g)
         \/ \E l \in Lists : RepoListRead(l) \/ RepoListAnswered(l) \/ RepoListFailed(l) \/ RepoListRetry(l)
  PROVE  ReposInv'
<1> DEFINE gh == repoPage.github
           co == repoPage.connected
           reals == Reals(connectedRow)
           n == repoPage.faults + 1
<1>1. /\ repoPage \in RepoPageRecords /\ gh \in QueriesOf(GithubIds) /\ co \in QueriesOf(RepoEntries)
      /\ repoPage.faults \in Nat /\ n \in Nat /\ n # 0 /\ connectedRow \in SUBSET GithubIds
  BY DEF ReposInv, RepoTypes, RepoPageRecords
<1>2. UNCHANGED <<connectedRow, repoCall>>
  BY DEF CancelDisconnect, AskDisconnect, RepoListRead, RepoListAnswered, RepoListFailed, RepoListRetry
<1>3. reals \in SUBSET RepoEntries /\ (\A e \in reals : ~e.stub) /\ reals' = reals
  BY <1>1, <1>2, RealsTypes DEF Reals
<1>4. RepoCallsOver => ReadsAre(gh, connectedRow) /\ ReadsAre(co, reals)
  BY DEF ReposInv, ReposFollow
<1>5. \A e \in co.fetch.body : ~e.stub
  BY DEF ReposInv, RealsAreRead
<1> HIDE DEF reals, n
<1>6. ASSUME repoPage' \in RepoPageRecords, repoPage'.connected = co, repoPage'.faults \in {repoPage.faults, n},
             RepoCallsOver => ReadsAre(repoPage'.github, connectedRow)
      PROVE  ReposInv'
  <2>1. ReposFollow'
    BY <1>2, <1>3, <1>4, <1>6 DEF ReposFollow, RepoCallsOver, ReadsAre, reals
  <2>2. RealsAreRead'
    BY <1>5, <1>6 DEF RealsAreRead
  <2> QED BY <1>1, <1>2, <1>6, <2>1, <2>2, RepoPageMoves
<1>7. ASSUME repoPage' \in RepoPageRecords, repoPage'.github = gh, repoPage'.faults \in {repoPage.faults, n},
             \A e \in repoPage'.connected.fetch.body : ~e.stub,
             RepoCallsOver => ReadsAre(repoPage'.connected, reals),
             OneEntry(co.data) => OneEntry(repoPage'.connected.data)
      PROVE  ReposInv'
  <2>1. ReposFollow'
    BY <1>2, <1>3, <1>4, <1>7 DEF ReposFollow, RepoCallsOver, ReadsAre, reals
  <2>2. RealsAreRead'
    BY <1>7 DEF RealsAreRead
  <2> QED BY <1>1, <1>2, <1>7, <2>1, <2>2, RepoPageMoves
<1>8. ASSUME NEW nq \in QueriesOf(GithubIds), NEW k \in {repoPage.faults, n},
             repoPage' = [repoPage EXCEPT !.github = nq, !.faults = k],
             RepoCallsOver => ReadsAre(nq, connectedRow)
      PROVE  ReposInv'
  <2>1. /\ repoPage' \in RepoPageRecords /\ repoPage'.connected = co /\ repoPage'.faults = k
        /\ repoPage'.github = nq
    BY <1>1, <1>8 DEF RepoPageRecords
  <2> QED BY <1>6, <1>8, <2>1
<1>9. ASSUME NEW nq \in QueriesOf(RepoEntries), NEW k \in {repoPage.faults, n},
             repoPage' = [repoPage EXCEPT !.connected = nq, !.faults = k],
             \A e \in nq.fetch.body : ~e.stub, RepoCallsOver => ReadsAre(nq, reals),
             OneEntry(co.data) => OneEntry(nq.data)
      PROVE  ReposInv'
  <2>1. /\ repoPage' \in RepoPageRecords /\ repoPage'.github = gh /\ repoPage'.faults = k
        /\ repoPage'.connected = nq
    BY <1>1, <1>9 DEF RepoPageRecords
  <2> QED BY <1>7, <1>9, <2>1
<1>10. CASE CancelDisconnect \/ \E g \in GithubIds : AskDisconnect(g)
  <2>1. PICK g \in GithubIds \cup {NoRepo} : repoPage' = [repoPage EXCEPT !.asked = g]
    BY <1>10 DEF CancelDisconnect, AskDisconnect
  <2>2. /\ repoPage' \in RepoPageRecords /\ repoPage'.connected = co /\ repoPage'.github = gh
        /\ repoPage'.faults = repoPage.faults
    BY <1>1, <2>1 DEF RepoPageRecords
  <2> QED BY <1>4, <1>6, <2>2
<1>11. ASSUME NEW nq
       PROVE  /\ [repoPage EXCEPT !.github = nq] = [repoPage EXCEPT !.github = nq, !.faults = repoPage.faults]
              /\ [repoPage EXCEPT !.connected = nq]
                   = [repoPage EXCEPT !.connected = nq, !.faults = repoPage.faults]
  BY <1>1 DEF RepoPageRecords
<1>12. ASSUME NEW l \in Lists, RepoListRead(l)
       PROVE  ReposInv'
  <2>1. CASE l = "github"
    <3> DEFINE nq == Reads(gh, connectedRow)
    <3>1. repoPage' = [repoPage EXCEPT !.github = nq]
      BY <1>12, <2>1 DEF RepoListRead
    <3>2. nq \in QueriesOf(GithubIds) /\ nq.fetch = [at |-> "back", body |-> connectedRow]
      BY <1>1, QueryReads
    <3> HIDE DEF nq
    <3>3. ReadsAre(nq, connectedRow)
      BY <3>2 DEF ReadsAre
    <3> QED BY <1>8, <1>11, <3>1, <3>2, <3>3
  <2>2. CASE l = "connected"
    <3> DEFINE nq == Reads(co, reals)
    <3>1. repoPage' = [repoPage EXCEPT !.connected = nq]
      BY <1>12, <2>2 DEF RepoListRead, reals
    <3>0. co \in QueriesOf(RepoEntries) /\ reals \in SUBSET RepoEntries
      BY <1>1, <1>3
    <3>2. nq \in QueriesOf(RepoEntries) /\ nq.data = co.data /\ nq.fetch = [at |-> "back", body |-> reals]
      BY <3>0, QueryReads
    <3> HIDE DEF nq
    <3>3. ReadsAre(nq, reals) /\ nq.fetch.body = reals
      BY <3>2 DEF ReadsAre
    <3> QED BY <1>3, <1>9, <1>11, <3>1, <3>2, <3>3
  <2> QED BY <2>1, <2>2 DEF Lists
<1>13. ASSUME NEW l \in Lists, RepoListAnswered(l)
       PROVE  ReposInv'
  <2>1. CASE l = "github"
    <3> DEFINE nq == Succeeds(gh)
    <3>1. repoPage' = [repoPage EXCEPT !.github = nq] /\ gh.fetch.at = "back"
      BY <1>13, <2>1 DEF RepoListAnswered
    <3>2. nq \in QueriesOf(GithubIds) /\ nq.data = gh.fetch.body /\ nq.fetch = NoFetch
      BY <1>1, QuerySteps
    <3> HIDE DEF nq
    <3>3. RepoCallsOver => ReadsAre(nq, connectedRow)
      BY <1>4, <3>1, <3>2, FetchStages DEF ReadsAre
    <3> QED BY <1>8, <1>11, <3>1, <3>2, <3>3
  <2>2. CASE l = "connected"
    <3> DEFINE nq == Succeeds(co)
    <3>1. repoPage' = [repoPage EXCEPT !.connected = nq] /\ co.fetch.at = "back"
      BY <1>13, <2>2 DEF RepoListAnswered
    <3>2. nq \in QueriesOf(RepoEntries) /\ nq.data = co.fetch.body /\ nq.fetch = NoFetch
      BY <1>1, QuerySteps
    <3> HIDE DEF nq
    <3>3. RepoCallsOver => ReadsAre(nq, reals)
      BY <1>4, <3>1, <3>2, FetchStages DEF ReadsAre
    <3>4. OneEntry(nq.data) /\ nq.fetch.body = {}
      BY <1>5, <3>2, NoStubsOneEntry, FetchStages
    <3> QED BY <1>9, <1>11, <3>1, <3>2, <3>3, <3>4
  <2> QED BY <2>1, <2>2 DEF Lists
<1>14. ASSUME NEW l \in Lists, RepoListFailed(l)
       PROVE  ReposInv'
  <2>1. CASE l = "github"
    <3> DEFINE nq == Fails(gh)
    <3>1. repoPage' = [repoPage EXCEPT !.github = nq, !.faults = n]
      BY <1>14, <2>1 DEF RepoListFailed, n
    <3>2. nq \in QueriesOf(GithubIds) /\ nq.error /\ nq.fetch = NoFetch
      BY <1>1, QuerySteps
    <3> HIDE DEF nq
    <3>3. ReadsAre(nq, connectedRow)
      BY <3>2, FetchStages DEF ReadsAre
    <3> QED BY <1>8, <3>1, <3>2, <3>3
  <2>2. CASE l = "connected"
    <3> DEFINE nq == Fails(co)
    <3>1. repoPage' = [repoPage EXCEPT !.connected = nq, !.faults = n]
      BY <1>14, <2>2 DEF RepoListFailed, n
    <3>2. nq \in QueriesOf(RepoEntries) /\ nq.error /\ nq.data = co.data /\ nq.fetch = NoFetch
      BY <1>1, QuerySteps
    <3> HIDE DEF nq
    <3>3. ReadsAre(nq, reals) /\ nq.fetch.body = {}
      BY <3>2, FetchStages DEF ReadsAre
    <3> QED BY <1>9, <3>1, <3>2, <3>3
  <2> QED BY <2>1, <2>2 DEF Lists
<1>15. ASSUME NEW l \in Lists, RepoListRetry(l)
       PROVE  ReposInv'
  <2>1. CASE l = "github"
    <3> DEFINE nq == InvalidateQueries(gh)
    <3>1. repoPage' = [repoPage EXCEPT !.github = nq]
      BY <1>15, <2>1 DEF RepoListRetry
    <3>2. nq \in QueriesOf(GithubIds) /\ nq.fetch = Sent
      BY <1>1, QuerySteps
    <3> HIDE DEF nq
    <3>3. ReadsAre(nq, connectedRow)
      BY <3>2, FetchStages DEF ReadsAre
    <3> QED BY <1>8, <1>11, <3>1, <3>2, <3>3
  <2>2. CASE l = "connected"
    <3> DEFINE nq == InvalidateQueries(co)
    <3>1. repoPage' = [repoPage EXCEPT !.connected = nq]
      BY <1>15, <2>2 DEF RepoListRetry
    <3>2. nq \in QueriesOf(RepoEntries) /\ nq.data = co.data /\ nq.fetch = Sent
      BY <1>1, QuerySteps
    <3> HIDE DEF nq
    <3>3. ReadsAre(nq, reals) /\ nq.fetch.body = {}
      BY <3>2, FetchStages DEF ReadsAre
    <3> QED BY <1>9, <1>11, <3>1, <3>2, <3>3
  <2> QED BY <2>1, <2>2 DEF Lists
<1> QED BY <1>10, <1>12, <1>13, <1>14, <1>15

\* The clicks: the call that is waited for, both lists changed at once.
LEMMA RepoClicksKeep ==
  ASSUME ReposInv, NEW c \in RepoCalls,
         ConfirmDisconnect(c) \/ \E g \in GithubIds : Connect(c, g)
  PROVE  ReposInv'
<1> DEFINE gh == repoPage.github
           co == repoPage.connected
<1>1. /\ repoPage \in RepoPageRecords /\ gh \in QueriesOf(GithubIds) /\ co \in QueriesOf(RepoEntries)
      /\ gh.data \in SUBSET GithubIds /\ co.data \in SUBSET RepoEntries
      /\ repoPage.asked \in GithubIds \cup {NoRepo} /\ connectedRow \in SUBSET GithubIds /\ c \in Nat
  BY ReposPageAssumption DEF ReposInv, RepoTypes, RepoPageRecords, QueriesOf
<1>2. ASSUME NEW op \in {"connect", "disconnect"}, NEW g \in GithubIds, NEW github \in SUBSET GithubIds,
             NEW connected \in SUBSET RepoEntries, Mutated(c, op, g, github, connected),
             repoCall[c].op = "none", OneEntry(co.data) => OneEntry(connected)
      PROVE  ReposInv'
  <2> DEFINE new == [NoRepoCall EXCEPT !.op = op, !.at = "find", !.repo = g, !.waiting = TRUE,
                                       !.prevGithub = gh.data, !.prevConnected = co.data]
             ngh == SetQueryData(CancelQueries(gh), github)
             nco == SetQueryData(CancelQueries(co), connected)
  <2>1. /\ repoCall' = [repoCall EXCEPT ![c] = new] /\ connectedRow' = connectedRow
        /\ repoPage' = [repoPage EXCEPT !.github = ngh, !.connected = nco, !.latest[op] = c, !.asked = NoRepo]
    BY <1>2 DEF Mutated
  <2>2. /\ new \in RepoCallRecords /\ new.op = op /\ new.at = "find" /\ new.repo = g /\ new.waiting
        /\ ~new.ok
    BY <1>1 DEF NoRepoCall, RepoCallRecords
  <2> DEFINE cgh == CancelQueries(gh)
             cco == CancelQueries(co)
  <2>3. /\ cgh \in QueriesOf(GithubIds) /\ cgh.fetch = NoFetch
        /\ cco \in QueriesOf(RepoEntries) /\ cco.fetch = NoFetch
        /\ ngh = SetQueryData(cgh, github) /\ nco = SetQueryData(cco, connected)
    BY <1>1, QuerySteps
  <2> HIDE DEF new, cgh, cco, ngh, nco
  <2>4. /\ ngh \in QueriesOf(GithubIds) /\ nco \in QueriesOf(RepoEntries) /\ nco.data = connected
        /\ nco.fetch = NoFetch
    <3>1. ngh \in QueriesOf(GithubIds)
      BY <2>3 DEF SetQueryData, QueriesOf
    <3>2. nco \in QueriesOf(RepoEntries) /\ nco.data = connected /\ nco.fetch = NoFetch
      BY <2>3 DEF SetQueryData, QueriesOf
    <3> QED BY <3>1, <3>2
  <2>5. /\ repoPage' \in RepoPageRecords /\ repoPage'.connected = nco
        /\ repoPage'.faults = repoPage.faults
    <3>1. CASE op = "connect"
      BY <1>1, <2>1, <2>4, <3>1 DEF RepoPageRecords
    <3>2. CASE op = "disconnect"
      BY <1>1, <2>1, <2>4, <3>2 DEF RepoPageRecords
    <3> QED BY <3>1, <3>2
  <2>6. repoCall'[c] = new
    BY <2>1 DEF ReposInv, RepoTypes
  <2>7. ReposFollow'
    BY <2>2, <2>6 DEF ReposFollow, RepoCallsOver
  <2>8. RealsAreRead'
    BY <2>4, <2>5, FetchStages DEF RealsAreRead
  <2>9. RepoPhase(new) /\ new.op # "none"
    BY <1>2, <2>2 DEF RepoPhase
  <2> QED BY <1>1, <1>2, <2>1, <2>2, <2>4, <2>5, <2>7, <2>8, <2>9, RepoCallMoves
<1>3. ASSUME NEW g \in GithubIds, Connect(c, g)
      PROVE  ReposInv'
  <2> DEFINE github == gh.data \cup {g}
             connected == co.data \cup {Stub(g)}
  <2>1. github \in SUBSET GithubIds /\ connected \in SUBSET RepoEntries
    BY <1>1, EntryTypes
  <2>2. /\ Mutated(c, "connect", g, github, connected) /\ repoCall[c].op = "none"
        /\ co.data \cap {Real(g), Stub(g)} = {}
    BY <1>3 DEF Connect
  <2>3. OneEntry(co.data) => OneEntry(connected)
    BY <2>2, EntryTypes DEF OneEntry
  <2> HIDE DEF github, connected
  <2> QED BY <1>2, <2>1, <2>2, <2>3
<1>4. CASE ConfirmDisconnect(c)
  <2> DEFINE g == repoPage.asked
             github == IF Real(g) \in co.data THEN gh.data \ {g} ELSE gh.data
             connected == co.data \ {Real(g)}
  <2>1. github \in SUBSET GithubIds /\ connected \in SUBSET RepoEntries /\ connected \subseteq co.data
    BY <1>1
  <2>2. Mutated(c, "disconnect", g, github, connected) /\ repoCall[c].op = "none" /\ g \in GithubIds
    BY <1>1, <1>4 DEF ConfirmDisconnect
  <2> HIDE DEF github, connected, g
  <2>3. OneEntry(co.data) => OneEntry(connected)
    BY <2>1 DEF OneEntry
  <2> QED BY <1>2, <2>1, <2>2, <2>3
<1> QED BY <1>3, <1>4

\* The API's steps: the call is waited for, or was given up early.
LEMMA RepoWorksKeep ==
  ASSUME ReposInv, NEW c \in RepoCalls, RepoCallFinds(c) \/ RepoCallWrites(c)
  PROVE  ReposInv'
<1> DEFINE old == repoCall[c]
<1>1. /\ old \in RepoCallRecords /\ repoPage \in RepoPageRecords /\ connectedRow \in SUBSET GithubIds
      /\ repoPage' = repoPage /\ RealsAreRead
  BY DEF ReposInv, RepoTypes, RepoCallFinds, RepoCallWrites
<1>2. /\ old.at \in {"find", "write"} /\ old.op # "none" /\ old.repo \in GithubIds /\ ~old.ok
      /\ (old.waiting \/ old.early)
  BY DEF ReposInv, RepoPhases, RepoPhase, RepoCallFinds, RepoCallWrites
<1>3. connectedRow' \in SUBSET GithubIds
  <2>1. CASE RepoCallFinds(c)
    BY <1>1, <2>1 DEF RepoCallFinds
  <2>2. CASE RepoCallWrites(c)
    BY <1>1, <1>2, <2>2 DEF RepoCallWrites
  <2> QED BY <2>1, <2>2
<1>4. PICK at \in {"write", "answer"}, ok \in BOOLEAN :
        /\ repoCall' = [repoCall EXCEPT ![c] = [old EXCEPT !.at = at, !.ok = ok]]
        /\ ok => at = "answer"
  <2>1. CASE RepoCallFinds(c)
    <3>1. PICK at \in {"write", "answer"} : repoCall' = [repoCall EXCEPT ![c].at = at]
      BY <2>1 DEF RepoCallFinds
    <3>2. [repoCall EXCEPT ![c].at = at] = [repoCall EXCEPT ![c] = [old EXCEPT !.at = at, !.ok = FALSE]]
      BY <1>1, <1>2 DEF RepoCallRecords
    <3> QED BY <3>1, <3>2
  <2>2. CASE RepoCallWrites(c)
    BY <2>2 DEF RepoCallWrites, ReposInv, RepoTypes
  <2> QED BY <2>1, <2>2
<1> DEFINE new == [old EXCEPT !.at = at, !.ok = ok]
<1>5. /\ new \in RepoCallRecords /\ new.op = old.op /\ new.at = at /\ new.repo = old.repo /\ new.ok = ok
      /\ new.waiting = old.waiting /\ new.early = old.early
  BY <1>1, <1>4 DEF RepoCallRecords
<1>6. repoCall' = [repoCall EXCEPT ![c] = new]
  BY <1>4
<1> HIDE DEF new
<1>7. repoCall'[c] = new
  BY <1>6 DEF ReposInv, RepoTypes
<1>8. ReposFollow'
  BY <1>2, <1>5, <1>7 DEF ReposFollow, RepoCallsOver
<1>9. RealsAreRead'
  BY <1>1 DEF RealsAreRead
<1>10. RepoPhase(new)
  BY <1>2, <1>4, <1>5 DEF RepoPhase
<1> QED BY <1>1, <1>2, <1>3, <1>5, <1>6, <1>8, <1>9, <1>10, RepoCallMoves

\* The answers: whatever the lists become, both are asked for again.
LEMMA RepoAnswersKeep ==
  ASSUME ReposInv, NEW c \in RepoCalls, RepoAnswered(c) \/ RepoLost(c)
  PROVE  ReposInv'
<1> DEFINE old == repoCall[c]
           gh == repoPage.github
           co == repoPage.connected
           g == old.repo
<1>1. /\ repoPage \in RepoPageRecords /\ gh \in QueriesOf(GithubIds) /\ co \in QueriesOf(RepoEntries)
      /\ old \in RepoCallRecords /\ connectedRow \in SUBSET GithubIds /\ co.data \in SUBSET RepoEntries
      /\ old.prevGithub \in SUBSET GithubIds /\ old.prevConnected \in SUBSET RepoEntries
      /\ repoPage.faults \in Nat /\ repoPage.faults + 1 \in Nat /\ repoPage.faults + 1 # 0
      /\ old.ok \in BOOLEAN /\ old.early \in BOOLEAN /\ old.waiting \in BOOLEAN
  BY DEF ReposInv, RepoTypes, RepoPageRecords, RepoCallRecords, QueriesOf
<1>2. old.waiting /\ old.op # "none" /\ g \in GithubIds /\ connectedRow' = connectedRow /\ RepoPhase(old)
  BY DEF ReposInv, RepoPhases, RepoPhase, RepoAnswered, RepoLost
<1>3. PICK ok \in BOOLEAN, e \in BOOLEAN, n \in Nat :
        /\ repoCall' = [repoCall EXCEPT ![c] = [old EXCEPT !.waiting = FALSE, !.early = e]]
        /\ repoPage' = [RepoSettled(c, ok) EXCEPT !.faults = n]
        /\ n = 0 => repoPage.faults = 0 /\ ok = old.ok
        /\ old.at # "answer" => e
  <2>1. CASE RepoAnswered(c)
    <3>1. repoCall' = [repoCall EXCEPT ![c] = [old EXCEPT !.waiting = FALSE, !.early = old.early]]
      BY <1>1, <2>1 DEF RepoAnswered, RepoCallRecords, ReposInv, RepoTypes
    <3>2. RepoSettled(c, old.ok) = [RepoSettled(c, old.ok) EXCEPT !.faults = repoPage.faults]
      BY <1>1 DEF RepoSettled, BothRefetched, RolledBack, StubReplaced, RepoPageRecords
    <3> QED BY <1>1, <2>1, <3>1, <3>2 DEF RepoAnswered
  <2>2. CASE RepoLost(c)
    <3> DEFINE e == old.at # "answer"
    <3>1. repoCall' = [repoCall EXCEPT ![c] = [old EXCEPT !.waiting = FALSE, !.early = e]]
      BY <2>2 DEF RepoLost, ReposInv, RepoTypes
    <3>2. RepoSettled(c, FALSE).faults = repoPage.faults
      BY <1>1 DEF RepoSettled, BothRefetched, RolledBack, StubReplaced, RepoPageRecords
    <3>3. repoPage' = [RepoSettled(c, FALSE) EXCEPT !.faults = repoPage.faults + 1]
      BY <2>2, <3>2 DEF RepoLost
    <3>4. e \in BOOLEAN /\ (old.at # "answer" => e)
      OBVIOUS
    <3> HIDE DEF e
    <3> QED BY <1>1, <3>1, <3>3, <3>4
  <2> QED BY <2>1, <2>2
<1> DEFINE new == [old EXCEPT !.waiting = FALSE, !.early = e]
<1>4. /\ new \in RepoCallRecords /\ new.op = old.op /\ new.at = old.at /\ new.repo = g /\ new.ok = old.ok
      /\ ~new.waiting /\ new.early = e /\ repoCall' = [repoCall EXCEPT ![c] = new]
  BY <1>1, <1>3 DEF RepoCallRecords
<1> HIDE DEF new
<1>5. RepoPhase(new)
  BY <1>2, <1>3, <1>4 DEF RepoPhase
<1>6. ASSUME NEW github \in SUBSET GithubIds, NEW connected \in SUBSET RepoEntries,
             NEW q1 \in QueriesOf(GithubIds), NEW q2 \in QueriesOf(RepoEntries),
             q1.fetch = Sent, q2.fetch = Sent, q2.data = connected,
             RepoSettled(c, ok) = [repoPage EXCEPT !.github = q1, !.connected = q2],
             OneEntry(co.data) /\ ok => OneEntry(connected)
      PROVE  ReposInv'
  <2>1. repoPage' = [repoPage EXCEPT !.github = q1, !.connected = q2, !.faults = n]
    BY <1>3, <1>6
  <2>2. /\ repoPage' \in RepoPageRecords /\ repoPage'.github = q1 /\ repoPage'.connected = q2
        /\ repoPage'.faults = n
    BY <1>1, <2>1 DEF RepoPageRecords
  <2>3. ReposFollow'
    BY <1>6, <2>2, FetchStages DEF ReposFollow, ReadsAre
  <2>4. RealsAreRead'
    BY <1>6, <2>2, FetchStages DEF RealsAreRead
  <2>5. /\ OneEntry(co.data) /\ repoPage'.faults = 0
        /\ ~new.waiting => new.ok /\ ~new.early
        => OneEntry(repoPage'.connected.data)
    BY <1>3, <1>4, <1>6, <2>2
  <2> QED BY <1>1, <1>2, <1>3, <1>4, <1>5, <2>2, <2>3, <2>4, <2>5, RepoCallMoves
<1>7. ASSUME NEW S, NEW q \in QueriesOf(S), NEW rows \in SUBSET S
      PROVE  /\ InvalidateQueries(SetQueryData(q, rows)) \in QueriesOf(S)
             /\ InvalidateQueries(SetQueryData(q, rows)).fetch = Sent
             /\ InvalidateQueries(SetQueryData(q, rows)).data = rows
  BY <1>7, FetchStages DEF InvalidateQueries, SetQueryData, QueriesOf
<1>8. CASE ~ok
  <2> DEFINE q1 == InvalidateQueries(SetQueryData(gh, old.prevGithub))
             q2 == InvalidateQueries(SetQueryData(co, old.prevConnected))
  <2>1. q1 \in QueriesOf(GithubIds) /\ q1.fetch = Sent
    BY <1>1, <1>7
  <2>2. q2 \in QueriesOf(RepoEntries) /\ q2.fetch = Sent /\ q2.data = old.prevConnected
    BY <1>1, <1>7
  <2>3. RepoSettled(c, ok) = BothRefetched(RolledBack(c))
    BY <1>8 DEF RepoSettled
  <2>4. BothRefetched(RolledBack(c)) = [repoPage EXCEPT !.github = q1, !.connected = q2]
    BY <1>1 DEF BothRefetched, RolledBack, RepoPageRecords
  <2> HIDE DEF q1, q2
  <2> QED BY <1>1, <1>6, <1>8, <2>1, <2>2, <2>3, <2>4
<1>9. InvalidateQueries(gh) \in QueriesOf(GithubIds) /\ InvalidateQueries(gh).fetch = Sent
  BY <1>1, FetchStages DEF InvalidateQueries, QueriesOf
<1>10. CASE ok /\ old.op = "connect"
  <2> DEFINE q1 == InvalidateQueries(gh)
             connected == (co.data \ {Stub(g)}) \cup {Real(g)}
             q2 == InvalidateQueries(SetQueryData(co, connected))
  <2>1. connected \in SUBSET RepoEntries
    BY <1>1, <1>2, EntryTypes
  <2>2. OneEntry(co.data) => OneEntry(connected)
    BY <1>2, EntryTypes DEF OneEntry
  <2>3. RepoSettled(c, ok) = BothRefetched(StubReplaced(c))
    BY <1>10 DEF RepoSettled
  <2>4. StubReplaced(c) = [repoPage EXCEPT !.connected = SetQueryData(co, connected)]
    BY DEF StubReplaced
  <2> HIDE DEF connected
  <2>5. q2 \in QueriesOf(RepoEntries) /\ q2.fetch = Sent /\ q2.data = connected
    BY <1>1, <1>7, <2>1
  <2>6. BothRefetched(StubReplaced(c)) = [repoPage EXCEPT !.github = q1, !.connected = q2]
    BY <1>1, <2>4 DEF BothRefetched, RepoPageRecords
  <2> HIDE DEF q1, q2
  <2>7. q1 \in QueriesOf(GithubIds) /\ q1.fetch = Sent
    BY <1>9 DEF q1
  <2> QED BY <1>1, <1>6, <2>1, <2>2, <2>3, <2>5, <2>6, <2>7
<1>11. CASE ok /\ old.op # "connect"
  <2> DEFINE q1 == InvalidateQueries(gh)
             q2 == InvalidateQueries(co)
  <2>1. q2 \in QueriesOf(RepoEntries) /\ q2.fetch = Sent /\ q2.data = co.data
    BY <1>1, QuerySteps
  <2>2. RepoSettled(c, ok) = BothRefetched(repoPage)
    BY <1>11 DEF RepoSettled
  <2>3. BothRefetched(repoPage) = [repoPage EXCEPT !.github = q1, !.connected = q2]
    BY <1>1 DEF BothRefetched, RepoPageRecords
  <2> HIDE DEF q1, q2
  <2>4. q1 \in QueriesOf(GithubIds) /\ q1.fetch = Sent
    BY <1>9 DEF q1
  <2> QED BY <1>1, <1>6, <2>1, <2>2, <2>3, <2>4
<1> QED BY <1>8, <1>10, <1>11

\* Both lists come with the page.
LEMMA ReposPageStarts ==
  ASSUME ReposPageInit
  PROVE  ReposInv
<1> DEFINE q1 == MountedQuery(connectedRow)
           q2 == MountedQuery(Reals(connectedRow))
<1>1. /\ connectedRow \in SUBSET GithubIds /\ repoCall = [c \in RepoCalls |-> NoRepoCall]
      /\ repoPage = [github |-> q1, connected |-> q2, asked |-> NoRepo,
                     latest |-> [connect |-> 0, disconnect |-> 0], faults |-> 0]
  BY DEF ReposPageInit
<1>2. Reals(connectedRow) \in SUBSET RepoEntries /\ \A e \in Reals(connectedRow) : ~e.stub
  BY <1>1, RealsTypes
<1>3. q1 \in QueriesOf(GithubIds) /\ q1.fetch = Sent
  BY <1>1, FetchStages DEF MountedQuery, QueriesOf
<1>4. q2 \in QueriesOf(RepoEntries) /\ q2.fetch = Sent /\ q2.data = Reals(connectedRow)
  BY <1>2, FetchStages DEF MountedQuery, QueriesOf
<1> HIDE DEF q1, q2
<1>5. /\ repoPage \in RepoPageRecords /\ repoPage.github = q1 /\ repoPage.connected = q2
  BY <1>1, <1>3, <1>4 DEF RepoPageRecords
<1>6. NoRepoCall \in RepoCallRecords /\ RepoPhase(NoRepoCall)
  BY DEF NoRepoCall, RepoCallRecords, RepoPhase
<1>7. RepoTypes /\ RepoPhases
  BY <1>1, <1>5, <1>6 DEF RepoTypes, RepoPhases
<1>8. ReposFollow
  BY <1>3, <1>4, <1>5, FetchStages DEF ReposFollow, ReadsAre
<1>9. RealsAreRead
  BY <1>4, <1>5, FetchStages DEF RealsAreRead
<1>10. StubOrRow
  BY <1>2, <1>4, <1>5, NoStubsOneEntry DEF StubOrRow, OneEntry
<1> QED BY <1>7, <1>8, <1>9, <1>10 DEF ReposInv

\* Whatever is clicked, done or answered on the page.
LEMMA ReposPageKept ==
  ASSUME ReposInv, ReposPageNext
  PROVE  ReposInv'
<1>1. CASE \/ CancelDisconnect \/ \E g \in GithubIds : AskDisconnect(g)
           \/ \E l \in Lists : RepoListRead(l) \/ RepoListAnswered(l) \/ RepoListFailed(l) \/ RepoListRetry(l)
  BY <1>1, RepoReadsKeep
<1>2. ASSUME NEW c \in RepoCalls, ConfirmDisconnect(c) \/ \E g \in GithubIds : Connect(c, g)
      PROVE  ReposInv'
  BY <1>2, RepoClicksKeep
<1>3. ASSUME NEW c \in RepoCalls, RepoCallFinds(c) \/ RepoCallWrites(c)
      PROVE  ReposInv'
  BY <1>3, RepoWorksKeep
<1>4. ASSUME NEW c \in RepoCalls, RepoAnswered(c) \/ RepoLost(c)
      PROVE  ReposInv'
  BY <1>4, RepoAnswersKeep
<1> QED BY <1>1, <1>2, <1>3, <1>4 DEF ReposPageNext

\* repositories/hooks.ts and policies/hooks.ts: once nothing is under way, a list that is
\* not in error shows the API's rows; no repository is a stub and a row at once unless a
\* call failed, at most one policy is shown as active, and "creating" ends, for any rows,
\* any number of overlapping calls and any number of faults.
THEOREM ListsFollowRows == Spec => []ListsSettle
<1> DEFINE Inv == ReposInv /\ PolicyListInv
<1>1. Init => Inv
  BY ReposPageStarts, PolicyListStarts DEF Init
<1>2. Inv /\ [Next]_vars => Inv'
  <2> SUFFICES ASSUME Inv, [Next]_vars
               PROVE  Inv'
    OBVIOUS
  <2>1. (ReposPageNext \/ UNCHANGED reposVars) /\ (PolicyListNext \/ UNCHANGED policyListVars)
    BY DEF Next, vars, ReposPagePage, RepoFiltersPage, PolicyEditorPage, PolicyListPage,
       DefaultPolicyPage, ValidatePanelPage, GenerateFormPage, DiffReadersPage,
       DiffBudgetPage, SplitDocsPage, DiffViewerPage, CliConfigPage
  <2>2. ASSUME UNCHANGED reposVars
        PROVE  ReposInv'
    <3>1. connectedRow' = connectedRow /\ repoCall' = repoCall /\ repoPage' = repoPage
      BY <2>2 DEF reposVars
    <3>2. RepoTypes' /\ RepoPhases' /\ RealsAreRead'
      BY <3>1 DEF ReposInv, RepoTypes, RepoPhases, RealsAreRead
    <3>3. ReposFollow'
      BY <3>1 DEF ReposInv, ReposFollow, RepoCallsOver
    <3>4. StubOrRow'
      BY <3>1 DEF ReposInv, StubOrRow
    <3> QED BY <3>2, <3>3, <3>4 DEF ReposInv
  <2>3. ASSUME UNCHANGED policyListVars
        PROVE  PolicyListInv'
    <3>1. policyRows' = policyRows /\ listCall' = listCall /\ policyPage' = policyPage
      BY <2>3 DEF policyListVars
    <3>2. PolicyListTypes' /\ ListPhases' /\ OneIsActive' /\ SubmittingEnds'
      BY <3>1 DEF PolicyListInv, PolicyListTypes, ListPhases, OneIsActive, SubmittingEnds
    <3>3. PolicyListFollows'
      BY <3>1 DEF PolicyListInv, PolicyListFollows, ListCallsOver, PolicyItems
    <3> QED BY <3>2, <3>3 DEF PolicyListInv
  <2> QED BY <2>1, <2>2, <2>3, ReposPageKept, PolicyListKept
<1>3. Inv => ListsSettle
  <2>1. \A q : Idle(q) => q.fetch.at = "none"
    BY DEF Idle, NoFetch
  <2>2. ReposInv => ReposPageSettles /\ StubOrRow
    BY <2>1 DEF ReposInv, ReposFollow, ReadsAre, ReposPageSettles
  <2>3. PolicyListInv => PolicyListSettles
    BY <2>1 DEF PolicyListInv, PolicyListFollows, ReadsAre, PolicyListSettles, ListCallsOver
  <2>4. PolicyListInv => OneShownActive /\ SubmittingEnds
    BY DEF PolicyListInv, OneIsActive, OneActive, OneShownActive
  <2> QED BY <2>2, <2>3, <2>4 DEF ListsSettle
<1> QED BY <1>1, <1>2, <1>3, PTL DEF Spec

(***************************************************************************)
(* The filters of the repositories page.                                   *)
(***************************************************************************)
FilterSets == [search : BOOLEAN, archived : BOOLEAN, page : Nat \ {0}]

FilterRecords ==
  [state : FilterSets, url : FilterSets, timer : {NoTimer} \cup {<<f>> : f \in FilterSets},
   nav : Seq(FilterSets), pending : SUBSET FilterSets, items : SUBSET Repos,
   edits : Nat, stale : BOOLEAN, muddled : BOOLEAN]

\* The replaces under way are those whose echo is still expected, each once.
NavFits(f) ==
  ~f.muddled =>
    /\ \A i \in 1 .. Len(f.nav) : f.nav[i] \in f.pending
    /\ \A p \in f.pending : \E i \in 1 .. Len(f.nav) : f.nav[i] = p
    /\ \A i, j \in 1 .. Len(f.nav) : f.nav[i] = f.nav[j] => i = j

\* Where the URL will be when the timer and the router are done.
UrlToBe(f) ==
  IF f.timer # NoTimer THEN f.timer[1]
  ELSE IF f.nav = <<>> THEN f.url ELSE f.nav[Len(f.nav)]

UrlFits(f) == ~f.stale /\ ~f.muddled => UrlToBe(f) = f.state

FilterInv == filters \in FilterRecords /\ NavFits(filters) /\ UrlFits(filters)

\* A filter changed is still a set of filters.
LEMMA FiltersChanged ==
  ASSUME NEW s \in FilterSets, NEW b \in BOOLEAN, NEW p \in Nat \ {0}
  PROVE  /\ [s EXCEPT !.search = b, !.page = 1] \in FilterSets
         /\ [s EXCEPT !.archived = b, !.page = 1] \in FilterSets
         /\ [s EXCEPT !.page = p] \in FilterSets
<1>1. 1 \in Nat \ {0}
  OBVIOUS
<1>2. ASSUME NEW n \in Nat \ {0}
      PROVE  /\ [s EXCEPT !.search = b, !.page = n] \in FilterSets
             /\ [s EXCEPT !.archived = b, !.page = n] \in FilterSets
             /\ [s EXCEPT !.page = n] \in FilterSets
  BY DEF FilterSets
<1> QED BY <1>1, <1>2

\* The page opens on what its URL says.
LEMMA FiltersStart ==
  ASSUME FiltersInit
  PROVE  FilterInv
<1>1. PICK url \in {NoFilters, [NoFilters EXCEPT !.page = 2]} :
        filters = [state |-> url, url |-> url, timer |-> NoTimer, nav |-> <<>>, pending |-> {},
                   items |-> Repos, edits |-> 0, stale |-> FALSE, muddled |-> FALSE]
  BY DEF FiltersInit
<1>2. url \in FilterSets
  <2>1. NoFilters \in FilterSets
    BY DEF NoFilters, FilterSets
  <2>2. [NoFilters EXCEPT !.page = 2] \in FilterSets
    BY <2>1 DEF FilterSets
  <2> QED BY <2>1, <2>2
<1>3. filters \in FilterRecords
  BY <1>1, <1>2 DEF FilterRecords
<1> QED
  BY <1>1, <1>3 DEF FilterInv, NavFits, UrlFits, UrlToBe

\* syncUrl: one more replace and one more echo to expect, the latest.
LEMMA UrlSynced ==
  ASSUME NEW f \in FilterRecords, NavFits(f), NEW next \in FilterSets
  PROVE  LET g == SyncUrl(f, next) IN
         /\ g \in FilterRecords /\ NavFits(g)
         /\ g.nav # <<>> /\ g.nav[Len(g.nav)] = next
         /\ g.state = f.state /\ g.timer = f.timer /\ g.stale = f.stale /\ g.edits = f.edits
         /\ ~g.muddled => ~f.muddled
<1> DEFINE g == SyncUrl(f, next)
           p == f.pending \cup {next}
           n == Append(f.nav, next)
           m == (f.muddled \/ next \in f.pending)
<1>1. g = [f EXCEPT !.pending = p, !.nav = n, !.muddled = m]
  BY DEF SyncUrl
<1>2. f.nav \in Seq(FilterSets) /\ Len(f.nav) \in Nat /\ f.pending \in SUBSET FilterSets
  BY DEF FilterRecords
<1>3. /\ n \in Seq(FilterSets) /\ Len(n) = Len(f.nav) + 1 /\ n # <<>> /\ n[Len(n)] = next
      /\ \A i \in 1 .. Len(f.nav) : n[i] = f.nav[i]
  BY <1>2
<1>4. p \in SUBSET FilterSets /\ m \in BOOLEAN
  BY <1>2
<1>5. m = FALSE => ~f.muddled /\ next \notin f.pending
  OBVIOUS
<1>6. p = f.pending \cup {next}
  OBVIOUS
<1> HIDE DEF p, n, m
<1>7. /\ g \in FilterRecords /\ g.pending = p /\ g.nav = n /\ g.muddled = m
      /\ g.state = f.state /\ g.timer = f.timer /\ g.stale = f.stale /\ g.edits = f.edits
  BY <1>1, <1>3, <1>4 DEF FilterRecords
<1> HIDE DEF g
<1>8. NavFits(g)
  <2> SUFFICES ASSUME m = FALSE
               PROVE  /\ \A i \in 1 .. Len(n) : n[i] \in p
                      /\ \A q \in p : \E i \in 1 .. Len(n) : n[i] = q
                      /\ \A i, j \in 1 .. Len(n) : n[i] = n[j] => i = j
    BY <1>4, <1>7 DEF NavFits
  <2>1. /\ \A i \in 1 .. Len(f.nav) : f.nav[i] \in f.pending
        /\ \A q \in f.pending : \E i \in 1 .. Len(f.nav) : f.nav[i] = q
        /\ \A i, j \in 1 .. Len(f.nav) : f.nav[i] = f.nav[j] => i = j
    BY <1>5 DEF NavFits
  <2>2. \A i \in 1 .. Len(n) : i \in 1 .. Len(f.nav) \/ i = Len(n)
    BY <1>2, <1>3
  <2>3. Len(n) \in 1 .. Len(n) /\ \A i \in 1 .. Len(f.nav) : i \in 1 .. Len(n)
    BY <1>2, <1>3
  <2>4. \A i \in 1 .. Len(n) : n[i] \in p
    BY <1>3, <1>6, <2>1, <2>2
  <2>5. \A q \in p : \E i \in 1 .. Len(n) : n[i] = q
    BY <1>3, <1>6, <2>1, <2>3
  <2>6. ASSUME NEW i \in 1 .. Len(n), NEW j \in 1 .. Len(n), n[i] = n[j]
        PROVE  i = j
    <3>1. \A k \in 1 .. Len(f.nav) : n[k] # next
      BY <1>3, <1>5, <2>1
    <3> QED BY <1>3, <2>1, <2>2, <2>6, <3>1
  <2> QED BY <2>4, <2>5, <2>6
<1>9. ~g.muddled => ~f.muddled
  BY <1>4, <1>5, <1>7
<1> QED
  BY <1>3, <1>7, <1>8, <1>9 DEF g

\* A filter set at once, and a reset.
LEMMA SetKeepsFilters ==
  ASSUME FilterInv, NEW next \in FilterSets,
         NEW timer \in {NoTimer, filters.timer}, NEW stale \in BOOLEAN,
         ~stale => ~filters.stale /\ timer = NoTimer,
         filters' = [SyncUrl(EditMade(filters), next)
                       EXCEPT !.state = next, !.timer = timer, !.stale = stale]
  PROVE  FilterInv' /\ filters'.edits # filters.edits
<1> DEFINE f == EditMade(filters)
           g == SyncUrl(f, next)
<1>1. /\ f \in FilterRecords /\ NavFits(f) /\ f.edits # filters.edits
      /\ f.timer = filters.timer /\ f.stale = filters.stale
  <2>1. filters.edits \in Nat /\ filters.edits + 1 \in Nat /\ filters.edits + 1 # filters.edits
    BY DEF FilterInv, FilterRecords
  <2> DEFINE e == filters.edits + 1
  <2>2. f = [filters EXCEPT !.edits = e]
    BY DEF EditMade
  <2>3. e \in Nat /\ e # filters.edits
    BY <2>1
  <2> HIDE DEF e, f
  <2>4. /\ f \in FilterRecords /\ f.edits = e /\ f.nav = filters.nav /\ f.pending = filters.pending
        /\ f.muddled = filters.muddled /\ f.timer = filters.timer /\ f.stale = filters.stale
    BY <2>2, <2>3 DEF FilterInv, FilterRecords
  <2> QED BY <2>3, <2>4 DEF FilterInv, NavFits
<1> HIDE DEF f
<1>2. /\ g \in FilterRecords /\ NavFits(g) /\ g.nav # <<>> /\ g.nav[Len(g.nav)] = next
      /\ g.edits = f.edits
  BY <1>1, UrlSynced
<1>3. filters' = [g EXCEPT !.state = next, !.timer = timer, !.stale = stale]
  BY DEF f
<1> HIDE DEF g
<1>4. timer \in {NoTimer} \cup {<<h>> : h \in FilterSets}
  BY DEF FilterInv, FilterRecords
<1>5. /\ filters' \in FilterRecords /\ filters'.state = next /\ filters'.timer = timer
      /\ filters'.stale = stale /\ filters'.nav = g.nav /\ filters'.pending = g.pending
      /\ filters'.muddled = g.muddled /\ filters'.edits = g.edits
  BY <1>2, <1>3, <1>4 DEF FilterRecords
<1>6. NavFits(filters')
  BY <1>2, <1>5 DEF NavFits
<1>7. UrlFits(filters')
  BY <1>2, <1>5 DEF UrlFits, UrlToBe
<1>8. NavFits(filters)' /\ UrlFits(filters)'
  BY <1>6, <1>7 DEF NavFits, UrlFits, UrlToBe
<1> QED BY <1>1, <1>2, <1>5, <1>8 DEF FilterInv

\* Typing in the search, its timer, a new list: what else changes a field or two.
LEMMA EditKeepsFilters ==
  ASSUME FilterInv, (\E b \in BOOLEAN : SetSearch(b)) \/ (\E items \in SUBSET Repos : ItemsChange(items))
  PROVE  FilterInv' /\ filters'.edits # filters.edits
<1> DEFINE e == filters.edits + 1
<1>1. filters.edits \in Nat /\ e \in Nat /\ e # filters.edits /\ filters.state \in FilterSets
  BY DEF FilterInv, FilterRecords
<1> HIDE DEF e
<1>2. ASSUME NEW b \in BOOLEAN, SetSearch(b)
      PROVE  FilterInv' /\ filters'.edits # filters.edits
  <2> DEFINE next == [filters.state EXCEPT !.search = b, !.page = 1]
  <2>1. next \in FilterSets
    <3>1. 1 \in Nat \ {0}
      OBVIOUS
    <3> QED BY <1>1, <3>1, FiltersChanged
  <2>2. filters' = [filters EXCEPT !.edits = e, !.state = next, !.timer = <<next>>]
    BY <1>2 DEF SetSearch, EditMade, e
  <2> HIDE DEF next
  <2>3. <<next>> \in {NoTimer} \cup {<<f>> : f \in FilterSets} /\ <<next>> # NoTimer /\ <<next>>[1] = next
    BY <2>1 DEF NoTimer
  <2>4. /\ filters' \in FilterRecords /\ filters'.state = next /\ filters'.timer = <<next>>
        /\ filters'.nav = filters.nav /\ filters'.pending = filters.pending
        /\ filters'.muddled = filters.muddled /\ filters'.edits = e
    BY <1>1, <2>1, <2>2, <2>3 DEF FilterInv, FilterRecords
  <2>5. NavFits(filters')
    BY <2>4 DEF FilterInv, NavFits
  <2>6. UrlFits(filters')
    BY <2>3, <2>4 DEF UrlFits, UrlToBe
  <2>7. NavFits(filters)' /\ UrlFits(filters)'
    BY <2>5, <2>6 DEF NavFits, UrlFits, UrlToBe
  <2> QED BY <1>1, <2>4, <2>7 DEF FilterInv
<1>3. ASSUME NEW items \in SUBSET Repos, ItemsChange(items)
      PROVE  FilterInv' /\ filters'.edits # filters.edits
  <2>1. filters' = [filters EXCEPT !.edits = e, !.items = items]
    BY <1>3 DEF ItemsChange, EditMade, e
  <2>2. /\ filters' \in FilterRecords /\ filters'.state = filters.state /\ filters'.timer = filters.timer
        /\ filters'.nav = filters.nav /\ filters'.pending = filters.pending /\ filters'.url = filters.url
        /\ filters'.stale = filters.stale /\ filters'.muddled = filters.muddled /\ filters'.edits = e
    BY <1>1, <2>1 DEF FilterInv, FilterRecords
  <2>3. NavFits(filters)' /\ UrlFits(filters)'
    BY <2>2 DEF FilterInv, NavFits, UrlFits, UrlToBe
  <2> QED BY <1>1, <2>2, <2>3 DEF FilterInv
<1> QED BY <1>2, <1>3

\* The timer passes its captured next on to the router.
LEMMA TimerKeepsFilters ==
  ASSUME FilterInv, SearchTimerFires
  PROVE  FilterInv' /\ filters'.state = filters.state
<1>1. PICK next \in FilterSets : filters.timer = <<next>> /\ filters.timer[1] = next
  BY DEF SearchTimerFires, FilterInv, FilterRecords
<1> DEFINE g == SyncUrl(filters, next)
<1>2. /\ g \in FilterRecords /\ NavFits(g) /\ g.nav # <<>> /\ g.nav[Len(g.nav)] = next
      /\ g.state = filters.state /\ g.stale = filters.stale /\ (~g.muddled => ~filters.muddled)
  BY <1>1, UrlSynced DEF FilterInv
<1>3. filters' = [g EXCEPT !.timer = NoTimer]
  BY <1>1 DEF SearchTimerFires
<1> HIDE DEF g
<1>4. /\ filters' \in FilterRecords /\ filters'.state = g.state /\ filters'.timer = NoTimer
      /\ filters'.nav = g.nav /\ filters'.pending = g.pending /\ filters'.stale = g.stale
      /\ filters'.muddled = g.muddled
  BY <1>2, <1>3 DEF FilterRecords
<1>5. ~g.stale /\ ~g.muddled => next = g.state
  BY <1>1, <1>2 DEF FilterInv, UrlFits, UrlToBe, NoTimer
<1>6. NavFits(filters)' /\ UrlFits(filters)'
  BY <1>2, <1>4, <1>5 DEF NavFits, UrlFits, UrlToBe
<1> QED BY <1>2, <1>4, <1>6 DEF FilterInv

\* The effect on the URL: an echo that was expected changes no filter.
LEMMA UrlTaken ==
  ASSUME NEW f \in FilterRecords, NEW url \in FilterSets
  PROVE  LET g == UrlChanged(f, url) IN
         /\ g \in FilterRecords /\ g.url = url
         /\ g.timer = f.timer /\ g.nav = f.nav /\ g.stale = f.stale /\ g.muddled = f.muddled
         /\ g.edits = f.edits
         /\ url = f.url => g = f
         /\ url # f.url /\ url \in f.pending => g.state = f.state /\ g.pending = f.pending \ {url}
         /\ url # f.url /\ url \notin f.pending => g.state = url /\ g.pending = {}
BY DEF UrlChanged, FilterRecords

\* The router is done with a replace, and what came before it.
LEMMA ReplaceKeepsFilters ==
  ASSUME FilterInv, ReplaceEnds
  PROVE  FilterInv' /\ (~filters'.muddled => filters'.state = filters.state)
<1> DEFINE nav == filters.nav
<1>1. /\ nav \in Seq(FilterSets) /\ Len(nav) \in Nat /\ DOMAIN nav = 1 .. Len(nav)
      /\ filters \in FilterRecords /\ filters.muddled \in BOOLEAN
  BY DEF FilterInv, FilterRecords
<1>2. PICK k \in 1 .. Len(nav) :
        LET f == [filters EXCEPT !.nav = SubSeq(@, k + 1, Len(@)),
                                 !.muddled = @ \/ k > 1 \/ nav[k] = filters.url]
        IN filters' = UrlChanged(f, nav[k])
  BY <1>1 DEF ReplaceEnds
<1> DEFINE rest == SubSeq(nav, k + 1, Len(nav))
           m == (filters.muddled \/ k > 1 \/ nav[k] = filters.url)
           f == [filters EXCEPT !.nav = rest, !.muddled = m]
<1>3. rest \in Seq(FilterSets) /\ nav[k] \in FilterSets
  BY <1>1
<1>4. m \in BOOLEAN /\ (m = FALSE => ~filters.muddled /\ k = 1 /\ nav[k] # filters.url)
  BY <1>2
<1>5. k = 1 => Len(rest) = Len(nav) - 1 /\ \A i \in 1 .. Len(nav) - 1 : rest[i] = nav[i + 1]
  BY <1>1
<1>6. filters' = UrlChanged(f, nav[k])
  BY <1>2
<1> HIDE DEF rest, m, nav
<1>7. /\ f \in FilterRecords /\ f.nav = rest /\ f.muddled = m /\ f.url = filters.url
      /\ f.pending = filters.pending /\ f.state = filters.state /\ f.timer = filters.timer
      /\ f.stale = filters.stale
  BY <1>1, <1>3, <1>4 DEF FilterRecords
<1> HIDE DEF f
<1>8. /\ filters' \in FilterRecords /\ filters'.url = nav[k] /\ filters'.timer = filters.timer
      /\ filters'.nav = rest /\ filters'.stale = filters.stale /\ filters'.muddled = m
      /\ nav[k] # filters.url /\ nav[k] \in filters.pending
           => filters'.state = filters.state /\ filters'.pending = filters.pending \ {nav[k]}
  BY <1>3, <1>6, <1>7, UrlTaken
<1>9. ASSUME m = FALSE
      PROVE  /\ filters'.state = filters.state /\ NavFits(filters') /\ UrlFits(filters')
  <2>1. /\ k = 1 /\ nav[1] # filters.url /\ ~filters.muddled /\ 1 \in 1 .. Len(nav)
    BY <1>2, <1>4, <1>9
  <2>2. /\ \A i \in 1 .. Len(nav) : nav[i] \in filters.pending
        /\ \A p \in filters.pending : \E i \in 1 .. Len(nav) : nav[i] = p
        /\ \A i, j \in 1 .. Len(nav) : nav[i] = nav[j] => i = j
    BY <2>1 DEF FilterInv, NavFits, nav
  <2>3. filters'.state = filters.state /\ filters'.pending = filters.pending \ {nav[1]}
    BY <1>8, <2>1, <2>2
  <2>4. /\ Len(rest) = Len(nav) - 1
        /\ \A i \in 1 .. Len(rest) : rest[i] = nav[i + 1] /\ i + 1 \in 1 .. Len(nav) /\ i + 1 # 1
    <3>1. Len(rest) = Len(nav) - 1 /\ \A i \in 1 .. Len(nav) - 1 : rest[i] = nav[i + 1]
      BY <1>5, <2>1
    <3>2. \A i \in 1 .. Len(nav) - 1 : i + 1 \in 1 .. Len(nav) /\ i + 1 # 1
      BY <1>1
    <3> QED BY <3>1, <3>2
  <2>5. \A i \in 1 .. Len(rest) : rest[i] \in filters'.pending
    BY <2>1, <2>2, <2>3, <2>4
  <2>6. ASSUME NEW p \in filters'.pending
        PROVE  \E i \in 1 .. Len(rest) : rest[i] = p
    <3>1. PICK i \in 1 .. Len(nav) : nav[i] = p /\ i # 1
      BY <2>2, <2>3
    <3>2. i - 1 \in 1 .. Len(rest) /\ (i - 1) + 1 = i
      BY <1>1, <2>4, <3>1
    <3> QED BY <2>4, <3>1, <3>2
  <2>7. ASSUME NEW i \in 1 .. Len(rest), NEW j \in 1 .. Len(rest), rest[i] = rest[j]
        PROVE  i = j
    <3>1. i + 1 = j + 1
      BY <2>2, <2>4, <2>7
    <3> QED BY <1>1, <2>4, <3>1
  <2>8. NavFits(filters')
    BY <1>8, <2>5, <2>6, <2>7 DEF NavFits
  <2>9. ~filters.stale => UrlToBe(filters) = filters.state
    BY <2>1 DEF FilterInv, UrlFits
  <2>10. filters.timer = NoTimer => UrlToBe(filters) = nav[Len(nav)]
    BY <1>1, <2>1 DEF UrlToBe, nav
  <2>11. CASE Len(nav) = 1
    <3>1. rest = <<>>
      BY <1>3, <2>4, <2>11
    <3> QED BY <1>8, <2>1, <2>3, <2>8, <2>9, <2>10, <2>11, <3>1 DEF UrlFits, UrlToBe
  <2>12. CASE Len(nav) # 1
    <3>1. rest # <<>> /\ rest[Len(rest)] = nav[Len(nav)]
      BY <1>1, <2>1, <2>4, <2>12
    <3> QED BY <1>8, <2>3, <2>8, <2>9, <2>10, <3>1 DEF UrlFits, UrlToBe
  <2> QED BY <2>3, <2>8, <2>11, <2>12
<1>10. NavFits(filters') /\ UrlFits(filters')
  BY <1>4, <1>8, <1>9 DEF NavFits, UrlFits
<1>11. NavFits(filters)' /\ UrlFits(filters)'
  BY <1>10 DEF NavFits, UrlFits, UrlToBe
<1> QED BY <1>4, <1>8, <1>9, <1>11 DEF FilterInv

\* Back and forward, which no replace and no timer overtake.
LEMMA NavigationKeepsFilters ==
  ASSUME FilterInv, NEW p \in PageNumbers, Navigate([NoFilters EXCEPT !.page = p])
  PROVE  FilterInv' /\ filters'.edits # filters.edits
<1> DEFINE url == [NoFilters EXCEPT !.page = p]
           e == filters.edits + 1
           f == [filters EXCEPT !.edits = e]
<1>1. filters.edits \in Nat /\ e \in Nat /\ e # filters.edits /\ filters.nav = <<>> /\ filters.timer = NoTimer
  BY DEF FilterInv, FilterRecords, Navigate
<1>2. url \in FilterSets
  <2>1. p \in Nat \ {0}
    BY FS_CardinalityType, RepoFiltersAssumption DEF PageNumbers
  <2>2. NoFilters \in FilterSets
    BY DEF NoFilters, FilterSets
  <2> QED BY <2>1, <2>2 DEF FilterSets
<1>3. filters' = UrlChanged(f, url)
  BY DEF Navigate, EditMade
<1> HIDE DEF e, url
<1>4. /\ f \in FilterRecords /\ f.edits = e /\ f.nav = <<>> /\ f.timer = NoTimer /\ f.url = filters.url
      /\ f.state = filters.state /\ f.pending = filters.pending /\ f.stale = filters.stale
      /\ f.muddled = filters.muddled
  BY <1>1 DEF FilterInv, FilterRecords
<1> HIDE DEF f
<1>5. ~filters.muddled => filters.pending = {}
  BY <1>1 DEF FilterInv, NavFits
<1>6. NavFits(f) /\ UrlFits(f)
  BY <1>1, <1>4 DEF FilterInv, NavFits, UrlFits, UrlToBe
<1>7. /\ filters' \in FilterRecords /\ filters'.url = url /\ filters'.edits = e
      /\ filters'.timer = NoTimer /\ filters'.nav = <<>> /\ filters'.muddled = f.muddled
      /\ filters'.stale = f.stale
      /\ url = f.url => filters' = f
      /\ url # f.url /\ ~f.muddled => filters'.state = url /\ filters'.pending = {}
  BY <1>2, <1>3, <1>4, <1>5, UrlTaken
<1>8. NavFits(filters') /\ UrlFits(filters')
  <2>1. CASE url = f.url
    BY <1>6, <1>7, <2>1
  <2>2. CASE url # f.url
    BY <1>7, <2>2 DEF NavFits, UrlFits, UrlToBe
  <2> QED BY <2>1, <2>2
<1>9. NavFits(filters)' /\ UrlFits(filters)'
  BY <1>8 DEF NavFits, UrlFits, UrlToBe
<1> QED BY <1>1, <1>7, <1>9 DEF FilterInv

\* Every step of the filters keeps their invariant, and one that is no edit leaves the
\* state alone unless the expected echoes have got muddled.
LEMMA FiltersKept ==
  ASSUME FilterInv, FiltersNext
  PROVE  /\ FilterInv'
         /\ filters'.edits = filters.edits /\ ~filters'.muddled => filters'.state = filters.state
<1>1. filters.state \in FilterSets /\ filters.timer \in {NoTimer, filters.timer} /\ filters.stale \in BOOLEAN
  BY DEF FilterInv, FilterRecords
<1>2. CASE SearchTimerFires
  BY <1>2, TimerKeepsFilters
<1>3. CASE ReplaceEnds
  BY <1>3, ReplaceKeepsFilters
<1>4. CASE (\E b \in BOOLEAN : SetSearch(b)) \/ (\E items \in SUBSET Repos : ItemsChange(items))
  BY <1>4, EditKeepsFilters
<1>5. ASSUME NEW next \in FilterSets, SetAtOnce(next)
      PROVE  FilterInv' /\ filters'.edits # filters.edits
  <2> DEFINE stale == (filters.stale \/ filters.timer # NoTimer)
             g == SyncUrl(EditMade(filters), next)
  <2>1. g.stale = filters.stale /\ g.timer = filters.timer /\ g = [g EXCEPT !.timer = filters.timer]
    BY DEF SyncUrl, EditMade, FilterInv, FilterRecords
  <2>2. filters' = [g EXCEPT !.state = next, !.timer = filters.timer, !.stale = stale]
    <3>1. filters' = [g EXCEPT !.state = next, !.stale = g.stale \/ filters.timer # NoTimer]
      BY <1>5 DEF SetAtOnce
    <3> HIDE DEF g
    <3> QED BY <2>1, <3>1
  <2>3. stale \in BOOLEAN /\ (~stale => ~filters.stale /\ filters.timer = NoTimer)
    BY <1>1
  <2> HIDE DEF stale
  <2> QED BY <1>1, <2>2, <2>3, SetKeepsFilters
<1>6. ASSUME NEW b \in BOOLEAN, SetShowArchived(b)
      PROVE  FilterInv' /\ filters'.edits # filters.edits
  <2>1. 1 \in Nat \ {0}
    OBVIOUS
  <2> QED BY <1>1, <1>5, <1>6, <2>1, FiltersChanged DEF SetShowArchived
<1>7. ASSUME NEW p \in PageNumbers, SetPage(p)
      PROVE  FilterInv' /\ filters'.edits # filters.edits
  <2>1. p \in Nat \ {0}
    BY FS_CardinalityType, RepoFiltersAssumption DEF PageNumbers
  <2> QED BY <1>1, <1>5, <1>7, <2>1, FiltersChanged DEF SetPage
<1>8. ASSUME NEW p \in PageNumbers, Navigate([NoFilters EXCEPT !.page = p])
      PROVE  FilterInv' /\ filters'.edits # filters.edits
  BY <1>8, NavigationKeepsFilters
<1>9. ASSUME ResetFilters
      PROVE  FilterInv' /\ filters'.edits # filters.edits
  <2> DEFINE g == SyncUrl(EditMade(filters), NoFilters)
  <2>1. g = [g EXCEPT !.stale = filters.stale]
    BY DEF SyncUrl, EditMade, FilterInv, FilterRecords
  <2>2. filters' = [g EXCEPT !.state = NoFilters, !.timer = NoTimer, !.stale = filters.stale]
    <3>1. filters' = [g EXCEPT !.state = NoFilters, !.timer = NoTimer]
      BY <1>9 DEF ResetFilters
    <3> HIDE DEF g
    <3> QED BY <2>1, <3>1
  <2>3. NoFilters \in FilterSets /\ NoTimer \in {NoTimer, filters.timer}
    BY DEF NoFilters, FilterSets
  <2> QED BY <1>1, <2>2, <2>3, SetKeepsFilters
<1> QED BY <1>2, <1>3, <1>4, <1>6, <1>7, <1>8, <1>9 DEF FiltersNext

\* Of n in pages of this size, the number of pages, the one shown, and that it shows one.
PagesOf(n, size) == (n + size - 1) \div size
PageShown(n, size, asked) == IF asked < PagesOf(n, size) THEN asked ELSE PagesOf(n, size)
PageHasRow(n, size, asked) ==
  \E i \in 1 .. n : /\ (PageShown(n, size, asked) - 1) * size < i
                     /\ i <= PageShown(n, size, asked) * size

\* No page past the last, and every one of them has something on it.
LEMMA PagesHaveRows ==
  ASSUME NEW n \in Nat, n >= 1, NEW size \in Nat \ {0}, NEW asked \in Nat \ {0}
  PROVE  PageHasRow(n, size, asked)
<1> DEFINE pages == PagesOf(n, size)
           at == PageShown(n, size, asked)
<1>0. pages = (n + size - 1) \div size /\ at = IF asked < pages THEN asked ELSE pages
  BY DEF PagesOf, PageShown
<1> SUFFICES \E i \in 1 .. n : (at - 1) * size < i /\ i <= at * size
  BY DEF PageHasRow
<1> HIDE DEF pages, at
<1>1. pages \in Int /\ pages * size <= n + size - 1 /\ n + size - 1 < pages * size + size
  BY <1>0, SMTT(30)
<1>2. pages >= 1
  <2>1. pages <= 0 => pages * size <= 0
    BY <1>1, SMTT(30)
  <2> QED BY <1>1, <2>1
<1>3. at \in Nat /\ 1 <= at /\ at <= pages
  BY <1>0, <1>1, <1>2
<1> DEFINE past == (at - 1) * size
<1>4. past \in Nat /\ past <= (pages - 1) * size
  <2> DEFINE a == at - 1
             d == pages - at
  <2>1. a \in Nat /\ d \in Nat /\ pages - 1 = a + d
    BY <1>1, <1>3
  <2> HIDE DEF a, d
  <2>2. a * size \in Nat /\ d * size \in Nat /\ (a + d) * size = a * size + d * size
    BY <2>1, SMTT(30)
  <2>3. past = a * size /\ (pages - 1) * size = (a + d) * size
    BY <2>1 DEF a
  <2> QED BY <2>2, <2>3
<1>5. (pages - 1) * size = pages * size - size /\ at * size = past + size
  BY <1>1, <1>3, SMTT(30)
<1> HIDE DEF past
<1>6. past + 1 \in 1 .. n /\ past < past + 1 /\ past + 1 <= at * size
  BY <1>1, <1>4, <1>5
<1> QED BY <1>6 DEF past

\* use-repo-filters.ts: once the timer and the router are done the URL tells the filters,
\* a late echo undoes no edit, and the page shown has a repository whenever one passes
\* the filters, for any repositories, any page length and any number of edits; what is
\* excepted, a changed filter under a running timer and muddled echoes, is excepted by
\* the properties themselves.
THEOREM UrlAlwaysFollows == Spec => UrlFollowsFilters
<1> DEFINE Echoes == filters'.edits = filters.edits /\ ~filters'.muddled
                       => filters'.state = filters.state
<1>1. Init => FilterInv
  BY FiltersStart DEF Init
<1>2. FilterInv /\ [Next]_vars => FilterInv' /\ [Echoes]_filters
  <2> SUFFICES ASSUME FilterInv, [Next]_vars
               PROVE  FilterInv' /\ [Echoes]_filters
    OBVIOUS
  <2>1. FiltersNext \/ UNCHANGED filters
    BY DEF Next, vars, ReposPagePage, RepoFiltersPage, PolicyEditorPage, PolicyListPage,
       DefaultPolicyPage, ValidatePanelPage, GenerateFormPage, DiffReadersPage,
       DiffBudgetPage, SplitDocsPage, DiffViewerPage, CliConfigPage
  <2>2. CASE UNCHANGED filters
    BY <2>2 DEF FilterInv, NavFits, UrlFits, UrlToBe
  <2>3. CASE FiltersNext
    BY <2>3, FiltersKept
  <2> QED BY <2>1, <2>2, <2>3
<1>3. FilterInv => UrlTellsFilters
  BY DEF FilterInv, UrlFits, UrlToBe, UrlTellsFilters
<1>4. FilterInv => PageNotEmpty
  <2> SUFFICES ASSUME FilterInv, Filtered # {}
               PROVE  Paginated # {}
    BY DEF PageNotEmpty
  <2> DEFINE n == Cardinality(Filtered)
  <2>1. IsFiniteSet(Filtered)
    <3>1. Filtered \subseteq Repos
      BY DEF Filtered, FilterInv, FilterRecords
    <3> QED BY <3>1, FS_Subset, RepoFiltersAssumption
  <2>2. n \in Nat /\ n >= 1 /\ TotalFiltered = n
    BY <2>1, FS_CardinalityType, FS_EmptySet DEF TotalFiltered
  <2> HIDE DEF n
  <2>3. filters.state.page \in Nat \ {0} /\ ReposPerPage \in Nat \ {0}
    BY RepoFiltersAssumption DEF FilterInv, FilterRecords, FilterSets
  <2>4. PageHasRow(n, ReposPerPage, filters.state.page)
    BY <2>2, <2>3, PagesHaveRows
  <2>5. TotalPages = PagesOf(n, ReposPerPage)
    BY <2>2 DEF TotalPages, PagesOf
  <2>6. ClampedPage = PageShown(n, ReposPerPage, filters.state.page)
    BY <2>5 DEF ClampedPage, PageShown
  <2> QED BY <2>2, <2>4, <2>6 DEF Paginated, PageHasRow
<1>5. Spec => [](UrlTellsFilters /\ PageNotEmpty)
  BY <1>1, <1>2, <1>3, <1>4, PTL DEF Spec
<1>6. Spec => EchoesIgnored
  BY <1>1, <1>2, PTL DEF Spec, EchoesIgnored
<1> QED BY <1>5, <1>6 DEF UrlFollowsFilters

(***************************************************************************)
(* The forms over rules, of the policy editor and of the default policy.   *)
(***************************************************************************)
RowWords == {"feat", "fix", "ui"}
RowPatterns == {"", "ui.*", BadPattern}
RowTexts == [is : Seq(RowWords), tidy : BOOLEAN]
RowNumbers == [is : Nat, tidy : BOOLEAN]

FormStates ==
  [ruleType : {"allowedTypes"}, raw : RowTexts]
    \cup [ruleType : {"allowedScopes"}, mode : {"list", "regex"}, raw : RowTexts, pattern : RowPatterns]
    \cup [ruleType : {"maxSubjectLength"}, value : RowNumbers]
    \cup [ruleType : {"bodyRequired", "footerRequired"}, checked : BOOLEAN]

ListValues == [kind : {"list"}, values : Seq(RowWords)]
RuleInputs ==
  [ruleType : {"allowedTypes"}, ruleValue : ListValues]
    \cup [ruleType : {"allowedScopes"}, ruleValue : ListValues \cup [kind : {"regex"}, pattern : RowPatterns]]
    \cup [ruleType : {"maxSubjectLength"}, ruleValue : [kind : {"one"}, is : Nat]]
    \cup [ruleType : {"bodyRequired", "footerRequired"}, ruleValue : [kind : {"flag"}, on : BOOLEAN]]

\* The rows and rules of the kinds in use.
FormRows == {s \in FormStates : s.ruleType \in RuleTypes}
RowRules == {r \in RuleInputs : r.ruleType \in RuleTypes}

\* The four kinds of row, each with its fields.
LEMMA RowShapes ==
  ASSUME NEW s \in FormStates
  PROVE  \/ s.ruleType = "allowedTypes" /\ \E raw \in RowTexts : s = Types(raw)
         \/ /\ s.ruleType = "allowedScopes"
            /\ \E m \in {"list", "regex"}, raw \in RowTexts, p \in RowPatterns : s = Scopes(m, raw, p)
         \/ s.ruleType = "maxSubjectLength" /\ \E v \in RowNumbers : s = Subject(v)
         \/ /\ s.ruleType \in {"bodyRequired", "footerRequired"}
            /\ \E b \in BOOLEAN : s = Required(s.ruleType, b)
<1>1. CASE s \in [ruleType : {"allowedTypes"}, raw : RowTexts]
  <2>1. s.raw \in RowTexts /\ s = Types(s.raw) /\ s.ruleType = "allowedTypes"
    BY <1>1 DEF Types
  <2> QED BY <2>1
<1>2. CASE s \in [ruleType : {"allowedScopes"}, mode : {"list", "regex"}, raw : RowTexts, pattern : RowPatterns]
  <2>1. /\ s.mode \in {"list", "regex"} /\ s.raw \in RowTexts /\ s.pattern \in RowPatterns
        /\ s = Scopes(s.mode, s.raw, s.pattern) /\ s.ruleType = "allowedScopes"
    BY <1>2 DEF Scopes
  <2> QED BY <2>1
<1>3. CASE s \in [ruleType : {"maxSubjectLength"}, value : RowNumbers]
  <2>1. s.value \in RowNumbers /\ s = Subject(s.value) /\ s.ruleType = "maxSubjectLength"
    BY <1>3 DEF Subject
  <2> QED BY <2>1
<1>4. CASE s \in [ruleType : {"bodyRequired", "footerRequired"}, checked : BOOLEAN]
  <2>1. /\ s.checked \in BOOLEAN /\ s = Required(s.ruleType, s.checked)
        /\ s.ruleType \in {"bodyRequired", "footerRequired"}
    BY <1>4 DEF Required
  <2> QED BY <2>1
<1> QED BY <1>1, <1>2, <1>3, <1>4 DEF FormStates

\* What each kind of row is built from makes a row of it.
LEMMA ShapesAreRows ==
  /\ \A raw \in RowTexts : Types(raw) \in FormStates /\ Types(raw).ruleType = "allowedTypes"
  /\ \A m \in {"list", "regex"}, raw \in RowTexts, p \in RowPatterns :
       Scopes(m, raw, p) \in FormStates /\ Scopes(m, raw, p).ruleType = "allowedScopes"
  /\ \A v \in RowNumbers : Subject(v) \in FormStates /\ Subject(v).ruleType = "maxSubjectLength"
  /\ \A k \in {"bodyRequired", "footerRequired"}, b \in BOOLEAN :
       Required(k, b) \in FormStates /\ Required(k, b).ruleType = k
BY DEF FormStates, Types, Scopes, Subject, Required

\* The texts the forms use.
LEMMA TextsOfRows ==
  /\ \A v \in Seq(RowWords) : Spelt(v) \in RowTexts /\ Loose(v) \in RowTexts
  /\ \A n \in Nat : Spelt(n) \in RowNumbers /\ Loose(n) \in RowNumbers
BY DEF RowTexts, RowNumbers, Spelt, Loose

\* What a text says.
LEMMA TextsAreRead ==
  /\ \A raw \in RowTexts : raw.is \in Seq(RowWords)
  /\ \A v \in RowNumbers : v.is \in Nat
BY DEF RowTexts, RowNumbers

\* The words and patterns the forms use.
LEMMA WordsOfRows ==
  /\ <<>> \in Seq(RowWords) /\ <<"feat">> \in Seq(RowWords) /\ <<"ui">> \in Seq(RowWords)
  /\ <<"feat", "fix">> \in Seq(RowWords)
  /\ "" \in RowPatterns /\ {"ui.*", BadPattern} \subseteq RowPatterns
<1>1. <<>> \in Seq(RowWords) /\ <<"feat">> \in Seq(RowWords) /\ <<"ui">> \in Seq(RowWords)
  BY DEF RowWords
<1>2. <<"feat", "fix">> \in Seq(RowWords)
  BY DEF RowWords
<1> QED BY <1>1, <1>2 DEF RowPatterns

\* rule-form.ts 32-141: a row is sent as a rule of its kind, and a row that can be sent
\* comes back as one that sends the same.
LEMMA RowsRoundTrip ==
  ASSUME NEW s \in FormStates
  PROVE  /\ FormStateToInput(s) \in RuleInputs /\ FormStateToInput(s).ruleType = s.ruleType
         /\ Sendable(s) =>
              /\ Sendable(InputToFormState(FormStateToInput(s)))
              /\ FormStateToInput(InputToFormState(FormStateToInput(s))) = FormStateToInput(s)
<1>1. ASSUME NEW raw \in RowTexts, s = Types(raw)
      PROVE  /\ FormStateToInput(s) \in RuleInputs /\ FormStateToInput(s).ruleType = s.ruleType
             /\ Sendable(s) =>
                  /\ Sendable(InputToFormState(FormStateToInput(s)))
                  /\ FormStateToInput(InputToFormState(FormStateToInput(s))) = FormStateToInput(s)
  <2> DEFINE r == Rule("allowedTypes", List(raw.is))
  <2>1. s.ruleType = "allowedTypes" /\ s.raw = raw
    BY <1>1 DEF Types
  <2>2. FormStateToInput(s) = r /\ (Sendable(s) <=> raw.is # <<>>)
    BY <2>1 DEF FormStateToInput, Sendable
  <2>3. r \in RuleInputs /\ r.ruleType = "allowedTypes" /\ r.ruleValue.values = raw.is
    BY TextsAreRead DEF Rule, List, RuleInputs, ListValues
  <2>4. InputToFormState(r) = Types(Spelt(raw.is))
    BY <2>3 DEF InputToFormState
  <2>5. Types(Spelt(raw.is)).ruleType = "allowedTypes" /\ Types(Spelt(raw.is)).raw.is = raw.is
    BY DEF Types, Spelt
  <2>6. /\ FormStateToInput(Types(Spelt(raw.is))) = r
        /\ Sendable(Types(Spelt(raw.is))) <=> raw.is # <<>>
    BY <2>5 DEF FormStateToInput, Sendable
  <2> QED BY <2>1, <2>2, <2>3, <2>4, <2>6
<1>2. ASSUME NEW m \in {"list", "regex"}, NEW raw \in RowTexts, NEW p \in RowPatterns, s = Scopes(m, raw, p)
      PROVE  /\ FormStateToInput(s) \in RuleInputs /\ FormStateToInput(s).ruleType = s.ruleType
             /\ Sendable(s) =>
                  /\ Sendable(InputToFormState(FormStateToInput(s)))
                  /\ FormStateToInput(InputToFormState(FormStateToInput(s))) = FormStateToInput(s)
  <2>1. s.ruleType = "allowedScopes" /\ s.raw = raw /\ s.mode = m /\ s.pattern = p
    BY <1>2 DEF Scopes
  <2>2. CASE m = "list"
    <3> DEFINE r == Rule("allowedScopes", List(raw.is))
               b == Scopes("list", Spelt(raw.is), "")
    <3>1. FormStateToInput(s) = r /\ (Sendable(s) <=> raw.is # <<>>)
      BY <2>1, <2>2 DEF FormStateToInput, Sendable
    <3>2. /\ r \in RuleInputs /\ r.ruleType = "allowedScopes" /\ r.ruleValue.values = raw.is
          /\ r.ruleValue.kind = "list"
      BY TextsAreRead DEF Rule, List, RuleInputs, ListValues
    <3>3. InputToFormState(r) = b
      BY <3>2 DEF InputToFormState
    <3>4. b.ruleType = "allowedScopes" /\ b.raw.is = raw.is /\ b.mode = "list"
      BY DEF Scopes, Spelt
    <3>5. FormStateToInput(b) = r /\ (Sendable(b) <=> raw.is # <<>>)
      BY <3>4 DEF FormStateToInput, Sendable
    <3> QED BY <2>1, <3>1, <3>2, <3>3, <3>5
  <2>3. CASE m # "list"
    <3> DEFINE r == Rule("allowedScopes", Regex(p))
               b == Scopes("regex", Spelt(<<>>), p)
    <3>1. FormStateToInput(s) = r /\ (Sendable(s) <=> p # BadPattern)
      BY <2>1, <2>3 DEF FormStateToInput, Sendable
    <3>2. /\ r \in RuleInputs /\ r.ruleType = "allowedScopes" /\ r.ruleValue.pattern = p
          /\ r.ruleValue.kind = "regex"
      BY DEF Rule, Regex, RuleInputs
    <3>3. InputToFormState(r) = b
      BY <3>2 DEF InputToFormState
    <3>4. b.ruleType = "allowedScopes" /\ b.pattern = p /\ b.mode = "regex"
      BY DEF Scopes
    <3>5. FormStateToInput(b) = r /\ (Sendable(b) <=> p # BadPattern)
      BY <3>4 DEF FormStateToInput, Sendable
    <3> QED BY <2>1, <3>1, <3>2, <3>3, <3>5
  <2> QED BY <2>2, <2>3
<1>3. ASSUME NEW v \in RowNumbers, s = Subject(v)
      PROVE  /\ FormStateToInput(s) \in RuleInputs /\ FormStateToInput(s).ruleType = s.ruleType
             /\ Sendable(s) =>
                  /\ Sendable(InputToFormState(FormStateToInput(s)))
                  /\ FormStateToInput(InputToFormState(FormStateToInput(s))) = FormStateToInput(s)
  <2> DEFINE r == Rule("maxSubjectLength", One(v.is))
             b == Subject(Spelt(v.is))
  <2>1. s.ruleType = "maxSubjectLength" /\ s.value = v
    BY <1>3 DEF Subject
  <2>2. FormStateToInput(s) = r /\ (Sendable(s) <=> v.is \in 1 .. 500)
    BY <2>1 DEF FormStateToInput, Sendable
  <2>3. r \in RuleInputs /\ r.ruleType = "maxSubjectLength" /\ r.ruleValue.is = v.is
    BY TextsAreRead DEF Rule, One, RuleInputs
  <2>4. InputToFormState(r) = b
    BY <2>3 DEF InputToFormState
  <2>5. b.ruleType = "maxSubjectLength" /\ b.value.is = v.is
    BY DEF Subject, Spelt
  <2>6. FormStateToInput(b) = r /\ (Sendable(b) <=> v.is \in 1 .. 500)
    BY <2>5 DEF FormStateToInput, Sendable
  <2> QED BY <2>1, <2>2, <2>3, <2>4, <2>6
<1>4. ASSUME NEW k \in {"bodyRequired", "footerRequired"}, NEW c \in BOOLEAN, s = Required(k, c)
      PROVE  /\ FormStateToInput(s) \in RuleInputs /\ FormStateToInput(s).ruleType = s.ruleType
             /\ Sendable(s) =>
                  /\ Sendable(InputToFormState(FormStateToInput(s)))
                  /\ FormStateToInput(InputToFormState(FormStateToInput(s))) = FormStateToInput(s)
  <2> DEFINE r == Rule(k, Flag(c))
  <2>1. s.ruleType = k /\ s.checked = c
    BY <1>4 DEF Required
  <2>2. FormStateToInput(s) = r /\ Sendable(s)
    BY <2>1 DEF FormStateToInput, Sendable
  <2>3. r \in RuleInputs /\ r.ruleType = k /\ r.ruleValue.on = c
    BY DEF Rule, Flag, RuleInputs
  <2>4. InputToFormState(r) = s
    BY <1>4, <2>3 DEF InputToFormState
  <2> QED BY <2>1, <2>2, <2>3, <2>4
<1> QED BY <1>1, <1>2, <1>3, <1>4, RowShapes

\* A rule is shown as a row of its kind.
LEMMA RulesAreShown ==
  ASSUME NEW r \in RuleInputs
  PROVE  InputToFormState(r) \in FormStates /\ InputToFormState(r).ruleType = r.ruleType
<1>1. CASE r \in [ruleType : {"allowedTypes"}, ruleValue : ListValues]
  <2>1. r.ruleType = "allowedTypes" /\ r.ruleValue.values \in Seq(RowWords)
    BY <1>1 DEF ListValues
  <2>2. InputToFormState(r) = Types(Spelt(r.ruleValue.values))
    BY <2>1 DEF InputToFormState
  <2>3. Spelt(r.ruleValue.values) \in RowTexts
    BY <2>1, TextsOfRows, WordsOfRows
  <2> QED BY <2>1, <2>2, <2>3, WordsOfRows, ShapesAreRows
<1>2. CASE r \in [ruleType : {"allowedScopes"}, ruleValue : ListValues]
  <2>1. r.ruleType = "allowedScopes" /\ r.ruleValue.values \in Seq(RowWords) /\ r.ruleValue.kind = "list"
    BY <1>2 DEF ListValues
  <2>2. InputToFormState(r) = Scopes("list", Spelt(r.ruleValue.values), "")
    BY <2>1 DEF InputToFormState
  <2>3. Spelt(r.ruleValue.values) \in RowTexts
    BY <2>1, TextsOfRows, WordsOfRows
  <2> QED BY <2>1, <2>2, <2>3, WordsOfRows, ShapesAreRows
<1>3. CASE r \in [ruleType : {"allowedScopes"}, ruleValue : [kind : {"regex"}, pattern : RowPatterns]]
  <2>1. r.ruleType = "allowedScopes" /\ r.ruleValue.pattern \in RowPatterns /\ r.ruleValue.kind = "regex"
    BY <1>3
  <2>2. InputToFormState(r) = Scopes("regex", Spelt(<<>>), r.ruleValue.pattern)
    BY <2>1 DEF InputToFormState
  <2>3. Spelt(<<>>) \in RowTexts
    BY <2>1, TextsOfRows, WordsOfRows
  <2> QED BY <2>1, <2>2, <2>3, WordsOfRows, ShapesAreRows
<1>4. CASE r \in [ruleType : {"maxSubjectLength"}, ruleValue : [kind : {"one"}, is : Nat]]
  <2>1. r.ruleType = "maxSubjectLength" /\ r.ruleValue.is \in Nat
    BY <1>4
  <2>2. InputToFormState(r) = Subject(Spelt(r.ruleValue.is))
    BY <2>1 DEF InputToFormState
  <2>3. Spelt(r.ruleValue.is) \in RowNumbers
    BY <2>1, TextsOfRows, WordsOfRows
  <2> QED BY <2>1, <2>2, <2>3, WordsOfRows, ShapesAreRows
<1>5. CASE r \in [ruleType : {"bodyRequired", "footerRequired"}, ruleValue : [kind : {"flag"}, on : BOOLEAN]]
  <2>1. r.ruleType \in {"bodyRequired", "footerRequired"} /\ r.ruleValue.on \in BOOLEAN
    BY <1>5
  <2>2. InputToFormState(r) = Required(r.ruleType, r.ruleValue.on)
    BY <2>1 DEF InputToFormState
  <2> QED BY <2>1, <2>2, ShapesAreRows
<1>6. \/ r \in [ruleType : {"allowedTypes"}, ruleValue : ListValues]
      \/ r \in [ruleType : {"allowedScopes"}, ruleValue : ListValues]
      \/ r \in [ruleType : {"allowedScopes"}, ruleValue : [kind : {"regex"}, pattern : RowPatterns]]
      \/ r \in [ruleType : {"maxSubjectLength"}, ruleValue : [kind : {"one"}, is : Nat]]
      \/ r \in [ruleType : {"bodyRequired", "footerRequired"}, ruleValue : [kind : {"flag"}, on : BOOLEAN]]
  BY DEF RuleInputs
<1> QED BY <1>1, <1>2, <1>3, <1>4, <1>5, <1>6

\* An added row and an edited one.
LEMMA RowsAreEdited ==
  /\ \A k \in RuleTypes : DefaultFormState(k) \in FormStates /\ DefaultFormState(k).ruleType = k
  /\ \A s \in FormStates : \A e \in RowEdits(s) : e \in FormStates /\ e.ruleType = s.ruleType
<1>1. ASSUME NEW k \in RuleTypes
      PROVE  DefaultFormState(k) \in FormStates /\ DefaultFormState(k).ruleType = k
  <2>1. k \in {"allowedTypes", "allowedScopes", "maxSubjectLength", "bodyRequired", "footerRequired"}
    BY RuleFormAssumption DEF policyRuleTypes
  <2>2. CASE k = "allowedTypes"
    <3>1. DefaultFormState(k) = Types(Spelt(<<"feat", "fix">>))
      BY <2>2 DEF DefaultFormState
    <3>2. Spelt(<<"feat", "fix">>) \in RowTexts
      BY <3>1, TextsOfRows, WordsOfRows
    <3> QED BY <2>2, <3>1, <3>2, WordsOfRows, ShapesAreRows
  <2>3. CASE k = "allowedScopes"
    <3>1. DefaultFormState(k) = Scopes("list", Spelt(<<>>), "")
      BY <2>3 DEF DefaultFormState
    <3>2. Spelt(<<>>) \in RowTexts
      BY <3>1, TextsOfRows, WordsOfRows
    <3> QED BY <2>3, <3>1, <3>2, WordsOfRows, ShapesAreRows
  <2>4. CASE k = "maxSubjectLength"
    <3>1. DefaultFormState(k) = Subject(Spelt(72)) /\ 72 \in Nat
      BY <2>4 DEF DefaultFormState
    <3>2. Spelt(72) \in RowNumbers
      BY <3>1, TextsOfRows, WordsOfRows
    <3> QED BY <2>4, <3>1, <3>2, WordsOfRows, ShapesAreRows
  <2>5. CASE k \in {"bodyRequired", "footerRequired"}
    <3>1. DefaultFormState(k) = Required(k, k = "bodyRequired")
      BY <2>5 DEF DefaultFormState
    <3>2. PICK b \in BOOLEAN : Required(k, k = "bodyRequired") = Required(k, b)
      <4>1. CASE k = "bodyRequired"
        <5>1. (k = "bodyRequired") = TRUE
          BY <4>1
        <5> QED BY <5>1
      <4>2. CASE k # "bodyRequired"
        <5>1. (k = "bodyRequired") = FALSE
          BY <4>2
        <5> QED BY <5>1
      <4> QED BY <4>1, <4>2
    <3> QED BY <2>5, <3>1, <3>2, ShapesAreRows
  <2> QED BY <2>1, <2>2, <2>3, <2>4, <2>5
<1>2. ASSUME NEW s \in FormStates, NEW e \in RowEdits(s)
      PROVE  e \in FormStates /\ e.ruleType = s.ruleType
  <2>1. ASSUME NEW raw \in RowTexts, s = Types(raw)
        PROVE  e \in FormStates /\ e.ruleType = s.ruleType
    <3>1. s.ruleType = "allowedTypes"
      BY <2>1 DEF Types
    <3>2. PICK v \in {Spelt(<<>>), Loose(<<"feat">>)} : e = Types(v)
      BY <1>2, <3>1 DEF RowEdits
    <3>3. v \in RowTexts
      BY TextsOfRows, WordsOfRows
    <3> QED BY <3>1, <3>2, <3>3, ShapesAreRows
  <2>2. ASSUME NEW m \in {"list", "regex"}, NEW raw \in RowTexts, NEW p \in RowPatterns, s = Scopes(m, raw, p)
        PROVE  e \in FormStates /\ e.ruleType = s.ruleType
    <3>1. s.ruleType = "allowedScopes" /\ s.mode = m
      BY <2>2 DEF Scopes
    <3>2. \/ \E n \in {"list", "regex"} : e = [s EXCEPT !.mode = n]
          \/ e = [s EXCEPT !.raw = Loose(<<"ui">>)]
          \/ \E q \in {"ui.*", BadPattern} : e = [s EXCEPT !.pattern = q]
      BY <1>2, <3>1 DEF RowEdits
    <3>3. /\ \A n : [s EXCEPT !.mode = n] = Scopes(n, raw, p)
          /\ \A t : [s EXCEPT !.raw = t] = Scopes(m, t, p)
          /\ \A q : [s EXCEPT !.pattern = q] = Scopes(m, raw, q)
      BY <2>2 DEF Scopes
    <3>4. Loose(<<"ui">>) \in RowTexts /\ {"ui.*", BadPattern} \subseteq RowPatterns
      BY TextsOfRows, WordsOfRows
    <3> QED BY <3>1, <3>2, <3>3, <3>4, ShapesAreRows
  <2>3. ASSUME NEW v \in RowNumbers, s = Subject(v)
        PROVE  e \in FormStates /\ e.ruleType = s.ruleType
    <3>1. s.ruleType = "maxSubjectLength"
      BY <2>3 DEF Subject
    <3>2. PICK n \in {Loose(72), Spelt(500), Spelt(501), Loose(0)} : e = Subject(n)
      BY <1>2, <3>1 DEF RowEdits
    <3>3. 72 \in Nat /\ 500 \in Nat /\ 501 \in Nat /\ 0 \in Nat
      OBVIOUS
    <3>4. n \in RowNumbers
      BY <3>3, TextsOfRows
    <3> QED BY <3>1, <3>2, <3>4, ShapesAreRows
  <2>4. ASSUME NEW k \in {"bodyRequired", "footerRequired"}, NEW c \in BOOLEAN, s = Required(k, c)
        PROVE  e \in FormStates /\ e.ruleType = s.ruleType
    <3>1. s.ruleType = k /\ s.checked = c
      BY <2>4 DEF Required
    <3>2. e = Required(k, ~c)
      BY <1>2, <3>1 DEF RowEdits
    <3>3. PICK b \in BOOLEAN : b = ~c
      OBVIOUS
    <3> QED BY <3>1, <3>2, <3>3, ShapesAreRows
  <2> QED BY <2>1, <2>2, <2>3, <2>4, RowShapes
<1> QED BY <1>1, <1>2

RowForms(H, S) ==
  [head : H, headError : BOOLEAN, entries : Seq(S), errors : SUBSET policyRuleTypes,
   baseline : [head : H, rules : Seq(S)]]

\* Rows that adding and editing does not leave.
RowsClosed(S) ==
  /\ S \subseteq FormStates
  /\ \A k \in RuleTypes : DefaultFormState(k) \in S
  /\ \A s \in S : RowEdits(s) \subseteq S

\* All rows, and those of the kinds in use.
LEMMA RowsAreClosed ==
  RowsClosed(FormStates) /\ RowsClosed(FormRows)
BY RowsAreEdited DEF RowsClosed, FormRows

\* The rows of rules.
LEMMA BuiltRows ==
  /\ \A rules \in Seq(RuleInputs) : BuildEntries(rules) \in Seq(FormStates)
  /\ \A rules \in Seq(RowRules) : BuildEntries(rules) \in Seq(FormRows)
<1>1. ASSUME NEW R, NEW S, NEW rules \in Seq(R), \A r \in R : InputToFormState(r) \in S
      PROVE  BuildEntries(rules) \in Seq(S)
  BY <1>1 DEF BuildEntries
<1>2. \A r \in RowRules : InputToFormState(r) \in FormRows
  BY RulesAreShown DEF RowRules, FormRows
<1>3. \A r \in RuleInputs : InputToFormState(r) \in FormStates
  BY RulesAreShown
<1> QED BY <1>1, <1>2, <1>3

\* The rules of rows.
LEMMA SentRules ==
  ASSUME NEW H
  PROVE  /\ \A frm \in RowForms(H, FormRows) : RulesToSend(frm) \in Seq(RowRules)
         /\ \A frm \in RowForms(H, FormStates) : RulesToSend(frm) \in Seq(RuleInputs)
<1>1. ASSUME NEW R, NEW S, NEW frm \in RowForms(H, S), \A s \in S : FormStateToInput(s) \in R
      PROVE  RulesToSend(frm) \in Seq(R)
  <2>1. frm.entries \in Seq(S)
    BY DEF RowForms
  <2> QED BY <1>1, <2>1 DEF RulesToSend
<1>2. \A s \in FormRows : FormStateToInput(s) \in RowRules
  BY RowsRoundTrip DEF RowRules, FormRows
<1>3. \A s \in FormStates : FormStateToInput(s) \in RuleInputs
  BY RowsRoundTrip
<1> QED BY <1>1, <1>2, <1>3

\* A form built from a row of the database; its baseline may be another.
LEMMA OpenedRows ==
  ASSUME NEW H, NEW S, NEW head \in H, NEW rules, BuildEntries(rules) \in Seq(S),
         NEW h2 \in H, NEW e2 \in Seq(S)
  PROVE  LET frm == FormOf(head, rules, Snapshot(h2, e2)) IN
         /\ frm \in RowForms(H, S) /\ frm.errors = {}
         /\ frm.head = head /\ frm.entries = BuildEntries(rules) /\ frm.baseline = Snapshot(h2, e2)
         /\ Snapshot(h2, e2).head = h2 /\ Snapshot(h2, e2).rules = e2
         /\ Dirty(frm) <=> Snapshot(head, BuildEntries(rules)) # Snapshot(h2, e2)
<1> DEFINE entries == BuildEntries(rules)
<1> HIDE DEF entries
<1>1. FormOf(head, rules, Snapshot(h2, e2))
        = [head |-> head, headError |-> FALSE, entries |-> entries, errors |-> {},
           baseline |-> Snapshot(h2, e2)]
  BY DEF FormOf, entries
<1>2. entries \in Seq(S)
  BY DEF entries
<1>3. /\ Snapshot(h2, e2) \in [head : H, rules : Seq(S)]
      /\ Snapshot(h2, e2).head = h2 /\ Snapshot(h2, e2).rules = e2
  BY DEF Snapshot
<1>4. /\ FormOf(head, rules, Snapshot(h2, e2)) \in RowForms(H, S)
      /\ FormOf(head, rules, Snapshot(h2, e2)).errors = {}
      /\ FormOf(head, rules, Snapshot(h2, e2)).head = head
      /\ FormOf(head, rules, Snapshot(h2, e2)).entries = entries
      /\ FormOf(head, rules, Snapshot(h2, e2)).baseline = Snapshot(h2, e2)
  BY <1>1, <1>2, <1>3 DEF RowForms
<1> QED BY <1>3, <1>4 DEF Dirty, entries

\* Clicks and keys change rows and errors, and an error belongs to a row that is left.
LEMMA EditedRows ==
  ASSUME NEW H, NEW S, RowsClosed(S), NEW frm \in RowForms(H, S), NEW g \in RowsEdited(frm)
  PROVE  /\ g \in RowForms(H, S) /\ g.baseline = frm.baseline /\ g.head = frm.head
         /\ frm.errors \subseteq UsedKinds(frm) => g.errors \subseteq UsedKinds(g)
<1> DEFINE old == frm.entries
<1>1. /\ old \in Seq(S) /\ Len(old) \in Nat /\ DOMAIN old = 1 .. Len(old)
      /\ frm.errors \in SUBSET policyRuleTypes
  BY DEF RowForms
<1>2. ASSUME NEW k \in RuleTypes, g = AddRule(frm, k)
      PROVE  /\ g \in RowForms(H, S) /\ g.baseline = frm.baseline /\ g.head = frm.head
             /\ frm.errors \subseteq UsedKinds(frm) => g.errors \subseteq UsedKinds(g)
  <2> DEFINE new == Append(old, DefaultFormState(k))
  <2>1. /\ new \in Seq(S) /\ DOMAIN new = 1 .. Len(old) + 1
        /\ \A i \in DOMAIN old : i \in DOMAIN new /\ new[i] = old[i]
    BY <1>1 DEF RowsClosed
  <2>2. g = [frm EXCEPT !.entries = new]
    BY <1>2 DEF AddRule
  <2> HIDE DEF new
  <2>3. /\ g \in RowForms(H, S) /\ g.entries = new /\ g.errors = frm.errors
        /\ g.baseline = frm.baseline /\ g.head = frm.head
    BY <2>1, <2>2 DEF RowForms
  <2> QED BY <2>1, <2>3 DEF UsedKinds
<1>3. ASSUME NEW i \in DOMAIN old, g = RemoveRule(frm, i)
      PROVE  /\ g \in RowForms(H, S) /\ g.baseline = frm.baseline /\ g.head = frm.head
             /\ frm.errors \subseteq UsedKinds(frm) => g.errors \subseteq UsedKinds(g)
  <2> DEFINE new == RemoveAt(old, i)
             errors == frm.errors \ {old[i].ruleType}
  <2>1. /\ new \in Seq(S) /\ Len(new) = Len(old) - 1
        /\ \A j \in 1 .. i - 1 : new[j] = old[j]
        /\ \A j \in i .. Len(old) - 1 : new[j] = old[j + 1]
    <3> DEFINE a == SubSeq(old, 1, i - 1)
               b == SubSeq(old, i + 1, Len(old))
    <3>1. i \in 1 .. Len(old) /\ i \in Nat
      BY <1>1
    <3>2. a \in Seq(S) /\ Len(a) = i - 1 /\ \A j \in 1 .. i - 1 : a[j] = old[j]
      BY <1>1, <3>1
    <3>3. b \in Seq(S) /\ Len(b) = Len(old) - i /\ \A j \in 1 .. Len(old) - i : b[j] = old[i + j]
      BY <1>1, <3>1
    <3>4. new = a \o b
      BY DEF RemoveAt
    <3> HIDE DEF a, b, new
    <3>5. /\ a \o b \in Seq(S) /\ Len(a \o b) = Len(old) - 1
          /\ \A j \in 1 .. Len(old) - 1 : (a \o b)[j] = IF j <= i - 1 THEN a[j] ELSE b[j - (i - 1)]
      <4>1. /\ a \o b \in Seq(S) /\ Len(a \o b) = Len(a) + Len(b)
            /\ \A j \in 1 .. Len(a) + Len(b) :
                 (a \o b)[j] = IF j <= Len(a) THEN a[j] ELSE b[j - Len(a)]
        <5>1. a \in Seq(S) /\ b \in Seq(S)
          BY <3>2, <3>3
        <5>2. a \o b \in Seq(S) /\ Len(a \o b) = Len(a) + Len(b)
          BY <5>1
        <5>3. \A j \in 1 .. Len(a) + Len(b) :
                (a \o b)[j] = IF j <= Len(a) THEN a[j] ELSE b[j - Len(a)]
          BY <5>1
        <5> QED BY <5>2, <5>3
      <4>2. Len(a) = i - 1 /\ Len(a) + Len(b) = Len(old) - 1
        BY <1>1, <3>1, <3>2, <3>3
      <4> QED BY <4>1, <4>2
    <3>6. \A j \in i .. Len(old) - 1 : j - (i - 1) \in 1 .. Len(old) - i /\ i + (j - (i - 1)) = j + 1
                                      /\ j \in 1 .. Len(old) - 1 /\ ~(j <= i - 1)
      BY <1>1, <3>1
    <3>7. \A j \in 1 .. i - 1 : j \in 1 .. Len(old) - 1 /\ j <= i - 1
      BY <1>1, <3>1
    <3>8. \A j \in i .. Len(old) - 1 : new[j] = old[j + 1]
      BY <3>3, <3>4, <3>5, <3>6
    <3> QED BY <3>2, <3>4, <3>5, <3>7, <3>8
  <2>2. errors \in SUBSET policyRuleTypes
    BY <1>1
  <2>3. g = [frm EXCEPT !.entries = new, !.errors = errors]
    BY <1>3 DEF RemoveRule
  <2> HIDE DEF new
  <2>4. \A j \in DOMAIN old : j # i => \E n \in DOMAIN new : new[n] = old[j]
    <3> SUFFICES ASSUME NEW j \in DOMAIN old, j # i
                 PROVE  \E n \in DOMAIN new : new[n] = old[j]
      OBVIOUS
    <3>1. DOMAIN new = 1 .. Len(old) - 1
      BY <1>1, <2>1
    <3>2. CASE j < i
      <4>1. j \in 1 .. i - 1 /\ j \in 1 .. Len(old) - 1
        BY <1>1, <3>2
      <4> QED BY <2>1, <3>1, <4>1
    <3>3. CASE j > i
      <4>1. j - 1 \in i .. Len(old) - 1 /\ j - 1 \in 1 .. Len(old) - 1 /\ (j - 1) + 1 = j
        BY <1>1, <3>3
      <4> QED BY <2>1, <3>1, <4>1
    <3> QED BY <1>1, <3>2, <3>3
  <2> HIDE DEF errors
  <2>5. /\ g \in RowForms(H, S) /\ g.entries = new /\ g.errors = errors
        /\ g.baseline = frm.baseline /\ g.head = frm.head
    BY <2>1, <2>2, <2>3 DEF RowForms
  <2>6. UsedKinds(frm) \ {old[i].ruleType} \subseteq UsedKinds(g)
    BY <2>4, <2>5 DEF UsedKinds
  <2> QED BY <2>5, <2>6 DEF errors
<1>4. ASSUME NEW i \in DOMAIN old, NEW s \in RowEdits(old[i]), g = ChangeRule(frm, s)
      PROVE  /\ g \in RowForms(H, S) /\ g.baseline = frm.baseline /\ g.head = frm.head
             /\ frm.errors \subseteq UsedKinds(frm) => g.errors \subseteq UsedKinds(g)
  <2> DEFINE new == [j \in DOMAIN old |-> IF old[j].ruleType = s.ruleType THEN s ELSE old[j]]
             errors == frm.errors \ {s.ruleType}
  <2>1. s \in S /\ s.ruleType = old[i].ruleType
    BY <1>1, RowsAreEdited DEF RowsClosed
  <2>2. /\ new \in Seq(S) /\ DOMAIN new = DOMAIN old
        /\ \A j \in DOMAIN old : new[j].ruleType = old[j].ruleType
    BY <1>1, <2>1
  <2>3. g = [frm EXCEPT !.entries = new, !.errors = errors]
    BY <1>4 DEF ChangeRule
  <2>4. errors \in SUBSET policyRuleTypes /\ errors \subseteq frm.errors
    BY <1>1
  <2> HIDE DEF new, errors
  <2>5. /\ g \in RowForms(H, S) /\ g.entries = new /\ g.errors = errors
        /\ g.baseline = frm.baseline /\ g.head = frm.head
    BY <2>2, <2>3, <2>4 DEF RowForms
  <2>6. UsedKinds(g) = UsedKinds(frm)
    BY <2>2, <2>5 DEF UsedKinds
  <2> QED BY <2>4, <2>5, <2>6
<1> QED BY <1>2, <1>3, <1>4 DEF RowsEdited

\* The errors of a save are of rows that cannot be sent.
LEMMA CheckedRows ==
  ASSUME NEW H, NEW S, S \subseteq FormStates, NEW frm \in RowForms(H, S)
  PROVE  LET g == Checked(frm) IN
         /\ g \in RowForms(H, S) /\ g.errors \subseteq UsedKinds(g)
         /\ g.baseline = frm.baseline /\ g.head = frm.head /\ g.entries = frm.entries
         /\ g.headError = frm.headError
         /\ Dirty(g) <=> Dirty(frm)
<1> DEFINE errors == {frm.entries[i].ruleType :
                        i \in {j \in DOMAIN frm.entries : ~Sendable(frm.entries[j])}}
           g == Checked(frm)
<1>1. errors \subseteq UsedKinds(frm)
  BY DEF UsedKinds
<1>2. UsedKinds(frm) \subseteq policyRuleTypes
  BY RowShapes DEF UsedKinds, RowForms, policyRuleTypes
<1>3. g = [frm EXCEPT !.errors = errors] /\ errors \in SUBSET policyRuleTypes
  BY <1>1, <1>2 DEF Checked
<1> HIDE DEF errors, g
<1>4. /\ g \in RowForms(H, S) /\ g.errors = errors
      /\ g.baseline = frm.baseline /\ g.head = frm.head /\ g.entries = frm.entries
      /\ g.headError = frm.headError
  BY <1>3 DEF RowForms
<1>5. UsedKinds(g) = UsedKinds(frm)
  BY <1>4 DEF UsedKinds
<1> QED BY <1>1, <1>4, <1>5 DEF Dirty, g

PageQueries(D) ==
  [data : D, error : BOOLEAN, fetch : {NoFetch, Sent} \cup [at : {"back"}, body : D]]

\* A query of one record, as QueryReads and QuerySteps for lists.
LEMMA PageQueriesMove ==
  ASSUME NEW D, NEW q \in PageQueries(D), NEW v \in D
  PROVE  /\ q.data \in D
         /\ NoFetch.at = "none" /\ Sent.at = "sent" /\ NoFetch # Sent
         /\ q.fetch.at = "back" => q.fetch.body \in D
         /\ q.fetch.at \in {"none", "sent", "back"}
         /\ q.fetch.at = "none" <=> q.fetch = NoFetch
         /\ q.fetch.at = "none" <=> Idle(q)
         /\ SetQueryData(q, v) \in PageQueries(D) /\ SetQueryData(q, v).data = v
         /\ SetQueryData(q, v).fetch = q.fetch
         /\ CancelQueries(q) \in PageQueries(D) /\ CancelQueries(q).data = q.data
         /\ CancelQueries(q).fetch = NoFetch
         /\ InvalidateQueries(q) \in PageQueries(D) /\ InvalidateQueries(q).data = q.data
         /\ InvalidateQueries(q).fetch = Sent
         /\ Reads(q, v) \in PageQueries(D) /\ Reads(q, v).data = q.data
         /\ Reads(q, v).fetch.at = "back" /\ Reads(q, v).fetch.body = v
         /\ Fails(q) \in PageQueries(D) /\ Fails(q).data = q.data /\ Fails(q).fetch = NoFetch
         /\ q.fetch.at = "back" =>
              /\ Succeeds(q) \in PageQueries(D) /\ Succeeds(q).data = q.fetch.body
              /\ Succeeds(q).fetch = NoFetch
<1>1. NoFetch.at = "none" /\ Sent.at = "sent" /\ NoFetch # Sent
  BY DEF NoFetch, Sent
<1>2. q.fetch \in {NoFetch, Sent} \cup [at : {"back"}, body : D] /\ q.data \in D
  BY DEF PageQueries
<1>3. /\ q.fetch.at = "back" => q.fetch.body \in D
      /\ q.fetch.at \in {"none", "sent", "back"}
      /\ q.fetch.at = "none" <=> q.fetch = NoFetch
  BY <1>1, <1>2
<1>4. q.fetch.at = "none" <=> Idle(q)
  BY <1>3 DEF Idle
<1>5. /\ SetQueryData(q, v) \in PageQueries(D) /\ SetQueryData(q, v).data = v
      /\ SetQueryData(q, v).fetch = q.fetch
  BY DEF SetQueryData, PageQueries
<1>6. /\ CancelQueries(q) \in PageQueries(D) /\ CancelQueries(q).data = q.data
      /\ CancelQueries(q).fetch = NoFetch
  BY DEF CancelQueries, PageQueries
<1>7. /\ InvalidateQueries(q) \in PageQueries(D) /\ InvalidateQueries(q).data = q.data
      /\ InvalidateQueries(q).fetch = Sent
  BY DEF InvalidateQueries, PageQueries
<1>8. /\ Reads(q, v) \in PageQueries(D) /\ Reads(q, v).data = q.data
      /\ Reads(q, v).fetch.at = "back" /\ Reads(q, v).fetch.body = v
  <2> DEFINE f == [at |-> "back", body |-> v]
  <2>1. f \in [at : {"back"}, body : D] /\ f.at = "back" /\ f.body = v
    OBVIOUS
  <2>2. Reads(q, v) = [q EXCEPT !.fetch = f]
    BY DEF Reads
  <2> HIDE DEF f
  <2> QED BY <2>1, <2>2 DEF PageQueries
<1>9. Fails(q) \in PageQueries(D) /\ Fails(q).data = q.data /\ Fails(q).fetch = NoFetch
  BY DEF Fails, PageQueries
<1>10. ASSUME q.fetch.at = "back"
       PROVE  /\ Succeeds(q) \in PageQueries(D) /\ Succeeds(q).data = q.fetch.body
              /\ Succeeds(q).fetch = NoFetch
  BY <1>3, <1>10 DEF Succeeds, PageQueries
<1> QED BY <1>1, <1>2, <1>3, <1>4, <1>5, <1>6, <1>7, <1>8, <1>9, <1>10

\* The same of what is written into a query and read for it.
LEMMA PageQueriesTake ==
  ASSUME NEW D, NEW q \in PageQueries(D), NEW v \in D
  PROVE  /\ SetQueryData(q, v) \in PageQueries(D) /\ SetQueryData(q, v).data = v
         /\ SetQueryData(q, v).fetch = q.fetch
         /\ Reads(q, v) \in PageQueries(D) /\ Reads(q, v).data = q.data
         /\ Reads(q, v).fetch.at = "back" /\ Reads(q, v).fetch.body = v
BY PageQueriesMove

TemplateRecords == [stored : BOOLEAN, enabled : BOOLEAN, rules : Seq(RuleInputs)]
DefaultsRecords ==
  [query : PageQueries(TemplateRecords), form : RowForms(BOOLEAN, FormStates),
   lastSynced : TemplateRecords, asked : BOOLEAN, skipped : BOOLEAN,
   edits : Nat, remote : Nat, faults : Nat]

TemplateTypes ==
  /\ templateRow \in TemplateRecords
  /\ templateCall \in [op : {"none", "save", "clear"}, at : {"idle", "work", "answer"},
                       template : TemplateRecords, ok : BOOLEAN]
  /\ defaults \in DefaultsRecords

BaselineOf(template) == Snapshot(template.enabled, BuildEntries(template.rules))

\* The effect has seen the query's template, and the baseline is of it unless it was
\* passed over.
FormSeen(d) ==
  d.lastSynced = d.query.data /\ (~d.skipped => d.form.baseline = BaselineOf(d.query.data))

TemplateInv == TemplateTypes /\ FormSeen(defaults)

\* The arrival of a template changes no form with unsaved changes.
Survives ==
  Dirty(defaults.form) /\ defaults.query.fetch.at = "back" /\ defaults'.query.fetch.at = "none"
    => defaults'.form = defaults.form

\* The templates the model writes.
LEMMA TemplatesWritten ==
  /\ NoTemplate \in TemplateRecords
  /\ TemplateOf(FALSE, <<Rule("maxSubjectLength", One(72))>>) \in TemplateRecords
  /\ \A enabled \in BOOLEAN : TemplateOf(enabled, <<Rule("bodyRequired", Flag(TRUE))>>) \in TemplateRecords
  /\ \A enabled \in BOOLEAN, rules \in Seq(RuleInputs) : TemplateOf(enabled, rules) \in TemplateRecords
<1>1. \A enabled \in BOOLEAN, rules \in Seq(RuleInputs) : TemplateOf(enabled, rules) \in TemplateRecords
  BY DEF TemplateOf, TemplateRecords
<1>2. Rule("maxSubjectLength", One(72)) \in RuleInputs
  BY DEF Rule, One, RuleInputs
<1>3. Rule("bodyRequired", Flag(TRUE)) \in RuleInputs
  BY DEF Rule, Flag, RuleInputs
<1>4. \A r \in RuleInputs : <<r>> \in Seq(RuleInputs)
  OBVIOUS
<1>5. NoTemplate \in TemplateRecords
  BY DEF NoTemplate, TemplateRecords
<1> QED BY <1>1, <1>2, <1>3, <1>4, <1>5

\* The form of a template.
LEMMA TemplateForms ==
  ASSUME NEW t \in TemplateRecords
  PROVE  TemplateForm(t) \in RowForms(BOOLEAN, FormStates) /\ TemplateForm(t).baseline = BaselineOf(t)
<1>1. t.enabled \in BOOLEAN /\ BuildEntries(t.rules) \in Seq(FormStates)
  BY BuiltRows DEF TemplateRecords
<1>2. TemplateForm(t) = FormOf(t.enabled, t.rules, Snapshot(t.enabled, BuildEntries(t.rules)))
  BY DEF TemplateForm, SyncedForm
<1> QED BY <1>1, <1>2, OpenedRows DEF BaselineOf

\* Steps that leave the query's template and the baseline alone.
LEMMA TemplateMoves ==
  ASSUME TemplateInv, TemplateTypes', defaults'.lastSynced = defaults.lastSynced,
         defaults'.query.data = defaults.query.data, defaults'.skipped = defaults.skipped,
         defaults'.form.baseline = defaults.form.baseline
  PROVE  TemplateInv'
<1>1. FormSeen(defaults')
  BY DEF TemplateInv, FormSeen
<1>2. FormSeen(defaults)'
  BY <1>1 DEF FormSeen
<1> QED BY <1>2 DEF TemplateInv

\* The effect: a new template is taken into a form without unsaved changes.
LEMMA ReseedSees ==
  ASSUME NEW d \in DefaultsRecords, d.query.data = d.lastSynced => FormSeen(d)
  PROVE  LET e == Reseed(d) IN
         /\ e \in DefaultsRecords /\ FormSeen(e) /\ e.query = d.query
         /\ Dirty(d.form) => e.form = d.form
<1> DEFINE e == Reseed(d)
           t == d.query.data
<1>1. t \in TemplateRecords
  BY PageQueriesMove DEF DefaultsRecords
<1>2. CASE t = d.lastSynced
  <2>1. e = d
    BY <1>2 DEF Reseed
  <2> QED BY <1>2, <2>1
<1>3. CASE t # d.lastSynced /\ Dirty(d.form)
  <2>1. e = [[d EXCEPT !.lastSynced = t] EXCEPT !.skipped = TRUE]
    BY <1>3 DEF Reseed
  <2> HIDE DEF e
  <2>2. /\ e \in DefaultsRecords /\ e.lastSynced = t /\ e.skipped = TRUE /\ e.query = d.query
        /\ e.form = d.form
    BY <1>1, <2>1 DEF DefaultsRecords
  <2> QED BY <2>2 DEF FormSeen, e
<1>4. CASE t # d.lastSynced /\ ~Dirty(d.form)
  <2> DEFINE frm == TemplateForm(t)
  <2>1. frm \in RowForms(BOOLEAN, FormStates) /\ frm.baseline = BaselineOf(t)
    BY <1>1, TemplateForms
  <2>2. e = [[d EXCEPT !.lastSynced = t] EXCEPT !.form = frm, !.skipped = FALSE]
    BY <1>4 DEF Reseed, Synced
  <2> HIDE DEF e, frm
  <2>3. /\ e \in DefaultsRecords /\ e.lastSynced = t /\ e.query = d.query /\ e.form = frm
    BY <1>1, <2>1, <2>2 DEF DefaultsRecords
  <2> QED BY <1>4, <2>1, <2>3 DEF FormSeen, e
<1> QED BY <1>2, <1>3, <1>4

\* Clicks and keys: the form, the dialog, the calls that begin.
LEMMA TemplateClicksKeep ==
  ASSUME TemplateInv,
         \/ ToggleEnabled \/ EditTemplateRows \/ SaveTemplate \/ AskClear \/ CancelClear \/ ConfirmClear
  PROVE  TemplateInv' /\ Survives
<1> DEFINE old == defaults.form
<1>1. /\ defaults \in DefaultsRecords /\ old \in RowForms(BOOLEAN, FormStates)
      /\ templateRow \in TemplateRecords /\ defaults.edits \in Nat /\ defaults.edits + 1 \in Nat
      /\ templateCall \in [op : {"none", "save", "clear"}, at : {"idle", "work", "answer"},
                           template : TemplateRecords, ok : BOOLEAN]
  BY DEF TemplateInv, TemplateTypes, DefaultsRecords
<1>2. ASSUME NEW frm \in RowForms(BOOLEAN, FormStates), frm.baseline = old.baseline, NEW n \in Nat,
             NEW asked \in BOOLEAN,
             defaults' = [defaults EXCEPT !.form = frm, !.edits = n, !.asked = asked],
             templateRow' = templateRow,
             templateCall' \in [op : {"none", "save", "clear"}, at : {"idle", "work", "answer"},
                                template : TemplateRecords, ok : BOOLEAN]
      PROVE  TemplateInv' /\ Survives
  <2>1. /\ defaults' \in DefaultsRecords /\ defaults'.lastSynced = defaults.lastSynced
        /\ defaults'.query = defaults.query /\ defaults'.skipped = defaults.skipped
        /\ defaults'.form = frm
    BY <1>1, <1>2 DEF DefaultsRecords
  <2>2. TemplateTypes'
    BY <1>1, <1>2, <2>1 DEF TemplateTypes
  <2>3. Survives
    BY <2>1 DEF Survives
  <2> QED BY <1>2, <2>1, <2>2, <2>3, TemplateMoves
<1>3. defaults.asked \in BOOLEAN
  BY <1>1 DEF DefaultsRecords
<1>4. ASSUME NEW frm \in RowForms(BOOLEAN, FormStates), frm.baseline = old.baseline, TemplateFormIs(frm)
      PROVE  TemplateInv' /\ Survives
  <2> DEFINE n == defaults.edits + 1
  <2>1. n \in Nat
    BY <1>1
  <2>2. defaults' = [defaults EXCEPT !.form = frm, !.edits = n, !.asked = defaults.asked]
    BY <1>1, <1>4 DEF TemplateFormIs, DefaultsRecords
  <2>3. templateRow' = templateRow /\ templateCall' = templateCall
    BY <1>4 DEF TemplateFormIs
  <2> HIDE DEF n
  <2> QED BY <1>1, <1>2, <1>3, <1>4, <2>1, <2>2, <2>3
<1>5. CASE ToggleEnabled
  <2> DEFINE frm == [old EXCEPT !.head = ~@]
  <2>1. frm \in RowForms(BOOLEAN, FormStates) /\ frm.baseline = old.baseline
    BY <1>1 DEF RowForms
  <2> QED BY <1>4, <1>5, <2>1 DEF ToggleEnabled
<1>6. CASE EditTemplateRows
  <2>1. PICK frm \in RowsEdited(old) : TemplateFormIs(frm)
    BY <1>6 DEF EditTemplateRows
  <2>2. frm \in RowForms(BOOLEAN, FormStates) /\ frm.baseline = old.baseline
    BY <1>1, RowsAreClosed, EditedRows
  <2> QED BY <1>4, <2>1, <2>2
<1>7. CASE SaveTemplate
  <2> DEFINE frm == Checked(old)
             template == TemplateOf(frm.head, RulesToSend(frm))
             call == [NoTemplateCall EXCEPT !.op = "save", !.at = "work", !.template = template]
  <2>1. frm \in RowForms(BOOLEAN, FormStates) /\ frm.baseline = old.baseline /\ FormStates \subseteq FormStates
    BY <1>1, CheckedRows
  <2>2. frm.head \in BOOLEAN /\ RulesToSend(frm) \in Seq(RuleInputs)
    BY <2>1, SentRules DEF RowForms
  <2>3. template \in TemplateRecords
    BY <2>2, TemplatesWritten
  <2> HIDE DEF template
  <2>4. call \in [op : {"none", "save", "clear"}, at : {"idle", "work", "answer"},
                  template : TemplateRecords, ok : BOOLEAN]
    BY <2>3 DEF NoTemplateCall
  <2>5. templateCall' \in {templateCall, call} /\ templateRow' = templateRow
    BY <1>7 DEF SaveTemplate, template
  <2>6. defaults' = [defaults EXCEPT !.form = frm]
    BY <1>7 DEF SaveTemplate
  <2> HIDE DEF frm
  <2>7. defaults' = [defaults EXCEPT !.form = frm, !.edits = defaults.edits, !.asked = defaults.asked]
    BY <1>1, <2>6 DEF DefaultsRecords
  <2> HIDE DEF call
  <2> QED BY <1>1, <1>2, <1>3, <2>1, <2>4, <2>5, <2>7
<1>8. CASE AskClear \/ CancelClear
  <2>1. PICK asked \in BOOLEAN : defaults' = [defaults EXCEPT !.asked = asked]
    BY <1>8 DEF AskClear, CancelClear
  <2>2. defaults' = [defaults EXCEPT !.form = old, !.edits = defaults.edits, !.asked = asked]
    BY <1>1, <2>1 DEF DefaultsRecords
  <2>3. templateRow' = templateRow /\ templateCall' = templateCall
    BY <1>8 DEF AskClear, CancelClear
  <2> QED BY <1>1, <1>2, <2>2, <2>3
<1>9. CASE ConfirmClear
  <2> DEFINE call == [NoTemplateCall EXCEPT !.op = "clear", !.at = "work"]
  <2>1. call \in [op : {"none", "save", "clear"}, at : {"idle", "work", "answer"},
                  template : TemplateRecords, ok : BOOLEAN]
    BY TemplatesWritten DEF NoTemplateCall
  <2>2. templateRow' = templateRow /\ templateCall' = call
    BY <1>9 DEF ConfirmClear
  <2>3. defaults' = [defaults EXCEPT !.form = old, !.edits = defaults.edits, !.asked = defaults.asked]
    BY <1>1, <1>9 DEF ConfirmClear, DefaultsRecords
  <2> HIDE DEF call
  <2> QED BY <1>1, <1>2, <1>3, <2>1, <2>2, <2>3
<1> QED BY <1>5, <1>6, <1>7, <1>8, <1>9

\* The API and another device write the template's row; the query does not know yet.
LEMMA TemplateWritesKeep ==
  ASSUME TemplateInv, TemplateStored \/ TemplateFails \/ RemoteSave
  PROVE  TemplateInv' /\ Survives
<1>1. /\ defaults \in DefaultsRecords /\ templateRow \in TemplateRecords
      /\ templateCall \in [op : {"none", "save", "clear"}, at : {"idle", "work", "answer"},
                           template : TemplateRecords, ok : BOOLEAN]
  BY DEF TemplateInv, TemplateTypes
<1>2. ASSUME NEW n \in Nat, NEW m \in Nat, defaults' = [defaults EXCEPT !.faults = n, !.remote = m],
             templateRow' \in TemplateRecords,
             templateCall' \in [op : {"none", "save", "clear"}, at : {"idle", "work", "answer"},
                                template : TemplateRecords, ok : BOOLEAN]
      PROVE  TemplateInv' /\ Survives
  <2>1. /\ defaults' \in DefaultsRecords /\ defaults'.lastSynced = defaults.lastSynced
        /\ defaults'.query = defaults.query /\ defaults'.skipped = defaults.skipped
        /\ defaults'.form = defaults.form
    BY <1>1, <1>2 DEF DefaultsRecords
  <2>2. TemplateTypes'
    BY <1>2, <2>1 DEF TemplateTypes
  <2>3. Survives
    BY <2>1 DEF Survives
  <2> QED BY <2>1, <2>2, <2>3, TemplateMoves
<1>3. /\ defaults.faults \in Nat /\ defaults.remote \in Nat
      /\ defaults.faults + 1 \in Nat /\ defaults.remote + 1 \in Nat
  BY <1>1 DEF DefaultsRecords
<1>4. CASE TemplateStored
  <2>1. defaults' = [defaults EXCEPT !.faults = defaults.faults, !.remote = defaults.remote]
    BY <1>1, <1>4 DEF TemplateStored, DefaultsRecords
  <2>2. templateRow' \in TemplateRecords
        /\ templateCall' \in [op : {"none", "save", "clear"}, at : {"idle", "work", "answer"},
                              template : TemplateRecords, ok : BOOLEAN]
    BY <1>1, <1>4 DEF TemplateStored
  <2> QED BY <1>2, <1>3, <2>1, <2>2
<1>5. CASE TemplateFails
  <2> DEFINE n == defaults.faults + 1
  <2>1. n \in Nat /\ defaults' = [defaults EXCEPT !.faults = n, !.remote = defaults.remote]
    BY <1>1, <1>3, <1>5 DEF TemplateFails, DefaultsRecords
  <2>2. templateRow' \in TemplateRecords
        /\ templateCall' \in [op : {"none", "save", "clear"}, at : {"idle", "work", "answer"},
                              template : TemplateRecords, ok : BOOLEAN]
    BY <1>1, <1>5 DEF TemplateFails
  <2> HIDE DEF n
  <2> QED BY <1>2, <1>3, <2>1, <2>2
<1>6. CASE RemoteSave
  <2> DEFINE m == defaults.remote + 1
  <2>1. m \in Nat /\ defaults' = [defaults EXCEPT !.faults = defaults.faults, !.remote = m]
    BY <1>1, <1>3, <1>6 DEF RemoteSave, DefaultsRecords
  <2>2. templateRow' \in TemplateRecords /\ templateCall' = templateCall
    BY <1>6, TemplatesWritten DEF RemoteSave
  <2> HIDE DEF m
  <2> QED BY <1>1, <1>2, <1>3, <2>1, <2>2
<1> QED BY <1>4, <1>5, <1>6

\* Reading the template again.
LEMMA TemplateReadsKeep ==
  ASSUME TemplateInv, RefetchTemplate \/ TemplateRead \/ TemplateReadAnswered \/ TemplateReadFailed
  PROVE  TemplateInv' /\ Survives
<1> DEFINE q == defaults.query
<1>1. /\ defaults \in DefaultsRecords /\ templateRow \in TemplateRecords /\ q \in PageQueries(TemplateRecords)
      /\ templateRow' = templateRow /\ templateCall' = templateCall
      /\ defaults.faults \in Nat /\ defaults.faults + 1 \in Nat
  BY DEF TemplateInv, TemplateTypes, DefaultsRecords, RefetchTemplate, TemplateRead,
     TemplateReadAnswered, TemplateReadFailed
<1>2. ASSUME NEW p \in PageQueries(TemplateRecords), p.data = q.data, NEW n \in Nat,
             defaults' = [defaults EXCEPT !.query = p, !.faults = n]
      PROVE  TemplateInv' /\ Survives
  <2>1. /\ defaults' \in DefaultsRecords /\ defaults'.lastSynced = defaults.lastSynced
        /\ defaults'.query = p /\ defaults'.skipped = defaults.skipped
        /\ defaults'.form = defaults.form
    BY <1>1, <1>2 DEF DefaultsRecords
  <2>2. TemplateTypes'
    BY <1>1, <2>1 DEF TemplateInv, TemplateTypes
  <2>3. Survives
    BY <2>1 DEF Survives
  <2> QED BY <1>2, <2>1, <2>2, <2>3, TemplateMoves
<1>3. CASE RefetchTemplate
  <2> DEFINE p == InvalidateQueries(q)
  <2>1. p \in PageQueries(TemplateRecords) /\ p.data = q.data
    BY <1>1, PageQueriesMove
  <2>2. defaults' = [defaults EXCEPT !.query = p, !.faults = defaults.faults]
    BY <1>1, <1>3 DEF RefetchTemplate, DefaultsRecords
  <2> HIDE DEF p
  <2> QED BY <1>1, <1>2, <2>1, <2>2
<1>4. CASE TemplateRead
  <2> DEFINE p == Reads(q, templateRow)
  <2>1. p \in PageQueries(TemplateRecords) /\ p.data = q.data
    BY <1>1, PageQueriesTake
  <2>2. defaults' = [defaults EXCEPT !.query = p, !.faults = defaults.faults]
    BY <1>1, <1>4 DEF TemplateRead, DefaultsRecords
  <2> HIDE DEF p
  <2> QED BY <1>1, <1>2, <2>1, <2>2
<1>5. CASE TemplateReadFailed
  <2> DEFINE p == Fails(q)
             n == defaults.faults + 1
  <2>1. p \in PageQueries(TemplateRecords) /\ p.data = q.data
    BY <1>1, PageQueriesMove
  <2>2. defaults' = [defaults EXCEPT !.query = p, !.faults = n] /\ n \in Nat
    BY <1>1, <1>5 DEF TemplateReadFailed, DefaultsRecords
  <2> HIDE DEF p, n
  <2> QED BY <1>2, <2>1, <2>2
<1>6. CASE TemplateReadAnswered
  <2> DEFINE p == Succeeds(q)
             d == [defaults EXCEPT !.query = p]
  <2>1. p \in PageQueries(TemplateRecords)
    BY <1>1, <1>6, PageQueriesMove DEF TemplateReadAnswered
  <2>2. defaults' = Reseed(d)
    BY <1>6 DEF TemplateReadAnswered
  <2> HIDE DEF p
  <2>3. /\ d \in DefaultsRecords /\ d.query = p /\ d.lastSynced = defaults.lastSynced
        /\ d.skipped = defaults.skipped /\ d.form = defaults.form
    BY <1>1, <2>1 DEF DefaultsRecords
  <2> HIDE DEF d
  <2>4. d.query.data = d.lastSynced => FormSeen(d)
    BY <2>3 DEF TemplateInv, FormSeen
  <2>5. /\ defaults' \in DefaultsRecords /\ FormSeen(defaults')
        /\ Dirty(d.form) => defaults'.form = d.form
    BY <2>2, <2>3, <2>4, ReseedSees
  <2>6. FormSeen(defaults)'
    BY <2>5 DEF FormSeen
  <2>7. TemplateTypes'
    BY <1>1, <2>5 DEF TemplateInv, TemplateTypes
  <2> QED BY <2>3, <2>5, <2>6, <2>7 DEF TemplateInv, Survives
<1> QED BY <1>3, <1>4, <1>5, <1>6

\* The answer to a save or a clear: the template that was sent is the query's and the
\* form's, or nothing has changed; the query is asked for again.
LEMMA TemplateAnswersKeep ==
  ASSUME TemplateInv, TemplateAnswered \/ TemplateLost
  PROVE  TemplateInv' /\ Survives
<1> DEFINE q == defaults.query
           t == templateCall.template
<1>1. /\ defaults \in DefaultsRecords /\ q \in PageQueries(TemplateRecords) /\ t \in TemplateRecords
      /\ templateRow' = templateRow /\ templateRow \in TemplateRecords /\ defaults.asked \in BOOLEAN
      /\ defaults.faults \in Nat /\ defaults.faults + 1 \in Nat
  <2>1. templateRow' = templateRow
    BY DEF TemplateAnswered, TemplateLost
  <2> QED BY <2>1 DEF TemplateInv, TemplateTypes, DefaultsRecords
<1>2. ASSUME NEW ok \in BOOLEAN
      PROVE  LET d == TemplateSettled(ok) IN
             /\ d \in DefaultsRecords /\ FormSeen(d) /\ d.query.fetch = Sent
  <2> DEFINE p == IF ok THEN SetQueryData(q, t) ELSE q
             told == [defaults EXCEPT !.query = p]
             seen == Reseed(told)
             asked == (seen.asked /\ templateCall.op # "clear")
             r == InvalidateQueries(seen.query)
             fetched == [seen EXCEPT !.query = r, !.asked = asked]
             frm == TemplateForm(t)
  <2>1. p \in PageQueries(TemplateRecords) /\ (~ok => p.data = q.data) /\ (ok => p.data = t)
    <3>0. \A a \in PageQueries(TemplateRecords), b \in TemplateRecords :
            SetQueryData(a, b) \in PageQueries(TemplateRecords) /\ SetQueryData(a, b).data = b
      BY PageQueriesTake
    <3>1. SetQueryData(q, t) \in PageQueries(TemplateRecords) /\ SetQueryData(q, t).data = t
      BY <1>1, <3>0
    <3> QED BY <1>1, <3>1
  <2> HIDE DEF p
  <2>2. /\ told \in DefaultsRecords /\ told.query = p /\ told.lastSynced = defaults.lastSynced
        /\ told.skipped = defaults.skipped /\ told.form = defaults.form
    BY <1>1, <2>1 DEF DefaultsRecords
  <2> HIDE DEF told
  <2>3. told.query.data = told.lastSynced => FormSeen(told)
    BY <2>2 DEF TemplateInv, FormSeen
  <2>4. seen \in DefaultsRecords /\ FormSeen(seen) /\ seen.query = p
    BY <2>2, <2>3, ReseedSees
  <2> HIDE DEF seen
  <2>5. r \in PageQueries(TemplateRecords) /\ r.data = p.data /\ r.fetch = Sent
    BY <1>1, <2>1, <2>4, PageQueriesMove
  <2>6. asked \in BOOLEAN
    OBVIOUS
  <2> HIDE DEF r, asked
  <2>7. /\ fetched \in DefaultsRecords /\ fetched.query = r /\ fetched.form = seen.form
        /\ fetched.lastSynced = seen.lastSynced /\ fetched.skipped = seen.skipped
    BY <2>4, <2>5, <2>6 DEF DefaultsRecords
  <2> HIDE DEF fetched
  <2>8. FormSeen(fetched)
    BY <2>4, <2>5, <2>7 DEF FormSeen
  <2>9. TemplateSettled(ok) = IF ok THEN [fetched EXCEPT !.form = frm, !.skipped = FALSE] ELSE fetched
    BY DEF TemplateSettled, Synced, fetched, r, asked, seen, told, p
  <2>10. frm \in RowForms(BOOLEAN, FormStates) /\ frm.baseline = BaselineOf(t)
    BY <1>1, TemplateForms
  <2> HIDE DEF frm
  <2>11. CASE ok
    <3> DEFINE d == [fetched EXCEPT !.form = frm, !.skipped = FALSE]
    <3>1. /\ d \in DefaultsRecords /\ d.query = r /\ d.form = frm
          /\ d.lastSynced = seen.lastSynced /\ TemplateSettled(ok) = d
      BY <2>7, <2>9, <2>10, <2>11 DEF DefaultsRecords
    <3> HIDE DEF d
    <3> QED BY <2>1, <2>4, <2>5, <2>10, <2>11, <3>1 DEF FormSeen
  <2>12. CASE ~ok
    BY <2>5, <2>7, <2>8, <2>9, <2>12
  <2> QED BY <2>11, <2>12
<1>3. PICK ok \in BOOLEAN, n \in Nat : defaults' = [TemplateSettled(ok) EXCEPT !.faults = n]
  <2>1. CASE TemplateAnswered
    <3>1. templateCall.ok \in BOOLEAN
      BY DEF TemplateInv, TemplateTypes
    <3> DEFINE d == TemplateSettled(templateCall.ok)
    <3>2. d \in DefaultsRecords /\ defaults' = d
      BY <1>2, <2>1, <3>1 DEF TemplateAnswered
    <3> HIDE DEF d
    <3>3. d = [d EXCEPT !.faults = d.faults] /\ d.faults \in Nat
      BY <3>2 DEF DefaultsRecords
    <3> QED BY <3>1, <3>2, <3>3 DEF d
  <2>2. CASE TemplateLost
    <3> DEFINE d == TemplateSettled(FALSE)
    <3>1. d \in DefaultsRecords /\ defaults' = [d EXCEPT !.faults = d.faults + 1]
      BY <1>2, <2>2 DEF TemplateLost
    <3> HIDE DEF d
    <3>2. d.faults + 1 \in Nat
      BY <3>1 DEF DefaultsRecords
    <3> QED BY <3>1, <3>2 DEF d
  <2> QED BY <2>1, <2>2
<1> DEFINE d == TemplateSettled(ok)
<1>4. d \in DefaultsRecords /\ FormSeen(d) /\ d.query.fetch = Sent /\ defaults' = [d EXCEPT !.faults = n]
  BY <1>2, <1>3
<1> HIDE DEF d
<1>5. /\ defaults' \in DefaultsRecords /\ defaults'.query = d.query /\ defaults'.form = d.form
      /\ defaults'.lastSynced = d.lastSynced /\ defaults'.skipped = d.skipped
  BY <1>4 DEF DefaultsRecords
<1>6. FormSeen(defaults)'
  BY <1>4, <1>5 DEF FormSeen
<1>7. TemplateTypes'
  <2>1. templateCall' = NoTemplateCall
    BY DEF TemplateAnswered, TemplateLost
  <2> QED BY <1>1, <1>5, <2>1, TemplatesWritten DEF TemplateTypes, NoTemplateCall
<1>8. Survives
  BY <1>4, <1>5 DEF Survives, Sent
<1> QED BY <1>6, <1>7, <1>8 DEF TemplateInv

\* The page opens on the stored template or the defaults.
LEMMA TemplateStarts ==
  ASSUME DefaultPolicyInit
  PROVE  TemplateInv
<1>1. PICK t \in {NoTemplate, TemplateOf(FALSE, <<Rule("maxSubjectLength", One(72))>>)} :
        /\ templateRow = t /\ templateCall = NoTemplateCall
        /\ defaults = [query |-> [MountedQuery(t) EXCEPT !.fetch = NoFetch], form |-> TemplateForm(t),
                       lastSynced |-> t, asked |-> FALSE, skipped |-> FALSE,
                       edits |-> 0, remote |-> 0, faults |-> 0]
  BY DEF DefaultPolicyInit
<1>2. t \in TemplateRecords /\ NoTemplate \in TemplateRecords
  BY TemplatesWritten
<1> DEFINE q == [MountedQuery(t) EXCEPT !.fetch = NoFetch]
           frm == TemplateForm(t)
<1>3. q \in PageQueries(TemplateRecords) /\ q.data = t
  BY <1>2 DEF MountedQuery, PageQueries
<1>4. frm \in RowForms(BOOLEAN, FormStates) /\ frm.baseline = BaselineOf(t)
  BY <1>2, TemplateForms
<1> HIDE DEF q, frm
<1>5. defaults = [query |-> q, form |-> frm, lastSynced |-> t, asked |-> FALSE, skipped |-> FALSE,
                  edits |-> 0, remote |-> 0, faults |-> 0]
  BY <1>1 DEF q, frm
<1>6. /\ defaults \in DefaultsRecords /\ defaults.query = q /\ defaults.form = frm
      /\ defaults.lastSynced = t
  BY <1>2, <1>3, <1>4, <1>5 DEF DefaultsRecords
<1>7. TemplateTypes
  BY <1>1, <1>2, <1>6 DEF TemplateTypes, NoTemplateCall
<1> QED BY <1>3, <1>4, <1>6, <1>7 DEF TemplateInv, FormSeen

\* Every step of the default policy's page keeps its invariant and the user's edits.
LEMMA TemplateKept ==
  ASSUME TemplateInv, DefaultPolicyNext
  PROVE  TemplateInv' /\ Survives
BY TemplateClicksKeep, TemplateWritesKeep, TemplateReadsKeep, TemplateAnswersKeep DEF DefaultPolicyNext

(***************************************************************************)
(* The policy editor.                                                      *)
(***************************************************************************)
PolicyNames == [is : {"", "a", "b"}, tidy : BOOLEAN]
EditedPolicies == [there : BOOLEAN, name : PolicyNames, rules : Seq(RowRules), active : BOOLEAN]
SavedBodies == [head : PolicyNames, rules : Seq(RowRules)]

EditorCallRecords ==
  [op : EditorOps \cup {"none"}, at : {"idle", "work", "answer"}, body : {<<>>} \cup SavedBodies,
   ok : BOOLEAN, reply : {<<>>} \cup EditedPolicies, waiting : BOOLEAN]
EditorRecords ==
  [open : BOOLEAN, form : RowForms(PolicyNames, FormRows), asked : BOOLEAN,
   latest : [EditorOps -> Nat], detail : PageQueries(EditedPolicies), stale : BOOLEAN,
   edits : Nat, faults : Nat, edited : BOOLEAN, lost : BOOLEAN, overlap : BOOLEAN]

EditorTypes ==
  /\ policyRow \in EditedPolicies
  /\ editorCall \in [EditorCalls -> EditorCallRecords]
  /\ editor \in EditorRecords

\* What a call's stages have of it.
EditorPhase(call) ==
  /\ call.op = "none" => call.at = "idle" /\ ~call.waiting
  /\ call.op # "none" => call.at # "idle"
  /\ call.op = "save" => call.body \in SavedBodies
  /\ call.at = "answer" => call.reply \in EditedPolicies
  /\ call.at = "work" => ~call.ok

EditorPhases == \A c \in EditorCalls : EditorPhase(editorCall[c])

\* The page and its fetch: a closed page has none.
VisitFits ==
  /\ editor.form.errors \subseteq UsedKinds(editor.form)
  /\ ~editor.open => editor.detail.fetch = NoFetch

\* No call was given up, and none began while another was under way.
Quiet == ~editor.lost /\ ~editor.overlap

\* The API has done what the page does not know yet.
Settling(call) == call.waiting /\ call.at = "answer" /\ call.ok

\* Calls come one at a time, and an open page knows its own.
CallsAlone ==
  /\ \A c \in EditorCalls : editorCall[c].at = "work" => editorCall[c].waiting
  /\ \A c, d \in EditorCalls : editorCall[c].waiting /\ editorCall[d].waiting => c = d
  /\ \A c \in EditorCalls :
       editorCall[c].waiting /\ editor.open => editor.latest[editorCall[c].op] = c

\* What is under way has the row's values, and no fetch runs beside an activation or a
\* deletion.
CallsFit ==
  \A c \in EditorCalls :
    /\ Settling(editorCall[c]) =>
         editorCall[c].reply = policyRow /\ (editorCall[c].op = "delete" => ~policyRow.there)
    /\ editorCall[c].waiting /\ editorCall[c].op # "save" => editor.detail.fetch = NoFetch

\* The cached policy, and what is being read for it, is the API's.
DetailFits ==
  policyRow.there /\ (\A c \in EditorCalls : ~Settling(editorCall[c])) =>
    /\ editor.detail.data = policyRow
    /\ editor.detail.fetch.at = "back" => editor.detail.fetch.body = policyRow

\* The baseline is the API's policy.
BaselineFits ==
  editor.open /\ (\A c \in EditorCalls : Settling(editorCall[c]) => editorCall[c].op # "save") =>
    editor.form.baseline = Snapshot(policyRow.name, BuildEntries(policyRow.rules))

UneditedIsClean == editor.open /\ ~editor.edited => ~Dirty(editor.form)

QuietFits == Quiet => CallsAlone /\ CallsFit /\ DetailFits /\ BaselineFits /\ UneditedIsClean

EditorInv == EditorTypes /\ EditorPhases /\ VisitFits /\ QuietFits

\* A form built from a policy; the baseline may be of another.
LEMMA OpenedPolicies ==
  ASSUME NEW p \in EditedPolicies, NEW q \in EditedPolicies
  PROVE  LET frm == OpenedForm(p, q) IN
         /\ frm \in RowForms(PolicyNames, FormRows) /\ frm.errors = {}
         /\ frm.baseline = Snapshot(q.name, BuildEntries(q.rules))
         /\ p = q => ~Dirty(frm)
<1>1. /\ p.name \in PolicyNames /\ q.name \in PolicyNames
      /\ BuildEntries(p.rules) \in Seq(FormRows) /\ BuildEntries(q.rules) \in Seq(FormRows)
  BY BuiltRows DEF EditedPolicies
<1>2. OpenedForm(p, q) = FormOf(p.name, p.rules, Snapshot(q.name, BuildEntries(q.rules)))
  BY DEF OpenedForm
<1> DEFINE h == q.name
           e == BuildEntries(q.rules)
           frm == FormOf(p.name, p.rules, Snapshot(h, e))
<1>3. h \in PolicyNames /\ e \in Seq(FormRows)
  BY <1>1
<1> HIDE DEF h, e
<1>4. /\ frm \in RowForms(PolicyNames, FormRows) /\ frm.errors = {}
      /\ frm.baseline = Snapshot(h, e)
      /\ Dirty(frm) <=> Snapshot(p.name, BuildEntries(p.rules)) # Snapshot(h, e)
  <2>1. ASSUME NEW n \in PolicyNames, NEW r, BuildEntries(r) \in Seq(FormRows)
        PROVE  LET g == FormOf(n, r, Snapshot(h, e)) IN
               /\ g \in RowForms(PolicyNames, FormRows) /\ g.errors = {} /\ g.baseline = Snapshot(h, e)
               /\ Dirty(g) <=> Snapshot(n, BuildEntries(r)) # Snapshot(h, e)
    BY <1>3, <2>1, OpenedRows
  <2> QED BY <1>1, <2>1
<1>5. p = q => Snapshot(p.name, BuildEntries(p.rules)) = Snapshot(h, e)
  BY DEF h, e
<1> QED BY <1>2, <1>4, <1>5 DEF h, e

\* The form of a save's reply.
LEMMA SyncedPolicies ==
  ASSUME NEW p \in EditedPolicies
  PROVE  LET frm == SyncedForm(p.name, p.rules) IN
         /\ frm \in RowForms(PolicyNames, FormRows) /\ frm.errors = {}
         /\ frm.baseline = Snapshot(p.name, BuildEntries(p.rules)) /\ ~Dirty(frm)
<1>1. SyncedForm(p.name, p.rules) = OpenedForm(p, p)
  BY DEF SyncedForm, OpenedForm
<1> QED BY <1>1, OpenedPolicies

\* A step of the visit, the calls and the row left alone: what is to be shown of the
\* page, given that the step excuses nothing that was fitting.
LEMMA VisitMoves ==
  ASSUME EditorInv, UNCHANGED <<policyRow, editorCall>>, editor' \in EditorRecords, VisitFits',
         Quiet' => Quiet,
         Quiet' /\ editor'.open /\ AnyWaiting => editor.open /\ editor'.latest = editor.latest,
         Quiet' /\ AnyWaiting => editor'.detail.fetch = NoFetch \/ editor.detail.fetch # NoFetch,
         Quiet' => DetailFits' /\ BaselineFits' /\ UneditedIsClean'
  PROVE  EditorInv'
<1>1. policyRow' = policyRow /\ editorCall' = editorCall
  OBVIOUS
<1>2. EditorTypes' /\ EditorPhases'
  BY <1>1 DEF EditorInv, EditorTypes, EditorPhases
<1>3. ASSUME Quiet'
      PROVE  CallsAlone' /\ CallsFit'
  <2>1. CallsAlone /\ CallsFit
    BY <1>3 DEF EditorInv, QuietFits
  <2>2. \A c \in EditorCalls : editorCall[c].waiting => AnyWaiting
    BY DEF AnyWaiting
  <2>3. CallsAlone'
    BY <1>1, <1>3, <2>1, <2>2 DEF CallsAlone
  <2>4. CallsFit'
    BY <1>1, <1>3, <2>1, <2>2 DEF CallsFit
  <2> QED BY <2>3, <2>4
<1> QED BY <1>2, <1>3 DEF EditorInv, QuietFits

\* Opening and leaving the page, and the dialog.
LEMMA EditorVisitsKeep ==
  ASSUME EditorInv, LeaveEditor \/ OpenEditor \/ AskDeletePolicy \/ CancelDeletePolicy
  PROVE  EditorInv'
<1> DEFINE q == editor.detail
<1>1. /\ policyRow \in EditedPolicies /\ editor \in EditorRecords /\ q \in PageQueries(EditedPolicies)
      /\ q.data \in EditedPolicies /\ editor.open \in BOOLEAN /\ editor.overlap \in BOOLEAN
      /\ editor.latest \in [EditorOps -> Nat] /\ editor.form \in RowForms(PolicyNames, FormRows)
  BY PageQueriesMove DEF EditorInv, EditorTypes, EditorRecords
<1>2. policyRow' = policyRow /\ editorCall' = editorCall
  BY DEF LeaveEditor, OpenEditor, AskDeletePolicy, CancelDeletePolicy
<1>3. \A c \in EditorCalls : Settling(editorCall[c]) => AnyWaiting
  BY DEF Settling, AnyWaiting
<1>4. CASE LeaveEditor
  <2> DEFINE p == CancelQueries(q)
  <2>1. p \in PageQueries(EditedPolicies) /\ p.data = q.data /\ p.fetch = NoFetch
    BY <1>1, PageQueriesMove
  <2>2. NobodyLatest \in [EditorOps -> Nat]
    BY DEF NobodyLatest
  <2>3. editor' = [editor EXCEPT !.open = FALSE, !.asked = FALSE, !.latest = NobodyLatest, !.detail = p]
    BY <1>4 DEF LeaveEditor
  <2> HIDE DEF p
  <2>4. /\ editor' \in EditorRecords /\ editor'.open = FALSE /\ editor'.detail = p
        /\ editor'.form = editor.form /\ editor'.lost = editor.lost /\ editor'.overlap = editor.overlap
    BY <1>1, <2>1, <2>2, <2>3 DEF EditorRecords
  <2>5. VisitFits'
    BY <2>1, <2>4 DEF EditorInv, VisitFits, UsedKinds
  <2>6. Quiet' => Quiet
    BY <2>4 DEF Quiet
  <2>7. NoFetch.at = "none"
    BY DEF NoFetch
  <2>8. Quiet' => DetailFits'
    BY <1>2, <2>1, <2>4, <2>6, <2>7 DEF EditorInv, QuietFits, DetailFits
  <2>9. BaselineFits' /\ UneditedIsClean'
    BY <2>4 DEF BaselineFits, UneditedIsClean
  <2> QED BY <1>2, <2>1, <2>4, <2>5, <2>6, <2>8, <2>9, VisitMoves
<1>5. CASE OpenEditor
  <2> DEFINE frm == OpenedForm(q.data, policyRow)
             overlap == (editor.overlap \/ AnyWaiting)
  <2>1. PICK fetched \in BOOLEAN :
          editor' = [editor EXCEPT !.open = TRUE, !.form = frm, !.edited = FALSE, !.overlap = overlap,
                                   !.detail = IF fetched THEN InvalidateQueries(q) ELSE q]
    BY <1>5 DEF OpenEditor
  <2> DEFINE p == IF fetched THEN InvalidateQueries(q) ELSE q
  <2>2. /\ p \in PageQueries(EditedPolicies) /\ p.data = q.data /\ p.fetch \in {q.fetch, Sent}
    BY <1>1, PageQueriesMove
  <2>3. /\ frm \in RowForms(PolicyNames, FormRows) /\ frm.errors = {}
        /\ frm.baseline = Snapshot(policyRow.name, BuildEntries(policyRow.rules))
        /\ q.data = policyRow => ~Dirty(frm)
    BY <1>1, OpenedPolicies
  <2>4. overlap \in BOOLEAN /\ (overlap = FALSE => ~editor.overlap /\ ~AnyWaiting)
    OBVIOUS
  <2>5. q.fetch = NoFetch /\ policyRow.there
    BY <1>5 DEF OpenEditor, EditorInv, VisitFits
  <2>6. p.fetch.at # "back"
    BY <2>2, <2>5 DEF NoFetch, Sent
  <2>7. editor' = [editor EXCEPT !.open = TRUE, !.form = frm, !.edited = FALSE, !.overlap = overlap,
                                 !.detail = p]
    BY <2>1
  <2> HIDE DEF frm, overlap, p
  <2>8. /\ editor' \in EditorRecords /\ editor'.open = TRUE /\ editor'.detail = p
        /\ editor'.form = frm /\ editor'.lost = editor.lost /\ editor'.overlap = overlap
    BY <1>1, <2>2, <2>3, <2>4, <2>7 DEF EditorRecords
  <2>9. VisitFits'
    BY <2>3, <2>8 DEF VisitFits
  <2>10. Quiet' => Quiet /\ ~AnyWaiting
    BY <2>4, <2>8 DEF Quiet
  <2>11. Quiet' => q.data = policyRow
    BY <1>3, <2>5, <2>10 DEF EditorInv, QuietFits, DetailFits
  <2>12. Quiet' => DetailFits' /\ BaselineFits' /\ UneditedIsClean'
    BY <1>2, <2>2, <2>3, <2>6, <2>8, <2>11 DEF DetailFits, BaselineFits, UneditedIsClean
  <2> QED BY <1>2, <2>8, <2>9, <2>10, <2>12, VisitMoves
<1>6. CASE AskDeletePolicy \/ CancelDeletePolicy
  <2>1. PICK asked \in BOOLEAN : editor' = [editor EXCEPT !.asked = asked]
    BY <1>6 DEF AskDeletePolicy, CancelDeletePolicy
  <2>2. /\ editor' \in EditorRecords /\ editor'.open = editor.open /\ editor'.detail = q
        /\ editor'.form = editor.form /\ editor'.lost = editor.lost /\ editor'.overlap = editor.overlap
        /\ editor'.latest = editor.latest /\ editor'.edited = editor.edited
    BY <1>1, <2>1 DEF EditorRecords
  <2>3. VisitFits'
    BY <2>2 DEF EditorInv, VisitFits
  <2>4. Quiet' => Quiet
    BY <2>2 DEF Quiet
  <2>5. Quiet' => DetailFits' /\ BaselineFits' /\ UneditedIsClean'
    BY <1>2, <2>2, <2>4 DEF EditorInv, QuietFits, DetailFits, BaselineFits, UneditedIsClean
  <2> QED BY <1>2, <2>2, <2>3, <2>4, <2>5, VisitMoves
<1> QED BY <1>4, <1>5, <1>6

NameTyped == \E name \in {Spelt(""), Spelt("a"), Loose("b")} : TypeName(name)

\* The names typed.
LEMMA NamesTyped ==
  ASSUME NameTyped
  PROVE  \E name \in PolicyNames : TypeName(name)
<1>1. Spelt("") \in PolicyNames /\ Spelt("a") \in PolicyNames
  BY DEF Spelt, PolicyNames
<1>2. Loose("b") \in PolicyNames
  BY DEF Loose, PolicyNames
<1> QED BY <1>1, <1>2 DEF NameTyped

\* Clicks and keys in the form.
LEMMA EditorEditsKeep ==
  ASSUME EditorInv, EditRows \/ NameTyped
  PROVE  EditorInv'
<1> DEFINE old == editor.form
<1>1. /\ editor \in EditorRecords /\ old \in RowForms(PolicyNames, FormRows) /\ editor.edits \in Nat
      /\ editor.edits + 1 \in Nat /\ old.errors \subseteq UsedKinds(old)
  <2>1. editor \in EditorRecords /\ editor.form.errors \subseteq UsedKinds(editor.form)
    BY DEF EditorInv, EditorTypes, VisitFits
  <2>2. editor.form \in RowForms(PolicyNames, FormRows) /\ editor.edits \in Nat
    BY <2>1 DEF EditorRecords
  <2>3. editor.edits + 1 \in Nat
    BY <2>2
  <2> QED BY <2>1, <2>2, <2>3
<1>2. PICK frm \in RowForms(PolicyNames, FormRows) :
        /\ EditorFormIs(frm) /\ frm.baseline = old.baseline /\ frm.errors \subseteq UsedKinds(frm)
  <2>1. CASE EditRows
    <3>1. PICK frm \in RowsEdited(old) : EditorFormIs(frm)
      BY <2>1 DEF EditRows
    <3>2. /\ frm \in RowForms(PolicyNames, FormRows) /\ frm.baseline = old.baseline
          /\ frm.errors \subseteq UsedKinds(frm)
      <4>1. ASSUME NEW a \in RowForms(PolicyNames, FormRows), NEW b \in RowsEdited(a)
            PROVE  /\ b \in RowForms(PolicyNames, FormRows) /\ b.baseline = a.baseline
                   /\ a.errors \subseteq UsedKinds(a) => b.errors \subseteq UsedKinds(b)
        <5>1. RowsClosed(FormRows)
          BY RowsAreClosed
        <5> QED BY <5>1, EditedRows
      <4> QED BY <1>1, <4>1
    <3> QED BY <3>1, <3>2
  <2>2. ASSUME NEW name \in PolicyNames, TypeName(name)
        PROVE  \E frm \in RowForms(PolicyNames, FormRows) :
                 /\ EditorFormIs(frm) /\ frm.baseline = old.baseline
                 /\ frm.errors \subseteq UsedKinds(frm)
    <3> DEFINE frm == [old EXCEPT !.head = name, !.headError = FALSE]
    <3>2. /\ frm \in RowForms(PolicyNames, FormRows) /\ frm.baseline = old.baseline
          /\ frm.errors = old.errors /\ frm.entries = old.entries
      BY <1>1, <2>2 DEF RowForms
    <3>3. EditorFormIs(frm)
      BY <2>2 DEF TypeName
    <3> HIDE DEF frm
    <3>4. UsedKinds(frm) = UsedKinds(old)
      BY <3>2 DEF UsedKinds
    <3> QED BY <1>1, <3>2, <3>3, <3>4
  <2> QED BY <2>1, <2>2, NamesTyped
<1> DEFINE n == editor.edits + 1
<1>3. /\ editor' = [editor EXCEPT !.form = frm, !.edits = n, !.edited = TRUE] /\ n \in Nat
      /\ policyRow' = policyRow /\ editorCall' = editorCall
  BY <1>1, <1>2 DEF EditorFormIs
<1> HIDE DEF n
<1>4. /\ editor' \in EditorRecords /\ editor'.open = editor.open /\ editor'.detail = editor.detail
      /\ editor'.form = frm /\ editor'.lost = editor.lost /\ editor'.overlap = editor.overlap
      /\ editor'.latest = editor.latest /\ editor'.edited = TRUE
  BY <1>1, <1>3 DEF EditorRecords
<1>5. VisitFits'
  BY <1>2, <1>4 DEF EditorInv, VisitFits
<1>6. Quiet' => Quiet
  BY <1>4 DEF Quiet
<1>7. Quiet' => DetailFits' /\ BaselineFits' /\ UneditedIsClean'
  BY <1>2, <1>3, <1>4, <1>6 DEF EditorInv, QuietFits, DetailFits, BaselineFits, UneditedIsClean
<1> QED BY <1>3, <1>4, <1>5, <1>6, <1>7, VisitMoves

\* The policy's own reading.
LEMMA EditorReadsKeep ==
  ASSUME EditorInv, PolicyRead \/ PolicyReadAnswered \/ PolicyReadFailed
  PROVE  EditorInv'
<1> DEFINE q == editor.detail
<1>1. /\ policyRow \in EditedPolicies /\ editor \in EditorRecords /\ q \in PageQueries(EditedPolicies)
      /\ editor.faults \in Nat /\ editor.faults + 1 \in Nat /\ editor.stale \in BOOLEAN
  BY DEF EditorInv, EditorTypes, EditorRecords
<1>2. policyRow' = policyRow /\ editorCall' = editorCall
  BY DEF PolicyRead, PolicyReadAnswered, PolicyReadFailed
<1>3. NoFetch.at = "none" /\ Sent.at = "sent" /\ (q.fetch.at = "none" <=> q.fetch = NoFetch)
      /\ (Idle(q) <=> q.fetch = NoFetch)
  BY <1>1, PageQueriesMove DEF Idle
<1>4. ASSUME NEW p \in PageQueries(EditedPolicies), NEW stale \in BOOLEAN, NEW n \in Nat,
             editor' = [editor EXCEPT !.detail = p, !.stale = stale, !.faults = n],
             q.fetch # NoFetch,
             DetailFits => \/ p.data \in {q.data, policyRow} /\ p.fetch = NoFetch
                           \/ p.data = q.data /\ p.fetch.at = "back" /\ p.fetch.body = policyRow
                           \/ ~policyRow.there \/ \E c \in EditorCalls : Settling(editorCall[c])
      PROVE  EditorInv'
  <2>1. /\ editor' \in EditorRecords /\ editor'.open = editor.open /\ editor'.detail = p
        /\ editor'.form = editor.form /\ editor'.lost = editor.lost /\ editor'.overlap = editor.overlap
        /\ editor'.latest = editor.latest /\ editor'.edited = editor.edited
    BY <1>1, <1>4 DEF EditorRecords
  <2>2. editor.open
    BY <1>4 DEF EditorInv, VisitFits
  <2>3. VisitFits'
    BY <2>1, <2>2 DEF EditorInv, VisitFits
  <2>4. Quiet' => Quiet
    BY <2>1 DEF Quiet
  <2>5. Quiet' => DetailFits'
    BY <1>2, <1>3, <1>4, <2>1, <2>4 DEF EditorInv, QuietFits, DetailFits
  <2>6. Quiet' => BaselineFits' /\ UneditedIsClean'
    BY <1>2, <2>1, <2>4 DEF EditorInv, QuietFits, BaselineFits, UneditedIsClean
  <2> QED BY <1>2, <1>4, <2>1, <2>3, <2>4, <2>5, <2>6, VisitMoves
<1>5. CASE PolicyRead
  <2> DEFINE p == Reads(q, policyRow)
  <2>0. \A a \in PageQueries(EditedPolicies), b \in EditedPolicies :
          /\ Reads(a, b) \in PageQueries(EditedPolicies) /\ Reads(a, b).data = a.data
          /\ Reads(a, b).fetch.at = "back" /\ Reads(a, b).fetch.body = b
    BY PageQueriesTake
  <2>1. /\ p \in PageQueries(EditedPolicies) /\ p.data = q.data
        /\ p.fetch.at = "back" /\ p.fetch.body = policyRow
    BY <1>1, <2>0
  <2>2. editor' = [editor EXCEPT !.detail = p, !.stale = editor.stale, !.faults = editor.faults]
    BY <1>1, <1>5 DEF PolicyRead, EditorRecords
  <2>3. q.fetch # NoFetch
    BY <1>3, <1>5 DEF PolicyRead
  <2> HIDE DEF p
  <2> QED BY <1>1, <1>4, <2>1, <2>2, <2>3
<1>6. CASE PolicyReadFailed
  <2> DEFINE p == Fails(q)
             n == editor.faults + 1
  <2>1. p \in PageQueries(EditedPolicies) /\ p.data = q.data /\ p.fetch = NoFetch
    BY <1>1, PageQueriesMove
  <2>2. n \in Nat /\ editor' = [editor EXCEPT !.detail = p, !.stale = editor.stale, !.faults = n]
    BY <1>1, <1>6 DEF PolicyReadFailed, EditorRecords
  <2>3. q.fetch # NoFetch
    BY <1>3, <1>6 DEF PolicyReadFailed
  <2> HIDE DEF p, n
  <2> QED BY <1>1, <1>4, <2>1, <2>2, <2>3
<1>7. CASE PolicyReadAnswered
  <2>1. q.fetch.at = "back" /\ q.fetch # NoFetch
    BY <1>3, <1>7 DEF PolicyReadAnswered
  <2>2. CASE q.fetch.body.there
    <3> DEFINE p == Succeeds(q)
    <3>1. p \in PageQueries(EditedPolicies) /\ p.data = q.fetch.body /\ p.fetch = NoFetch
      BY <1>1, <2>1, PageQueriesMove
    <3>2. editor' = [editor EXCEPT !.detail = p, !.stale = FALSE, !.faults = editor.faults]
      BY <1>1, <1>7, <2>2 DEF PolicyReadAnswered, EditorRecords
    <3> HIDE DEF p
    <3>3. DetailFits => \/ p.data \in {q.data, policyRow} /\ p.fetch = NoFetch
                        \/ ~policyRow.there \/ \E c \in EditorCalls : Settling(editorCall[c])
      BY <2>1, <3>1 DEF DetailFits
    <3> QED BY <1>1, <1>4, <2>1, <3>1, <3>2, <3>3
  <2>3. CASE ~q.fetch.body.there
    <3> DEFINE p == Fails(q)
    <3>1. p \in PageQueries(EditedPolicies) /\ p.data = q.data /\ p.fetch = NoFetch
      BY <1>1, PageQueriesMove
    <3>2. editor' = [editor EXCEPT !.detail = p, !.stale = editor.stale, !.faults = editor.faults]
      BY <1>1, <1>7, <2>3 DEF PolicyReadAnswered, EditorRecords
    <3> HIDE DEF p
    <3> QED BY <1>1, <1>4, <2>1, <3>1, <3>2
  <2> QED BY <2>2, <2>3
<1> QED BY <1>5, <1>6, <1>7

\* A step of one call: the others' phases stay.
LEMMA EditorCallMoves ==
  ASSUME EditorInv, NEW c \in EditorCalls, NEW call \in EditorCallRecords, EditorPhase(call),
         editorCall' = [editorCall EXCEPT ![c] = call]
  PROVE  /\ editorCall' \in [EditorCalls -> EditorCallRecords] /\ EditorPhases'
         /\ editorCall'[c] = call /\ \A d \in EditorCalls : d # c => editorCall'[d] = editorCall[d]
<1>1. editorCall \in [EditorCalls -> EditorCallRecords] /\ EditorPhases
  BY DEF EditorInv, EditorTypes
<1>2. /\ editorCall' \in [EditorCalls -> EditorCallRecords]
      /\ editorCall'[c] = call /\ \A d \in EditorCalls : d # c => editorCall'[d] = editorCall[d]
  BY <1>1
<1>3. \A d \in EditorCalls : editorCall'[d] \in {call, editorCall[d]}
  BY <1>2
<1>4. \A d \in EditorCalls : EditorPhase(editorCall'[d])
  BY <1>1, <1>3 DEF EditorPhases
<1>5. EditorPhases'
  BY <1>4 DEF EditorPhases, EditorPhase
<1> QED BY <1>2, <1>5

\* A call just made.
LEMMA CallsMade ==
  ASSUME NEW op \in EditorOps, NEW body \in {<<>>} \cup SavedBodies
  PROVE  LET call == [NoEditorCall EXCEPT !.op = op, !.at = "work", !.body = body, !.waiting = TRUE] IN
         /\ call \in EditorCallRecords
         /\ call.op = op /\ call.at = "work" /\ call.body = body /\ call.waiting /\ ~call.ok
<1>1. NoEditorCall \in EditorCallRecords /\ ~NoEditorCall.ok
  BY DEF NoEditorCall, EditorCallRecords
<1> QED BY <1>1 DEF EditorCallRecords

\* A call begins, from this form and with this fetch given up.
LEMMA CallBegins ==
  ASSUME EditorInv, NEW c \in EditorCalls, NEW op \in EditorOps, NEW body \in {<<>>} \cup SavedBodies,
         op = "save" => body \in SavedBodies,
         NEW e \in EditorRecords, e.open = editor.open, e.edited = editor.edited, e.lost = editor.lost,
         e.overlap = editor.overlap, e.latest = editor.latest, e.form.errors \subseteq UsedKinds(e.form),
         e.form.baseline = editor.form.baseline, Dirty(e.form) <=> Dirty(editor.form),
         e.detail.data = editor.detail.data,
         e.detail.fetch = NoFetch \/ (op = "save" /\ e.detail.fetch = editor.detail.fetch),
         EditorCallMade(c, op, body, e), UNCHANGED policyRow
  PROVE  EditorInv'
<1> DEFINE call == [NoEditorCall EXCEPT !.op = op, !.at = "work", !.body = body, !.waiting = TRUE]
           overlap == (e.overlap \/ AnyWaiting)
<1>1. /\ call \in EditorCallRecords /\ EditorPhase(call) /\ ~Settling(call) /\ call.waiting
      /\ call.op = op
  <2>1. /\ call \in EditorCallRecords
        /\ call.op = op /\ call.at = "work" /\ call.body = body /\ call.waiting /\ ~call.ok
    BY CallsMade
  <2> HIDE DEF call
  <2>4. op # "none"
    BY DEF EditorOps
  <2> QED BY <2>1, <2>4 DEF EditorPhase, Settling
<1>2. editorCall' = [editorCall EXCEPT ![c] = call]
  BY DEF EditorCallMade
<1> HIDE DEF call
<1>3. /\ editorCall' \in [EditorCalls -> EditorCallRecords] /\ EditorPhases'
      /\ editorCall'[c] = call /\ \A d \in EditorCalls : d # c => editorCall'[d] = editorCall[d]
  BY <1>1, <1>2, EditorCallMoves
<1> DEFINE latest == [e.latest EXCEPT ![op] = c]
<1>4. /\ latest \in [EditorOps -> Nat] /\ latest[op] = c /\ overlap \in BOOLEAN
  <2>1. c \in Nat
    BY PolicyEditorAssumption
  <2> QED BY <2>1 DEF EditorRecords
<1>5. editor' = [e EXCEPT !.latest = latest, !.overlap = overlap]
  BY DEF EditorCallMade
<1>6. overlap = FALSE => ~editor.overlap /\ ~AnyWaiting
  OBVIOUS
<1> HIDE DEF latest, overlap
<1>7. /\ editor' \in EditorRecords /\ editor'.open = editor.open /\ editor'.edited = editor.edited
      /\ editor'.lost = editor.lost /\ editor'.overlap = overlap /\ editor'.latest = latest
      /\ editor'.form = e.form /\ editor'.detail = e.detail
  BY <1>4, <1>5 DEF EditorRecords
<1>8. editor.detail \in PageQueries(EditedPolicies) /\ NoFetch.at = "none"
  BY DEF EditorInv, EditorTypes, EditorRecords, NoFetch
<1>9. VisitFits'
  BY <1>7 DEF EditorInv, VisitFits
<1>10. ASSUME Quiet'
       PROVE  CallsAlone' /\ CallsFit' /\ DetailFits' /\ BaselineFits' /\ UneditedIsClean'
  <2>1. Quiet /\ ~AnyWaiting
    BY <1>4, <1>6, <1>7, <1>10 DEF Quiet
  <2>2. \A d \in EditorCalls : ~editorCall[d].waiting /\ ~Settling(editorCall[d])
    BY <2>1 DEF AnyWaiting, Settling
  <2>3. CallsAlone /\ DetailFits /\ BaselineFits /\ UneditedIsClean
    BY <2>1 DEF EditorInv, QuietFits
  <2>4. \A d \in EditorCalls : /\ ~Settling(editorCall'[d]) /\ (editorCall'[d].waiting => d = c)
                              /\ (editorCall'[d].at = "work" => editorCall'[d].waiting)
    BY <1>1, <1>3, <2>2, <2>3 DEF CallsAlone
  <2>5. CallsAlone'
    BY <1>1, <1>3, <1>4, <1>7, <2>4 DEF CallsAlone
  <2>6. \A d \in EditorCalls : ~Settling(editorCall[d])'
    BY <2>4 DEF Settling
  <2>7. CallsFit'
    BY <1>1, <1>3, <1>7, <2>4, <2>6 DEF CallsFit
  <2>8. DetailFits'
    BY <1>7, <1>8, <2>2, <2>3 DEF DetailFits
  <2>9. BaselineFits'
    BY <1>7, <2>2, <2>3 DEF BaselineFits
  <2>10. UneditedIsClean'
    BY <1>7, <2>3 DEF UneditedIsClean
  <2> QED BY <2>5, <2>7, <2>8, <2>9, <2>10
<1>11. EditorTypes'
  BY <1>3, <1>7 DEF EditorInv, EditorTypes
<1> QED BY <1>3, <1>9, <1>10, <1>11 DEF EditorInv, QuietFits

\* The buttons: save, activate, delete.
LEMMA EditorClicksKeep ==
  ASSUME EditorInv, NEW c \in EditorCalls, SavePolicy(c) \/ ActivateFromEditor(c) \/ ConfirmDeletePolicy(c)
  PROVE  EditorInv'
<1> DEFINE q == editor.detail
           old == editor.form
<1>1. /\ editor \in EditorRecords /\ q \in PageQueries(EditedPolicies) /\ policyRow' = policyRow
      /\ old \in RowForms(PolicyNames, FormRows)
  <2>1. policyRow' = policyRow
    BY DEF SavePolicy, ActivateFromEditor, ConfirmDeletePolicy
  <2> QED BY <2>1 DEF EditorInv, EditorTypes, EditorRecords
<1>2. old.errors \subseteq UsedKinds(old)
  BY DEF EditorInv, VisitFits
<1> DEFINE p == CancelQueries(q)
<1>3. p \in PageQueries(EditedPolicies) /\ p.data = q.data /\ p.fetch = NoFetch
  <2>1. \A a \in PageQueries(EditedPolicies) :
          /\ CancelQueries(a) \in PageQueries(EditedPolicies)
          /\ CancelQueries(a).data = a.data /\ CancelQueries(a).fetch = NoFetch
    BY DEF CancelQueries, PageQueries
  <2> QED BY <1>1, <2>1
<1>4. CASE ActivateFromEditor(c)
  <2> DEFINE e == [editor EXCEPT !.detail = p]
  <2>1. EditorCallMade(c, "activate", <<>>, e)
    BY <1>4 DEF ActivateFromEditor
  <2> HIDE DEF p
  <2>2. /\ e \in EditorRecords /\ e.open = editor.open /\ e.edited = editor.edited /\ e.lost = editor.lost
        /\ e.overlap = editor.overlap /\ e.latest = editor.latest /\ e.form = old /\ e.detail = p
    BY <1>1, <1>3 DEF EditorRecords
  <2>3. "activate" \in EditorOps /\ <<>> \in {<<>>} \cup SavedBodies
    BY DEF EditorOps
  <2> HIDE DEF e
  <2> QED BY <1>1, <1>2, <1>3, <2>1, <2>2, <2>3, CallBegins
<1>5. CASE ConfirmDeletePolicy(c)
  <2> DEFINE e == [editor EXCEPT !.detail = p, !.asked = FALSE]
  <2>1. EditorCallMade(c, "delete", <<>>, e)
    BY <1>5 DEF ConfirmDeletePolicy
  <2> HIDE DEF p
  <2>2. /\ e \in EditorRecords /\ e.open = editor.open /\ e.edited = editor.edited /\ e.lost = editor.lost
        /\ e.overlap = editor.overlap /\ e.latest = editor.latest /\ e.form = old /\ e.detail = p
    BY <1>1, <1>3 DEF EditorRecords
  <2>3. "delete" \in EditorOps /\ <<>> \in {<<>>} \cup SavedBodies
    BY DEF EditorOps
  <2> HIDE DEF e
  <2> QED BY <1>1, <1>2, <1>3, <2>1, <2>2, <2>3, CallBegins
<1>6. CASE SavePolicy(c)
  <2> DEFINE blank == (old.head.is = "")
             named == [old EXCEPT !.headError = blank]
             frm == Checked(named)
             e == [editor EXCEPT !.form = frm]
  <2>1. blank \in BOOLEAN
    OBVIOUS
  <2> HIDE DEF blank
  <2>2. /\ named \in RowForms(PolicyNames, FormRows) /\ named.baseline = old.baseline
        /\ named.entries = old.entries /\ named.head = old.head
    BY <1>1, <2>1 DEF RowForms
  <2>3. Dirty(named) <=> Dirty(old)
    BY <2>2 DEF Dirty
  <2>4. FormRows \subseteq FormStates
    BY DEF FormRows
  <2> HIDE DEF named
  <2>5. /\ frm \in RowForms(PolicyNames, FormRows) /\ frm.errors \subseteq UsedKinds(frm)
        /\ frm.baseline = named.baseline /\ frm.head = named.head /\ (Dirty(frm) <=> Dirty(named))
    BY <2>2, <2>4, CheckedRows
  <2> DEFINE body == Snapshot(Spelt(frm.head.is), RulesToSend(frm))
  <2>6. body \in SavedBodies
    <3>1. frm.head \in PolicyNames
      BY <2>5 DEF RowForms
    <3>2. Spelt(frm.head.is) \in PolicyNames
      BY <3>1 DEF PolicyNames, Spelt
    <3>3. RulesToSend(frm) \in Seq(RowRules)
      BY <2>5, SentRules
    <3> QED BY <3>2, <3>3 DEF Snapshot, SavedBodies
  <2>7. \/ editor' = e /\ editorCall' = editorCall
        \/ EditorCallMade(c, "save", body, e)
    BY <1>6 DEF SavePolicy, named, blank
  <2> HIDE DEF frm, body
  <2>8. /\ e \in EditorRecords /\ e.open = editor.open /\ e.edited = editor.edited /\ e.lost = editor.lost
        /\ e.overlap = editor.overlap /\ e.latest = editor.latest /\ e.form = frm /\ e.detail = q
    BY <1>1, <2>5 DEF EditorRecords
  <2> HIDE DEF e
  <2>9. CASE EditorCallMade(c, "save", body, e)
    <3>1. "save" \in EditorOps
      BY DEF EditorOps
    <3> QED BY <1>1, <2>2, <2>3, <2>5, <2>6, <2>8, <2>9, <3>1, CallBegins
  <2>10. CASE editor' = e /\ editorCall' = editorCall
    <3>1. VisitFits'
      BY <2>5, <2>8, <2>10 DEF EditorInv, VisitFits
    <3>2. Quiet' => Quiet
      BY <2>8, <2>10 DEF Quiet
    <3>3. Quiet' => DetailFits' /\ BaselineFits' /\ UneditedIsClean'
      BY <1>1, <2>2, <2>3, <2>5, <2>8, <2>10, <3>2
         DEF EditorInv, QuietFits, DetailFits, BaselineFits, UneditedIsClean
    <3> QED BY <1>1, <2>8, <2>10, <3>1, <3>2, <3>3, VisitMoves
  <2> QED BY <2>7, <2>9, <2>10
<1> QED BY <1>4, <1>5, <1>6

\* The API's steps, and the failures before them.
LEMMA EditorWorksKeep ==
  ASSUME EditorInv, NEW c \in EditorCalls,
         \/ EditorCallRefused(c) \/ EditorCallFails(c) \/ PolicySaved(c)
         \/ PolicyActivated(c) \/ PolicyDeleted(c)
  PROVE  EditorInv'
<1> DEFINE old == editorCall[c]
<1>1. /\ policyRow \in EditedPolicies /\ editorCall \in [EditorCalls -> EditorCallRecords]
      /\ editor \in EditorRecords /\ old \in EditorCallRecords /\ EditorPhase(old)
      /\ editor.faults \in Nat /\ editor.faults + 1 \in Nat
  BY DEF EditorInv, EditorTypes, EditorPhases, EditorRecords
<1>2. old.at = "work" /\ old.op # "none"
  BY <1>1 DEF EditorPhase, EditorCallRefused, EditorCallFails, PolicySaved, PolicyActivated, PolicyDeleted
<1>3. ASSUME NEW row \in EditedPolicies, NEW ok \in BOOLEAN, NEW n \in Nat,
             editor' = [editor EXCEPT !.faults = n], policyRow' = row,
             editorCall' = [editorCall EXCEPT ![c] = [old EXCEPT !.at = "answer", !.ok = ok, !.reply = row]],
             ~ok => row = policyRow,
             ok /\ old.op = "delete" => ~row.there,
             ok /\ old.op # "save" => row.name = policyRow.name /\ row.rules = policyRow.rules
      PROVE  EditorInv'
  <2> DEFINE call == [old EXCEPT !.at = "answer", !.ok = ok, !.reply = row]
  <2>1. call \in EditorCallRecords
    BY <1>1, <1>3 DEF EditorCallRecords
  <2>2. /\ call.op = old.op /\ call.at = "answer" /\ call.ok = ok /\ call.reply = row
        /\ call.waiting = old.waiting /\ call.body = old.body
    BY <1>1 DEF EditorCallRecords
  <2>3. EditorPhase(call)
    BY <1>1, <1>2, <1>3, <2>2 DEF EditorPhase
  <2>4. editorCall' = [editorCall EXCEPT ![c] = call]
    BY <1>3
  <2> HIDE DEF call
  <2>5. /\ editorCall' \in [EditorCalls -> EditorCallRecords] /\ EditorPhases'
        /\ editorCall'[c] = call /\ \A d \in EditorCalls : d # c => editorCall'[d] = editorCall[d]
    BY <2>1, <2>3, <2>4, EditorCallMoves
  <2>6. /\ editor' \in EditorRecords /\ editor'.open = editor.open /\ editor'.detail = editor.detail
        /\ editor'.form = editor.form /\ editor'.lost = editor.lost /\ editor'.overlap = editor.overlap
        /\ editor'.latest = editor.latest /\ editor'.edited = editor.edited
    BY <1>1, <1>3 DEF EditorRecords
  <2>7. VisitFits'
    BY <2>6 DEF EditorInv, VisitFits
  <2>8. EditorTypes'
    BY <1>3, <2>5, <2>6 DEF EditorTypes
  <2>9. ASSUME Quiet'
        PROVE  CallsAlone' /\ CallsFit' /\ DetailFits' /\ BaselineFits' /\ UneditedIsClean'
    <3>1. CallsAlone /\ CallsFit /\ DetailFits /\ BaselineFits /\ UneditedIsClean
      BY <2>6, <2>9 DEF EditorInv, QuietFits, Quiet
    <3>2. old.waiting
      BY <1>2, <3>1 DEF CallsAlone
    <3>3. \A d \in EditorCalls : d # c => ~editorCall[d].waiting
      BY <3>1, <3>2 DEF CallsAlone
    <3>4. \A d \in EditorCalls : ~Settling(editorCall[d])
      BY <1>2, <3>3 DEF Settling
    <3>5. Settling(call) <=> ok
      BY <2>2, <3>2 DEF Settling
    <3>6. \A d \in EditorCalls : /\ d # c => ~editorCall'[d].waiting /\ ~Settling(editorCall'[d])
                                 /\ d # c => editorCall'[d].at # "work"
      BY <2>5, <3>1, <3>3 DEF Settling, CallsAlone
    <3>7. CallsAlone'
      BY <2>2, <2>5, <2>6, <3>1, <3>2, <3>6 DEF CallsAlone
    <3>8. CallsFit'
      <4>1. ASSUME NEW d \in EditorCalls
            PROVE  /\ Settling(editorCall'[d]) =>
                        editorCall'[d].reply = policyRow' /\ (editorCall'[d].op = "delete" => ~policyRow'.there)
                   /\ editorCall'[d].waiting /\ editorCall'[d].op # "save" => editor'.detail.fetch = NoFetch
        <5>1. CASE d = c
          BY <1>3, <2>2, <2>5, <2>6, <3>1, <3>2, <3>5, <5>1 DEF CallsFit
        <5>2. CASE d # c
          BY <3>6, <5>2
        <5> QED BY <5>1, <5>2
      <4> QED BY <4>1 DEF CallsFit, Settling
    <3>9. CASE ok
      <4>1. Settling(editorCall[c])'
        BY <2>5, <3>5, <3>9 DEF Settling
      <4>2. DetailFits'
        BY <4>1 DEF DetailFits
      <4>3. BaselineFits'
        BY <1>3, <2>2, <2>5, <2>6, <3>1, <3>4, <3>9, <4>1 DEF BaselineFits
      <4> QED BY <2>6, <3>1, <3>7, <3>8, <4>2, <4>3 DEF UneditedIsClean
    <3>10. CASE ~ok
      <4>1. policyRow' = policyRow
        BY <1>3, <3>10
      <4>2. DetailFits' /\ BaselineFits' /\ UneditedIsClean'
        BY <2>6, <3>1, <3>4, <4>1 DEF DetailFits, BaselineFits, UneditedIsClean
      <4> QED BY <3>7, <3>8, <4>2
    <3> QED BY <3>9, <3>10
  <2> QED BY <2>5, <2>7, <2>8, <2>9 DEF EditorInv, QuietFits
<1>4. ASSUME NEW row \in EditedPolicies, NEW ok \in BOOLEAN, EditorCallDone(c, row, ok),
             ~ok => row = policyRow,
             ok /\ old.op = "delete" => ~row.there,
             ok /\ old.op # "save" => row.name = policyRow.name /\ row.rules = policyRow.rules
      PROVE  EditorInv'
  <2>1. /\ policyRow' = row
        /\ editorCall' = [editorCall EXCEPT ![c] = [old EXCEPT !.at = "answer", !.ok = ok, !.reply = row]]
    BY <1>1, <1>4 DEF EditorCallDone, EditorCallRecords
  <2>2. editor' = [editor EXCEPT !.faults = editor.faults]
    BY <1>1, <1>4 DEF EditorCallDone, EditorRecords
  <2> QED BY <1>1, <1>3, <1>4, <2>1, <2>2
<1>5. CASE EditorCallRefused(c)
  BY <1>1, <1>4, <1>5 DEF EditorCallRefused
<1>6. CASE EditorCallFails(c)
  <2> DEFINE n == editor.faults + 1
  <2>1. /\ editor' = [editor EXCEPT !.faults = n] /\ policyRow' = policyRow
        /\ editorCall' = [editorCall EXCEPT ![c] = [old EXCEPT !.at = "answer", !.reply = policyRow]]
    BY <1>1, <1>6 DEF EditorCallFails
  <2>2. n \in Nat
    BY <1>1
  <2> HIDE DEF n
  <2>3. old.ok = FALSE
    BY <1>1, <1>2 DEF EditorPhase, EditorCallRecords
  <2>4. [old EXCEPT !.at = "answer", !.reply = policyRow]
          = [old EXCEPT !.at = "answer", !.ok = FALSE, !.reply = policyRow]
    BY <1>1, <2>3 DEF EditorCallRecords
  <2> QED BY <1>1, <1>3, <2>1, <2>2, <2>4
<1>7. CASE PolicySaved(c)
  <2> DEFINE row == [policyRow EXCEPT !.name = old.body.head, !.rules = old.body.rules]
  <2>1. old.op = "save" /\ EditorCallDone(c, row, TRUE)
    BY <1>7 DEF PolicySaved
  <2>2. old.body \in SavedBodies
    BY <1>1, <2>1 DEF EditorPhase
  <2>3. row \in EditedPolicies
    BY <1>1, <2>2 DEF SavedBodies, EditedPolicies
  <2> HIDE DEF row
  <2> QED BY <1>4, <2>1, <2>3
<1>8. CASE PolicyActivated(c)
  <2> DEFINE row == [policyRow EXCEPT !.active = TRUE]
  <2>1. old.op = "activate" /\ EditorCallDone(c, row, TRUE)
    BY <1>8 DEF PolicyActivated
  <2>2. row \in EditedPolicies /\ row.name = policyRow.name /\ row.rules = policyRow.rules
    BY <1>1 DEF EditedPolicies
  <2> HIDE DEF row
  <2> QED BY <1>4, <2>1, <2>2
<1>9. CASE PolicyDeleted(c)
  <2> DEFINE row == [policyRow EXCEPT !.there = FALSE]
  <2>1. old.op = "delete" /\ EditorCallDone(c, row, TRUE)
    BY <1>9 DEF PolicyDeleted
  <2>2. row \in EditedPolicies /\ row.name = policyRow.name /\ row.rules = policyRow.rules /\ ~row.there
    BY <1>1 DEF EditedPolicies
  <2> HIDE DEF row
  <2> QED BY <1>4, <2>1, <2>2
<1> QED BY <1>5, <1>6, <1>7, <1>8, <1>9

\* What a settled call makes of the page: the page of an answered save, activation or
\* deletion, whose reply is the row when nothing was given up.
LEMMA EditorSettles ==
  ASSUME EditorInv, NEW c \in EditorCalls, NEW ok \in BOOLEAN,
         editorCall[c].waiting, ok => editorCall[c].at = "answer" /\ editorCall[c].ok,
         NEW e, e = EditorSettled(c, ok)
  PROVE  /\ e \in EditorRecords /\ e.lost = editor.lost /\ e.overlap = editor.overlap
         /\ e.form.errors \subseteq UsedKinds(e.form) /\ (~e.open => e.detail.fetch = NoFetch)
         /\ Quiet /\ (ok \/ ~Settling(editorCall[c])) =>
              /\ policyRow.there => e.detail.data = policyRow
              /\ e.detail.fetch.at = "back" => e.detail.fetch.body = policyRow \/ ~policyRow.there
              /\ e.open => e.form.baseline = Snapshot(policyRow.name, BuildEntries(policyRow.rules))
              /\ e.open /\ ~e.edited => ~Dirty(e.form)
<1> DEFINE old == editorCall[c]
           q == editor.detail
<1>1. /\ policyRow \in EditedPolicies /\ old \in EditorCallRecords /\ EditorPhase(old)
      /\ editor \in EditorRecords /\ q \in PageQueries(EditedPolicies)
      /\ editor.form \in RowForms(PolicyNames, FormRows) /\ editor.asked \in BOOLEAN
      /\ editor.latest \in [EditorOps -> Nat] /\ editor.open \in BOOLEAN
  BY DEF EditorInv, EditorTypes, EditorPhases, EditorRecords
<1>2. /\ editor.form.errors \subseteq UsedKinds(editor.form)
      /\ ~editor.open => q.fetch = NoFetch
  BY DEF EditorInv, VisitFits
<1>3. ok => old.reply \in EditedPolicies
  BY <1>1 DEF EditorPhase
<1>4. /\ NoFetch.at = "none" /\ Sent.at = "sent"
      /\ \A a \in PageQueries(EditedPolicies) :
           /\ CancelQueries(a) \in PageQueries(EditedPolicies)
           /\ CancelQueries(a).data = a.data /\ CancelQueries(a).fetch = NoFetch
           /\ InvalidateQueries(a) \in PageQueries(EditedPolicies)
           /\ InvalidateQueries(a).data = a.data /\ InvalidateQueries(a).fetch = Sent
      /\ \A a \in PageQueries(EditedPolicies), v \in EditedPolicies :
           /\ SetQueryData(a, v) \in PageQueries(EditedPolicies)
           /\ SetQueryData(a, v).data = v /\ SetQueryData(a, v).fetch = a.fetch
  BY DEF NoFetch, Sent, CancelQueries, InvalidateQueries, SetQueryData, PageQueries
<1>5. ASSUME Quiet
      PROVE  /\ \A d \in EditorCalls : d # c => ~Settling(editorCall[d])
             /\ editor.open => editor.latest[old.op] = c
             /\ ok => old.reply = policyRow /\ (old.op = "delete" => ~policyRow.there)
             /\ old.op # "save" => q.fetch = NoFetch
             /\ CallsAlone /\ DetailFits /\ BaselineFits /\ UneditedIsClean
  <2>1. CallsAlone /\ CallsFit /\ DetailFits /\ BaselineFits /\ UneditedIsClean
    BY <1>5 DEF EditorInv, QuietFits
  <2>2. \A d \in EditorCalls : d # c => ~Settling(editorCall[d])
    BY <2>1 DEF CallsAlone, Settling
  <2>3. editor.open => editor.latest[old.op] = c
    BY <2>1 DEF CallsAlone
  <2>4. ok => Settling(old)
    BY DEF Settling
  <2>5. /\ ok => old.reply = policyRow /\ (old.op = "delete" => ~policyRow.there)
        /\ old.op # "save" => q.fetch = NoFetch
    BY <2>1, <2>4 DEF CallsFit
  <2> QED BY <2>1, <2>2, <2>3, <2>5
<1>6. ASSUME Quiet, ~Settling(old)
      PROVE  /\ policyRow.there => q.data = policyRow
             /\ q.fetch.at = "back" => q.fetch.body = policyRow \/ ~policyRow.there
             /\ editor.open => editor.form.baseline = Snapshot(policyRow.name, BuildEntries(policyRow.rules))
             /\ editor.open /\ ~editor.edited => ~Dirty(editor.form)
  <2>1. \A d \in EditorCalls : ~Settling(editorCall[d])
    BY <1>5, <1>6
  <2> QED BY <1>5, <1>6, <2>1 DEF DetailFits, BaselineFits, UneditedIsClean
<1>7. CASE old.op = "save"
  <2> DEFINE data == IF ok THEN SetQueryData(q, old.reply) ELSE q
             stale == TRUE
             p == IF editor.open THEN InvalidateQueries(data) ELSE data
             settled == [editor EXCEPT !.stale = TRUE, !.detail = p]
             synced == SyncedForm(old.reply.name, old.reply.rules)
  <2>1. data \in PageQueries(EditedPolicies) /\ data.fetch = q.fetch /\ data.data = IF ok THEN old.reply ELSE q.data
    BY <1>1, <1>3, <1>4
  <2>2. p \in PageQueries(EditedPolicies) /\ p.data = data.data /\ p.fetch = IF editor.open THEN Sent ELSE q.fetch
    BY <1>4, <2>1
  <2>3. UpdateSettled(c, ok) = settled
    <3>1. CASE ok
      <4>1. DetailIs(editor, old.reply) = [editor EXCEPT !.detail = data, !.stale = FALSE]
        BY <1>1, <3>1 DEF DetailIs, EditorRecords
      <4> DEFINE told == [editor EXCEPT !.detail = data, !.stale = FALSE]
      <4> HIDE DEF data
      <4>2. told.open = editor.open /\ told.detail = data
        BY <1>1 DEF EditorRecords
      <4>3. UpdateSettled(c, ok) = [told EXCEPT !.stale = TRUE, !.detail = IF told.open THEN InvalidateQueries(told.detail) ELSE told.detail]
        BY <3>1, <4>1 DEF UpdateSettled, Invalidated
      <4>4. UpdateSettled(c, ok) = [told EXCEPT !.stale = TRUE, !.detail = p]
        BY <4>2, <4>3
      <4> HIDE DEF p
      <4> QED BY <1>1, <4>4 DEF EditorRecords
    <3>2. CASE ~ok
      BY <1>1, <3>2 DEF UpdateSettled, Invalidated, EditorRecords
    <3> QED BY <3>1, <3>2
  <2>4. EditorSettled(c, ok) = SaveSettled(c, ok)
    BY <1>7 DEF EditorSettled
  <2>5. SaveSettled(c, ok) = IF ok /\ editor.latest.save = c THEN [settled EXCEPT !.form = synced, !.edited = FALSE]
                             ELSE settled
    BY <2>3 DEF SaveSettled
  <2> HIDE DEF data, p
  <2>6. /\ settled \in EditorRecords /\ settled.open = editor.open /\ settled.form = editor.form
        /\ settled.detail = p /\ settled.lost = editor.lost /\ settled.overlap = editor.overlap
        /\ settled.edited = editor.edited
    BY <1>1, <2>2 DEF EditorRecords
  <2> HIDE DEF settled
  <2>7. CASE ok /\ editor.latest.save = c
    <3>1. /\ synced \in RowForms(PolicyNames, FormRows) /\ synced.errors = {}
          /\ synced.baseline = Snapshot(old.reply.name, BuildEntries(old.reply.rules)) /\ ~Dirty(synced)
      BY <1>3, <2>7, SyncedPolicies
    <3> HIDE DEF synced
    <3>2. e = [settled EXCEPT !.form = synced, !.edited = FALSE]
      BY <2>4, <2>5, <2>7
    <3>3. /\ e \in EditorRecords /\ e.open = editor.open /\ e.form = synced
          /\ e.detail = p /\ e.lost = editor.lost /\ e.overlap = editor.overlap
      BY <2>6, <3>1, <3>2 DEF EditorRecords
    <3>4. e.form.errors \subseteq UsedKinds(e.form) /\ (~e.open => e.detail.fetch = NoFetch)
      BY <1>2, <2>2, <3>1, <3>3
    <3> QED BY <1>2, <1>4, <1>5, <2>1, <2>2, <2>7, <3>1, <3>3, <3>4
  <2>8. CASE ~(ok /\ editor.latest.save = c)
    <3>1. e = settled
      BY <2>4, <2>5, <2>8
    <3>2. e.form.errors \subseteq UsedKinds(e.form) /\ (~e.open => e.detail.fetch = NoFetch)
      BY <1>2, <2>2, <2>6, <3>1
    <3>3. Quiet /\ ok => ~e.open
      BY <1>5, <1>7, <2>6, <2>8, <3>1
    <3>4. e.detail.fetch.at # "back"
      BY <1>2, <1>4, <2>2, <2>6, <3>1
    <3>5. Quiet /\ ok => e.detail.data = policyRow
      BY <1>5, <2>1, <2>2, <2>6, <3>1
    <3>6. ~ok => e.detail.data = q.data
      BY <2>1, <2>2, <2>6, <3>1
    <3> QED BY <1>6, <2>6, <3>1, <3>2, <3>3, <3>4, <3>5, <3>6
  <2> QED BY <2>7, <2>8
<1>8. CASE old.op = "activate"
  <2>1. EditorSettled(c, ok) = ActivateSettled(c, ok)
    BY <1>8 DEF EditorSettled
  <2>2. CASE ok
    <3> DEFINE p == SetQueryData(q, old.reply)
    <3>1. p \in PageQueries(EditedPolicies) /\ p.data = old.reply /\ p.fetch = q.fetch
      BY <1>1, <1>3, <1>4, <2>2
    <3>2. e = [editor EXCEPT !.detail = p, !.stale = FALSE]
      BY <2>1, <2>2 DEF ActivateSettled, DetailIs
    <3> HIDE DEF p
    <3>3. /\ e \in EditorRecords /\ e.open = editor.open /\ e.form = editor.form /\ e.edited = editor.edited
          /\ e.detail = p /\ e.lost = editor.lost /\ e.overlap = editor.overlap
      BY <1>1, <3>1, <3>2 DEF EditorRecords
    <3>4. Quiet /\ editor.open => editor.form.baseline = Snapshot(policyRow.name, BuildEntries(policyRow.rules))
      BY <1>5, <1>8 DEF BaselineFits
    <3>5. Quiet /\ editor.open /\ ~editor.edited => ~Dirty(editor.form)
      BY <1>5 DEF UneditedIsClean
    <3> QED BY <1>2, <1>4, <1>5, <1>8, <2>2, <3>1, <3>3, <3>4, <3>5
  <2>3. CASE ~ok
    <3>1. e = editor
      BY <2>1, <2>3 DEF ActivateSettled
    <3> QED BY <1>1, <1>2, <1>6, <2>3, <3>1
  <2> QED BY <2>2, <2>3
<1>9. CASE old.op = "delete"
  <2>1. EditorSettled(c, ok) = DeletePolicySettled(c, ok)
    BY <1>9 DEF EditorSettled
  <2>2. CASE ok /\ editor.latest.delete = c
    <3> DEFINE p == CancelQueries(q)
    <3>1. p \in PageQueries(EditedPolicies) /\ p.data = q.data /\ p.fetch = NoFetch
      BY <1>1, <1>4
    <3>2. NobodyLatest \in [EditorOps -> Nat]
      BY DEF NobodyLatest
    <3>3. e = [editor EXCEPT !.open = FALSE, !.asked = FALSE, !.latest = NobodyLatest, !.detail = p]
      BY <2>1, <2>2 DEF DeletePolicySettled
    <3> HIDE DEF p
    <3>4. /\ e \in EditorRecords /\ e.open = FALSE /\ e.form = editor.form
          /\ e.detail = p /\ e.lost = editor.lost /\ e.overlap = editor.overlap
      BY <1>1, <3>1, <3>2, <3>3 DEF EditorRecords
    <3> QED BY <1>2, <1>4, <1>5, <1>9, <2>2, <3>1, <3>4
  <2>3. CASE ~(ok /\ editor.latest.delete = c)
    <3> DEFINE asked == (editor.asked /\ editor.latest.delete # c)
    <3>1. e = [editor EXCEPT !.asked = asked]
      BY <2>1, <2>3 DEF DeletePolicySettled
    <3>2. asked \in BOOLEAN
      OBVIOUS
    <3> HIDE DEF asked
    <3>3. /\ e \in EditorRecords /\ e.open = editor.open /\ e.form = editor.form /\ e.edited = editor.edited
          /\ e.detail = q /\ e.lost = editor.lost /\ e.overlap = editor.overlap
      BY <1>1, <3>1, <3>2 DEF EditorRecords
    <3>4. Quiet /\ ok => ~editor.open /\ ~policyRow.there
      BY <1>5, <1>9, <2>3
    <3> QED BY <1>2, <1>4, <1>5, <1>6, <1>9, <3>3, <3>4
  <2> QED BY <2>2, <2>3
<1>10. old.op # "none" /\ old.op \in EditorOps \cup {"none"}
  BY <1>1 DEF EditorPhase, EditorCallRecords
<1> QED BY <1>7, <1>8, <1>9, <1>10 DEF EditorOps

\* The answer to a call, and its loss.
LEMMA EditorAnswersKeep ==
  ASSUME EditorInv, NEW c \in EditorCalls, EditorAnswered(c) \/ EditorLost(c)
  PROVE  EditorInv'
<1> DEFINE old == editorCall[c]
           call == [old EXCEPT !.waiting = FALSE]
<1>1. /\ policyRow \in EditedPolicies /\ old \in EditorCallRecords /\ EditorPhase(old)
      /\ policyRow' = policyRow /\ editor \in EditorRecords
  <2>1. policyRow' = policyRow
    BY DEF EditorAnswered, EditorLost
  <2> QED BY <2>1 DEF EditorInv, EditorTypes, EditorPhases
<1>2. /\ call \in EditorCallRecords /\ call.op = old.op /\ call.at = old.at /\ call.ok = old.ok
      /\ call.reply = old.reply /\ ~call.waiting /\ call.body = old.body
  BY <1>1 DEF EditorCallRecords
<1>3. EditorPhase(call)
  BY <1>1, <1>2 DEF EditorPhase
<1>4. editorCall' = [editorCall EXCEPT ![c] = call]
  BY DEF EditorAnswered, EditorLost
<1> HIDE DEF call
<1>5. /\ editorCall' \in [EditorCalls -> EditorCallRecords] /\ EditorPhases'
      /\ editorCall'[c] = call /\ \A d \in EditorCalls : d # c => editorCall'[d] = editorCall[d]
  BY <1>2, <1>3, <1>4, EditorCallMoves
<1>6. CASE EditorAnswered(c)
  <2> DEFINE ok == old.ok
             e == EditorSettled(c, ok)
  <2>1. old.at = "answer" /\ old.waiting /\ editor' = e
    BY <1>6 DEF EditorAnswered
  <2>2. ok \in BOOLEAN
    BY <1>1 DEF EditorCallRecords
  <2>3. ok \/ ~Settling(old)
    BY DEF Settling
  <2> HIDE DEF e
  <2>4. /\ e \in EditorRecords /\ e.lost = editor.lost /\ e.overlap = editor.overlap
        /\ e.form.errors \subseteq UsedKinds(e.form) /\ (~e.open => e.detail.fetch = NoFetch)
        /\ Quiet =>
             /\ policyRow.there => e.detail.data = policyRow
             /\ e.detail.fetch.at = "back" => e.detail.fetch.body = policyRow \/ ~policyRow.there
             /\ e.open => e.form.baseline = Snapshot(policyRow.name, BuildEntries(policyRow.rules))
             /\ e.open /\ ~e.edited => ~Dirty(e.form)
    BY <2>1, <2>2, <2>3, EditorSettles DEF e
  <2>5. EditorTypes'
    BY <1>1, <1>5, <2>1, <2>4 DEF EditorTypes
  <2>6. VisitFits'
    BY <2>1, <2>4 DEF VisitFits
  <2>7. ASSUME Quiet'
        PROVE  CallsAlone' /\ CallsFit' /\ DetailFits' /\ BaselineFits' /\ UneditedIsClean'
    <3>1. Quiet
      BY <2>1, <2>4, <2>7 DEF Quiet
    <3>2. CallsAlone
      BY <3>1 DEF EditorInv, QuietFits
    <3>3. \A d \in EditorCalls : ~editorCall'[d].waiting /\ editorCall'[d].at # "work"
      BY <1>2, <1>5, <2>1, <3>2 DEF CallsAlone
    <3>4. CallsAlone' /\ CallsFit'
      BY <3>3 DEF CallsAlone, CallsFit, Settling
    <3>5. DetailFits' /\ BaselineFits' /\ UneditedIsClean'
      BY <1>1, <2>1, <2>4, <3>1 DEF DetailFits, BaselineFits, UneditedIsClean
    <3> QED BY <3>4, <3>5
  <2> QED BY <1>5, <2>5, <2>6, <2>7 DEF EditorInv, QuietFits
<1>7. CASE EditorLost(c)
  <2> DEFINE e == EditorSettled(c, FALSE)
             n == e.faults + 1
  <2>1. old.waiting /\ editor' = [e EXCEPT !.faults = n, !.lost = TRUE]
    BY <1>7 DEF EditorLost
  <2>2. e \in EditorRecords /\ e.form.errors \subseteq UsedKinds(e.form) /\ (~e.open => e.detail.fetch = NoFetch)
    BY <2>1, EditorSettles
  <2> HIDE DEF e
  <2>3. n \in Nat
    BY <2>2 DEF EditorRecords
  <2> HIDE DEF n
  <2>4. /\ editor' \in EditorRecords /\ editor'.lost = TRUE /\ editor'.form = e.form
        /\ editor'.open = e.open /\ editor'.detail = e.detail
    BY <2>1, <2>2, <2>3 DEF EditorRecords
  <2>5. EditorTypes'
    BY <1>1, <1>5, <2>4 DEF EditorTypes
  <2>6. VisitFits'
    BY <2>2, <2>4 DEF VisitFits
  <2>7. ~Quiet'
    BY <2>4 DEF Quiet
  <2> QED BY <1>5, <2>5, <2>6, <2>7 DEF EditorInv, QuietFits
<1> QED BY <1>6, <1>7

\* The editor opens on the API's policy.
LEMMA EditorStarts ==
  ASSUME PolicyEditorInit
  PROVE  EditorInv
<1> DEFINE p == PolicyOf(Spelt("a"), <<>>, FALSE)
<1>1. p \in EditedPolicies
  <2>1. Spelt("a") \in PolicyNames
    BY DEF Spelt, PolicyNames
  <2>2. <<>> \in Seq(RowRules)
    OBVIOUS
  <2> QED BY <2>1, <2>2 DEF PolicyOf, EditedPolicies
<1> DEFINE frm == OpenedForm(p, p)
           q == [MountedQuery(p) EXCEPT !.fetch = NoFetch]
<1>2. /\ policyRow = p /\ editorCall = [c \in EditorCalls |-> NoEditorCall]
      /\ editor = [open |-> TRUE, form |-> frm, asked |-> FALSE, latest |-> NobodyLatest,
                   detail |-> q, stale |-> FALSE, edits |-> 0, faults |-> 0,
                   edited |-> FALSE, lost |-> FALSE, overlap |-> FALSE]
  BY DEF PolicyEditorInit
<1> HIDE DEF p
<1>3. /\ frm \in RowForms(PolicyNames, FormRows) /\ frm.errors = {} /\ ~Dirty(frm)
      /\ frm.baseline = Snapshot(p.name, BuildEntries(p.rules))
  BY <1>1, OpenedPolicies
<1>4. q \in PageQueries(EditedPolicies) /\ q.data = p /\ q.fetch = NoFetch /\ NoFetch.at = "none"
  BY <1>1 DEF MountedQuery, PageQueries, NoFetch, Sent
<1>5. NobodyLatest \in [EditorOps -> Nat]
  BY DEF NobodyLatest
<1> HIDE DEF frm, q
<1>6. /\ editor \in EditorRecords /\ editor.open = TRUE /\ editor.form = frm /\ editor.detail = q
  BY <1>2, <1>3, <1>4, <1>5 DEF EditorRecords
<1>7. /\ NoEditorCall \in EditorCallRecords /\ EditorPhase(NoEditorCall)
      /\ ~NoEditorCall.waiting /\ NoEditorCall.at = "idle"
  BY DEF NoEditorCall, EditorCallRecords, EditorPhase
<1>8. \A c \in EditorCalls : editorCall[c] = NoEditorCall
  BY <1>2
<1>9. EditorTypes
  BY <1>1, <1>2, <1>6, <1>7 DEF EditorTypes
<1>10. EditorPhases /\ VisitFits
  BY <1>3, <1>6, <1>7, <1>8 DEF EditorPhases, VisitFits
<1>11. CallsAlone /\ CallsFit
  BY <1>7, <1>8 DEF CallsAlone, CallsFit, Settling
<1>12. DetailFits /\ BaselineFits /\ UneditedIsClean
  BY <1>2, <1>3, <1>4, <1>6 DEF DetailFits, BaselineFits, UneditedIsClean
<1> QED BY <1>9, <1>10, <1>11, <1>12 DEF EditorInv, QuietFits

\* Every step of the editor keeps its invariant.
LEMMA EditorKept ==
  ASSUME EditorInv, PolicyEditorNext
  PROVE  EditorInv'
<1>1. \/ LeaveEditor \/ OpenEditor \/ AskDeletePolicy \/ CancelDeletePolicy
      \/ EditRows \/ NameTyped \/ PolicyRead \/ PolicyReadAnswered \/ PolicyReadFailed
      \/ \E c \in EditorCalls :
           \/ SavePolicy(c) \/ ActivateFromEditor(c) \/ ConfirmDeletePolicy(c)
           \/ EditorCallRefused(c) \/ EditorCallFails(c) \/ PolicySaved(c)
           \/ PolicyActivated(c) \/ PolicyDeleted(c) \/ EditorAnswered(c) \/ EditorLost(c)
  BY DEF PolicyEditorNext, NameTyped
<1> QED BY <1>1, EditorVisitsKeep, EditorEditsKeep, EditorReadsKeep, EditorClicksKeep,
           EditorWorksKeep, EditorAnswersKeep

\* What the page says of its form, by its invariant.
LEMMA EditorSays ==
  ASSUME EditorInv
  PROVE  PolicyEditorTypeOK /\ SavedMeansSaved /\ DirtyMeansEdited /\ DetailSettles /\ SavedRowComesBack
<1>1. /\ policyRow \in EditedPolicies /\ editorCall \in [EditorCalls -> EditorCallRecords]
      /\ editor \in EditorRecords /\ editor.form \in RowForms(PolicyNames, FormRows)
      /\ editor.open \in BOOLEAN /\ editor.stale \in BOOLEAN
  BY DEF EditorInv, EditorTypes, EditorRecords
<1>2. /\ editor.form.entries \in Seq(FormRows)
      /\ \A i \in DOMAIN editor.form.entries : editor.form.entries[i] \in FormRows
  BY <1>1 DEF RowForms
<1>3. PolicyEditorTypeOK
  <2>1. \A c \in EditorCalls : editorCall[c].at \in {"idle", "work", "answer"}
    BY <1>1 DEF EditorCallRecords
  <2>2. UsedKinds(editor.form) \subseteq RuleTypes
    BY <1>2 DEF UsedKinds, FormRows
  <2> QED BY <1>1, <2>1, <2>2 DEF PolicyEditorTypeOK, EditorInv, VisitFits
<1>4. SavedMeansSaved
  <2> SUFFICES ASSUME editor.open, ~AnyWaiting, ~editor.lost, ~editor.overlap, ~Dirty(editor.form)
               PROVE  /\ editor.form.head = policyRow.name
                      /\ editor.form.entries = BuildEntries(policyRow.rules)
    BY DEF SavedMeansSaved
  <2>1. BaselineFits
    BY DEF EditorInv, QuietFits, Quiet
  <2>2. \A c \in EditorCalls : ~Settling(editorCall[c])
    BY DEF AnyWaiting, Settling
  <2>3. Snapshot(editor.form.head, editor.form.entries) = Snapshot(policyRow.name, BuildEntries(policyRow.rules))
    BY <2>1, <2>2 DEF BaselineFits, Dirty
  <2>4. ASSUME NEW a, NEW b, NEW x, NEW y, Snapshot(a, b) = Snapshot(x, y)
        PROVE  a = x /\ b = y
    BY <2>4 DEF Snapshot
  <2> QED BY <2>3, <2>4
<1>5. DirtyMeansEdited
  BY DEF DirtyMeansEdited, EditorInv, QuietFits, Quiet, UneditedIsClean
<1>6. DetailSettles
  <2>1. ~AnyWaiting => \A c \in EditorCalls : ~Settling(editorCall[c])
    BY DEF AnyWaiting, Settling
  <2> QED BY <2>1 DEF DetailSettles, EditorInv, QuietFits, Quiet, DetailFits
<1>7. SavedRowComesBack
  <2>1. \A s \in FormRows : s \in FormStates
    BY DEF FormRows
  <2> QED BY <1>2, <2>1, RowsRoundTrip DEF SavedRowComesBack
<1> QED BY <1>3, <1>4, <1>5, <1>6, <1>7

\* policy-editor-view.tsx, default-policy-view.tsx, rule-form.ts: "all changes saved" and
\* "unsaved changes" are true of what the API has and the user typed, the cached policy
\* settles on the API's, a saved row comes back as itself, a form without changes follows
\* the template and a refetch undoes nobody's edits, for any kinds of rules, any number of
\* calls, edits and faults; what is excepted is excepted by the properties themselves.
THEOREM FormsAlwaysKeepEdits == Spec => FormsKeepEdits
<1> DEFINE Inv == EditorInv /\ TemplateInv
<1>1. Init => Inv
  <2>1. Init => PolicyEditorInit /\ DefaultPolicyInit
    BY DEF Init
  <2> QED BY <2>1, EditorStarts, TemplateStarts
<1>2. Inv /\ [Next]_vars => Inv' /\ [Survives]_templateVars
  <2> SUFFICES ASSUME Inv, [Next]_vars
               PROVE  Inv' /\ [Survives]_templateVars
    OBVIOUS
  <2>1. (PolicyEditorNext \/ UNCHANGED editorVars) /\ (DefaultPolicyNext \/ UNCHANGED templateVars)
    BY DEF Next, vars, ReposPagePage, RepoFiltersPage, PolicyEditorPage, PolicyListPage,
       DefaultPolicyPage, ValidatePanelPage, GenerateFormPage, DiffReadersPage,
       DiffBudgetPage, SplitDocsPage, DiffViewerPage, CliConfigPage
  <2>2. ASSUME UNCHANGED editorVars
        PROVE  EditorInv'
    <3>1. policyRow' = policyRow /\ editorCall' = editorCall /\ editor' = editor
      BY <2>2 DEF editorVars
    <3>2. EditorTypes' /\ EditorPhases' /\ VisitFits'
      BY <3>1 DEF EditorInv, EditorTypes, EditorPhases, VisitFits
    <3>3. /\ (Quiet' => Quiet) /\ (UneditedIsClean => UneditedIsClean')
          /\ (CallsAlone => CallsAlone') /\ (CallsFit => CallsFit')
          /\ (DetailFits => DetailFits') /\ (BaselineFits => BaselineFits')
      <4>1. (Quiet' => Quiet) /\ (UneditedIsClean => UneditedIsClean')
        BY <3>1 DEF Quiet, UneditedIsClean
      <4>2. (CallsAlone => CallsAlone') /\ (CallsFit => CallsFit')
        BY <3>1 DEF CallsAlone, CallsFit
      <4>3. (DetailFits => DetailFits') /\ (BaselineFits => BaselineFits')
        BY <3>1 DEF DetailFits, BaselineFits
      <4> QED BY <4>1, <4>2, <4>3
    <3> QED BY <3>2, <3>3 DEF EditorInv, QuietFits
  <2>3. ASSUME UNCHANGED templateVars
        PROVE  TemplateInv'
    BY <2>3 DEF templateVars, TemplateInv, TemplateTypes, FormSeen
  <2> QED BY <2>1, <2>2, <2>3, EditorKept, TemplateKept
<1>3. Inv => /\ PolicyEditorTypeOK /\ SavedMeansSaved /\ DirtyMeansEdited /\ DetailSettles
             /\ SavedRowComesBack /\ FormFollowsTemplate
  <2>1. ASSUME TemplateInv
        PROVE  FormFollowsTemplate
    <3> SUFFICES ASSUME ~Dirty(defaults.form), ~defaults.skipped
                 PROVE  /\ defaults.form.head = defaults.query.data.enabled
                        /\ defaults.form.entries = BuildEntries(defaults.query.data.rules)
      BY DEF FormFollowsTemplate
    <3>1. Snapshot(defaults.form.head, defaults.form.entries) = BaselineOf(defaults.query.data)
      BY <2>1 DEF TemplateInv, FormSeen, Dirty
    <3>2. BaselineOf(defaults.query.data)
            = Snapshot(defaults.query.data.enabled, BuildEntries(defaults.query.data.rules))
      BY DEF BaselineOf
    <3>3. ASSUME NEW a, NEW b, NEW x, NEW y, Snapshot(a, b) = Snapshot(x, y)
          PROVE  a = x /\ b = y
      BY <3>3 DEF Snapshot
    <3> QED BY <3>1, <3>2, <3>3
  <2> QED BY <2>1, EditorSays
<1>4. Spec => [](/\ PolicyEditorTypeOK /\ SavedMeansSaved /\ DirtyMeansEdited /\ DetailSettles
                 /\ SavedRowComesBack /\ FormFollowsTemplate)
  BY <1>1, <1>2, <1>3, PTL DEF Spec
<1>5. Spec => [][Survives]_templateVars
  BY <1>1, <1>2, PTL DEF Spec
<1>6. EditsSurviveRefetch <=> [][Survives]_templateVars
  BY DEF EditsSurviveRefetch, Survives
<1> QED BY <1>4, <1>5, <1>6 DEF FormsKeepEdits

(***************************************************************************)
(* The configuration of the command line.                                  *)
(***************************************************************************)
ConfigFiles == [there : BOOLEAN, private : BOOLEAN, config : Configs \cup {NoConfig}, tail : Nat]

ExitCodes == {0, 1, 3, 4, 130, 137, NoExitYet}

Commands ==
  [cmd : {"none", "configure", "whoami"}, at : CommandPlaces, config : Configs \cup {NoConfig},
   place : {"home", "project", "package"}, answer : {"none", "ok", "auth", "api"},
   exit : ExitCodes, linked : BOOLEAN, touched : BOOLEAN,
   alone : BOOLEAN, knew : Configs \cup {NoConfig}]

CliTypes ==
  /\ rc \in ConfigFiles
  /\ shell \in [Processes -> Commands]
  /\ around \in [env : BOOLEAN, place : {"project", "package"}, file : ConfigFiles,
                 accepted : SUBSET Configs, saved : ValidConfigs \cup {NoConfig},
                 commands : Nat, edits : Nat]

\* What a command knows fits how far it is.
CommandFits(s) ==
  /\ s.at # "exit" => s.exit = NoExitYet
  /\ s.touched => s.at \in {"write", "chmod"} \/ s.exit \in {0, 1, 137}
  /\ s.knew # NoConfig =>
       /\ s.at \in {"stat", "call", "answered"} /\ s.cmd # "configure"
       /\ s.config = s.knew /\ s.knew \in ValidConfigs
  /\ s.cmd = "configure" => s.at \notin {"read", "stat"}
  /\ s.cmd = "configure" /\ s.at \in {"call", "answered", "open", "write", "chmod"}
       => s.config \in ValidConfigs
  /\ s.at \in {"open", "write", "chmod"} => s.cmd = "configure"

\* What a configure goes on with has been accepted.
CommandAccepted(s, accepted) ==
  s.cmd = "configure" /\ (s.at \in {"open", "write", "chmod"} \/ (s.at = "answered" /\ s.answer = "ok"))
    => s.config \in accepted

CommandsFit == \A p \in Processes : CommandFits(shell[p]) /\ CommandAccepted(shell[p], around.accepted)

\* Two saves are never both the only one, and the only one finds what it wrote.
SavesApart ==
  \A p, q \in Processes : p # q /\ SavingConfig(p) /\ SavingConfig(q) => ~shell[p].alone

AloneFindsText ==
  \A p \in Processes : SavingConfig(p) /\ shell[p].alone =>
    /\ shell[p].linked
    /\ rc.there /\ rc.tail = 0
    /\ rc.config = IF shell[p].at = "write" THEN NoConfig ELSE shell[p].config

\* While a save is under way the file need not hold anything.
SavedIsQuiet == around.saved # NoConfig => \A p \in Processes : ~SavingConfig(p)

ConfigInv ==
  /\ CliTypes /\ CommandsFit /\ SavesApart /\ AloneFindsText /\ SavedIsQuiet
  /\ SavedIsThere /\ around.saved \in around.accepted \cup {NoConfig}

\* The file that is there has its record.
LEMMA ConfigFileType ==
  ASSUME NEW private \in BOOLEAN, NEW c \in Configs \cup {NoConfig}
  PROVE  /\ ConfigFile(private, c) \in ConfigFiles
         /\ ConfigFile(private, c).there /\ ConfigFile(private, c).private = private
         /\ ConfigFile(private, c).config = c /\ ConfigFile(private, c).tail = 0
         /\ NoConfigFile \in ConfigFiles
  BY DEF ConfigFile, ConfigFiles, NoConfigFile

\* And so has each that a hand wrote.
LEMMA FilesWithType ==
  ASSUME NEW S, S \subseteq Configs \cup {NoConfig}
  PROVE  FilesWith(S) \subseteq ConfigFiles
<1> SUFFICES ASSUME NEW private \in BOOLEAN, NEW c \in S
             PROVE  ConfigFile(private, c) \in ConfigFiles
  BY DEF FilesWith
<1> QED BY ConfigFileType

\* A command that begins fits.
LEMMA NewCommandFits ==
  ASSUME NEW cmd \in {"none", "configure", "whoami"}, NEW at \in {"idle", "ask", "read", "exit"},
         at = "read" => cmd # "configure",
         NEW accepted
  PROVE  /\ NewCommand(cmd, at) \in Commands /\ NewCommand(cmd, at).at = at
         /\ at # "exit" => CommandFits(NewCommand(cmd, at))
         /\ CommandAccepted(NewCommand(cmd, at), accepted)
  BY DEF NewCommand, Commands, ExitCodes, CommandFits, CommandAccepted, CommandPlaces, NoConfig, NoExitYet

\* A command that ends fits, if it has told the truth about the file.
LEMMA EndedFits ==
  ASSUME NEW s \in Commands, CommandFits(s), NEW err, NEW accepted,
         err \in {"missing", "invalid"} => s.knew = NoConfig,
         s.touched => err \in {"ok", "io", "killed"}
  PROVE  /\ CommandEnded(s, err) \in Commands /\ CommandEnded(s, err).at = "exit"
         /\ CommandFits(CommandEnded(s, err))
         /\ CommandAccepted(CommandEnded(s, err), accepted)
<1> DEFINE e == CommandEnded(s, err)
<1>1. /\ e \in Commands
      /\ e.cmd = s.cmd /\ e.at = "exit" /\ e.exit = CommandExitCode(err) /\ e.touched = s.touched
      /\ e.knew = NoConfig
  <2> DEFINE known == IF err \in {"missing", "invalid"} THEN s.knew ELSE NoConfig
             code == CommandExitCode(err)
  <2>1. known = NoConfig
    OBVIOUS
  <2>2. code \in ExitCodes
    BY DEF CommandExitCode, ExitCodes
  <2>3. s.cmd \in {"none", "configure", "whoami"} /\ s.touched \in BOOLEAN
    BY DEF Commands
  <2>4. e = [NewCommand(s.cmd, "exit") EXCEPT !.exit = code, !.touched = s.touched, !.knew = known]
    BY DEF CommandEnded
  <2> DEFINE n == NewCommand(s.cmd, "exit")
  <2>5. n \in Commands /\ n.at = "exit" /\ n.cmd = s.cmd
    BY <2>3, NewCommandFits DEF NewCommand
  <2> HIDE DEF code, known, e, n
  <2>6. e = [n EXCEPT !.exit = code, !.touched = s.touched, !.knew = known]
    BY <2>4 DEF n
  <2> DEFINE touched == s.touched
  <2>7. touched \in BOOLEAN /\ known \in Configs \cup {NoConfig}
    BY <2>1, <2>3
  <2>8. /\ e \in Commands
        /\ e.cmd = s.cmd /\ e.at = "exit" /\ e.exit = code /\ e.touched = s.touched /\ e.knew = NoConfig
    <3>1. e = [n EXCEPT !.exit = code, !.touched = touched, !.knew = known]
      BY <2>6
    <3> HIDE DEF touched
    <3>2. /\ e \in Commands
          /\ e.cmd = n.cmd /\ e.at = n.at /\ e.exit = code /\ e.touched = touched /\ e.knew = known
      BY <2>2, <2>5, <2>7, <3>1 DEF Commands
    <3> QED BY <2>1, <2>5, <3>2 DEF touched
  <2> QED BY <2>8 DEF code
<1>2. err \in {"ok", "io", "killed"} => CommandExitCode(err) \in {0, 1, 137}
  BY DEF CommandExitCode
<1> HIDE DEF e
<1> QED BY <1>1, <1>2 DEF CommandFits, CommandAccepted, e

\* A step of one command that leaves the file alone.
LEMMA CommandMoves ==
  ASSUME ConfigInv, NEW p \in Processes, NEW s \in Commands, CommandFits(s),
         CommandAccepted(s, around'.accepted), s.at \notin {"write", "chmod"},
         shell' = [shell EXCEPT ![p] = s], rc' = rc,
         around' \in [env : BOOLEAN, place : {"project", "package"}, file : ConfigFiles,
                      accepted : SUBSET Configs, saved : ValidConfigs \cup {NoConfig},
                      commands : Nat, edits : Nat],
         around'.saved = around.saved, around.accepted \subseteq around'.accepted
  PROVE  ConfigInv'
<1>1. /\ shell' \in [Processes -> Commands] /\ shell'[p] = s
      /\ \A q \in Processes : q # p => shell'[q] = shell[q]
  BY DEF ConfigInv, CliTypes
<1>2. CliTypes'
  BY <1>1 DEF ConfigInv, CliTypes
<1>3. CommandsFit'
  BY <1>1 DEF ConfigInv, CommandsFit, CommandAccepted
<1>4. ~SavingConfig(p)' /\ \A q \in Processes : q # p => (SavingConfig(q)' <=> SavingConfig(q))
  BY <1>1 DEF SavingConfig
<1>5. SavesApart' /\ AloneFindsText' /\ SavedIsQuiet'
  BY <1>1, <1>4 DEF ConfigInv, SavesApart, AloneFindsText, SavedIsQuiet
<1>6. SavedIsThere' /\ around'.saved \in around'.accepted \cup {NoConfig}
  BY DEF ConfigInv, SavedIsThere
<1> QED BY <1>2, <1>3, <1>5, <1>6 DEF ConfigInv

\* A command ends, and leaves the file alone.
LEMMA CommandEnds ==
  ASSUME ConfigInv, NEW p \in Processes, NEW err, CommandExits(p, err), UNCHANGED <<rc, around>>,
         err \in {"missing", "invalid"} => shell[p].knew = NoConfig,
         shell[p].touched => err \in {"ok", "io", "killed"}
  PROVE  ConfigInv'
<1>1. shell[p] \in Commands /\ CommandFits(shell[p])
  BY DEF ConfigInv, CliTypes, CommandsFit
<1>2. shell' = [shell EXCEPT ![p] = CommandEnded(shell[p], err)]
  BY DEF CommandExits
<1>3. /\ CommandEnded(shell[p], err) \in Commands /\ CommandEnded(shell[p], err).at = "exit"
      /\ CommandFits(CommandEnded(shell[p], err))
      /\ CommandAccepted(CommandEnded(shell[p], err), around'.accepted)
  BY <1>1, EndedFits
<1>4. around' \in [env : BOOLEAN, place : {"project", "package"}, file : ConfigFiles,
                   accepted : SUBSET Configs, saved : ValidConfigs \cup {NoConfig},
                   commands : Nat, edits : Nat]
  BY DEF ConfigInv, CliTypes
<1> QED BY <1>2, <1>3, <1>4, CommandMoves

\* A command goes on to another place.
LEMMA CommandGoes ==
  ASSUME ConfigInv, NEW p \in Processes, NEW at \in CommandPlaces \ {"exit", "write", "chmod"},
         CommandAt(p, at), UNCHANGED <<rc, around>>,
         CommandFits([shell[p] EXCEPT !.at = at]),
         CommandAccepted([shell[p] EXCEPT !.at = at], around.accepted)
  PROVE  ConfigInv'
<1>1. shell[p] \in Commands
  BY DEF ConfigInv, CliTypes
<1> DEFINE s == [shell[p] EXCEPT !.at = at]
<1>2. shell' = [shell EXCEPT ![p] = s]
  BY <1>1 DEF CommandAt, Commands
<1>3. s \in Commands /\ s.at = at
  BY <1>1 DEF Commands
<1>4. around' \in [env : BOOLEAN, place : {"project", "package"}, file : ConfigFiles,
                   accepted : SUBSET Configs, saved : ValidConfigs \cup {NoConfig},
                   commands : Nat, edits : Nat]
  BY DEF ConfigInv, CliTypes
<1>5. CommandFits(s) /\ CommandAccepted(s, around'.accepted)
  OBVIOUS
<1> HIDE DEF s
<1> QED BY <1>2, <1>3, <1>4, <1>5, CommandMoves

\* A command begins, or asks for what to save.
LEMMA StartKeeps ==
  ASSUME ConfigInv, NEW p \in Processes,
         (\E cmd \in {"configure", "whoami"} : StartCommand(p, cmd)) \/ AskConfig(p)
  PROVE  ConfigInv'
<1>1. shell[p] \in Commands /\ CommandFits(shell[p])
  BY DEF ConfigInv, CliTypes, CommandsFit
<1>2. ASSUME NEW cmd \in {"configure", "whoami"}, StartCommand(p, cmd)
      PROVE  ConfigInv'
  <2> DEFINE at == IF cmd = "configure" THEN "ask" ELSE "read"
             s == NewCommand(cmd, at)
  <2>1. at \in {"ask", "read"} /\ (at = "read" => cmd # "configure")
    OBVIOUS
  <2>2. s \in Commands /\ s.at = at /\ CommandFits(s) /\ CommandAccepted(s, around'.accepted)
    <3> HIDE DEF at
    <3> QED BY <2>1, NewCommandFits
  <2>3. shell' = [shell EXCEPT ![p] = s] /\ rc' = rc /\ around' = [around EXCEPT !.commands = @ + 1]
    BY <1>2 DEF StartCommand
  <2>4. /\ around' \in [env : BOOLEAN, place : {"project", "package"}, file : ConfigFiles,
                        accepted : SUBSET Configs, saved : ValidConfigs \cup {NoConfig},
                        commands : Nat, edits : Nat]
        /\ around'.saved = around.saved /\ around'.accepted = around.accepted
    BY <2>3 DEF ConfigInv, CliTypes
  <2>5. s.at \notin {"write", "chmod"}
    BY <2>1, <2>2
  <2> HIDE DEF s, at
  <2> QED BY <2>2, <2>3, <2>4, <2>5, CommandMoves
<1>3. ASSUME AskConfig(p)
      PROVE  ConfigInv'
  <2>1. shell[p].at = "ask" /\ UNCHANGED <<rc, around>>
    BY <1>3 DEF AskConfig
  <2>2. shell[p].knew = NoConfig /\ ~shell[p].touched
    BY <1>1, <2>1 DEF CommandFits, Commands, NoExitYet
  <2>3. CASE CommandExits(p, "cancelled") \/ CommandExits(p, "schema")
    BY <2>1, <2>2, <2>3, CommandEnds
  <2>4. ASSUME NEW c \in ValidConfigs, shell' = [shell EXCEPT ![p].config = c, ![p].at = "call"]
        PROVE  ConfigInv'
    <3> DEFINE s == [shell[p] EXCEPT !.config = c, !.at = "call"]
    <3>1. c \in Configs
      BY CliConfigAssumption
    <3>2. /\ s \in Commands /\ s.at = "call" /\ s.config = c
          /\ s.exit = shell[p].exit /\ s.knew = shell[p].knew /\ s.touched = shell[p].touched
      BY <1>1, <3>1 DEF Commands, CommandPlaces
    <3>3. shell' = [shell EXCEPT ![p] = s]
      BY <2>4, <1>1 DEF Commands
    <3> HIDE DEF s
    <3>4. CommandFits(s) /\ CommandAccepted(s, around'.accepted)
      BY <3>2, <2>1, <2>2, <1>1 DEF CommandFits, CommandAccepted
    <3>5. around' \in [env : BOOLEAN, place : {"project", "package"}, file : ConfigFiles,
                       accepted : SUBSET Configs, saved : ValidConfigs \cup {NoConfig},
                       commands : Nat, edits : Nat]
      BY <2>1 DEF ConfigInv, CliTypes
    <3> QED BY <2>1, <3>2, <3>3, <3>4, <3>5, CommandMoves
  <2> QED BY <1>3, <2>3, <2>4 DEF AskConfig
<1> QED BY <1>2, <1>3

\* Reading the file: what was saved and not disturbed is found.
LEMMA ReadKeeps ==
  ASSUME ConfigInv, NEW p \in Processes, ReadConfigFile(p) \/ StatConfigFile(p)
  PROVE  ConfigInv'
<1>1. shell[p] \in Commands /\ CommandFits(shell[p])
  BY DEF ConfigInv, CliTypes, CommandsFit
<1>2. UNCHANGED <<rc, around>>
  BY DEF ReadConfigFile, StatConfigFile
<1>3. around' \in [env : BOOLEAN, place : {"project", "package"}, file : ConfigFiles,
                   accepted : SUBSET Configs, saved : ValidConfigs \cup {NoConfig},
                   commands : Nat, edits : Nat]
  BY <1>2 DEF ConfigInv, CliTypes
<1>4. ASSUME ReadConfigFile(p)
      PROVE  ConfigInv'
  <2> DEFINE place == FoundPlace
             f == ConfigFileAt(place)
             knew == IF place = "home" THEN around.saved ELSE NoConfig
             s == [shell[p] EXCEPT !.place = place, !.knew = knew]
  <2>1. place \in {"home", "project", "package"} /\ f \in ConfigFiles
    BY DEF FoundPlace, ConfigFileAt, ConfigInv, CliTypes
  <2>2. knew \in ValidConfigs \cup {NoConfig}
    BY DEF ConfigInv, CliTypes
  <2>3. knew # NoConfig => f = ConfigFile(TRUE, knew)
    BY DEF ConfigInv, SavedIsThere, ConfigFileAt
  <2>4. knew # NoConfig => ~IsEmptyFile(f) /\ IsJsonFile(f) /\ f.config = knew
    BY <2>3 DEF ConfigFile, IsEmptyFile, IsJsonFile
  <2>5. shell[p].at = "read"
    BY <1>4 DEF ReadConfigFile
  <2>6. /\ shell[p].knew = NoConfig /\ ~shell[p].touched /\ shell[p].cmd # "configure"
        /\ shell[p].exit = NoExitYet
    BY <1>1, <2>5 DEF CommandFits, Commands, NoExitYet
  <2>7. ValidConfigs \subseteq Configs
    BY CliConfigAssumption
  <2>8. /\ CommandExits(p, ConfigReadError("read"))
        \/ shell' = [shell EXCEPT ![p] =
                       IF IsEmptyFile(f) THEN CommandEnded(s, "missing")
                       ELSE IF ~IsJsonFile(f) THEN CommandEnded(s, ConfigReadError("invalid"))
                       ELSE [s EXCEPT !.at = "stat", !.config = f.config]]
    BY <1>4 DEF ReadConfigFile
  <2> HIDE DEF place, f, knew
  <2>9. /\ s \in Commands /\ s.at = "read" /\ s.cmd = shell[p].cmd /\ s.exit = NoExitYet /\ ~s.touched
        /\ s.knew = knew
    BY <1>1, <2>1, <2>2, <2>5, <2>6, <2>7 DEF Commands
  <2> HIDE DEF s
  <2>10. CASE CommandExits(p, ConfigReadError("read"))
    BY <1>2, <2>6, <2>10, CommandEnds
  <2>11. ASSUME NEW err, knew = NoConfig, shell' = [shell EXCEPT ![p] = CommandEnded(s, err)]
         PROVE  ConfigInv'
    <3>1. CommandFits(s)
      BY <2>6, <2>9, <2>11 DEF CommandFits
    <3>2. /\ CommandEnded(s, err) \in Commands /\ CommandEnded(s, err).at = "exit"
          /\ CommandFits(CommandEnded(s, err)) /\ CommandAccepted(CommandEnded(s, err), around'.accepted)
      BY <2>9, <2>11, <3>1, EndedFits
    <3> QED BY <1>2, <1>3, <2>11, <3>2, CommandMoves
  <2>12. ASSUME IsJsonFile(f), shell' = [shell EXCEPT ![p] = [s EXCEPT !.at = "stat", !.config = f.config]]
         PROVE  ConfigInv'
    <3> DEFINE r == [s EXCEPT !.at = "stat", !.config = f.config]
    <3>1. f.config \in Configs \cup {NoConfig}
      BY <2>1 DEF ConfigFiles
    <3>2. /\ r \in Commands /\ r.at = "stat" /\ r.config = f.config /\ r.cmd = s.cmd
          /\ r.exit = s.exit /\ r.touched = s.touched /\ r.knew = knew
      BY <2>9, <3>1 DEF Commands, CommandPlaces
    <3> HIDE DEF r
    <3>3. CommandFits(r) /\ CommandAccepted(r, around'.accepted)
      BY <3>2, <2>2, <2>4, <2>6, <2>9 DEF CommandFits, CommandAccepted
    <3>4. shell' = [shell EXCEPT ![p] = r]
      BY <2>12 DEF r
    <3> QED BY <1>2, <1>3, <3>2, <3>3, <3>4, CommandMoves
  <2> QED BY <2>4, <2>8, <2>10, <2>11, <2>12
<1>5. ASSUME StatConfigFile(p)
      PROVE  ConfigInv'
  <2>1. shell[p].at = "stat"
    BY <1>5 DEF StatConfigFile
  <2>2. ~shell[p].touched /\ shell[p].cmd # "configure" /\ shell[p].exit = NoExitYet
    BY <1>1, <2>1 DEF CommandFits, Commands, NoExitYet
  <2>3. CASE CommandExits(p, "read") \/ CommandExits(p, "permissions")
    BY <1>2, <2>2, <2>3, CommandEnds
  <2>4. CASE shell[p].config \notin ValidConfigs /\ CommandExits(p, "invalid")
    <3>1. shell[p].knew = NoConfig
      BY <1>1, <2>4 DEF CommandFits
    <3> QED BY <1>2, <2>2, <2>4, <3>1, CommandEnds
  <2>5. CASE CommandAt(p, "call")
    <3> DEFINE s == [shell[p] EXCEPT !.at = "call"]
    <3>1. /\ s.at = "call" /\ s.cmd = shell[p].cmd /\ s.exit = shell[p].exit /\ s.knew = shell[p].knew
          /\ s.touched = shell[p].touched /\ s.config = shell[p].config
      BY <1>1 DEF Commands
    <3>2. CommandFits(s) /\ CommandAccepted(s, around.accepted)
      <4> HIDE DEF s
      <4> QED BY <1>1, <2>2, <3>1 DEF CommandFits, CommandAccepted
    <3> QED BY <1>2, <2>5, <3>2, CommandGoes DEF CommandPlaces
  <2> QED BY <1>5, <2>3, <2>4, <2>5 DEF StatConfigFile
<1> QED BY <1>4, <1>5

\* The call: what goes on to be saved has been accepted.
LEMMA CallKeeps ==
  ASSUME ConfigInv, NEW p \in Processes,
         ApiAnswersCommand(p) \/ CommandCallFails(p) \/ ReceiveAnswer(p)
  PROVE  ConfigInv'
<1>1. shell[p] \in Commands /\ CommandFits(shell[p]) /\ CommandAccepted(shell[p], around.accepted)
  BY DEF ConfigInv, CliTypes, CommandsFit
<1>2. ASSUME shell[p].at \in {"call", "answered"}
      PROVE  ~shell[p].touched /\ shell[p].exit = NoExitYet
  BY <1>1, <1>2 DEF CommandFits, NoExitYet
<1>3. ASSUME ApiAnswersCommand(p)
      PROVE  ConfigInv'
  <2> PICK answer \in {"ok", "auth", "api"} :
         /\ shell' = [shell EXCEPT ![p].at = "answered", ![p].answer = answer]
         /\ around' = [around EXCEPT !.accepted =
                         IF answer = "ok" /\ shell[p].cmd = "configure" THEN @ \cup {shell[p].config} ELSE @]
    BY <1>3 DEF ApiAnswersCommand
  <2>1. shell[p].at = "call" /\ rc' = rc
    BY <1>3 DEF ApiAnswersCommand
  <2> DEFINE s == [shell[p] EXCEPT !.at = "answered", !.answer = answer]
             acc == IF answer = "ok" /\ shell[p].cmd = "configure"
                    THEN around.accepted \cup {shell[p].config} ELSE around.accepted
  <2>2. /\ s \in Commands /\ s.at = "answered" /\ s.answer = answer /\ s.cmd = shell[p].cmd
        /\ s.config = shell[p].config /\ s.knew = shell[p].knew /\ s.touched = shell[p].touched
        /\ s.exit = shell[p].exit
    BY <1>1 DEF Commands, CommandPlaces
  <2>3. shell' = [shell EXCEPT ![p] = s]
    BY <1>1 DEF Commands
  <2>4. around.accepted \subseteq acc /\ (answer = "ok" /\ s.cmd = "configure" => s.config \in acc)
    BY <2>2
  <2>5. acc \subseteq Configs
    <3>1. shell[p].cmd = "configure" => shell[p].config \in ValidConfigs
      BY <1>1, <2>1 DEF CommandFits
    <3> QED BY <3>1, CliConfigAssumption DEF ConfigInv, CliTypes
  <2>6. around' = [around EXCEPT !.accepted = acc]
    OBVIOUS
  <2> HIDE DEF s, acc
  <2>7. /\ around' \in [env : BOOLEAN, place : {"project", "package"}, file : ConfigFiles,
                        accepted : SUBSET Configs, saved : ValidConfigs \cup {NoConfig},
                        commands : Nat, edits : Nat]
        /\ around'.saved = around.saved /\ around'.accepted = acc
    BY <2>5, <2>6 DEF ConfigInv, CliTypes
  <2>8. CommandFits(s) /\ CommandAccepted(s, around'.accepted)
    BY <1>1, <1>2, <2>1, <2>2, <2>4, <2>7 DEF CommandFits, CommandAccepted
  <2> QED BY <2>1, <2>2, <2>3, <2>4, <2>7, <2>8, CommandMoves
<1>4. ASSUME CommandCallFails(p)
      PROVE  ConfigInv'
  <2>1. PICK err \in {"network", "timeout"} : CommandExits(p, err)
    BY <1>4 DEF CommandCallFails, CallErrors
  <2>2. shell[p].at \in {"call", "answered"} /\ UNCHANGED <<rc, around>>
    BY <1>4 DEF CommandCallFails, CallErrors
  <2> QED BY <1>2, <2>1, <2>2, CommandEnds
<1>5. ASSUME ReceiveAnswer(p)
      PROVE  ConfigInv'
  <2>1. shell[p].at = "answered" /\ UNCHANGED <<rc, around>>
    BY <1>5 DEF ReceiveAnswer
  <2>2. CASE shell[p].answer = "ok" /\ shell[p].cmd = "configure" /\ CommandAt(p, "open")
    <3> DEFINE s == [shell[p] EXCEPT !.at = "open"]
    <3>1. /\ s.at = "open" /\ s.cmd = shell[p].cmd /\ s.exit = shell[p].exit /\ s.knew = shell[p].knew
          /\ s.touched = shell[p].touched /\ s.config = shell[p].config
      BY <1>1 DEF Commands
    <3>2. CommandFits(s) /\ CommandAccepted(s, around.accepted)
      <4> HIDE DEF s
      <4> QED BY <1>1, <1>2, <2>1, <2>2, <3>1 DEF CommandFits, CommandAccepted
    <3> QED BY <2>1, <2>2, <3>2, CommandGoes DEF CommandPlaces
  <2>3. CASE CommandExits(p, shell[p].answer)
    <3>1. shell[p].answer \notin {"missing", "invalid"}
      BY <1>1 DEF Commands
    <3> QED BY <1>2, <2>1, <2>3, <3>1, CommandEnds
  <2> QED BY <1>5, <2>2, <2>3 DEF ReceiveAnswer
<1> QED BY <1>3, <1>4, <1>5

\* A save that fails, or a command that is killed.
LEMMA CommandDies ==
  ASSUME ConfigInv, NEW p \in Processes,
         SaveFails(p) \/ KillCommand(p)
  PROVE  ConfigInv'
<1>1. UNCHANGED <<rc, around>> /\ (CommandExits(p, "io") \/ CommandExits(p, "killed"))
  BY DEF SaveFails, KillCommand
<1> QED BY <1>1, CommandEnds

\* All the commands but p are as they were, though no save is the only one any more.
LEMMA DisturbedFits ==
  ASSUME CliTypes, CommandsFit, NEW p \in Processes
  PROVE  /\ SavesDisturbed(shell)[p] \in Commands
         /\ CommandFits(SavesDisturbed(shell)[p])
         /\ CommandAccepted(SavesDisturbed(shell)[p], around.accepted)
         /\ ~SavesDisturbed(shell)[p].alone
         /\ SavesDisturbed(shell)[p].at = shell[p].at
         /\ SavesDisturbed(shell)[p].config = shell[p].config
<1> DEFINE s == [shell[p] EXCEPT !.alone = FALSE]
<1>1. SavesDisturbed(shell)[p] = s
  BY DEF SavesDisturbed
<1>2. shell[p] \in Commands /\ CommandFits(shell[p]) /\ CommandAccepted(shell[p], around.accepted)
  BY DEF CliTypes, CommandsFit
<1>3. /\ s \in Commands /\ ~s.alone /\ s.at = shell[p].at /\ s.config = shell[p].config
      /\ s.cmd = shell[p].cmd /\ s.answer = shell[p].answer /\ s.exit = shell[p].exit
      /\ s.touched = shell[p].touched /\ s.knew = shell[p].knew
  BY <1>2 DEF Commands
<1> HIDE DEF s
<1>4. CommandFits(s) /\ CommandAccepted(s, around.accepted)
  BY <1>2, <1>3 DEF CommandFits, CommandAccepted
<1> QED BY <1>1, <1>3, <1>4

\* Opening the file: it loses its text, and no other save is the only one.
LEMMA OpenKeeps ==
  ASSUME ConfigInv, NEW p \in Processes, OpenConfigFile(p)
  PROVE  ConfigInv'
<1>1. CASE SaveFails(p)
  BY <1>1, CommandDies
<1>2. ASSUME rc' = ConfigFile(~rc.there \/ rc.private, NoConfig),
             shell' = [SavesDisturbed(shell) EXCEPT
                         ![p].at = "write", ![p].linked = TRUE, ![p].touched = TRUE,
                         ![p].alone = \A q \in Processes : ~SavingConfig(q)],
             around' = [around EXCEPT !.saved = NoConfig]
      PROVE  ConfigInv'
  <2> DEFINE only == \A q \in Processes : ~SavingConfig(q)
             d == SavesDisturbed(shell)
             s == [d[p] EXCEPT !.at = "write", !.linked = TRUE, !.touched = TRUE, !.alone = only]
  <2>1. shell[p].at = "open"
    BY DEF OpenConfigFile
  <2>2. /\ shell[p] \in Commands /\ CommandFits(shell[p])
        /\ CommandAccepted(shell[p], around.accepted) /\ CliTypes /\ CommandsFit
    BY DEF ConfigInv, CliTypes, CommandsFit
  <2>3. /\ d[p] \in Commands /\ d[p].at = "open" /\ d[p].config = shell[p].config
        /\ CommandFits(d[p]) /\ CommandAccepted(d[p], around.accepted)
    BY <2>1, <2>2, DisturbedFits
  <2>4. only \in BOOLEAN
    OBVIOUS
  <2>5. d \in [Processes -> Commands]
    BY <2>2, DisturbedFits DEF SavesDisturbed
  <2> HIDE DEF only, d
  <2>6. /\ s \in Commands /\ s.at = "write" /\ s.linked /\ s.touched /\ s.alone = only
        /\ s.config = d[p].config /\ s.cmd = d[p].cmd /\ s.exit = d[p].exit /\ s.knew = d[p].knew
    BY <2>3, <2>4 DEF Commands, CommandPlaces
  <2>7. shell' = [d EXCEPT ![p] = s]
    BY <1>2, <2>3, <2>5 DEF d, only, Commands
  <2> HIDE DEF s
  <2>8. /\ shell' \in [Processes -> Commands] /\ shell'[p] = s
        /\ \A q \in Processes : q # p => shell'[q] = d[q]
    BY <2>5, <2>6, <2>7
  <2>9. CommandFits(s) /\ CommandAccepted(s, around.accepted)
    BY <2>3, <2>6 DEF CommandFits, CommandAccepted
  <2>10. /\ around' \in [env : BOOLEAN, place : {"project", "package"}, file : ConfigFiles,
                         accepted : SUBSET Configs, saved : ValidConfigs \cup {NoConfig},
                         commands : Nat, edits : Nat]
         /\ around'.saved = NoConfig /\ around'.accepted = around.accepted
    BY <1>2, <2>2 DEF CliTypes
  <2>11. /\ rc' \in ConfigFiles /\ rc'.there /\ rc'.config = NoConfig /\ rc'.tail = 0
    <3>1. (~rc.there \/ rc.private) \in BOOLEAN
      OBVIOUS
    <3> QED BY <1>2, <3>1, ConfigFileType
  <2>12. CliTypes'
    BY <2>8, <2>10, <2>11 DEF CliTypes
  <2>13. CommandsFit'
    <3> SUFFICES ASSUME NEW q \in Processes
                 PROVE  CommandFits(shell'[q]) /\ CommandAccepted(shell'[q], around'.accepted)
      BY DEF CommandsFit
    <3>1. CASE q = p
      BY <3>1, <2>8, <2>9, <2>10
    <3>2. CASE q # p
      <4>1. CommandFits(d[q]) /\ CommandAccepted(d[q], around.accepted)
        BY <2>2, DisturbedFits DEF d
      <4> QED BY <3>2, <4>1, <2>8, <2>10
    <3> QED BY <3>1, <3>2
  <2>14. /\ shell'[p].at = "write" /\ shell'[p].alone = only /\ shell'[p].linked
         /\ \A q \in Processes : q # p => ~shell'[q].alone /\ shell'[q].at = shell[q].at
    <3>1. \A q \in Processes : ~d[q].alone /\ d[q].at = shell[q].at
      BY <2>2, DisturbedFits DEF d
    <3> QED BY <3>1, <2>6, <2>8
  <2>15. SavesApart'
    BY <2>14 DEF SavesApart, SavingConfig, only
  <2>16. AloneFindsText'
    BY <2>11, <2>14 DEF AloneFindsText, SavingConfig
  <2> QED BY <2>10, <2>12, <2>13, <2>15, <2>16 DEF ConfigInv, SavedIsQuiet, SavedIsThere
<1> QED BY <1>1, <1>2 DEF OpenConfigFile

\* Overwriting: the only save finds its text whole.
LEMMA OverwrittenFits ==
  ASSUME NEW f \in ConfigFiles, NEW c \in Configs, NEW n \in Nat, NEW d \in {c, NoConfig}
  PROVE  /\ Overwritten(f, n, d) \in ConfigFiles
         /\ Overwritten(f, n, d).there = f.there /\ Overwritten(f, n, d).config = d
         /\ f.config = NoConfig /\ f.tail = 0 /\ n = c /\ d = c => Overwritten(f, n, d).tail = 0
<1> DEFINE length == f.config + f.tail
           tail == IF d # NoConfig THEN IF length > n THEN length - n ELSE 0
                   ELSE IF length > n THEN length ELSE n
<1>1. c # 0 /\ c \in Nat /\ f.config \in Nat /\ f.tail \in Nat
  <2>1. c # 0 /\ c \in Nat /\ Configs \subseteq Nat
    BY CliConfigAssumption
  <2>2. f.config \in Configs \cup {0} /\ f.tail \in Nat
    BY DEF ConfigFiles, NoConfig
  <2>3. \A x \in Configs \cup {0} : x \in Nat
    BY <2>1
  <2> QED BY <2>1, <2>2, <2>3
<1>2. length \in Nat
  BY <1>1
<1>3. tail \in Nat
  <2> HIDE DEF length
  <2> QED BY <1>2
<1>4. f.config = NoConfig /\ f.tail = 0 /\ n = c /\ d = c => tail = 0
  BY <1>1 DEF NoConfig
<1>5. Overwritten(f, n, d) = [f EXCEPT !.config = d, !.tail = tail]
  BY DEF Overwritten
<1> HIDE DEF tail
<1> QED BY <1>3, <1>4, <1>5 DEF ConfigFiles

\* A step of a save that goes on and writes through its handle.
LEMMA SaveMoves ==
  ASSUME ConfigInv, NEW p \in Processes, SavingConfig(p), NEW s \in Commands, CommandFits(s),
         CommandAccepted(s, around.accepted), around' = around,
         shell' = [shell EXCEPT ![p] = s],
         SavingConfig(p)' => s.alone = shell[p].alone /\ s.linked = shell[p].linked,
         NEW f \in ConfigFiles, rc' = ThroughHandle(p, f),
         SavingConfig(p)' /\ shell[p].alone =>
           f.there /\ f.tail = 0 /\ f.config = (IF s.at = "write" THEN NoConfig ELSE s.config)
  PROVE  ConfigInv'
<1>1. /\ shell' \in [Processes -> Commands] /\ shell'[p] = s
      /\ \A q \in Processes : q # p => shell'[q] = shell[q]
  BY DEF ConfigInv, CliTypes
<1>2. CliTypes'
  BY <1>1 DEF ConfigInv, CliTypes, ThroughHandle
<1>3. CommandsFit'
  BY <1>1 DEF ConfigInv, CommandsFit, CommandAccepted
<1>4. \A q \in Processes : q # p => (SavingConfig(q)' <=> SavingConfig(q))
  BY <1>1 DEF SavingConfig
<1>5. SavesApart'
  BY <1>1, <1>4 DEF ConfigInv, SavesApart
<1>6. AloneFindsText'
  <2> SUFFICES ASSUME NEW q \in Processes, SavingConfig(q)', shell'[q].alone
               PROVE  /\ shell'[q].linked /\ rc'.there /\ rc'.tail = 0
                      /\ rc'.config = IF shell'[q].at = "write" THEN NoConfig ELSE shell'[q].config
    BY DEF AloneFindsText
  <2>1. q = p
    <3> SUFFICES ASSUME q # p
                 PROVE  FALSE
      OBVIOUS
    <3>1. SavingConfig(q) /\ shell[q].alone
      BY <1>1, <1>4
    <3> QED BY <3>1 DEF ConfigInv, SavesApart
  <2>2. shell[p].alone
    BY <2>1, <1>1
  <2>3. shell[p].linked
    BY <2>2 DEF ConfigInv, AloneFindsText
  <2>4. s.linked
    BY <2>1, <2>3, <1>1
  <2> QED BY <2>1, <2>2, <2>3, <2>4, <1>1 DEF ThroughHandle
<1>7. around.saved = NoConfig
  BY DEF ConfigInv, SavedIsQuiet
<1> QED BY <1>2, <1>3, <1>5, <1>6, <1>7 DEF ConfigInv, SavedIsQuiet, SavedIsThere

\* Writing the text.
LEMMA WriteKeeps ==
  ASSUME ConfigInv, NEW p \in Processes, WriteConfigFile(p)
  PROVE  ConfigInv'
<1>1. /\ shell[p] \in Commands /\ CommandFits(shell[p]) /\ CommandAccepted(shell[p], around.accepted)
      /\ shell[p].at = "write" /\ around' = around /\ SavingConfig(p) /\ rc \in ConfigFiles
  BY DEF ConfigInv, CliTypes, CommandsFit, WriteConfigFile, SavingConfig
<1>2. shell[p].config \in Configs /\ shell[p].config \in Nat
  BY <1>1, CliConfigAssumption DEF CommandFits
<1>3. ASSUME CommandExits(p, "io")
      PROVE  LET s == CommandEnded(shell[p], "io")
             IN s \in Commands /\ CommandFits(s) /\ CommandAccepted(s, around.accepted)
                /\ s.at = "exit" /\ shell' = [shell EXCEPT ![p] = s]
  BY <1>1, <1>3, EndedFits DEF CommandExits
<1>4. ASSUME NEW n \in 1..(shell[p].config - 1), CommandExits(p, "io"),
             rc' = ThroughHandle(p, Overwritten(rc, n, NoConfig))
      PROVE  ConfigInv'
  <2> DEFINE s == CommandEnded(shell[p], "io")
             f == Overwritten(rc, n, NoConfig)
  <2>1. n \in Nat
    BY <1>2, <1>4
  <2>2. f \in ConfigFiles
    BY <1>1, <1>2, <2>1, OverwrittenFits
  <2>3. /\ s \in Commands /\ CommandFits(s) /\ CommandAccepted(s, around.accepted)
        /\ s.at = "exit" /\ shell' = [shell EXCEPT ![p] = s]
    BY <1>3, <1>4
  <2> HIDE DEF s, f
  <2>4. ~SavingConfig(p)'
    BY <2>3 DEF SavingConfig, ConfigInv, CliTypes
  <2>5. rc' = ThroughHandle(p, f)
    BY <1>4 DEF f
  <2> QED BY <1>1, <2>2, <2>3, <2>4, <2>5, SaveMoves
<1>5. ASSUME UNCHANGED rc, CommandExits(p, "io")
      PROVE  ConfigInv'
  BY <1>1, <1>5, CommandEnds
<1>6. ASSUME rc' = ThroughHandle(p, Overwritten(rc, shell[p].config, shell[p].config)),
             CommandAt(p, "chmod")
      PROVE  ConfigInv'
  <2> DEFINE s == [shell[p] EXCEPT !.at = "chmod"]
             f == Overwritten(rc, shell[p].config, shell[p].config)
  <2>1. /\ s \in Commands /\ s.at = "chmod" /\ s.config = shell[p].config /\ s.cmd = shell[p].cmd
        /\ s.exit = shell[p].exit /\ s.touched = shell[p].touched /\ s.knew = shell[p].knew
        /\ s.alone = shell[p].alone /\ s.linked = shell[p].linked
    BY <1>1 DEF Commands, CommandPlaces
  <2>2. shell' = [shell EXCEPT ![p] = s]
    BY <1>1, <1>6 DEF CommandAt, Commands
  <2>3. f \in ConfigFiles /\ f.there = rc.there /\ f.config = shell[p].config
        /\ (rc.config = NoConfig /\ rc.tail = 0 => f.tail = 0)
    BY <1>1, <1>2, OverwrittenFits
  <2> HIDE DEF s, f
  <2>4. CommandFits(s) /\ CommandAccepted(s, around.accepted)
    BY <1>1, <2>1 DEF CommandFits, CommandAccepted
  <2>5. shell[p].alone => rc.there /\ rc.tail = 0 /\ rc.config = NoConfig
    BY <1>1 DEF ConfigInv, AloneFindsText
  <2>6. rc' = ThroughHandle(p, f)
    BY <1>6 DEF f
  <2>7. shell[p].alone => f.there /\ f.tail = 0 /\ f.config = s.config /\ s.at # "write"
    BY <2>1, <2>3, <2>5
  <2> QED BY <1>1, <2>1, <2>2, <2>3, <2>4, <2>6, <2>7, SaveMoves
<1> QED BY <1>1, <1>4, <1>5, <1>6 DEF WriteConfigFile

\* chmod and close: the save is over.
LEMMA ChmodKeeps ==
  ASSUME ConfigInv, NEW p \in Processes, ChmodConfigFile(p)
  PROVE  ConfigInv'
<1>1. /\ shell[p] \in Commands /\ CommandFits(shell[p]) /\ CommandAccepted(shell[p], around.accepted)
      /\ shell[p].at = "chmod" /\ SavingConfig(p) /\ rc \in ConfigFiles
  BY DEF ConfigInv, CliTypes, CommandsFit, ChmodConfigFile, SavingConfig
<1>2. CASE SaveFails(p)
  BY <1>2, CommandDies
<1>3. ASSUME rc' = ThroughHandle(p, [rc EXCEPT !.private = TRUE]), CommandExits(p, "ok"),
             around' = [around EXCEPT !.saved = IF shell[p].alone THEN shell[p].config ELSE NoConfig]
      PROVE  ConfigInv'
  <2> DEFINE s == CommandEnded(shell[p], "ok")
             f == [rc EXCEPT !.private = TRUE]
             saved == IF shell[p].alone THEN shell[p].config ELSE NoConfig
  <2>1. /\ s \in Commands /\ CommandFits(s) /\ CommandAccepted(s, around.accepted)
        /\ s.at = "exit" /\ shell' = [shell EXCEPT ![p] = s]
    BY <1>1, <1>3, EndedFits DEF CommandExits
  <2>2. f \in ConfigFiles /\ f.private /\ f.there = rc.there /\ f.config = rc.config /\ f.tail = rc.tail
    BY <1>1 DEF ConfigFiles
  <2>3. saved \in ValidConfigs \cup {NoConfig} /\ saved \in around.accepted \cup {NoConfig}
    BY <1>1 DEF CommandFits, CommandAccepted
  <2>4. /\ around' \in [env : BOOLEAN, place : {"project", "package"}, file : ConfigFiles,
                        accepted : SUBSET Configs, saved : ValidConfigs \cup {NoConfig},
                        commands : Nat, edits : Nat]
        /\ around'.saved = saved /\ around'.accepted = around.accepted
    <3>1. around' = [around EXCEPT !.saved = saved]
      BY <1>3
    <3> HIDE DEF saved
    <3> QED BY <2>3, <3>1 DEF ConfigInv, CliTypes
  <2> HIDE DEF s
  <2>5. /\ shell' \in [Processes -> Commands] /\ shell'[p] = s
        /\ \A q \in Processes : q # p => shell'[q] = shell[q]
    BY <2>1 DEF ConfigInv, CliTypes
  <2>6. CliTypes'
    BY <1>3, <2>2, <2>4, <2>5 DEF ConfigInv, CliTypes, ThroughHandle
  <2>7. CommandsFit'
    BY <2>1, <2>4, <2>5 DEF ConfigInv, CommandsFit
  <2>8. ~SavingConfig(p)' /\ \A q \in Processes : q # p => (SavingConfig(q)' <=> SavingConfig(q))
    BY <2>1, <2>5 DEF SavingConfig
  <2>9. SavesApart'
    BY <2>5, <2>8 DEF ConfigInv, SavesApart
  <2>10. CASE shell[p].alone
    <3>1. shell[p].linked /\ rc.there /\ rc.tail = 0 /\ rc.config = shell[p].config
      BY <1>1, <2>10 DEF ConfigInv, AloneFindsText
    <3>2. \A q \in Processes : ~SavingConfig(q)'
      BY <1>1, <2>8, <2>10 DEF ConfigInv, SavesApart
    <3>3. rc' = f
      BY <1>3, <3>1 DEF ThroughHandle
    <3>4. rc' = ConfigFile(TRUE, saved)
      BY <2>2, <2>10, <3>1, <3>3 DEF ConfigFile, ConfigFiles
    <3>5. AloneFindsText' /\ SavedIsQuiet' /\ SavedIsThere'
      BY <2>4, <3>2, <3>4 DEF AloneFindsText, SavedIsQuiet, SavedIsThere
    <3> QED BY <2>3, <2>4, <2>6, <2>7, <2>9, <3>5 DEF ConfigInv
  <2>11. CASE ~shell[p].alone
    <3>1. around'.saved = NoConfig
      BY <2>4, <2>11
    <3>2. /\ rc' \in ConfigFiles /\ rc'.there = rc.there /\ rc'.tail = rc.tail /\ rc'.config = rc.config
      BY <1>1, <1>3, <2>2 DEF ThroughHandle
    <3>3. AloneFindsText'
      BY <2>5, <2>8, <3>2 DEF ConfigInv, AloneFindsText
    <3> QED BY <2>6, <2>7, <2>9, <3>1, <3>3 DEF ConfigInv, SavedIsQuiet, SavedIsThere
  <2> QED BY <2>10, <2>11
<1> QED BY <1>2, <1>3 DEF ChmodConfigFile

\* The user's own edits.
LEMMA HandKeeps ==
  ASSUME ConfigInv, EditConfigByHand
  PROVE  ConfigInv'
<1>1. /\ around' \in [env : BOOLEAN, place : {"project", "package"}, file : ConfigFiles,
                      accepted : SUBSET Configs, saved : ValidConfigs \cup {NoConfig},
                      commands : Nat, edits : Nat]
      /\ around'.saved = NoConfig /\ around'.accepted = around.accepted
  <2>1. around' = [around EXCEPT !.edits = @ + 1, !.saved = NoConfig]
    BY DEF EditConfigByHand
  <2> DEFINE n == around.edits + 1
  <2>2. n \in Nat
    BY DEF ConfigInv, CliTypes
  <2>3. around' = [around EXCEPT !.edits = n, !.saved = NoConfig]
    BY <2>1
  <2> HIDE DEF n
  <2> QED BY <2>2, <2>3 DEF ConfigInv, CliTypes
<1>2. rc' \in ConfigFiles
  <2>1. FilesWith(Configs \cup {NoConfig}) \subseteq ConfigFiles /\ NoConfigFile \in ConfigFiles
    BY FilesWithType, ConfigFileType
  <2>2. rc' \in FilesWith(Configs \cup {NoConfig}) \/ rc' = NoConfigFile
    BY DEF EditConfigByHand
  <2> QED BY <2>1, <2>2
<1> DEFINE unlinked == [q \in Processes |-> [shell[q] EXCEPT !.alone = FALSE, !.linked = FALSE]]
<1>0. shell' = SavesDisturbed(shell) \/ shell' = unlinked
  BY DEF EditConfigByHand
<1>3. ASSUME NEW p \in Processes
      PROVE  /\ shell'[p] \in Commands /\ CommandFits(shell'[p]) /\ ~shell'[p].alone
             /\ CommandAccepted(shell'[p], around.accepted)
  <2>1. CliTypes /\ CommandsFit
    BY DEF ConfigInv
  <2>2. CASE shell' = SavesDisturbed(shell)
    BY <2>1, <2>2, DisturbedFits
  <2>3. CASE shell' = unlinked
    <3> DEFINE s == [shell[p] EXCEPT !.alone = FALSE, !.linked = FALSE]
    <3>1. shell[p] \in Commands /\ CommandFits(shell[p]) /\ CommandAccepted(shell[p], around.accepted)
      BY <2>1 DEF CliTypes, CommandsFit
    <3>2. /\ s \in Commands /\ ~s.alone /\ s.at = shell[p].at /\ s.config = shell[p].config
          /\ s.cmd = shell[p].cmd /\ s.answer = shell[p].answer /\ s.exit = shell[p].exit
          /\ s.touched = shell[p].touched /\ s.knew = shell[p].knew
      BY <3>1 DEF Commands
    <3>3. shell'[p] = s
      BY <2>3
    <3> HIDE DEF s
    <3>4. CommandFits(s) /\ CommandAccepted(s, around.accepted)
      BY <3>1, <3>2 DEF CommandFits, CommandAccepted
    <3> QED BY <3>2, <3>3, <3>4
  <2> QED BY <1>0, <2>2, <2>3
<1>4. shell' \in [Processes -> Commands]
  <2>1. DOMAIN shell' = Processes /\ shell' = [p \in Processes |-> shell'[p]]
    BY <1>0 DEF SavesDisturbed
  <2> QED BY <2>1, <1>3
<1>5. CliTypes' /\ CommandsFit'
  BY <1>1, <1>2, <1>3, <1>4 DEF CliTypes, CommandsFit
<1>6. SavesApart' /\ AloneFindsText'
  BY <1>3 DEF SavesApart, AloneFindsText
<1> QED BY <1>1, <1>5, <1>6 DEF ConfigInv, SavedIsQuiet, SavedIsThere

\* The commands and the hands keep it.
LEMMA ConfigKept ==
  ASSUME ConfigInv, CliConfigNext \/ UNCHANGED cliConfigVars
  PROVE  ConfigInv'
<1>1. CASE UNCHANGED cliConfigVars
  <2>1. rc' = rc /\ shell' = shell /\ around' = around
    BY <1>1 DEF cliConfigVars
  <2> QED BY <2>1 DEF ConfigInv, CliTypes, CommandsFit, SavesApart, AloneFindsText, SavedIsQuiet,
                      SavedIsThere, SavingConfig
<1>2. CASE EditConfigByHand
  BY <1>2, HandKeeps
<1>3. ASSUME NEW p \in Processes, CommandStep(p)
      PROVE  ConfigInv'
  BY <1>3, StartKeeps, ReadKeeps, CallKeeps, CommandDies, OpenKeeps, WriteKeeps, ChmodKeeps DEF CommandStep
<1> QED BY <1>1, <1>2, <1>3 DEF CliConfigNext

\* Nothing runs and nothing was saved.
LEMMA ConfigStarts ==
  ASSUME CliConfigInit
  PROVE  ConfigInv
<1>1. rc \in ConfigFiles
  BY ConfigFileType, FilesWithType DEF CliConfigInit
<1>2. /\ NewCommand("none", "idle") \in Commands /\ NewCommand("none", "idle").at = "idle"
      /\ CommandFits(NewCommand("none", "idle"))
      /\ CommandAccepted(NewCommand("none", "idle"), around.accepted)
  BY NewCommandFits
<1>3. shell = [p \in Processes |-> NewCommand("none", "idle")]
  BY DEF CliConfigInit
<1>4. /\ around \in [env : BOOLEAN, place : {"project", "package"}, file : ConfigFiles,
                     accepted : SUBSET Configs, saved : ValidConfigs \cup {NoConfig},
                     commands : Nat, edits : Nat]
      /\ around.saved = NoConfig
  <2> PICK env \in BOOLEAN, place \in {"project", "package"},
           f \in {NoConfigFile} \cup FilesWith(NearConfigs) :
         around = [env |-> env, place |-> place, file |-> f, accepted |-> {}, saved |-> NoConfig,
                   commands |-> 0, edits |-> 0]
    BY DEF CliConfigInit
  <2>1. f \in ConfigFiles
    BY ConfigFileType, FilesWithType, CliConfigAssumption
  <2> HIDE DEF NoConfig
  <2> QED BY <2>1
<1>5. CliTypes /\ CommandsFit
  BY <1>1, <1>2, <1>3, <1>4 DEF CliTypes, CommandsFit
<1>6. \A p \in Processes : ~SavingConfig(p)
  BY <1>2, <1>3 DEF SavingConfig
<1> QED BY <1>4, <1>5, <1>6 DEF ConfigInv, SavesApart, AloneFindsText, SavedIsQuiet, SavedIsThere

\* The CLI's file holds what the last configure saved, of keys that the API has accepted,
\* unless another save or a hand disturbed it, the commands that read it then find
\* just that, and a configure that was refused has left it alone (config.ts).
THEOREM ConfigAlwaysTells == Spec => []ConfigTellsTheTruth
<1>1. Init => ConfigInv
  BY ConfigStarts DEF Init
<1>2. ConfigInv /\ [Next]_vars => ConfigInv'
  <2> SUFFICES ASSUME ConfigInv, [Next]_vars
               PROVE  ConfigInv'
    OBVIOUS
  <2>1. CliConfigNext \/ UNCHANGED cliConfigVars
    BY DEF Next, vars, ReposPagePage, RepoFiltersPage, PolicyEditorPage, PolicyListPage,
       DefaultPolicyPage, ValidatePanelPage, GenerateFormPage, DiffReadersPage,
       DiffBudgetPage, SplitDocsPage, DiffViewerPage, CliConfigPage
  <2> QED BY <2>1, ConfigKept
<1>3. ConfigInv => ConfigTellsTheTruth
  <2> SUFFICES ASSUME ConfigInv
               PROVE  ConfigTellsTheTruth
    OBVIOUS
  <2>1. ASSUME NEW p \in Processes
        PROVE  /\ shell[p] \in Commands /\ CommandFits(shell[p])
               /\ CommandAccepted(shell[p], around.accepted)
    BY DEF ConfigInv, CliTypes, CommandsFit
  <2>2. CliConfigTypeOK
    <3>1. around.saved \in ValidConfigs \cup {NoConfig} /\ rc \in ConfigFiles
      BY DEF ConfigInv, CliTypes
    <3>2. ASSUME NEW p \in Processes
          PROVE  shell[p].at \in CommandPlaces /\ shell[p].config \in Configs \cup {NoConfig}
      BY <2>1 DEF Commands
    <3>3. ASSUME NEW p \in Processes, shell[p].at \in {"open", "write", "chmod"}
          PROVE  shell[p].cmd = "configure" /\ shell[p].config \in ValidConfigs
      BY <2>1, <3>3 DEF CommandFits
    <3> QED BY <3>1, <3>2, <3>3 DEF CliConfigTypeOK, ConfigFiles
  <2>3. OnlyAcceptedSaved
    BY <2>1 DEF OnlyAcceptedSaved, ConfigInv, CommandAccepted, CommandFits
  <2>4. RefusedLeavesFile
    BY <2>1 DEF RefusedLeavesFile, CommandFits, NoExitYet
  <2>5. ReadersFindSaved
    BY <2>1 DEF ReadersFindSaved, CommandFits
  <2> QED BY <2>2, <2>3, <2>4, <2>5 DEF ConfigTellsTheTruth, ConfigInv
<1> QED BY <1>1, <1>2, <1>3, PTL DEF Spec

(***************************************************************************)
(* The viewer of the diff: its tabs, and the pane of one file.             *)
(***************************************************************************)
Languages == ViewedPaths \cup {NoLanguage}

PaneStates ==
  [key : {<<>>} \cup (Nat \X ViewedPaths), made : BOOLEAN, attached : BOOLEAN,
   doc : {"binary", "empty", "v1", "v2"}, lacked : SUBSET ViewedPaths,
   language : Languages, loading : BOOLEAN, reads : Languages]

ViewerStates ==
  [files : Seq(ViewedFile), active : Nat \ {0}, caret : Nat, mode : ViewModes,
   stored : ViewModes \cup {"none", "disabled"}, code : [ViewerParts -> {"unasked", "asked", "there"}],
   pane : PaneStates, steps : Nat]

\* What the key of a pane says of it, whatever it shows now.
PaneTells(p) ==
  /\ p.key \in Nat \X ViewedPaths
  /\ p.language \in {NoLanguage, ExtensionToLanguageKey(p.key[2])}
  /\ p.reads \in {NoLanguage, p.language}
  /\ p.attached => p.made
  /\ ~p.attached => p.key[2] \in p.lacked

\* The pane is the one of the active tab, and follows its file.
PaneFollows(p, v) ==
  /\ p.key = PaneKey(v)
  /\ p.language = LanguageKey(ActiveFile(v))
  /\ p.made => p.doc = ActiveFile(v).content

PaneFits(v) ==
  v.pane = NoPane \/ (PaneTells(v.pane) /\ Showing(v) = "pane" /\ PaneFollows(v.pane, v))

\* The caret is put where the editor is ready.
CaretFits(v) == v.caret # 0 => v.caret = v.active /\ v.code["editor"] = "there"

CaretShows(v) == v.caret # 0 => v.files # <<>> /\ Showing(v) = "editor"

TabFits(v) == v.files # <<>> => v.active \in DOMAIN v.files

\* Where local storage works, the mode is the one it has.
ModeFits(v) == v.stored # "disabled" => v.mode = ReadStoredMode(v.stored)

ViewerSound(v) ==
  /\ v \in ViewerStates
  /\ PaneFits(v) /\ CaretFits(v) /\ CaretShows(v) /\ TabFits(v) /\ ModeFits(v)

ViewerInv == ViewerSound(viewer)

\* An active file that is shown is one of the diff's.
LEMMA ActiveFileType ==
  ASSUME NEW v \in ViewerStates, Showing(v) = "pane"
  PROVE  /\ ActiveFile(v) \in ViewedFile
         /\ ActiveFile(v).path \in ViewedPaths
         /\ ActiveFile(v).content \in {"binary", "empty", "v1", "v2"}
         /\ PaneKey(v) = <<v.active, ActiveFile(v).path>>
         /\ PaneKey(v) \in Nat \X ViewedPaths
         /\ PaneKey(v)[2] = ActiveFile(v).path
         /\ LanguageKey(ActiveFile(v)) \in {NoLanguage, ExtensionToLanguageKey(ActiveFile(v).path)}
<1>1. v.files \in Seq(ViewedFile) /\ v.active \in Nat
  BY DEF ViewerStates
<1>2. v.active \in DOMAIN v.files
  BY DEF Showing
<1>3. v.files[v.active] \in ViewedFile
  BY <1>1, <1>2
<1>4. ActiveFile(v) \in ViewedFile
  BY <1>3 DEF ActiveFile
<1>5. /\ ActiveFile(v).path \in ViewedPaths
      /\ ActiveFile(v).content \in {"binary", "empty", "v1", "v2"}
  BY <1>4 DEF ViewedFile
<1>6. PaneKey(v) = <<v.active, ActiveFile(v).path>>
  BY DEF PaneKey
<1>7. LanguageKey(ActiveFile(v)) \in {NoLanguage, ExtensionToLanguageKey(ActiveFile(v).path)}
  BY DEF LanguageKey
<1> QED
  BY <1>1, <1>4, <1>5, <1>6, <1>7

\* A language is a path or none.
LEMMA LanguageType ==
  ASSUME NEW path \in ViewedPaths
  PROVE  ExtensionToLanguageKey(path) \in Languages /\ NoLanguage \in Languages
BY DEF ExtensionToLanguageKey, Languages

\* No pane has nothing.
LEMMA NoPaneType == NoPane \in PaneStates
<1>1. NoLanguage \in Languages
  BY DEF Languages
<1> HIDE DEF NoLanguage
<1> QED BY <1>1 DEF NoPane, PaneStates

\* A pane that is mounted is about its file and coloured as a diff.
LEMMA MountedTells ==
  ASSUME NEW v \in ViewerStates, Showing(v) = "pane"
  PROVE  LET p == MountedPane(v) IN
         /\ p \in PaneStates /\ PaneTells(p)
         /\ p.key = PaneKey(v)
         /\ p.made => p.doc = ActiveFile(v).content
<1> DEFINE f == ActiveFile(v)
           p == MountedPane(v)
<1>1. /\ f.path \in ViewedPaths /\ f.content \in {"binary", "empty", "v1", "v2"}
      /\ PaneKey(v) \in Nat \X ViewedPaths /\ PaneKey(v)[2] = f.path
  BY ActiveFileType
<1>2. Shows(f) \in BOOLEAN
  BY DEF Shows
<1>3. p = [key |-> PaneKey(v), made |-> Shows(f), attached |-> Shows(f), doc |-> f.content,
           lacked |-> IF Shows(f) THEN {} ELSE {f.path}, language |-> NoLanguage,
           loading |-> FALSE, reads |-> NoLanguage]
  <2>1. p = [NoPane EXCEPT !.key = PaneKey(v), !.made = Shows(f), !.attached = Shows(f), !.doc = f.content,
                           !.lacked = IF Shows(f) THEN {} ELSE {f.path}]
    BY DEF MountedPane
  <2> HIDE DEF p, f, NoLanguage
  <2> QED BY <2>1 DEF NoPane
<1>4. NoLanguage \in Languages
  BY DEF Languages
<1> HIDE DEF p, f, NoLanguage
<1>5. p \in PaneStates
  BY <1>1, <1>2, <1>3, <1>4 DEF PaneStates
<1>6. PaneTells(p)
  BY <1>1, <1>3 DEF PaneTells
<1> QED BY <1>3, <1>5, <1>6 DEF p, f

\* A pane that stays is still about its file, has the text of now in its editors, and what
\* it has been without is remembered.
LEMMA KeptTells ==
  ASSUME NEW v \in ViewerStates, Showing(v) = "pane", PaneTells(v.pane), v.pane.key = PaneKey(v)
  PROVE  LET p == KeptPane(v) IN
         /\ p \in PaneStates /\ PaneTells(p)
         /\ p.key = PaneKey(v)
         /\ p.made => p.doc = ActiveFile(v).content
<1> DEFINE f == ActiveFile(v)
           o == v.pane
           p == KeptPane(v)
<1>1. /\ f.path \in ViewedPaths /\ f.content \in {"binary", "empty", "v1", "v2"}
      /\ PaneKey(v) \in Nat \X ViewedPaths /\ PaneKey(v)[2] = f.path
  BY ActiveFileType
<1>2. Shows(f) \in BOOLEAN
  BY DEF Shows
<1>3. o \in PaneStates
  BY DEF ViewerStates
<1>4. p = [o EXCEPT !.attached = @ /\ Shows(f), !.doc = IF o.made THEN f.content ELSE @,
                    !.lacked = IF Shows(f) THEN @ ELSE @ \cup {f.path}]
  BY DEF KeptPane
<1>5. PaneTells(o) /\ o.key = PaneKey(v)
  OBVIOUS
<1> HIDE DEF p, f, o, NoLanguage
<1>6. /\ p.key = o.key /\ p.made = o.made /\ p.attached = (o.attached /\ Shows(f))
      /\ p.doc = (IF o.made THEN f.content ELSE o.doc)
      /\ p.lacked = (IF Shows(f) THEN o.lacked ELSE o.lacked \cup {f.path})
      /\ p.language = o.language /\ p.reads = o.reads
  BY <1>3, <1>4 DEF PaneStates
<1>7. p \in PaneStates
  BY <1>1, <1>2, <1>3, <1>4 DEF PaneStates
<1>8. PaneTells(p)
  BY <1>1, <1>2, <1>5, <1>6 DEF PaneTells
<1> QED BY <1>5, <1>6, <1>7, <1>8 DEF p, f

\* The effect of the language key leaves no other language than the file's.
LEMMA HighlightedTells ==
  ASSUME NEW p \in PaneStates, PaneTells(p),
         NEW key, key \in {NoLanguage, ExtensionToLanguageKey(p.key[2])}
  PROVE  LET h == Highlighted(p, key) IN
         /\ h \in PaneStates /\ PaneTells(h)
         /\ h.key = p.key /\ h.language = key /\ h.made = p.made /\ h.doc = p.doc
<1> DEFINE h == Highlighted(p, key)
<1>1. key \in Languages
  BY LanguageType DEF PaneTells
<1>2. CASE key = p.language
  BY <1>2 DEF Highlighted
<1>3. CASE key # p.language
  <2>1. h = [p EXCEPT !.language = key, !.loading = p.made /\ key # NoLanguage,
                      !.reads = IF key = NoLanguage THEN NoLanguage ELSE @]
    BY <1>3 DEF Highlighted
  <2> HIDE DEF h, NoLanguage
  <2>2. /\ h.key = p.key /\ h.language = key /\ h.made = p.made /\ h.doc = p.doc
        /\ h.attached = p.attached /\ h.lacked = p.lacked
        /\ h.reads = (IF key = NoLanguage THEN NoLanguage ELSE p.reads)
    BY <2>1 DEF PaneStates
  <2>3. NoLanguage \in Languages
    BY DEF Languages
  <2>4. h \in PaneStates
    BY <1>1, <2>1, <2>3 DEF PaneStates
  <2>5. h.reads \in {NoLanguage, key}
    BY <1>3, <2>2 DEF PaneTells
  <2>6. PaneTells(h)
    BY <2>2, <2>5 DEF PaneTells
  <2> QED BY <2>2, <2>4, <2>6 DEF h
<1> QED BY <1>2, <1>3

\* What is under the tabs after a render, if it is a pane, is that of the active file.
LEMMA ShownPaneFits ==
  ASSUME NEW v \in ViewerStates, v.pane = NoPane \/ PaneTells(v.pane)
  PROVE  /\ ShownPane(v) \in PaneStates
         /\ \/ ShownPane(v) = NoPane
            \/ PaneTells(ShownPane(v)) /\ Showing(v) = "pane" /\ PaneFollows(ShownPane(v), v)
<1>1. CASE Showing(v) # "pane" \/ v.code["pane"] # "there"
  BY <1>1, NoPaneType DEF ShownPane
<1>2. CASE Showing(v) = "pane" /\ v.code["pane"] = "there"
  <2> DEFINE f == ActiveFile(v)
             p == IF v.pane.key = PaneKey(v) THEN KeptPane(v) ELSE MountedPane(v)
  <2>1. ShownPane(v) = Highlighted(p, LanguageKey(f))
    BY <1>2 DEF ShownPane
  <2>2. PaneKey(v) \in Nat \X ViewedPaths /\ PaneKey(v)[2] = f.path
        /\ LanguageKey(f) \in {NoLanguage, ExtensionToLanguageKey(f.path)}
    BY <1>2, ActiveFileType
  <2>3. v.pane.key = PaneKey(v) => PaneTells(v.pane)
    <3>1. NoPane.key = <<>>
      BY DEF NoPane
    <3>2. <<>> \notin Nat \X ViewedPaths
      OBVIOUS
    <3> QED BY <2>2, <3>1, <3>2
  <2>4. /\ p \in PaneStates /\ PaneTells(p)
        /\ p.key = PaneKey(v)
        /\ p.made => p.doc = f.content
    BY <1>2, <2>3, KeptTells, MountedTells
  <2> DEFINE key == LanguageKey(f)
  <2>5. key \in {NoLanguage, ExtensionToLanguageKey(p.key[2])}
    BY <2>2, <2>4
  <2> HIDE DEF p, key
  <2>6. LET h == Highlighted(p, key) IN
         /\ h \in PaneStates /\ PaneTells(h)
         /\ h.key = p.key /\ h.language = key /\ h.made = p.made /\ h.doc = p.doc
    BY <2>4, <2>5, HighlightedTells
  <2> QED BY <1>2, <2>1, <2>4, <2>6 DEF PaneFollows, key
<1> QED BY <1>1, <1>2
\* The states between the effects: nothing is said of what is shown yet.
ViewerFits(v) ==
  /\ v \in ViewerStates
  /\ v.pane = NoPane \/ PaneTells(v.pane)
  /\ CaretFits(v) /\ ModeFits(v)

\* What is asked for keeps what is there.
LEMMA AskedType ==
  ASSUME NEW code \in [ViewerParts -> {"unasked", "asked", "there"}], NEW part
  PROVE  /\ Asked(code, part) \in [ViewerParts -> {"unasked", "asked", "there"}]
         /\ code["editor"] = "there" => Asked(code, part)["editor"] = "there"
<1>1. "editor" \in ViewerParts
  BY DEF ViewerParts
<1> HIDE DEF ViewerParts
<1> QED BY <1>1 DEF Asked

\* A render leaves the pane of the active file under the tabs, or none.
LEMMA PanelFits ==
  ASSUME NEW v, ViewerFits(v)
  PROVE  LET w == Panel(v) IN
         /\ ViewerFits(w) /\ PaneFits(w)
         /\ w.files = v.files /\ w.active = v.active /\ w.mode = v.mode /\ w.stored = v.stored
         /\ w.caret \in {0, v.caret}
         /\ w.caret # 0 => Showing(w) = "editor"
<1> DEFINE w == Panel(v)
           code == Asked(v.code, Showing(v))
           shown == ShownPane(v)
           caret == IF Showing(v) = "editor" THEN v.caret ELSE 0
<1>1. v \in ViewerStates
  BY DEF ViewerFits
<1>2. w = [v EXCEPT !.code = code, !.pane = shown, !.caret = caret]
  BY DEF Panel
<1>3. /\ code \in [ViewerParts -> {"unasked", "asked", "there"}]
      /\ v.code["editor"] = "there" => code["editor"] = "there"
  BY <1>1, AskedType DEF ViewerStates
<1>4. shown \in PaneStates
      /\ (shown = NoPane \/ (PaneTells(shown) /\ Showing(v) = "pane" /\ PaneFollows(shown, v)))
  BY <1>1, ShownPaneFits DEF ViewerFits
<1>5. caret \in Nat /\ caret \in {0, v.caret}
  BY <1>1 DEF ViewerStates
<1> HIDE DEF w, code, shown, caret
<1>6. /\ w.files = v.files /\ w.active = v.active /\ w.mode = v.mode /\ w.stored = v.stored
      /\ w.code = code /\ w.pane = shown /\ w.caret = caret
  BY <1>1, <1>2 DEF ViewerStates
<1>7. w \in ViewerStates
  BY <1>1, <1>2, <1>3, <1>4, <1>5 DEF ViewerStates
<1>8. CaretFits(w) /\ ModeFits(w)
  BY <1>3, <1>5, <1>6 DEF ViewerFits, CaretFits, ModeFits
<1>9. Showing(w) = Showing(v) /\ ActiveFile(w) = ActiveFile(v) /\ PaneKey(w) = PaneKey(v)
  BY <1>6 DEF Showing, ActiveFile, PaneKey
<1>10. PaneFits(w)
  BY <1>4, <1>6, <1>9 DEF PaneFits, PaneFollows
<1>11. w.caret # 0 => Showing(w) = "editor"
  BY <1>6, <1>9 DEF caret
<1> QED BY <1>4, <1>5, <1>6, <1>7, <1>8, <1>10, <1>11 DEF ViewerFits, w

\* A render with the effect that leaves a tab that is gone.
LEMMA RenderedFits ==
  ASSUME NEW v, ViewerFits(v), v.caret # 0 => v.files # <<>> /\ v.active \in DOMAIN v.files
  PROVE  LET w == Rendered(v) IN
         /\ ViewerFits(w) /\ PaneFits(w) /\ TabFits(w) /\ CaretShows(w)
         /\ w.files = v.files /\ w.mode = v.mode /\ w.stored = v.stored
<1>1. /\ v.files \in Seq(ViewedFile) /\ v.active \in Nat \ {0} /\ v.caret \in Nat
      /\ DOMAIN v.files = 1 .. Len(v.files) /\ Len(v.files) \in Nat
      /\ v.files # <<>> => 1 \in DOMAIN v.files
  <2>1. v.files \in Seq(ViewedFile) /\ v.active \in Nat \ {0} /\ v.caret \in Nat
    BY DEF ViewerFits, ViewerStates
  <2> QED BY <2>1, EmptySeq
<1>2. CASE v.active > Len(v.files) /\ v.files # <<>>
  <2> DEFINE u == [Panel(v) EXCEPT !.active = 1]
  <2>1. /\ ViewerFits(Panel(v)) /\ Panel(v).files = v.files /\ Panel(v).mode = v.mode
        /\ Panel(v).stored = v.stored /\ Panel(v).caret \in {0, v.caret}
    BY PanelFits
  <2>2. v.caret = 0
    BY <1>1, <1>2
  <2>3. Panel(v) \in ViewerStates
    BY <2>1 DEF ViewerFits
  <2>4. u \in ViewerStates /\ u.files = v.files /\ u.mode = v.mode /\ u.stored = v.stored
        /\ u.caret = 0 /\ u.active = 1 /\ u.pane = Panel(v).pane
    BY <2>1, <2>2, <2>3 DEF ViewerStates
  <2> HIDE DEF u
  <2>5. ViewerFits(u)
    BY <2>1, <2>4 DEF ViewerFits, CaretFits, ModeFits
  <2>6. LET w == Panel(u) IN
        /\ ViewerFits(w) /\ PaneFits(w)
        /\ w.files = u.files /\ w.active = u.active /\ w.mode = u.mode /\ w.stored = u.stored
        /\ w.caret \in {0, u.caret}
    BY <2>5, PanelFits
  <2>7. Rendered(v) = Panel(u)
    BY <1>2 DEF Rendered, u
  <2> QED BY <1>1, <2>4, <2>6, <2>7 DEF TabFits, CaretShows
<1>3. CASE ~(v.active > Len(v.files) /\ v.files # <<>>)
  <2>1. Rendered(v) = Panel(v)
    BY <1>3 DEF Rendered
  <2>2. LET w == Panel(v) IN
        /\ ViewerFits(w) /\ PaneFits(w)
        /\ w.files = v.files /\ w.active = v.active /\ w.mode = v.mode /\ w.stored = v.stored
        /\ w.caret \in {0, v.caret}
        /\ w.caret # 0 => Showing(w) = "editor"
    BY PanelFits
  <2>3. v.files # <<>> => v.active \in DOMAIN v.files
    BY <1>1, <1>3
  <2> QED BY <2>1, <2>2, <2>3 DEF TabFits, CaretShows
<1> QED BY <1>2, <1>3

\* The invariant, from what a render leaves.
LEMMA RenderedKeeps ==
  ASSUME NEW v, ViewerFits(v), v.caret # 0 => v.files # <<>> /\ v.active \in DOMAIN v.files,
         viewer' = Rendered(v)
  PROVE  ViewerInv' /\ viewer'.files = v.files /\ viewer'.mode = v.mode /\ viewer'.stored = v.stored
<1>1. LET w == Rendered(v) IN
      /\ ViewerFits(w) /\ PaneFits(w) /\ TabFits(w) /\ CaretShows(w)
      /\ w.files = v.files /\ w.mode = v.mode /\ w.stored = v.stored
  BY RenderedFits
<1>2. ViewerFits(viewer') /\ PaneFits(viewer') /\ TabFits(viewer') /\ CaretShows(viewer')
  BY <1>1
<1> QED BY <1>1, <1>2 DEF ViewerInv, ViewerSound, ViewerFits

\* The page is opened: nothing is shown, in the mode that is stored.
LEMMA MountedFits ==
  ASSUME NEW stored \in ViewModes \cup {"none", "disabled"},
         NEW code \in [ViewerParts -> {"unasked", "asked", "there"}], NEW steps \in Nat
  PROVE  LET w == Mounted(stored, code, steps) IN
         ViewerSound(w) /\ w.mode = ReadStoredMode(stored)
<1> DEFINE w == Mounted(stored, code, steps)
           asked == Asked(code, "editor")
           mode == ReadStoredMode(stored)
<1>1. w = [files |-> <<>>, active |-> 1, caret |-> 0, mode |-> mode, stored |-> stored,
           code |-> asked, pane |-> NoPane, steps |-> steps]
  BY DEF Mounted
<1>2. asked \in [ViewerParts -> {"unasked", "asked", "there"}]
  BY AskedType
<1>3. mode \in ViewModes
  BY DEF ReadStoredMode, ViewModes
<1>4. <<>> \in Seq(ViewedFile)
  BY EmptySeq
<1> HIDE DEF w, asked, mode
<1>5. /\ w.files = <<>> /\ w.caret = 0 /\ w.mode = mode /\ w.stored = stored /\ w.pane = NoPane
  BY <1>1
<1>6. w \in ViewerStates
  BY <1>1, <1>2, <1>3, <1>4, NoPaneType DEF ViewerStates
<1>7. PaneFits(w) /\ CaretFits(w) /\ CaretShows(w) /\ TabFits(w) /\ ModeFits(w)
  BY <1>5 DEF PaneFits, CaretFits, CaretShows, TabFits, ModeFits, mode
<1> QED BY <1>5, <1>6, <1>7 DEF ViewerSound, mode, w

\* A click counts, and renders.
LEMMA StepKeeps ==
  ASSUME NEW u, ViewerFits(u), u.caret # 0 => u.files # <<>> /\ u.active \in DOMAIN u.files,
         ViewerStep(u)
  PROVE  ViewerInv' /\ viewer'.files = u.files /\ viewer'.mode = u.mode
<1> DEFINE w == [u EXCEPT !.steps = @ + 1]
<1>1. viewer' = Rendered(w)
  BY DEF ViewerStep
<1>2. u \in ViewerStates
  BY DEF ViewerFits
<1>3. w \in ViewerStates
  BY <1>2 DEF ViewerStates
<1>4. /\ w.files = u.files /\ w.active = u.active /\ w.caret = u.caret /\ w.mode = u.mode
      /\ w.stored = u.stored /\ w.code = u.code /\ w.pane = u.pane
  BY <1>2 DEF ViewerStates
<1> HIDE DEF w
<1>5. ViewerFits(w)
  BY <1>3, <1>4 DEF ViewerFits, CaretFits, ModeFits
<1>6. w.caret # 0 => w.files # <<>> /\ w.active \in DOMAIN w.files
  BY <1>4
<1> QED BY <1>1, <1>4, <1>5, <1>6, RenderedKeeps

\* A step of the viewer keeps the invariant, and one that empties the diff the mode.
LEMMA ViewerKept ==
  ASSUME ViewerInv, ViewerNext
  PROVE  /\ ViewerInv'
         /\ viewer.files # <<>> /\ viewer'.files = <<>> /\ viewer.stored # "disabled"
              => viewer'.mode = viewer.mode
<1>1. viewer \in ViewerStates
  BY DEF ViewerInv, ViewerSound
<1>2. /\ viewer.files \in Seq(ViewedFile) /\ viewer.active \in Nat \ {0} /\ viewer.caret \in Nat
      /\ viewer.mode \in ViewModes /\ viewer.stored \in ViewModes \cup {"none", "disabled"}
      /\ viewer.steps \in Nat /\ viewer.code \in [ViewerParts -> {"unasked", "asked", "there"}]
      /\ viewer.pane \in PaneStates
  BY <1>1 DEF ViewerStates
<1>3. /\ viewer.pane = NoPane \/ PaneTells(viewer.pane)
      /\ CaretFits(viewer) /\ CaretShows(viewer) /\ ModeFits(viewer) /\ TabFits(viewer)
  BY DEF ViewerInv, ViewerSound, PaneFits
<1>4. ASSUME NEW fs \in ViewedDiffs, ValueChanges(fs)
      PROVE  ViewerInv' /\ viewer'.mode = viewer.mode
  <2> DEFINE w == [viewer EXCEPT !.files = fs, !.caret = 0]
  <2>1. ViewerStep(w)
    BY <1>4 DEF ValueChanges
  <2>2. fs \in Seq(ViewedFile)
    BY SeqDef DEF ViewedDiffs
  <2>3. w \in ViewerStates
    BY <1>1, <2>2 DEF ViewerStates
  <2>4. /\ w.caret = 0 /\ w.mode = viewer.mode /\ w.stored = viewer.stored /\ w.pane = viewer.pane
    BY <1>1 DEF ViewerStates
  <2> HIDE DEF w
  <2>5. ViewerFits(w)
    BY <1>3, <2>3, <2>4 DEF ViewerFits, CaretFits, ModeFits
  <2> QED BY <2>1, <2>4, <2>5, StepKeeps
<1>5. ASSUME NEW i \in DOMAIN viewer.files, HandleSelectTab(i)
      PROVE  ViewerInv' /\ viewer'.mode = viewer.mode
  <2> DEFINE caret == IF viewer.mode = "unified" /\ viewer.code["editor"] = "there" THEN i ELSE viewer.caret
             w == [viewer EXCEPT !.active = i, !.caret = caret]
  <2>1. ViewerStep(w)
    BY <1>1, <1>5 DEF HandleSelectTab, ViewerStates
  <2>2. i \in Nat \ {0} /\ caret \in Nat /\ viewer.files # <<>>
    BY <1>2
  <2>3. caret # 0 => caret = i /\ viewer.code["editor"] = "there"
    <3>1. viewer.mode # "unified" => viewer.caret = 0
      BY <1>3, <2>2 DEF CaretShows, Showing
    <3> QED BY <1>3, <3>1 DEF CaretFits
  <2> HIDE DEF caret
  <2>4. w \in ViewerStates
    BY <1>1, <2>2 DEF ViewerStates
  <2>5. /\ w.caret = caret /\ w.mode = viewer.mode /\ w.stored = viewer.stored /\ w.pane = viewer.pane
        /\ w.active = i /\ w.files = viewer.files /\ w.code = viewer.code
    BY <1>1 DEF ViewerStates
  <2> HIDE DEF w
  <2>6. ViewerFits(w)
    BY <1>3, <2>3, <2>4, <2>5 DEF ViewerFits, CaretFits, ModeFits
  <2> QED BY <2>1, <2>2, <2>5, <2>6, StepKeeps
<1>6. ClickTab => ViewerInv' /\ viewer'.mode = viewer.mode
  BY <1>5 DEF ClickTab
<1>7. HandleKeyDown => ViewerInv' /\ viewer'.mode = viewer.mode
  <2> SUFFICES ASSUME HandleKeyDown
               PROVE  ViewerInv' /\ viewer'.mode = viewer.mode
    OBVIOUS
  <2> DEFINE n == Len(viewer.files)
             s == SafeActive
  <2>1. n \in Nat /\ DOMAIN viewer.files = 1 .. n
    BY <1>2
  <2>2. n > 0
    BY DEF HandleKeyDown
  <2>3. s \in Nat /\ s >= 1
    BY <1>2, <2>1, <2>2 DEF SafeActive
  <2>4. PICK i \in {(s % n) + 1, ((s + n - 2) % n) + 1, 1, n} : HandleSelectTab(i)
    BY DEF HandleKeyDown
  <2> HIDE DEF n, s
  <2>5. s % n \in 0 .. n - 1 /\ (s + n - 2) % n \in 0 .. n - 1
    BY <2>1, <2>2, <2>3
  <2>6. i \in 1 .. n
    BY <2>1, <2>2, <2>4, <2>5
  <2> QED BY <1>5, <2>1, <2>4, <2>6
<1>8. ASSUME NEW mode \in ViewModes, SetModePersist(mode)
      PROVE  ViewerInv' /\ viewer'.files # <<>>
  <2> DEFINE stored == WriteStoredMode(viewer.stored, mode)
             w == [viewer EXCEPT !.mode = mode, !.stored = stored]
  <2>1. ViewerStep(w) /\ viewer.files # <<>>
    BY <1>1, <1>8 DEF SetModePersist, ViewerStates
  <2>2. stored \in ViewModes \cup {"none", "disabled"} /\ (stored # "disabled" => mode = ReadStoredMode(stored))
    BY <1>2, <1>8 DEF WriteStoredMode, ReadStoredMode
  <2> HIDE DEF stored
  <2>3. w \in ViewerStates
    BY <1>1, <1>8, <2>2 DEF ViewerStates
  <2>4. /\ w.caret = viewer.caret /\ w.mode = mode /\ w.stored = stored /\ w.pane = viewer.pane
        /\ w.active = viewer.active /\ w.files = viewer.files /\ w.code = viewer.code
    BY <1>1 DEF ViewerStates
  <2> HIDE DEF w
  <2>5. ViewerFits(w)
    BY <1>3, <2>2, <2>3, <2>4 DEF ViewerFits, CaretFits, ModeFits
  <2>6. w.files # <<>> /\ w.active \in DOMAIN w.files
    BY <1>3, <2>1, <2>4 DEF TabFits
  <2> QED BY <2>1, <2>4, <2>5, <2>6, StepKeeps
<1>9. HandleRadioKeyDown => ViewerInv' /\ viewer'.files # <<>>
  BY <1>8 DEF HandleRadioKeyDown, ViewModes
<1>10. ASSUME NEW part \in ViewerParts, CodeLoads(part)
       PROVE  ViewerInv' /\ viewer'.mode = viewer.mode
  <2> DEFINE code == [viewer.code EXCEPT ![part] = "there"]
             w == [viewer EXCEPT !.code = code]
  <2>1. viewer' = Rendered(w)
    BY <1>1, <1>10 DEF CodeLoads, ViewerStates
  <2>2. /\ code \in [ViewerParts -> {"unasked", "asked", "there"}]
        /\ viewer.code["editor"] = "there" => code["editor"] = "there"
    <3>1. "editor" \in ViewerParts
      BY DEF ViewerParts
    <3> QED BY <1>2, <3>1
  <2> HIDE DEF code
  <2>3. w \in ViewerStates
    BY <1>1, <2>2 DEF ViewerStates
  <2>4. /\ w.caret = viewer.caret /\ w.mode = viewer.mode /\ w.stored = viewer.stored /\ w.pane = viewer.pane
        /\ w.active = viewer.active /\ w.files = viewer.files /\ w.code = code
    BY <1>1 DEF ViewerStates
  <2> HIDE DEF w
  <2>5. ViewerFits(w)
    BY <1>3, <2>2, <2>3, <2>4 DEF ViewerFits, CaretFits, ModeFits
  <2>6. w.caret # 0 => w.files # <<>> /\ w.active \in DOMAIN w.files
    BY <1>3, <2>4 DEF TabFits, CaretShows
  <2> QED BY <2>1, <2>4, <2>5, <2>6, RenderedKeeps
<1>11. LanguageSettles => ViewerInv' /\ viewer'.mode = viewer.mode
  <2> SUFFICES ASSUME LanguageSettles
               PROVE  ViewerInv' /\ viewer'.mode = viewer.mode
    OBVIOUS
  <2> DEFINE p == viewer.pane
  <2>1. PICK reads \in {p.language, p.reads} :
          viewer' = [viewer EXCEPT !.pane.loading = FALSE, !.pane.reads = reads]
    BY DEF LanguageSettles
  <2>2. p # NoPane
    BY DEF LanguageSettles, NoPane
  <2> DEFINE q == [p EXCEPT !.loading = FALSE, !.reads = reads]
  <2>3. viewer' = [viewer EXCEPT !.pane = q]
    BY <1>1, <2>1 DEF ViewerStates
  <2> HIDE DEF p, q
  <2>4. p \in PaneStates
    BY <1>2 DEF p
  <2>5. q \in PaneStates
    BY <2>1, <2>4 DEF q, PaneStates
  <2>6. /\ q.key = p.key /\ q.made = p.made /\ q.doc = p.doc /\ q.language = p.language
        /\ q.attached = p.attached /\ q.lacked = p.lacked /\ q.reads = reads
    BY <2>4 DEF q, PaneStates
  <2>7. /\ viewer'.files = viewer.files /\ viewer'.active = viewer.active /\ viewer'.caret = viewer.caret
        /\ viewer'.mode = viewer.mode /\ viewer'.stored = viewer.stored /\ viewer'.code = viewer.code
        /\ viewer'.pane = q /\ viewer' \in ViewerStates
    BY <1>1, <2>3, <2>5 DEF ViewerStates
  <2>8. PaneTells(p) /\ Showing(viewer) = "pane" /\ PaneFollows(p, viewer)
    BY <2>2 DEF ViewerInv, ViewerSound, PaneFits, p
  <2>9. PaneTells(q)
    BY <2>1, <2>6, <2>8 DEF PaneTells
  <2>10. /\ Showing(viewer') = Showing(viewer) /\ ActiveFile(viewer') = ActiveFile(viewer)
         /\ PaneKey(viewer') = PaneKey(viewer)
    BY <2>7 DEF Showing, ActiveFile, PaneKey
  <2>11. PaneFits(viewer')
    BY <2>6, <2>7, <2>8, <2>9, <2>10 DEF PaneFits, PaneFollows
  <2>12. CaretFits(viewer') /\ CaretShows(viewer') /\ TabFits(viewer') /\ ModeFits(viewer')
    BY <1>3, <2>7, <2>10 DEF CaretFits, CaretShows, TabFits, ModeFits
  <2> QED BY <2>7, <2>11, <2>12 DEF ViewerInv, ViewerSound
<1>12. ReloadViewer => ViewerInv' /\ (viewer.stored # "disabled" => viewer'.mode = viewer.mode)
  <2> SUFFICES ASSUME ReloadViewer
               PROVE  ViewerInv' /\ (viewer.stored # "disabled" => viewer'.mode = viewer.mode)
    OBVIOUS
  <2>1. PICK code \in {viewer.code, NothingLoaded} : viewer' = Mounted(viewer.stored, code, viewer.steps + 1)
    BY DEF ReloadViewer
  <2>2. code \in [ViewerParts -> {"unasked", "asked", "there"}]
    BY <1>2 DEF NothingLoaded
  <2>3. viewer.steps + 1 \in Nat
    BY <1>2
  <2>4. LET w == Mounted(viewer.stored, code, viewer.steps + 1) IN
        ViewerSound(w) /\ w.mode = ReadStoredMode(viewer.stored)
    BY <1>2, <2>2, <2>3, MountedFits
  <2>5. ViewerSound(viewer')
    BY <2>1, <2>4
  <2> QED BY <1>3, <2>1, <2>4, <2>5 DEF ModeFits, ViewerInv
<1> QED BY <1>4, <1>6, <1>7, <1>8, <1>9, <1>10, <1>11, <1>12 DEF ViewerNext

(***************************************************************************)
(* The two sides of a file, and the scrolling of their panes.              *)
(***************************************************************************)
SplitRows == [signal : {"context", "add", "del", "empty", "header"}, line : Nat]

SplitStates ==
  [left : Seq(SplitRows), right : Seq(SplitRows), dels : Seq(Nat), adds : Seq(Nat), built : BOOLEAN]

PaneHeights == [at : [Sides -> Nat], ends : [Sides -> Nat], events : Seq(Sides), scrolls : Nat]

LinesOf(pending) == {pending[i] : i \in DOMAIN pending}
NotSigned(read, sign) == {i \in DOMAIN read : read[i] # sign}

\* A side's rows and the lines that wait for it are the lines read that are not of the
\* other side only, in their order.
Tells(rows, pending, read, sign) ==
  /\ LinesIn(rows) \cup LinesOf(pending) = NotSigned(read, sign)
  /\ InOrder(rows)
  /\ \A i, j \in DOMAIN pending : i < j => pending[i] < pending[j]
  /\ \A i \in DOMAIN pending : \A j \in DOMAIN rows : rows[j].line < pending[i]

Level(s) ==
  /\ Len(s.left) = Len(s.right)
  /\ \A i \in DOMAIN s.left : s.left[i].signal \in {"context", "header"} => s.right[i] = s.left[i]

SplitTells(s, read) ==
  /\ s \in SplitStates /\ Level(s)
  /\ Tells(s.left, s.dels, read, "add")
  /\ Tells(s.right, s.adds, read, "del")

SplitInv ==
  /\ signs \in Seq(LineSigns)
  /\ SplitTells(split, signs)
  /\ split.built => split.dels = <<>> /\ split.adds = <<>>
  /\ panes \in PaneHeights /\ PanesSettle

Block(pending, signal, n) == [i \in 1 .. n |-> IF i \in DOMAIN pending THEN Row(signal, pending[i]) ELSE Padding]

\* The rows that a flush puts on one side.
LEMMA BlockType ==
  ASSUME NEW pending \in Seq(Nat), NEW signal \in {"add", "del"}, NEW n \in Nat
  PROVE  /\ Block(pending, signal, n) \in Seq(SplitRows)
         /\ Len(Block(pending, signal, n)) = n
         /\ \A i \in 1 .. n : Block(pending, signal, n)[i].signal \in {signal, "empty"}
<1> DEFINE b == Block(pending, signal, n)
<1>1. ASSUME NEW i \in 1 .. n
      PROVE  /\ (IF i \in DOMAIN pending THEN Row(signal, pending[i]) ELSE Padding) \in SplitRows
             /\ (IF i \in DOMAIN pending THEN Row(signal, pending[i]) ELSE Padding).signal \in {signal, "empty"}
  <2>1. i \in DOMAIN pending => pending[i] \in Nat
    OBVIOUS
  <2> QED BY <2>1 DEF Row, Padding, SplitRows
<1>2. b \in [1 .. n -> SplitRows]
  BY <1>1 DEF Block
<1>3. b \in Seq(SplitRows)
  BY <1>2, SeqDef
<1>4. Len(b) = n
  BY <1>2, <1>3
<1> QED BY <1>1, <1>3, <1>4 DEF Block

\* What two sequences of rows have together.
LEMMA ConcatOfRows ==
  ASSUME NEW r \in Seq(SplitRows), NEW b \in Seq(SplitRows)
  PROVE  /\ r \o b \in Seq(SplitRows) /\ DOMAIN (r \o b) = 1 .. Len(r) + Len(b)
         /\ DOMAIN r = 1 .. Len(r) /\ DOMAIN b = 1 .. Len(b) /\ Len(r) \in Nat /\ Len(b) \in Nat
         /\ \A i \in 1 .. Len(r) : (r \o b)[i] = r[i]
         /\ \A i \in 1 .. Len(b) : (r \o b)[Len(r) + i] = b[i]
         /\ Len(r \o b) = Len(r) + Len(b)
<1>1. /\ r \o b \in Seq(SplitRows) /\ Len(r \o b) = Len(r) + Len(b)
      /\ \A i \in 1 .. Len(r) + Len(b) : (r \o b)[i] = IF i <= Len(r) THEN r[i] ELSE b[i - Len(r)]
  BY ConcatProperties
<1>2. Len(r) \in Nat /\ Len(b) \in Nat /\ DOMAIN r = 1 .. Len(r) /\ DOMAIN b = 1 .. Len(b)
      /\ DOMAIN (r \o b) = 1 .. Len(r \o b)
  BY <1>1
<1>3. ASSUME NEW i \in 1 .. Len(b)
      PROVE  (r \o b)[Len(r) + i] = b[i]
  <2>1. Len(r) + i \in 1 .. Len(r) + Len(b) /\ ~(Len(r) + i <= Len(r)) /\ (Len(r) + i) - Len(r) = i
    BY <1>2
  <2> QED BY <1>1, <2>1
<1>4. ASSUME NEW i \in 1 .. Len(r)
      PROVE  (r \o b)[i] = r[i]
  <2>1. i \in 1 .. Len(r) + Len(b) /\ i <= Len(r)
    BY <1>2
  <2> QED BY <1>1, <2>1
<1> QED BY <1>1, <1>2, <1>3, <1>4

\* A flush puts what waits below what is there.
LEMMA FlushTells ==
  ASSUME NEW rows \in Seq(SplitRows), NEW pending \in Seq(Nat), NEW signal \in {"add", "del"},
         NEW n \in Nat, n >= Len(pending), NEW read \in Seq(LineSigns), NEW sign,
         Tells(rows, pending, read, sign)
  PROVE  Tells(rows \o Block(pending, signal, n), <<>>, read, sign)
<1> DEFINE b == Block(pending, signal, n)
           w == rows \o b
           m == Len(rows)
<1>1. b \in Seq(SplitRows) /\ Len(b) = n
  BY BlockType
<1> HIDE DEF b
<1>2. /\ DOMAIN w = 1 .. m + n /\ DOMAIN rows = 1 .. m /\ m \in Nat
      /\ \A i \in 1 .. m : w[i] = rows[i]
      /\ \A i \in 1 .. n : w[m + i] = b[i]
  BY <1>1, ConcatOfRows
<1>3. DOMAIN pending = 1 .. Len(pending) /\ Len(pending) \in Nat /\ DOMAIN pending \subseteq 1 .. n
  OBVIOUS
<1>4. \A i \in 1 .. n : b[i].line = IF i \in DOMAIN pending THEN pending[i] ELSE 0
  BY DEF b, Block, Row, Padding
<1>5. \A i \in DOMAIN pending : pending[i] \in Nat
  OBVIOUS
<1>6. \A i \in 1 .. m : rows[i].line \in Nat
  <2>1. \A i \in 1 .. m : rows[i] \in SplitRows
    BY <1>2
  <2> QED BY <2>1 DEF SplitRows
<1>7. 0 \notin NotSigned(read, sign)
  BY DEF NotSigned
<1> HIDE DEF w, m
<1>8. LinesIn(w) = LinesIn(rows) \cup LinesOf(pending)
  <2>1. ASSUME NEW x \in LinesIn(w)
        PROVE  x \in LinesIn(rows) \cup LinesOf(pending)
    <3>1. PICK i \in 1 .. m + n : x = w[i].line /\ x # 0
      BY <1>2 DEF LinesIn
    <3>2. CASE i <= m
      BY <1>2, <3>1, <3>2 DEF LinesIn
    <3>3. CASE i > m
      <4>1. i - m \in 1 .. n /\ m + (i - m) = i
        BY <1>2, <3>3
      <4>2. x = b[i - m].line
        BY <1>2, <3>1, <4>1
      <4> QED BY <1>4, <3>1, <4>1, <4>2 DEF LinesOf
    <3> QED BY <1>2, <3>2, <3>3
  <2>2. LinesIn(rows) \subseteq LinesIn(w)
    BY <1>2 DEF LinesIn
  <2>3. ASSUME NEW i \in DOMAIN pending
        PROVE  pending[i] \in LinesIn(w)
    <3>1. pending[i] # 0
      BY <1>7 DEF Tells, LinesOf
    <3>2. m + i \in 1 .. m + n /\ w[m + i].line = pending[i]
      BY <1>2, <1>3, <1>4
    <3> QED BY <1>2, <3>1, <3>2 DEF LinesIn
  <2> QED BY <2>1, <2>2, <2>3 DEF LinesOf
<1>9. InOrder(w)
  <2> SUFFICES ASSUME NEW i \in 1 .. m + n, NEW j \in 1 .. m + n, i < j, w[i].line # 0, w[j].line # 0
               PROVE  w[i].line < w[j].line
    BY <1>2 DEF InOrder
  <2>1. CASE j <= m
    <3>1. i \in 1 .. m /\ j \in 1 .. m
      BY <1>2, <2>1
    <3> QED BY <1>2, <3>1 DEF Tells, InOrder
  <2>2. CASE j > m
    <3>1. j - m \in 1 .. n /\ m + (j - m) = j
      BY <1>2, <2>2
    <3>2. j - m \in DOMAIN pending /\ w[j].line = pending[j - m]
      BY <1>2, <1>4, <3>1
    <3>3. CASE i <= m
      <4>1. i \in 1 .. m /\ w[i] = rows[i]
        BY <1>2, <3>3
      <4>2. rows[i].line < pending[j - m]
        BY <1>2, <3>2, <4>1 DEF Tells
      <4> QED BY <3>2, <4>1, <4>2
    <3>4. CASE i > m
      <4>1. i - m \in 1 .. n /\ m + (i - m) = i /\ i - m < j - m
        BY <1>2, <3>4
      <4>2. i - m \in DOMAIN pending /\ w[i].line = pending[i - m]
        BY <1>2, <1>4, <4>1
      <4> QED BY <3>2, <4>1, <4>2 DEF Tells
    <3> QED BY <1>2, <3>3, <3>4
  <2> QED BY <1>2, <2>1, <2>2
<1>10. LinesOf(<<>>) = {}
  BY DEF LinesOf
<1> QED BY <1>8, <1>9, <1>10 DEF Tells, w, b

\* What has been read with one more line.
LEMMA OneMoreRead ==
  ASSUME NEW read \in Seq(LineSigns), NEW x \in LineSigns, NEW sign
  PROVE  /\ NotSigned(Append(read, x), sign)
              = NotSigned(read, sign) \cup (IF x = sign THEN {} ELSE {Len(read) + 1})
         /\ \A i \in NotSigned(read, sign) : i \in 1 .. Len(read)
         /\ Len(read) \in Nat
<1>1. /\ DOMAIN Append(read, x) = 1 .. Len(read) + 1 /\ DOMAIN read = 1 .. Len(read) /\ Len(read) \in Nat
      /\ \A i \in 1 .. Len(read) : Append(read, x)[i] = read[i]
      /\ Append(read, x)[Len(read) + 1] = x
  BY AppendProperties
<1> QED BY <1>1 DEF NotSigned

\* A line that waits is younger than what is there.
LEMMA WaitingTells ==
  ASSUME NEW rows \in Seq(SplitRows), NEW pending \in Seq(Nat),
         NEW read \in Seq(LineSigns), NEW x \in LineSigns, NEW sign, x # sign,
         Tells(rows, pending, read, sign)
  PROVE  Tells(rows, Append(pending, Len(read) + 1), Append(read, x), sign)
<1> DEFINE q == Append(pending, Len(read) + 1)
           k == Len(pending)
           r == Len(read)
<1>1. /\ NotSigned(Append(read, x), sign) = NotSigned(read, sign) \cup {r + 1}
      /\ \A i \in NotSigned(read, sign) : i \in 1 .. r
      /\ r \in Nat
  BY OneMoreRead
<1>2. /\ DOMAIN q = 1 .. k + 1 /\ DOMAIN pending = 1 .. k /\ k \in Nat
      /\ \A i \in 1 .. k : q[i] = pending[i]
      /\ q[k + 1] = r + 1
  BY <1>1, AppendProperties
<1> HIDE DEF q, k, r
<1>3. LinesOf(q) = LinesOf(pending) \cup {r + 1}
  <2>1. \A i \in 1 .. k + 1 : i \in 1 .. k \/ i = k + 1
    BY <1>2
  <2>2. k + 1 \in 1 .. k + 1 /\ 1 .. k \subseteq 1 .. k + 1
    BY <1>2
  <2> QED BY <1>2, <2>1, <2>2, Zenon DEF LinesOf
<1>4. ASSUME NEW i \in 1 .. k
      PROVE  pending[i] < r + 1
  <2>1. pending[i] \in NotSigned(read, sign)
    BY <1>2 DEF Tells, LinesOf
  <2> QED BY <1>1, <2>1
<1>5. ASSUME NEW j \in DOMAIN rows
      PROVE  rows[j].line < r + 1
  <2>1. rows[j].line = 0 \/ rows[j].line \in NotSigned(read, sign)
    BY DEF Tells, LinesIn
  <2> QED BY <1>1, <2>1
<1>6. \A i, j \in DOMAIN q : i < j => q[i] < q[j]
  <2> SUFFICES ASSUME NEW i \in 1 .. k + 1, NEW j \in 1 .. k + 1, i < j
               PROVE  q[i] < q[j]
    BY <1>2
  <2>1. i \in 1 .. k
    BY <1>2
  <2>2. CASE j \in 1 .. k
    BY <1>2, <2>1, <2>2 DEF Tells
  <2>3. CASE j = k + 1
    BY <1>2, <1>4, <2>1, <2>3
  <2> QED BY <1>2, <2>2, <2>3
<1>7. \A i \in DOMAIN q : \A j \in DOMAIN rows : rows[j].line < q[i]
  BY <1>2, <1>5 DEF Tells
<1> QED BY <1>1, <1>3, <1>6, <1>7 DEF Tells, q, r

\* A line of the other side only changes nothing.
LEMMA SkippedTells ==
  ASSUME NEW rows, NEW pending,
         NEW read \in Seq(LineSigns), NEW x \in LineSigns,
         Tells(rows, pending, read, x)
  PROVE  Tells(rows, pending, Append(read, x), x)
BY OneMoreRead DEF Tells

\* A line of both sides comes below what is there when nothing waits.
LEMMA SharedTells ==
  ASSUME NEW rows \in Seq(SplitRows), NEW signal \in {"context", "header"},
         NEW read \in Seq(LineSigns), NEW x \in LineSigns, NEW sign, x # sign,
         Tells(rows, <<>>, read, sign)
  PROVE  Tells(Append(rows, Row(signal, Len(read) + 1)), <<>>, Append(read, x), sign)
<1> DEFINE r == Len(read)
           row == Row(signal, r + 1)
           w == Append(rows, row)
           m == Len(rows)
<1>1. /\ NotSigned(Append(read, x), sign) = NotSigned(read, sign) \cup {r + 1}
      /\ \A i \in NotSigned(read, sign) : i \in 1 .. r
      /\ r \in Nat
  BY OneMoreRead
<1>2. row \in SplitRows /\ row.line = r + 1
  BY <1>1 DEF Row, SplitRows
<1> HIDE DEF row, r
<1>3. /\ DOMAIN w = 1 .. m + 1 /\ DOMAIN rows = 1 .. m /\ m \in Nat
      /\ \A i \in 1 .. m : w[i] = rows[i]
      /\ w[m + 1] = row
  BY <1>2, AppendProperties
<1> HIDE DEF w, m
<1>4. LinesIn(w) = LinesIn(rows) \cup {r + 1}
  <2>1. r + 1 # 0
    BY <1>1
  <2>2. \A i \in 1 .. m + 1 : i \in 1 .. m \/ i = m + 1
    BY <1>3
  <2>3. m + 1 \in 1 .. m + 1 /\ 1 .. m \subseteq 1 .. m + 1
    BY <1>3
  <2> QED BY <1>2, <1>3, <2>1, <2>2, <2>3, Zenon DEF LinesIn
<1>5. LinesOf(<<>>) = {}
  BY DEF LinesOf
<1>6. ASSUME NEW i \in 1 .. m, rows[i].line # 0
      PROVE  rows[i].line < r + 1
  <2>1. rows[i].line \in NotSigned(read, sign)
    BY <1>3, <1>6 DEF Tells, LinesIn
  <2> QED BY <1>1, <2>1
<1>7. InOrder(w)
  <2> SUFFICES ASSUME NEW i \in 1 .. m + 1, NEW j \in 1 .. m + 1, i < j, w[i].line # 0, w[j].line # 0
               PROVE  w[i].line < w[j].line
    BY <1>3 DEF InOrder
  <2>1. i \in 1 .. m
    BY <1>3
  <2>2. CASE j \in 1 .. m
    BY <1>3, <2>1, <2>2 DEF Tells, InOrder
  <2>3. CASE j = m + 1
    BY <1>2, <1>3, <1>6, <2>1, <2>3
  <2> QED BY <1>3, <2>2, <2>3
<1> QED BY <1>1, <1>4, <1>5, <1>7 DEF Tells, w, row, r
\* A flush puts what waits on both sides, level.
LEMMA FlushedTells ==
  ASSUME NEW s, NEW read \in Seq(LineSigns), SplitTells(s, read)
  PROVE  LET f == Flushed(s) IN
         /\ SplitTells(f, read) /\ f.dels = <<>> /\ f.adds = <<>> /\ f.built = s.built
<1> DEFINE n == IF Len(s.dels) > Len(s.adds) THEN Len(s.dels) ELSE Len(s.adds)
           l == Block(s.dels, "del", n)
           r == Block(s.adds, "add", n)
           f == Flushed(s)
<1>1. /\ s \in SplitStates
      /\ s.left \in Seq(SplitRows) /\ s.right \in Seq(SplitRows) /\ s.dels \in Seq(Nat) /\ s.adds \in Seq(Nat)
  BY DEF SplitTells, SplitStates
<1>2. n \in Nat /\ n >= Len(s.dels) /\ n >= Len(s.adds)
  BY <1>1
<1>3. f = [s EXCEPT !.left = s.left \o l, !.right = s.right \o r, !.dels = <<>>, !.adds = <<>>]
  BY <1>1 DEF Flushed, Block, SplitStates
<1> HIDE DEF n, f
<1>4. /\ l \in Seq(SplitRows) /\ Len(l) = n /\ \A i \in 1 .. n : l[i].signal \in {"del", "empty"}
      /\ r \in Seq(SplitRows) /\ Len(r) = n
  BY <1>1, <1>2, BlockType
<1>5. Tells(s.left \o l, <<>>, read, "add") /\ Tells(s.right \o r, <<>>, read, "del")
  BY <1>1, <1>2, FlushTells DEF SplitTells
<1> HIDE DEF l, r
<1>6. /\ f.left = s.left \o l /\ f.right = s.right \o r /\ f.dels = <<>> /\ f.adds = <<>> /\ f.built = s.built
  BY <1>1, <1>3 DEF SplitStates
<1>7. s.left \o l \in Seq(SplitRows) /\ s.right \o r \in Seq(SplitRows)
  BY <1>1, <1>4, ConcatOfRows
<1>8. f \in SplitStates
  <2>1. <<>> \in Seq(Nat)
    BY EmptySeq
  <2> QED BY <1>1, <1>3, <1>7, <2>1 DEF SplitStates
<1>9. Level(f)
  <2> DEFINE m == Len(s.left)
  <2>1. /\ Len(s.right) = m /\ m \in Nat /\ DOMAIN s.left = 1 .. m
        /\ \A i \in 1 .. m : s.left[i].signal \in {"context", "header"} => s.right[i] = s.left[i]
    BY <1>1 DEF SplitTells, Level
  <2>2. /\ DOMAIN (s.left \o l) = 1 .. m + n
        /\ \A i \in 1 .. m : (s.left \o l)[i] = s.left[i]
        /\ \A i \in 1 .. n : (s.left \o l)[m + i] = l[i]
        /\ Len(s.left \o l) = m + n
    BY <1>1, <1>4, ConcatOfRows
  <2>3. /\ \A i \in 1 .. m : (s.right \o r)[i] = s.right[i]
        /\ Len(s.right \o r) = m + n
    <3>1. /\ \A i \in 1 .. Len(s.right) : (s.right \o r)[i] = s.right[i]
          /\ Len(s.right \o r) = Len(s.right) + n
      BY <1>1, <1>4, ConcatOfRows
    <3> HIDE DEF m
    <3> QED BY <2>1, <3>1
  <2> HIDE DEF m
  <2> DEFINE wl == s.left \o l
             wr == s.right \o r
  <2> HIDE DEF wl, wr
  <2>4. ASSUME NEW i \in 1 .. m + n, wl[i].signal \in {"context", "header"}
        PROVE  wr[i] = wl[i]
    <3>1. CASE i <= m
      <4>1. i \in 1 .. m
        BY <2>1, <3>1
      <4> QED BY <2>1, <2>2, <2>3, <2>4, <4>1 DEF wl, wr
    <3>2. CASE i > m
      <4>1. i - m \in 1 .. n /\ m + (i - m) = i
        BY <1>2, <2>1, <3>2
      <4>2. wl[i] = l[i - m]
        BY <2>2, <4>1 DEF wl
      <4>3. l[i - m].signal \in {"del", "empty"}
        BY <1>4, <4>1
      <4> QED BY <2>4, <4>2, <4>3
    <3> QED BY <1>2, <2>1, <3>1, <3>2
  <2> QED BY <1>6, <2>2, <2>3, <2>4 DEF Level, wl, wr
<1> QED BY <1>5, <1>6, <1>8, <1>9 DEF SplitTells, f

\* A line that both sides have goes below both.
LEMMA BothSidesTell ==
  ASSUME NEW s, NEW read \in Seq(LineSigns), NEW x \in {"header", "context"},
         SplitTells(s, read), s.dels = <<>>, s.adds = <<>>
  PROVE  LET b == BothSides(s, x, Len(read) + 1) IN SplitTells(b, Append(read, x)) /\ b.built = s.built
<1> DEFINE row == Row(x, Len(read) + 1)
           b == BothSides(s, x, Len(read) + 1)
           m == Len(s.left)
           wl == Append(s.left, row)
           wr == Append(s.right, row)
<1>1. /\ s \in SplitStates
      /\ s.left \in Seq(SplitRows) /\ s.right \in Seq(SplitRows)
  BY DEF SplitTells, SplitStates
<1>2. row \in SplitRows
  <2>1. Len(read) + 1 \in Nat
    OBVIOUS
  <2> QED BY <2>1 DEF Row, SplitRows
<1>3. b = [s EXCEPT !.left = wl, !.right = wr]
  BY <1>1 DEF BothSides, SplitStates
<1>4. Tells(wl, <<>>, Append(read, x), "add") /\ Tells(wr, <<>>, Append(read, x), "del")
  <2>1. x \in LineSigns /\ x # "add" /\ x # "del"
    BY DEF LineSigns
  <2> QED BY <1>1, <2>1, SharedTells DEF SplitTells
<1> HIDE DEF row, b
<1>5. /\ wl \in Seq(SplitRows) /\ Len(wl) = m + 1 /\ DOMAIN wl = 1 .. m + 1 /\ m \in Nat
      /\ \A i \in 1 .. m : wl[i] = s.left[i]
      /\ wl[m + 1] = row
  BY <1>1, <1>2, AppendProperties
<1>6. Len(s.right) = m /\ DOMAIN s.left = 1 .. m
  BY <1>1 DEF SplitTells, Level
<1>7. /\ wr \in Seq(SplitRows) /\ Len(wr) = m + 1
      /\ \A i \in 1 .. m : wr[i] = s.right[i]
      /\ wr[m + 1] = row
  BY <1>1, <1>2, <1>6, AppendProperties
<1> HIDE DEF wl, wr, m
<1>8. /\ b.left = wl /\ b.right = wr /\ b.dels = <<>> /\ b.adds = <<>> /\ b.built = s.built
  BY <1>1, <1>3 DEF SplitStates
<1>9. b \in SplitStates
  BY <1>1, <1>3, <1>5, <1>7 DEF SplitStates
<1>10. Level(b)
  <2>1. ASSUME NEW i \in 1 .. m + 1, wl[i].signal \in {"context", "header"}
        PROVE  wr[i] = wl[i]
    <3>1. CASE i \in 1 .. m
      BY <1>5, <1>6, <1>7, <2>1, <3>1 DEF SplitTells, Level
    <3>2. CASE i = m + 1
      BY <1>5, <1>7, <3>2
    <3> QED BY <1>5, <3>1, <3>2
  <2> QED BY <1>5, <1>7, <1>8, <2>1 DEF Level
<1> QED BY <1>4, <1>8, <1>9, <1>10 DEF SplitTells, b

\* A line is read.
LEMMA SplitLineTells ==
  ASSUME NEW s, NEW read \in Seq(LineSigns), NEW x \in LineSigns, SplitTells(s, read)
  PROVE  LET w == SplitLine(s, x, Len(read) + 1) IN SplitTells(w, Append(read, x)) /\ w.built = s.built
<1> DEFINE n == Len(read) + 1
           w == SplitLine(s, x, n)
<1>1. /\ s \in SplitStates /\ s.left \in Seq(SplitRows) /\ s.right \in Seq(SplitRows)
      /\ s.dels \in Seq(Nat) /\ s.adds \in Seq(Nat) /\ n \in Nat
      /\ Tells(s.left, s.dels, read, "add") /\ Tells(s.right, s.adds, read, "del") /\ Level(s)
  BY DEF SplitTells, SplitStates
<1>2. CASE x = "del"
  <2> DEFINE q == Append(s.dels, n)
  <2>1. w = [s EXCEPT !.dels = q]
    BY <1>1, <1>2 DEF SplitLine, SplitStates
  <2>2. Tells(s.left, q, Append(read, x), "add")
    BY <1>1, <1>2, WaitingTells
  <2>3. Tells(s.right, s.adds, Append(read, x), "del")
    BY <1>1, <1>2, SkippedTells
  <2>4. q \in Seq(Nat)
    BY <1>1, AppendProperties
  <2> HIDE DEF q, w
  <2>5. /\ w.left = s.left /\ w.right = s.right /\ w.dels = q /\ w.adds = s.adds /\ w.built = s.built
        /\ w \in SplitStates
    BY <1>1, <2>1, <2>4 DEF SplitStates
  <2> QED BY <1>1, <2>2, <2>3, <2>5 DEF SplitTells, Level, w
<1>3. CASE x = "add"
  <2> DEFINE q == Append(s.adds, n)
  <2>1. w = [s EXCEPT !.adds = q]
    BY <1>1, <1>3 DEF SplitLine, SplitStates
  <2>2. Tells(s.right, q, Append(read, x), "del")
    BY <1>1, <1>3, WaitingTells
  <2>3. Tells(s.left, s.dels, Append(read, x), "add")
    BY <1>1, <1>3, SkippedTells
  <2>4. q \in Seq(Nat)
    BY <1>1, AppendProperties
  <2> HIDE DEF q, w
  <2>5. /\ w.left = s.left /\ w.right = s.right /\ w.adds = q /\ w.dels = s.dels /\ w.built = s.built
        /\ w \in SplitStates
    BY <1>1, <2>1, <2>4 DEF SplitStates
  <2> QED BY <1>1, <2>2, <2>3, <2>5 DEF SplitTells, Level, w
<1>4. CASE x \in {"header", "context"}
  <2>1. w = BothSides(Flushed(s), x, n)
    BY <1>4 DEF SplitLine
  <2> DEFINE f == Flushed(s)
  <2>2. SplitTells(f, read) /\ f.dels = <<>> /\ f.adds = <<>> /\ f.built = s.built
    BY FlushedTells
  <2> HIDE DEF f
  <2>3. LET b == BothSides(f, x, Len(read) + 1) IN SplitTells(b, Append(read, x)) /\ b.built = f.built
    BY <1>4, <2>2, BothSidesTell
  <2> QED BY <2>1, <2>2, <2>3 DEF f
<1> QED BY <1>2, <1>3, <1>4 DEF LineSigns

\* What a pane is scrolled to is told by an event.
LEMMA MovedType ==
  ASSUME NEW p \in PaneHeights, NEW side \in Sides, NEW y \in Nat
  PROVE  LET w == Moved(p, side, y) IN
         /\ w \in PaneHeights /\ w.scrolls = p.scrolls /\ w.ends = p.ends
         /\ w.at = [p.at EXCEPT ![side] = y]
         /\ w.events = <<>> => p.events = <<>> /\ p.at[side] = y
<1>1. CASE p.at[side] = y
  <2>1. Moved(p, side, y) = p
    BY <1>1 DEF Moved
  <2>2. p.at = [p.at EXCEPT ![side] = y]
    BY <1>1 DEF PaneHeights
  <2> QED BY <1>1, <2>1, <2>2
<1>2. CASE p.at[side] # y
  <2> DEFINE at == [p.at EXCEPT ![side] = y]
             events == IF \E i \in DOMAIN p.events : p.events[i] = side THEN p.events ELSE Append(p.events, side)
             w == Moved(p, side, y)
  <2>1. w = [p EXCEPT !.at = at, !.events = events]
    BY <1>2 DEF Moved, PaneHeights
  <2>2. at \in [Sides -> Nat] /\ p.events \in Seq(Sides)
    BY DEF PaneHeights
  <2>3. events \in Seq(Sides) /\ events # <<>>
    <3>1. Append(p.events, side) \in Seq(Sides) /\ Append(p.events, side) # <<>>
      BY <2>2, AppendProperties
    <3>2. (\E i \in DOMAIN p.events : p.events[i] = side) => p.events # <<>>
      OBVIOUS
    <3> QED BY <2>2, <3>1, <3>2
  <2> HIDE DEF at, events, w
  <2>4. w \in PaneHeights /\ w.scrolls = p.scrolls /\ w.ends = p.ends /\ w.at = at /\ w.events = events
    BY <2>1, <2>2, <2>3 DEF PaneHeights
  <2> QED BY <2>3, <2>4 DEF at, w
<1> QED BY <1>1, <1>2

\* A scroll of the user counts.
LEMMA CountedType ==
  ASSUME NEW p \in PaneHeights
  PROVE  LET w == [p EXCEPT !.scrolls = @ + 1] IN
         w \in PaneHeights /\ w.at = p.at /\ w.ends = p.ends /\ w.events = p.events
<1> DEFINE scrolls == p.scrolls + 1
<1>1. scrolls \in Nat
  BY DEF PaneHeights
<1>2. [p EXCEPT !.scrolls = @ + 1] = [p EXCEPT !.scrolls = scrolls]
  BY DEF PaneHeights
<1> HIDE DEF scrolls
<1> QED BY <1>1, <1>2 DEF PaneHeights

\* Steps of the split documents and of their panes.
LEMMA SplitKept ==
  ASSUME SplitInv, SplitDocsNext
  PROVE  SplitInv'
<1>1. /\ signs \in Seq(LineSigns) /\ SplitTells(split, signs) /\ panes \in PaneHeights /\ PanesSettle
      /\ split.built => split.dels = <<>> /\ split.adds = <<>>
  BY DEF SplitInv
<1>2. ASSUME NEW sign \in LineSigns, ReadSplitLine(sign)
      PROVE  SplitInv'
  <2>1. /\ signs' = Append(signs, sign) /\ split' = SplitLine(split, sign, Len(signs) + 1)
        /\ panes' = panes /\ ~split.built
    BY <1>2 DEF ReadSplitLine
  <2>2. signs' \in Seq(LineSigns)
    BY <1>1, <2>1, AppendProperties
  <2>3. LET w == SplitLine(split, sign, Len(signs) + 1)
        IN SplitTells(w, Append(signs, sign)) /\ w.built = split.built
    BY <1>1, SplitLineTells
  <2>4. SplitTells(split', signs') /\ split'.built = split.built
    BY <2>1, <2>3
  <2>5. PanesSettle'
    BY <1>1, <2>1 DEF PanesSettle
  <2> QED BY <1>1, <2>1, <2>2, <2>4, <2>5 DEF SplitInv
<1>3. DocsBuilt => SplitInv'
  <2> SUFFICES ASSUME DocsBuilt
               PROVE  SplitInv'
    OBVIOUS
  <2> DEFINE f == Flushed(split)
             w == [f EXCEPT !.built = TRUE]
  <2>1. split' = w /\ signs' = signs /\ panes' = panes
    BY DEF DocsBuilt
  <2>2. SplitTells(f, signs) /\ f.dels = <<>> /\ f.adds = <<>>
    BY <1>1, FlushedTells
  <2> HIDE DEF f
  <2>3. f \in SplitStates
    BY <2>2 DEF SplitTells
  <2>4. w \in SplitStates /\ w.left = f.left /\ w.right = f.right /\ w.dels = f.dels /\ w.adds = f.adds
    BY <2>3 DEF SplitStates
  <2> HIDE DEF w
  <2>5. SplitTells(w, signs)
    BY <2>2, <2>4 DEF SplitTells, Level
  <2>6. SplitTells(split', signs') /\ split'.dels = <<>> /\ split'.adds = <<>>
    BY <2>1, <2>2, <2>4, <2>5
  <2>7. PanesSettle'
    BY <1>1, <2>1 DEF PanesSettle
  <2> QED BY <1>1, <2>1, <2>6, <2>7 DEF SplitInv
<1>4. /\ panes.at \in [Sides -> Nat] /\ panes.ends \in [Sides -> Nat] /\ panes.events \in Seq(Sides)
      /\ panes.scrolls \in Nat
  BY <1>1 DEF PaneHeights
<1>5. ASSUME UNCHANGED <<split, signs>>, panes' \in PaneHeights, PanesSettle'
      PROVE  SplitInv'
  <2>1. split' = split /\ signs' = signs
    BY <1>5
  <2> QED BY <1>1, <1>5, <2>1 DEF SplitInv
<1>6. ASSUME NEW side \in Sides, NEW y \in 0 .. panes.ends[side], UserScrolls(side, y)
      PROVE  SplitInv'
  <2> DEFINE p == Moved(panes, side, y)
             w == [p EXCEPT !.scrolls = @ + 1]
  <2>1. panes' = w /\ UNCHANGED <<split, signs>>
    BY <1>6 DEF UserScrolls
  <2>2. y \in Nat
    BY <1>4
  <2>3. /\ p \in PaneHeights /\ p.ends = panes.ends /\ p.at = [panes.at EXCEPT ![side] = y]
        /\ p.events = <<>> => panes.events = <<>> /\ panes.at[side] = y
    BY <1>1, <2>2, MovedType
  <2> HIDE DEF p
  <2>4. w \in PaneHeights /\ w.at = p.at /\ w.ends = p.ends /\ w.events = p.events
    BY <2>3, CountedType
  <2> HIDE DEF w
  <2>5. panes' \in PaneHeights /\ panes'.at = p.at /\ panes'.ends = panes.ends /\ panes'.events = p.events
    BY <2>1, <2>3, <2>4
  <2>6. p.events = <<>> => p.at = panes.at
    BY <1>4, <2>3
  <2>7. PanesSettle'
    BY <1>1, <2>3, <2>5, <2>6 DEF PanesSettle
  <2> QED BY <1>5, <2>1, <2>5, <2>7
<1>7. ScrollEvent => SplitInv'
  <2> SUFFICES ASSUME ScrollEvent
               PROVE  SplitInv'
    OBVIOUS
  <2> DEFINE p == [panes EXCEPT !.events = Tail(@)]
             side == Head(panes.events)
             dst == Across(side)
             y == IF p.at[side] > p.ends[dst] THEN p.ends[dst] ELSE p.at[side]
             w == Moved(p, dst, y)
  <2>1. panes' = w /\ UNCHANGED <<split, signs>> /\ panes.events # <<>>
    BY DEF ScrollEvent, Follow
  <2>2. side \in Sides /\ Tail(panes.events) \in Seq(Sides)
    BY <1>4, <2>1
  <2> HIDE DEF side
  <2>3. dst \in Sides /\ Across(dst) = side /\ dst # side
    BY <2>2 DEF Sides, Across
  <2> HIDE DEF dst
  <2>4. p \in PaneHeights /\ p.at = panes.at /\ p.ends = panes.ends
    BY <1>1, <2>2 DEF PaneHeights
  <2> HIDE DEF p
  <2>5. y \in Nat
    BY <1>4, <2>2, <2>3, <2>4
  <2>6. y <= p.at[side] /\ (y = p.at[side] \/ y = p.ends[dst])
    BY <1>4, <2>2, <2>3, <2>4
  <2> HIDE DEF y
  <2>7. /\ w \in PaneHeights /\ w.ends = p.ends /\ w.at = [p.at EXCEPT ![dst] = y]
    BY <2>3, <2>4, <2>5, MovedType
  <2> HIDE DEF w
  <2>8. /\ panes' \in PaneHeights /\ panes'.ends = panes.ends
        /\ panes'.at[dst] = y /\ panes'.at[side] = panes.at[side]
    BY <1>4, <2>1, <2>2, <2>3, <2>4, <2>7
  <2>9. PanesSettle'
    BY <2>3, <2>4, <2>6, <2>8 DEF PanesSettle
  <2> QED BY <1>5, <2>1, <2>8, <2>9
<1> QED BY <1>2, <1>3, <1>6, <1>7 DEF SplitDocsNext

\* Nothing is read, both panes are at their top.
LEMMA SplitStarts ==
  ASSUME SplitDocsInit
  PROVE  SplitInv
<1>1. /\ split = [left |-> <<>>, right |-> <<>>, dels |-> <<>>, adds |-> <<>>, built |-> FALSE]
      /\ signs = <<>>
  BY DEF SplitDocsInit
<1>2. PICK ends \in [Sides -> PaneEnds] :
         panes = [at |-> [s \in Sides |-> 0], ends |-> ends, events |-> <<>>, scrolls |-> 0]
  BY DEF SplitDocsInit
<1>3. /\ <<>> \in Seq(SplitRows) /\ <<>> \in Seq(Nat) /\ <<>> \in Seq(LineSigns) /\ <<>> \in Seq(Sides)
      /\ Len(<<>>) = 0 /\ DOMAIN <<>> = {}
  BY EmptySeq
<1>4. split \in SplitStates /\ split.left = <<>> /\ split.right = <<>> /\ split.dels = <<>> /\ split.adds = <<>>
  BY <1>1, <1>3 DEF SplitStates
<1>5. \A sign : Tells(<<>>, <<>>, <<>>, sign)
  BY <1>3 DEF Tells, LinesIn, LinesOf, NotSigned, InOrder
<1>6. SplitTells(split, signs)
  BY <1>1, <1>3, <1>4, <1>5 DEF SplitTells, Level
<1>7. ends \in [Sides -> Nat]
  BY SplitDocsAssumption
<1>8. panes \in PaneHeights /\ \A s \in Sides : panes.at[s] = 0
  BY <1>2, <1>3, <1>7 DEF PaneHeights
<1>9. PanesSettle
  BY <1>8 DEF PanesSettle, Sides, Across
<1> QED BY <1>1, <1>3, <1>4, <1>6, <1>8, <1>9 DEF SplitInv

\* The invariant says what the documents and the panes are to be.
LEMMA SplitTold ==
  ASSUME SplitInv
  PROVE  SidesAreLevel /\ SidesTellTexts /\ PanesSettle
<1>1. SidesAreLevel
  BY DEF SplitInv, SplitTells, Level, SidesAreLevel
<1>2. LinesOf(<<>>) = {}
  BY DEF LinesOf
<1>3. split.built => /\ LinesIn(split.left) = NotSigned(signs, "add") /\ InOrder(split.left)
                     /\ LinesIn(split.right) = NotSigned(signs, "del") /\ InOrder(split.right)
  BY <1>2 DEF SplitInv, SplitTells, Tells
<1>4. SidesTellTexts
  BY <1>3 DEF SidesTellTexts, LinesWithout, NotSigned
<1> QED BY <1>1, <1>4 DEF SplitInv

\* The page is opened for the first time.
LEMMA ViewerStarts ==
  ASSUME ViewerInit
  PROVE  ViewerInv
<1>1. PICK stored \in ViewModes \cup {"none", "disabled"} : viewer = Mounted(stored, NothingLoaded, 0)
  BY DEF ViewerInit
<1>2. NothingLoaded \in [ViewerParts -> {"unasked", "asked", "there"}]
  BY DEF NothingLoaded
<1>3. LET w == Mounted(stored, NothingLoaded, 0) IN ViewerSound(w) /\ w.mode = ReadStoredMode(stored)
  BY <1>2, MountedFits
<1> QED BY <1>1, <1>3 DEF ViewerInv

\* The invariant says what the viewer is to show.
LEMMA ViewerTold ==
  ASSUME ViewerInv
  PROVE  ActiveTabShown /\ PaneShowsFile /\ PaneBlankOnlyForFile
<1> DEFINE f == ActiveFile(viewer)
           p == viewer.pane
<1>1. viewer \in ViewerStates
  BY DEF ViewerInv, ViewerSound
<1>2. ActiveTabShown
  BY DEF ViewerInv, ViewerSound, TabFits, CaretFits, ActiveTabShown
<1>3. CASE p = NoPane
  <2>1. ~p.attached
    BY <1>3 DEF NoPane
  <2> QED BY <1>2, <1>3, <2>1 DEF PaneShowsFile, PaneBlankOnlyForFile
<1>4. CASE p # NoPane
  <2>1. PaneTells(p) /\ Showing(viewer) = "pane" /\ PaneFollows(p, viewer)
    BY <1>4 DEF ViewerInv, ViewerSound, PaneFits
  <2>2. PaneKey(viewer)[2] = f.path
    BY <1>1, <2>1, ActiveFileType
  <2>3. PaneShowsFile
    BY <2>1 DEF PaneTells, PaneFollows, PaneShowsFile
  <2>4. PaneBlankOnlyForFile
    BY <2>1, <2>2 DEF PaneTells, PaneFollows, PaneBlankOnlyForFile
  <2> QED BY <1>2, <2>3, <2>4
<1> QED BY <1>3, <1>4

\* The split view shows the active file, both sides level and each with its text's lines,
\* the panes come to rest side by side, and the mode outlives other diffs and visits
\* (diff-viewer.tsx, split-diff-pane.tsx, split-view.ts).
THEOREM PanesAlwaysShow == Spec => PanesShowFile
<1>1. Init => ViewerInv /\ SplitInv
  BY ViewerStarts, SplitStarts DEF Init
<1>2. ViewerInv /\ SplitInv /\ [Next]_vars
        => /\ ViewerInv' /\ SplitInv'
           /\ [viewer.files # <<>> /\ viewer'.files = <<>> /\ viewer.stored # "disabled"
                 => viewer'.mode = viewer.mode]_viewer
  <2> SUFFICES ASSUME ViewerInv, SplitInv, [Next]_vars
               PROVE  /\ ViewerInv' /\ SplitInv'
                      /\ [viewer.files # <<>> /\ viewer'.files = <<>> /\ viewer.stored # "disabled"
                            => viewer'.mode = viewer.mode]_viewer
    OBVIOUS
  <2>1. /\ ViewerNext \/ UNCHANGED viewer
        /\ SplitDocsNext \/ UNCHANGED splitVars
    BY DEF Next, vars, ReposPagePage, RepoFiltersPage, PolicyEditorPage, PolicyListPage,
       DefaultPolicyPage, ValidatePanelPage, GenerateFormPage, DiffReadersPage,
       DiffBudgetPage, SplitDocsPage, DiffViewerPage, CliConfigPage
  <2>2. UNCHANGED viewer => ViewerInv'
    BY DEF ViewerInv, ViewerSound
  <2>3. UNCHANGED splitVars => SplitInv'
    BY DEF SplitInv, splitVars, PanesSettle
  <2> QED BY <2>1, <2>2, <2>3, ViewerKept, SplitKept
<1>3. ViewerInv /\ SplitInv
        => /\ SidesAreLevel /\ SidesTellTexts /\ PanesSettle /\ ActiveTabShown
           /\ PaneBlankOnlyForFile /\ PaneShowsFile
  BY ViewerTold, SplitTold
<1> QED BY <1>1, <1>2, <1>3, PTL DEF Spec, PanesShowFile, ModeOutlivesVisit

==============================================================================
