------------------------------- MODULE Pages ----------------------------------
(* The pages and forms of the application, and the configuration of its command line,
   that no other module composes with what they talk to.  They share no state, so
   a behaviour is about one of them, chosen at the start; the variables of the
   others stay as they are. *)
EXTENDS ReposPage, RepoFilters, PolicyEditor, PolicyListPage, DefaultPolicyPage,
        GenerateForm, DiffReaders, DiffBudget, DiffViewer, CliConfig

CONSTANT ChosenPages  \* those looked at

VARIABLE page

vars == <<page, reposVars, filters, editorVars, policyListVars, templateVars, panel, formVars, readerVars,
          budgetVars, splitVars, viewer, cliConfigVars>>

Init ==
    /\ page \in ChosenPages
    /\ IF page = "repos page" THEN ReposPageInit ELSE ReposPageInit /\ connectedRow = {}
    /\ IF page = "repo filters" THEN FiltersInit ELSE FiltersInit /\ filters.url.page = 1
    /\ PolicyEditorInit
    /\ IF page = "policy list" THEN PolicyListInit ELSE PolicyListInit /\ policyRows.ids = {}
    /\ IF page = "default policy" THEN DefaultPolicyInit ELSE DefaultPolicyInit /\ ~templateRow.stored
    /\ PanelInit
    /\ IF page = "generate form" THEN GenerateFormInit ELSE GenerateFormInit /\ form.diff = NoText /\ \A p \in FormProviders : formKeys[p] = NoChoice
    /\ DiffReadersInit
    /\ IF page = "diff budget" THEN DiffBudgetInit ELSE DiffBudgetInit /\ stripped = <<>>
    /\ IF page = "split docs" THEN SplitDocsInit ELSE SplitDocsInit /\ panes.ends["left"] = 1 /\ panes.ends["right"] = 1
    /\ IF page = "diff viewer" THEN ViewerInit ELSE ViewerInit /\ viewer.stored = "none"
    /\ IF page = "cli config" THEN CliConfigInit ELSE CliConfigInit /\ rc = NoConfigFile /\ around.env

ReposPagePage ==
    /\ page = "repos page" /\ ReposPageNext
    /\ UNCHANGED <<page, filters, editorVars, policyListVars, templateVars, panel, formVars, readerVars, budgetVars,
                     splitVars, viewer, cliConfigVars>>

RepoFiltersPage ==
    /\ page = "repo filters" /\ FiltersNext
    /\ UNCHANGED <<page, reposVars, editorVars, policyListVars, templateVars, panel, formVars, readerVars,
                     budgetVars, splitVars, viewer, cliConfigVars>>

PolicyEditorPage ==
    /\ page = "policy editor" /\ PolicyEditorNext
    /\ UNCHANGED <<page, reposVars, filters, policyListVars, templateVars, panel, formVars, readerVars, budgetVars,
                     splitVars, viewer, cliConfigVars>>

PolicyListPage ==
    /\ page = "policy list" /\ PolicyListNext
    /\ UNCHANGED <<page, reposVars, filters, editorVars, templateVars, panel, formVars, readerVars, budgetVars,
                     splitVars, viewer, cliConfigVars>>

DefaultPolicyPage ==
    /\ page = "default policy" /\ DefaultPolicyNext
    /\ UNCHANGED <<page, reposVars, filters, editorVars, policyListVars, panel, formVars, readerVars, budgetVars,
                     splitVars, viewer, cliConfigVars>>

ValidatePanelPage ==
    /\ page = "validate panel" /\ PanelNext
    /\ UNCHANGED <<page, reposVars, filters, editorVars, policyListVars, templateVars, formVars, readerVars,
                     budgetVars, splitVars, viewer, cliConfigVars>>

GenerateFormPage ==
    /\ page = "generate form" /\ GenerateFormNext
    /\ UNCHANGED <<page, reposVars, filters, editorVars, policyListVars, templateVars, panel, readerVars,
                     budgetVars, splitVars, viewer, cliConfigVars>>

DiffReadersPage ==
    /\ page = "diff readers" /\ DiffReadersNext
    /\ UNCHANGED <<page, reposVars, filters, editorVars, policyListVars, templateVars, panel, formVars, budgetVars,
                     splitVars, viewer, cliConfigVars>>

DiffBudgetPage ==
    /\ page = "diff budget" /\ DiffBudgetNext
    /\ UNCHANGED <<page, reposVars, filters, editorVars, policyListVars, templateVars, panel, formVars, readerVars,
                     splitVars, viewer, cliConfigVars>>

SplitDocsPage ==
    /\ page = "split docs" /\ SplitDocsNext
    /\ UNCHANGED <<page, reposVars, filters, editorVars, policyListVars, templateVars, panel, formVars, readerVars,
                     budgetVars, viewer, cliConfigVars>>

DiffViewerPage ==
    /\ page = "diff viewer" /\ ViewerNext
    /\ UNCHANGED <<page, reposVars, filters, editorVars, policyListVars, templateVars, panel, formVars, readerVars,
                     budgetVars, splitVars, cliConfigVars>>

CliConfigPage ==
    /\ page = "cli config" /\ CliConfigNext
    /\ UNCHANGED <<page, reposVars, filters, editorVars, policyListVars, templateVars, panel, formVars, readerVars,
                     budgetVars, splitVars, viewer>>

Next ==
    \/ ReposPagePage
    \/ RepoFiltersPage
    \/ PolicyEditorPage
    \/ PolicyListPage
    \/ DefaultPolicyPage
    \/ ValidatePanelPage
    \/ GenerateFormPage
    \/ DiffReadersPage
    \/ DiffBudgetPage
    \/ SplitDocsPage
    \/ DiffViewerPage
    \/ CliConfigPage

Spec == Init /\ [][Next]_vars

-------------------------------------------------------------------------------
\* Lists with optimistic changes end up as the API's rows are, with one active policy
\* and no repository twice, when calls overlap and fail (the mutations of hooks.ts).
ListsSettle ==
    ReposPageSettles /\ StubOrRow /\ PolicyListSettles /\ OneShownActive /\ SubmittingEnds

\* The URL tells the filters once the debounce is over, and its late echoes do not undo
\* a later edit (use-repo-filters.ts).
UrlFollowsFilters == [](UrlTellsFilters /\ PageNotEmpty) /\ EchoesIgnored

\* The editors say "saved" and "unsaved changes" of what the API has and the user typed,
\* over refetches, overlapping calls and visits (policy-editor-view.tsx,
\* default-policy-view.tsx).
FormsKeepEdits ==
    /\ [](/\ PolicyEditorTypeOK /\ SavedMeansSaved /\ DirtyMeansEdited /\ DetailSettles
          /\ SavedRowComesBack /\ FormFollowsTemplate)
    /\ EditsSurviveRefetch

\* The verdict under the message is about the message, however answers overtake each
\* other, and "checking" ends with the last of them (manual-validate-panel.tsx).
VerdictsFollowMessage == VerdictIsAboutMessage /\ CheckingEnds

\* What the generate form sends belongs together: the model to the provider, the policy to
\* the repository, the file's name to its text (generate-view.tsx, policy-picker.tsx).
FormSendsWhatItShows ==
    /\ FileNameTellsText /\ ProviderUsable /\ SentModelOfProvider /\ SentPolicyOfRepo
    /\ StalePolicyCleared

\* The validator, the statistics and the tabs read the same files from a diff, and what
\* is cut to the budget is read as the files that were kept.
DiffReadersAgree ==
    /\ AcceptedBalances /\ StatsMatchTabs /\ TabsMatchFiles /\ TabsCoverDiff /\ GitDiffAccepted
    /\ TabTellsChange /\ KeptFilesComeBack /\ SmallestGoFirst /\ FitsBudget

\* The CLI's file holds what the last configure saved, of keys that the API has accepted,
\* unless another save or a hand disturbed it; commands that read it then find just
\* that, and a configure that was refused has left it alone (config.ts, configure.ts).
ConfigTellsTheTruth ==
    CliConfigTypeOK /\ SavedIsThere /\ OnlyAcceptedSaved /\ RefusedLeavesFile /\ ReadersFindSaved

\* The split view shows the active file, both sides level, and remembers its mode over
\* other diffs and visits (split-diff-pane.tsx and what mounts it).
PanesShowFile ==
    /\ [](/\ SidesAreLevel /\ SidesTellTexts /\ PanesSettle /\ ActiveTabShown
          /\ PaneBlankOnlyForFile /\ PaneShowsFile)
    /\ ModeOutlivesVisit
===============================================================================
