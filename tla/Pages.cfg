SPECIFICATION Spec
CONSTANTS
  ChosenPages = {"repos page", "repo filters", "policy editor", "policy list", "default policy",
            "validate panel", "generate form", "diff readers", "diff budget",
            "split docs", "diff viewer", "cli config"}
  GithubIds = {"r1", "r2"}
  RepoCalls = {1, 2}
  MaxRepoFaults = 1
  Repos = {1, 2, 3}
  ArchivedRepos = {3}
  FoundRepos = {1}
  ReposPerPage = 1
  MaxEdits = 3
  RuleTypes = {"allowedScopes", "maxSubjectLength"}
  EditorCalls = {1, 2}
  MaxEditorEdits = 2
  MaxEditorFaults = 1
  PolicyIds = {"p1", "p2"}
  ListCalls = {1, 2}
  MaxListFaults = 1
  MaxTemplateEdits = 2
  MaxRemoteEdits = 1
  MaxTemplateFaults = 1
  PanelMessages = {"m1", "m2"}
  MaxChecks = 4
  DiffTexts = {"a", "b"}
  ValidTexts = {"a"}
  LargeTexts = {"b"}
  DiffFiles = {"a", "b"}
  FormProviders = {"openai", "anthropic"}
  FormRepos = {"r1", "r2"}
  RepoPolicies = {"p"}
  MaxFormSteps = 2
  DiffPaths = {"p", "q"}
  MaxDiffFiles = 2
  MaxHunks = 2
  MaxSlips = 1
  MaxStripped = 3
  MaxFileHunks = 3
  TokenBudget = 9
  MaxSplitLines = 5
  MaxScrolls = 3
  PaneEnds = {1, 3}
  ViewedPaths = {"p", "q"}
  PlainPaths = {"q"}
  MaxViewed = 2
  MaxViewerSteps = 4
  Processes = {1, 2}
  Configs = {1, 2, 4}
  ValidConfigs = {2, 4}
  NearConfigs = {2}
  MaxCommands = 3
  MaxHandEdits = 1
INVARIANTS
  ListsSettle
  VerdictsFollowMessage
  FormSendsWhatItShows
  
  
PROPERTIES
  
  
  PanesShowFile
CHECK_DEADLOCK FALSE
