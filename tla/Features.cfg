SPECIFICATION Spec
CONSTANTS
  Chosen = {"listings", "rescore", "analytics", "sessions", "api keys", "llm keys",
            "commit messages"}
  PageSize = 1
  RowIds = {1, 2, 3}
  Ticks = {0, 1, 2}
  TicksPerMs = 2
  EventTypes = {"a", "b"}
  MaxChanges = 1
  CommitIds = {1, 2, 3}
  Dates = {1, 2, 3}
  BatchSize = 1
  MaxJobs = 1
  Kinds = {"summary"}
  Readers = {1}
  MaxWrites = 2
  MaxSweepFaults = 1
  Browsers = {"b1"}
  MaxLogins = 2
  MaxGen = 1
  MaxTrouble = 1
  KeyPrefixes = {p1, p2}
  MintMaxAttempts = 2
  KeyCalls = {1, 2}
  MaxKeyFaults = 1
  LlmProviders = {"openai", "anthropic"}
  KeyTexts = {"k"}
  LlmCalls = {1, 2}
  MaxLlmFaults = 1
  MaxMessageLines = 6
  MaxBodyLines = 2
  MaxRules = 2
INVARIANTS
  
  RescoreMissesNone
  StatsFollowSync
  ApiKeysHold
  LlmKeysHold
  MessagesKeepTheirMeaning
PROPERTIES
  CacheComesFresh
  
CHECK_DEADLOCK FALSE
