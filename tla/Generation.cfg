SPECIFICATION Spec
CONSTANTS
  MaxCalls = 2
  Count = 1
  RefusalCodes = {401}
  PerRun = 3
  MaxFaults = 1
  WithCopy = TRUE
  WithCommit = TRUE
INVARIANTS
  RowsTellTheTruth
  OneEnding
  PageTellsTheTruth
  CliTellsTheTruth
  RegenerationHelps
PROPERTIES
  AbortedCallsAreCancelled
  StopsEnd
CHECK_DEADLOCK FALSE
