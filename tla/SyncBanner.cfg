SPECIFICATION FairSpec
CONSTANTS
  Runner = {i1, i2}
  PageSize = 1
  Interval = 2
  MaxCommits = 2
  MaxOnWire = 2
  MaxAttempts = 2
  MaxClicks = 1
  Faults = {"github", "db", "socket"}
INVARIANT EndsInOrder
PROPERTIES NeverSnapsBack BannerEnds
CHECK_DEADLOCK FALSE
