SPECIFICATION FairSpec
CONSTANTS
  Client = {c1, c2, c3}
  NoClient = NoClient
  Policy = {p1, p2}
  Kinds = {"delete", "activate", "rules"}
  Faults = FALSE
PROPERTIES AllAnswered
CHECK_DEADLOCK FALSE
