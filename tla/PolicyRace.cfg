SPECIFICATION Spec
CONSTANTS
  Client = {c1, c2}
  NoClient = NoClient
  Policy = {p1, p2}
  Kinds = {"delete", "rename", "activate"}
  Faults = FALSE
PROPERTIES ActiveStays
CHECK_DEADLOCK FALSE
