SPECIFICATION Spec
CONSTANTS
  Client = {c1, c2, c3}
  NoClient = NoClient
  Policy = {p1, p2}
  Kinds = {"create", "default", "delete", "activate", "rename", "rules", "clear", "both"}
  Faults = TRUE
SYMMETRY Symmetry
INVARIANTS AtMostOneActive NoOrphanRules
PROPERTIES ActivationNeverEmpties NamedUpdatesReplace
CHECK_DEADLOCK FALSE
