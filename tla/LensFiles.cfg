\* Every sidecar: each odd lens in a turn of its own, and three calls of two
\* turns that get in each other's way, fail and are cut off.
SPECIFICATION Spec
CONSTANTS
  MaxId = 2
  MaxName = 2
  MaxIcon = 2
  MaxHtml = 3
  Kinds = {"rust", "go", "python"}
  Scenarios <- MCScenarios
  MayFail = TRUE
INVARIANTS
  TypeOK
  WrittenIsRendered
  DiskSettles
CHECK_DEADLOCK FALSE
