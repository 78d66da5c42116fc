\* Two calls of one turn of the Python sidecar, nothing fails.
SPECIFICATION Spec
CONSTANTS
  MaxId = 2
  MaxName = 2
  MaxIcon = 2
  MaxHtml = 3
  Kinds = {"python"}
  Scenarios <- MCSmoke
  MayFail = FALSE
INVARIANT SmokeMatches
CHECK_DEADLOCK FALSE
