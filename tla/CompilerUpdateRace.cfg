SPECIFICATION Spec
CONSTANTS
  Launcher = {l1, l2}
  Versions = 2
  Base <- MCBase
  Patched <- MCPatched
  UpdateAnytime = TRUE
  MaxRuns = 4
INVARIANT
  PreparedForUse
CHECK_DEADLOCK FALSE
