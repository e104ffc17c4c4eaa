SPECIFICATION Spec
CONSTANTS
  Launcher = {l1, l2}
  Versions = 2
  Base <- MCBase
  Patched <- MCPatched
  UpdateAnytime = FALSE
  MaxRuns = 4
INVARIANT
  UpdatesItself
CHECK_DEADLOCK FALSE
