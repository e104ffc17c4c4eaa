SPECIFICATION FairSpec
CONSTANTS
  Launcher = {l1, l2}
  Versions = 2
  Base <- MCBase
  Patched <- MCPatched
  UpdateAnytime = FALSE
  MaxRuns = 4
INVARIANTS
  PreparedForUse
PROPERTIES
  StopsOverChangesOnly
  KeepsLocalWork
  LauncherEnds
CHECK_DEADLOCK FALSE
