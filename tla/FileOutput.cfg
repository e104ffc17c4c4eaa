SPECIFICATION FairSpec
CONSTANTS
  j1 = j1 j2 = j2
  Job = {j1, j2}
  Starts <- MCStarts
  Content <- MCContent
  Reduce <- MCReduce
  Inode <- MCInode
  MaxEdits = 2
  MaxClock = 1
INVARIANTS
  NeverTorn
  OneWinner
PROPERTIES
  ReplacesWhatItReduced
  KeepsPermissions
  JobEnds
CHECK_DEADLOCK FALSE
