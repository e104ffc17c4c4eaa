SPECIFICATION FairSpec
CONSTANTS
  l1 = l1 r1 = r1 r2 = r2 a1 = a1 a2 = a2 a3 = a3 b1 = b1 b2 = b2
  None = None
  Launcher = {l1}
  Reducer = {r1, r2}
  Child <- MCChild
  Analyzer = {a1, a2, a3}
  Home <- MCHome
  Uses <- MCUses
  Bytes = {b1, b2}
  Pids = 2
  MaxNonce = 2
INVARIANTS
  LeaseIntact
  StaleRemoved
PROPERTIES
  CleanedUp
  PrepareEnds
CHECK_DEADLOCK FALSE
