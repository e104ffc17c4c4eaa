SPECIFICATION FairSpec
CONSTANTS
  Node <- MCNode
  Unit <- MCUnit
  Systems <- MCSystems
INVARIANTS
  ResultComplete
  SelectsAtFixpoint
  NothingSuperfluous
PROPERTY
  Terminates
CHECK_DEADLOCK FALSE
