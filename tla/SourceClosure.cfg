SPECIFICATION SourceSpec
CONSTANTS
  Unit <- MCUnit
  NoUnit <- MCNoUnit
  Constraints <- MCConstraints
INVARIANTS
  ClosedWhenIdle
  LeastRetention
PROPERTY
  ImplementsLeastClosure
CHECK_DEADLOCK FALSE
