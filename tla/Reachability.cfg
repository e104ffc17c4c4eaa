SPECIFICATION Spec
CONSTANTS
  Unit <- MCUnit
  Definition <- MCDefinition
  Expansion <- MCExpansion
  Other = {}
  Site <- MCSite
  NonSource = "ext"
  NoUnit = "none"
  Graphs <- MCGraphs
  NodeDeltas <- MCNodeDeltas
  UnitDeltas <- MCUnitDeltas
INVARIANTS
  SurvivalAgrees
  LaneExact
CHECK_DEADLOCK FALSE
