SPECIFICATION FairSpec
CONSTANTS
  Definition <- MCDefinition
  Expansion <- MCExpansion
  Unit <- MCUnit
  Group <- MCGroup
  Contributor <- MCContributor
  FactSets <- MCFactSets
  Inputs <- MCInputs
INVARIANTS
  IndexesAgree
  DemandsExact
CHECK_DEADLOCK FALSE
