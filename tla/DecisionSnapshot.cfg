SPECIFICATION Spec
CONSTANTS
  Definition <- MCDefinition
  Expansion <- MCExpansion
  Other <- MCOther
  Unit <- MCUnit
  SetCode <- MCSetCode
  Plans <- MCPlans
  Candidates <- MCCandidates
INVARIANTS
  AcceptedIsSame
  SameIsAccepted
CHECK_DEADLOCK FALSE
