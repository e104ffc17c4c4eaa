SPECIFICATION ReducerSpec
CONSTANTS
  MaxErrors = 2
  Programs <- MCPrograms
  Options <- MCOptions
  Projects <- MCProjects
  Plans <- MCPlans
INVARIANTS
  WrittenIsVerified
  DenialIsNotAnError
  JoinedInOneText
  RejectsCompiledCodeOnly
  UpdateIsSelected
PROPERTIES
  ReductionEnds
CHECK_DEADLOCK FALSE
