SPECIFICATION SecondSpec
CONSTANTS
    Crates <- MCCrates
    Demanded <- MCDemanded
INVARIANTS
    RefinementIsValid
    NeverFails
    IndexIsCurrent
    MeaningKept
    TokensReturn
    OnlyUnretainedGoes
    IdentitiesSurvive
    ReferencesSurvive
CHECK_DEADLOCK FALSE
