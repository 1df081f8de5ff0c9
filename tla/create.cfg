SPECIFICATION FairCreationSpec
CONSTANTS
    f1 = f1
    f2 = f2
    Blueprint <- MCBlueprint
    Output = Output
    Extra = Extra
    Kinds = {"blank", "python", "npm"}
    MaxAttempts = 2
    MaxPerson = 2
    MaxCrashes = 1
    Undisturbed = TRUE
INVARIANTS
    NothingForeignLost OutcomeIsTrue
PROPERTIES
    RunEnds
CHECK_DEADLOCK FALSE
