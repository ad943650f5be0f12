SPECIFICATION FairSoundSpec
CONSTANTS
    Names <- MCNames
    Programs <- MCPrograms
    Params <- MCParams
    ReturnType = "own"
    MaxPasses = 8
INVARIANTS NoUseAfterMove NoDiagnosticLost LoopsSettle
PROPERTY Terminates
CHECK_DEADLOCK FALSE
