SPECIFICATION SoundSpec
CONSTANTS
    Names <- GapNames
    Programs <- ForgottenBorrows
    Params <- NoParams
    ReturnType = "own"
    MaxPasses = 8
INVARIANT NoStaleReference
CHECK_DEADLOCK FALSE
