SPECIFICATION SoundSpec
CONSTANTS
    Names <- GapNames
    Programs <- ReassignedReturn
    Params <- GlobalParams
    ReturnType = "shr"
    MaxPasses = 8
INVARIANT NoEscape
CHECK_DEADLOCK FALSE
