SPECIFICATION SoundSpec
CONSTANTS
    Names <- MCNames
    Programs <- MCPrograms
    Params <- MCParams
    ReturnType = "shr"
    MaxPasses = 8
INVARIANTS TypeOK NoStaleReference Exclusive NoEscape Accounting AliasXorMutable
CHECK_DEADLOCK FALSE
