SPECIFICATION SoundSpec
CONSTANTS
    Names <- GapNames
    Programs <- UnseenMoves
    Params <- NoParams
    ReturnType = "own"
    MaxPasses = 8
INVARIANT NoUseAfterMove
CHECK_DEADLOCK FALSE
