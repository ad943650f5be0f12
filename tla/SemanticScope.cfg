SPECIFICATION Spec
CONSTANTS
    x = x
    y = y
    f = f
    blank = blank
    Names <- MCNames
    Blank = blank
    Globals <- MCGlobals
    Functions <- MCFunctions
    Params <- MCParams
    Positions <- MCPositions
    MaxDepth = 2
    Limit = 1
    EmitWarnings = TRUE
CONSTRAINT Bounded
INVARIANTS TypeOK DepthsInOrder OneSlotEach
PROPERTY ImplementsBlocks
