SPECIFICATION ResolutionSpec
CONSTANTS
    x = x
    y = y
    f = f
    blank = blank
    Names <- HidingNames
    Blank = blank
    Globals <- NoNames
    Functions = {}
    FunctionList <- NoNames
    Params <- HidingParams
    Positions = {1}
    MaxDepth = 3
    Limit = 1
    EmitWarnings = FALSE
    MaxVars = 6
    NoDecl = NoDecl
CONSTRAINT HidingBounded
INVARIANT HidingEndsWithTheBlock
