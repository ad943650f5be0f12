SPECIFICATION ResolutionSpec
CONSTANTS
    x = x
    y = y
    f = f
    blank = blank
    Names <- MCNames
    Blank = blank
    Globals <- MCGlobals
    Functions <- MCFunctions
    FunctionList <- MCFunctionList
    Params <- MCParams
    Positions = {1}
    MaxDepth = 3
    Limit = 1
    EmitWarnings = FALSE
    MaxVars = 6
    NoDecl = NoDecl
CONSTRAINT Bounded
INVARIANTS LoadsWhatWasTyped BoundAlike
