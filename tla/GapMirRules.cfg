SPECIFICATION Spec
CONSTANTS
    Programs <- ChainedNumber
    Closures = {"f"}
    Backends = {"self-opt"}
    Inputs = {0, 1, 2}
    MaxLog = 5
INVARIANT KeepsMirRules
CHECK_DEADLOCK FALSE
