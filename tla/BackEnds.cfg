SPECIFICATION Spec
CONSTANTS
    Programs <- AllPrograms
    Closures = {"f"}
    Backends = {"llvm", "self", "self-opt"}
    Inputs = {0, 1, 2}
    MaxLog = 5
INVARIANTS SameEffects WellFormed StackBounded
PROPERTY CodeFinishes
CHECK_DEADLOCK FALSE
