SPECIFICATION LoaderSpec
CONSTANTS
    Trees <- MCTrees
    EntryFile <- Entry
    TakenForTwo = {}
    MaxNesting = 4
INVARIANT CyclesAreReported
CHECK_DEADLOCK FALSE
