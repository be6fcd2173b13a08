SPECIFICATION Spec
CONSTANTS
    MaxBlocks = 3
    MaxFrags = 4
    Interleaving = TRUE
INVARIANT NeverSplitsSilently
CHECK_DEADLOCK FALSE
