SPECIFICATION Spec
CONSTANTS
    MaxBlocks = 3
    MaxFrags = 4
    Interleaving = FALSE
INVARIANT TypeOK
INVARIANT ClientStreamIsLegal
INVARIANT MessageIsIntact
INVARIANT DecoderContract
CHECK_DEADLOCK FALSE
