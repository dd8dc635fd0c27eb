CONSTANTS
    c1 = c1
    c2 = c2
    Commitment <- MCCommitment
    MaxSize = 8
SPECIFICATION Spec
INVARIANTS LevelsHoldSubtrees RootsMatchReference EveryReceiptVerifies EveryPinnedHeadVerifies RewritesAreRejected
PROPERTY ReceiptsNeverChange
