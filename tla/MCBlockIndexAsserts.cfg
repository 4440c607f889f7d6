SPECIFICATION Spec
CONSTANTS
    Blocks <- Forked
    Genesis = "g"
    Parent <- ForkedParent
    Work <- ForkedWork
    Address <- ForkedAddress
    Scenarios <- Three
    Threads = {t1, t2}
    MIN_BLOCKS_TO_KEEP = 1
    MaxSequence = 7
    NULL = NULL
INVARIANT CheckBlockIndexAsserts
CHECK_DEADLOCK FALSE
