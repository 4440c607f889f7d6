SPECIFICATION FairRSpec
CONSTANTS
    Blocks <- Fork
    Genesis = "g"
    Parent <- ForkParent
    Work <- ForkWork
    Address <- ForkAddress
    Scenarios <- Three
    Threads = {t1, t2}
    MIN_BLOCKS_TO_KEEP = 1
    MaxSequence = 7
    NULL = NULL
INVARIANTS
    DiskTipIsIndexed IndexIsRebuilt OnTheBestChain CandidatesLeftAtStart
PROPERTIES
    Settles
CHECK_DEADLOCK FALSE
