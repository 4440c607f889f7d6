SPECIFICATION RSpec
CONSTANTS
    Blocks <- Fork
    Genesis = "g"
    Parent <- ForkParent
    Work <- ForkWork
    Address <- ForkAddress
    Scenarios <- Invalidated
    Threads = {t1, t2}
    MIN_BLOCKS_TO_KEEP = 1
    MaxSequence = 7
    NULL = NULL
INVARIANTS
    CandidatesAlwaysLeftAtStart
