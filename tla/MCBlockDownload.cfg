SPECIFICATION FairSpec
CONSTANTS
    Blocks <- Forked
    Genesis = "g"
    Parent <- ForkedParent
    Invalid <- ForkedInvalid
    Peers = {"p1", "p2"}
    Preferred = {"p1"}
    Serves <- ForkedServes
    Prompt = {"p1"}
    Limited = {"p2"}
    MAX_BLOCKS_IN_TRANSIT_PER_PEER = 2
    BLOCK_DOWNLOAD_WINDOW = 1
    MIN_BLOCKS_TO_KEEP = 2
    None = "none"
INVARIANTS
    BookkeepingIsExact LastCommonIsComplete StallerOwesABlock
PROPERTIES
    SyncCompletes
CHECK_DEADLOCK FALSE
