SPECIFICATION FairSpec
CONSTANTS
    Ops = {o1, o2}
    Workers = {w1, w2}
    Shutdowns = {"close", "finish"}
INVARIANTS
    AnswersAreTrue ShutdownSettlesEverything
PROPERTY
    ShutdownEnds
CHECK_DEADLOCK FALSE
