SPECIFICATION FairSpec
CONSTANTS
    Threads = {t1, t2}
    Tasks <- MCTasks
    Scenarios <- Two
    Delays = {0, 1, 3}
    MaxTime = 4
INVARIANTS NeverEarly
PROPERTIES EveryTaskRuns StopEnds
