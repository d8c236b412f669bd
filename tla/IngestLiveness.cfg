SPECIFICATION FairSpec
CONSTANTS
    N = 2
    Loop = {l1, l2}
    Slot = {s1, s2}
    Quota = 1
    MaxFaults = 2
    SlowJobs = FALSE
    StrayLoop = FALSE
    DogDiesInRestart = FALSE
CHECK_DEADLOCK FALSE
PROPERTIES
    WatchdogFinishes
