SPECIFICATION Spec
CONSTANTS
    N = 2
    Loop = {l1, l2}
    Slot = {s1, s2}
    Quota = 2
    MaxFaults = 2
    SlowJobs = FALSE
    StrayLoop = TRUE
    DogDiesInRestart = TRUE
CHECK_DEADLOCK FALSE
SYMMETRY Symmetry
INVARIANTS
    TypeOK
    ClaimsHold
    CompletionIsTried
PROPERTIES
    WorkedOnce
