SPECIFICATION Spec
CONSTANTS
    dog1 = dog1
    dog2 = dog2
    script = script
    Proc = {dog1, dog2}
    Script = {}
    N = 2
    Budget = 2
    Ask = 2
    MaxAttempts = 2
    MaxRuns = 2
SYMMETRY Symmetry
CHECK_DEADLOCK FALSE
INVARIANTS
    TypeOK
    OneRun
    DerivedMatchesRaw
    BudgetHolds
PROPERTIES
    WorkedOnce
