SPECIFICATION Spec
CONSTANTS
    dog1 = dog1
    dog2 = dog2
    script = script
    Proc = {script}
    Script = {script}
    N = 3
    Budget = 2
    Ask = 2
    MaxAttempts = 1
    MaxRuns = 2
CHECK_DEADLOCK FALSE
INVARIANTS
    BudgetKept
