SPECIFICATION Spec
CONSTANTS
    evening = evening
    morning = morning
    operator = operator
    Cron = {evening, morning}
    LoopCron = {evening}
    Operator = {operator}
    MaxRuns = 4
    MaxData = 3
    MaxCode = 2
CHECK_DEADLOCK FALSE
INVARIANTS
    TypeOK
    OneCommand
PROPERTIES
    SuccessIsExposed
    FinaliserShipsValidated
