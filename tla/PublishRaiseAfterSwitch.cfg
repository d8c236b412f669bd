SPECIFICATION Spec
CONSTANTS
    Proc = {p1, p2}
    Free = Free
    MaxCalls = 2
    Retain = 2
    RetainAudits = 2
    CommitAckLost = FALSE
    RaiseAfterSwitch = TRUE
    ProbeFails = FALSE
CHECK_DEADLOCK FALSE
PROPERTIES
    FailedCallsLeaveRelease
