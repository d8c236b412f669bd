SPECIFICATION FairSpec
CONSTANTS
    Proc = {p1, p2}
    Free = Free
    MaxCalls = 2
    Retain = 2
    RetainAudits = 2
    CommitAckLost = TRUE
    RaiseAfterSwitch = FALSE
    ProbeFails = TRUE
CHECK_DEADLOCK FALSE
PROPERTIES
    SuccessIsVisible
    FailedCallsLeaveRelease
    ReleaseNeverLost
    WaitsEnd
