SPECIFICATION Spec
CONSTANTS
    Proc = {p1, p2}
    Free = Free
    MaxCalls = 3
    Retain = 2
    RetainAudits = 2
    CommitAckLost = FALSE
    RaiseAfterSwitch = FALSE
    ProbeFails = FALSE
CHECK_DEADLOCK FALSE
SYMMETRY Symmetry
INVARIANTS
    TypeOK
    SinglePublisher
    RegisteredIsVisible
    PreviousReleaseKept
PROPERTIES
    PublishesOnce
    AnswersAreRegistered
    FailedCallsLeaveRelease
    ReleaseNeverLost
    FailureIsAudited
