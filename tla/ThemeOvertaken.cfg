SPECIFICATION Spec
CONSTANTS
    Proc = {p1}
    Run = {r1, r2}
    Source = Source
    Decision = {"accept_draft", "reject"}
    MaxCalls = 3
    MaxReviews = 3
    MaxRepairs = 0
CHECK_DEADLOCK FALSE
INVARIANTS
    RunsStayValid
