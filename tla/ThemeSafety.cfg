SPECIFICATION Spec
CONSTANTS
    Proc = {p1, p2}
    Run = {r1, r2}
    Source = Source
    Decision = {"accept_as_lead", "accept_draft", "accept_reviewed"}
    MaxCalls = 3
    MaxReviews = 2
    MaxRepairs = 1
CHECK_DEADLOCK FALSE
SYMMETRY Symmetry
INVARIANTS
    TypeOK
    ValidUnlessOvertaken
    Recoverable
    Audited
PROPERTIES
    AddsEvidence
