SPECIFICATION FairSpec
CONSTANTS
    score = score
    watch = watch
    ops = ops
    publish = publish
    review = review
    Check = {score, watch, ops, publish, review}
    Order <- MCOrder
    Dependents <- MCDependents
    Stages <- MCStages
    Publication = {publish, review}
    Repairable = {score, watch, ops, publish, review}
    MaxCycles = 2
    PlanFailed = plan_failed
CHECK_DEADLOCK FALSE
INVARIANTS
    TypeOK
    PublishesOnce
    ReadyIsRebuilt
PROPERTIES
    Progresses
    RepairEnds
