SPECIFICATION Spec
CONSTANTS
    design = design
    coding = coding
    acceptor = acceptor
    scan = scan
    Role = {coding, acceptor}
    Design = {}
    Acceptor = acceptor
    Worker = {scan}
    NoTask = NoTask
    InitPlan <- PlanOne
    SubtaskPlan <- PlanOne
    GatePlan <- PlanOne
    NeedsApproval = FALSE
    AutoAccept = FALSE
    HasGate = TRUE
    Kinds = {"done"}
    Flow = {"terminal"}
    Ops = {"rollback", "skip", "gate"}
    SendMayFail = FALSE
    AgentMayLack = FALSE
    Concurrent = FALSE
    MayCrash = FALSE
    PushLimit = 2
    RetryLimit = 2
    MaxSteps = 4
INVARIANTS UniqueStepIds
CHECK_DEADLOCK FALSE
