SPECIFICATION Spec
CONSTANTS
    design = design
    coding = coding
    acceptor = acceptor
    scan = scan
    Role = {coding, acceptor}
    Design = {}
    Acceptor = acceptor
    Worker = {scan}
    NoTask = NoTask
    InitPlan <- PlanTwo
    SubtaskPlan <- PlanOne
    GatePlan <- PlanOne
    NeedsApproval = TRUE
    AutoAccept = FALSE
    HasGate = FALSE
    Kinds = {"done"}
    Flow = {"terminal"}
    Ops = {"approve_plan"}
    SendMayFail = TRUE
    AgentMayLack = FALSE
    Concurrent = FALSE
    MayCrash = FALSE
    PushLimit = 3
    RetryLimit = 2
    MaxSteps = 3
PROPERTIES PlannedRolesServed
