SPECIFICATION Spec
CONSTANTS
    design = design
    coding = coding
    acceptor = acceptor
    container = container
    host = host
    Role = {coding, acceptor}
    Design = {}
    Acceptor = acceptor
    Worker = {host, container}
    NoTask = NoTask
    InitPlan <- PlanTwo
    SubtaskPlan <- PlanOne
    GatePlan <- PlanOne
    NeedsApproval = TRUE
    AutoAccept = TRUE
    HasGate = FALSE
    Kinds = {"done", "approved"}
    Flow = {"terminal"}
    Ops = {"approve_plan"}
    SendMayFail = FALSE
    AgentMayLack = FALSE
    Concurrent = TRUE
    MayCrash = FALSE
    PushLimit = 3
    RetryLimit = 2
    MaxSteps = 2
PROPERTIES NoRevival
