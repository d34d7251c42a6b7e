SPECIFICATION Spec
CONSTANTS
    design = design
    coding = coding
    acceptor = acceptor
    container = container
    host = host
    Role = {coding, acceptor}
    Design = {}
    Acceptor = acceptor
    Worker = {host, container}
    NoTask = NoTask
    InitPlan <- PlanTwo
    SubtaskPlan <- PlanOne
    GatePlan <- PlanOne
    NeedsApproval = FALSE
    AutoAccept = FALSE
    HasGate = FALSE
    Kinds = {"done"}
    Flow = {"terminal"}
    Ops = {"cancel", "rollback", "continue", "budget"}
    SendMayFail = FALSE
    AgentMayLack = FALSE
    Concurrent = TRUE
    MayCrash = FALSE
    PushLimit = 3
    RetryLimit = 2
    MaxSteps = 2
INVARIANTS OneLiveStep ExecutingHasNextMove
SYMMETRY ScansAlike
