SPECIFICATION Spec
CONSTANTS
    design = design
    coding = coding
    acceptor = acceptor
    scan = scan
    Role = {coding, acceptor}
    Design = {}
    Acceptor = acceptor
    Worker = {scan}
    NoTask = NoTask
    InitPlan <- PlanTwo
    SubtaskPlan <- PlanOne
    GatePlan <- PlanOne
    NeedsApproval = TRUE
    AutoAccept = TRUE
    HasGate = FALSE
    Kinds = {"done", "approved", "fail", "unverified"}
    Flow = {"terminal", "advance"}
    Ops = {"approve_plan", "deny_plan", "accept", "deny", "queue_deny", "cancel", "queue_refused"}
    SendMayFail = FALSE
    AgentMayLack = FALSE
    Concurrent = FALSE
    MayCrash = FALSE
    PushLimit = 3
    RetryLimit = 2
    MaxSteps = 4
PROPERTIES KeepsLifecycle
