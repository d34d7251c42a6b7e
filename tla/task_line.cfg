SPECIFICATION Spec
CONSTANTS
    design = design
    coding = coding
    acceptor = acceptor
    scan = scan
    Role = {coding, acceptor}
    Design = {}
    Acceptor = acceptor
    Worker = {scan}
    NoTask = NoTask
    InitPlan <- PlanThree
    SubtaskPlan <- PlanOne
    GatePlan <- PlanOne
    NeedsApproval = TRUE
    AutoAccept = TRUE
    HasGate = FALSE
    Kinds = {"approved", "fail", "unverified"}
    Flow = {"terminal", "blocked", "advance"}
    Ops = {"approve_plan", "deny_plan", "accept"}
    SendMayFail = TRUE
    AgentMayLack = TRUE
    Concurrent = FALSE
    MayCrash = TRUE
    PushLimit = 2
    RetryLimit = 2
    MaxSteps = 3
INVARIANTS TypeOK SucceededIsFinished WaitHasItem AcceptingIsFinished NoWorkBeforeApproval
