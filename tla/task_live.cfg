SPECIFICATION FairSpec
CONSTANTS
    design = design
    coding = coding
    acceptor = acceptor
    scan = scan
    Role = {design, coding, acceptor}
    Design = {design}
    Acceptor = acceptor
    Worker = {scan}
    NoTask = NoTask
    InitPlan <- PlanDesign
    SubtaskPlan <- PlanOne
    GatePlan <- PlanOne
    NeedsApproval = FALSE
    AutoAccept = TRUE
    HasGate = FALSE
    Kinds = {"done", "approved", "fail", "unverified", "clarify", "decompose"}
    Flow = {"terminal", "blocked", "advance"}
    Ops = {"owner", "cancel", "pause", "deny_final", "deny_missed"}
    SendMayFail = FALSE
    AgentMayLack = FALSE
    Concurrent = FALSE
    MayCrash = FALSE
    PushLimit = 3
    RetryLimit = 2
    MaxSteps = 4
INVARIANTS ResultUsedOnce ExecutingHasNextMove
PROPERTIES LineComesToRest ScansWearOut PlannedRolesServed NoRevival
