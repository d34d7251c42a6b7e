SPECIFICATION StoresSpec
CONSTANTS
    Proc = {t1, t2}
    Path = {a, b}
    Inode = {i1, i2, i3, i4, i5}
    Global = global
    None = none
    UnlinkOpen = {a}
    MaxDepth = 2
    coding = coding
    acceptor = acceptor
    Role = {coding, acceptor}
    Plan <- PlanThree
    MaxServed = 6
    j1 = j1
    j2 = j2
    Job = {j1, j2}
    Item = {1, 2}
    Reviewer = {r1}
    Scan = {s1}
    Canceller = {c1}
    NoDoc = noDoc
    User = {u1, u2}
    Ttl = 2
    MaxUpdate = 2
    MaxTime = 2
    MaxRetries = 2
    MaxPolls = 3
    Request = {q1, q2}
    Spawnable = {"solution"}
    Gate = {"solution", "contact"}
    NoOrder = noOrder
    p1 = p1
    p2 = p2
    Pusher = {p1, p2}
    Recoverer = {v1, v2}
    StepOf <- StepNames
    NoHolder = "nobody"
    Framework = {f1, f2}
    NoConfig = noConfig
    Width = 3
INVARIANTS NoOrphanLock PlanKept StoresTypeOK AskedOnce TornNeedsOverlap StaleIsShort OneChannel SomethingLeft LinkedExists AloneIsWhole LockHeld RunsAsConfigured JoinIsLast JoinComesFirst
PROPERTIES NoDeadlock KeepsMutex QueueKept LostOnlyInATick DispatchEnds GroupIsRead
CHECK_DEADLOCK FALSE
