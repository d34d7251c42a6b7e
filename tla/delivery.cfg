SPECIFICATION Spec
CONSTANTS
    N = 2
    Instances <- Mixed
    MaxPushes = 1
INVARIANTS TypeOK ClosedTaskAnswered WaitingIsUncounted
PROPERTIES FirstTaskPushed WithdrawnOrderClosed
CHECK_DEADLOCK FALSE
