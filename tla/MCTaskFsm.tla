----------------------------- MODULE MCTaskFsm ------------------------------
(* Instances of TaskFsm for TLC: the plans, which a cfg cannot write.       *)
EXTENDS TaskFsm, TLC

CONSTANTS design, coding, acceptor

PlanOne == <<coding>>
PlanTwo == <<coding, acceptor>>
PlanThree == <<coding, coding, acceptor>>
PlanDesign == <<design, coding>>

(* Scans differ in name only: used in runs that check safety alone.        *)
ScansAlike == Permutations(Worker)
=============================================================================
