------------------------------ MODULE MCStores ------------------------------
(***************************************************************************)
(* The small components for TLC, in one run: each keeps its own state and  *)
(* none of them calls another in the part that is modelled, so a behaviour *)
(* is one component's, chosen at the start, while the others stand still.  *)
(***************************************************************************)
EXTENDS FileLock, TaskLifecycle, HumanQueue, JsonStore, A2aDispatch, Intake, TaskLock, PlaneSaga,
        CollabJoin, TLC

CONSTANTS coding, acceptor, p1, p2, j1, j2

PlanThree == <<coding, coding, acceptor>>
StepNames == p1 :> "coder S1" @@ p2 :> "tester S2"

VARIABLE part   \* the component whose behaviour this is

Parts == {"lock", "line", "queue", "store", "a2a", "intake", "tasklock", "saga", "group"}

storesVars == <<part, lockVars, vars, queueVars, storeVars, a2aVars, intakeVars, taskLockVars,
                sagaVars, groupVars>>

StoresInit ==
    /\ part \in Parts
    /\ LockInit /\ Init /\ QueueInit /\ StoreInit /\ A2aInit /\ IntakeInit /\ TaskLockInit /\ SagaInit
    /\ GroupInit
    /\ part # "line" => phase = "proposed"
    /\ part # "group" => gate = "auto" /\ ~left /\ \A m \in Member : first[m] = m

(* The tasks of the queue are alike, so the first to be asked about may as  *)
(* well be j1.                                                              *)
FirstAsks == \A i \in Item : i = 1 => about'[i] # j2

Still(p, its) == IF part = p THEN TRUE ELSE UNCHANGED its

StoresNext ==
    /\ UNCHANGED part
    /\ \/ part = "lock" /\ LockNext
       \/ part = "line" /\ Next
       \/ part = "queue" /\ QueueNext /\ FirstAsks
       \/ part = "store" /\ StoreNext
       \/ part = "a2a" /\ A2aNext
       \/ part = "intake" /\ IntakeNext
       \/ part = "tasklock" /\ TaskLockNext
       \/ part = "saga" /\ SagaNext
       \/ part = "group" /\ GroupNext
    /\ Still("lock", lockVars) /\ Still("line", vars) /\ Still("queue", queueVars)
    /\ Still("store", storeVars) /\ Still("a2a", a2aVars) /\ Still("intake", intakeVars)
    /\ Still("tasklock", taskLockVars) /\ Still("saga", sagaVars) /\ Still("group", groupVars)

StoresSpec ==
    /\ StoresInit /\ [][StoresNext]_storesVars
    /\ \A p \in Proc, f \in Path : WF_lockVars(part = "lock" /\ LockStep(p, f))
    /\ WF_a2aVars(part = "a2a" /\ Dispatching)
    /\ WF_groupVars(part = "group" /\ Trigger)
    /\ WF_groupVars(part = "group" /\ \E s \in Step : Report(s))

(* Every variable of every component has its type.                          *)
StoresTypeOK ==
    /\ LockTypeOK /\ TypeOK /\ GroupTypeOK
    /\ QueueTypeOK /\ StoreTypeOK /\ A2aTypeOK /\ IntakeTypeOK /\ TaskLockTypeOK /\ SagaTypeOK
=============================================================================
