--------------------------- MODULE MCStoresProofs ---------------------------
(***************************************************************************)
(* The small components keep out of each other's way: what is proved of    *)
(* each alone holds of the composition TLC runs, for any constants.        *)
(***************************************************************************)
EXTENDS MCStores, StoreProofs, QueueProofs

(* The start of the composition is a start of every component.              *)
LEMMA StoresStart ==
    ASSUME StoresInit
    PROVE  /\ LockInit /\ Init /\ QueueInit /\ StoreInit /\ A2aInit
           /\ IntakeInit /\ TaskLockInit /\ SagaInit /\ GroupInit
  BY DEF StoresInit

(* A step is a step of the chosen component; the others stand still.        *)
LEMMA StoresStep ==
    ASSUME [StoresNext]_storesVars
    PROVE  /\ [LockNext]_lockVars /\ [Next]_vars /\ [QueueNext]_queueVars
           /\ [StoreNext]_storeVars /\ [A2aNext]_a2aVars
           /\ [IntakeNext]_intakeVars /\ [TaskLockNext]_taskLockVars
           /\ [SagaNext]_sagaVars /\ [GroupNext]_groupVars
  <1>1. CASE UNCHANGED storesVars
    BY <1>1 DEF storesVars
  <1>2. CASE StoresNext
    <2> USE <1>2 DEF StoresNext, Still
    <2>1. [LockNext]_lockVars
      OBVIOUS
    <2>2. [Next]_vars
      OBVIOUS
    <2>3. [QueueNext]_queueVars
      OBVIOUS
    <2>4. [StoreNext]_storeVars
      OBVIOUS
    <2>5. [A2aNext]_a2aVars
      OBVIOUS
    <2>6. [IntakeNext]_intakeVars
      OBVIOUS
    <2>7. [TaskLockNext]_taskLockVars
      OBVIOUS
    <2>8. [SagaNext]_sagaVars
      OBVIOUS
    <2>9. [GroupNext]_groupVars
      OBVIOUS
    <2> QED
      BY <2>1, <2>2, <2>3, <2>4, <2>5, <2>6, <2>7, <2>8, <2>9
  <1> QED
    BY <1>1, <1>2

(* Every behaviour of the composition is one of each component: the         *)
(* theorems about file_lock, the queue, the stores and the others hold in   *)
(* it.                                                                      *)
THEOREM StoresAreTheirParts ==
    StoresSpec => /\ LockSpec /\ Spec /\ QueueSpec /\ StoreSpec /\ A2aSpec
                  /\ IntakeSpec /\ TaskLockSpec /\ SagaSpec /\ GroupSpec
  BY StoresStart, StoresStep, PTL
     DEF StoresSpec, LockSpec, Spec, QueueSpec, StoreSpec, A2aSpec,
         IntakeSpec, TaskLockSpec, SagaSpec, GroupSpec

(* Every variable of every component keeps its type, whichever moves.       *)
THEOREM StoresTypeCorrect == StoresSpec => []StoresTypeOK
  BY StoresAreTheirParts, LockTypeCorrect, LifecycleTypeOK, QueueTypeCorrect,
     StoreTypeCorrect, A2aTypeCorrect, IntakeTypeCorrect, TaskLockTypeCorrect,
     SagaTypeCorrect, GroupTypeCorrect, PTL
     DEF StoresTypeOK
=============================================================================
