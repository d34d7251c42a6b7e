--------------------------- MODULE TaskRefinement ---------------------------
(* TaskFsm implements TaskLifecycle: the chain is read as the roles served, *)
(* the fsm state as the phase.                                              *)
EXTENDS MCTaskFsm

Phase(state) ==
    CASE state = "created"   -> "proposed"
      [] state = "executing" -> "working"
      [] state = "blocked"   -> "waiting"
      [] state = "accepting" -> "judging"
      [] state = "succeeded" -> "done"
      [] OTHER               -> "dropped"

Lifecycle == INSTANCE TaskLifecycle WITH
    Plan <- InitPlan, MaxServed <- MaxSteps,
    phase <- Phase(task.state),
    served <- [i \in DOMAIN task.chain |-> task.chain[i].role],
    todo <- task.plan,
    by <- actor

(* Where people approve, deny and cancel but neither pause, skip nor roll   *)
(* back by hand, every step of the trigger (pipeline/trigger.py) and of the *)
(* API is a step of the lifecycle.                                          *)
KeepsLifecycle == Lifecycle!Spec
=============================================================================
