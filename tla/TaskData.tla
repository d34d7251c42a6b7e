------------------------------ MODULE TaskData ------------------------------
(***************************************************************************)
(* The task record of the bus and the functions the orchestration code     *)
(* computes on it: normalisation (ensure_fsm), the active step, appending, *)
(* completing, redoing and reverting steps.  A task is one file,           *)
(* tasks/<id>.json; its chain is the list of steps given out so far, its   *)
(* plan (chain[0].planned_role_types) the roles still to be given a step.  *)
(*                                                                         *)
(* Tasks without stations, parallel groups or dual coding: their chain is  *)
(* never empty and one step is given out at a time.                        *)
(***************************************************************************)
EXTENDS Integers, Sequences, FiniteSets

CONSTANTS
    Role,          \* role types
    Design,        \* the role types whose result may decompose the task
    Acceptor       \* the role type that accepts an S-tier task by itself

ASSUME RoleAssumption == Design \subseteq Role /\ Acceptor \in Role

State == {"created", "executing", "accepting", "blocked", "paused",
          "succeeded", "cancelled"}

(* fsm.substate: what the task waits for.                                   *)
Wait == {"none", "await_plan_approval", "await_owner_confirmation",
         "await_gate", "gate_denied"}

Status == {"pending", "running", "blocked", "paused", "success", "failed",
           "cancelled"}

LiveFs == {"queued", "dispatched", "awaiting_result"}

TerminalFs == {"completed", "failed", "skipped", "superseded"}

(* A step: its id <<step, attempt>>, its fsm_state fs and the status st the *)
(* older code keeps beside it, and whether its result was consumed.         *)
Step == [id : (Nat \ {0}) \X (Nat \ {0}), role : Role,
         fs : LiveFs \cup TerminalFs,
         st : {"running", "completed", "done", "failed", "skipped"},
         consumed : BOOLEAN]

(* gate: the workflow gate's instance; budgetPaused: pause_reason is the    *)
(* budget's; pushes, retries: the automation counters.                      *)
Task == [state : State, wait : Wait, status : Status, chain : Seq(Step),
         plan : Seq(Role), active : (Nat \ {0}) \X (Nat \ {0}),
         gate : {"none", "pending", "approved", "denied"},
         budgetPaused : BOOLEAN, pushes : Nat, retries : Nat]

-----------------------------------------------------------------------------

LastOf(s) == s[Len(s)]

Largest(S) == CHOOSE i \in S : \A j \in S : j <= i

Smallest(S) == CHOOSE i \in S : \A j \in S : i <= j

(* get_active_step: the step fsm.active_step_id names while it is not in a  *)
(* terminal state, else the last one that is not, else the last one.        *)
ActiveIdx(t) ==
    LET live == {i \in DOMAIN t.chain : t.chain[i].fs \notin TerminalFs}
        named == {i \in DOMAIN t.chain : t.chain[i].id = t.active}
    IN  IF named # {} /\ Smallest(named) \in live THEN Smallest(named)
        ELSE IF live # {} THEN Largest(live)
        ELSE Len(t.chain)

(* A terminal status wins over fsm_state.                                   *)
EnsuredStep(s) ==
    IF s.st = "running" THEN s
    ELSE [s EXCEPT !.fs = IF s.st = "done" THEN "completed" ELSE s.st]

(* ensure_fsm.  SubSeq changes nothing: it has TLC build the sequence, which *)
(* it would otherwise re-evaluate lazily.                                   *)
Ensured(t) ==
    LET steps == [i \in DOMAIN t.chain |-> EnsuredStep(t.chain[i])]
        u == [t EXCEPT !.chain = SubSeq(steps, 1, Len(steps))]
    IN  [u EXCEPT !.active = u.chain[ActiveIdx(u)].id]

(* is_task_executable.                                                      *)
Executable(t) ==
    /\ t.status \notin {"cancelled", "success", "failed"}
    /\ \/ t.state = "executing"
       \/ t.state = "created" /\ t.status = "running"

StepDone(s) == s.st \in {"completed", "done"} \/ s.fs = "completed"

(* The trigger's all_done: a step that failed never counts as done.         *)
AllDone(t) ==
    \A i \in DOMAIN t.chain :
        \/ t.chain[i].st \in {"completed", "done", "skipped"}
        \/ t.chain[i].fs \in {"completed", "skipped", "superseded"}

-----------------------------------------------------------------------------

(* create_next_step: the step that follows the chain.                       *)
FreshStep(t, r) ==
    [id |-> <<Len(t.chain) + 1, 1>>, role |-> r, fs |-> "queued",
     st |-> "running", consumed |-> FALSE]

(* Mutant: the attempt of the redone step is not counted up.                *)
MutantRedoStep(t, from, r) ==
    [id |-> <<from[1], LastOf(t.chain).id[2]>>, role |-> r,
     fs |-> "queued", st |-> "running", consumed |-> FALSE]

(* create_next_step with rollback_from: the number of the step given up,    *)
(* and one attempt more than the LAST step of the chain has.                *)
RedoStep(t, from, r) ==
    [id |-> <<from[1], LastOf(t.chain).id[2] + 1>>, role |-> r,
     fs |-> "queued", st |-> "running", consumed |-> FALSE]

(* Append s and run on it.                                                  *)
Advanced(t, s) ==
    [t EXCEPT !.chain = Append(@, s), !.active = s.id,
              !.state = "executing", !.status = "running"]

(* complete_step.                                                           *)
Completed(t, i) ==
    [t EXCEPT !.chain[i].fs = "completed", !.chain[i].st = "completed",
              !.chain[i].consumed = TRUE]

(* mark_step_dispatched.                                                    *)
Dispatched(t, i) ==
    [t EXCEPT !.chain[i].fs = "dispatched", !.chain[i].st = "running"]

(* revert_failed_advance: the new last step is dropped and step i is open   *)
(* again.  The plan it was taken from is not touched.                       *)
Reverted(t, i) ==
    LET u == [t EXCEPT !.chain = [j \in 1..(Len(@) - 1) |->
                 IF j = i THEN [@[j] EXCEPT !.fs = "awaiting_result",
                                            !.st = "running",
                                            !.consumed = FALSE]
                          ELSE @[j]]]
    IN  [Ensured(u) EXCEPT !.state = "executing", !.status = "running",
                           !.active = u.chain[i].id]

(* Mutant: the step given up is not failed.                                 *)
MutantRolledBack(t, target) ==
    Advanced(t, RedoStep(t, t.chain[ActiveIdx(t)].id, t.chain[target].role))

(* apply_rollback to the step at target: the active step fails, the ones    *)
(* behind it are superseded, and a redo for the target's role is appended.  *)
RolledBack(t, target) ==
    LET i == ActiveIdx(t)
        failed == [t EXCEPT !.chain = [j \in DOMAIN @ |->
                     IF j = i THEN [@[j] EXCEPT !.fs = "failed",
                                                !.st = "failed"]
                     ELSE IF j > i THEN [@[j] EXCEPT !.fs = "superseded",
                                                     !.st = "done"]
                     ELSE @[j]]]
    IN  Advanced(failed, RedoStep(t, t.chain[i].id, t.chain[target].role))

(* init_chain_from_planned, as the plan <<first role>> \o rest.             *)
InitialChain(p) ==
    << [id |-> <<1, 1>>, role |-> Head(p), fs |-> "queued",
        st |-> "running", consumed |-> FALSE] >>
=============================================================================
