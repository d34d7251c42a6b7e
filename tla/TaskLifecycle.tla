--------------------------- MODULE TaskLifecycle ----------------------------
(***************************************************************************)
(* What the bus promises about one task, without steps, messages, files or *)
(* snapshots: the planned roles are served in the order of the plan, a     *)
(* task that waits for a person waits until a person acts, acceptance is   *)
(* asked of a plan that was served to its end, and an accepted task stays  *)
(* accepted unless a person cancels it.  TaskRefinement shows that TaskFsm *)
(* keeps these promises where people use no override.                      *)
(***************************************************************************)
EXTENDS Naturals, Sequences

CONSTANTS
    Role,      \* role types
    Plan,      \* the roles planned for the task
    MaxServed  \* bound on the roles served; not in the code

ASSUME PlanAssumption == Plan \in Seq(Role) /\ Plan # <<>> /\ MaxServed \in Nat

VARIABLES
    phase,   \* where the task is
    served,  \* the roles that were given a step, in order
    todo,    \* the planned roles that were not
    by       \* who took the last step

vars == <<phase, served, todo, by>>

Phase == {"proposed", "working", "waiting", "judging", "done", "dropped"}

TypeOK ==
    /\ phase \in Phase
    /\ served \in Seq(Role)
    /\ todo \in Seq(Role)
    /\ by \in {"bus", "human", "agent"}

-----------------------------------------------------------------------------

Init ==
    /\ phase \in {"proposed", "working", "waiting"}
    /\ served = <<Head(Plan)>>
    /\ todo = Tail(Plan)
    /\ by = "human"

(* A person approves the plan.                                              *)
Decide ==
    /\ by' = "human"
    /\ phase = "proposed"
    /\ phase' \in {"working", "waiting"}
    /\ UNCHANGED <<served, todo>>

(* Mutant: the role at the end of the plan is served first.                 *)
MutantServe ==
    /\ by' = "bus"
    /\ phase = "working" /\ todo # <<>>
    /\ served' = Append(served, todo[Len(todo)])
    /\ todo' = SubSeq(todo, 1, Len(todo) - 1)
    /\ phase' \in {"working", "waiting"}

(* The bus gives the next planned role its step, and may have to stop there.*)
Serve ==
    /\ by' = "bus"
    /\ phase = "working" /\ todo # <<>>
    /\ served' = Append(served, Head(todo))
    /\ todo' = Tail(todo)
    /\ phase' \in {"working", "waiting"}

(* With the plan served, the role flow or a failure may ask for more.       *)
Extend ==
    /\ by' = "bus"
    /\ phase = "working" /\ todo = <<>>
    /\ Len(served) < MaxServed
    /\ \E r \in Role : served' = Append(served, r)
    /\ phase' \in {"working", "waiting"}
    /\ UNCHANGED todo

(* The bus stops the task: a person has to decide.                          *)
Stop ==
    /\ by' = "bus"
    /\ phase = "working"
    /\ phase' = "waiting"
    /\ UNCHANGED <<served, todo>>

(* The bus ends a line that was served: a person judges it, or it was       *)
(* accepted within the line.                                                *)
Finish ==
    /\ by' = "bus"
    /\ phase = "working" /\ todo = <<>>
    /\ phase' \in {"judging", "done"}
    /\ UNCHANGED <<served, todo>>

(* A person accepts the work ...                                            *)
Accept ==
    /\ by' = "human"
    /\ phase = "judging"
    /\ phase' = "done"
    /\ UNCHANGED <<served, todo>>

(* ... or sends it back for a redo.                                         *)
SendBack ==
    /\ by' = "human"
    /\ phase = "judging"
    /\ phase' = "working"
    /\ Len(served) < MaxServed
    /\ \E r \in Role : served' = Append(served, r)
    /\ UNCHANGED todo

(* A person cancels the task, in any phase.                                 *)
Drop ==
    /\ by' = "human"
    /\ phase' = "dropped"
    /\ UNCHANGED <<served, todo>>

(* An agent works, the bus looks at the task and leaves it, a person closes *)
(* an item of the queue to no effect.                                       *)
Proceed ==
    /\ by' \in {"agent", "bus", "human"}
    /\ UNCHANGED <<phase, served, todo>>

Next ==
    \/ Decide \/ Serve \/ Extend \/ Stop \/ Finish
    \/ Accept \/ SendBack \/ Drop \/ Proceed

Spec == Init /\ [][Next]_vars

-----------------------------------------------------------------------------

(* Whatever retries, redos and denials add to a line, the roles of the plan *)
(* come first and in the plan's order (resolve_transition pops the plan's   *)
(* head; revert, rollback and redo never reorder it).                       *)
PlanKept ==
    /\ Len(served \o todo) >= Len(Plan)
    /\ \A i \in 1..Len(Plan) : (served \o todo)[i] = Plan[i]

(* enter_accepting_or_succeed is reached only once every planned role was   *)
(* served, and stays so through denials and redos.                          *)
JudgedIsServed == phase \in {"judging", "done"} => todo = <<>>
=============================================================================
