------------------------------ MODULE TaskFsm -------------------------------
(***************************************************************************)
(* One task driven through its role pipeline: the scan and the immediate   *)
(* trigger (pipeline/trigger.py) consume step results and give out the     *)
(* next step, people decide through the HTTP API or the human queue, and   *)
(* agents answer work orders with result files.                            *)
(*                                                                         *)
(* The trigger works on a snapshot: scan reads every task file first       *)
(* (TaskTracker.list_all), then processes them one by one and writes each  *)
(* snapshot back.  Whatever was written meanwhile is overwritten.  A human *)
(* operation reads and writes its task within one request and is a step.   *)
(***************************************************************************)
EXTENDS TaskData

CONSTANTS
    Worker,          \* processes that run the trigger
    NoTask,          \* no snapshot held
    InitPlan,        \* the role types planned at creation
    SubtaskPlan,     \* the role types a decomposition replaces the plan with
    GatePlan,        \* the role types the gate's approval puts in front
    NeedsApproval,   \* the plan needs a human's approval (tier L)
    AutoAccept,      \* tier S: an approving Acceptor ends the task
    HasGate,         \* the workflow has an after_agent gate
    Kinds,           \* what result files say, a subset of Kind
    Flow,            \* what the role flow says once the plan is empty
    Ops,             \* the human operations people use
    SendMayFail,     \* a work order may not reach the inbox
    AgentMayLack,    \* a planned role may have no free agent
    Concurrent,      \* human operations run while a snapshot is out
    MayCrash,        \* the trigger may die before its last write
    PushLimit,       \* push_limits.per_task
    RetryLimit,      \* retry_limits.verify_fail
    MaxSteps         \* bound on chain and plan; not in the code

(* "unverified": run_step_verify rejects it; "clarify", "decompose": a      *)
(* design result that asks the owner back, or carries subtasks.             *)
Kind == {"done", "approved", "fail", "unverified", "clarify", "decompose"}

ItemType == {"plan_approval", "final_acceptance", "owner_confirmation",
             "workflow_gate", "push_budget"}

Op == {"approve_plan", "deny_plan", "accept", "deny", "deny_final",
       "deny_missed", "queue_deny", "queue_refused", "owner", "gate",
       "rollback", "skip", "cancel", "pause", "continue", "budget"}

ASSUME ParamAssumption ==
    /\ InitPlan \in Seq(Role) /\ InitPlan # <<>>
    /\ SubtaskPlan \in Seq(Role) /\ GatePlan \in Seq(Role)
    /\ Kinds \subseteq Kind /\ Ops \subseteq Op
    /\ Flow \subseteq {"terminal", "blocked", "advance"}
    /\ PushLimit \in Nat \ {0} /\ RetryLimit \in Nat \ {0}
    /\ MaxSteps \in Nat \ {0}
    /\ {NeedsApproval, AutoAccept, HasGate, SendMayFail, AgentMayLack,
        Concurrent, MayCrash} \subseteq BOOLEAN

(* Having no snapshot is not one of the snapshots.                          *)
ASSUME NoTaskAssumption == NoTask \notin [task : Task, acted : BOOLEAN]

VARIABLES
    task,     \* tasks/<id>.json
    orders,   \* the ids of the steps with an unanswered work order
    result,   \* step id -> its result file, for the ids that have one
    pending,  \* types of the task's pending human-queue items
    verdict,  \* the decision in acceptance.json
    snap,     \* worker -> the task it is processing
    actor     \* who took the last step; no part of the program

vars == <<task, orders, result, pending, verdict, snap, actor>>

StepId == (1..MaxSteps) \X (1..MaxSteps)

(* uses counts how often a result file completed a step for good.           *)
Result == [kind : Kind, uses : 0..2]

TypeOK ==
    /\ task \in Task
    /\ Len(task.chain) <= MaxSteps
    /\ task.pushes <= PushLimit
    /\ orders \subseteq StepId
    /\ DOMAIN result \subseteq StepId
    /\ \A id \in DOMAIN result : result[id] \in Result
    /\ pending \subseteq ItemType
    /\ verdict \in {"none", "approved", "denied"}
    /\ snap \in [Worker -> [task : Task, acted : BOOLEAN] \cup {NoTask}]
    /\ actor \in {"bus", "human", "agent"}

-----------------------------------------------------------------------------
(* Giving out a step.                                                       *)

NewTask ==
    [state |-> "created", wait |-> "await_plan_approval",
     status |-> "pending", chain |-> InitialChain(InitPlan),
     plan |-> Tail(InitPlan), active |-> <<1, 1>>, gate |-> "none",
     budgetPaused |-> FALSE, pushes |-> 0, retries |-> 0]

(* start_executing.                                                         *)
Started(t) == [t EXCEPT !.state = "executing", !.wait = "none",
                        !.status = "running"]

(* Mutant: an order that went out is not counted.                           *)
MutantBumped(t) == t

Bumped(t) == [t EXCEPT !.pushes = @ + 1]

(* Mutant: one push too many.                                               *)
MutantOverBudget(t) == t.pushes > PushLimit

OverBudget(t) == t.pushes >= PushLimit

(* push_budget_blocked.                                                     *)
BudgetBlocked(t) == [t EXCEPT !.state = "blocked", !.status = "blocked"]

(* Delivering the work order of step id: ok says whether it got there.      *)
Send(id, ok) ==
    \/ ok /\ orders' = orders \cup {id}
    \/ ~ok /\ SendMayFail /\ orders' = orders

(* dispatch_first_step on t; items is what is left in the human queue.      *)
DispatchFirst(t, items) ==
    \/ /\ OverBudget(t)
       /\ task' = BudgetBlocked(t)
       /\ pending' = items \cup {"push_budget"}
       /\ UNCHANGED orders
    \/ /\ ~OverBudget(t)
       /\ pending' = items
       /\ \E ok \in BOOLEAN :
             /\ Send(t.chain[1].id, ok)
             /\ task' = IF ok
                        THEN [Dispatched(Bumped(t), 1) EXCEPT
                                 !.active = t.chain[1].id]
                        ELSE [t EXCEPT !.state = "blocked",
                                       !.status = "blocked"]

(* handle_task_create: with approval the task waits, without it the first   *)
(* step goes out at once.                                                   *)
Init ==
    /\ result = <<>>
    /\ verdict = "none"
    /\ snap = [w \in Worker |-> NoTask]
    /\ actor = "human"
    /\ IF NeedsApproval
       THEN /\ task = NewTask
            /\ orders = {}
            /\ pending = {"plan_approval"}
       ELSE /\ pending = {}
            /\ \/ /\ task = Dispatched(Bumped(Started(NewTask)), 1)
                  /\ orders = {<<1, 1>>}
               \/ /\ SendMayFail
                  /\ task = [Started(NewTask) EXCEPT !.state = "blocked",
                                                     !.status = "blocked"]
                  /\ orders = {}

-----------------------------------------------------------------------------
(* The trigger, _process_task_pipeline: read the task, normalise and write  *)
(* it, act on the queue, the inboxes and the result files, write it again.  *)

Free == Concurrent \/ \A v \in Worker : snap[v] = NoTask

(* TaskTracker.list_all / get: the worker reads the task file; what it will *)
(* work on is the task normalised.                                          *)
Read(w) ==
    /\ snap[w] = NoTask /\ Free
    /\ snap' = [snap EXCEPT ![w] = [task |-> Ensured(task), acted |-> FALSE]]
    /\ UNCHANGED <<task, orders, result, pending, verdict, actor>>

(* The task w is about to process.                                          *)
Mine(w) == snap[w].task

MyStep(w) == Mine(w).chain[ActiveIdx(Mine(w))]

MayAct(w) == snap[w] # NoTask /\ ~snap[w].acted

(* The task as w first writes it, and as its last json_write will store it. *)
Store(w, first, last) ==
    /\ task' = first
    /\ snap' = [snap EXCEPT ![w] = [task |-> last, acted |-> TRUE]]
    /\ actor' = "bus"

(* The first write is the one on entry.                                     *)
Settle(w, u) == Store(w, Mine(w), u)

(* The handler returns without another write.                               *)
Leave(w) ==
    /\ task' = Mine(w)
    /\ snap' = [snap EXCEPT ![w] = NoTask]
    /\ actor' = "bus"
    /\ UNCHANGED <<orders, result, pending, verdict>>

(* The last json_write of the task.                                         *)
Write(w) ==
    /\ snap[w] # NoTask /\ snap[w].acted
    /\ task' = snap[w].task
    /\ snap' = [snap EXCEPT ![w] = NoTask]
    /\ actor' = "bus"
    /\ UNCHANGED <<orders, result, pending, verdict>>

(* The process dies before that write: its other effects remain.            *)
Crash(w) ==
    /\ MayCrash
    /\ snap[w] # NoTask
    /\ snap' = [snap EXCEPT ![w] = NoTask]
    /\ UNCHANGED <<task, orders, result, pending, verdict, actor>>

(* The chain is over and no result says how: see FinishChain.               *)
ChainOver(t) ==
    /\ StepDone(t.chain[ActiveIdx(t)])
    /\ AllDone(t) /\ t.plan = <<>>
    /\ t.status # "success"
    /\ t.state \notin {"succeeded", "accepting"}

(* A finished active step with planned roles left.                          *)
MayResume(t) ==
    /\ StepDone(t.chain[ActiveIdx(t)])
    /\ t.state = "executing"
    /\ t.plan # <<>>

(* Mutant: neither the step's state nor its consumed mark is looked at.     *)
MutantMaySubmit(t) ==
    Executable(t) /\ t.chain[ActiveIdx(t)].id \in DOMAIN result

(* The active step has a result that was not consumed yet.                  *)
MaySubmit(t) ==
    /\ ~StepDone(t.chain[ActiveIdx(t)])
    /\ Executable(t)
    /\ ~t.chain[ActiveIdx(t)].consumed
    /\ t.chain[ActiveIdx(t)].id \in DOMAIN result

(* Paused, cancelled, not executable, no result: nothing but the write.     *)
Idle(w) ==
    /\ MayAct(w)
    /\ \/ Mine(w).state \in {"paused", "cancelled"}
       \/ ~ChainOver(Mine(w)) /\ ~MayResume(Mine(w)) /\ ~MaySubmit(Mine(w))
    /\ Leave(w)

(* Mutant: the acceptance is not queued.                                    *)
MutantEnterAccepting(w, t) ==
    /\ Settle(w, [t EXCEPT !.state = "accepting", !.wait = "none",
                           !.status = "pending"])
    /\ UNCHANGED <<orders, pending, verdict>>

(* enter_accepting_or_succeed, the branch that asks a human.                *)
EnterAccepting(w, t) ==
    /\ Settle(w, [t EXCEPT !.state = "accepting", !.wait = "none",
                           !.status = "pending"])
    /\ pending' = pending \cup {"final_acceptance"}
    /\ UNCHANGED <<orders, verdict>>

(* The same when a result of kind k ends the chain: a tier-S task whose     *)
(* last step is an approving Acceptor succeeds, and its messages are closed.*)
EndChain(w, t, k) ==
    IF AutoAccept /\ LastOf(t.chain).role = Acceptor /\ k = "approved"
    THEN /\ verdict' = "approved"
         /\ Settle(w, [t EXCEPT !.state = "succeeded", !.wait = "none",
                                !.status = "success"])
         /\ orders' = {}
         /\ UNCHANGED pending
    ELSE EnterAccepting(w, t)

(* The task waits for a person, with an item in the human queue.            *)
BlockFor(w, t, item) ==
    /\ Settle(w, t)
    /\ pending' = pending \cup {item}
    /\ UNCHANGED <<orders, verdict>>

(* Mutant: the last write stores the task as it was read, the block is lost.*)
MutantBlock(w, t) ==
    Settle(w, Mine(w)) /\ UNCHANGED <<pending, orders, verdict>>

Block(w, t) ==
    Settle(w, [t EXCEPT !.state = "blocked"])
    /\ UNCHANGED <<pending, orders, verdict>>

(* Step s follows the active step i of t and its work order goes out; a     *)
(* failed delivery reverts the advance.                                     *)
GiveOut(w, t, i, s) ==
    LET u == Advanced(t, s)
    IN  /\ Len(t.chain) < MaxSteps
        /\ \/ OverBudget(u) /\ BlockFor(w, BudgetBlocked(u), "push_budget")
           \/ /\ ~OverBudget(u)
              /\ \E ok \in BOOLEAN :
                    /\ Send(s.id, ok)
                    /\ Settle(w, IF ok THEN Dispatched(Bumped(u), Len(u.chain))
                                 ELSE Reverted(u, i))
              /\ UNCHANGED <<pending, verdict>>

(* resolve_transition, the role flow: no next role or no agent for it.      *)
NoNextRole(w, t, i, k) ==
    \/ "terminal" \in Flow /\ EndChain(w, t, k)
    \/ "blocked" \in Flow /\ Block(w, t)
    \/ /\ k = "fail"
       /\ \E r \in Role : GiveOut(w, t, i, RedoStep(t, t.chain[i].id, r))

(* The role flow with no planned role left.                                 *)
NextByFlow(w, t, i, k) ==
    \/ NoNextRole(w, t, i, k)
    \/ "advance" \in Flow /\ \E r \in Role : GiveOut(w, t, i, FreshStep(t, r))

(* The planned role is taken off the plan and given out.                    *)
GiveOutPlanned(w, t, i) ==
    GiveOut(w, [t EXCEPT !.plan = Tail(@)], i, FreshStep(t, Head(t.plan)))

(* Mutant: planned roles that remain do not block the task.                 *)
MutantNextPlanned(w, t, i, k) ==
    \/ GiveOutPlanned(w, t, i)
    \/ AgentMayLack /\ NoNextRole(w, [t EXCEPT !.plan = Tail(@)], i, k)

(* resolve_transition with planned roles left, whatever the conclusion k.   *)
(* Without an agent the role is gone all the same.                          *)
NextPlanned(w, t, i, k) ==
    LET u == [t EXCEPT !.plan = Tail(@)]
    IN  \/ GiveOutPlanned(w, t, i)
        \/ AgentMayLack /\ u.plan # <<>> /\ Block(w, u)
        \/ AgentMayLack /\ u.plan = <<>> /\ NoNextRole(w, u, i, k)

(* Mutant: paused and cancelled tasks are finished too.                     *)
MutantFinishChain(w) ==
    /\ MayAct(w)
    /\ ChainOver(Mine(w))
    /\ EnterAccepting(w, Mine(w))
    /\ UNCHANGED result

(* All steps done and nothing planned: final acceptance, whatever state the *)
(* task is in.                                                              *)
FinishChain(w) ==
    /\ MayAct(w)
    /\ Mine(w).state \notin {"paused", "cancelled"}
    /\ ChainOver(Mine(w))
    /\ EnterAccepting(w, Mine(w))
    /\ UNCHANGED result

(* Mutant: the role is taken off the plan and the task blocks.              *)
MutantResumePlanned(w) ==
    /\ MayAct(w)
    /\ MayResume(Mine(w))
    /\ Block(w, [Mine(w) EXCEPT !.plan = Tail(@)])
    /\ UNCHANGED result

(* _resume_planned_advance.                                                 *)
ResumePlanned(w) ==
    /\ MayAct(w)
    /\ MayResume(Mine(w))
    /\ \/ GiveOutPlanned(w, Mine(w), ActiveIdx(Mine(w)))
       \/ AgentMayLack /\ Block(w, [Mine(w) EXCEPT !.plan = Tail(@)])
    /\ UNCHANGED result

(* The result file completes its step: apply_submit from complete_step on.  *)
Submit(w) ==
    LET i == ActiveIdx(Mine(w))
        id == MyStep(w).id
        k == result[id].kind
        t == Completed(Mine(w), i)
        planned == IF k = "decompose" THEN [t EXCEPT !.plan = SubtaskPlan]
                   ELSE t
    IN  /\ MayAct(w)
        /\ MaySubmit(Mine(w))
        /\ k # "unverified"
        /\ CASE k = "clarify" ->
                  BlockFor(w, [t EXCEPT !.state = "blocked",
                                  !.wait = "await_owner_confirmation",
                                  !.status = "running"],
                           "owner_confirmation")
             [] k # "clarify" /\ planned.plan = <<>> /\ HasGate
                    /\ t.gate # "approved" ->
                  BlockFor(w, [planned EXCEPT !.state = "blocked",
                                  !.wait = "await_gate",
                                  !.status = "running",
                                  !.gate = IF @ = "denied" THEN @
                                           ELSE "pending"],
                           "workflow_gate")
             [] k # "clarify" /\ planned.plan # <<>> ->
                  NextPlanned(w, planned, i, k)
             [] OTHER -> NextByFlow(w, planned, i, k)
        /\ result' = IF snap'[w].task.chain[i].consumed
                     THEN [result EXCEPT ![id].uses = IF @ = 2 THEN 2
                                                      ELSE @ + 1]
                     ELSE result

(* A failing result is to be sent back and nobody is there: apply_submit    *)
(* returns an error, its work on the task in memory is never written.       *)
NobodyToRedo(w) ==
    /\ MayAct(w)
    /\ MaySubmit(Mine(w))
    /\ result[MyStep(w).id].kind = "fail"
    /\ AgentMayLack /\ Len(Mine(w).plan) <= 1
    /\ ~HasGate \/ Mine(w).gate = "approved"
    /\ Leave(w)

(* Mutant: the result that failed is archived, the step stays consumed.     *)
MutantRetry(w) ==
    LET i == ActiveIdx(Mine(w))
        id == MyStep(w).id
        t == [Mine(w) EXCEPT !.chain[i].consumed = TRUE]
    IN  /\ MayAct(w)
        /\ MaySubmit(Mine(w))
        /\ result[id].kind = "unverified"
        /\ Send(id, TRUE)
        /\ Store(w, t, t)
        /\ result' = [j \in DOMAIN result \ {id} |-> result[j]]
        /\ UNCHANGED <<pending, verdict>>

(* A result run_step_verify rejects: archived, and the step is pushed again *)
(* within the retry limit and the budget; past the limit the task blocks.   *)
(* The count is written before the push; nothing caps it, so a task sent on *)
(* after it blocked on the limit is counted past it.                        *)
Retry(w) ==
    LET i == ActiveIdx(Mine(w))
        id == MyStep(w).id
        t == [Mine(w) EXCEPT !.retries = @ + 1]
        archived == [j \in DOMAIN result \ {id} |-> result[j]]
        reopened == [t EXCEPT !.chain[i].fs = "awaiting_result",
                              !.chain[i].consumed = FALSE]
    IN  /\ MayAct(w)
        /\ MaySubmit(Mine(w))
        /\ result[id].kind = "unverified"
        /\ \/ /\ t.retries >= RetryLimit
              /\ Block(w, t)
              /\ UNCHANGED result
           \/ /\ t.retries < RetryLimit /\ OverBudget(t)
              /\ Store(w, t, BudgetBlocked(t))
              /\ pending' = pending \cup {"push_budget"}
              /\ result' = archived
              /\ UNCHANGED <<orders, verdict>>
           \/ /\ t.retries < RetryLimit /\ ~OverBudget(t)
              /\ \E ok \in BOOLEAN :
                    /\ Send(id, ok)
                    /\ result' = IF ok THEN archived ELSE result
                    /\ Store(w, t, IF ok THEN Bumped(t) ELSE reopened)
              /\ UNCHANGED <<pending, verdict>>

Trigger(w) ==
    \/ Read(w) \/ Idle(w) \/ FinishChain(w) \/ ResumePlanned(w)
    \/ Submit(w) \/ NobodyToRedo(w) \/ Retry(w) \/ Write(w)

-----------------------------------------------------------------------------
(* The agents.                                                              *)

(* Mutant: one result file for the task instead of one for each step.       *)
MutantReport(id, k) ==
    /\ id \in orders
    /\ k \notin {"clarify", "decompose"}
    /\ orders' = orders \ {id}
    /\ result' = [j \in {id} |-> [kind |-> k, uses |-> 0]]
    /\ actor' = "agent"
    /\ UNCHANGED <<task, pending, verdict, snap>>

(* An agent answers a work order with a result file for its step.           *)
Report(id, k) ==
    /\ id \in orders
    /\ k \in {"clarify", "decompose"} =>
          \E i \in DOMAIN task.chain :
             task.chain[i].id = id /\ task.chain[i].role \in Design
    /\ orders' = orders \ {id}
    /\ result' = [j \in DOMAIN result \cup {id} |->
                     IF j = id THEN [kind |-> k, uses |-> 0] ELSE result[j]]
    /\ actor' = "agent"
    /\ UNCHANGED <<task, pending, verdict, snap>>

-----------------------------------------------------------------------------
(* People.  A request reads the task, acts and writes it; via the human     *)
(* queue (resolve_human_queue_item) the item is closed before anything else.*)

Person(op) == op \in Ops /\ Free /\ actor' = "human" /\ UNCHANGED snap

T == Ensured(task)

AwaitsPlan == T.state = "created" /\ T.wait = "await_plan_approval"

(* Mutant: the item stays in the queue.                                     *)
MutantApprovePlan ==
    /\ Person("approve_plan")
    /\ AwaitsPlan
    /\ DispatchFirst(Started(T), pending)
    /\ UNCHANGED <<result, verdict>>

(* apply_approve_plan, approved.                                            *)
ApprovePlan ==
    /\ Person("approve_plan")
    /\ AwaitsPlan
    /\ DispatchFirst(Started(T), pending \ {"plan_approval"})
    /\ UNCHANGED <<result, verdict>>

(* apply_approve_plan, denied: a new plan is put up for approval, or the    *)
(* task is cancelled.                                                       *)
DenyPlan ==
    /\ Person("deny_plan")
    /\ AwaitsPlan
    /\ \/ /\ task' = [T EXCEPT !.chain = InitialChain(InitPlan),
                               !.plan = Tail(InitPlan), !.active = <<1, 1>>,
                               !.status = "pending"]
          /\ pending' = pending \cup {"plan_approval"}
       \/ /\ task' = [T EXCEPT !.state = "cancelled", !.wait = "none",
                               !.status = "cancelled"]
          /\ pending' = pending \ {"plan_approval"}
    /\ UNCHANGED <<orders, result, verdict>>

(* Mutant: accepted in any state.                                           *)
MutantAccept ==
    /\ Person("accept")
    /\ task' = [T EXCEPT !.state = "succeeded", !.status = "success"]
    /\ verdict' = "approved"
    /\ pending' = pending \ {"final_acceptance"}
    /\ UNCHANGED <<orders, result>>

(* apply_accept, approved.                                                  *)
Accept ==
    /\ Person("accept")
    /\ T.state = "accepting"
    /\ task' = [T EXCEPT !.state = "succeeded", !.status = "success"]
    /\ verdict' = "approved"
    /\ pending' = pending \ {"final_acceptance"}
    /\ UNCHANGED <<orders, result>>

(* The redo step of an API rollback goes out after the task was written;    *)
(* neither the budget nor the push count is looked at.                      *)
RollBackAndSend(target) ==
    LET u == RolledBack(T, target)
    IN  /\ Len(T.chain) < MaxSteps
        /\ \E ok \in BOOLEAN :
              /\ Send(LastOf(u.chain).id, ok)
              /\ task' = IF ok THEN Dispatched(u, Len(u.chain)) ELSE u

(* apply_accept, denied with a reason, up to what becomes of the task.      *)
Denied(op) ==
    /\ Person(op)
    /\ T.state = "accepting"
    /\ verdict' = "denied"
    /\ pending' = pending \ {"final_acceptance"}
    /\ UNCHANGED result

(* Denied: roll back to a step of the chain.                                *)
DenyBack == Denied("deny") /\ \E j \in DOMAIN T.chain : RollBackAndSend(j)

(* Denied for good.                                                         *)
DenyFinal ==
    /\ Denied("deny_final")
    /\ task' = [T EXCEPT !.state = "blocked", !.status = "failed"]
    /\ UNCHANGED orders

(* Denied with a rollback target that is not in the chain: the item is      *)
(* closed by then, the error leaves the task as it was.                     *)
DenyMissed == Denied("deny_missed") /\ UNCHANGED <<task, orders>>

(* The final_acceptance item denied in the queue: the redo step is appended *)
(* and nobody sends it.                                                     *)
QueueDeny ==
    /\ Person("queue_deny")
    /\ "final_acceptance" \in pending
    /\ pending' = pending \ {"final_acceptance"}
    /\ T.state = "accepting" /\ Len(T.chain) < MaxSteps
    /\ verdict' = "denied"
    /\ \E j \in DOMAIN T.chain : task' = RolledBack(T, j)
    /\ UNCHANGED <<orders, result>>

(* An item resolved in the queue whose effect is then refused, for a        *)
(* missing reason or attachment or the task's state, or that has none.      *)
QueueRefused ==
    /\ Person("queue_refused")
    /\ \E item \in pending \ {"owner_confirmation"} :
          pending' = pending \ {item}
    /\ UNCHANGED <<task, orders, result, verdict>>

(* The owner_confirmation item resolved, whatever state the task is in.     *)
OwnerConfirm ==
    /\ Person("owner")
    /\ "owner_confirmation" \in pending
    /\ pending' = pending \ {"owner_confirmation"}
    /\ \/ task' = Started(T)
       \/ task' = [T EXCEPT !.state = "cancelled", !.wait = "none",
                            !.status = "cancelled"]
    /\ UNCHANGED <<orders, result, verdict>>

(* on_gate_approve with append_phase, then _maybe_dispatch_next: in any     *)
(* state, before the gate is reached too.                                   *)
ApproveGate ==
    LET t == [Started(T) EXCEPT !.gate = "approved", !.plan = GatePlan \o @]
        live == t.chain[ActiveIdx(t)].fs \in {"dispatched", "awaiting_result"}
        s == FreshStep(t, Head(t.plan))
        u == [t EXCEPT !.plan = Tail(@), !.chain = Append(@, s),
                       !.active = s.id]
    IN  /\ Person("gate")
        /\ T.gate # "approved" /\ Len(t.plan) <= MaxSteps
        /\ pending' = pending \ {"workflow_gate"}
        /\ \/ (live \/ t.plan = <<>>) /\ task' = t /\ UNCHANGED orders
           \/ /\ ~live /\ t.plan # <<>> /\ Len(t.chain) < MaxSteps
              /\ \E ok \in BOOLEAN :
                    /\ Send(s.id, ok)
                    /\ task' = IF ok THEN Dispatched(u, Len(u.chain)) ELSE u
        /\ UNCHANGED <<result, verdict>>

(* on_gate_deny, in any state.                                              *)
DenyGate ==
    /\ Person("gate")
    /\ pending' = pending \ {"workflow_gate"}
    /\ task' = [T EXCEPT !.gate = "denied", !.state = "blocked",
                         !.wait = "gate_denied"]
    /\ UNCHANGED <<orders, result, verdict>>

(* POST fsm/rollback, in any state.                                         *)
Rollback ==
    /\ Person("rollback")
    /\ \E j \in DOMAIN T.chain : RollBackAndSend(j)
    /\ UNCHANGED <<result, pending, verdict>>

(* apply_skip.                                                              *)
Skip ==
    /\ Person("skip")
    /\ task' = [T EXCEPT !.chain[ActiveIdx(T)].fs = "skipped",
                         !.chain[ActiveIdx(T)].st = "skipped"]
    /\ UNCHANGED <<orders, result, pending, verdict>>

(* apply_cancel and _close_pending_hq_on_cancel.                            *)
Cancel ==
    /\ Person("cancel")
    /\ task' = [T EXCEPT !.chain[ActiveIdx(T)].fs = "superseded",
                         !.state = "cancelled", !.status = "cancelled"]
    /\ pending' = {}
    /\ UNCHANGED <<orders, result, verdict>>

(* apply_pause.                                                             *)
Pause ==
    /\ Person("pause")
    /\ task' = [T EXCEPT !.state = "paused", !.status = "paused",
                         !.budgetPaused = FALSE]
    /\ UNCHANGED <<orders, result, pending, verdict>>

(* recover_continue: the active step is queued again and pushed, whatever   *)
(* its state; its old result file stays.                                    *)
Continue ==
    LET i == ActiveIdx(T)
        t == [T EXCEPT !.chain[i].fs = "queued", !.chain[i].st = "running",
                       !.chain[i].consumed = FALSE, !.state = "executing",
                       !.status = "running", !.active = T.chain[i].id,
                       !.budgetPaused = @ /\ T.state # "paused"]
    IN  /\ Person("continue")
        /\ T.state \notin {"cancelled", "succeeded"}
        /\ \E ok \in BOOLEAN :
              /\ Send(T.chain[i].id, ok)
              /\ task' = IF ok THEN Dispatched(t, i) ELSE t
        /\ UNCHANGED <<result, pending, verdict>>

(* pause_chain_tasks: the spending budget is used up.                       *)
BudgetPause ==
    /\ Person("budget")
    /\ T.state \in {"executing", "created"} \/ T.status = "running"
    /\ T.state # "paused"
    /\ task' = [T EXCEPT !.state = "paused", !.status = "paused",
                         !.budgetPaused = TRUE]
    /\ UNCHANGED <<orders, result, pending, verdict>>

(* resume_budget_paused_tasks.                                              *)
BudgetResume ==
    /\ Person("budget")
    /\ T.state = "paused" /\ T.budgetPaused
    /\ task' = [T EXCEPT !.state = "executing", !.status = "running",
                         !.budgetPaused = FALSE]
    /\ UNCHANGED <<orders, result, pending, verdict>>

People ==
    \/ ApprovePlan \/ DenyPlan \/ Accept \/ DenyBack \/ DenyFinal \/ DenyMissed
    \/ QueueDeny \/ QueueRefused
    \/ OwnerConfirm \/ ApproveGate \/ DenyGate \/ Rollback \/ Skip
    \/ Cancel \/ Pause \/ Continue \/ BudgetPause \/ BudgetResume

Agents == \E id \in orders, k \in Kinds : Report(id, k)

Next == People \/ Agents \/ \E w \in Worker : Trigger(w) \/ Crash(w)

Spec == Init /\ [][Next]_vars

(* The scan comes round again and again, and an agent that has a work order *)
(* answers it in the end.                                                   *)
FairSpec ==
    /\ Spec
    /\ \A w \in Worker : WF_vars(Trigger(w))
    /\ WF_vars(Agents)

-----------------------------------------------------------------------------
(* Properties.                                                              *)

(* apply_accept and the tier-S auto acceptance close a task for good: it    *)
(* carries an approving verdict, its plan is used up and no step is live.   *)
SucceededIsFinished ==
    task.state = "succeeded" =>
        /\ verdict = "approved"
        /\ task.plan = <<>>
        /\ \A i \in DOMAIN task.chain : task.chain[i].fs \in TerminalFs

(* enter_accepting_or_succeed asks for final acceptance of a complete chain *)
(* only, also when the trigger dies half way, an order does not arrive or   *)
(* no agent is found.                                                       *)
AcceptingIsFinished ==
    task.state = "accepting" =>
        /\ task.plan = <<>>
        /\ \A i \in DOMAIN task.chain : task.chain[i].fs \in TerminalFs

(* A task that waits for a person (accepting, await_plan_approval,          *)
(* await_owner_confirmation, await_gate) has its item in the human queue,   *)
(* or nobody would know.                                                    *)
WaitHasItem ==
    /\ task.state = "accepting" => "final_acceptance" \in pending
    /\ AwaitsPlan => "plan_approval" \in pending
    /\ task.state = "blocked" /\ task.wait = "await_owner_confirmation" =>
          "owner_confirmation" \in pending
    /\ task.state = "blocked" /\ task.wait = "await_gate" =>
          "workflow_gate" \in pending

(* One step is live at a time, whatever people do to the chain by rollback, *)
(* skip, continue and denial: get_active_step would pick one of several.    *)
OneLiveStep ==
    Cardinality({i \in DOMAIN task.chain : task.chain[i].fs \in LiveFs}) <= 1

(* Result files are named after step ids (step_result_path), which          *)
(* create_next_step makes of a number and an attempt: no two steps of a     *)
(* chain share one, whatever was rolled back.                               *)
UniqueStepIds ==
    \A i, j \in DOMAIN task.chain :
        task.chain[i].id = task.chain[j].id => i = j

(* Between scans an executing task can go on: the agent of its active step  *)
(* has a work order (_send_task), or _process_task_pipeline has something   *)
(* to do for it.                                                            *)
ExecutingHasNextMove ==
    task.state = "executing" /\ (\A w \in Worker : snap[w] = NoTask) =>
        \/ T.chain[ActiveIdx(T)].id \in orders
        \/ MaySubmit(T) \/ MayResume(T) \/ ChainOver(T)

(* A result file completes its step once (result_consumed, complete_step),  *)
(* also when the owner's confirmation resumes a step that was completed.    *)
ResultUsedOnce == \A id \in DOMAIN result : result[id].uses <= 1

(* blocked waits for a person: the trigger never moves a task out of it.    *)
BlockedWaitsForHuman ==
    [][task.state = "blocked" /\ actor' = "bus" /\ task' # task
          => task'.state = "blocked"]_vars

(* The trigger never revives a task that a person cancelled or paused, or   *)
(* that was accepted.                                                       *)
NoRevival ==
    [][task.state \in {"cancelled", "paused", "succeeded"} /\ actor' = "bus"
          => task'.state = task.state]_vars

(* A role leaves the plan (resolve_next_assignee pops it) by becoming a     *)
(* step of the chain.                                                       *)
PlannedRolesServed ==
    [][actor' = "bus" /\ Len(task'.plan) < Len(task.plan)
          => Len(task'.chain) > Len(task.chain)]_vars

(* No work order is out while the plan's approval is asked for, also after  *)
(* a denial put a new plan up (apply_approve_plan).                         *)
NoWorkBeforeApproval == "plan_approval" \in pending => orders = {}

(* A line left to itself comes to rest: accepted, waiting for acceptance,   *)
(* or blocked with its retries or its push budget used up.                  *)
LineComesToRest == task.state = "executing" ~> task.state # "executing"

(* What makes it come to rest: the counters of pushes and retries never go  *)
(* back, whatever people do, and a scan that leaves the task executing has  *)
(* used up a push of the budget; only the retries of a task that is sent on *)
(* after it blocked are not bounded.                                        *)
ScansWearOut ==
    [][/\ task'.pushes >= task.pushes /\ task'.retries >= task.retries
       /\ \A w \in Worker : Write(w) /\ task'.state = "executing" =>
             task'.pushes > task.pushes]_vars
=============================================================================
