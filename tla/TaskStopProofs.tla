--------------------------- MODULE TaskStopProofs ---------------------------
(***************************************************************************)
(* Proofs about the trigger and the people of TaskFsm, when people do not   *)
(* act while a snapshot is out: the trigger never moves a task that a       *)
(* person stopped or that was accepted, no work order goes out before the   *)
(* plan is approved, and scans wear a line out.                             *)
(***************************************************************************)
EXTENDS TaskFsmProofs

Stopped == {"cancelled", "paused", "succeeded"}

(* One snapshot is out at a time.                                           *)
OneSnapshot ==
    \A v, w \in Worker : snap[v] # NoTask /\ snap[w] # NoTask => v = w

(* A snapshot not acted on yet agrees with the file on the task's state.    *)
Agrees == \A w \in Worker : MayAct(w) => Mine(w).state = task.state

(* What is to be written to a stopped task leaves it stopped: the trigger   *)
(* acts on tasks that are not.                                              *)
ActsOnRunning ==
    \A w \in Worker :
        snap[w] # NoTask /\ snap[w].acted /\ task.state \in Stopped =>
            snap[w].task.state = task.state

StopInv == OneSnapshot /\ Agrees /\ ActsOnRunning

NoRevivalStep ==
    task.state \in Stopped /\ actor' = "bus" => task'.state = task.state

-----------------------------------------------------------------------------

(* ensure_fsm does not change the task's state.                             *)
LEMMA EnsuredState == ASSUME NEW t \in Good PROVE Ensured(t).state = t.state
  BY DEF Ensured, Good, Task

(* What the branches of apply_submit have in common.                        *)
LEMMA Settling ==
    ASSUME NEW w, NEW t, NEW i, NEW k
    PROVE  /\ \A s : GiveOut(w, t, i, s) => \E u : Settle(w, u)
           /\ Block(w, t) => \E u : Settle(w, u)
           /\ EnterAccepting(w, t) => \E u : Settle(w, u)
           /\ EndChain(w, t, k) => \E u : Settle(w, u)
  <1>1. ASSUME NEW s, GiveOut(w, t, i, s) PROVE \E u : Settle(w, u)
    BY <1>1 DEF GiveOut, BlockFor
  <1>2. Block(w, t) => \E u : Settle(w, u)
    BY DEF Block
  <1>3. EnterAccepting(w, t) => \E u : Settle(w, u)
    BY DEF EnterAccepting
  <1>4. EndChain(w, t, k) => \E u : Settle(w, u)
    BY <1>3 DEF EndChain
  <1> QED
    BY <1>1, <1>2, <1>3, <1>4

LEMMA AdvanceSettles ==
    ASSUME NEW w, NEW t, NEW i, NEW k,
           NextPlanned(w, t, i, k) \/ NextByFlow(w, t, i, k)
    PROVE  \E u : Settle(w, u)
  <1>1. \A v : NoNextRole(w, v, i, k) => \E u : Settle(w, u)
    BY Settling DEF NoNextRole
  <1>2. GiveOutPlanned(w, t, i) => \E u : Settle(w, u)
    BY Settling DEF GiveOutPlanned
  <1> QED
    BY <1>1, <1>2, Settling DEF NextPlanned, NextByFlow

(* The trigger acts on a task that is not stopped, and stores it as read or *)
(* blocked; otherwise it leaves it as it read it.                           *)
LEMMA Acts ==
    ASSUME IInv, NEW w \in Worker,
           \/ FinishChain(w) \/ ResumePlanned(w) \/ Submit(w) \/ Retry(w)
    PROVE  /\ MayAct(w) /\ Mine(w).state \notin Stopped
           /\ \E t, u : Store(w, t, u) /\ t.state \notin Stopped
  <1>1. CASE FinishChain(w) \/ ResumePlanned(w) \/ Submit(w)
    <2>1. MayAct(w) /\ Mine(w).state \notin Stopped
      BY <1>1 DEF FinishChain, ResumePlanned, Submit, ChainOver, MayResume,
                  MaySubmit, Executable, Stopped
    <2>2. CASE FinishChain(w)
      BY <2>1, <2>2, Settling DEF FinishChain, Settle
    <2>3. CASE ResumePlanned(w)
      BY <2>1, <2>3, Settling DEF ResumePlanned, GiveOutPlanned, Settle
    <2>4. CASE Submit(w)
      <3>1. PICK t, i, k, v, item :
               \/ BlockFor(w, v, item)
               \/ NextPlanned(w, t, i, k) \/ NextByFlow(w, t, i, k)
        BY <2>4 DEF Submit
      <3>2. \E u : Settle(w, u)
        BY <3>1, AdvanceSettles DEF BlockFor
      <3> QED
        BY <2>1, <3>2 DEF Settle
    <2> QED
      BY <1>1, <2>1, <2>2, <2>3, <2>4
  <1>2. CASE Retry(w)
    <2> DEFINE t == [Mine(w) EXCEPT !.retries = @ + 1]
    <2>1. MayAct(w) /\ Mine(w).state \notin Stopped
      BY <1>2 DEF Retry, MaySubmit, Executable, Stopped
    <2>2. Mine(w) \in Good
      BY <2>1, MineGood DEF IInv, MayAct
    <2>3. t.state = Mine(w).state
      BY <2>2 DEF Good, Task
    <2>4. (\E u : Store(w, t, u)) \/ Block(w, t)
      BY <1>2 DEF Retry
    <2>5. Block(w, t) => \E u : Store(w, Mine(w), u)
      BY DEF Block, Settle
    <2> HIDE DEF t
    <2> QED
      BY <2>1, <2>3, <2>4, <2>5
  <1> QED
    BY <1>1, <1>2

-----------------------------------------------------------------------------

(* A worker's own step, the others holding nothing.                         *)
LEMMA TriggerStops ==
    ASSUME IInv, StopInv, Concurrent = FALSE, NEW w \in Worker, Trigger(w)
    PROVE  StopInv' /\ NoRevivalStep
  <1> USE DEF StopInv
  <1>1. snap \in [Worker -> Snap]
    BY DEF IInv, TasksOK
  <1>2. CASE Read(w)
    <2>1. /\ \A v \in Worker : snap[v] = NoTask
          /\ snap' = [snap EXCEPT ![w] = [task |-> Ensured(task),
                                          acted |-> FALSE]]
          /\ task' = task
      BY <1>2 DEF Read, Free
    <2>2. Ensured(task).state = task.state
      BY EnsuredState DEF IInv, TasksOK
    <2>3. \A v \in Worker : v # w => snap'[v] = NoTask
      BY <1>1, <2>1
    <2>4. snap'[w] = [task |-> Ensured(task), acted |-> FALSE]
      BY <1>1, <2>1
    <2>5. OneSnapshot'
      BY <2>3 DEF OneSnapshot
    <2>6. Agrees'
      BY <2>1, <2>2, <2>3, <2>4 DEF Agrees, MayAct, Mine
    <2>7. ActsOnRunning'
      BY <2>3, <2>4 DEF ActsOnRunning
    <2> QED
      BY <2>1, <2>5, <2>6, <2>7 DEF NoRevivalStep
  <1>3. ASSUME snap[w] # NoTask, NEW u, snap' = [snap EXCEPT ![w] = u]
        PROVE  /\ \A v \in Worker : v # w => snap'[v] = NoTask
               /\ snap'[w] = u
    BY <1>1, <1>3 DEF OneSnapshot
  <1>4. CASE Idle(w) \/ NobodyToRedo(w) \/ Write(w)
    <2>1. snap[w] # NoTask /\ snap' = [snap EXCEPT ![w] = NoTask]
      BY <1>4 DEF Idle, NobodyToRedo, Leave, MayAct, Write
    <2>2. \A v \in Worker : snap'[v] = NoTask
      BY <1>3, <2>1
    <2>3. StopInv'
      BY <2>2 DEF OneSnapshot, Agrees, MayAct, ActsOnRunning
    <2>4. NoRevivalStep
      BY <1>4 DEF Idle, NobodyToRedo, Leave, Write, Agrees, ActsOnRunning,
                  NoRevivalStep
    <2> QED
      BY <2>3, <2>4
  <1>5. CASE FinishChain(w) \/ ResumePlanned(w) \/ Submit(w) \/ Retry(w)
    <2>1. PICK t, u : Store(w, t, u) /\ t.state \notin Stopped
      BY <1>5, Acts
    <2>2. MayAct(w) /\ Mine(w).state \notin Stopped
      BY <1>5, Acts
    <2>3. /\ \A v \in Worker : v # w => snap'[v] = NoTask
          /\ snap'[w] = [task |-> u, acted |-> TRUE]
          /\ task' = t
      BY <1>3, <2>1, <2>2 DEF Store, MayAct
    <2>4. OneSnapshot' /\ Agrees' /\ ActsOnRunning'
      BY <2>1, <2>3 DEF OneSnapshot, Agrees, MayAct, ActsOnRunning
    <2>5. task.state \notin Stopped
      BY <2>2 DEF Agrees
    <2> QED
      BY <2>4, <2>5 DEF NoRevivalStep
  <1> QED
    BY <1>2, <1>4, <1>5 DEF Trigger

(* People act while no snapshot is out.                                     *)
LEMMA PeopleStop ==
    ASSUME StopInv, Concurrent = FALSE, People
    PROVE  StopInv' /\ NoRevivalStep
  <1>1. \E op : Person(op)
    BY DEF People, ApprovePlan, DenyPlan, Accept, DenyBack, DenyFinal,
           DenyMissed, Denied, QueueDeny, QueueRefused, OwnerConfirm,
           ApproveGate, DenyGate, Rollback, Skip, Cancel, Pause, Continue,
           BudgetPause, BudgetResume
  <1>2. /\ actor' = "human" /\ snap' = snap
        /\ \A v \in Worker : snap[v] = NoTask
    BY <1>1 DEF Person, Free
  <1> QED
    BY <1>2 DEF StopInv, OneSnapshot, Agrees, MayAct, ActsOnRunning,
                NoRevivalStep

LEMMA NextStops ==
    ASSUME IInv, StopInv, Concurrent = FALSE, [Next]_vars
    PROVE  StopInv' /\ [NoRevivalStep]_vars
  <1>1. CASE People
    BY <1>1, PeopleStop
  <1>2. CASE Agents
    BY <1>2 DEF Agents, Report, StopInv, OneSnapshot, Agrees, MayAct, Mine,
                ActsOnRunning, NoRevivalStep
  <1>3. ASSUME NEW w \in Worker, Trigger(w) PROVE StopInv' /\ NoRevivalStep
    BY <1>3, TriggerStops
  <1>4. ASSUME NEW w \in Worker, Crash(w) PROVE StopInv' /\ NoRevivalStep
    <2>1. \A v \in Worker : snap'[v] = NoTask \/ snap'[v] = snap[v]
      BY <1>4 DEF Crash, IInv, TasksOK
    <2> QED
      BY <1>4, <2>1 DEF Crash, StopInv, OneSnapshot, Agrees, MayAct, Mine,
                        ActsOnRunning, NoRevivalStep
  <1>5. CASE UNCHANGED vars
    BY <1>5 DEF vars, StopInv, OneSnapshot, Agrees, MayAct, Mine,
                ActsOnRunning
  <1> QED
    BY <1>1, <1>2, <1>3, <1>4, <1>5 DEF Next

(* The trigger never revives a task that a person cancelled or paused, or   *)
(* that was accepted, provided that nobody writes the task while a snapshot *)
(* is out.  The code does not provide for it: a scan reads and writes its   *)
(* tasks without a lock.                                                    *)
THEOREM TaskNoRevival ==
    ASSUME Concurrent = FALSE
    PROVE  Spec => NoRevival
  <1>1. Init => StopInv
    BY DEF Init, StopInv, OneSnapshot, Agrees, MayAct, ActsOnRunning
  <1>2. IInv /\ StopInv /\ [Next]_vars => StopInv' /\ [NoRevivalStep]_vars
    BY NextStops
  <1>3. NoRevivalStep =>
          (task.state \in {"cancelled", "paused", "succeeded"}
             /\ actor' = "bus" => task'.state = task.state)
    BY DEF NoRevivalStep, Stopped
  <1> QED
    BY <1>1, <1>2, <1>3, TaskInvariant, PTL DEF Spec, NoRevival

-----------------------------------------------------------------------------

(* A record with a state, which EXCEPT then overwrites.                     *)
HasState(t) == "state" \in DOMAIN t

(* The trigger acts on the task as it was read and leaves it in a state     *)
(* other than "created", without asking for the approval of a plan.         *)
Moves(w) ==
    /\ \E t, u : Store(w, t, u) /\ t.state = Mine(w).state /\ u.state # "created"
    /\ "plan_approval" \in pending' => "plan_approval" \in pending

(* What the operations on a task make of its state.                         *)
LEMMA StatesMade ==
    ASSUME NEW t, HasState(t), NEW s, NEW i
    PROVE  /\ Advanced(t, s).state = "executing" /\ HasState(Advanced(t, s))
           /\ BudgetBlocked(t).state = "blocked"
           /\ HasState(Bumped(t)) /\ Bumped(t).state = t.state
           /\ HasState(Dispatched(t, i)) /\ Dispatched(t, i).state = t.state
           /\ HasState(Ensured(t)) /\ Ensured(t).state = t.state
           /\ HasState(Completed(t, i)) /\ Completed(t, i).state = t.state
           /\ Reverted(t, i).state = "executing"
           /\ HasState(Started(t)) /\ Started(t).state = "executing"
  <1> USE DEF HasState
  <1>1. Advanced(t, s).state = "executing" /\ HasState(Advanced(t, s))
    BY DEF Advanced
  <1>2. BudgetBlocked(t).state = "blocked"
    BY DEF BudgetBlocked
  <1>3. HasState(Bumped(t)) /\ Bumped(t).state = t.state
    BY DEF Bumped
  <1>4. HasState(Dispatched(t, i)) /\ Dispatched(t, i).state = t.state
    BY DEF Dispatched
  <1>5. \A u : HasState(u) => HasState(Ensured(u)) /\ Ensured(u).state = u.state
    BY DEF Ensured
  <1>6. HasState(Completed(t, i)) /\ Completed(t, i).state = t.state
    BY DEF Completed
  <1>7. Reverted(t, i).state = "executing"
    <2> DEFINE u == [t EXCEPT !.chain = [j \in 1..(Len(@) - 1) |->
                 IF j = i THEN [@[j] EXCEPT !.fs = "awaiting_result",
                                            !.st = "running",
                                            !.consumed = FALSE]
                          ELSE @[j]]]
    <2>1. HasState(u)
      OBVIOUS
    <2>2. Reverted(t, i) = [Ensured(u) EXCEPT !.state = "executing", !.status = "running",
                           !.active = u.chain[i].id]
      BY DEF Reverted
    <2> HIDE DEF u
    <2>3. HasState(Ensured(u))
      BY <2>1, <1>5
    <2> QED BY <2>2, <2>3
  <1>8. HasState(Started(t)) /\ Started(t).state = "executing"
    BY DEF Started
  <1> QED BY <1>1, <1>2, <1>3, <1>4, <1>5, <1>6, <1>7, <1>8

(* Settling a task, as read, in a state that is not "created".              *)
LEMMA MovesSettled ==
    ASSUME NEW w, NEW u, Settle(w, u), u.state # "created",
           "plan_approval" \in pending' => "plan_approval" \in pending
    PROVE  Moves(w)
  BY DEF Moves, Settle

(* Blocking a task, and ending its chain.                                   *)
LEMMA MovesBlocked ==
    ASSUME NEW w, NEW t, HasState(t)
    PROVE  /\ Block(w, t) => Moves(w)
           /\ \A item \in ItemType \ {"plan_approval"} :
                 t.state # "created" /\ BlockFor(w, t, item) => Moves(w)
           /\ EnterAccepting(w, t) => Moves(w)
           /\ \A k : EndChain(w, t, k) => Moves(w)
  <1> DEFINE b == [t EXCEPT !.state = "blocked"]
             a == [t EXCEPT !.state = "accepting", !.wait = "none",
                            !.status = "pending"]
             d == [t EXCEPT !.state = "succeeded", !.wait = "none",
                            !.status = "success"]
  <1>1. b.state = "blocked" /\ a.state = "accepting" /\ d.state = "succeeded"
    BY DEF HasState
  <1> HIDE DEF a, b, d
  <1>2. Block(w, t) => Moves(w)
    BY <1>1, MovesSettled DEF Block, b
  <1>3. ASSUME NEW item \in ItemType \ {"plan_approval"}, t.state # "created",
               BlockFor(w, t, item)
        PROVE  Moves(w)
    BY <1>3, MovesSettled DEF BlockFor
  <1>4. EnterAccepting(w, t) => Moves(w)
    BY <1>1, MovesSettled DEF EnterAccepting, a
  <1>5. ASSUME NEW k, EndChain(w, t, k) PROVE Moves(w)
    <2>1. CASE EnterAccepting(w, t)
      BY <1>4, <2>1
    <2>2. CASE ~EnterAccepting(w, t)
      <3>1. Settle(w, d) /\ pending' = pending
        BY <1>5, <2>2, Zenon DEF EndChain, d
      <3> QED BY <1>1, <3>1, MovesSettled
    <2> QED BY <2>1, <2>2
  <1> QED BY <1>2, <1>3, <1>4, <1>5

(* Giving a step out: sent, reverted or stopped by the budget of pushes.    *)
LEMMA MovesGivenOut ==
    ASSUME NEW w, NEW t, HasState(t), NEW i, NEW s, GiveOut(w, t, i, s)
    PROVE  Moves(w)
  <1> DEFINE u == Advanced(t, s)
             n == Len(u.chain)
  <1>1. HasState(u) /\ u.state = "executing"
    BY StatesMade
  <1> HIDE DEF u
  <1>2. CASE BlockFor(w, BudgetBlocked(u), "push_budget")
    <2>1. BudgetBlocked(u).state = "blocked" /\ pending' = pending \cup {"push_budget"}
      BY <1>1, <1>2, StatesMade DEF BlockFor
    <2> QED BY <1>2, <2>1, MovesSettled DEF BlockFor
  <1>3. ASSUME NEW ok \in BOOLEAN, pending' = pending,
               Settle(w, IF ok THEN Dispatched(Bumped(u), n) ELSE Reverted(u, i))
        PROVE  Moves(w)
    <2>1. HasState(Bumped(u)) /\ Bumped(u).state = "executing"
      BY <1>1, StatesMade
    <2>2. \A j : Dispatched(Bumped(u), j).state = "executing"
      <3> DEFINE v == Bumped(u)
      <3> HIDE DEF v
      <3>1. HasState(v) /\ v.state = "executing"
        BY <2>1 DEF v
      <3>2. \A j : Dispatched(v, j).state = "executing"
        BY <3>1 DEF Dispatched, HasState
      <3> QED BY <3>2 DEF v
    <2>3. Reverted(u, i).state = "executing"
      BY <1>1, StatesMade
    <2> QED BY <1>3, <2>2, <2>3, MovesSettled
  <1> QED BY <1>2, <1>3 DEF GiveOut, u

(* The step after a completed one, by the plan or by the flow.              *)
LEMMA MovesAdvanced ==
    ASSUME NEW w, NEW t, HasState(t), NEW i, NEW k
    PROVE  /\ NoNextRole(w, t, i, k) => Moves(w)
           /\ NextByFlow(w, t, i, k) => Moves(w)
           /\ GiveOutPlanned(w, t, i) => Moves(w)
           /\ NextPlanned(w, t, i, k) => Moves(w)
  <1> DEFINE u == [t EXCEPT !.plan = Tail(@)]
  <1>1. \A v : HasState(v) /\ NoNextRole(w, v, i, k) => Moves(w)
    BY MovesBlocked, MovesGivenOut DEF NoNextRole
  <1>2. NextByFlow(w, t, i, k) => Moves(w)
    BY <1>1, MovesGivenOut DEF NextByFlow
  <1>3. HasState(u)
    BY DEF HasState
  <1> HIDE DEF u
  <1>4. GiveOutPlanned(w, t, i) => Moves(w)
    BY <1>3, MovesGivenOut DEF GiveOutPlanned, u
  <1>5. NextPlanned(w, t, i, k) => Moves(w)
    BY <1>1, <1>3, <1>4, MovesBlocked DEF NextPlanned, u
  <1> QED BY <1>1, <1>2, <1>4, <1>5
 
(* Sending the order of a step again.                                       *)
LEMMA MovesRetried ==
    ASSUME IInv, NEW w \in Worker, Retry(w), Mine(w).state # "created"
    PROVE  Moves(w)
  <1> DEFINE i == ActiveIdx(Mine(w))
             t == [Mine(w) EXCEPT !.retries = @ + 1]
             open == [t EXCEPT !.chain[i].fs = "awaiting_result",
                               !.chain[i].consumed = FALSE]
  <1>1. HasState(Mine(w))
    BY MineGood DEF IInv, Retry, MayAct, Good, Task, HasState
  <1>2. HasState(t) /\ t.state = Mine(w).state
    BY <1>1 DEF HasState
  <1> HIDE DEF t
  <1>3. open.state = t.state
    BY <1>2 DEF HasState
  <1> HIDE DEF open
  <1>4. \/ Block(w, t)
        \/ Store(w, t, BudgetBlocked(t)) /\ pending' = pending \cup {"push_budget"}
        \/ \E ok \in BOOLEAN : Store(w, t, IF ok THEN Bumped(t) ELSE open)
                               /\ pending' = pending
    BY DEF Retry, t, open, i
  <1>5. BudgetBlocked(t).state = "blocked" /\ Bumped(t).state = t.state
    BY <1>2, StatesMade
  <1> QED BY <1>2, <1>3, <1>4, <1>5, MovesBlocked DEF Moves

(* Taking a result over.                                                    *)
LEMMA MovesSubmitted ==
    ASSUME IInv, NEW w \in Worker, Submit(w)
    PROVE  Moves(w)
  <1> DEFINE i == ActiveIdx(Mine(w))
             k == result[MyStep(w).id].kind
             t == Completed(Mine(w), i)
             planned == IF k = "decompose" THEN [t EXCEPT !.plan = SubtaskPlan] ELSE t
             asked == [t EXCEPT !.state = "blocked",
                                !.wait = "await_owner_confirmation",
                                !.status = "running"]
             gated == [planned EXCEPT !.state = "blocked",
                                      !.wait = "await_gate",
                                      !.status = "running",
                                      !.gate = IF @ = "denied" THEN @
                                               ELSE "pending"]
  <1>1. HasState(Mine(w))
    BY MineGood DEF IInv, Submit, MayAct, Good, Task, HasState
  <1>2. \/ BlockFor(w, asked, "owner_confirmation")
        \/ BlockFor(w, gated, "workflow_gate")
        \/ NextPlanned(w, planned, i, k)
        \/ NextByFlow(w, planned, i, k)
    BY DEF Submit
  <1> HIDE DEF k
  <1>3. HasState(t)
    BY <1>1, StatesMade
  <1> HIDE DEF t
  <1>4. HasState(planned)
    BY <1>3 DEF HasState
  <1> HIDE DEF planned
  <1>5. HasState(asked) /\ asked.state = "blocked" /\ HasState(gated) /\ gated.state = "blocked"
    BY <1>3, <1>4 DEF HasState
  <1> HIDE DEF asked, gated
  <1> QED BY <1>2, <1>4, <1>5, MovesBlocked, MovesAdvanced DEF ItemType

(* No step of the chain is done, and acceptance is not asked.               *)
Unstarted(t) ==
    t.state # "accepting" /\ \A i \in DOMAIN t.chain : ~StepDone(t.chain[i])

(* The approval of the plan is asked for, or the plan may still be          *)
(* changed.                                                                 *)
Awaiting == "plan_approval" \in pending \/ task.state = "created"

(* While it is, nobody was given an order or has reported.                  *)
Untouched == Awaiting => orders = {} /\ DOMAIN result = {} /\ Unstarted(task)

(* Nor has the trigger acted, on what it holds in memory; and it never      *)
(* writes a task back to "created".                                         *)
SnapsUntouched ==
    \A w \in Worker : snap[w] # NoTask =>
        /\ Awaiting => ~snap[w].acted /\ Unstarted(snap[w].task)
        /\ snap[w].acted => snap[w].task.state # "created"

ApprovalInv == Untouched /\ SnapsUntouched

(* What a read of the task fills in finishes no step.                       *)
LEMMA EnsuredUnstarted ==
    ASSUME NEW t \in Good
    PROVE  /\ Unstarted(t) => Unstarted(Ensured(t))
           /\ DOMAIN Ensured(t) = DOMAIN t
           /\ Ensured(t).state = t.state
  <1> DEFINE n == Len(t.chain)
             steps == [i \in DOMAIN t.chain |-> EnsuredStep(t.chain[i])]
             d == SubSeq(steps, 1, Len(steps))
             u == [t EXCEPT !.chain = d]
             e == [u EXCEPT !.active = u.chain[ActiveIdx(u)].id]
  <1>1. t \in Task /\ t.chain \in Chain
    BY DEF Good
  <1>2. n \in 1..MaxSteps /\ DOMAIN t.chain = 1..n /\ n \in Nat
    BY <1>1, ChainSteps
  <1>3. \A j \in 1..n : t.chain[j] \in Step
    BY <1>1, ChainSteps
  <1>4. \A x \in Step : EnsuredStep(x) \in Step /\ EnsuredStep(x).id = x.id
    BY DEF EnsuredStep, Step, TerminalFs
  <1>5. steps \in [1..n -> Step] /\ \A j \in 1..n : steps[j].id = t.chain[j].id
    BY <1>2, <1>3, <1>4
  <1>6. \A x \in Step : ~StepDone(x) => ~StepDone(EnsuredStep(x))
    BY DEF EnsuredStep, Step, StepDone
  <1>7. \A j \in 1..n : ~StepDone(t.chain[j]) => ~StepDone(steps[j])
    BY <1>2, <1>3, <1>6
  <1> HIDE DEF steps
  <1>8. steps \in Chain
    <2>1. n \in 1..n
      BY <1>2
    <2> QED BY <1>1, <1>2, <1>5, <2>1, ChainKept
  <1>9. d = steps
    BY <1>8, SubSeqFull DEF Chain
  <1>10. u.chain = steps /\ u.state = t.state /\ DOMAIN u = DOMAIN t
    BY <1>1, <1>9 DEF Task
  <1> HIDE DEF u
  <1>11. e.chain = steps /\ e.state = t.state /\ DOMAIN e = DOMAIN t
    BY <1>1, <1>10 DEF Task
  <1>12. Ensured(t) = e
    BY DEF Ensured, e, u, d, steps
  <1> HIDE DEF e
  <1>13. DOMAIN steps = 1..n
    BY <1>5
  <1> QED BY <1>2, <1>7, <1>11, <1>12, <1>13 DEF Unstarted

(* ~Awaiting needs nothing.                                                 *)
LEMMA NotAwaiting == ~Awaiting' => Untouched'
  BY DEF Untouched

(* The trigger acts on a task with a step done or a result to take over,    *)
(* which no task that awaits its approval has.                              *)
LEMMA WorkerKeeps ==
    ASSUME IInv, StopInv, ApprovalInv, NEW w \in Worker, Trigger(w)
    PROVE  ApprovalInv'
  <1> USE DEF ApprovalInv
  <1>1. snap \in [Worker -> Snap] /\ task \in Good
    BY DEF IInv, TasksOK
  <1>2. ASSUME NEW v, snap' = [snap EXCEPT ![w] = v]
        PROVE  snap'[w] = v /\ \A x \in Worker \ {w} : snap'[x] = snap[x]
    BY <1>1, <1>2
  <1>3. ASSUME snap[w] # NoTask PROVE \A x \in Worker \ {w} : snap[x] = NoTask
    BY <1>3 DEF StopInv, OneSnapshot
  <1>4. CASE Read(w)
    <2>1. /\ UNCHANGED <<task, orders, result, pending>> /\ snap[w] = NoTask
          /\ snap' = [snap EXCEPT ![w] = [task |-> Ensured(task), acted |-> FALSE]]
      BY <1>4 DEF Read
    <2>2. Untouched' /\ (Awaiting' <=> Awaiting)
      BY <2>1 DEF Untouched, Awaiting, Unstarted
    <2>3. Unstarted(task) => Unstarted(Ensured(task))
      BY <1>1, EnsuredUnstarted
    <2>4. snap'[w].task = Ensured(task) /\ snap'[w].acted = FALSE
      BY <1>2, <2>1
    <2>5. \A x \in Worker \ {w} : snap'[x] = snap[x]
      BY <1>2, <2>1
    <2>6. SnapsUntouched'
      BY <2>2, <2>3, <2>4, <2>5 DEF SnapsUntouched, Untouched
    <2> QED BY <2>2, <2>6
  <1>5. CASE Idle(w) \/ NobodyToRedo(w)
    <2>1. MayAct(w) /\ Leave(w)
      BY <1>5 DEF Idle, NobodyToRedo
    <2>2. /\ task' = snap[w].task /\ UNCHANGED <<orders, result, pending>>
          /\ snap[w] # NoTask /\ snap[w].task.state = task.state
          /\ snap' = [snap EXCEPT ![w] = NoTask]
      BY <2>1 DEF Leave, MayAct, Mine, StopInv, Agrees
    <2>3. \A x \in Worker : snap'[x] = NoTask
      BY <1>2, <1>3, <2>2
    <2>4. Awaiting' <=> Awaiting
      BY <2>2 DEF Awaiting
    <2>5. Awaiting => Unstarted(task')
      BY <2>2 DEF SnapsUntouched
    <2>6. Untouched'
      BY <2>2, <2>4, <2>5 DEF Untouched, Unstarted
    <2> QED BY <2>3, <2>6 DEF SnapsUntouched
  <1>6. CASE Write(w)
    <2>1. /\ task' = snap[w].task /\ UNCHANGED <<orders, result, pending>>
          /\ snap[w] # NoTask /\ snap[w].acted
          /\ snap' = [snap EXCEPT ![w] = NoTask]
      BY <1>6 DEF Write
    <2>2. \A x \in Worker : snap'[x] = NoTask
      BY <1>2, <1>3, <2>1
    <2>3. ~Awaiting'
      BY <2>1 DEF Awaiting, SnapsUntouched
    <2> QED BY <2>2, <2>3, NotAwaiting DEF SnapsUntouched
  <1>7. CASE FinishChain(w) \/ ResumePlanned(w) \/ Submit(w) \/ Retry(w)
    <2>1. MayAct(w) /\ (ChainOver(Mine(w)) \/ MayResume(Mine(w)) \/ MaySubmit(Mine(w)))
      BY <1>7 DEF FinishChain, ResumePlanned, Submit, Retry
    <2>2. /\ Mine(w) \in Good /\ ActiveIdx(Mine(w)) \in DOMAIN Mine(w).chain
          /\ snap[w] # NoTask /\ Mine(w).state = task.state
      <3>1. Mine(w) \in Good /\ ActiveIdx(Mine(w)) \in 1..Len(Mine(w).chain)
        BY <2>1, MineGood DEF IInv, MayAct
      <3>2. DOMAIN Mine(w).chain = 1..Len(Mine(w).chain)
        BY <3>1, ChainSteps DEF Good
      <3> QED BY <2>1, <3>1, <3>2 DEF MayAct, StopInv, Agrees
    <2>3. ~Awaiting
      <3> SUFFICES ASSUME Awaiting PROVE FALSE
        OBVIOUS
      <3>1. DOMAIN result = {} /\ Unstarted(Mine(w))
        BY <2>2 DEF Untouched, SnapsUntouched, Mine
      <3>2. ~StepDone(Mine(w).chain[ActiveIdx(Mine(w))])
        BY <2>2, <3>1 DEF Unstarted
      <3> QED BY <2>1, <3>1, <3>2 DEF ChainOver, MayResume, MaySubmit
    <2>4. Moves(w)
      <3>1. HasState(Mine(w))
        BY <2>2 DEF HasState, Good, Task
      <3>2. CASE FinishChain(w)
        BY <3>1, <3>2, MovesBlocked DEF FinishChain
      <3>3. CASE ResumePlanned(w)
        <4>1. HasState([Mine(w) EXCEPT !.plan = Tail(@)])
          BY <3>1 DEF HasState
        <4> QED BY <3>1, <3>3, <4>1, MovesBlocked, MovesAdvanced DEF ResumePlanned
      <3>4. CASE Submit(w)
        BY <3>4, MovesSubmitted
      <3>5. CASE Retry(w)
        BY <2>2, <2>3, <3>5, MovesRetried DEF Awaiting
      <3> QED BY <1>7, <3>2, <3>3, <3>4, <3>5
    <2>5. PICK t, u : /\ Store(w, t, u) /\ t.state = Mine(w).state
                      /\ u.state # "created"
      BY <2>4 DEF Moves
    <2>6. /\ task' = t /\ snap'[w] = [task |-> u, acted |-> TRUE]
          /\ \A x \in Worker \ {w} : snap'[x] = NoTask
      BY <1>2, <1>3, <2>2, <2>5 DEF Store
    <2>7. ~Awaiting'
      BY <2>2, <2>3, <2>4, <2>5, <2>6 DEF Awaiting, Moves
    <2> QED BY <2>5, <2>6, <2>7, NotAwaiting DEF SnapsUntouched
  <1> QED BY <1>4, <1>5, <1>6, <1>7 DEF Trigger

(* What a person does to the task of a plan that still waits.               *)
LEMMA PersonKeeps ==
    ASSUME IInv, ApprovalInv, pending' \subseteq pending, UNCHANGED <<orders, result>>,
           task'.state = "created" => T.state = "created",
           Unstarted(T) => Unstarted(task')
    PROVE  Untouched'
  <1>1. T.state = task.state /\ (Unstarted(task) => Unstarted(T))
    BY EnsuredUnstarted DEF IInv, TasksOK, T
  <1>2. Awaiting' => Awaiting
    BY <1>1 DEF Awaiting
  <1>3. Unstarted(task)' <=> Unstarted(task')
    BY DEF Unstarted
  <1> QED BY <1>1, <1>2, <1>3 DEF ApprovalInv, Untouched

(* Rollback, gate approval and continue are the operations that give out    *)
(* an order without looking whether the plan was approved.                  *)
LEMMA PeopleKeep ==
    ASSUME IInv, ApprovalInv, Concurrent = FALSE, People,
           Ops \cap {"rollback", "gate", "continue"} = {}
    PROVE  ApprovalInv'
  <1>1. T \in Good /\ HasState(T) /\ T.state = task.state
    BY TGood, EnsuredUnstarted DEF IInv, TasksOK, Good, Task, HasState, T
  <1>2. ActiveIdx(T) \in 1..Len(T.chain) /\ DOMAIN T.chain = 1..Len(T.chain)
    BY TGood
  <1>3. \E op : Person(op)
    BY DEF People, ApprovePlan, DenyPlan, Accept, DenyBack, DenyFinal,
           DenyMissed, Denied, QueueDeny, QueueRefused, OwnerConfirm,
           ApproveGate, DenyGate, Rollback, Skip, Cancel, Pause, Continue,
           BudgetPause, BudgetResume
  <1>4. SnapsUntouched'
    BY <1>3 DEF Person, Free, SnapsUntouched
  <1>5. ~ApproveGate /\ ~DenyGate /\ ~Rollback /\ ~Continue
    BY DEF ApproveGate, DenyGate, Rollback, Continue, Person
  <1>6. CASE ApprovePlan
    <2>1. DispatchFirst(Started(T), pending \ {"plan_approval"})
      BY <1>6 DEF ApprovePlan
    <2> DEFINE t == Started(T)
    <2>2. HasState(t) /\ t.state = "executing"
      BY <1>1, StatesMade
    <2> HIDE DEF t
    <2>3. "plan_approval" \notin pending'
      BY <2>1 DEF DispatchFirst
    <2>4. task'.state \in {"executing", "blocked"}
      <3>1. BudgetBlocked(t).state = "blocked" /\ HasState(Bumped(t))
            /\ Bumped(t).state = "executing"
        BY <2>2, StatesMade
      <3> DEFINE v == Bumped(t)
      <3>2. v.state = "executing" /\ HasState(v)
        BY <3>1
      <3> HIDE DEF v
      <3>3. HasState(Dispatched(v, 1)) /\ Dispatched(v, 1).state = "executing"
        BY <3>2 DEF Dispatched, HasState
      <3>4. [Dispatched(v, 1) EXCEPT !.active = t.chain[1].id].state = "executing"
        BY <3>3 DEF HasState
      <3>5. [t EXCEPT !.state = "blocked", !.status = "blocked"].state = "blocked"
        BY <2>2 DEF HasState
      <3>6. \/ task' = BudgetBlocked(t)
            \/ task' = [Dispatched(v, 1) EXCEPT !.active = t.chain[1].id]
            \/ task' = [t EXCEPT !.state = "blocked", !.status = "blocked"]
        BY <2>1 DEF DispatchFirst, t, v
      <3> QED BY <3>1, <3>4, <3>5, <3>6
    <2>5. ~Awaiting'
      BY <2>3, <2>4 DEF Awaiting
    <2> QED BY <1>4, <2>5, NotAwaiting DEF ApprovalInv
  <1>7. CASE DenyPlan
    <2> DEFINE u == [T EXCEPT !.chain = InitialChain(InitPlan),
                              !.plan = Tail(InitPlan), !.active = <<1, 1>>,
                              !.status = "pending"]
               v == [T EXCEPT !.state = "cancelled", !.wait = "none",
                              !.status = "cancelled"]
    <2>1. CASE task' = u
      <3>1. Awaiting /\ UNCHANGED <<orders, result>> /\ T.state = "created"
        BY <1>1, <1>7 DEF DenyPlan, AwaitsPlan, Awaiting
      <3>2. u.chain = InitialChain(InitPlan) /\ u.state = "created"
        BY <1>1, <3>1 DEF Good, Task
      <3> HIDE DEF u
      <3>3. \A i \in DOMAIN InitialChain(InitPlan) : ~StepDone(InitialChain(InitPlan)[i])
        BY DEF InitialChain, StepDone
      <3>4. Unstarted(task)'
        BY <2>1, <3>2, <3>3 DEF Unstarted
      <3>5. Untouched'
        BY <3>1, <3>4 DEF Untouched, ApprovalInv
      <3> QED BY <1>4, <3>5 DEF ApprovalInv
    <2>2. CASE task' = v /\ pending' = pending \ {"plan_approval"}
      <3>1. v.state = "cancelled"
        BY <1>1 DEF HasState
      <3> HIDE DEF v
      <3>2. ~Awaiting'
        BY <2>2, <3>1 DEF Awaiting
      <3> QED BY <1>4, <3>2, NotAwaiting DEF ApprovalInv
    <2> QED BY <1>7, <2>1, <2>2 DEF DenyPlan
  <1>8. ASSUME T.state = "accepting", pending' \subseteq pending, task'.state # "created"
        PROVE  ApprovalInv'
    <2>1. ~Awaiting
      BY <1>1, <1>8 DEF ApprovalInv, Untouched, Unstarted
    <2>2. ~Awaiting'
      BY <1>8, <2>1 DEF Awaiting
    <2> QED BY <1>4, <2>2, NotAwaiting DEF ApprovalInv
  <1>9. \A j : LET u == RolledBack(T, j)
               IN  /\ HasState(u) /\ u.state = "executing"
                   /\ \A i : Dispatched(u, i).state = "executing"
    <2> TAKE j
    <2> DEFINE i == ActiveIdx(T)
               f == [T EXCEPT !.chain = [k \in DOMAIN @ |->
                     IF k = i THEN [@[k] EXCEPT !.fs = "failed",
                                                !.st = "failed"]
                     ELSE IF k > i THEN [@[k] EXCEPT !.fs = "superseded",
                                                     !.st = "done"]
                     ELSE @[k]]]
               s == RedoStep(T, T.chain[i].id, T.chain[j].role)
               u == RolledBack(T, j)
    <2>1. HasState(f)
      BY <1>1 DEF HasState
    <2>2. u = Advanced(f, s)
      BY DEF RolledBack
    <2> HIDE DEF f, s, u
    <2>3. HasState(u) /\ u.state = "executing"
      BY <2>1, <2>2 DEF Advanced, HasState
    <2>4. \A k : Dispatched(u, k).state = "executing"
      BY <2>3 DEF Dispatched, HasState
    <2> QED BY <2>3, <2>4 DEF u
  <1>10. CASE Accept
    <2> DEFINE u == [T EXCEPT !.state = "succeeded", !.status = "success"]
    <2>1. u.state = "succeeded"
      BY <1>1 DEF HasState
    <2> HIDE DEF u
    <2>2. task' = u /\ T.state = "accepting" /\ pending' \subseteq pending
      BY <1>10 DEF Accept, u
    <2> QED BY <1>8, <2>1, <2>2
  <1>11. CASE DenyBack \/ QueueDeny
    <2>1. T.state = "accepting" /\ pending' \subseteq pending
      BY <1>11 DEF DenyBack, Denied, QueueDeny
    <2>2. PICK j : \/ task' = RolledBack(T, j)
                   \/ \E i : task' = Dispatched(RolledBack(T, j), i)
      BY <1>11 DEF DenyBack, QueueDeny, RollBackAndSend
    <2>3. task'.state = "executing"
      BY <1>9, <2>2
    <2> QED BY <1>8, <2>1, <2>3
  <1>12. CASE DenyFinal \/ DenyMissed
    <2> DEFINE u == [T EXCEPT !.state = "blocked", !.status = "failed"]
    <2>1. u.state = "blocked"
      BY <1>1 DEF HasState
    <2> HIDE DEF u
    <2>2. /\ task' = u \/ task' = task
          /\ T.state = "accepting" /\ pending' \subseteq pending
      BY <1>12 DEF DenyFinal, DenyMissed, Denied, u
    <2> QED BY <1>1, <1>8, <2>1, <2>2
  <1>13. CASE QueueRefused
    <2>1. pending' \subseteq pending /\ UNCHANGED <<task, orders, result>>
      BY <1>13 DEF QueueRefused
    <2>2. Untouched'
      BY <2>1 DEF ApprovalInv, Untouched, Awaiting, Unstarted
    <2> QED BY <1>4, <2>2 DEF ApprovalInv
  <1>14. ASSUME NEW u, task' = u, pending' \subseteq pending, UNCHANGED <<orders, result>>,
                u.chain = T.chain, u.state \notin {"created", "accepting"}
         PROVE  ApprovalInv'
    <2>1. Unstarted(T) => Unstarted(task')
      BY <1>14 DEF Unstarted
    <2>2. Untouched'
      BY <1>14, <2>1, PersonKeeps
    <2> QED BY <1>4, <2>2 DEF ApprovalInv
  <1>15. CASE OwnerConfirm
    <2> DEFINE u == Started(T)
               v == [T EXCEPT !.state = "cancelled", !.wait = "none",
                              !.status = "cancelled"]
    <2>1. u.chain = T.chain /\ u.state = "executing"
      BY <1>1 DEF Started, Good, Task
    <2>2. v.chain = T.chain /\ v.state = "cancelled"
      BY <1>1 DEF Good, Task
    <2> HIDE DEF u, v
    <2>3. /\ task' = u \/ task' = v
          /\ pending' \subseteq pending /\ UNCHANGED <<orders, result>>
      BY <1>15 DEF OwnerConfirm, u, v
    <2> QED BY <1>14, <2>1, <2>2, <2>3
  <1>16. CASE Pause \/ BudgetPause \/ BudgetResume
    <2>1. \A b \in BOOLEAN :
             LET u == [T EXCEPT !.state = "paused", !.status = "paused",
                                !.budgetPaused = b]
             IN  u.chain = T.chain /\ u.state = "paused"
      BY <1>1 DEF Good, Task
    <2> DEFINE v == [T EXCEPT !.state = "executing", !.status = "running",
                              !.budgetPaused = FALSE]
    <2>2. v.chain = T.chain /\ v.state = "executing"
      BY <1>1 DEF Good, Task
    <2>3. /\ pending' \subseteq pending /\ UNCHANGED <<orders, result>>
          /\ \/ task' = v
             \/ \E b \in BOOLEAN :
                   task' = [T EXCEPT !.state = "paused", !.status = "paused",
                                     !.budgetPaused = b]
      BY <1>16 DEF Pause, BudgetPause, BudgetResume
    <2> HIDE DEF v
    <2> QED BY <1>14, <2>1, <2>2, <2>3
  <1>17. CASE Skip
    <2> DEFINE i == ActiveIdx(T)
               c == [T.chain EXCEPT ![i] = [[@ EXCEPT !.fs = "skipped"] EXCEPT !.st = "skipped"]]
    <2>1. task'.chain = c /\ task'.state = T.state
      <3>1. task' = [T EXCEPT !.chain[i].fs = "skipped", !.chain[i].st = "skipped"]
        BY <1>17 DEF Skip
      <3> QED BY <1>1, <1>2, <3>1 DEF Good, Task
    <2>2. \A j \in DOMAIN T.chain : T.chain[j] \in Step
      BY <1>1, ChainSteps DEF Good
    <2>3. DOMAIN c = DOMAIN T.chain
      OBVIOUS
    <2>4. c[i].fs = "skipped" /\ c[i].st = "skipped"
      BY <1>2, <2>2 DEF Step
    <2>5. \A j \in DOMAIN c : j # i => c[j] = T.chain[j]
      OBVIOUS
    <2> HIDE DEF c, i
    <2>6. Unstarted(T) => Unstarted(task')
      BY <2>1, <2>3, <2>4, <2>5 DEF Unstarted, StepDone
    <2>7. pending' \subseteq pending /\ UNCHANGED <<orders, result>>
      BY <1>17 DEF Skip
    <2>8. Untouched'
      BY <2>1, <2>6, <2>7, PersonKeeps
    <2> QED BY <1>4, <2>8 DEF ApprovalInv
  <1>18. CASE Cancel
    <2> DEFINE i == ActiveIdx(T)
               u == [T EXCEPT !.chain[i].fs = "superseded",
                              !.state = "cancelled", !.status = "cancelled"]
    <2>1. u.state = "cancelled"
      BY <1>1 DEF HasState
    <2> HIDE DEF u
    <2>2. task' = u /\ pending' = {}
      BY <1>18 DEF Cancel, u
    <2>3. ~Awaiting'
      BY <2>1, <2>2 DEF Awaiting
    <2> QED BY <1>4, <2>3, NotAwaiting DEF ApprovalInv
  <1> QED BY <1>5, <1>6, <1>7, <1>10, <1>11, <1>12, <1>13, <1>15, <1>16, <1>17, <1>18
             DEF People

(* Every step keeps the invariant.                                          *)
LEMMA NextKeeps ==
    ASSUME IInv, StopInv, ApprovalInv, Concurrent = FALSE, [Next]_vars,
           Ops \cap {"rollback", "gate", "continue"} = {}
    PROVE  ApprovalInv'
  <1>1. CASE People
    BY <1>1, PeopleKeep
  <1>2. CASE Agents
    <2>1. orders # {} /\ UNCHANGED <<task, pending, snap>>
      BY <1>2 DEF Agents, Report
    <2>2. ~Awaiting /\ ~Awaiting'
      BY <2>1 DEF ApprovalInv, Untouched, Awaiting
    <2>3. SnapsUntouched'
      BY <2>1, <2>2 DEF ApprovalInv, SnapsUntouched
    <2> QED BY <2>2, <2>3, NotAwaiting DEF ApprovalInv
  <1>3. ASSUME NEW w \in Worker, Trigger(w) PROVE ApprovalInv'
    BY <1>3, WorkerKeeps
  <1>4. ASSUME NEW w \in Worker, Crash(w) PROVE ApprovalInv'
    <2>1. \A v \in Worker : snap'[v] = NoTask \/ snap'[v] = snap[v]
      BY <1>4 DEF Crash, IInv, TasksOK
    <2>2. UNCHANGED <<task, orders, result, pending>>
      BY <1>4 DEF Crash
    <2> QED BY <2>1, <2>2 DEF ApprovalInv, Untouched, SnapsUntouched, Awaiting, Unstarted
  <1>5. CASE UNCHANGED vars
    BY <1>5 DEF vars, ApprovalInv, Untouched, SnapsUntouched, Awaiting, Unstarted
  <1> QED BY <1>1, <1>2, <1>3, <1>4, <1>5 DEF Next

(* A task starts untouched, or past its approval.                           *)
LEMMA InitKeeps == Init => ApprovalInv
  <1> SUFFICES ASSUME Init PROVE ApprovalInv
    OBVIOUS
  <1>1. SnapsUntouched
    BY DEF Init, SnapsUntouched
  <1>2. DOMAIN result = {}
    BY DEF Init
  <1>3. CASE NeedsApproval
    <2>1. task = NewTask /\ orders = {}
      BY <1>3 DEF Init
    <2>2. \A i \in DOMAIN InitialChain(InitPlan) : ~StepDone(InitialChain(InitPlan)[i])
      BY DEF InitialChain, StepDone
    <2>3. task.state = "created" /\ task.chain = InitialChain(InitPlan)
      BY <2>1 DEF NewTask
    <2>4. Unstarted(task)
      BY <2>2, <2>3 DEF Unstarted
    <2> QED BY <1>1, <1>2, <2>1, <2>4 DEF ApprovalInv, Untouched
  <1>4. CASE ~NeedsApproval
    <2> DEFINE t == Started(NewTask)
    <2>1. t.state = "executing" /\ HasState(t)
      BY DEF Started, NewTask, HasState
    <2> HIDE DEF t
    <2>2. /\ pending = {}
          /\ \/ task = Dispatched(Bumped(t), 1)
             \/ task = [t EXCEPT !.state = "blocked", !.status = "blocked"]
      BY <1>4 DEF Init, t
    <2>3. [t EXCEPT !.state = "blocked", !.status = "blocked"].state = "blocked"
      BY <2>1 DEF HasState
    <2> DEFINE v == Bumped(t)
    <2>4. HasState(v) /\ v.state = "executing"
      BY <2>1 DEF Bumped, HasState
    <2> HIDE DEF v
    <2>5. Dispatched(v, 1).state = "executing"
      BY <2>4 DEF Dispatched, HasState
    <2>6. ~Awaiting
      BY <2>2, <2>3, <2>5 DEF Awaiting, v
    <2> QED BY <1>1, <2>6 DEF ApprovalInv, Untouched
  <1> QED BY <1>3, <1>4

(* No work order is out while a task's plan still waits for approval,       *)
(* for any roles, plan, workers and limits: dispatch, retry and advance     *)
(* are all behind the approval in human_queue_resolve and                   *)
(* handlers_tasks. Assumed: nobody writes the task while a snapshot of      *)
(* it is out, and nobody uses rollback, gate approval or continue, which    *)
(* dispatch the step of a plan nobody approved (see TaskFsm).               *)
THEOREM TaskNoWorkBeforeApproval ==
    ASSUME Concurrent = FALSE, Ops \cap {"rollback", "gate", "continue"} = {}
    PROVE  Spec => []NoWorkBeforeApproval
  <1>1. Init => StopInv /\ ApprovalInv
    BY InitKeeps DEF Init, StopInv, OneSnapshot, Agrees, MayAct, ActsOnRunning
  <1>2. IInv /\ (StopInv /\ ApprovalInv) /\ [Next]_vars => (StopInv /\ ApprovalInv)'
    BY NextStops, NextKeeps
  <1>3. ApprovalInv => NoWorkBeforeApproval
    BY DEF ApprovalInv, Untouched, Awaiting, NoWorkBeforeApproval
  <1> QED BY <1>1, <1>2, <1>3, TaskInvariant, PTL DEF Spec

-----------------------------------------------------------------------------
(* Scans wear the line out.                                                 *)

(* A record with a state and the counters, which EXCEPT then overwrites.    *)
Counts(t) ==
    {"state", "pushes", "retries"} \subseteq DOMAIN t
        /\ t.pushes \in Nat /\ t.retries \in Nat

(* u has the counters of t; the counters of u are those of t or further on. *)
SameCounts(u, t) == u.pushes = t.pushes /\ u.retries = t.retries

CountsOn(t, u) == u.pushes >= t.pushes /\ u.retries >= t.retries

(* From t to u a push was used up, or the task was put to rest.             *)
WornOut(t, u) ==
    /\ CountsOn(t, u)
    /\ u.state = "executing" => u.pushes > t.pushes

(* A snapshot has the counters of the task; once acted on it wears the task *)
(* out.                                                                     *)
WearInv ==
    \A w \in Worker : snap[w] # NoTask =>
        /\ ~snap[w].acted => SameCounts(snap[w].task, task)
        /\ snap[w].acted => WornOut(task, snap[w].task)

WearStep ==
    /\ CountsOn(task, task')
    /\ \A w \in Worker : Write(w) /\ task'.state = "executing" =>
          task'.pushes > task.pushes

(* Only the counters are left to look at: what is written wears out.        *)
LEMMA WearingWrites == WearInv /\ CountsOn(task, task') => WearStep
  BY DEF WearInv, WearStep, WornOut, Write

(* A good task has counters.                                                *)
LEMMA GoodCounts == ASSUME NEW t \in Good PROVE Counts(t)
  BY DEF Good, Task, Counts

(* What the operations on a task make of its counters.                      *)
LEMMA CountsMade ==
    ASSUME NEW t, Counts(t), NEW s, NEW i
    PROVE  /\ Counts(Advanced(t, s)) /\ SameCounts(Advanced(t, s), t)
           /\ Counts(BudgetBlocked(t)) /\ SameCounts(BudgetBlocked(t), t)
           /\ BudgetBlocked(t).state = "blocked"
           /\ Counts(Bumped(t)) /\ Bumped(t).retries = t.retries
           /\ Bumped(t).pushes = t.pushes + 1
           /\ Counts(Dispatched(t, i)) /\ SameCounts(Dispatched(t, i), t)
           /\ Counts(Ensured(t)) /\ SameCounts(Ensured(t), t)
           /\ Counts(Completed(t, i)) /\ SameCounts(Completed(t, i), t)
           /\ Counts(Started(t)) /\ SameCounts(Started(t), t)
  <1> USE DEF Counts, SameCounts
  <1>1. Counts(Advanced(t, s)) /\ SameCounts(Advanced(t, s), t)
    BY DEF Advanced
  <1>2. /\ Counts(BudgetBlocked(t)) /\ SameCounts(BudgetBlocked(t), t)
        /\ BudgetBlocked(t).state = "blocked"
    BY DEF BudgetBlocked
  <1>3. /\ Counts(Bumped(t)) /\ Bumped(t).retries = t.retries
        /\ Bumped(t).pushes = t.pushes + 1
    BY DEF Bumped
  <1>4. Counts(Dispatched(t, i)) /\ SameCounts(Dispatched(t, i), t)
    BY DEF Dispatched
  <1>5. Counts(Ensured(t)) /\ SameCounts(Ensured(t), t)
    BY DEF Ensured
  <1>6. Counts(Completed(t, i)) /\ SameCounts(Completed(t, i), t)
    BY DEF Completed
  <1>7. Counts(Started(t)) /\ SameCounts(Started(t), t)
    BY DEF Started
  <1> QED BY <1>1, <1>2, <1>3, <1>4, <1>5, <1>6, <1>7

(* A worker's step from t, the task as it read it or with its counters on.  *)
Wears(w, t) ==
    \E t1, u : Store(w, t1, u) /\ CountsOn(t, t1) /\ WornOut(t1, u)

(* Settling a task that has the counters of the one that was read, put to   *)
(* rest or with one push more.                                              *)
LEMMA WearsSettled ==
    ASSUME NEW w, NEW u, Settle(w, u), Counts(Mine(w)), Counts(u),
           \/ SameCounts(u, Mine(w)) /\ u.state # "executing"
           \/ u.retries = Mine(w).retries /\ u.pushes = Mine(w).pushes + 1
    PROVE  Wears(w, Mine(w))
  BY DEF Settle, Wears, WornOut, CountsOn, SameCounts, Counts

LEMMA WearsBlocked ==
    ASSUME NEW w, NEW t, Counts(Mine(w)), Counts(t), SameCounts(t, Mine(w))
    PROVE  /\ Block(w, t) => Wears(w, Mine(w))
           /\ \A item : t.state # "executing" /\ BlockFor(w, t, item) =>
                 Wears(w, Mine(w))
           /\ EnterAccepting(w, t) => Wears(w, Mine(w))
           /\ \A k : EndChain(w, t, k) => Wears(w, Mine(w))
  <1> DEFINE b == [t EXCEPT !.state = "blocked"]
             a == [t EXCEPT !.state = "accepting", !.wait = "none",
                            !.status = "pending"]
             d == [t EXCEPT !.state = "succeeded", !.wait = "none",
                            !.status = "success"]
  <1>1. /\ b.state = "blocked" /\ Counts(b) /\ SameCounts(b, t)
        /\ a.state = "accepting" /\ Counts(a) /\ SameCounts(a, t)
        /\ d.state = "succeeded" /\ Counts(d) /\ SameCounts(d, t)
    BY DEF Counts, SameCounts
  <1>2. /\ SameCounts(b, Mine(w)) /\ SameCounts(a, Mine(w))
        /\ SameCounts(d, Mine(w))
    BY <1>1 DEF SameCounts
  <1> HIDE DEF a, b, d
  <1>3. Block(w, t) => Wears(w, Mine(w))
    BY <1>1, <1>2, WearsSettled DEF Block, b
  <1>4. ASSUME NEW item, t.state # "executing", BlockFor(w, t, item)
        PROVE  Wears(w, Mine(w))
    BY <1>4, WearsSettled DEF BlockFor
  <1>5. EnterAccepting(w, t) => Wears(w, Mine(w))
    BY <1>1, <1>2, WearsSettled DEF EnterAccepting, a
  <1>6. ASSUME NEW k, EndChain(w, t, k) PROVE Wears(w, Mine(w))
    <2>1. CASE EnterAccepting(w, t)
      BY <1>5, <2>1
    <2>2. CASE ~EnterAccepting(w, t)
      <3>1. Settle(w, d)
        BY <1>6, <2>2, Zenon DEF EndChain, d
      <3> QED BY <1>1, <1>2, <3>1, WearsSettled
    <2> QED BY <2>1, <2>2
  <1> QED BY <1>3, <1>4, <1>5, <1>6

(* Giving a step out counts a push or blocks the task.                      *)
LEMMA WearsGivenOut ==
    ASSUME SendMayFail = FALSE, NEW w, NEW t, Counts(Mine(w)), Counts(t),
           SameCounts(t, Mine(w)), NEW i, NEW s, GiveOut(w, t, i, s)
    PROVE  Wears(w, Mine(w))
  <1> DEFINE u == Advanced(t, s)
             n == Len(u.chain)
  <1>1. Counts(u) /\ SameCounts(u, Mine(w))
    BY CountsMade DEF SameCounts
  <1>2. \/ BlockFor(w, BudgetBlocked(u), "push_budget")
        \/ \E ok \in BOOLEAN :
              /\ Send(s.id, ok)
              /\ Settle(w, IF ok THEN Dispatched(Bumped(u), n)
                           ELSE Reverted(u, i))
    BY DEF GiveOut
  <1>3. CASE BlockFor(w, BudgetBlocked(u), "push_budget")
    <2> DEFINE v == BudgetBlocked(u)
    <2>1. Counts(v) /\ SameCounts(v, Mine(w)) /\ v.state = "blocked"
      BY <1>1, CountsMade DEF SameCounts
    <2> HIDE DEF v
    <2> QED BY <1>3, <2>1, WearsBlocked DEF v
  <1> DEFINE v == Bumped(u)
             x == Dispatched(v, n)
  <1>4. CASE Settle(w, x)
    <2>1. /\ Counts(v) /\ v.retries = Mine(w).retries
          /\ v.pushes = Mine(w).pushes + 1
      BY <1>1, CountsMade DEF SameCounts
    <2> HIDE DEF v
    <2>2. Counts(x) /\ SameCounts(x, v)
      BY <2>1, CountsMade
    <2> HIDE DEF x
    <2> QED BY <1>4, <2>1, <2>2, WearsSettled DEF SameCounts
  <1> QED BY <1>2, <1>3, <1>4 DEF Send

(* The step after a completed one, by the plan or by the flow.              *)
LEMMA WearsAdvanced ==
    ASSUME SendMayFail = FALSE, NEW w, NEW t, Counts(Mine(w)), Counts(t),
           SameCounts(t, Mine(w)), NEW i, NEW k
    PROVE  /\ NextByFlow(w, t, i, k) => Wears(w, Mine(w))
           /\ GiveOutPlanned(w, t, i) => Wears(w, Mine(w))
           /\ NextPlanned(w, t, i, k) => Wears(w, Mine(w))
  <1> DEFINE u == [t EXCEPT !.plan = Tail(@)]
  <1>1. \A v : Counts(v) /\ SameCounts(v, Mine(w)) /\ NoNextRole(w, v, i, k)
              => Wears(w, Mine(w))
    BY WearsBlocked, WearsGivenOut DEF NoNextRole
  <1>2. NextByFlow(w, t, i, k) => Wears(w, Mine(w))
    BY <1>1, WearsGivenOut DEF NextByFlow
  <1>3. Counts(u) /\ SameCounts(u, Mine(w))
    BY DEF Counts, SameCounts
  <1> HIDE DEF u
  <1>4. GiveOutPlanned(w, t, i) => Wears(w, Mine(w))
    BY <1>3, WearsGivenOut DEF GiveOutPlanned, u
  <1>5. NextPlanned(w, t, i, k) => Wears(w, Mine(w))
    BY <1>1, <1>3, <1>4, WearsBlocked DEF NextPlanned, u
  <1> QED BY <1>2, <1>4, <1>5

(* Taking a result over.                                                    *)
LEMMA WearsSubmitted ==
    ASSUME SendMayFail = FALSE, NEW w, Counts(Mine(w)), Submit(w)
    PROVE  Wears(w, Mine(w))
  <1> DEFINE i == ActiveIdx(Mine(w))
             k == result[MyStep(w).id].kind
             t == Completed(Mine(w), i)
             planned == IF k = "decompose" THEN [t EXCEPT !.plan = SubtaskPlan]
                        ELSE t
             asked == [t EXCEPT !.state = "blocked",
                                !.wait = "await_owner_confirmation",
                                !.status = "running"]
             gated == [planned EXCEPT !.state = "blocked",
                                      !.wait = "await_gate",
                                      !.status = "running",
                                      !.gate = IF @ = "denied" THEN @
                                               ELSE "pending"]
  <1>1. \/ BlockFor(w, asked, "owner_confirmation")
        \/ BlockFor(w, gated, "workflow_gate")
        \/ NextPlanned(w, planned, i, k)
        \/ NextByFlow(w, planned, i, k)
    BY DEF Submit
  <1> HIDE DEF k
  <1>2. Counts(t) /\ SameCounts(t, Mine(w))
    BY CountsMade
  <1> HIDE DEF t
  <1>3. Counts(planned) /\ SameCounts(planned, Mine(w))
    BY <1>2 DEF Counts, SameCounts
  <1> HIDE DEF planned
  <1>4. /\ Counts(asked) /\ asked.state = "blocked"
        /\ SameCounts(asked, Mine(w))
        /\ Counts(gated) /\ gated.state = "blocked"
        /\ SameCounts(gated, Mine(w))
    BY <1>2, <1>3 DEF Counts, SameCounts
  <1> HIDE DEF asked, gated
  <1> QED BY <1>1, <1>3, <1>4, WearsBlocked, WearsAdvanced

(* Sending a rejected step again counts the retry before, the push after.   *)
LEMMA WearsRetried ==
    ASSUME SendMayFail = FALSE, NEW w, Counts(Mine(w)), Retry(w)
    PROVE  Wears(w, Mine(w))
  <1> DEFINE i == ActiveIdx(Mine(w))
             t == [Mine(w) EXCEPT !.retries = @ + 1]
             b == [t EXCEPT !.state = "blocked"]
             open == [t EXCEPT !.chain[i].fs = "awaiting_result",
                               !.chain[i].consumed = FALSE]
  <1>1. Counts(t) /\ CountsOn(Mine(w), t)
    BY DEF Counts, CountsOn
  <1>2. Counts(b) /\ b.state = "blocked" /\ SameCounts(b, t)
    BY <1>1 DEF Counts, SameCounts
  <1>3. \/ Store(w, Mine(w), b)
        \/ Store(w, t, BudgetBlocked(t))
        \/ \E ok \in BOOLEAN :
              /\ Send(MyStep(w).id, ok)
              /\ Store(w, t, IF ok THEN Bumped(t) ELSE open)
    BY DEF Retry, Block, Settle
  <1> HIDE DEF t, b, open
  <1>4. CountsOn(Mine(w), b) /\ CountsOn(Mine(w), Mine(w))
    BY <1>1, <1>2 DEF CountsOn, SameCounts, Counts
  <1>5. CASE Store(w, Mine(w), b)
    <2>1. WornOut(Mine(w), b)
      BY <1>2, <1>4 DEF WornOut
    <2> QED BY <1>4, <1>5, <2>1, Zenon DEF Wears
  <1>6. CASE Store(w, t, BudgetBlocked(t))
    <2> DEFINE v == BudgetBlocked(t)
    <2>1. SameCounts(v, t) /\ v.state = "blocked"
      BY <1>1, CountsMade
    <2> HIDE DEF v
    <2>2. WornOut(t, v)
      BY <1>1, <2>1 DEF WornOut, CountsOn, SameCounts, Counts
    <2> QED BY <1>1, <1>6, <2>2, Zenon DEF Wears, v
  <1>7. CASE Store(w, t, Bumped(t))
    <2> DEFINE v == Bumped(t)
    <2>1. v.retries = t.retries /\ v.pushes = t.pushes + 1
      BY <1>1, CountsMade
    <2> HIDE DEF v
    <2>2. WornOut(t, v)
      BY <1>1, <2>1 DEF WornOut, CountsOn, Counts
    <2> QED BY <1>1, <1>7, <2>2, Zenon DEF Wears, v
  <1> QED BY <1>3, <1>5, <1>6, <1>7 DEF Send

(* A worker acts.                                                           *)
LEMMA WearsActed ==
    ASSUME IInv, SendMayFail = FALSE, NEW w \in Worker,
           FinishChain(w) \/ ResumePlanned(w) \/ Submit(w) \/ Retry(w)
    PROVE  MayAct(w) /\ Wears(w, Mine(w))
  <1>1. MayAct(w)
    BY DEF FinishChain, ResumePlanned, Submit, Retry
  <1>2. Counts(Mine(w)) /\ SameCounts(Mine(w), Mine(w))
    BY <1>1, MineGood, GoodCounts DEF IInv, MayAct, SameCounts
  <1>3. FinishChain(w) => Wears(w, Mine(w))
    BY <1>2, WearsBlocked DEF FinishChain
  <1>4. CASE ResumePlanned(w)
    <2> DEFINE p == [Mine(w) EXCEPT !.plan = Tail(@)]
    <2>1. Counts(p) /\ SameCounts(p, Mine(w))
      BY <1>2 DEF Counts, SameCounts
    <2>2. GiveOutPlanned(w, Mine(w), ActiveIdx(Mine(w))) \/ Block(w, p)
      BY <1>4 DEF ResumePlanned
    <2> HIDE DEF p
    <2> QED BY <1>1, <1>2, <2>1, <2>2, WearsAdvanced, WearsBlocked
  <1>5. Submit(w) => Wears(w, Mine(w))
    BY <1>2, WearsSubmitted
  <1>6. Retry(w) => Wears(w, Mine(w))
    BY <1>2, WearsRetried
  <1> QED BY <1>1, <1>3, <1>4, <1>5, <1>6

-----------------------------------------------------------------------------

(* A worker's own step, the others holding nothing.                         *)
LEMMA TriggerWears ==
    ASSUME IInv, StopInv, WearInv, Concurrent = FALSE, SendMayFail = FALSE,
           NEW w \in Worker, Trigger(w)
    PROVE  WearInv' /\ WearStep
  <1>1. snap \in [Worker -> Snap] /\ Counts(task)
    BY GoodCounts DEF IInv, TasksOK
  <1>2. \A v \in Worker : snap[w] # NoTask /\ v # w => snap[v] = NoTask
    BY DEF StopInv, OneSnapshot
  <1>3. \A u : snap' = [snap EXCEPT ![w] = u] =>
           snap'[w] = u /\ \A v \in Worker : v # w => snap'[v] = snap[v]
    BY <1>1
  <1>4. CASE Read(w)
    <2>1. /\ \A v \in Worker : snap[v] = NoTask
          /\ task' = task
          /\ snap'[w] = [task |-> Ensured(task), acted |-> FALSE]
      BY <1>3, <1>4 DEF Read, Free
    <2>2. SameCounts(Ensured(task), task)
      BY <1>1, CountsMade
    <2>3. WearInv'
      BY <1>3, <1>4, <2>1, <2>2 DEF WearInv, Read
    <2> QED BY <1>1, <2>1, <2>3, WearingWrites DEF CountsOn, Counts
  <1>5. ASSUME snap[w] # NoTask, snap' = [snap EXCEPT ![w] = NoTask]
        PROVE  WearInv'
    BY <1>2, <1>3, <1>5 DEF WearInv
  <1>6. CASE Idle(w) \/ NobodyToRedo(w)
    <2>1. MayAct(w) /\ Leave(w)
      BY <1>6 DEF Idle, NobodyToRedo
    <2>2. SameCounts(task', task)
      BY <2>1 DEF MayAct, Leave, Mine, WearInv
    <2> QED BY <1>1, <1>5, <2>1, <2>2, WearingWrites
            DEF MayAct, Leave, CountsOn, SameCounts, Counts
  <1>7. CASE Write(w)
    <2>1. WornOut(task, task') /\ snap[w] # NoTask
      BY <1>7 DEF Write, WearInv
    <2>2. WearInv'
      BY <1>5, <1>7, <2>1 DEF Write
    <2> QED BY <2>1, <2>2, WearingWrites DEF WornOut
  <1>8. CASE FinishChain(w) \/ ResumePlanned(w) \/ Submit(w) \/ Retry(w)
    <2>1. MayAct(w) /\ Wears(w, Mine(w))
      BY <1>8, WearsActed
    <2>2. PICK t, u : Store(w, t, u) /\ CountsOn(Mine(w), t) /\ WornOut(t, u)
      BY <2>1 DEF Wears
    <2>3. /\ task' = t /\ snap'[w] = [task |-> u, acted |-> TRUE]
          /\ \A v \in Worker : v # w => snap'[v] = NoTask
      BY <1>2, <1>3, <2>1, <2>2 DEF Store, MayAct
    <2>4. WearInv'
      BY <2>2, <2>3 DEF WearInv
    <2>5. CountsOn(task, task')
      BY <2>1, <2>2, <2>3 DEF WearInv, MayAct, Mine, SameCounts, CountsOn
    <2> QED BY <2>4, <2>5, WearingWrites
  <1> QED BY <1>4, <1>6, <1>7, <1>8 DEF Trigger
(* People and the counters: they keep them, or count the first push.        *)
LEMMA CountsKeptByPeople ==
    ASSUME IInv, People
    PROVE  CountsOn(task, task')
  <1>1. Counts(task)
    BY GoodCounts DEF IInv, TasksOK
  <1>2. Counts(T) /\ SameCounts(T, task)
    BY <1>1, CountsMade DEF T
  <1>3. SameCounts(task', T) => CountsOn(task, task')
    BY <1>1, <1>2 DEF CountsOn, SameCounts, Counts
  <1>4. CASE ApprovePlan
    <2> DEFINE u == Started(T)
               b == BudgetBlocked(u)
               v == Bumped(u)
               x == Dispatched(v, 1)
    <2>1. Counts(u) /\ SameCounts(u, T)
      BY <1>2, CountsMade
    <2>2. \/ task' = b
          \/ \E ok \in BOOLEAN :
                task' = IF ok THEN [x EXCEPT !.active = u.chain[1].id]
                        ELSE [u EXCEPT !.state = "blocked",
                                       !.status = "blocked"]
      BY <1>4 DEF ApprovePlan, DispatchFirst
    <2> HIDE DEF u
    <2>3. /\ SameCounts(b, u) /\ Counts(v) /\ v.retries = u.retries
          /\ v.pushes = u.pushes + 1
      BY <2>1, CountsMade
    <2> HIDE DEF b, v
    <2>4. Counts(x) /\ SameCounts(x, v)
      BY <2>3, CountsMade
    <2> HIDE DEF x
    <2>5. /\ task'.pushes \in {u.pushes, u.pushes + 1}
          /\ task'.retries = u.retries
      BY <2>1, <2>2, <2>3, <2>4 DEF Counts, SameCounts
    <2> QED BY <1>1, <1>2, <2>1, <2>5 DEF CountsOn, SameCounts, Counts
  <1>5. CASE \/ DenyPlan \/ Accept \/ DenyFinal \/ DenyMissed
             \/ QueueRefused \/ DenyGate \/ Skip \/ Cancel \/ Pause
             \/ BudgetPause \/ BudgetResume
    BY <1>1, <1>2, <1>3, <1>5
       DEF DenyPlan, Accept, DenyFinal, Denied, DenyMissed, QueueRefused,
           DenyGate, Skip, Cancel, Pause, BudgetPause, BudgetResume,
           SameCounts, Counts, CountsOn
  <1>6. CASE OwnerConfirm
    <2>1. SameCounts(Started(T), T)
      BY <1>2, CountsMade
    <2> QED BY <1>2, <1>3, <1>6, <2>1 DEF OwnerConfirm, SameCounts, Counts
  <1>7. \A j : Counts(RolledBack(T, j)) /\ SameCounts(RolledBack(T, j), T)
    <2> TAKE j
    <2> DEFINE i == ActiveIdx(T)
               f == [T EXCEPT !.chain = [n \in DOMAIN @ |->
                       IF n = i THEN [@[n] EXCEPT !.fs = "failed",
                                                  !.st = "failed"]
                       ELSE IF n > i THEN [@[n] EXCEPT !.fs = "superseded",
                                                       !.st = "done"]
                       ELSE @[n]]]
               s == RedoStep(T, T.chain[i].id, T.chain[j].role)
    <2>1. RolledBack(T, j) = Advanced(f, s)
      BY DEF RolledBack
    <2>2. Counts(f) /\ SameCounts(f, T)
      BY <1>2 DEF Counts, SameCounts
    <2> HIDE DEF f, s
    <2>3. Counts(Advanced(f, s)) /\ SameCounts(Advanced(f, s), f)
      BY <2>2, CountsMade
    <2> QED BY <2>1, <2>2, <2>3 DEF SameCounts
  <1>8. CASE DenyBack \/ Rollback \/ QueueDeny
    <2>1. PICK j : RollBackAndSend(j) \/ task' = RolledBack(T, j)
      BY <1>8 DEF DenyBack, Rollback, QueueDeny
    <2> DEFINE u == RolledBack(T, j)
               x == Dispatched(u, Len(u.chain))
    <2>2. task' = u \/ task' = x
      BY <2>1 DEF RollBackAndSend
    <2>3. Counts(u) /\ SameCounts(u, T)
      BY <1>7
    <2> HIDE DEF u
    <2>4. SameCounts(x, u)
      BY <2>3, CountsMade
    <2> QED BY <1>3, <2>2, <2>3, <2>4 DEF SameCounts
  <1>9. CASE ApproveGate
    <2> DEFINE t == [Started(T) EXCEPT !.gate = "approved",
                                       !.plan = GatePlan \o @]
               s == FreshStep(t, Head(t.plan))
               u == [t EXCEPT !.plan = Tail(@), !.chain = Append(@, s),
                              !.active = s.id]
               x == Dispatched(u, Len(u.chain))
    <2>1. task' = t \/ task' = x \/ task' = u
      BY <1>9 DEF ApproveGate
    <2>2. Counts(Started(T)) /\ SameCounts(Started(T), T)
      BY <1>2, CountsMade
    <2>3. Counts(t) /\ SameCounts(t, T)
      BY <2>2 DEF Counts, SameCounts
    <2> HIDE DEF t, s
    <2>4. Counts(u) /\ SameCounts(u, t)
      BY <2>3 DEF Counts, SameCounts
    <2> HIDE DEF u
    <2>5. SameCounts(x, u)
      BY <2>4, CountsMade
    <2> QED BY <1>3, <2>1, <2>3, <2>4, <2>5 DEF SameCounts
  <1>10. CASE Continue
    <2> DEFINE i == ActiveIdx(T)
               t == [T EXCEPT !.chain[i].fs = "queued",
                              !.chain[i].st = "running",
                              !.chain[i].consumed = FALSE,
                              !.state = "executing",
                              !.status = "running", !.active = T.chain[i].id,
                              !.budgetPaused = @ /\ T.state # "paused"]
    <2>1. task' = t \/ task' = Dispatched(t, i)
      BY <1>10 DEF Continue
    <2>2. Counts(t) /\ SameCounts(t, T)
      BY <1>2 DEF Counts, SameCounts
    <2> HIDE DEF t
    <2>3. SameCounts(Dispatched(t, i), t)
      BY <2>2, CountsMade
    <2> QED BY <1>3, <2>1, <2>2, <2>3 DEF SameCounts
  <1> QED BY <1>4, <1>5, <1>6, <1>8, <1>9, <1>10 DEF People

LEMMA NextWears ==
    ASSUME IInv, StopInv, WearInv, Concurrent = FALSE, SendMayFail = FALSE,
           [Next]_vars
    PROVE  WearInv' /\ [WearStep]_vars
  <1>1. Counts(task)
    BY GoodCounts DEF IInv, TasksOK
  <1>2. ASSUME UNCHANGED task,
               \A v \in Worker : snap'[v] = NoTask \/ snap'[v] = snap[v]
        PROVE  WearInv' /\ WearStep
    <2>1. WearInv'
      <3> SUFFICES ASSUME NEW v \in Worker, snap'[v] # NoTask
                   PROVE  /\ ~snap'[v].acted => SameCounts(snap'[v].task, task)
                          /\ snap'[v].acted => WornOut(task, snap'[v].task)
        BY <1>2, Zenon DEF WearInv
      <3> QED BY <1>2 DEF WearInv
    <2>2. CountsOn(task, task')
      BY <1>1, <1>2 DEF CountsOn, Counts
    <2> QED BY <2>1, <2>2, WearingWrites
  <1>3. CASE People
    <2>1. \E op : Person(op)
      BY <1>3 DEF People, ApprovePlan, DenyPlan, Accept, DenyBack, DenyFinal,
             DenyMissed, Denied, QueueDeny, QueueRefused, OwnerConfirm,
             ApproveGate, DenyGate, Rollback, Skip, Cancel, Pause, Continue,
             BudgetPause, BudgetResume
    <2>2. snap' = snap /\ \A v \in Worker : snap[v] = NoTask
      BY <2>1 DEF Person, Free
    <2>3. WearInv'
      BY <2>2 DEF WearInv
    <2> QED BY <1>3, <2>3, CountsKeptByPeople, WearingWrites
  <1>4. CASE Agents
    BY <1>2, <1>4 DEF Agents, Report
  <1>5. ASSUME NEW w \in Worker, Trigger(w) PROVE WearInv' /\ WearStep
    BY <1>5, TriggerWears
  <1>6. ASSUME NEW w \in Worker, Crash(w) PROVE WearInv' /\ WearStep
    BY <1>2, <1>6 DEF Crash, IInv, TasksOK
  <1>7. CASE UNCHANGED vars
    BY <1>2, <1>7 DEF vars
  <1> QED BY <1>3, <1>4, <1>5, <1>6, <1>7 DEF Next

(* The trigger's counters (bump_push_count, bump_retry_count) wear a line   *)
(* out: they never go back, and every scan that leaves the task executing   *)
(* has used up a push, also when it sends a rejected step again.  As        *)
(* TaskTypeOK bounds the pushes, at most PushLimit scans do so, whatever    *)
(* people do between them and wherever the trigger dies.  Assumed: nobody   *)
(* writes the task while a snapshot of it is out, and every order arrives;  *)
(* one that does not is taken back uncounted (revert_failed_advance) and    *)
(* tried again.                                                             *)
THEOREM TaskScansWearOut ==
    ASSUME Concurrent = FALSE, SendMayFail = FALSE
    PROVE  Spec => ScansWearOut
  <1>1. Init => StopInv /\ WearInv
    BY DEF Init, StopInv, OneSnapshot, Agrees, MayAct, ActsOnRunning, WearInv
  <1>2. IInv /\ (StopInv /\ WearInv) /\ [Next]_vars =>
           (StopInv /\ WearInv)' /\ [WearStep]_vars
    BY NextStops, NextWears
  <1>3. WearStep =>
          /\ task'.pushes >= task.pushes /\ task'.retries >= task.retries
          /\ \A w \in Worker : Write(w) /\ task'.state = "executing" =>
                task'.pushes > task.pushes
    BY DEF WearStep, CountsOn
  <1> QED BY <1>1, <1>2, <1>3, TaskInvariant, PTL DEF Spec, ScansWearOut
=============================================================================
