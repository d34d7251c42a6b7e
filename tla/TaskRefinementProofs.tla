------------------------ MODULE TaskRefinementProofs ------------------------
(***************************************************************************)
(* Proofs for any roles, plans and limits.  Of one scan at a time: planned *)
(* roles become steps, a result completes its step once, and TaskFsm       *)
(* implements TaskLifecycle.  Of any number: an executing task has a next  *)
(* move.                                                                   *)
(***************************************************************************)
EXTENDS TaskLineProofs, TaskRefinement

(* Only one scan works on the task, and until it acts it holds the task as *)
(* it is on disk, normalised.                                              *)
SoleInv ==
    /\ \A v, w \in Worker : snap[v] # NoTask /\ snap[w] # NoTask => v = w
    /\ \A w \in Worker : MayAct(w) =>
          /\ SameFields(task, snap[w].task)
          /\ Reworked(task.chain, snap[w].task.chain)

(* What a scan is about to write serves the roles it took off the plan.    *)
ServedInv ==
    \A w \in Worker :
        snap[w] # NoTask /\ snap[w].acted => PlanMove(task, snap[w].task)

-----------------------------------------------------------------------------

(* With one scan at a time, a scan's step is one of these: it reads the task*)
Reads(w) ==
    /\ task' = task /\ snap'[w] = [task |-> Ensured(task), acted |-> FALSE]
    /\ SameFields(task, Ensured(task))
    /\ Reworked(task.chain, Ensured(task).chain) /\ actor' = actor

(* dies,                                                                   *)
Dies(w) == task' = task /\ snap'[w] = NoTask /\ actor' = actor

(* does its last write,                                                    *)
Writes(w) ==
    /\ snap[w] # NoTask /\ snap[w].acted /\ task' = snap[w].task
    /\ snap'[w] = NoTask /\ actor' = "bus"

(* leaves the task as it read it,                                          *)
Leaves(w) == MayAct(w) /\ task' = Mine(w) /\ snap'[w] = NoTask /\ actor' = "bus"

(* or acts on it: f is what it writes first, u what it will write.         *)
Works(w, f, u) ==
    /\ MayAct(w) /\ Runs(Mine(w)) /\ actor' = "bus"
    /\ task' = f /\ f.chain = Mine(w).chain /\ SameFields(Mine(w), f)
    /\ snap'[w] = [task |-> u, acted |-> TRUE]
    /\ PlanMove(Mine(w), u)
    /\ \/ Judges(Mine(w), u) \/ Blocks(Mine(w), u)
       \/ GivesOut(Mine(w), u) \/ Reopens(Mine(w), u)

(* A scan does nothing else.                                               *)
Scans(w) ==
    \/ Reads(w) \/ Dies(w) \/ Writes(w) \/ Leaves(w)
    \/ \E f, u \in Good : Works(w, f, u)

(* Proof from the handlers; and no other worker holds the task.            *)
LEMMA WorkerScans ==
    ASSUME IInv, LineInv, SoleInv, ~Concurrent, NEW w \in Worker,
           Trigger(w) \/ Crash(w)
    PROVE  Scans(w) /\ \A v \in Worker : v # w => snap'[v] = NoTask
  <1>1. snap \in [Worker -> Snap] /\ task \in Good
    BY DEF IInv, TasksOK
  <1>2. CASE Read(w)
    <2>1. /\ SameFields(task, Ensured(task))
          /\ Len(Ensured(task).chain) = Len(task.chain)
          /\ \A i \in 1..Len(task.chain) :
                Kept(task.chain[i], Ensured(task).chain[i])
      BY <1>1, EnsuredIs
    <2>2. Reworked(task.chain, Ensured(task).chain)
      BY <1>1, <2>1, LastIdGood DEF Reworked, Kept
    <2>3. /\ snap'[w] = [task |-> Ensured(task), acted |-> FALSE]
          /\ task' = task
          /\ actor' = actor
      BY <1>1, <1>2 DEF Read
    <2>4. \A v \in Worker : v # w => snap'[v] = NoTask
      BY <1>1, <1>2 DEF Read, Free
    <2> QED BY <2>1, <2>2, <2>3, <2>4 DEF Scans, Reads
  <1>3. \A v \in Worker : snap[w] # NoTask /\ v # w => snap[v] = NoTask
    BY DEF SoleInv
  <1>4. CASE Write(w) \/ Crash(w)
    BY <1>1, <1>3, <1>4 DEF Write, Crash, Scans, Writes, Dies
  <1>5. CASE MayAct(w) /\ Leave(w)
    BY <1>1, <1>3, <1>5 DEF Leave, MayAct, Scans, Leaves
  <1>6. CASE MayAct(w) /\ Acts(w)
    <2>1. PICK f \in Good, u \in Good :
            /\ Store(w, f, u) /\ f.chain = Mine(w).chain
            /\ SameFields(Mine(w), f)
            /\ PlanMove(Mine(w), u)
            /\ \/ Judges(Mine(w), u) \/ Blocks(Mine(w), u)
               \/ GivesOut(Mine(w), u) \/ Reopens(Mine(w), u)
      BY <1>6 DEF Acts
    <2>2. /\ task' = f /\ snap'[w] = [task |-> u, acted |-> TRUE]
          /\ actor' = "bus"
          /\ \A v \in Worker : v # w => snap'[v] = NoTask
      BY <1>1, <1>3, <1>6, <2>1 DEF Store, MayAct
    <2>3. Runs(Mine(w))
      BY <1>6 DEF Acts
    <2> QED BY <1>6, <2>1, <2>2, <2>3 DEF Scans, Works
  <1> QED BY <1>2, <1>4, <1>5, <1>6, TriggerDoes

(* Nothing comes between a scan's reading and its acting.                  *)
LEMMA SoleNext ==
    ASSUME IInv, IInv', LineInv, "gate" \notin Ops, ~Concurrent, SoleInv,
           [Next]_vars
    PROVE  SoleInv'
  <1>1. CASE People
    <2>1. \A w \in Worker : snap'[w] = NoTask
      BY <1>1, PeopleRequest DEF LineInv, Requests, Free
    <2> QED BY <2>1 DEF SoleInv, MayAct
  <1>2. CASE Agents
    BY <1>2 DEF Agents, Report, SoleInv, MayAct
  <1>3. ASSUME NEW w \in Worker, Trigger(w) \/ Crash(w) PROVE SoleInv'
    <2>1. Scans(w) /\ \A v \in Worker : v # w => snap'[v] = NoTask
      BY <1>3, WorkerScans
    <2>2. snap'[w] # NoTask /\ ~snap'[w].acted =>
             /\ SameFields(task', snap'[w].task)
             /\ Reworked(task'.chain, snap'[w].task.chain)
      <3>1. CASE Reads(w)
        BY <3>1 DEF Reads
      <3>2. CASE Dies(w) \/ Writes(w) \/ Leaves(w)
        BY <3>2 DEF Dies, Writes, Leaves
      <3>3. ASSUME NEW f, NEW u, Works(w, f, u) PROVE snap'[w].acted
        BY <3>3 DEF Works
      <3> QED BY <2>1, <3>1, <3>2, <3>3 DEF Scans
    <2> QED BY <2>1, <2>2 DEF SoleInv, MayAct
  <1>4. CASE UNCHANGED vars
    BY <1>4 DEF vars, SoleInv, MayAct
  <1> QED BY <1>1, <1>2, <1>3, <1>4 DEF Next

(* What a scan is about to write serves the role it took.                  *)
LEMMA ServedNext ==
    ASSUME IInv, IInv', LineInv, "gate" \notin Ops, ~Concurrent, SoleInv,
           ServedInv, [Next]_vars
    PROVE  ServedInv'
  <1>1. CASE People
    <2>1. \A w \in Worker : snap'[w] = NoTask
      BY <1>1, PeopleRequest DEF LineInv, Requests, Free
    <2> QED BY <2>1 DEF ServedInv
  <1>2. CASE Agents
    BY <1>2 DEF Agents, Report, ServedInv
  <1>3. ASSUME NEW w \in Worker, Trigger(w) \/ Crash(w) PROVE ServedInv'
    <2>1. Scans(w) /\ \A v \in Worker : v # w => snap'[v] = NoTask
      BY <1>3, WorkerScans
    <2>2. snap'[w] # NoTask /\ snap'[w].acted => PlanMove(task', snap'[w].task)
      <3>1. CASE Reads(w)
        BY <3>1 DEF Reads
      <3>2. CASE Dies(w) \/ Writes(w) \/ Leaves(w)
        BY <3>2 DEF Dies, Writes, Leaves
      <3>3. ASSUME NEW f, NEW u, Works(w, f, u)
            PROVE  PlanMove(task', snap'[w].task)
        BY <3>3 DEF Works, SameFields, PlanMove
      <3> QED BY <2>1, <3>1, <3>2, <3>3 DEF Scans
    <2> QED BY <2>1, <2>2 DEF ServedInv
  <1>4. CASE UNCHANGED vars
    BY <1>4 DEF vars, ServedInv
  <1> QED BY <1>1, <1>2, <1>3, <1>4 DEF Next

(* A role that leaves the plan becomes a step.                             *)
LEMMA ServedStep ==
    ASSUME IInv, IInv', LineInv, "gate" \notin Ops, ~Concurrent, ~Lossy,
           SoleInv, ServedInv, [Next]_vars, actor' = "bus",
           Len(task'.plan) < Len(task.plan)
    PROVE  Len(task'.chain) > Len(task.chain)
  <1>1. task \in Good /\ Len(task.plan) \in Nat /\ Len(task.chain) \in Nat
    BY LastIdGood DEF IInv, TasksOK, Good, Task
  <1>2. task'.plan # task.plan
    BY <1>1
  <1>3. ASSUME NEW w \in Worker, Trigger(w) \/ Crash(w)
        PROVE  Len(task'.chain) > Len(task.chain)
    <2>1. snap[w] # NoTask /\ snap[w].acted /\ task' = snap[w].task
      BY <1>2, <1>3, WorkerScans
         DEF Scans, Reads, Dies, Writes, Leaves, Works, SoleInv, SameFields,
             Mine, MayAct
    <2>2. PlanMove(task, task')
      BY <2>1 DEF ServedInv
    <2> QED BY <1>1, <1>2, <2>2 DEF PlanMove
  <1>4. CASE People
    BY <1>4, PeopleRequest DEF LineInv, Requests
  <1>5. CASE Agents
    BY <1>2, <1>5 DEF Agents, Report
  <1>6. CASE UNCHANGED vars
    BY <1>2, <1>6 DEF vars
  <1> QED BY <1>3, <1>4, <1>5, <1>6 DEF Next

(* With one scan at a time, agents for every role, orders that arrive and  *)
(* decompositions that are not empty (decomposition.py refuses an empty one),*)
(* a planned role leaves the plan by becoming a step, also when the trigger*)
(* dies half way.                                                          *)
THEOREM TaskPlannedRolesServed ==
    "gate" \notin Ops /\ ~Concurrent /\ ~Lossy /\ Spec => PlannedRolesServed
  <1>1. ASSUME "gate" \notin Ops, ~Concurrent, ~Lossy
        PROVE  Spec => PlannedRolesServed
    <2>1. Init => SoleInv /\ ServedInv
      BY DEF Init, SoleInv, ServedInv, MayAct
    <2>2. IInv /\ IInv' /\ LineInv /\ SoleInv /\ ServedInv /\ [Next]_vars
          => (SoleInv /\ ServedInv)'
      BY <1>1, SoleNext, ServedNext
    <2>3. IInv /\ IInv' /\ LineInv /\ SoleInv /\ ServedInv /\ [Next]_vars
          => [actor' = "bus" /\ Len(task'.plan) < Len(task.plan)
              => Len(task'.chain) > Len(task.chain)]_vars
      BY <1>1, ServedStep
    <2>4. "gate" \notin Ops
      BY <1>1
    <2>5. Spec => [](IInv /\ LineInv)
      BY <2>4, TaskInLine
    <2> QED BY <2>1, <2>2, <2>3, <2>5, PTL DEF Spec, PlannedRolesServed
  <1> QED BY <1>1

-----------------------------------------------------------------------------

(* A result file that completed its step did so once, and the step of its  *)
(* name is marked consumed.                                                *)
Spends(r, c) ==
    \A id \in DOMAIN r :
        \/ r[id].uses = 0
        \/ /\ r[id].uses = 1
           /\ \E i \in 1..Len(c) : c[i].id = id /\ c[i].consumed

(* A task not yet approved has no result.                                  *)
Spent(t) ==
    /\ Spends(result, t.chain)
    /\ t.state = "created" => ~t.chain[Len(t.chain)].consumed

(* So in the copy a scan works on, or on disk when no scan has one.        *)
SpentInv ==
    /\ \A w \in Worker : snap[w] # NoTask => Spent(snap[w].task)
    /\ (\A w \in Worker : snap[w] = NoTask) => Spent(task)

(* Nobody has a consumed step done again, no two scans overlap, and what a *)
(* scan made of the task is written; requests may come in between.         *)
KeepsConsumed ==
    /\ {"gate", "continue"} \cap Ops = {}
    /\ ~Concurrent \/ \A v, w \in Worker : v = w
    /\ ~MayCrash /\ ~SendMayFail

(* Then one scan at a time has the task, whatever people do meanwhile.     *)
OneScan == \A v, w \in Worker : snap[v] # NoTask /\ snap[w] # NoTask => v = w

LEMMA OneScanNext ==
    ASSUME IInv, LineInv, KeepsConsumed, OneScan, [Next]_vars
    PROVE  OneScan'
  <1>1. CASE People \/ Agents \/ UNCHANGED vars
    <2>1. snap' = snap
      BY <1>1
         DEF People, ApprovePlan, DenyPlan, Accept, DenyBack, DenyFinal,
             DenyMissed, Denied, QueueDeny, QueueRefused, OwnerConfirm,
             ApproveGate, DenyGate, Rollback, Skip, Cancel, Pause, Continue,
             BudgetPause, BudgetResume, Person, Agents, Report, vars
    <2> QED BY <2>1 DEF OneScan
  <1>2. ASSUME NEW w \in Worker, Trigger(w) \/ Crash(w)
        PROVE  OneScan'
    <2>1. \A v \in Worker : v # w => snap'[v] = snap[v]
      BY <1>2, WorkerSnaps
    <2>2. CASE Read(w)
      BY <2>1, <2>2 DEF Read, Free, KeepsConsumed, OneScan
    <2>3. snap[w] # NoTask \/ Read(w)
      BY <1>2
         DEF Trigger, Crash, Idle, NobodyToRedo, FinishChain, ResumePlanned,
             Submit, Retry, Write, MayAct
    <2> QED BY <2>1, <2>2, <2>3 DEF OneScan
  <1> QED BY <1>1, <1>2 DEF Next

(* The chain goes on, with its last step marked anew or a further step.    *)
Carries(c, d) == (Reworked(c, d) \/ Extended(c, d)) /\ Remembers(c, d)

(* What is consumed stays consumed.                                        *)
LEMMA ConsumedKept ==
    ASSUME NEW c \in Chain, NEW d \in Chain,
           Carries(c, d), NEW i \in 1..Len(c)
    PROVE  /\ i \in 1..Len(d) /\ d[i].id = c[i].id
           /\ c[i].consumed => d[i].consumed
  <1>1. Len(c) \in Nat /\ Len(d) \in {Len(c), Len(c) + 1}
    BY ChainSteps DEF Carries, Reworked, Extended
  <1>2. CASE i = Len(c)
    BY <1>1, <1>2 DEF Carries, Reworked, Extended, Remembers
  <1>3. CASE i # Len(c)
    BY <1>1, <1>3 DEF Carries, Reworked, Extended, Kept
  <1> QED BY <1>2, <1>3

(* No file is used anew: its step is still there and consumed.             *)
LEMMA SpendsKept ==
    ASSUME NEW c \in Chain, NEW d \in Chain, NEW r,
           Carries(c, d), Spends(r, c)
    PROVE  Spends(r, d)
  BY ConsumedKept DEF Spends

(* The file of the last step is used, which is consumed by that.           *)
LEMMA SpendsOnce ==
    ASSUME NEW c \in Chain, NEW d \in Chain, InLine(c),
           Carries(c, d), ~c[Len(c)].consumed, d[Len(c)].consumed,
           NEW id \in DOMAIN result, id = c[Len(c)].id,
           ResultsOK, Spends(result, c)
    PROVE  Spends([result EXCEPT ![id].uses = IF @ = 2 THEN 2 ELSE @ + 1], d)
  <1> DEFINE n == Len(c)
             x == [result[id] EXCEPT !.uses = IF @ = 2 THEN 2 ELSE @ + 1]
             r == [result EXCEPT ![id] = x]
  <1>1. /\ n \in Nat /\ n \in 1..n
        /\ \A i \in 1..n : c[i].id \in (Nat \ {0}) \X (Nat \ {0})
    BY ChainSteps DEF Step
  <1>3. \A i \in 1..n : c[i].id = id => i = n
    BY <1>1 DEF InLine, Before
  <1>4. result[id].uses = 0
    BY <1>3 DEF Spends
  <1>5. x.uses = 1
    BY <1>4 DEF ResultsOK, Result
  <1> HIDE DEF x
  <1>6. DOMAIN r = DOMAIN result /\ r[id] = x
        /\ \A j \in DOMAIN result : j # id => r[j] = result[j]
    OBVIOUS
  <1> HIDE DEF r
  <1>7. Spends(r, d)
    <2> SUFFICES ASSUME NEW j \in DOMAIN result
                 PROVE  \/ r[j].uses = 0
                        \/ /\ r[j].uses = 1
                           /\ \E i \in 1..Len(d) : d[i].id = j /\ d[i].consumed
      BY <1>6 DEF Spends
    <2>1. CASE j = id
      BY <1>1, <1>5, <1>6, <2>1, ConsumedKept
    <2>2. CASE j # id
      BY <1>6, <2>2, ConsumedKept DEF Spends
    <2> QED BY <2>1, <2>2
  <1> QED BY <1>7 DEF r, x

(* What a scan does to the result files: the one of an unconsumed last step*)
(* is archived, or completes it.                                           *)
LEMMA ScanResults ==
    ASSUME NEW w \in Worker, Trigger(w)
    PROVE  \/ UNCHANGED result
           \/ /\ MayAct(w) /\ MaySubmit(Mine(w))
              /\ \/ result' = [j \in DOMAIN result \ {MyStep(w).id} |->
                                  result[j]]
                 \/ /\ snap'[w].task.chain[ActiveIdx(Mine(w))].consumed
                    /\ result' = [result EXCEPT ![MyStep(w).id].uses =
                                     IF @ = 2 THEN 2 ELSE @ + 1]
  <1>1. CASE Submit(w)
    BY <1>1 DEF Submit
  <1>2. CASE Retry(w)
    BY <1>2 DEF Retry
  <1>3. CASE ~Submit(w) /\ ~Retry(w)
    BY <1>3
       DEF Trigger, Read, Idle, NobodyToRedo, Leave, FinishChain, ResumePlanned,
           Write
  <1> QED BY <1>1, <1>2, <1>3

(* What a scan makes of its task is as spent as the task was.              *)
LEMMA ActsSpent ==
    ASSUME IInv, IInv', LineInv, KeepsConsumed, NEW w \in Worker,
           Trigger(w), MayAct(w), Acts(w), Spent(Mine(w))
    PROVE  snap'[w] # NoTask /\ Spent(snap[w].task)'
  <1> DEFINE m == Mine(w)
  <1>1. PICK u \in Good :
          /\ snap' = [snap EXCEPT ![w] = [task |-> u, acted |-> TRUE]]
          /\ Remembers(m.chain, u.chain)
          /\ \/ Judges(m, u) \/ Blocks(m, u) \/ GivesOut(m, u) \/ Reopens(m, u)
    BY DEF Acts, Store, KeepsConsumed
  <1>2. /\ m \in Good /\ m.chain \in Chain /\ InLine(m.chain)
        /\ ActiveIdx(m) = Len(m.chain)
        /\ MyStep(w) = m.chain[Len(m.chain)] /\ u.chain \in Chain
    BY MineLine DEF Line, Good
  <1>3. snap'[w] = [task |-> u, acted |-> TRUE]
    BY <1>1 DEF IInv, TasksOK
  <1>4. Spends(result, m.chain) /\ ResultsOK
    BY DEF Spent, IInv
  <1>5. \/ UNCHANGED result
        \/ /\ MaySubmit(m)
           /\ \/ result' = [j \in DOMAIN result \ {MyStep(w).id} |-> result[j]]
              \/ /\ u.chain[ActiveIdx(m)].consumed
                 /\ result' = [result EXCEPT ![MyStep(w).id].uses =
                                  IF @ = 2 THEN 2 ELSE @ + 1]
    BY <1>3, ScanResults
  <1> HIDE DEF m
  <1>6. Carries(m.chain, u.chain)
    BY <1>1 DEF Judges, Blocks, GivesOut, Reopens, Carries
  <1>7. Spends(result', u.chain)
    <2>1. CASE UNCHANGED result
      BY <1>2, <1>4, <1>6, <2>1, SpendsKept
    <2>2. CASE result' = [j \in DOMAIN result \ {MyStep(w).id} |-> result[j]]
      <3>1. Spends(result, u.chain)
        BY <1>2, <1>4, <1>6, SpendsKept
      <3> QED BY <2>2, <3>1 DEF Spends
    <2>3. CASE /\ MaySubmit(m) /\ u.chain[ActiveIdx(m)].consumed
               /\ result' = [result EXCEPT ![MyStep(w).id].uses =
                                IF @ = 2 THEN 2 ELSE @ + 1]
      <3>1. /\ ~m.chain[Len(m.chain)].consumed
            /\ m.chain[Len(m.chain)].id \in DOMAIN result
        BY <1>2, <2>3 DEF MaySubmit
      <3> QED BY <1>2, <1>4, <1>6, <2>3, <3>1, SpendsOnce
    <2> QED BY <1>5, <2>1, <2>2, <2>3
  <1>8. u.state = "created" => ~u.chain[Len(u.chain)].consumed
    <2>1. CASE Judges(m, u) \/ Blocks(m, u) \/ GivesOut(m, u)
      BY <2>1 DEF Judges, Blocks, GivesOut
    <2>2. CASE Reopens(m, u)
      BY <2>2 DEF Reopens, Reworked
    <2> QED BY <1>1, <2>1, <2>2
  <1>9. snap'[w] # NoTask
    <2>1. [task |-> u, acted |-> TRUE] \in [task : Task, acted : BOOLEAN]
      BY DEF Good
    <2> QED BY <1>3, <2>1, NoTaskAssumption
  <1> QED BY <1>3, <1>7, <1>8, <1>9 DEF Spent

(* A request keeps it so.                                                  *)
LEMMA RequestSpent ==
    ASSUME IInv, IInv', LineInv, KeepsConsumed, Requests, Spent(task)
    PROVE  Spent(task)'
  <1>1. /\ T.chain \in Chain /\ Reworked(task.chain, T.chain)
        /\ Remembers(task.chain, T.chain) /\ SameFields(task, T)
        /\ task.chain \in Chain /\ task'.chain \in Chain
        /\ "continue" \notin Ops /\ result' = result
        /\ Len(T.chain) = Len(task.chain) /\ Line(task)
    BY TLine
       DEF LineInv, IInv, TasksOK, Good, Requests, KeepsConsumed, Reworked
  <1>2. Spends(result, T.chain)
    BY <1>1, SpendsKept DEF Carries, Spent
  <1>3. T.state = "created" => ~T.chain[Len(T.chain)].consumed
    <2>1. \A i \in 1..Len(task.chain) : Kept(task.chain[i], T.chain[i])
      BY EnsuredIs DEF IInv, TasksOK, T
    <2> QED BY <1>1, <2>1, ChainSteps DEF SameFields, Kept, Spent
  <1>4. CASE Relabels(task')
    BY <1>1, <1>2, <1>4 DEF Relabels, Spent
  <1>5. CASE Misses(task')
    BY <1>1, <1>5 DEF Misses, Spent
  <1>6. CASE SetsOff(task')
    BY <1>1, <1>2, <1>6, SpendsKept DEF SetsOff, Carries, Spent
  <1>7. CASE Replans(task')
    <2>1. /\ task'.chain = InitialChain(InitPlan) /\ Len(T.chain) = 1
          /\ T.state = "created"
      BY <1>1, <1>7 DEF Replans, AwaitsPlan, Line, SameFields
    <2>2. \A id \in DOMAIN result : result[id].uses = 0
      BY <1>2, <1>3, <2>1 DEF Spends
    <2>3. /\ Len(InitialChain(InitPlan)) = 1
          /\ ~InitialChain(InitPlan)[1].consumed
      BY DEF InitialChain
    <2> QED BY <1>1, <2>1, <2>2, <2>3 DEF Spends, Spent
  <1>8. CASE SendsBack(task')
    BY <1>1, <1>2, <1>8, SpendsKept DEF SendsBack, Carries, Spent
  <1>9. CASE Marks(task')
    <2>1. Spends(result, task'.chain)
      BY <1>1, <1>2, <1>9, SpendsKept DEF Marks, Carries
    <2>2. task'.state = "created" => ~task'.chain[Len(task'.chain)].consumed
      BY <1>3, <1>9 DEF Marks, SameFields
    <2> QED BY <1>1, <2>1, <2>2 DEF Spent
  <1> QED BY <1>4, <1>5, <1>6, <1>7, <1>8, <1>9 DEF Requests

(* Every step keeps it so.                                                 *)
LEMMA SpentNext ==
    ASSUME IInv, IInv', LineInv, KeepsConsumed, OneScan, OneScan', SpentInv,
           [Next]_vars
    PROVE  SpentInv'
  <1>1. CASE People
    <2>1. Requests /\ snap' = snap /\ result' = result
      BY <1>1, PeopleRequest DEF LineInv, Requests, KeepsConsumed
    <2>2. CASE \A w \in Worker : snap[w] = NoTask
      BY <2>1, <2>2, RequestSpent DEF SpentInv
    <2>3. CASE \E w \in Worker : snap[w] # NoTask
      BY <2>1, <2>3 DEF SpentInv, Spent
    <2> QED BY <2>2, <2>3
  <1>2. CASE Agents
    <2>1. PICK id \in orders, k \in Kinds : Report(id, k)
      BY <1>2 DEF Agents
    <2>2. /\ task' = task /\ snap' = snap
          /\ DOMAIN result' = DOMAIN result \cup {id}
          /\ result'[id].uses = 0
          /\ \A j \in DOMAIN result : j # id => result'[j] = result[j]
      BY <2>1 DEF Report
    <2>3. ASSUME NEW t, Spent(t)
          PROVE  /\ Spends(result', t.chain)
                 /\ t.state = "created" => ~t.chain[Len(t.chain)].consumed
      BY <2>2, <2>3 DEF Spent, Spends
    <2> QED BY <2>2, <2>3 DEF SpentInv, Spent
  <1>3. ASSUME NEW w \in Worker, Trigger(w)
        PROVE  SpentInv'
    <2>1. \A v \in Worker : v # w => snap'[v] = NoTask
      <3>1. snap[w] # NoTask \/ snap'[w] # NoTask \/ Read(w)
        BY <1>3
           DEF Trigger, Idle, NobodyToRedo, FinishChain, ResumePlanned, Submit,
               Retry, Write, MayAct
      <3>2. CASE Read(w)
        BY <1>3, <3>2, WorkerSnaps DEF Read, Free, KeepsConsumed
      <3> QED BY <1>3, <3>1, <3>2, WorkerSnaps DEF OneScan
    <2>2. snap \in [Worker -> Snap] /\ task \in Good
      BY DEF IInv, TasksOK
    <2>3. CASE Read(w)
      <3>1. /\ snap'[w] = [task |-> T, acted |-> FALSE]
            /\ result' = result /\ \A v \in Worker : snap[v] = NoTask
        BY <2>2, <2>3 DEF Read, Free, KeepsConsumed, T
      <3>2. Spends(result, T.chain)
        BY <3>1, TLine, SpendsKept
           DEF SpentInv, Spent, Carries, LineInv, IInv, TasksOK, Good
      <3>3. T.state = "created" => ~T.chain[Len(T.chain)].consumed
        BY <2>2, <3>1, EnsuredIs, LastIdGood
           DEF SpentInv, Spent, T, Kept, SameFields
      <3>4. snap'[w] # NoTask
        <4>1. T \in Task
          BY TLine DEF LineInv
        <4>2. [task |-> T, acted |-> FALSE] \in [task : Task, acted : BOOLEAN]
          BY <4>1
        <4> QED BY <3>1, <4>2, NoTaskAssumption
      <3> QED BY <2>1, <3>1, <3>2, <3>3, <3>4 DEF SpentInv, Spent
    <2>4. CASE Write(w)
      <3>1. Spent(snap[w].task) /\ snap'[w] = NoTask
            /\ task' = snap[w].task /\ result' = result
        BY <2>2, <2>4 DEF SpentInv, Write
      <3> QED BY <2>1, <3>1 DEF SpentInv, Spent
    <2>5. CASE MayAct(w) /\ Leave(w)
      <3>1. Spent(snap[w].task) /\ snap'[w] = NoTask
            /\ task' = snap[w].task /\ result' = result
        BY <2>2, <2>5 DEF SpentInv, Leave, MayAct, Mine
      <3> QED BY <2>1, <3>1 DEF SpentInv, Spent
    <2>6. CASE MayAct(w) /\ Acts(w)
      <3>1. Spent(Mine(w))
        BY <2>6 DEF SpentInv, MayAct, Mine
      <3>2. snap'[w] # NoTask /\ Spent(snap[w].task)'
        BY <1>3, <2>6, <3>1, ActsSpent
      <3> QED BY <2>1, <3>2 DEF SpentInv
    <2> QED BY <1>3, <2>3, <2>4, <2>5, <2>6, TriggerDoes
  <1>4. CASE UNCHANGED vars
    BY <1>4 DEF vars, SpentInv, Spent
  <1> QED BY <1>1, <1>2, <1>3, <1>4 DEF Next, Crash, KeepsConsumed

(* A result file completes its step once (complete_step), where            *)
(* orders arrive, scans do not overlap or die and nobody continues a step  *)
(* by hand: the step of a used file stays consumed, whatever rollbacks,    *)
(* denials and resumptions make of the chain, also while a scan has it.    *)
THEOREM TaskResultUsedOnce == KeepsConsumed /\ Spec => []ResultUsedOnce
  <1>1. ASSUME KeepsConsumed PROVE Spec => []ResultUsedOnce
    <2>1. Init => OneScan /\ SpentInv
      <3>1. Init => ~task.chain[Len(task.chain)].consumed
                    \/ task.state # "created"
        BY FirstTask DEF Open
      <3> QED BY <3>1 DEF Init, SpentInv, Spent, Spends, OneScan
    <2>2. IInv /\ IInv' /\ LineInv /\ OneScan /\ SpentInv /\ [Next]_vars
          => (OneScan /\ SpentInv)'
      BY <1>1, OneScanNext, SpentNext
    <2>3. IInv /\ SpentInv => ResultUsedOnce
      BY DEF SpentInv, Spent, Spends, ResultUsedOnce
    <2>4. "gate" \notin Ops
      BY <1>1 DEF KeepsConsumed
    <2>5. Spec => [](IInv /\ LineInv)
      BY <2>4, TaskInLine
    <2> QED BY <2>1, <2>2, <2>3, <2>5, PTL DEF Spec
  <1> QED BY <1>1

-----------------------------------------------------------------------------

(* The step has yet to get its result.                                     *)
Awaited(s) == ~StepDone(s) /\ ~s.consumed

(* The step ended well.                                                    *)
Achieved(s) == s.st \in {"completed", "done"}

(* The steps an agent works on or has answered.                            *)
Out == orders \cup DOMAIN result

(* A step that is handed out is awaited.                                   *)
LEMMA OpenAwaited ==
    ASSUME NEW s, Open(s)
    PROVE  Awaited(s)
  BY DEF Open, Awaited, StepDone, LiveFs

(* An executing task's last step is out and awaited, or achieved, which the*)
(* owner's confirmation resumes from; a created one waits with its step.   *)
GoesOn(t, out) ==
    LET last == t.chain[Len(t.chain)]
    IN  /\ t.state = "executing" =>
              /\ t.status = "running" /\ last.id \in out
              /\ \/ Awaited(last)
                 \/ "owner" \in Ops /\ Achieved(last)
        /\ t.state = "created" => t.status # "running" /\ Awaited(last)

(* Where the owner is asked, the steps before the last are achieved, and the*)
(* task that is asked about is not under way and has its last step achieved.*)
Confirmable(t, items, out) ==
    LET n == Len(t.chain)
    IN  "owner" \in Ops =>
          /\ \A i \in 1..n : i < n => Achieved(t.chain[i])
          /\ "owner_confirmation" \in items =>
                /\ t.state \notin {"executing", "created"}
                /\ Achieved(t.chain[n]) /\ t.chain[n].id \in out

Going(t) == GoesOn(t, Out) /\ Confirmable(t, pending, Out)

(* A copy may be lost, or another process look at the file meanwhile.      *)
Shared == MayCrash \/ Concurrent

(* So in every copy a scan works on, and on disk when no scan has one or   *)
(* the file is shared.                                                     *)
GoingInv ==
    /\ \A w \in Worker : snap[w] # NoTask => Going(snap[w].task)
    /\ Shared \/ (\A w \in Worker : snap[w] = NoTask) => Going(task)

(* What people and failures leave an executing task able to go on.         *)
KeepsGoing ==
    /\ {"gate", "queue_deny", "budget"} \cap Ops = {}
    /\ Shared => "unverified" \notin Kinds /\ "owner" \notin Ops
    /\ Concurrent => ~AutoAccept \/ "approved" \notin Kinds
    /\ SendMayFail => {"rollback", "deny", "continue"} \cap Ops = {}
    /\ "owner" \in Ops => {"rollback", "deny", "continue", "skip"} \cap Ops = {}

(* What a scan makes of an executing task goes on, if the order or the     *)
(* result of a step that is open again is there.                           *)
LEMMA ActsGoing ==
    ASSUME KeepsGoing, IInv, NEW m \in Good, NEW u \in Good, Going(m),
           m.state = "executing", NEW out, orders' \subseteq out,
           \/ Judges(m, u) \/ Blocks(m, u) \/ GivesOut(m, u) \/ Reopens(m, u),
           \/ m.chain[Len(m.chain)].id \in out
           \/ /\ u.state = "blocked"
              /\ pending' \subseteq pending \cup {"push_budget"}
    PROVE  GoesOn(u, out) /\ Confirmable(u, pending', out)
  <1> DEFINE n == Len(m.chain)
  <1>1. /\ n \in Nat /\ n \in 1..n /\ m.chain \in Chain
        /\ GoesOn(m, Out) /\ Confirmable(m, pending, Out)
    BY LastIdGood DEF Good, Going
  <1>2. /\ m.status = "running"
        /\ "owner" \in Ops => "owner_confirmation" \notin pending
    BY <1>1 DEF GoesOn, Confirmable
  <1>3. Reworked(m.chain, u.chain) =>
           /\ Len(u.chain) = n
           /\ "owner" \in Ops =>
                 \A i \in 1..n : i < n => Achieved(u.chain[i])
    BY <1>1 DEF Reworked, Kept, Confirmable, Achieved
  <1>4. CASE Judges(m, u)
    BY <1>2, <1>3, <1>4 DEF Judges, GoesOn, Confirmable
  <1>5. CASE Blocks(m, u)
    <2>1. /\ Reworked(m.chain, u.chain) /\ u.state = "blocked"
          /\ "owner_confirmation" \in pending' =>
                \/ "owner_confirmation" \in pending
                \/ /\ Achieved(u.chain[Len(u.chain)])
                   /\ pending' = pending \cup {"owner_confirmation"}
      BY <1>5 DEF Blocks, Achieved
    <2>2. Len(u.chain) = n /\ u.chain[n].id = m.chain[n].id
      BY <2>1 DEF Reworked
    <2> QED BY <1>2, <1>3, <2>1, <2>2 DEF GoesOn, Confirmable
  <1>6. CASE GivesOut(m, u)
    <2>1. /\ Len(u.chain) = n + 1 /\ Awaited(u.chain[n + 1])
          /\ "owner_confirmation" \in pending' =>
                "owner_confirmation" \in pending
      BY <1>1, <1>6 DEF GivesOut, Extended, Open, Awaited, StepDone, LiveFs
    <2>2. "owner" \in Ops =>
             \A i \in 1..n + 1 : i < n + 1 => Achieved(u.chain[i])
      <3>1. \A i \in 1..n : i < n => u.chain[i].st = m.chain[i].st
        BY <1>1, <1>6 DEF GivesOut, Extended, Kept
      <3>2. Achieved(u.chain[n])
        BY <1>1, <1>6 DEF GivesOut, Finishes, GoesOn, Achieved, Awaited
      <3> QED BY <1>1, <3>1, <3>2 DEF Confirmable, Achieved
    <2>3. \/ u.state = "blocked"
          \/ /\ u.state = "executing" /\ u.status = "running"
             /\ u.chain[n + 1].id \in out
      BY <1>6, <2>1 DEF GivesOut
    <2> QED BY <1>1, <1>2, <2>1, <2>2, <2>3 DEF GoesOn, Confirmable
  <1>7. CASE Reopens(m, u)
    <2>1. /\ Reworked(m.chain, u.chain) /\ Len(u.chain) = n
          /\ u.chain[n].id = m.chain[n].id /\ pending' = pending
          /\ u.state = "executing" /\ u.status = "running"
          /\ Awaited(u.chain[n])
      BY <1>1, <1>2, <1>7 DEF Reopens, Reworked, Open, Awaited, StepDone, LiveFs
    <2>2. u.chain[n].id \in out
      BY <2>1
    <2> QED BY <1>1, <1>2, <1>3, <2>1, <2>2 DEF GoesOn, Confirmable
  <1> QED BY <1>4, <1>5, <1>6, <1>7

(* Whenever a scan goes on from a step, the task is executing, and the file*)
(* or the order of a step that stays open is there.                        *)
LEMMA Underway ==
    ASSUME IInv, LineInv, KeepsGoing, NEW w \in Worker, Going(Mine(w)),
           ResumePlanned(w) \/ Submit(w) \/ Retry(w)
    PROVE  LET last == Mine(w).chain[Len(Mine(w).chain)]
           IN  /\ Mine(w).state = "executing"
               /\ \/ last.id \in orders' \cup DOMAIN result'
                  \/ /\ ~Shared /\ snap'[w].task.state = "blocked"
                     /\ pending' = pending \cup {"push_budget"}
  <1> DEFINE m == Mine(w)
             last == m.chain[Len(m.chain)]
  <1>1. /\ MayAct(w) /\ m \in Good /\ GoesOn(m, Out)
        /\ ActiveIdx(m) = Len(m.chain) /\ MyStep(w) = last
    BY MineLine DEF Going, ResumePlanned, Submit, Retry
  <1>2. CASE ResumePlanned(w)
    <2>1. StepDone(last) /\ m.state = "executing"
      BY <1>1, <1>2 DEF ResumePlanned, MayResume
    <2>2. last.id \in orders \cup DOMAIN result
      BY <1>1, <2>1 DEF GoesOn, Out
    <2>3. orders \subseteq orders' /\ result' = result
      BY <1>2
         DEF ResumePlanned, GiveOutPlanned, GiveOut, BlockFor, Block, Send
    <2> QED BY <2>1, <2>2, <2>3
  <1>3. ASSUME MaySubmit(m)
        PROVE  m.state = "executing" /\ last.id \in DOMAIN result
    <2>1. /\ ~StepDone(last) /\ Executable(m) /\ last.id \in DOMAIN result
      BY <1>1, <1>3 DEF MaySubmit
    <2> QED BY <1>1, <2>1 DEF Executable, GoesOn
  <1>4. CASE Submit(w)
    <2>1. MaySubmit(m) /\ DOMAIN result' = DOMAIN result
      BY <1>4 DEF Submit
    <2> QED BY <1>3, <2>1
  <1>5. CASE Retry(w)
    <2> DEFINE t == [m EXCEPT !.retries = @ + 1]
    <2>1. /\ MaySubmit(m) /\ result[last.id].kind = "unverified"
          /\ \/ UNCHANGED result
             \/ /\ snap' = [snap EXCEPT ![w] = [task |-> BudgetBlocked(t),
                                                acted |-> TRUE]]
                /\ pending' = pending \cup {"push_budget"}
             \/ \E ok \in BOOLEAN :
                   /\ Send(last.id, ok)
                   /\ ok \/ UNCHANGED result
      BY <1>1, <1>5 DEF Retry, Store
    <2>2. "unverified" \in Kinds
      BY <1>3, <2>1 DEF LineInv, KindsOK
    <2>3. ~Shared
      BY <2>2 DEF KeepsGoing
    <2>4. CASE UNCHANGED result
      BY <1>3, <2>1, <2>3, <2>4
    <2>5. CASE /\ snap' = [snap EXCEPT ![w] = [task |-> BudgetBlocked(t),
                                               acted |-> TRUE]]
               /\ pending' = pending \cup {"push_budget"}
      <3>1. BudgetBlocked(t).state = "blocked"
        BY <1>1 DEF BudgetBlocked, Good, Task
      <3>2. snap'[w].task.state = "blocked"
        BY <2>5, <3>1 DEF IInv, TasksOK
      <3> QED BY <1>3, <2>1, <2>3, <2>5, <3>2
    <2>6. ASSUME NEW ok \in BOOLEAN, Send(last.id, ok), ok
          PROVE  last.id \in orders'
      BY <2>6 DEF Send
    <2> QED BY <1>3, <2>1, <2>3, <2>4, <2>5, <2>6
  <1> QED BY <1>2, <1>4, <1>5

(* What a scan makes of its task goes on.                                  *)
LEMMA ScanGoing ==
    ASSUME IInv, LineInv, KeepsGoing, NEW w \in Worker, MayAct(w),
           Going(Mine(w)),
           FinishChain(w) \/ ResumePlanned(w) \/ Submit(w) \/ Retry(w)
    PROVE  /\ snap'[w] # NoTask /\ Going(snap[w].task)'
           /\ Shared => Going(task)'
  <1> DEFINE m == Mine(w)
             n == Len(m.chain)
             last == m.chain[n]
             out == orders' \cup DOMAIN result'
  <1>1. PICK f \in Good, u \in Good :
          /\ Store(w, f, u) /\ f.chain = m.chain /\ SameFields(m, f)
          /\ \/ Judges(m, u) \/ Blocks(m, u) \/ GivesOut(m, u) \/ Reopens(m, u)
    BY FinishChainActs, ResumePlannedActs, SubmitActs, RetryActs DEF Acts
  <1>2. /\ snap'[w] = [task |-> u, acted |-> TRUE] /\ task' = f
        /\ m \in Good
    BY <1>1, MineLine DEF Store, IInv, TasksOK
  <1>3. snap'[w] # NoTask
    <2>1. [task |-> u, acted |-> TRUE] \in [task : Task, acted : BOOLEAN]
      BY DEF Good
    <2> QED BY <1>2, <2>1, NoTaskAssumption
  <1>4. CASE FinishChain(w)
    <2>1. /\ u.chain = m.chain /\ u.state = "accepting"
          /\ pending' = pending \cup {"final_acceptance"}
          /\ UNCHANGED <<orders, result>> /\ StepDone(last)
      <3> DEFINE a == [m EXCEPT !.state = "accepting", !.wait = "none",
                                !.status = "pending"]
      <3>1. a.chain = m.chain /\ a.state = "accepting"
        BY <1>2 DEF Good, Task
      <3> HIDE DEF a
      <3>2. snap' = [snap EXCEPT ![w] = [task |-> a, acted |-> TRUE]]
        BY <1>4 DEF FinishChain, EnterAccepting, Settle, Store, a
      <3>3. u = a
        BY <1>2, <3>2 DEF IInv, TasksOK
      <3> QED BY <1>4, <3>1, <3>3, MineLine
              DEF FinishChain, EnterAccepting, ChainOver
    <2>2. GoesOn(m, Out) /\ Confirmable(m, pending, Out)
      BY DEF Going
    <2>3. m.state \notin {"accepting", "created"}
      BY <1>4, <2>1, <2>2
         DEF FinishChain, ChainOver, GoesOn, Awaited
    <2>4. GoesOn(u, out) /\ Confirmable(u, pending', out)
      BY <2>1, <2>2 DEF GoesOn, Confirmable, Out
    <2>5. GoesOn(f, out) \/ "owner" \in Ops
      BY <1>1, <2>1, <2>2 DEF GoesOn, Out, SameFields
    <2> QED BY <1>1, <1>2, <1>3, <2>4, <2>5
            DEF Going, Out, KeepsGoing, Confirmable
  <1>5. CASE ResumePlanned(w) \/ Submit(w) \/ Retry(w)
    <2>1. /\ m.state = "executing"
          /\ \/ last.id \in out
             \/ /\ ~Shared /\ u.state = "blocked"
                /\ pending' = pending \cup {"push_budget"}
      BY <1>2, <1>5, Underway
    <2>2. GoesOn(u, out) /\ Confirmable(u, pending', out)
      <3>1. orders' \subseteq out /\ Going(m)
        OBVIOUS
      <3> HIDE DEF m, out
      <3> QED BY <1>1, <1>2, <2>1, <3>1, ActsGoing
    <2>3. Shared => GoesOn(f, out) /\ Confirmable(f, pending', out)
      BY <1>1, <2>1
         DEF Going, GoesOn, Confirmable, SameFields, KeepsGoing
    <2> QED BY <1>2, <1>3, <2>2, <2>3 DEF Going, Out
  <1> QED BY <1>4, <1>5

(* The task read normalised goes on as it did.                             *)
LEMMA TGoing ==
    ASSUME IInv, LineInv, Going(task)
    PROVE  Going(T)
  <1> DEFINE n == Len(task.chain)
  <1>1. /\ n \in 1..n /\ n \in Nat /\ SameFields(task, T) /\ Len(T.chain) = n
        /\ \A i \in 1..n :
              /\ Kept(task.chain[i], T.chain[i])
              /\ StepDone(T.chain[i]) => StepDone(task.chain[i])
    BY EnsuredIs, LastIdGood DEF IInv, TasksOK, T
  <1>2. /\ Awaited(task.chain[n]) => Awaited(T.chain[n])
        /\ T.chain[n].id = task.chain[n].id
        /\ \A i \in 1..n : Achieved(task.chain[i]) => Achieved(T.chain[i])
    BY <1>1 DEF Kept, Awaited, Achieved
  <1>3. GoesOn(T, Out)
    BY <1>1, <1>2 DEF Going, GoesOn, SameFields
  <1>4. Confirmable(T, pending, Out)
    BY <1>1, <1>2 DEF Going, Confirmable, SameFields
  <1> QED BY <1>3, <1>4 DEF Going

(* A request lets it go on.                                                *)
LEMMA RequestGoing ==
    ASSUME IInv, IInv', LineInv, KeepsGoing, Requests, Going(task)
    PROVE  Going(task)'
  <1> DEFINE n == Len(T.chain)
             out == orders' \cup DOMAIN result
  <1>1. /\ T \in Good /\ T.chain \in Chain /\ n \in 1..n /\ n \in Nat /\ Line(T)
        /\ result' = result
    BY TLine DEF LineInv, Requests
  <1>2. GoesOn(T, Out) /\ Confirmable(T, pending, Out)
    BY TGoing DEF Going
  <1>3. GoesOn(task', out) /\ Confirmable(task', pending', out)
    <2>1. CASE Relabels(task')
      <3>1. /\ task'.chain = T.chain /\ orders' = orders
            /\ "owner_confirmation" \in pending' =>
                  "owner_confirmation" \in pending
        BY <2>1 DEF Relabels
      <3>2. \/ task'.state \notin {"executing", "created"}
            \/ /\ "owner" \in Ops /\ "owner_confirmation" \in pending
               /\ task'.state = "executing" /\ task'.status = "running"
               /\ pending' = pending \ {"owner_confirmation"}
        BY <2>1 DEF Relabels, KeepsGoing
      <3> QED BY <1>1, <1>2, <3>1, <3>2 DEF GoesOn, Confirmable, Out
    <2>2. CASE Misses(task')
      <3>1. /\ task' = task /\ out = Out
            /\ "owner_confirmation" \in pending' =>
                  "owner_confirmation" \in pending
        BY <2>2 DEF Misses, Out
      <3> QED BY <3>1 DEF Going, GoesOn, Confirmable
    <2>3. CASE SetsOff(task')
      <3>1. /\ T.state = "created" /\ n = 1 /\ Len(task'.chain) = 1
            /\ Awaited(T.chain[1])
        BY <1>1, <1>2, <2>3 DEF SetsOff, AwaitsPlan, Line, Reworked, GoesOn
      <3>2. /\ "owner_confirmation" \in pending' =>
                  "owner_confirmation" \in pending
            /\ \/ /\ task'.state = "executing" /\ task'.status = "running"
                  /\ Awaited(task'.chain[1]) /\ task'.chain[1].id \in orders'
               \/ task'.state = "blocked"
        BY <2>3, <3>1, OpenAwaited DEF SetsOff, Reworked, Awaited
      <3> QED BY <1>2, <3>1, <3>2 DEF GoesOn, Confirmable
    <2>4. CASE Replans(task')
      <3>1. /\ T.state = "created" /\ task'.state = "created"
            /\ task'.status = "pending"
            /\ task'.chain = InitialChain(InitPlan)
            /\ "owner_confirmation" \in pending' =>
                  "owner_confirmation" \in pending
        BY <2>4 DEF Replans, AwaitsPlan
      <3>2. /\ Len(InitialChain(InitPlan)) = 1
            /\ Awaited(InitialChain(InitPlan)[1])
        BY DEF InitialChain, Awaited, StepDone
      <3> QED BY <1>2, <3>1, <3>2 DEF GoesOn, Confirmable
    <2>5. CASE SendsBack(task')
      <3>1. /\ "owner" \notin Ops /\ ~SendMayFail /\ "queue_deny" \notin Ops
        BY <2>5 DEF SendsBack, KeepsGoing
      <3>2. /\ task'.state = "executing" /\ task'.status = "running"
            /\ Awaited(task'.chain[Len(task'.chain)])
            /\ task'.chain[Len(task'.chain)].id \in orders'
        BY <2>5, <3>1, OpenAwaited DEF SendsBack, Extended
      <3> QED BY <3>1, <3>2 DEF GoesOn, Confirmable
    <2>6. CASE Marks(task')
      <3>1. CASE task'.state = "cancelled" /\ pending' = {}
        <4>1. \A i \in 1..n : i < n => task'.chain[i].st = T.chain[i].st
          BY <1>1, <2>6 DEF Marks, Reworked, Kept
        <4>2. Len(task'.chain) = n
          BY <2>6 DEF Marks, Reworked
        <4> QED BY <1>2, <3>1, <4>1, <4>2 DEF GoesOn, Confirmable, Achieved
      <3>2. CASE /\ "continue" \in Ops
                 /\ task'.state = "executing" /\ task'.status = "running"
                 /\ Open(task'.chain[Len(task'.chain)])
                 /\ SendMayFail \/ task'.chain[Len(task'.chain)].id \in orders'
        BY <3>2, OpenAwaited DEF KeepsGoing, GoesOn, Confirmable
      <3>3. CASE /\ "skip" \in Ops /\ Closed(task'.chain[Len(task'.chain)])
                 /\ task'.chain[Len(task'.chain)].consumed =>
                       T.chain[n].consumed
                 /\ ~StepDone(task'.chain[Len(task'.chain)])
                 /\ SameFields(T, task') /\ pending' = pending
                 /\ orders' = orders
        <4>1. /\ "owner" \notin Ops
              /\ Len(task'.chain) = n /\ task'.chain[n].id = T.chain[n].id
          BY <2>6, <3>3 DEF KeepsGoing, Marks, Reworked
        <4> QED BY <1>1, <1>2, <3>3, <4>1
                DEF GoesOn, Confirmable, Awaited, SameFields, Out
      <3> QED BY <2>6, <3>1, <3>2, <3>3 DEF Marks
    <2> QED BY <2>1, <2>2, <2>3, <2>4, <2>5, <2>6 DEF Requests
  <1> QED BY <1>1, <1>3 DEF Going, Out

(* People withdraw no order of a task.                                     *)
LEMMA PeopleKeepOut ==
    ASSUME People
    PROVE  Out \subseteq Out'
  <1>1. /\ result' = result
        /\ orders' = orders \/ \E id, ok : Send(id, ok)
    <2>1. CASE ApprovePlan
      BY <2>1 DEF ApprovePlan, DispatchFirst
    <2>2. CASE DenyBack \/ Rollback
      BY <2>2 DEF DenyBack, Denied, Rollback, RollBackAndSend
    <2>3. CASE ApproveGate
      BY <2>3 DEF ApproveGate
    <2>4. CASE Continue
      BY <2>4 DEF Continue
    <2>5. CASE \/ DenyPlan \/ Accept \/ DenyFinal \/ DenyMissed \/ QueueDeny
               \/ QueueRefused \/ OwnerConfirm \/ DenyGate
      BY <2>5
         DEF DenyPlan, Accept, DenyFinal, DenyMissed, Denied, QueueDeny,
             QueueRefused, OwnerConfirm, DenyGate
    <2>6. CASE Skip \/ Cancel \/ Pause \/ BudgetPause \/ BudgetResume
      BY <2>6 DEF Skip, Cancel, Pause, BudgetPause, BudgetResume
    <2> QED BY <2>1, <2>2, <2>3, <2>4, <2>5, <2>6 DEF People
  <1> QED BY <1>1 DEF Send, Out

(* Nor does a scan, where it neither archives a result nor accepts a task. *)
LEMMA ScanKeepsOut ==
    ASSUME LineInv, "unverified" \notin Kinds,
           ~AutoAccept \/ "approved" \notin Kinds,
           NEW w \in Worker, Trigger(w) \/ Crash(w)
    PROVE  Out \subseteq Out'
  <1>1. CASE ~Submit(w) /\ ~Retry(w)
    <2>1. CASE \/ Read(w) \/ Idle(w) \/ NobodyToRedo(w) \/ Write(w)
               \/ Crash(w) \/ FinishChain(w)
      BY <2>1
         DEF Read, Idle, NobodyToRedo, Leave, Write, Crash, FinishChain,
             EnterAccepting, Out
    <2>2. CASE ResumePlanned(w)
      BY <2>2
         DEF ResumePlanned, GiveOutPlanned, GiveOut, BlockFor, Block, Send,
             Out
    <2> QED BY <1>1, <2>1, <2>2 DEF Trigger
  <1>2. ASSUME MaySubmit(Mine(w))
        PROVE  result[MyStep(w).id].kind \in Kinds
    BY <1>2 DEF MaySubmit, MyStep, LineInv, KindsOK
  <1>3. CASE Retry(w)
    BY <1>2, <1>3 DEF Retry
  <1>4. CASE Submit(w)
    <2> DEFINE k == result[MyStep(w).id].kind
    <2>1. ~(AutoAccept /\ k = "approved")
      BY <1>2, <1>4 DEF Submit
    <2>2. orders' = orders \/ \E id, ok : Send(id, ok)
      <3>1. ASSUME NEW t, EndChain(w, t, k)
            PROVE  orders' = orders
        BY <2>1, <3>1 DEF EndChain, EnterAccepting
      <3>2. ASSUME NEW t, NEW i, NEW s, GiveOut(w, t, i, s)
            PROVE  orders' = orders \/ \E id, ok : Send(id, ok)
        BY <3>2 DEF GiveOut, BlockFor
      <3>3. ASSUME NEW t, Block(w, t)
            PROVE  orders' = orders
        BY <3>3 DEF Block
      <3>4. ASSUME NEW t, NEW item, BlockFor(w, t, item)
            PROVE  orders' = orders
        BY <3>4 DEF BlockFor
      <3>5. ASSUME NEW t, NEW i, NoNextRole(w, t, i, k)
            PROVE  orders' = orders \/ \E id, ok : Send(id, ok)
        BY <3>1, <3>2, <3>3, <3>5 DEF NoNextRole
      <3>6. ASSUME NEW t, NEW i, NextPlanned(w, t, i, k)
            PROVE  orders' = orders \/ \E id, ok : Send(id, ok)
        BY <3>2, <3>3, <3>5, <3>6 DEF NextPlanned, GiveOutPlanned
      <3>7. ASSUME NEW t, NEW i, NextByFlow(w, t, i, k)
            PROVE  orders' = orders \/ \E id, ok : Send(id, ok)
        BY <3>2, <3>5, <3>7 DEF NextByFlow
      <3> QED BY <1>4, <3>4, <3>6, <3>7 DEF Submit
    <2>3. DOMAIN result' = DOMAIN result
      BY <1>4 DEF Submit
    <2> QED BY <2>2, <2>3 DEF Send, Out
  <1> QED BY <1>1, <1>3, <1>4

(* A copy nobody touches goes on as it did, if nothing is withdrawn.       *)
LEMMA CopyGoing ==
    ASSUME "owner" \notin Ops, Out \subseteq Out', NEW t, Going(t)
    PROVE  GoesOn(t, Out') /\ Confirmable(t, pending', Out')
  BY DEF Going, GoesOn, Confirmable

(* Every step lets them go on.                                             *)
LEMMA GoingNext ==
    ASSUME IInv, IInv', LineInv, KeepsGoing, Concurrent \/ SoleInv, GoingInv,
           [Next]_vars
    PROVE  GoingInv'
  <1>1. CASE People
    <2>1. /\ Requests
          /\ Concurrent \/ \A w \in Worker : snap[w] = NoTask
      BY <1>1, PeopleRequest DEF LineInv, Requests, Free, KeepsGoing
    <2>2. Going(task)'
      BY <2>1, RequestGoing DEF GoingInv, Shared
    <2>3. snap' = snap
      BY <2>1 DEF Requests
    <2>4. ASSUME NEW v \in Worker, snap[v] # NoTask
          PROVE  Going(snap[v].task)'
      BY <1>1, <2>1, <2>3, <2>4, PeopleKeepOut, CopyGoing
         DEF GoingInv, KeepsGoing, Shared, Going
    <2> QED BY <2>2, <2>3, <2>4 DEF GoingInv
  <1>2. CASE Agents
    <2>1. PICK id \in orders, k \in Kinds : Report(id, k)
      BY <1>2 DEF Agents
    <2>2. /\ task' = task /\ snap' = snap /\ pending' = pending /\ Out' = Out
      BY <2>1 DEF Report, Out
    <2> QED BY <2>2 DEF GoingInv, Going
  <1>3. ASSUME NEW w \in Worker, Trigger(w) \/ Crash(w)
        PROVE  GoingInv'
    <2>1. ASSUME NEW v \in Worker, v # w, snap'[v] # NoTask
          PROVE  Going(snap[v].task)'
      <3>1. CASE Concurrent
        <4>1. snap'[v] = snap[v]
          BY <1>3, <2>1, WorkerSnaps
        <4> QED BY <1>3, <2>1, <3>1, <4>1, ScanKeepsOut, CopyGoing
                DEF GoingInv, KeepsGoing, Shared, Going
      <3> QED BY <1>3, <2>1, <3>1, WorkerScans
    <2>2. snap \in [Worker -> Snap] /\ task \in Good
      BY DEF IInv, TasksOK
    <2>3. CASE Read(w)
      <3>1. /\ snap'[w] = [task |-> T, acted |-> FALSE] /\ task' = task
            /\ Out' = Out /\ pending' = pending
            /\ Shared \/ \A v \in Worker : snap[v] = NoTask
        BY <2>2, <2>3 DEF Read, Free, Shared, T, Out
      <3>2. Going(task) /\ Going(T)
        BY <3>1, TGoing DEF GoingInv
      <3> QED BY <2>1, <3>1, <3>2 DEF GoingInv, Going
    <2>4. CASE Crash(w)
      <3>1. Going(task) /\ task' = task /\ Out' = Out /\ pending' = pending
            /\ snap'[w] = NoTask
        BY <2>2, <2>4 DEF Crash, GoingInv, Out, Shared
      <3> QED BY <2>1, <3>1 DEF GoingInv, Going
    <2>5. CASE Write(w) \/ Idle(w) \/ NobodyToRedo(w)
      <3>1. /\ Going(snap[w].task) /\ task' = snap[w].task /\ Out' = Out
            /\ pending' = pending /\ snap'[w] = NoTask
        BY <2>2, <2>5
           DEF Write, Idle, NobodyToRedo, Leave, MayAct, Mine, GoingInv, Out
      <3> QED BY <2>1, <3>1 DEF GoingInv, Going
    <2>6. CASE FinishChain(w) \/ ResumePlanned(w) \/ Submit(w) \/ Retry(w)
      <3>1. MayAct(w)
        BY <2>6 DEF FinishChain, ResumePlanned, Submit, Retry
      <3>2. Going(Mine(w))
        BY <3>1 DEF GoingInv, MayAct, Mine
      <3>3. /\ snap'[w] # NoTask /\ Going(snap[w].task)'
            /\ Shared => Going(task)'
        BY <2>6, <3>1, <3>2, ScanGoing
      <3> QED BY <2>1, <3>3 DEF GoingInv, Shared
    <2> QED BY <1>3, <2>3, <2>4, <2>5, <2>6 DEF Trigger
  <1>4. CASE UNCHANGED vars
    BY <1>4 DEF vars, GoingInv, Going, Out
  <1> QED BY <1>1, <1>2, <1>3, <1>4 DEF Next

(* A task is created able to go on.                                        *)
LEMMA GoingInit == Init => GoingInv
  <1> SUFFICES ASSUME Init PROVE Going(task)
    BY DEF Init, GoingInv
  <1>1. GoesOn(task, Out)
    BY FirstTask, OpenAwaited DEF GoesOn, Out
  <1>2. Confirmable(task, pending, Out)
    <2>1. Len(task.chain) = 1 /\ "owner_confirmation" \notin pending
      BY FirstTask
    <2> QED BY <2>1 DEF Confirmable
  <1> QED BY <1>1, <1>2 DEF Going

(* What is able to go on has a next move when it is read.                  *)
LEMMA GoingMoves ==
    ASSUME IInv, LineInv, GoingInv
    PROVE  ExecutingHasNextMove
  <1> SUFFICES ASSUME task.state = "executing",
                      \A w \in Worker : snap[w] = NoTask
               PROVE  \/ T.chain[ActiveIdx(T)].id \in orders
                      \/ MaySubmit(T) \/ MayResume(T) \/ ChainOver(T)
    BY DEF ExecutingHasNextMove
  <1> DEFINE n == Len(T.chain)
  <1>1. /\ ActiveIdx(T) = n /\ DOMAIN T.chain = 1..n /\ n \in 1..n
        /\ SameFields(task, T) /\ n \in Nat
    BY TLine DEF LineInv
  <1>2. T.state = "executing" /\ GoesOn(T, Out) /\ Confirmable(T, pending, Out)
    BY <1>1, TGoing DEF GoingInv, Going, SameFields
  <1>3. T.status = "running"
    BY <1>2 DEF GoesOn
  <1>4. CASE Awaited(T.chain[n])
    BY <1>1, <1>2, <1>3, <1>4 DEF GoesOn, MaySubmit, Executable, Awaited, Out
  <1>5. CASE "owner" \in Ops /\ Achieved(T.chain[n])
    <2>1. AllDone(T) /\ StepDone(T.chain[n])
      BY <1>1, <1>2, <1>5 DEF Confirmable, AllDone, Achieved, StepDone
    <2> QED BY <1>1, <1>2, <1>3, <2>1 DEF MayResume, ChainOver
  <1> QED BY <1>2, <1>4, <1>5 DEF GoesOn

(* Between scans an executing task can go on, where KeepsGoing: its agent has*)
(* a work order or has answered it, or the trigger finds the chain over or *)
(* a planned role to serve.  Scans may overlap with each other and with    *)
(* requests.                                                               *)
THEOREM TaskExecutingHasNextMove ==
    KeepsGoing /\ Spec => []ExecutingHasNextMove
  <1>1. ASSUME KeepsGoing PROVE Spec => []ExecutingHasNextMove
    <2>1. Init => SoleInv /\ GoingInv
      BY GoingInit DEF Init, SoleInv, MayAct
    <2>2. /\ IInv /\ IInv' /\ LineInv /\ (Concurrent \/ SoleInv) /\ GoingInv
          /\ [Next]_vars
          => ((Concurrent \/ SoleInv) /\ GoingInv)'
      BY <1>1, SoleNext, GoingNext DEF KeepsGoing
    <2>3. IInv /\ LineInv /\ GoingInv => ExecutingHasNextMove
      BY GoingMoves
    <2>4. "gate" \notin Ops
      BY <1>1 DEF KeepsGoing
    <2>5. Spec => [](IInv /\ LineInv)
      BY <2>4, TaskInLine
    <2> QED BY <2>1, <2>2, <2>3, <2>5, PTL DEF Spec
  <1> QED BY <1>1

-----------------------------------------------------------------------------

(* The lines that keep the lifecycle's promises.                           *)
PlainLine ==
    /\ Ops \subseteq {"approve_plan", "deny_plan", "accept", "deny",
                      "deny_missed", "queue_deny", "queue_refused", "cancel"}
    /\ ~Concurrent /\ ~Stuck /\ ~Lossy /\ "decompose" \notin Kinds

(* A blocked or unapproved task has its last step undone, so that no scan  *)
(* takes it for finished; an unapproved one is as it was created.          *)
Calm(t) ==
    /\ t.state # "paused"
    /\ t.state \in {"blocked", "created"} => ~StepDone(t.chain[Len(t.chain)])
    /\ t.state = "created" =>
          /\ t.status # "running" /\ t.plan = Tail(InitPlan)
          /\ Len(t.chain) = 1 /\ t.chain[1].role = Head(InitPlan)

(* So on disk and in every copy.                                           *)
CalmInv ==
    /\ Calm(task)
    /\ \A w \in Worker : snap[w] # NoTask => Calm(snap[w].task)

(* What a scan makes of a running task t: u.                               *)
Onward(t, u) ==
    /\ t.state = "executing"
    /\ \/ /\ Reworked(t.chain, u.chain) /\ u.plan = t.plan
          /\ \/ u.state \in {"executing", "blocked"}
             \/ u.state \in {"accepting", "succeeded"} /\ u.plan = <<>>
       \/ /\ Extended(t.chain, u.chain) /\ u.state \in {"executing", "blocked"}
          /\ \/ t.plan = <<>> /\ u.plan = <<>>
             \/ /\ t.plan # <<>> /\ u.plan = Tail(t.plan)
                /\ u.chain[Len(u.chain)].role = Head(t.plan)

(* What a scan is about to write goes on with the task on disk.            *)
OnwardInv ==
    \A w \in Worker :
        snap[w] # NoTask /\ snap[w].acted => Onward(task, snap[w].task)

-----------------------------------------------------------------------------

(* A scan acts on running tasks only.                                      *)
LEMMA CalmRuns ==
    ASSUME NEW m \in Good, Line(m), Calm(m), Runs(m)
    PROVE  m.state = "executing"
  <1>1. m.chain \in Chain /\ ActiveIdx(m) = Len(m.chain)
    BY ActiveIsLast DEF Good, Line
  <1>2. CASE m.state = "created"
    BY <1>1, <1>2 DEF Runs, Calm, ChainOver
  <1>3. CASE ChainOver(m) /\ m.state \notin {"paused", "cancelled"}
    <2>1. /\ StepDone(m.chain[Len(m.chain)])
          /\ m.state \notin {"succeeded", "accepting"}
      BY <1>1, <1>3 DEF ChainOver
    <2>2. m.state \in State
      BY DEF Good, Task
    <2> QED BY <1>3, <2>1, <2>2 DEF Calm, State
  <1> QED BY <1>2, <1>3 DEF Runs

(* What a scan makes of a task is calm, and goes on with it.               *)
LEMMA WorksOnward ==
    ASSUME PlainLine, NEW w \in Worker, NEW f \in Good, NEW u \in Good,
           Works(w, f, u),
           Mine(w) \in Good, Line(Mine(w)), Calm(Mine(w))
    PROVE  Onward(f, u) /\ Calm(f) /\ Calm(u)
  <1> DEFINE m == Mine(w)
  <1>1. /\ Runs(m) /\ f.chain = m.chain /\ SameFields(m, f) /\ PlanMove(m, u)
        /\ Judges(m, u) \/ Blocks(m, u) \/ GivesOut(m, u) \/ Reopens(m, u)
    BY DEF Works
  <1>2. m.state = "executing"
    BY <1>1, CalmRuns
  <1>3. /\ m \in Good /\ Len(m.chain) \in Nat /\ ~Stuck /\ ~Lossy
        /\ ~AgentMayLack
        /\ "decompose" \notin Kinds
    BY LastIdGood DEF PlainLine, Lossy
  <1> HIDE DEF m
  <1>4. f.state = "executing" /\ f.plan = m.plan
    BY <1>1, <1>2 DEF SameFields
  <1>5. Calm(f)
    BY <1>4 DEF Calm
  <1>6. Reworked(m.chain, u.chain) => u.plan = m.plan
    BY <1>1, <1>3 DEF PlanMove, Reworked
  <1>7. Extended(m.chain, u.chain) =>
           \/ m.plan = <<>> /\ u.plan = <<>>
           \/ /\ m.plan # <<>> /\ u.plan = Tail(m.plan)
              /\ u.chain[Len(u.chain)].role = Head(m.plan)
    BY <1>1, <1>3 DEF PlanMove, Extended
  <1>8. CASE Judges(m, u)
    BY <1>1, <1>4, <1>5, <1>6, <1>8 DEF Judges, Onward, Calm
  <1>9. CASE Blocks(m, u)
    BY <1>1, <1>3, <1>4, <1>5, <1>6, <1>9 DEF Blocks, Onward, Calm
  <1>10. CASE GivesOut(m, u)
    <2>1. ~StepDone(u.chain[Len(u.chain)])
      BY <1>3, <1>10 DEF GivesOut, Extended, Open, StepDone, LiveFs
    <2> QED BY <1>1, <1>4, <1>5, <1>7, <1>10, <2>1 DEF GivesOut, Onward, Calm
  <1>11. CASE Reopens(m, u)
    BY <1>1, <1>2, <1>4, <1>5, <1>6, <1>11 DEF Reopens, Onward, Calm
  <1> QED BY <1>1, <1>8, <1>9, <1>10, <1>11

(* The task is created calm.                                               *)
LEMMA CalmInit ==
    ASSUME Init, ~Lossy
    PROVE  CalmInv
  <1>1. CASE task.state = "created"
    BY <1>1, FirstTask DEF Init, CalmInv, Calm, InitialChain
  <1>2. CASE task.state # "created"
    <2>1. task.state = "executing"
      BY <1>2, FirstTask DEF Lossy
    <2> QED BY <2>1 DEF Init, CalmInv, Calm
  <1> QED BY <1>1, <1>2

(* A task read normalised is as calm as it was.                            *)
LEMMA CalmKept ==
    ASSUME IInv, LineInv, Calm(task)
    PROVE  Calm(T)
  <1>1. /\ task \in Good /\ Len(task.chain) \in 1..Len(task.chain)
        /\ Len(task.chain) \in Nat
    BY LastIdGood DEF IInv, TasksOK
  <1>2. /\ SameFields(task, T) /\ Len(T.chain) = Len(task.chain)
        /\ \A i \in 1..Len(task.chain) :
              /\ Kept(task.chain[i], T.chain[i])
              /\ StepDone(T.chain[i]) => StepDone(task.chain[i])
    BY <1>1, EnsuredIs DEF T
  <1> QED BY <1>1, <1>2 DEF Calm, SameFields, Kept

(* People keep it calm.                                                    *)
LEMMA CalmRequest ==
    ASSUME IInv, LineInv, PlainLine, Calm(task), Requests
    PROVE  Calm(task')
  <1>1. /\ Calm(T)
        /\ Ops \cap {"deny_final", "owner", "pause", "budget", "rollback",
                     "skip", "continue"} = {}
    BY CalmKept DEF PlainLine
  <1>2. CASE Relabels(task')
    BY <1>1, <1>2 DEF Relabels, Calm
  <1>3. CASE Misses(task')
    BY <1>3 DEF Misses
  <1>4. CASE SetsOff(task')
    BY <1>1, <1>4 DEF SetsOff, Calm, AwaitsPlan
  <1>5. CASE Replans(task')
    <2>1. /\ InitialChain(InitPlan)[1].role = Head(InitPlan)
          /\ Len(InitialChain(InitPlan)) = 1
          /\ ~StepDone(InitialChain(InitPlan)[1])
      BY DEF InitialChain, StepDone
    <2> QED BY <1>1, <1>5, <2>1 DEF Replans, Calm
  <1>6. CASE SendsBack(task')
    BY <1>6 DEF SendsBack, Calm
  <1>7. CASE Marks(task')
    BY <1>1, <1>7 DEF Marks, Calm
  <1> QED BY <1>2, <1>3, <1>4, <1>5, <1>6, <1>7 DEF Requests

(* Every step keeps it calm.                                               *)
LEMMA CalmNext ==
    ASSUME IInv, IInv', LineInv, PlainLine, SoleInv, CalmInv, OnwardInv,
           [Next]_vars
    PROVE  CalmInv' /\ OnwardInv'
  <1>1. CASE People
    <2>1. Requests
      BY <1>1, PeopleRequest DEF LineInv, PlainLine
    <2>2. (\A w \in Worker : snap'[w] = NoTask)
      BY <2>1 DEF Requests, Free, PlainLine
    <2>3. Calm(task')
      BY <2>1, CalmRequest DEF CalmInv
    <2> QED BY <2>2, <2>3 DEF CalmInv, OnwardInv
  <1>2. CASE Agents
    BY <1>2 DEF Agents, Report, CalmInv, OnwardInv
  <1>3. ASSUME NEW w \in Worker, Trigger(w) \/ Crash(w)
        PROVE  CalmInv' /\ OnwardInv'
    <2>1. Scans(w) /\ \A v \in Worker : v # w => snap'[v] = NoTask
      BY <1>3, WorkerScans DEF PlainLine
    <2>2. /\ Calm(task')
          /\ snap'[w] # NoTask =>
                /\ Calm(snap'[w].task)
                /\ snap'[w].acted => Onward(task', snap'[w].task)
      <3>1. CASE Reads(w)
        <4>1. Calm(T)
          BY CalmKept DEF CalmInv
        <4> QED BY <3>1, <4>1 DEF Reads, CalmInv, T
      <3>2. CASE Dies(w)
        BY <3>2 DEF Dies, CalmInv
      <3>3. CASE Writes(w)
        BY <3>3 DEF Writes, CalmInv
      <3>4. CASE Leaves(w)
        BY <3>4 DEF Leaves, CalmInv, MayAct, Mine
      <3>5. ASSUME NEW f \in Good, NEW u \in Good, Works(w, f, u)
            PROVE  /\ Calm(task') /\ Calm(snap'[w].task)
                   /\ Onward(task', snap'[w].task)
        <4>1. MayAct(w) /\ task' = f /\ snap'[w] = [task |-> u, acted |-> TRUE]
          BY <3>5 DEF Works
        <4>2. Mine(w) \in Good /\ Line(Mine(w)) /\ Calm(Mine(w))
          BY <4>1, MineLine DEF CalmInv, MayAct, Mine
        <4>3. Onward(f, u) /\ Calm(f) /\ Calm(u)
          BY <3>5, <4>2, WorksOnward
        <4> QED BY <4>1, <4>3
      <3> QED BY <2>1, <3>1, <3>2, <3>3, <3>4, <3>5 DEF Scans
    <2> QED BY <2>1, <2>2 DEF CalmInv, OnwardInv
  <1>4. CASE UNCHANGED vars
    BY <1>4 DEF vars, CalmInv, OnwardInv
  <1> QED BY <1>1, <1>2, <1>3, <1>4 DEF Next

-----------------------------------------------------------------------------

(* The roles a chain served.                                               *)
RolesOf(c) == [i \in DOMAIN c |-> c[i].role]

(* Marking steps changes no role ...                                       *)
LEMMA RolesReworked ==
    ASSUME NEW c \in Chain, NEW d \in Chain, Reworked(c, d)
    PROVE  RolesOf(d) = RolesOf(c)
  <1>1. Len(c) \in Nat /\ DOMAIN c = 1..Len(c) /\ DOMAIN d = 1..Len(c)
    BY ChainSteps DEF Reworked
  <1>2. \A i \in 1..Len(c) : d[i].role = c[i].role
    BY <1>1 DEF Reworked, Kept
  <1> QED BY <1>1, <1>2 DEF RolesOf

(* ... a further step adds one.                                            *)
LEMMA RolesExtended ==
    ASSUME NEW c \in Chain, NEW d \in Chain, Extended(c, d)
    PROVE  /\ RolesOf(d) = Append(RolesOf(c), d[Len(d)].role)
           /\ d[Len(d)].role \in Role /\ Len(RolesOf(c)) < MaxSteps
  <1> DEFINE n == Len(c)
             r == d[Len(d)].role
             a == Append(RolesOf(c), r)
  <1>1. /\ n \in Nat /\ n \in 1..n /\ DOMAIN c = 1..n /\ DOMAIN d = 1..n + 1
        /\ Len(d) = n + 1
        /\ n + 1 <= MaxSteps
    BY ChainSteps, ParamAssumption DEF Extended
  <1>2. \A i \in 1..n : d[i].role = c[i].role
    BY <1>1 DEF Extended, Kept
  <1>3. (\A i \in 1..n : c[i].role \in Role) /\ r \in Role
    BY <1>1, ChainSteps DEF Step
  <1>4. RolesOf(c) \in Seq(Role) /\ Len(RolesOf(c)) = n
    BY <1>1, <1>3 DEF RolesOf
  <1>5. /\ a \in Seq(Role) /\ Len(a) = n + 1 /\ a[n + 1] = r
        /\ \A i \in 1..n : a[i] = c[i].role
    BY <1>1, <1>3, <1>4, AppendProperties DEF RolesOf
  <1>6. a = [i \in 1..n + 1 |-> a[i]]
    BY <1>1, <1>5
  <1>7. \A i \in 1..n + 1 : a[i] = d[i].role
    BY <1>1, <1>2, <1>5
  <1>8. n < MaxSteps
    BY <1>1, ParamAssumption
  <1> HIDE DEF a, n
  <1>9. RolesOf(d) = [i \in 1..n + 1 |-> d[i].role]
    BY <1>1 DEF RolesOf
  <1>10. RolesOf(d) = a
    BY <1>6, <1>7, <1>9
  <1> QED BY <1>3, <1>4, <1>8, <1>10 DEF a

-----------------------------------------------------------------------------

(* The tasks as the lifecycle sees them.                                   *)
LEMMA Phases ==
    /\ Phase("created") = "proposed" /\ Phase("executing") = "working"
    /\ Phase("blocked") = "waiting" /\ Phase("accepting") = "judging"
    /\ Phase("succeeded") = "done" /\ Phase("cancelled") = "dropped"
  BY DEF Phase

(* A step of a scan is a step of the lifecycle or none.                    *)
LEMMA ScanStep ==
    ASSUME IInv, IInv', LineInv, PlainLine, SoleInv, CalmInv, OnwardInv,
           NEW w \in Worker, Scans(w)
    PROVE  Lifecycle!Next \/ UNCHANGED Lifecycle!vars
  <1>1. /\ task \in Good /\ task' \in Good /\ task.chain \in Chain
        /\ task'.chain \in Chain
        /\ task'.plan \in Seq(Role)
    BY DEF IInv, TasksOK, Good, Task
  <1>2. CASE Reads(w) \/ Dies(w)
    BY <1>2 DEF Reads, Dies, Lifecycle!vars
  <1>3. CASE Leaves(w) \/ \E f, u \in Good : Works(w, f, u)
    <2>1. SameFields(task, Mine(w)) /\ Reworked(task.chain, Mine(w).chain)
      BY <1>3 DEF Leaves, Works, SoleInv, Mine
    <2>2. /\ task'.chain = Mine(w).chain /\ SameFields(Mine(w), task')
          /\ actor' = "bus"
      BY <1>3 DEF Leaves, Works, SameFields
    <2>3. RolesOf(task'.chain) = RolesOf(task.chain)
      BY <1>1, <2>1, <2>2, RolesReworked
    <2> QED BY <2>1, <2>2, <2>3
               DEF Lifecycle!Next, Lifecycle!Proceed, SameFields, RolesOf
  <1>4. CASE Writes(w)
    <2>1. Onward(task, task') /\ actor' = "bus"
      BY <1>4 DEF Writes, OnwardInv
    <2>2. Phase(task.state) = "working"
      BY <2>1, Phases DEF Onward
    <2>3. CASE /\ Reworked(task.chain, task'.chain) /\ task'.plan = task.plan
               /\ task'.state \in {"executing", "blocked"}
      <3>1. RolesOf(task'.chain) = RolesOf(task.chain)
        BY <1>1, <2>3, RolesReworked
      <3>2. Phase(task'.state) \in {"working", "waiting"}
        BY <2>3, Phases
      <3> QED BY <2>1, <2>2, <2>3, <3>1, <3>2
              DEF Lifecycle!Next, Lifecycle!Proceed, Lifecycle!Stop, RolesOf
    <2>4. CASE /\ Reworked(task.chain, task'.chain) /\ task'.plan = task.plan
               /\ task'.state \in {"accepting", "succeeded"}
               /\ task'.plan = <<>>
      <3>1. RolesOf(task'.chain) = RolesOf(task.chain)
        BY <1>1, <2>4, RolesReworked
      <3>2. Phase(task'.state) \in {"judging", "done"}
        BY <2>4, Phases
      <3> QED BY <2>1, <2>2, <2>4, <3>1, <3>2
                 DEF Lifecycle!Next, Lifecycle!Finish, RolesOf
    <2>5. CASE /\ Extended(task.chain, task'.chain)
               /\ task'.state \in {"executing", "blocked"}
      <3> DEFINE r == task'.chain[Len(task'.chain)].role
      <3>1. /\ RolesOf(task'.chain) = Append(RolesOf(task.chain), r)
            /\ r \in Role /\ Len(RolesOf(task.chain)) < MaxSteps
        BY <1>1, <2>5, RolesExtended
      <3>2. Phase(task'.state) \in {"working", "waiting"}
        BY <2>5, Phases
      <3>3. CASE task.plan = <<>> /\ task'.plan = <<>>
        BY <2>1, <2>2, <3>1, <3>2, <3>3
           DEF Lifecycle!Next, Lifecycle!Extend, RolesOf
      <3>4. CASE /\ task.plan # <<>> /\ task'.plan = Tail(task.plan)
                 /\ r = Head(task.plan)
        BY <2>1, <2>2, <3>1, <3>2, <3>4
           DEF Lifecycle!Next, Lifecycle!Serve, RolesOf
      <3>5. Len(task'.chain) # Len(task.chain)
        BY <1>1, <2>5, ChainSteps DEF Extended
      <3> QED BY <2>1, <3>3, <3>4, <3>5 DEF Onward, Reworked
    <2> QED BY <2>1, <2>3, <2>4, <2>5 DEF Onward
  <1> QED BY <1>2, <1>3, <1>4 DEF Scans

(* A request is a step of the lifecycle.                                   *)
LEMMA RequestStep ==
    ASSUME IInv, IInv', LineInv, PlainLine, CalmInv, Requests
    PROVE  Lifecycle!Next
  <1>1. /\ task \in Good /\ task' \in Good /\ task.chain \in Chain
        /\ task'.chain \in Chain
        /\ T \in Good /\ T.chain \in Chain /\ SameFields(task, T)
        /\ Reworked(task.chain, T.chain)
    BY TLine DEF IInv, TasksOK, Good, LineInv
  <1>2. /\ actor' = "human" /\ Calm(T) /\ RolesOf(T.chain) = RolesOf(task.chain)
        /\ Ops \cap {"deny_final", "owner", "pause", "budget", "rollback",
                     "skip", "continue"} = {}
    BY <1>1, CalmKept, RolesReworked DEF Requests, CalmInv, PlainLine
  <1>3. T.state = task.state /\ T.plan = task.plan
    BY <1>1 DEF SameFields
  <1>4. CASE Relabels(task')
    <2>1. RolesOf(task'.chain) = RolesOf(task.chain) /\ task'.plan = task.plan
      BY <1>2, <1>3, <1>4 DEF Relabels
    <2>2. \/ Phase(task'.state) = "dropped"
          \/ Phase(task.state) = "judging" /\ Phase(task'.state) = "done"
      BY <1>2, <1>3, <1>4, Phases DEF Relabels
    <2> QED BY <1>2, <2>1, <2>2
               DEF Lifecycle!Next, Lifecycle!Drop, Lifecycle!Accept, RolesOf
  <1>5. CASE Misses(task')
    BY <1>2, <1>5 DEF Misses, Lifecycle!Next, Lifecycle!Proceed
  <1>6. CASE SetsOff(task')
    <2>1. RolesOf(task'.chain) = RolesOf(task.chain) /\ task'.plan = task.plan
      BY <1>1, <1>2, <1>3, <1>6, RolesReworked DEF SetsOff
    <2>2. /\ Phase(task'.state) \in {"working", "waiting"}
          /\ Phase(task.state) = "proposed"
      BY <1>3, <1>6, Phases DEF SetsOff, AwaitsPlan
    <2> QED BY <1>2, <2>1, <2>2 DEF Lifecycle!Next, Lifecycle!Decide, RolesOf
  <1>7. CASE Replans(task')
    <2>1. /\ task'.chain = InitialChain(InitPlan) /\ task'.plan = task.plan
          /\ task'.state = task.state
      BY <1>2, <1>3, <1>7 DEF Replans, Calm, AwaitsPlan
    <2>2. /\ Len(task.chain) = 1 /\ task.chain[1].role = Head(InitPlan)
          /\ DOMAIN task.chain = 1..1
      BY <1>1, <1>3, <1>7, ChainSteps DEF CalmInv, Calm, Replans, AwaitsPlan
    <2>3. /\ DOMAIN task'.chain = 1..1 /\ task'.chain[1].role = Head(InitPlan)
      BY <2>1 DEF InitialChain
    <2>4. RolesOf(task'.chain) = RolesOf(task.chain)
      BY <2>2, <2>3 DEF RolesOf
    <2> QED BY <1>2, <2>1, <2>4 DEF Lifecycle!Next, Lifecycle!Proceed, RolesOf
  <1>8. CASE SendsBack(task')
    <2>1. /\ Extended(T.chain, task'.chain) /\ task'.plan = task.plan
          /\ task'.state = "executing" /\ task.state = "accepting"
      BY <1>2, <1>3, <1>8 DEF SendsBack
    <2> DEFINE r == task'.chain[Len(task'.chain)].role
    <2>2. /\ RolesOf(task'.chain) = Append(RolesOf(task.chain), r)
          /\ r \in Role /\ Len(RolesOf(task.chain)) < MaxSteps
      BY <1>1, <1>2, <2>1, RolesExtended
    <2> QED BY <1>2, <2>1, <2>2, Phases
               DEF Lifecycle!Next, Lifecycle!SendBack, RolesOf
  <1>9. CASE Marks(task')
    <2>1. /\ Reworked(T.chain, task'.chain) /\ task'.plan = task.plan
          /\ task'.state = "cancelled"
      BY <1>2, <1>3, <1>9 DEF Marks
    <2>2. RolesOf(task'.chain) = RolesOf(task.chain)
      BY <1>1, <1>2, <2>1, RolesReworked
    <2> QED BY <1>2, <2>1, <2>2, Phases
               DEF Lifecycle!Next, Lifecycle!Drop, RolesOf
  <1> QED BY <1>4, <1>5, <1>6, <1>7, <1>8, <1>9 DEF Requests

(* Every step is one, or none.                                             *)
LEMMA LifecycleStep ==
    ASSUME IInv, IInv', LineInv, PlainLine, SoleInv, CalmInv, OnwardInv,
           [Next]_vars
    PROVE  [Lifecycle!Next]_(Lifecycle!vars)
  <1>1. CASE People
    BY <1>1, PeopleRequest, RequestStep DEF LineInv, PlainLine
  <1>2. CASE Agents
    BY <1>2 DEF Agents, Report, Lifecycle!Next, Lifecycle!Proceed
  <1>3. CASE \E w \in Worker : Trigger(w) \/ Crash(w)
    BY <1>3, WorkerScans, ScanStep DEF PlainLine
  <1>4. CASE UNCHANGED vars
    BY <1>4 DEF vars, Lifecycle!vars
  <1> QED BY <1>1, <1>2, <1>3, <1>4 DEF Next

(* A task is created as the lifecycle begins.                              *)
LEMMA LifecycleInit ==
    ASSUME Init, IInv, ~Lossy
    PROVE  Lifecycle!Init
  <1>1. /\ Len(task.chain) = 1 /\ task.plan = Tail(InitPlan)
        /\ task.chain[1].role = Head(InitPlan)
        /\ task.state \in {"created", "executing"}
    BY FirstTask DEF Lossy
  <1>2. DOMAIN task.chain = 1..1
    BY <1>1, ChainSteps DEF IInv, TasksOK, Good
  <1>3. RolesOf(task.chain) = <<Head(InitPlan)>>
    BY <1>1, <1>2 DEF RolesOf
  <1> QED BY <1>1, <1>3, Phases DEF Lifecycle!Init, Init, RolesOf

(* Where people approve, deny and cancel, every behaviour of the trigger, the*)
(* scans, the agents and the API is a behaviour of TaskLifecycle.          *)
THEOREM TaskKeepsLifecycle == PlainLine /\ Spec => KeepsLifecycle
  <1>1. ASSUME PlainLine PROVE Spec => KeepsLifecycle
    <2> DEFINE I == IInv /\ LineInv /\ SoleInv /\ CalmInv /\ OnwardInv
    <2>1. "gate" \notin Ops /\ ~Concurrent /\ ~Lossy
      BY <1>1 DEF PlainLine
    <2>2. Init => I /\ Lifecycle!Init
      BY <2>1, InitOK, LineInit, CalmInit, LifecycleInit
      DEF Init, SoleInv, OnwardInv, MayAct
    <2>3. I /\ [Next]_vars => I'
      BY <1>1, <2>1, NextOK, LineNext, SoleNext, CalmNext
    <2>4. I /\ I' /\ [Next]_vars => [Lifecycle!Next]_(Lifecycle!vars)
      BY <1>1, LifecycleStep
    <2> HIDE DEF I
    <2> QED BY <2>2, <2>3, <2>4, PTL DEF Spec, KeepsLifecycle, Lifecycle!Spec
  <1> QED BY <1>1
=============================================================================
