--------------------------- MODULE TaskFsmProofs ---------------------------
(***************************************************************************)
(* Proofs about TaskFsm, for any roles, workers, plans and limits.         *)
(***************************************************************************)
EXTENDS TaskFsm, SequenceTheorems, WellFoundedInduction, TLAPS

(* A chain's step at position j has a number and an attempt of at most j:   *)
(* an attempt counts up from the step before it, a redo takes the number of *)
(* a step of the chain.  So the ids of the chain are StepIds.               *)
Chain == {c \in Seq(Step) :
            /\ c # <<>> /\ Len(c) <= MaxSteps
            /\ \A j \in 1..Len(c) : c[j].id \in (1..j) \X (1..j)}

(* The tasks the program can have on disk or in memory.                     *)
Good == {t \in Task : /\ t.chain \in Chain
                      /\ t.pushes <= PushLimit}

Snap == [task : Good, acted : BOOLEAN] \cup {NoTask}

(* The inductive invariant: TypeOK, with good tasks in place of tasks.      *)
TasksOK == task \in Good /\ snap \in [Worker -> Snap]

QueuesOK ==
    /\ orders \subseteq StepId
    /\ pending \subseteq ItemType
    /\ verdict \in {"none", "approved", "denied"}
    /\ actor \in {"bus", "human", "agent"}

ResultsOK ==
    /\ DOMAIN result \subseteq StepId
    /\ \A id \in DOMAIN result : result[id] \in Result

IInv == TasksOK /\ QueuesOK /\ ResultsOK

-----------------------------------------------------------------------------
(* The active step.                                                         *)

(* A set of positions has a largest and a smallest element.                 *)
LEMMA Extremes ==
    ASSUME NEW n \in Nat, NEW S \in SUBSET (1..n), S # {}
    PROVE  Largest(S) \in S /\ Smallest(S) \in S
  <1> DEFINE R == OpToRel(<, Nat)
  <1>1. IsWellFoundedOn(R, Nat)
    BY NatLessThanWellFounded
  <1>2. \A x, y \in Nat : <<x, y>> \notin R => y <= x
    BY DEF OpToRel
  <1> DEFINE D == {n - i : i \in S}
  <1>3. D \subseteq Nat /\ D # {} /\ S \subseteq Nat
    <2>1. PICK i \in S : i \in 1..n
      OBVIOUS
    <2>2. n - i \in D
      BY <2>1
    <2> QED
      BY <2>2
  <1> HIDE DEF R, D
  <1>4. PICK d \in D : \A y \in D : <<y, d>> \notin R
    BY <1>1, <1>3, WFMin
  <1>5. PICK m \in S : \A y \in S : <<y, m>> \notin R
    BY <1>1, <1>3, WFMin
  <1>6. \A y \in S : m <= y
    BY <1>2, <1>3, <1>5, Zenon
  <1>7. PICK k \in S : d = n - k
    BY <1>4 DEF D
  <1>8. \A y \in S : n - y \in D /\ n - y \in Nat
    BY DEF D
  <1>9. \A y \in S : n - k <= n - y
    BY <1>2, <1>4, <1>7, <1>8, Zenon
  <1>10. \A y \in S : y <= k
    BY <1>3, <1>9
  <1> QED
    BY <1>6, <1>10 DEF Largest, Smallest

(* What is known of the steps of a chain.                                   *)
LEMMA ChainSteps ==
    ASSUME NEW c \in Chain
    PROVE  /\ Len(c) \in 1..MaxSteps /\ DOMAIN c = 1..Len(c)
           /\ \A j \in 1..Len(c) : /\ c[j] \in Step
                                   /\ c[j].id \in (1..j) \X (1..j)
                                   /\ c[j].id \in StepId
  <1>1. c \in Seq(Step) /\ c # <<>> /\ Len(c) <= MaxSteps
    BY DEF Chain
  <1>2. Len(c) \in Nat /\ DOMAIN c = 1..Len(c)
    BY <1>1, LenProperties
  <1>3. Len(c) # 0
    BY <1>1, EmptySeq
  <1>4. \A j \in 1..Len(c) : c[j] \in Step /\ c[j].id \in (1..j) \X (1..j)
    BY <1>1, ElementOfSeq DEF Chain
  <1>5. \A j \in 1..Len(c) : c[j].id \in StepId
    BY <1>1, <1>2, <1>4, ParamAssumption DEF StepId
  <1> QED
    BY <1>1, <1>2, <1>3, <1>4, <1>5, ParamAssumption

(* Keeping the ids of the first n steps is enough to stay a chain.          *)
LEMMA ChainKept ==
    ASSUME NEW c \in Chain, NEW n \in 1..Len(c), NEW d,
           d \in [1..n -> Step],
           \A j \in 1..n : d[j].id = c[j].id
    PROVE  d \in Chain
  <1>1. Len(c) \in 1..MaxSteps
    BY ChainSteps
  <1>2. n \in Nat /\ n <= Len(c)
    BY <1>1, ParamAssumption
  <1>3. d \in Seq(Step)
    BY <1>2, SeqDef
  <1>4. Len(d) = n
    BY <1>2, <1>3, LenProperties
  <1>5. d # <<>>
    BY <1>3, <1>4
  <1>6. \A j \in 1..n : d[j].id \in (1..j) \X (1..j)
    BY <1>1, <1>2, ChainSteps
  <1> QED
    BY <1>1, <1>2, <1>3, <1>4, <1>5, <1>6, ParamAssumption DEF Chain

(* A step appended to a chain below the bound, numbered within its position.*)
LEMMA ChainAppend ==
    ASSUME NEW c \in Chain, Len(c) < MaxSteps, NEW s \in Step,
           s.id \in (1..Len(c) + 1) \X (1..Len(c) + 1)
    PROVE  Append(c, s) \in Chain
  <1>1. c \in Seq(Step) /\ Len(c) \in 1..MaxSteps
    BY ChainSteps DEF Chain
  <1>2. /\ Append(c, s) \in Seq(Step) /\ Append(c, s) # <<>>
        /\ Len(Append(c, s)) = Len(c) + 1
        /\ \A i \in 1..Len(c) : Append(c, s)[i] = c[i]
        /\ Append(c, s)[Len(c) + 1] = s
    BY <1>1, AppendProperties
  <1>3. \A j \in 1..Len(c) + 1 : Append(c, s)[j].id \in (1..j) \X (1..j)
    <2> TAKE j \in 1..Len(c) + 1
    <2>1. CASE j = Len(c) + 1
      BY <1>2, <2>1
    <2>2. CASE j # Len(c) + 1
      BY <1>1, <1>2, <2>2, ChainSteps
    <2> QED
      BY <2>1, <2>2
  <1> QED
    <2>1. Len(Append(c, s)) <= MaxSteps
      BY <1>1, <1>2, ParamAssumption
    <2>2. \A j \in 1..Len(Append(c, s)) :
             Append(c, s)[j].id \in (1..j) \X (1..j)
      BY <1>2, <1>3, Zenon
    <2> QED
      BY <1>2, <2>1, <2>2, Zenon DEF Chain

(* get_active_step finds a step of the chain.                               *)
LEMMA ActiveInChain ==
    ASSUME NEW t, t.chain \in Chain
    PROVE  ActiveIdx(t) \in 1..Len(t.chain)
  <1> DEFINE live == {i \in DOMAIN t.chain : t.chain[i].fs \notin TerminalFs}
             named == {i \in DOMAIN t.chain : t.chain[i].id = t.active}
  <1>1. Len(t.chain) \in 1..MaxSteps /\ DOMAIN t.chain = 1..Len(t.chain)
    BY ChainSteps
  <1>2. /\ live \in SUBSET (1..Len(t.chain))
        /\ named \in SUBSET (1..Len(t.chain))
    BY <1>1
  <1> HIDE DEF live, named
  <1>3. Len(t.chain) \in Nat
    BY <1>1
  <1>4. named # {} => Smallest(named) \in 1..Len(t.chain)
    BY <1>1, <1>2, <1>3, Extremes, Zenon
  <1>5. live # {} => Largest(live) \in 1..Len(t.chain)
    BY <1>1, <1>2, <1>3, Extremes, Zenon
  <1>6. Len(t.chain) \in 1..Len(t.chain)
    BY <1>1
  <1>7. ActiveIdx(t) =
          IF named # {} /\ Smallest(named) \in live THEN Smallest(named)
          ELSE IF live # {} THEN Largest(live)
          ELSE Len(t.chain)
    BY DEF ActiveIdx, live, named
  <1> QED
    BY <1>4, <1>5, <1>6, <1>7

-----------------------------------------------------------------------------
(* Changing steps of a task.                                                *)

(* The good tasks with as many steps as t.                                  *)
Like(t) == {u \in Good : Len(u.chain) = Len(t.chain)}

(* Another step under the same id.                                          *)
LEMMA StepReplaced ==
    ASSUME NEW t \in Good, NEW i \in 1..Len(t.chain), NEW s \in Step,
           s.id = t.chain[i].id
    PROVE  [t EXCEPT !.chain[i] = s] \in Like(t)
  <1> DEFINE n == Len(t.chain)
             d == [t.chain EXCEPT ![i] = s]
  <1>1. t \in Task /\ t.chain \in Chain
    BY DEF Good
  <1>2. n \in 1..MaxSteps /\ DOMAIN t.chain = 1..n /\ n \in Nat
    BY <1>1, ChainSteps
  <1>3. \A j \in 1..n : t.chain[j] \in Step
    BY <1>1, ChainSteps
  <1>4. d \in [1..n -> Step] /\ \A j \in 1..n : d[j].id = t.chain[j].id
    BY <1>1, <1>2, <1>3 DEF Task
  <1>5. n \in 1..n
    BY <1>2
  <1> HIDE DEF d
  <1>6. d \in Chain
    BY <1>1, <1>4, <1>5, ChainKept
  <1>7. Len(d) = n
    BY <1>2, <1>4, <1>6, LenProperties DEF Chain
  <1>8. [t EXCEPT !.chain = d] \in Like(t)
    BY <1>1, <1>6, <1>7 DEF Like, Good, Task, Chain
  <1> QED
    BY <1>8 DEF d

(* Another fsm_state, status or consumed mark.                              *)
LEMMA StepMarked ==
    ASSUME NEW t \in Good, NEW i \in 1..Len(t.chain)
    PROVE  /\ \A v \in LiveFs \cup TerminalFs :
                 [t EXCEPT !.chain[i].fs = v] \in Like(t)
           /\ \A v \in {"running", "completed", "done", "failed", "skipped"} :
                 [t EXCEPT !.chain[i].st = v] \in Like(t)
           /\ \A v \in BOOLEAN :
                 [t EXCEPT !.chain[i].consumed = v] \in Like(t)
  <1>1. t \in Task /\ t.chain \in Chain
    BY DEF Good
  <1>2. t.chain[i] \in Step
    BY <1>1, ChainSteps
  <1>3. ASSUME NEW v \in LiveFs \cup TerminalFs
        PROVE  [t EXCEPT !.chain[i].fs = v] \in Like(t)
    <2>1. /\ [t.chain[i] EXCEPT !.fs = v] \in Step
          /\ [t.chain[i] EXCEPT !.fs = v].id = t.chain[i].id
      BY <1>2 DEF Step
    <2> QED
      BY <2>1, StepReplaced
  <1>4. ASSUME NEW v \in {"running", "completed", "done", "failed", "skipped"}
        PROVE  [t EXCEPT !.chain[i].st = v] \in Like(t)
    <2>1. /\ [t.chain[i] EXCEPT !.st = v] \in Step
          /\ [t.chain[i] EXCEPT !.st = v].id = t.chain[i].id
      BY <1>2 DEF Step
    <2> QED
      BY <2>1, StepReplaced
  <1>5. ASSUME NEW v \in BOOLEAN
        PROVE  [t EXCEPT !.chain[i].consumed = v] \in Like(t)
    <2>1. /\ [t.chain[i] EXCEPT !.consumed = v] \in Step
          /\ [t.chain[i] EXCEPT !.consumed = v].id = t.chain[i].id
      BY <1>2 DEF Step
    <2> QED
      BY <2>1, StepReplaced
  <1> QED
    BY <1>3, <1>4, <1>5

-----------------------------------------------------------------------------
(* The operations on the task record.                                       *)

(* ensure_fsm.                                                              *)
LEMMA EnsuredGood ==
    ASSUME NEW t \in Good
    PROVE  Ensured(t) \in Like(t)
  <1> DEFINE n == Len(t.chain)
             steps == [i \in DOMAIN t.chain |-> EnsuredStep(t.chain[i])]
             d == SubSeq(steps, 1, Len(steps))
             u == [t EXCEPT !.chain = d]
  <1>1. t \in Task /\ t.chain \in Chain
    BY DEF Good
  <1>2. n \in 1..MaxSteps /\ DOMAIN t.chain = 1..n /\ n \in Nat
    BY <1>1, ChainSteps
  <1>3. \A j \in 1..n : t.chain[j] \in Step
    BY <1>1, ChainSteps
  <1>4. \A x \in Step : EnsuredStep(x) \in Step /\ EnsuredStep(x).id = x.id
    BY DEF EnsuredStep, Step, TerminalFs
  <1>5. /\ steps \in [1..n -> Step]
        /\ \A j \in 1..n : steps[j].id = t.chain[j].id
    BY <1>2, <1>3, <1>4
  <1> HIDE DEF steps
  <1>6. n \in 1..n
    BY <1>2
  <1>7. steps \in Chain
    BY <1>1, <1>5, <1>6, ChainKept
  <1>8. Len(steps) = n
    BY <1>2, <1>5, <1>7, LenProperties DEF Chain
  <1>9. d = steps
    BY <1>7, SubSeqFull DEF Chain
  <1>10. u.chain = steps /\ u \in Like(t)
    BY <1>1, <1>7, <1>8, <1>9 DEF Like, Good, Task, Chain
  <1> HIDE DEF u
  <1>11. ActiveIdx(u) \in 1..n
    BY <1>7, <1>8, <1>10, ActiveInChain
  <1>12. u.chain[ActiveIdx(u)].id \in (Nat \ {0}) \X (Nat \ {0})
    BY <1>5, <1>7, <1>8, <1>10, <1>11, ChainSteps DEF Step
  <1>13. Ensured(t) = [u EXCEPT !.active = u.chain[ActiveIdx(u)].id]
    BY DEF Ensured, u, steps
  <1> QED
    BY <1>10, <1>12, <1>13 DEF Like, Good, Task

(* complete_step.                                                           *)
LEMMA CompletedGood ==
    ASSUME NEW t \in Good, NEW i \in 1..Len(t.chain)
    PROVE  Completed(t, i) \in Like(t)
  <1> DEFINE u == [t EXCEPT !.chain[i].fs = "completed"]
             v == [u EXCEPT !.chain[i].st = "completed"]
  <1>1. u \in Like(t)
    BY StepMarked DEF TerminalFs
  <1>2. v \in Like(u)
    BY <1>1, StepMarked DEF Like
  <1>3. [v EXCEPT !.chain[i].consumed = TRUE] \in Like(v)
    BY <1>1, <1>2, StepMarked DEF Like
  <1> QED
    BY <1>1, <1>2, <1>3 DEF Completed, Like

(* mark_step_dispatched.                                                    *)
LEMMA DispatchedGood ==
    ASSUME NEW t \in Good, NEW i \in 1..Len(t.chain)
    PROVE  Dispatched(t, i) \in Like(t)
  <1> DEFINE u == [t EXCEPT !.chain[i].fs = "dispatched"]
  <1>1. u \in Like(t)
    BY StepMarked DEF LiveFs
  <1>2. [u EXCEPT !.chain[i].st = "running"] \in Like(u)
    BY <1>1, StepMarked DEF Like
  <1> QED
    BY <1>1, <1>2 DEF Dispatched, Like

(* The steps create_next_step makes fit behind the chain.                   *)
NextStep(t) ==
    {s \in Step : s.id \in (1..Len(t.chain) + 1) \X (1..Len(t.chain) + 1)}

LEMMA FreshStepFits ==
    ASSUME NEW t \in Good, NEW r \in Role
    PROVE  FreshStep(t, r) \in NextStep(t)
  <1>1. Len(t.chain) \in Nat
    BY ChainSteps DEF Good
  <1> QED
    BY <1>1 DEF FreshStep, NextStep, Step, LiveFs

LEMMA RedoStepFits ==
    ASSUME NEW t \in Good, NEW i \in 1..Len(t.chain), NEW r \in Role
    PROVE  RedoStep(t, t.chain[i].id, r) \in NextStep(t)
  <1> DEFINE n == Len(t.chain)
             from == t.chain[i].id
             last == t.chain[n].id
  <1>1. n \in Nat \ {0} /\ n \in 1..n
    BY ChainSteps DEF Good
  <1>2. from \in (1..i) \X (1..i) /\ last \in (1..n) \X (1..n)
    BY <1>1, ChainSteps DEF Good
  <1>3. from[1] \in 1..n + 1 /\ last[2] + 1 \in 1..n + 1
    <2>1. n \in Nat /\ i \in 1..n
      BY <1>1 DEF n
    <2>2. from[1] \in 1..i /\ last[2] \in 1..n
      BY <1>2
    <2> HIDE DEF n, from, last
    <2> QED
      BY <2>1, <2>2
  <1> QED
    BY <1>1, <1>3 DEF RedoStep, NextStep, Step, LiveFs, LastOf

(* Append a step and run on it.                                             *)
LEMMA AdvancedGood ==
    ASSUME NEW t \in Good, Len(t.chain) < MaxSteps, NEW s \in NextStep(t)
    PROVE  /\ Advanced(t, s) \in Good
           /\ Advanced(t, s).chain = Append(t.chain, s)
           /\ Advanced(t, s).pushes = t.pushes
           /\ Len(Advanced(t, s).chain) = Len(t.chain) + 1
  <1>1. t \in Task /\ t.chain \in Chain
    BY DEF Good
  <1>2. s \in Step /\ Append(t.chain, s) \in Chain
    BY <1>1, ChainAppend DEF NextStep
  <1>3. Len(Append(t.chain, s)) = Len(t.chain) + 1
    BY <1>1, <1>2, AppendProperties DEF Chain
  <1>4. s.id \in (Nat \ {0}) \X (Nat \ {0})
    BY <1>2 DEF Step
  <1> QED
    BY <1>1, <1>2, <1>3, <1>4 DEF Advanced, Good, Task, Chain, State, Status

(* revert_failed_advance, the chain having a step before its last.          *)
LEMMA RevertedGood ==
    ASSUME NEW t \in Good, NEW i \in 1..(Len(t.chain) - 1)
    PROVE  Reverted(t, i) \in Good
  <1> DEFINE n == Len(t.chain) - 1
             opened == [t.chain[i] EXCEPT !.fs = "awaiting_result",
                                          !.st = "running", !.consumed = FALSE]
             d == [j \in 1..n |-> IF j = i THEN opened ELSE t.chain[j]]
             u == [t EXCEPT !.chain = d]
  <1>1. t \in Task /\ t.chain \in Chain
    BY DEF Good
  <1>2. Len(t.chain) \in Nat /\ n \in 1..Len(t.chain) /\ n \in Nat
    BY <1>1, ChainSteps
  <1>3. \A j \in 1..n : t.chain[j] \in Step
    BY <1>1, <1>2, ChainSteps
  <1>4. opened \in Step /\ opened.id = t.chain[i].id
    BY <1>3 DEF Step, LiveFs
  <1> HIDE DEF opened
  <1>5. d \in [1..n -> Step] /\ \A j \in 1..n : d[j].id = t.chain[j].id
    BY <1>3, <1>4
  <1> HIDE DEF d
  <1>6. d \in Chain
    BY <1>1, <1>2, <1>5, ChainKept
  <1>7. u \in Good /\ u.chain = d
    BY <1>1, <1>6 DEF Good, Task, Chain
  <1>8. Ensured(u) \in Good
    BY <1>7, EnsuredGood DEF Like
  <1>9. u.chain[i].id \in (Nat \ {0}) \X (Nat \ {0})
    BY <1>5, <1>7 DEF Step
  <1>10. Reverted(t, i) =
           [Ensured(u) EXCEPT !.state = "executing", !.status = "running",
                              !.active = u.chain[i].id]
    BY DEF Reverted, u, d, opened
  <1> DEFINE e == Ensured(u)
             a == u.chain[i].id
  <1>11. [e EXCEPT !.state = "executing", !.status = "running",
                   !.active = a] \in Good
    <2>1. e \in Good /\ a \in (Nat \ {0}) \X (Nat \ {0})
      BY <1>8, <1>9
    <2> HIDE DEF e, a
    <2> QED
      BY <2>1 DEF Good, Task, State, Status
  <1> QED
    BY <1>10, <1>11

(* apply_rollback.                                                          *)
LEMMA RolledBackGood ==
    ASSUME NEW t \in Good, Len(t.chain) < MaxSteps,
           NEW target \in 1..Len(t.chain)
    PROVE  RolledBack(t, target) \in Good
           /\ Len(RolledBack(t, target).chain) = Len(t.chain) + 1
  <1> DEFINE n == Len(t.chain)
             i == ActiveIdx(t)
             r == t.chain[target].role
             d == [j \in DOMAIN t.chain |->
                     IF j = i THEN [t.chain[j] EXCEPT !.fs = "failed",
                                                      !.st = "failed"]
                     ELSE IF j > i
                     THEN [t.chain[j] EXCEPT !.fs = "superseded", !.st = "done"]
                     ELSE t.chain[j]]
             failed == [t EXCEPT !.chain = d]
             s == RedoStep(t, t.chain[i].id, r)
  <1>1. t \in Task /\ t.chain \in Chain
    BY DEF Good
  <1>2. n \in Nat /\ n \in 1..n /\ DOMAIN t.chain = 1..n
    BY <1>1, ChainSteps
  <1>3. \A j \in 1..n : t.chain[j] \in Step
    BY <1>1, ChainSteps
  <1>4. \A x \in Step :
           /\ [x EXCEPT !.fs = "failed", !.st = "failed"] \in Step
           /\ [x EXCEPT !.fs = "failed", !.st = "failed"].id = x.id
           /\ [x EXCEPT !.fs = "superseded", !.st = "done"] \in Step
           /\ [x EXCEPT !.fs = "superseded", !.st = "done"].id = x.id
    BY DEF Step, TerminalFs
  <1>5. i \in 1..n
    BY <1>1, ActiveInChain
  <1>6. r \in Role
    BY <1>3 DEF Step
  <1> HIDE DEF i
  <1>7. d \in [1..n -> Step] /\ \A j \in 1..n : d[j].id = t.chain[j].id
    BY <1>2, <1>3, <1>4
  <1>8. RolledBack(t, target) = Advanced(failed, s)
    BY DEF RolledBack, failed, d, s, i, r
  <1> HIDE DEF d, r
  <1>9. d \in Chain
    BY <1>1, <1>2, <1>7, ChainKept
  <1>10. Len(d) = n
    BY <1>2, <1>7, <1>9, LenProperties DEF Chain
  <1>11. failed \in Good /\ Len(failed.chain) = n
    BY <1>1, <1>9, <1>10 DEF Good, Task, Chain
  <1>12. s \in NextStep(t)
    BY <1>5, <1>6, RedoStepFits
  <1> HIDE DEF s, failed
  <1>13. s \in NextStep(failed)
    BY <1>11, <1>12 DEF NextStep
  <1> QED
    BY <1>8, <1>11, <1>13, AdvancedGood

-----------------------------------------------------------------------------
(* What the trigger and people do to a task.                                *)

(* Any state, wait and status are good.                                     *)
LEMMA LabelGood ==
    ASSUME NEW t \in Good, NEW s \in State, NEW w \in Wait, NEW r \in Status
    PROVE  [t EXCEPT !.state = s, !.wait = w, !.status = r] \in Like(t)
  <1> DEFINE u == [t EXCEPT !.state = s, !.wait = w, !.status = r]
  <1>1. t \in Task
    BY DEF Good
  <1>2. u \in Task
    BY <1>1 DEF Task
  <1>3. u.chain = t.chain /\ u.pushes = t.pushes /\ u.retries = t.retries
    BY <1>1 DEF Task
  <1> QED
    BY <1>2, <1>3 DEF Good, Like

LEMMA ClocksGood ==
    ASSUME NEW t \in Good
    PROVE  /\ Started(t) \in Like(t)
           /\ BudgetBlocked(t) \in Like(t)
           /\ ~OverBudget(t) => Bumped(t) \in Like(t)
  <1>1. Started(t) \in Like(t)
    BY LabelGood DEF State, Status, Wait, Started
  <1>2. BudgetBlocked(t) \in Like(t)
    BY DEF Good, Like, Task, State, Status, BudgetBlocked
  <1>3. ASSUME ~OverBudget(t) PROVE Bumped(t) \in Like(t)
    <2>1. t \in Task /\ t.pushes \in Nat
      BY DEF Good, Task
    <2>2. t.pushes + 1 \in Nat /\ t.pushes + 1 <= PushLimit
      BY <1>3, <2>1, ParamAssumption DEF OverBudget
    <2> QED
      BY <2>1, <2>2 DEF Good, Like, Task, Bumped
  <1> QED
    BY <1>1, <1>2, <1>3

(* A work order is for a step id.                                           *)
LEMMA SendGood ==
    ASSUME QueuesOK, NEW id \in StepId, NEW ok \in BOOLEAN, Send(id, ok)
    PROVE  orders' \subseteq StepId
  BY DEF QueuesOK, Send

LEMMA LastIdGood ==
    ASSUME NEW t \in Good
    PROVE  /\ Len(t.chain) \in 1..Len(t.chain) /\ 1 \in 1..Len(t.chain)
           /\ LastOf(t.chain).id \in StepId
           /\ \A i \in 1..Len(t.chain) : t.chain[i].id \in StepId
           /\ \A i \in 1..Len(t.chain) :
                 t.chain[i].id \in (Nat \ {0}) \X (Nat \ {0})
           /\ Len(t.chain) \in Nat /\ DOMAIN t.chain = 1..Len(t.chain)
  <1>1. t.chain \in Chain
    BY DEF Good
  <1>2. Len(t.chain) \in 1..MaxSteps /\ DOMAIN t.chain = 1..Len(t.chain)
    BY <1>1, ChainSteps
  <1>3. \A i \in 1..Len(t.chain) : t.chain[i].id \in StepId
    BY <1>1, ChainSteps
  <1>4. \A i \in 1..Len(t.chain) : t.chain[i] \in Step
    BY <1>1, ChainSteps
  <1> QED
    BY <1>2, <1>3, <1>4 DEF LastOf, Step

(* The snapshot a worker acts on.                                           *)
LEMMA MineGood ==
    ASSUME TasksOK, NEW w \in Worker, snap[w] # NoTask
    PROVE  /\ Mine(w) \in Good
           /\ ActiveIdx(Mine(w)) \in 1..Len(Mine(w).chain)
           /\ MyStep(w).id \in StepId
  <1>1. Mine(w) \in Good
    BY DEF TasksOK, Snap, Mine
  <1>2. ActiveIdx(Mine(w)) \in 1..Len(Mine(w).chain)
    BY <1>1, ActiveInChain DEF Good
  <1> QED
    BY <1>1, <1>2, LastIdGood DEF MyStep

LEMMA StoreGood ==
    ASSUME TasksOK, NEW w \in Worker, NEW t \in Good, NEW u \in Good,
           Store(w, t, u)
    PROVE  TasksOK' /\ actor' = "bus"
  BY DEF TasksOK, Snap, Store

LEMMA SettleGood ==
    ASSUME TasksOK, NEW w \in Worker, MayAct(w), NEW u \in Good, Settle(w, u)
    PROVE  TasksOK' /\ actor' = "bus"
  BY StoreGood, MineGood DEF Settle, MayAct

LEMMA LeaveGood ==
    ASSUME IInv, NEW w \in Worker, MayAct(w), Leave(w)
    PROVE  IInv'
  <1>1. Mine(w) \in Good
    BY MineGood DEF MayAct, IInv
  <1> QED
    BY <1>1 DEF IInv, TasksOK, QueuesOK, ResultsOK, Snap, Leave

LEMMA BlockForGood ==
    ASSUME TasksOK, QueuesOK, NEW w \in Worker, MayAct(w), NEW t \in Good,
           NEW item \in ItemType, BlockFor(w, t, item)
    PROVE  TasksOK' /\ QueuesOK'
  <1>1. TasksOK' /\ actor' = "bus"
    BY SettleGood DEF BlockFor
  <1> QED
    BY <1>1 DEF BlockFor, QueuesOK

LEMMA BlockGood ==
    ASSUME TasksOK, QueuesOK, NEW w \in Worker, MayAct(w), NEW t \in Good,
           Block(w, t)
    PROVE  TasksOK' /\ QueuesOK'
  <1>1. [t EXCEPT !.state = "blocked"] \in Good
    BY DEF Good, Task, State
  <1>2. TasksOK' /\ actor' = "bus"
    BY <1>1, SettleGood DEF Block
  <1> QED
    BY <1>2 DEF Block, QueuesOK

LEMMA EnterAcceptingGood ==
    ASSUME TasksOK, QueuesOK, NEW w \in Worker, MayAct(w), NEW t \in Good,
           EnterAccepting(w, t)
    PROVE  TasksOK' /\ QueuesOK'
  <1>1. [t EXCEPT !.state = "accepting", !.wait = "none",
                  !.status = "pending"] \in Good
    BY LabelGood DEF Like, State, Wait, Status
  <1>2. TasksOK' /\ actor' = "bus"
    BY <1>1, SettleGood DEF EnterAccepting
  <1> QED
    BY <1>2 DEF EnterAccepting, QueuesOK, ItemType

LEMMA EndChainGood ==
    ASSUME TasksOK, QueuesOK, NEW w \in Worker, MayAct(w), NEW t \in Good,
           NEW k, EndChain(w, t, k)
    PROVE  TasksOK' /\ QueuesOK'
  <1>1. CASE EnterAccepting(w, t)
    BY <1>1, EnterAcceptingGood
  <1>2. CASE ~EnterAccepting(w, t)
    <2> DEFINE u == [t EXCEPT !.state = "succeeded", !.wait = "none",
                              !.status = "success"]
    <2>1. /\ Settle(w, u) /\ verdict' = "approved"
          /\ orders' = {} /\ pending' = pending
      BY <1>2 DEF EndChain
    <2>2. u \in Good
      BY DEF Good, Task, State, Wait, Status
    <2>3. TasksOK' /\ actor' = "bus"
      BY <2>1, <2>2, SettleGood
    <2> QED
      BY <2>1, <2>3 DEF QueuesOK
  <1> QED
    BY <1>1, <1>2

LEMMA GiveOutGood ==
    ASSUME TasksOK, QueuesOK, NEW w \in Worker, MayAct(w), NEW t \in Good,
           NEW i \in 1..Len(t.chain), NEW s \in NextStep(t),
           GiveOut(w, t, i, s)
    PROVE  TasksOK' /\ QueuesOK'
  <1> DEFINE u == Advanced(t, s)
             n == Len(u.chain)
  <1>1. Len(t.chain) < MaxSteps
    BY DEF GiveOut
  <1>2. u \in Good /\ n = Len(t.chain) + 1
    BY <1>1, AdvancedGood
  <1>3. s.id \in StepId
    BY <1>1, LastIdGood, ParamAssumption DEF NextStep, StepId
  <1>4. i \in 1..(n - 1) /\ n \in 1..n
    BY <1>2, LastIdGood
  <1> HIDE DEF u
  <1>5. CASE OverBudget(u) /\ BlockFor(w, BudgetBlocked(u), "push_budget")
    BY <1>2, <1>5, ClocksGood, BlockForGood DEF Like, ItemType
  <1>6. ASSUME ~OverBudget(u), NEW ok \in BOOLEAN, Send(s.id, ok),
               Settle(w, IF ok THEN Dispatched(Bumped(u), n)
                         ELSE Reverted(u, i)),
               UNCHANGED <<pending, verdict>>
        PROVE  TasksOK' /\ QueuesOK'
    <2>1. Bumped(u) \in Good /\ Len(Bumped(u).chain) = n
      BY <1>2, <1>6, ClocksGood DEF Like
    <2>2. Dispatched(Bumped(u), n) \in Good
      BY <1>4, <2>1, DispatchedGood DEF Like
    <2>3. Reverted(u, i) \in Good
      BY <1>2, <1>4, RevertedGood
    <2>4. TasksOK' /\ actor' = "bus"
      BY <1>6, <2>2, <2>3, SettleGood
    <2>5. orders' \subseteq StepId
      BY <1>3, <1>6, SendGood
    <2> QED
      BY <1>6, <2>4, <2>5 DEF QueuesOK
  <1> QED
    BY <1>5, <1>6 DEF GiveOut, u

LEMMA NoNextRoleGood ==
    ASSUME TasksOK, QueuesOK, NEW w \in Worker, MayAct(w), NEW t \in Good,
           NEW i \in 1..Len(t.chain), NEW k, NoNextRole(w, t, i, k)
    PROVE  TasksOK' /\ QueuesOK'
  <1>1. CASE EndChain(w, t, k)
    BY <1>1, EndChainGood
  <1>2. CASE Block(w, t)
    BY <1>2, BlockGood
  <1>3. ASSUME NEW r \in Role, GiveOut(w, t, i, RedoStep(t, t.chain[i].id, r))
        PROVE  TasksOK' /\ QueuesOK'
    BY <1>3, RedoStepFits, GiveOutGood
  <1> QED
    BY <1>1, <1>2, <1>3 DEF NoNextRole

LEMMA NextByFlowGood ==
    ASSUME TasksOK, QueuesOK, NEW w \in Worker, MayAct(w), NEW t \in Good,
           NEW i \in 1..Len(t.chain), NEW k, NextByFlow(w, t, i, k)
    PROVE  TasksOK' /\ QueuesOK'
  <1>1. CASE NoNextRole(w, t, i, k)
    BY <1>1, NoNextRoleGood
  <1>2. ASSUME NEW r \in Role, GiveOut(w, t, i, FreshStep(t, r))
        PROVE  TasksOK' /\ QueuesOK'
    BY <1>2, FreshStepFits, GiveOutGood
  <1> QED
    BY <1>1, <1>2 DEF NextByFlow

(* A planned role is taken off a plan that has one.                         *)
LEMMA PlanPopped ==
    ASSUME NEW t \in Good, t.plan # <<>>
    PROVE  [t EXCEPT !.plan = Tail(@)] \in Like(t) /\ Head(t.plan) \in Role
  <1>1. t.plan \in Seq(Role)
    BY DEF Good, Task
  <1>2. Tail(t.plan) \in Seq(Role) /\ Head(t.plan) \in Role
    BY <1>1, HeadTailProperties
  <1> QED
    BY <1>2 DEF Good, Like, Task

LEMMA GiveOutPlannedGood ==
    ASSUME TasksOK, QueuesOK, NEW w \in Worker, MayAct(w), NEW t \in Good,
           NEW i \in 1..Len(t.chain), t.plan # <<>>, GiveOutPlanned(w, t, i)
    PROVE  TasksOK' /\ QueuesOK'
  <1> DEFINE u == [t EXCEPT !.plan = Tail(@)]
  <1>1. u \in Good /\ Len(u.chain) = Len(t.chain) /\ Head(t.plan) \in Role
    BY PlanPopped DEF Like
  <1>2. FreshStep(t, Head(t.plan)) \in NextStep(u)
    BY <1>1, FreshStepFits DEF NextStep
  <1>3. GiveOut(w, u, i, FreshStep(t, Head(t.plan)))
    BY DEF GiveOutPlanned
  <1> HIDE DEF u
  <1> QED
    BY <1>1, <1>2, <1>3, GiveOutGood

LEMMA NextPlannedGood ==
    ASSUME TasksOK, QueuesOK, NEW w \in Worker, MayAct(w), NEW t \in Good,
           NEW i \in 1..Len(t.chain), NEW k, t.plan # <<>>,
           NextPlanned(w, t, i, k)
    PROVE  TasksOK' /\ QueuesOK'
  <1> DEFINE u == [t EXCEPT !.plan = Tail(@)]
  <1>1. u \in Good /\ Len(u.chain) = Len(t.chain)
    BY PlanPopped DEF Like
  <1>2. \/ GiveOutPlanned(w, t, i) \/ Block(w, u)
        \/ NoNextRole(w, u, i, k)
    BY DEF NextPlanned
  <1> HIDE DEF u
  <1> QED
    BY <1>1, <1>2, GiveOutPlannedGood, BlockGood, NoNextRoleGood

-----------------------------------------------------------------------------
(* The trigger's steps.                                                     *)

LEMMA ResultsKept ==
    ASSUME ResultsOK, UNCHANGED result
    PROVE  ResultsOK'
  BY DEF ResultsOK

(* A result that was archived, or one that counts one use more.             *)
LEMMA ResultsChanged ==
    ASSUME ResultsOK, NEW id \in DOMAIN result,
           \/ result' = [j \in DOMAIN result \ {id} |-> result[j]]
           \/ result' = [result EXCEPT ![id].uses = IF @ = 2 THEN 2 ELSE @ + 1]
    PROVE  ResultsOK'
  <1>1. CASE result' = [j \in DOMAIN result \ {id} |-> result[j]]
    BY <1>1 DEF ResultsOK
  <1>2. CASE result' = [result EXCEPT ![id].uses =
                                         IF @ = 2 THEN 2 ELSE @ + 1]
    <2> DEFINE r == [result[id] EXCEPT !.uses = IF @ = 2 THEN 2 ELSE @ + 1]
    <2>1. r \in Result
      BY DEF ResultsOK, Result
    <2>2. result' = [result EXCEPT ![id] = r]
      BY <1>2
    <2> HIDE DEF r
    <2> QED
      BY <2>1, <2>2 DEF ResultsOK
  <1> QED
    BY <1>1, <1>2

LEMMA ReadOK == ASSUME IInv, NEW w \in Worker, Read(w) PROVE IInv'
  <1>1. Ensured(task) \in Good
    BY EnsuredGood DEF IInv, TasksOK, Like
  <1>2. TasksOK'
    BY <1>1 DEF IInv, TasksOK, Snap, Read
  <1> QED
    BY <1>2 DEF IInv, QueuesOK, ResultsOK, Read

LEMMA WriteOK == ASSUME IInv, NEW w \in Worker, Write(w) PROVE IInv'
  <1>1. snap[w].task \in Good
    BY DEF IInv, TasksOK, Snap, Write
  <1> QED
    BY <1>1 DEF IInv, TasksOK, QueuesOK, ResultsOK, Snap, Write

LEMMA CrashOK == ASSUME IInv, NEW w \in Worker, Crash(w) PROVE IInv'
  BY DEF IInv, TasksOK, QueuesOK, ResultsOK, Snap, Crash

LEMMA FinishChainOK == ASSUME IInv, NEW w \in Worker, FinishChain(w) PROVE IInv'
  <1>1. MayAct(w) /\ EnterAccepting(w, Mine(w)) /\ UNCHANGED result
    BY DEF FinishChain
  <1>2. Mine(w) \in Good
    BY <1>1, MineGood DEF IInv, MayAct
  <1> QED
    BY <1>1, <1>2, EnterAcceptingGood, ResultsKept DEF IInv

LEMMA ResumePlannedOK ==
    ASSUME IInv, NEW w \in Worker, ResumePlanned(w) PROVE IInv'
  <1> DEFINE t == Mine(w)
             u == [t EXCEPT !.plan = Tail(@)]
  <1>1. MayAct(w) /\ t.plan # <<>> /\ UNCHANGED result
    BY DEF ResumePlanned, MayResume
  <1>2. t \in Good /\ ActiveIdx(t) \in 1..Len(t.chain)
    BY <1>1, MineGood DEF IInv, MayAct
  <1>3. GiveOutPlanned(w, t, ActiveIdx(t)) \/ Block(w, u)
    BY DEF ResumePlanned
  <1> HIDE DEF t
  <1>4. u \in Good
    BY <1>1, <1>2, PlanPopped DEF Like
  <1> HIDE DEF u
  <1>5. TasksOK' /\ QueuesOK'
    BY <1>1, <1>2, <1>3, <1>4, GiveOutPlannedGood, BlockGood DEF IInv
  <1> QED
    BY <1>1, <1>5, ResultsKept DEF IInv

LEMMA SubmitOK == ASSUME IInv, NEW w \in Worker, Submit(w) PROVE IInv'
  <1> DEFINE i == ActiveIdx(Mine(w))
             id == MyStep(w).id
             k == result[id].kind
             t == Completed(Mine(w), i)
             planned == IF k = "decompose"
                        THEN [t EXCEPT !.plan = SubtaskPlan] ELSE t
             asked == [t EXCEPT !.state = "blocked",
                                !.wait = "await_owner_confirmation",
                                !.status = "running"]
             gated == [planned EXCEPT !.state = "blocked",
                                      !.wait = "await_gate",
                                      !.status = "running",
                                      !.gate = IF @ = "denied" THEN @
                                               ELSE "pending"]
  <1>1. MayAct(w) /\ id \in DOMAIN result
    BY DEF Submit, MaySubmit, MyStep
  <1>2. Mine(w) \in Good /\ i \in 1..Len(Mine(w).chain)
    BY <1>1, MineGood DEF IInv, MayAct
  <1>3. \/ BlockFor(w, asked, "owner_confirmation")
        \/ BlockFor(w, gated, "workflow_gate")
        \/ planned.plan # <<>> /\ NextPlanned(w, planned, i, k)
        \/ NextByFlow(w, planned, i, k)
    BY DEF Submit
  <1>4. \/ result' = result
        \/ result' = [result EXCEPT ![id].uses = IF @ = 2 THEN 2 ELSE @ + 1]
    BY DEF Submit
  <1> HIDE DEF i, id, k
  <1>5. t \in Good /\ Len(t.chain) = Len(Mine(w).chain)
    BY <1>2, CompletedGood DEF Like
  <1> HIDE DEF t
  <1>6. planned \in Good /\ Len(planned.chain) = Len(t.chain)
    BY <1>5, ParamAssumption DEF Good, Task
  <1> HIDE DEF planned
  <1>7. asked \in Good
    BY <1>5, LabelGood DEF Like, State, Wait, Status
  <1>8. gated \in Good
    <2> DEFINE g == IF planned.gate = "denied" THEN planned.gate
                    ELSE "pending"
    <2>1. planned \in Task /\ g \in {"none", "pending", "approved", "denied"}
      BY <1>6 DEF Good
    <2> HIDE DEF g
    <2>2. [planned EXCEPT !.state = "blocked", !.wait = "await_gate",
                          !.status = "running", !.gate = g] \in Task
      BY <2>1 DEF Task, State, Wait, Status
    <2> QED
      BY <1>6, <2>1, <2>2 DEF Good, Task, g
  <1> HIDE DEF asked, gated
  <1>9. i \in 1..Len(planned.chain)
    BY <1>2, <1>5, <1>6
  <1>10. TasksOK' /\ QueuesOK'
    <2> USE DEF IInv
    <2>1. CASE BlockFor(w, asked, "owner_confirmation")
      BY <1>1, <1>7, <2>1, BlockForGood DEF ItemType
    <2>2. CASE BlockFor(w, gated, "workflow_gate")
      BY <1>1, <1>8, <2>2, BlockForGood DEF ItemType
    <2>3. CASE planned.plan # <<>> /\ NextPlanned(w, planned, i, k)
      BY <1>1, <1>6, <1>9, <2>3, NextPlannedGood
    <2>4. CASE NextByFlow(w, planned, i, k)
      BY <1>1, <1>6, <1>9, <2>4, NextByFlowGood
    <2> QED
      BY <1>3, <2>1, <2>2, <2>3, <2>4
  <1>11. ResultsOK'
    BY <1>1, <1>4, ResultsKept, ResultsChanged DEF IInv
  <1> QED
    BY <1>10, <1>11 DEF IInv

LEMMA RetryOK == ASSUME IInv, NEW w \in Worker, Retry(w) PROVE IInv'
  <1> DEFINE i == ActiveIdx(Mine(w))
             id == MyStep(w).id
             t == [Mine(w) EXCEPT !.retries = @ + 1]
             archived == [j \in DOMAIN result \ {id} |-> result[j]]
             waiting == [t EXCEPT !.chain[i].fs = "awaiting_result"]
             reopened == [waiting EXCEPT !.chain[i].consumed = FALSE]
  <1> USE DEF IInv
  <1>1. MayAct(w) /\ id \in DOMAIN result
    BY DEF Retry, MaySubmit, MyStep
  <1>2. Mine(w) \in Good /\ i \in 1..Len(Mine(w).chain) /\ id \in StepId
    BY <1>1, MineGood DEF MayAct
  <1>3. \/ Block(w, t) /\ UNCHANGED result
        \/ /\ Store(w, t, BudgetBlocked(t)) /\ result' = archived
           /\ pending' = pending \cup {"push_budget"}
           /\ UNCHANGED <<orders, verdict>>
        \/ /\ ~OverBudget(t) /\ UNCHANGED <<pending, verdict>>
           /\ \E ok \in BOOLEAN :
                 /\ Send(id, ok)
                 /\ result' = IF ok THEN archived ELSE result
                 /\ Store(w, t, IF ok THEN Bumped(t) ELSE reopened)
    BY DEF Retry
  <1> HIDE DEF i, id
  <1>4. t \in Good /\ Len(t.chain) = Len(Mine(w).chain)
    <2> DEFINE n == Mine(w).retries + 1
    <2>1. Mine(w).retries \in Nat
      BY <1>2 DEF Good, Task
    <2>2. n \in Nat
      BY <2>1
    <2> HIDE DEF n
    <2>3. [Mine(w) EXCEPT !.retries = n] \in Like(Mine(w))
      BY <1>2, <2>2 DEF Good, Like, Task
    <2> QED
      BY <2>3 DEF Like, n
  <1> HIDE DEF t
  <1>5. reopened \in Good
    <2>1. waiting \in Like(t)
      BY <1>2, <1>4, StepMarked DEF LiveFs
    <2> QED
      BY <1>2, <1>4, <2>1, StepMarked DEF Like
  <1>6. BudgetBlocked(t) \in Good /\ (~OverBudget(t) => Bumped(t) \in Good)
    BY <1>4, ClocksGood DEF Like
  <1>7. result' = archived => ResultsOK'
    BY <1>1, ResultsChanged
  <1> HIDE DEF reopened, archived
  <1>8. CASE Block(w, t) /\ UNCHANGED result
    BY <1>1, <1>4, <1>8, BlockGood, ResultsKept
  <1>9. CASE /\ Store(w, t, BudgetBlocked(t)) /\ result' = archived
             /\ pending' = pending \cup {"push_budget"}
             /\ UNCHANGED <<orders, verdict>>
    <2>1. TasksOK' /\ actor' = "bus"
      BY <1>4, <1>6, <1>9, StoreGood
    <2>2. QueuesOK'
      BY <1>9, <2>1 DEF QueuesOK, ItemType
    <2> QED
      BY <1>7, <1>9, <2>1, <2>2
  <1>10. ASSUME ~OverBudget(t), UNCHANGED <<pending, verdict>>,
                NEW ok \in BOOLEAN, Send(id, ok),
                result' = IF ok THEN archived ELSE result,
                Store(w, t, IF ok THEN Bumped(t) ELSE reopened)
         PROVE  IInv'
    <2>1. TasksOK' /\ actor' = "bus"
      BY <1>4, <1>5, <1>6, <1>10, StoreGood
    <2>2. orders' \subseteq StepId
      BY <1>2, <1>10, SendGood
    <2>3. QueuesOK'
      BY <1>10, <2>1, <2>2 DEF QueuesOK
    <2>4. ResultsOK'
      BY <1>7, <1>10, ResultsKept
    <2> QED
      BY <2>1, <2>3, <2>4
  <1> QED
    BY <1>3, <1>8, <1>9, <1>10

(* Every step of a worker.                                                  *)
LEMMA TriggerOK == ASSUME IInv, NEW w \in Worker, Trigger(w) PROVE IInv'
  <1>1. CASE Idle(w)
    BY <1>1, LeaveGood DEF Idle
  <1>2. CASE NobodyToRedo(w)
    BY <1>2, LeaveGood DEF NobodyToRedo
  <1> QED
    BY <1>1, <1>2, ReadOK, WriteOK, FinishChainOK, ResumePlannedOK, SubmitOK,
       RetryOK DEF Trigger

-----------------------------------------------------------------------------
(* The agents' and people's steps.                                          *)

LEMMA ReportOK ==
    ASSUME IInv, NEW id \in orders, NEW k \in Kinds, Report(id, k) PROVE IInv'
  <1> DEFINE r == [kind |-> k, uses |-> 0]
  <1>1. result' = [j \in DOMAIN result \cup {id} |->
                      IF j = id THEN r ELSE result[j]]
    BY DEF Report
  <1>2. r \in Result /\ id \in StepId
    BY ParamAssumption DEF Result, IInv, QueuesOK
  <1> HIDE DEF r
  <1>3. ResultsOK'
    BY <1>1, <1>2 DEF IInv, ResultsOK
  <1>4. TasksOK' /\ QueuesOK'
    BY DEF IInv, TasksOK, QueuesOK, Report
  <1> QED
    BY <1>3, <1>4 DEF IInv

(* What people work on.                                                     *)
LEMMA TGood ==
    ASSUME IInv
    PROVE  /\ T \in Good /\ ActiveIdx(T) \in 1..Len(T.chain)
           /\ DOMAIN T.chain = 1..Len(T.chain)
  <1>1. T \in Good
    BY EnsuredGood DEF IInv, TasksOK, Like, T
  <1> QED
    BY <1>1, ActiveInChain, LastIdGood DEF Good

(* A request that stores a good task and leaves the results alone.          *)
LEMMA PersonOK ==
    ASSUME IInv, NEW op, Person(op), task' \in Good,
           orders' \subseteq StepId, pending' \subseteq ItemType,
           verdict' \in {"none", "approved", "denied"}, UNCHANGED result
    PROVE  IInv'
  BY DEF IInv, TasksOK, QueuesOK, ResultsOK, Person

LEMMA DispatchFirstGood ==
    ASSUME IInv, NEW t \in Good, NEW items \in SUBSET ItemType,
           DispatchFirst(t, items)
    PROVE  /\ task' \in Good /\ orders' \subseteq StepId
           /\ pending' \subseteq ItemType
  <1>1. CASE OverBudget(t)
    BY <1>1, ClocksGood
    DEF DispatchFirst, Like, ItemType, IInv, QueuesOK
  <1>2. CASE ~OverBudget(t)
    <2>1. PICK ok \in BOOLEAN :
             /\ Send(t.chain[1].id, ok)
             /\ task' = IF ok
                        THEN [Dispatched(Bumped(t), 1) EXCEPT
                                 !.active = t.chain[1].id]
                        ELSE [t EXCEPT !.state = "blocked",
                                       !.status = "blocked"]
             /\ pending' = items
      BY <1>2 DEF DispatchFirst
    <2>2. /\ 1 \in 1..Len(t.chain) /\ t.chain[1].id \in StepId
          /\ t.chain[1].id \in (Nat \ {0}) \X (Nat \ {0})
      BY LastIdGood
    <2>3. orders' \subseteq StepId
      BY <2>1, <2>2, SendGood DEF IInv
    <2>4. Dispatched(Bumped(t), 1) \in Good
      BY <1>2, <2>2, ClocksGood, DispatchedGood DEF Like
    <2>5. [Dispatched(Bumped(t), 1) EXCEPT !.active = t.chain[1].id] \in Good
      BY <2>2, <2>4 DEF Good, Task
    <2>6. [t EXCEPT !.state = "blocked", !.status = "blocked"] \in Good
      BY DEF Good, Task, State, Status
    <2> QED
      BY <2>1, <2>3, <2>5, <2>6
  <1> QED
    BY <1>1, <1>2

LEMMA ApprovePlanOK == ASSUME IInv, ApprovePlan PROVE IInv'
  <1>1. Started(T) \in Good
    BY TGood, ClocksGood DEF Like
  <1>2. pending \ {"plan_approval"} \in SUBSET ItemType
    BY DEF IInv, QueuesOK
  <1>3. /\ task' \in Good /\ orders' \subseteq StepId
        /\ pending' \subseteq ItemType
    BY <1>1, <1>2, DispatchFirstGood DEF ApprovePlan
  <1> QED
    BY <1>3, PersonOK DEF ApprovePlan, IInv, QueuesOK

(* init_chain_from_planned.                                                 *)
LEMMA InitialChainGood ==
    InitialChain(InitPlan) \in Chain /\ Len(InitialChain(InitPlan)) = 1
  <1> DEFINE s == [id |-> <<1, 1>>, role |-> Head(InitPlan), fs |-> "queued",
                   st |-> "running", consumed |-> FALSE]
  <1>1. Head(InitPlan) \in Role
    BY ParamAssumption, HeadTailProperties
  <1>2. s \in Step /\ s.id = <<1, 1>>
    BY <1>1 DEF Step, LiveFs
  <1> HIDE DEF s
  <1>3. <<s>> \in Seq(Step) /\ Len(<<s>>) = 1 /\ <<s>>[1] = s
    BY <1>2
  <1>4. \A j \in 1..1 : <<s>>[j].id \in (1..j) \X (1..j)
    BY <1>2, <1>3
  <1> QED
    BY <1>3, <1>4, ParamAssumption DEF Chain, InitialChain, s

LEMMA DenyPlanOK == ASSUME IInv, DenyPlan PROVE IInv'
  <1> DEFINE u == [T EXCEPT !.chain = InitialChain(InitPlan),
                            !.plan = Tail(InitPlan), !.active = <<1, 1>>,
                            !.status = "pending"]
             v == [T EXCEPT !.state = "cancelled", !.wait = "none",
                            !.status = "cancelled"]
  <1>1. T \in Good
    BY TGood
  <1>2. Tail(InitPlan) \in Seq(Role)
    BY ParamAssumption, HeadTailProperties
  <1>3. u \in Good
    <2> DEFINE c == InitialChain(InitPlan)
    <2>1. c \in Chain /\ c \in Seq(Step)
      BY InitialChainGood DEF Chain
    <2>2. <<1, 1>> \in (Nat \ {0}) \X (Nat \ {0}) /\ "pending" \in Status
      BY DEF Status
    <2> HIDE DEF c
    <2>3. [T EXCEPT !.chain = c, !.plan = Tail(InitPlan), !.active = <<1, 1>>,
                    !.status = "pending"] \in Good
      BY <1>1, <1>2, <2>1, <2>2 DEF Good, Task
    <2> QED
      BY <2>3 DEF c
  <1>4. v \in Good
    BY <1>1, LabelGood DEF Like, State, Wait, Status
  <1>5. task' = u \/ task' = v
    BY DEF DenyPlan
  <1>6. /\ pending' \subseteq ItemType /\ UNCHANGED <<orders, result, verdict>>
        /\ Person("deny_plan")
    BY DEF DenyPlan, IInv, QueuesOK, ItemType
  <1> HIDE DEF u, v
  <1> QED
    BY <1>3, <1>4, <1>5, <1>6, PersonOK DEF IInv, QueuesOK

(* Rolling back, with or without a push of the redo.                        *)
LEMMA RollBackAndSendGood ==
    ASSUME IInv, NEW target \in DOMAIN T.chain, RollBackAndSend(target)
    PROVE  task' \in Good /\ orders' \subseteq StepId
  <1> DEFINE u == RolledBack(T, target)
  <1>1. u \in Good
    BY TGood, RolledBackGood DEF RollBackAndSend
  <1>2. PICK ok \in BOOLEAN :
           /\ Send(LastOf(u.chain).id, ok)
           /\ task' = IF ok THEN Dispatched(u, Len(u.chain)) ELSE u
    BY DEF RollBackAndSend
  <1> HIDE DEF u
  <1>3. LastOf(u.chain).id \in StepId /\ Dispatched(u, Len(u.chain)) \in Good
    BY <1>1, LastIdGood, DispatchedGood DEF Like
  <1> QED
    BY <1>1, <1>2, <1>3, SendGood DEF IInv

LEMMA RollbacksOK ==
    ASSUME IInv, DenyBack \/ Rollback PROVE IInv'
  <1>1. PICK j \in DOMAIN T.chain : RollBackAndSend(j)
    BY DEF DenyBack, Rollback
  <1>2. task' \in Good /\ orders' \subseteq StepId
    BY <1>1, RollBackAndSendGood
  <1>3. /\ pending' \subseteq ItemType /\ UNCHANGED result
        /\ verdict' \in {"none", "approved", "denied"}
        /\ \E op : Person(op)
    BY DEF DenyBack, Rollback, Denied, IInv, QueuesOK
  <1> QED
    BY <1>2, <1>3, PersonOK

LEMMA QueueDenyOK == ASSUME IInv, QueueDeny PROVE IInv'
  <1>1. PICK j \in DOMAIN T.chain : task' = RolledBack(T, j)
    BY DEF QueueDeny
  <1>2. task' \in Good
    BY <1>1, TGood, RolledBackGood DEF QueueDeny
  <1>3. /\ pending' \subseteq ItemType /\ orders' \subseteq StepId
        /\ verdict' \in {"none", "approved", "denied"}
        /\ UNCHANGED result /\ Person("queue_deny")
    BY DEF QueueDeny, IInv, QueuesOK
  <1> QED
    BY <1>2, <1>3, PersonOK

(* The requests that only set fields of the task.                           *)
LEMMA FieldsOK ==
    ASSUME IInv,
           \/ Accept \/ DenyFinal \/ DenyGate \/ Pause \/ BudgetPause
           \/ BudgetResume
    PROVE  IInv'
  <1>1. T \in Good
    BY TGood
  <1>2. task' \in Good
    <2>1. CASE Accept
      BY <1>1, <2>1 DEF Accept, Good, Task, State, Status
    <2>2. CASE DenyFinal
      BY <1>1, <2>2 DEF DenyFinal, Good, Task, State, Status
    <2>3. CASE DenyGate
      BY <1>1, <2>3 DEF DenyGate, Good, Task, State, Wait
    <2>4. CASE Pause
      BY <1>1, <2>4 DEF Pause, Good, Task, State, Status
    <2>5. CASE BudgetPause
      BY <1>1, <2>5 DEF BudgetPause, Good, Task, State, Status
    <2>6. CASE BudgetResume
      BY <1>1, <2>6 DEF BudgetResume, Good, Task, State, Status
    <2> QED
      BY <2>1, <2>2, <2>3, <2>4, <2>5, <2>6
  <1>3. /\ pending' \subseteq ItemType /\ orders' \subseteq StepId
        /\ verdict' \in {"none", "approved", "denied"}
        /\ UNCHANGED result /\ \E op : Person(op)
    BY DEF Accept, DenyFinal, Denied, DenyGate, Pause, BudgetPause,
           BudgetResume, IInv, QueuesOK
  <1> QED
    BY <1>2, <1>3, PersonOK

(* The requests that close an item of the queue.                            *)
LEMMA ItemsOK ==
    ASSUME IInv, DenyMissed \/ QueueRefused \/ OwnerConfirm PROVE IInv'
  <1>1. T \in Good
    BY TGood
  <1>2. [T EXCEPT !.state = "cancelled", !.wait = "none",
                  !.status = "cancelled"] \in Good
    BY <1>1, LabelGood DEF Like, State, Wait, Status
  <1>3. task' \in Good
    BY <1>1, <1>2, ClocksGood DEF IInv, TasksOK, Like, DenyMissed, QueueRefused, OwnerConfirm
  <1>4. /\ pending' \subseteq ItemType /\ orders' \subseteq StepId
        /\ verdict' \in {"none", "approved", "denied"}
        /\ UNCHANGED result /\ \E op : Person(op)
    BY DEF DenyMissed, Denied, QueueRefused, OwnerConfirm, IInv, QueuesOK
  <1> QED
    BY <1>3, <1>4, PersonOK

(* The requests that mark the active step.                                  *)
LEMMA MarksOK == ASSUME IInv, Skip \/ Cancel PROVE IInv'
  <1> DEFINE i == ActiveIdx(T)
             skipped == [T EXCEPT !.chain[i].fs = "skipped"]
             dropped == [T EXCEPT !.chain[i].fs = "superseded"]
  <1>1. T \in Good /\ i \in 1..Len(T.chain)
    BY TGood
  <1>2. CASE Skip
    <2>1. skipped \in Like(T)
      BY <1>1, StepMarked DEF TerminalFs
    <2>2. [skipped EXCEPT !.chain[i].st = "skipped"] \in Like(skipped)
      BY <1>1, <2>1, StepMarked DEF Like
    <2>3. task' \in Good /\ Person("skip")
      BY <1>2, <2>2 DEF Skip, Like
    <2> QED
      BY <1>2, <2>3, PersonOK DEF Skip, IInv, QueuesOK
  <1>3. CASE Cancel
    <2>1. dropped \in Like(T)
      BY <1>1, StepMarked DEF TerminalFs
    <2>2. task' = [dropped EXCEPT !.state = "cancelled",
                                  !.status = "cancelled"]
      BY <1>3 DEF Cancel
    <2> HIDE DEF dropped
    <2>3. task' \in Good /\ Person("cancel")
      BY <1>3, <2>1, <2>2 DEF Cancel, Like, Good, Task, State, Status
    <2> QED
      BY <1>3, <2>3, PersonOK DEF Cancel, IInv, QueuesOK
  <1> QED
    BY <1>2, <1>3

LEMMA ContinueOK == ASSUME IInv, Continue PROVE IInv'
  <1> DEFINE i == ActiveIdx(T)
             a == [T EXCEPT !.chain[i].fs = "queued"]
             b == [a EXCEPT !.chain[i].st = "running"]
             c == [b EXCEPT !.chain[i].consumed = FALSE]
             t == [T EXCEPT !.chain[i].fs = "queued",
                            !.chain[i].st = "running",
                            !.chain[i].consumed = FALSE, !.state = "executing",
                            !.status = "running", !.active = T.chain[i].id,
                            !.budgetPaused = @ /\ T.state # "paused"]
  <1>1. /\ T \in Good /\ i \in 1..Len(T.chain)
        /\ T.chain[i].id \in StepId
        /\ T.chain[i].id \in (Nat \ {0}) \X (Nat \ {0})
    BY TGood, LastIdGood
  <1>2. a \in Like(T)
    BY <1>1, StepMarked DEF LiveFs
  <1>3. b \in Like(a)
    BY <1>1, <1>2, StepMarked DEF Like
  <1>4. c \in Like(b)
    BY <1>1, <1>2, <1>3, StepMarked DEF Like
  <1>5. \E x \in BOOLEAN :
           t = [c EXCEPT !.state = "executing", !.status = "running",
                         !.active = T.chain[i].id, !.budgetPaused = x]
    <2> DEFINE x == T.budgetPaused /\ T.state # "paused"
    <2>1. x \in BOOLEAN
      OBVIOUS
    <2>2. t = [c EXCEPT !.state = "executing", !.status = "running",
                        !.active = T.chain[i].id, !.budgetPaused = x]
      OBVIOUS
    <2> HIDE DEF x
    <2> QED
      BY <2>1, <2>2
  <1>6. PICK ok \in BOOLEAN :
           /\ Send(T.chain[i].id, ok)
           /\ task' = IF ok THEN Dispatched(t, i) ELSE t
    BY DEF Continue
  <1> HIDE DEF a, b, c, t
  <1>7. t \in Good /\ Len(t.chain) = Len(T.chain)
    <2>1. c \in Good /\ c \in Task /\ Len(c.chain) = Len(T.chain)
      BY <1>2, <1>3, <1>4 DEF Like, Good
    <2>2. PICK x \in BOOLEAN :
             t = [c EXCEPT !.state = "executing", !.status = "running",
                           !.active = T.chain[i].id, !.budgetPaused = x]
      BY <1>5
    <2> QED
      BY <1>1, <2>1, <2>2 DEF Good, Task, State, Status
  <1>8. Dispatched(t, i) \in Good
    BY <1>1, <1>7, DispatchedGood DEF Like
  <1>9. orders' \subseteq StepId
    BY <1>1, <1>6, SendGood DEF IInv
  <1> QED
    BY <1>6, <1>7, <1>8, <1>9, PersonOK DEF Continue, IInv, QueuesOK

LEMMA ApproveGateOK == ASSUME IInv, ApproveGate PROVE IInv'
  <1> DEFINE t == [Started(T) EXCEPT !.gate = "approved",
                                     !.plan = GatePlan \o @]
             s == FreshStep(t, Head(t.plan))
             p == [t EXCEPT !.plan = Tail(@)]
             u == [t EXCEPT !.plan = Tail(@), !.chain = Append(@, s),
                            !.active = s.id]
  <1>1. Started(T) \in Good
    BY TGood, ClocksGood DEF Like
  <1>2. Started(T).plan \in Seq(Role)
    BY <1>1 DEF Good, Task
  <1>3. GatePlan \o Started(T).plan \in Seq(Role)
    BY <1>2, ParamAssumption, ConcatProperties
  <1>4. t \in Good
    BY <1>1, <1>3 DEF Good, Task
  <1>5. \/ task' = t /\ UNCHANGED orders
        \/ /\ t.plan # <<>> /\ Len(t.chain) < MaxSteps
           /\ \E ok \in BOOLEAN :
                 /\ Send(s.id, ok)
                 /\ task' = IF ok THEN Dispatched(u, Len(u.chain)) ELSE u
    BY DEF ApproveGate
  <1>6. /\ pending' \subseteq ItemType /\ UNCHANGED <<result, verdict>>
        /\ Person("gate")
    BY DEF ApproveGate, IInv, QueuesOK
  <1> HIDE DEF t
  <1>7. ASSUME t.plan # <<>>, Len(t.chain) < MaxSteps
        PROVE  /\ u \in Good /\ s.id \in StepId
               /\ Dispatched(u, Len(u.chain)) \in Good
    <2>1. p \in Good /\ Head(t.plan) \in Role /\ Tail(t.plan) \in Seq(Role)
      BY <1>4, <1>7, PlanPopped, HeadTailProperties DEF Like, Good, Task
    <2>2. s \in NextStep(t)
      BY <1>4, <2>1, FreshStepFits
    <2>3. /\ s \in Step /\ s.id \in (Nat \ {0}) \X (Nat \ {0})
          /\ s.id \in (1..Len(t.chain) + 1) \X (1..Len(t.chain) + 1)
      BY <2>2 DEF NextStep, Step
    <2>4. s.id \in StepId
      BY <1>4, <1>7, <2>3, LastIdGood, ParamAssumption DEF StepId
    <2> HIDE DEF s
    <2>5. Append(t.chain, s) \in Chain /\ Append(t.chain, s) \in Seq(Step)
      BY <1>4, <1>7, <2>3, ChainAppend DEF Good, Chain
    <2>6. u \in Good
      BY <1>4, <2>1, <2>3, <2>5 DEF Good, Task
    <2> HIDE DEF u
    <2>7. Dispatched(u, Len(u.chain)) \in Good
      BY <2>6, LastIdGood, DispatchedGood DEF Like
    <2> QED
      BY <2>4, <2>6, <2>7
  <1> HIDE DEF s, u
  <1>8. task' \in Good /\ orders' \subseteq StepId
    BY <1>4, <1>5, <1>7, SendGood DEF IInv, QueuesOK
  <1> QED
    BY <1>6, <1>8, PersonOK DEF IInv, QueuesOK

-----------------------------------------------------------------------------
(* The invariant.                                                           *)

(* A created task is good, with its first step sent or not.                 *)
LEMMA InitOK == ASSUME Init PROVE IInv
  <1>1. <<1, 1>> \in StepId /\ <<1, 1>> \in (Nat \ {0}) \X (Nat \ {0})
    BY ParamAssumption DEF StepId
  <1>2. NewTask \in Good /\ Len(NewTask.chain) = 1 /\ NewTask.pushes = 0
    <2> DEFINE c == InitialChain(InitPlan)
               p == Tail(InitPlan)
    <2>1. c \in Chain /\ c \in Seq(Step) /\ Len(c) = 1
      BY InitialChainGood DEF Chain
    <2>2. p \in Seq(Role)
      BY ParamAssumption, HeadTailProperties
    <2>3. 0 <= PushLimit
      BY ParamAssumption
    <2>4. NewTask =
            [state |-> "created", wait |-> "await_plan_approval",
             status |-> "pending", chain |-> c, plan |-> p,
             active |-> <<1, 1>>, gate |-> "none", budgetPaused |-> FALSE,
             pushes |-> 0, retries |-> 0]
      BY DEF NewTask
    <2> HIDE DEF c, p
    <2> QED
      BY <1>1, <2>1, <2>2, <2>3, <2>4 DEF Good, Task, State, Wait, Status
  <1> DEFINE n == Started(NewTask)
  <1>3. n \in Good /\ Len(n.chain) = 1 /\ n.pushes = 0
    <2>1. NewTask \in Good
      BY <1>2
    <2>2. Started(NewTask) \in Like(NewTask)
      BY <2>1, ClocksGood
    <2>3. NewTask \in Task
      BY <2>1 DEF Good
    <2>4. Started(NewTask).pushes = NewTask.pushes
      BY <2>3 DEF Started, Task
    <2> QED
      BY <1>2, <2>2, <2>4 DEF Like
  <1> HIDE DEF n
  <1>4. Bumped(n) \in Good /\ Len(Bumped(n).chain) = 1
    <2>1. ~OverBudget(n)
      BY <1>3, ParamAssumption DEF OverBudget
    <2> QED
      BY <1>3, <2>1, ClocksGood DEF Like
  <1>5. Dispatched(Bumped(n), 1) \in Good
    BY <1>4, DispatchedGood DEF Like
  <1>6. [n EXCEPT !.state = "blocked", !.status = "blocked"] \in Good
    BY <1>3 DEF Good, Task, State, Status
  <1>7. task \in Good
    BY <1>2, <1>5, <1>6 DEF Init, n
  <1>8. snap \in [Worker -> Snap]
    BY DEF Init, Snap
  <1>9. QueuesOK
    BY <1>1 DEF Init, QueuesOK, ItemType
  <1>10. ResultsOK
    BY DEF Init, ResultsOK
  <1> QED
    BY <1>7, <1>8, <1>9, <1>10 DEF IInv, TasksOK

(* Every step keeps the invariant.                                          *)
LEMMA NextOK == ASSUME IInv, [Next]_vars PROVE IInv'
  <1>1. CASE People
    BY <1>1, ApprovePlanOK, DenyPlanOK, RollbacksOK, QueueDenyOK, FieldsOK,
       ItemsOK, MarksOK, ContinueOK, ApproveGateOK DEF People
  <1>2. CASE Agents
    BY <1>2, ReportOK DEF Agents
  <1>3. ASSUME NEW w \in Worker, Trigger(w) \/ Crash(w) PROVE IInv'
    BY <1>3, TriggerOK, CrashOK
  <1>4. CASE UNCHANGED vars
    BY <1>4 DEF vars, IInv, TasksOK, QueuesOK, ResultsOK
  <1> QED
    BY <1>1, <1>2, <1>3, <1>4 DEF Next

(* The good tasks are tasks within the limits.                              *)
LEMMA IInvTypeOK == ASSUME IInv PROVE TypeOK
  <1>1. Good \subseteq Task
    BY DEF Good
  <1>2. snap \in [Worker -> [task : Task, acted : BOOLEAN] \cup {NoTask}]
    BY <1>1 DEF IInv, TasksOK, Snap
  <1>3. /\ task \in Task /\ Len(task.chain) <= MaxSteps
        /\ task.pushes <= PushLimit
    BY DEF IInv, TasksOK, Good, Chain
  <1> QED
    BY <1>2, <1>3 DEF IInv, QueuesOK, ResultsOK, TypeOK

(* The bus, its agents and the people keep every task well formed, on disk  *)
(* and in every process's memory.                                           *)
THEOREM TaskInvariant == Spec => []IInv
  <1>1. Init => IInv
    BY InitOK
  <1>2. IInv /\ [Next]_vars => IInv'
    BY NextOK
  <1> QED
    BY <1>1, <1>2, PTL DEF Spec

(* The state keeps its type: the pushes never pass push_limits.per_task,    *)
(* whatever people roll back, and the step ids that orders and result files *)
(* are named after stay within the chain's length.  Of the retries nothing  *)
(* is said but that they are counted: bump_retry_count has no cap.          *)
THEOREM TaskTypeOK == Spec => []TypeOK
  <1>1. IInv => TypeOK
    BY IInvTypeOK
  <1> QED
    BY <1>1, TaskInvariant, PTL
=============================================================================
