--------------------------- MODULE TaskLineProofs ---------------------------
(***************************************************************************)
(* Proofs about the line of a task, for any roles, workers, plans and      *)
(* limits.  The chain of a task is in line: its ids come in order and no step*)
(* but the last is live.  What the trigger's handlers make of the task they*)
(* hold is described by a few relations (Judges, Blocks, GivesOut, Reopens),*)
(* what people make of it by six more, and each invariant is proved of those*)
(* alone.                                                                  *)
(***************************************************************************)
EXTENDS TaskFsmProofs, FiniteSetTheorems

(* Step ids in the order create_next_step gives them out.                  *)
Before(a, b) == a[1] < b[1] \/ (a[1] = b[1] /\ a[2] < b[2])

(* The step is over.                                                       *)
Closed(s) == s.fs \in TerminalFs

(* A step as create_next_step makes it, sent or not.                       *)
Open(s) == s.fs \in LiveFs /\ s.st = "running" /\ ~s.consumed

(* The ids of a chain in line come in order, and only its last step may be *)
(* live.                                                                   *)
InLine(c) ==
    /\ \A i, j \in 1..Len(c) : i < j => Before(c[i].id, c[j].id)
    /\ \A i \in 1..Len(c) : i < Len(c) => Closed(c[i])

(* No step is live.                                                        *)
AllClosed(c) == \A i \in 1..Len(c) : Closed(c[i])

(* A task that is judged or accepted is over; a created one has one step.  *)
Line(t) ==
    /\ InLine(t.chain)
    /\ t.state \in {"accepting", "succeeded"} =>
          t.plan = <<>> /\ AllClosed(t.chain)
    /\ t.state = "created" => Len(t.chain) = 1

(* A task as ensure_fsm leaves it: a terminal status shows in fsm_state.   *)
Normal(c) == \A i \in 1..Len(c) : c[i].st # "running" => Closed(c[i])

(* A result file says one of the things result files say.                  *)
KindsOK == \A id \in DOMAIN result : result[id].kind \in Kinds

(* Both hold of the task on disk and of every copy a scan works on.        *)
LineInv ==
    /\ KindsOK
    /\ Line(task)
    /\ \A w \in Worker : snap[w] # NoTask =>
          /\ Line(snap[w].task)
          /\ ~snap[w].acted => Normal(snap[w].task.chain)

-----------------------------------------------------------------------------

(* The active step of a chain in line is its last one.                     *)
LEMMA ActiveIsLast ==
    ASSUME NEW t, t.chain \in Chain, InLine(t.chain)
    PROVE  ActiveIdx(t) = Len(t.chain)
  <1> DEFINE n == Len(t.chain)
             live == {i \in DOMAIN t.chain : t.chain[i].fs \notin TerminalFs}
             named == {i \in DOMAIN t.chain : t.chain[i].id = t.active}
  <1>1. n \in Nat /\ DOMAIN t.chain = 1..n
    BY ChainSteps
  <1>2. live \in SUBSET (1..n) /\ \A i \in live : i = n
    BY <1>1 DEF InLine, Closed
  <1> HIDE DEF live, named
  <1>3. live # {} => Largest(live) \in live
    BY <1>1, <1>2, Extremes
  <1>4. ActiveIdx(t) =
          IF named # {} /\ Smallest(named) \in live THEN Smallest(named)
          ELSE IF live # {} THEN Largest(live) ELSE n
    BY DEF ActiveIdx, live, named
  <1> QED BY <1>2, <1>3, <1>4

(* The fields the trigger and the people set one by one.                   *)
SameFields(t, u) ==
    /\ u.state = t.state /\ u.wait = t.wait
    /\ u.status = t.status /\ u.plan = t.plan

(* A chain with steps under the same ids and roles, all but the last as    *)
(* they were, or at least as closed.                                       *)
Kept(a, b) ==
    /\ b.id = a.id /\ b.role = a.role
    /\ b.st = a.st /\ b.consumed = a.consumed
    /\ Closed(a) => Closed(b)

(* The two chains have the same steps, but the last one may be marked anew.*)
Reworked(c, d) ==
    /\ Len(d) = Len(c)
    /\ \A i \in 1..Len(c) : i < Len(c) => Kept(c[i], d[i])
    /\ d[Len(c)].id = c[Len(c)].id /\ d[Len(c)].role = c[Len(c)].role

(* A chain with one step more, numbered behind the one before it, which is *)
(* closed.                                                                 *)
Extended(c, d) ==
    LET n == Len(c)
    IN  /\ Len(d) = n + 1
        /\ \A i \in 1..n : i < n => Kept(c[i], d[i])
        /\ d[n].id = c[n].id /\ d[n].role = c[n].role /\ Closed(d[n])
        /\ Before(d[n].id, d[n + 1].id) /\ Open(d[n + 1])

(* The last step stays consumed.                                           *)
Remembers(c, d) == c[Len(c)].consumed => d[Len(c)].consumed

(* Step ids are ordered.                                                   *)
LEMMA BeforeTransitive ==
    ASSUME NEW a \in (Nat \ {0}) \X (Nat \ {0}),
           NEW b \in (Nat \ {0}) \X (Nat \ {0}),
           NEW c \in (Nat \ {0}) \X (Nat \ {0}), Before(a, b), Before(b, c)
    PROVE  Before(a, c)
  BY DEF Before

(* Marking the last step anew keeps a chain in line.                       *)
LEMMA ReworkedInLine ==
    ASSUME NEW c \in Chain, NEW d \in Chain, InLine(c), Reworked(c, d)
    PROVE  InLine(d) /\ (Closed(d[Len(d)]) => AllClosed(d))
  <1>1. Len(c) \in Nat /\ Len(d) = Len(c)
    BY ChainSteps DEF Reworked
  <1>2. \A i \in 1..Len(c) : d[i].id = c[i].id
    BY <1>1 DEF Reworked, Kept
  <1>3. \A i \in 1..Len(c) : i < Len(c) => Closed(d[i])
    BY <1>1 DEF Reworked, Kept, InLine
  <1>4. Closed(d[Len(d)]) => AllClosed(d)
    BY <1>1, <1>3 DEF AllClosed
  <1> QED BY <1>1, <1>2, <1>3, <1>4 DEF InLine

(* So does a further step behind it.                                       *)
LEMMA ExtendedInLine ==
    ASSUME NEW c \in Chain, NEW d \in Chain, InLine(c), Extended(c, d)
    PROVE  InLine(d)
  <1> DEFINE n == Len(c)
  <1>1. n \in Nat /\ n \in 1..n /\ Len(d) = n + 1
    BY ChainSteps DEF Extended
  <1>2. \A i \in 1..n : d[i].id = c[i].id
    BY <1>1 DEF Extended, Kept
  <1>3. \A i \in 1..n : Closed(d[i])
    BY <1>1 DEF Extended, Kept, InLine
  <1>4. Before(d[n].id, d[n + 1].id)
    BY DEF Extended
  <1>5. \A i \in 1..n + 1 : d[i].id \in (Nat \ {0}) \X (Nat \ {0})
    BY <1>1, ChainSteps DEF Step
  <1>6. \A i \in 1..n : i < n => Before(d[i].id, d[n].id)
    BY <1>1, <1>2 DEF InLine
  <1>7. \A i \in 1..n : Before(d[i].id, d[n + 1].id)
    <2> TAKE i \in 1..n
    <2>1. CASE i = n
      BY <1>4, <2>1
    <2>2. CASE i # n
      <3>1. /\ Before(d[i].id, d[n].id) /\ n + 1 \in 1..n + 1 /\ i \in 1..n + 1
            /\ n \in 1..n + 1
        BY <1>1, <1>6, <2>2
      <3> QED BY <1>4, <1>5, <3>1, BeforeTransitive
    <2> QED BY <2>1, <2>2
  <1>8. \A i, j \in 1..n + 1 : i < j => Before(d[i].id, d[j].id)
    <2> TAKE i, j \in 1..n + 1
    <2>1. CASE j = n + 1
      BY <1>1, <1>7, <2>1
    <2>2. CASE j # n + 1
      BY <1>1, <1>2, <2>2 DEF InLine
    <2> QED BY <2>1, <2>2
  <1> QED BY <1>1, <1>3, <1>8 DEF InLine

-----------------------------------------------------------------------------

(* ensure_fsm.                                                             *)
LEMMA EnsuredIs ==
    ASSUME NEW t \in Good
    PROVE  /\ Ensured(t) \in Good /\ SameFields(t, Ensured(t))
           /\ Len(Ensured(t).chain) = Len(t.chain)
           /\ \A i \in 1..Len(t.chain) :
                 /\ Kept(t.chain[i], Ensured(t).chain[i])
                 /\ StepDone(Ensured(t).chain[i]) => StepDone(t.chain[i])
                 /\ t.chain[i].st = "running" =>
                       Ensured(t).chain[i] = t.chain[i]
           /\ Normal(Ensured(t).chain)
  <1> DEFINE n == Len(t.chain)
             steps == [i \in DOMAIN t.chain |-> EnsuredStep(t.chain[i])]
             d == SubSeq(steps, 1, Len(steps))
             u == [t EXCEPT !.chain = d]
             e == [u EXCEPT !.active = u.chain[ActiveIdx(u)].id]
  <1>1. t \in Task /\ t.chain \in Chain
    BY DEF Good
  <1>2. n \in 1..MaxSteps /\ DOMAIN t.chain = 1..n /\ n \in Nat /\ n \in 1..n
    BY <1>1, ChainSteps
  <1>3. \A j \in 1..n : t.chain[j] \in Step
    BY <1>1, ChainSteps
  <1>4. \A x \in Step : /\ EnsuredStep(x) \in Step /\ Kept(x, EnsuredStep(x))
                        /\ EnsuredStep(x).st # "running" =>
                              Closed(EnsuredStep(x))
                        /\ StepDone(EnsuredStep(x)) => StepDone(x)
                        /\ x.st = "running" => EnsuredStep(x) = x
    BY DEF EnsuredStep, Step, TerminalFs, Kept, Closed, StepDone
  <1>5. /\ steps \in [1..n -> Step] /\ DOMAIN steps = 1..n
        /\ \A j \in 1..n : /\ Kept(t.chain[j], steps[j])
                           /\ steps[j].st # "running" => Closed(steps[j])
                           /\ StepDone(steps[j]) => StepDone(t.chain[j])
                           /\ t.chain[j].st = "running" =>
                                 steps[j] = t.chain[j]
    BY <1>2, <1>3, <1>4
  <1> HIDE DEF steps
  <1>6. \A j \in 1..n : steps[j].id = t.chain[j].id
    BY <1>5 DEF Kept
  <1>7. steps \in Chain
    BY <1>1, <1>2, <1>5, <1>6, ChainKept
  <1>8. Len(steps) = n
    BY <1>2, <1>5, <1>7, LenProperties DEF Chain
  <1>9. d = steps
    BY <1>7, SubSeqFull DEF Chain
  <1>10. u.chain = steps /\ SameFields(t, u) /\ DOMAIN u = DOMAIN t
    BY <1>1, <1>9 DEF Task, SameFields
  <1> HIDE DEF u
  <1>11. e.chain = steps /\ SameFields(t, e)
    BY <1>1, <1>10 DEF Task, SameFields
  <1>12. Ensured(t) = e
    BY DEF Ensured, e, u, d, steps
  <1> HIDE DEF e
  <1>13. Ensured(t) \in Good
    BY EnsuredGood DEF Like
  <1> QED BY <1>5, <1>8, <1>11, <1>12, <1>13 DEF Normal

(* ensure_fsm keeps a task in line.                                        *)
LEMMA EnsuredLine ==
    ASSUME NEW t \in Good, Line(t)
    PROVE  Line(Ensured(t))
  <1>1. /\ t.chain \in Chain /\ Ensured(t).chain \in Chain
        /\ Len(t.chain) \in 1..Len(t.chain)
    BY EnsuredIs, LastIdGood DEF Good
  <1>2. Reworked(t.chain, Ensured(t).chain)
    BY <1>1, EnsuredIs DEF Reworked, Kept
  <1>3. AllClosed(t.chain) => AllClosed(Ensured(t).chain)
    BY EnsuredIs DEF AllClosed, Kept
  <1> QED BY <1>1, <1>2, <1>3, EnsuredIs, ReworkedInLine DEF Line, SameFields

(* Another last step under the same id, for the same role.                 *)
LEMMA LastReplaced ==
    ASSUME NEW t \in Good, NEW s \in Step, NEW n, n = Len(t.chain),
           s.id = t.chain[n].id, s.role = t.chain[n].role,
           NEW u, u = [t EXCEPT !.chain[n] = s]
    PROVE  /\ u \in Good /\ SameFields(t, u) /\ Reworked(t.chain, u.chain)
           /\ u.chain[n] = s /\ Len(u.chain) = n
           /\ \A i \in 1..n : i # n => u.chain[i] = t.chain[i]
  <1>1. n \in 1..n /\ DOMAIN t.chain = 1..n /\ t \in Task
    BY LastIdGood DEF Good
  <1>2. u \in Good /\ Len(u.chain) = n
    <2>1. u \in Like(t)
      BY <1>1, StepReplaced
    <2> QED BY <2>1 DEF Like
  <1>3. u.chain = [t.chain EXCEPT ![n] = s] /\ SameFields(t, u)
    BY <1>1 DEF Task, SameFields
  <1>4. u.chain[n] = s /\ \A i \in 1..n : i # n => u.chain[i] = t.chain[i]
    BY <1>1, <1>3
  <1> QED BY <1>1, <1>2, <1>3, <1>4 DEF Reworked, Kept

(* A step replaced twice.                                                  *)
LEMMA TwiceReplaced ==
    ASSUME NEW t \in Task, NEW n \in DOMAIN t.chain, NEW x, NEW y,
           NEW u, u = [t EXCEPT !.chain[n] = x],
           NEW v, v = [u EXCEPT !.chain[n] = y]
    PROVE  v = [t EXCEPT !.chain[n] = y]
  <1>1. DOMAIN t.chain = 1..Len(t.chain)
    BY DEF Task
  <1> QED BY <1>1 DEF Task

(* complete_step, mark_step_dispatched, apply_skip on the last step.       *)
LEMMA CompletedIs ==
    ASSUME NEW t \in Good, NEW n, n = Len(t.chain)
    PROVE  LET u == Completed(t, n)
           IN  /\ u \in Good /\ SameFields(t, u) /\ Reworked(t.chain, u.chain)
               /\ Closed(u.chain[n]) /\ Len(u.chain) = n
               /\ u.chain[n].st = "completed" /\ u.chain[n].consumed
               /\ \A i \in 1..n : i # n => u.chain[i] = t.chain[i]
  <1> DEFINE s == [t.chain[n] EXCEPT !.fs = "completed", !.st = "completed",
                                     !.consumed = TRUE]
             u == [t EXCEPT !.chain[n] = s]
  <1>1. n \in 1..n /\ t.chain \in Chain /\ t \in Task
    BY LastIdGood DEF Good
  <1>2. t.chain[n] \in Step
    BY <1>1, ChainSteps
  <1>3. /\ s \in Step /\ s.id = t.chain[n].id /\ s.role = t.chain[n].role
        /\ Closed(s) /\ s.st = "completed" /\ s.consumed
    BY <1>2 DEF Step, Closed, TerminalFs
  <1>4. u = Completed(t, n)
    BY <1>1, ChainSteps DEF Completed, Task
  <1> HIDE DEF s
  <1> QED BY <1>3, <1>4, LastReplaced

(* mark_step_dispatched on the last step.                                  *)
LEMMA DispatchedIs ==
    ASSUME NEW t \in Good, NEW n, n = Len(t.chain)
    PROVE  LET u == Dispatched(t, n)
           IN  /\ u \in Good /\ SameFields(t, u) /\ Reworked(t.chain, u.chain)
               /\ ~t.chain[n].consumed => Open(u.chain[n])
               /\ u.chain[n].consumed = t.chain[n].consumed
               /\ Len(u.chain) = n
               /\ \A i \in 1..n : i # n => u.chain[i] = t.chain[i]
  <1> DEFINE s == [t.chain[n] EXCEPT !.fs = "dispatched", !.st = "running"]
             u == [t EXCEPT !.chain[n] = s]
  <1>1. n \in 1..n /\ t.chain \in Chain /\ t \in Task
    BY LastIdGood DEF Good
  <1>2. t.chain[n] \in Step
    BY <1>1, ChainSteps
  <1>3. /\ s \in Step /\ s.id = t.chain[n].id /\ s.role = t.chain[n].role
        /\ ~t.chain[n].consumed => Open(s)
        /\ s.consumed = t.chain[n].consumed
    BY <1>2 DEF Step, Open, LiveFs
  <1>4. u = Dispatched(t, n)
    BY <1>1, ChainSteps DEF Dispatched, Task
  <1> HIDE DEF s
  <1> QED BY <1>3, <1>4, LastReplaced

(* create_next_step.                                                       *)
LEMMA AdvancedIs ==
    ASSUME NEW t \in Good, Len(t.chain) < MaxSteps, NEW s \in NextStep(t),
           Closed(t.chain[Len(t.chain)]), Open(s),
           Before(t.chain[Len(t.chain)].id, s.id)
    PROVE  LET u == Advanced(t, s)
               n == Len(t.chain)
           IN  /\ u \in Good /\ u.state = "executing" /\ u.status = "running"
               /\ u.wait = t.wait /\ u.plan = t.plan
               /\ Len(u.chain) = n + 1 /\ u.chain[n + 1] = s
               /\ \A i \in 1..n : u.chain[i] = t.chain[i]
               /\ Extended(t.chain, u.chain)
  <1> DEFINE u == Advanced(t, s)
             n == Len(t.chain)
  <1>1. t \in Task /\ t.chain \in Seq(Step) /\ n \in 1..n /\ n \in Nat
    BY LastIdGood DEF Good, Chain
  <1>2. u \in Good /\ u.chain = Append(t.chain, s) /\ Len(u.chain) = n + 1
    BY AdvancedGood
  <1>3. /\ u.state = "executing" /\ u.status = "running" /\ u.wait = t.wait
        /\ u.plan = t.plan
    BY <1>1 DEF Advanced, Task
  <1>4. u.chain[n + 1] = s /\ \A i \in 1..n : u.chain[i] = t.chain[i]
    BY <1>1, <1>2, AppendProperties DEF NextStep
  <1> HIDE DEF u
  <1>5. Extended(t.chain, u.chain)
    BY <1>1, <1>2, <1>4 DEF Extended, Kept
  <1> QED BY <1>2, <1>3, <1>4, <1>5 DEF u

(* create_next_step numbers a step behind the last one ...                 *)
LEMMA FreshStepFollows ==
    ASSUME NEW t \in Good, NEW r \in Role
    PROVE  /\ FreshStep(t, r) \in NextStep(t) /\ Open(FreshStep(t, r))
           /\ Before(t.chain[Len(t.chain)].id, FreshStep(t, r).id)
           /\ FreshStep(t, r).role = r
  <1>1. /\ Len(t.chain) \in Nat /\ Len(t.chain) \in 1..Len(t.chain)
        /\ t.chain[Len(t.chain)].id \in (1..Len(t.chain)) \X (1..Len(t.chain))
    BY LastIdGood, ChainSteps DEF Good
  <1>2. /\ FreshStep(t, r).id = <<Len(t.chain) + 1, 1>> /\ Open(FreshStep(t, r))
        /\ FreshStep(t, r).role = r
    BY DEF FreshStep, Open, LiveFs
  <1> QED BY <1>1, <1>2, FreshStepFits DEF Before

(* ... and a redo of the last step, by its attempt.                        *)
LEMMA RedoStepFollows ==
    ASSUME NEW t \in Good, NEW r \in Role, NEW n, n = Len(t.chain)
    PROVE  LET s == RedoStep(t, t.chain[n].id, r)
           IN  /\ s \in NextStep(t) /\ Open(s) /\ Before(t.chain[n].id, s.id)
               /\ s.role = r
  <1>1. n \in Nat /\ n \in 1..n /\ t.chain[n].id \in (1..n) \X (1..n)
    BY LastIdGood, ChainSteps DEF Good
  <1> DEFINE s == RedoStep(t, t.chain[n].id, r)
  <1>2. /\ s.id = <<t.chain[n].id[1], t.chain[n].id[2] + 1>> /\ Open(s)
        /\ s.role = r
    BY DEF RedoStep, LastOf, Open, LiveFs
  <1>3. s \in NextStep(t)
    BY <1>1, RedoStepFits
  <1> HIDE DEF s
  <1>4. Before(t.chain[n].id, s.id)
    BY <1>1, <1>2 DEF Before
  <1> QED BY <1>2, <1>3, <1>4 DEF s

-----------------------------------------------------------------------------

(* revert_failed_advance of the step behind the n-th.                      *)
LEMMA RevertedIs ==
    ASSUME NEW t \in Good, NEW n \in Nat \ {0}, Len(t.chain) = n + 1
    PROVE  LET u == Reverted(t, n)
           IN  /\ u \in Good /\ u.state = "executing" /\ u.status = "running"
               /\ u.wait = t.wait /\ u.plan = t.plan /\ Len(u.chain) = n
               /\ \A i \in 1..n : i < n => Kept(t.chain[i], u.chain[i])
               /\ u.chain[n].id = t.chain[n].id
               /\ u.chain[n].role = t.chain[n].role
               /\ Open(u.chain[n])
  <1> DEFINE m == Len(t.chain) - 1
             opened == [t.chain[n] EXCEPT !.fs = "awaiting_result",
                                          !.st = "running", !.consumed = FALSE]
             d == [j \in 1..m |-> IF j = n THEN opened ELSE t.chain[j]]
             u == [t EXCEPT !.chain = d]
             e == Ensured(u)
             r == [e EXCEPT !.state = "executing", !.status = "running",
                            !.active = u.chain[n].id]
  <1>1. t \in Task /\ t.chain \in Chain /\ n \in 1..Len(t.chain) /\ m = n
    BY DEF Good
  <1>2. \A j \in 1..n : t.chain[j] \in Step
    BY <1>1, ChainSteps
  <1>3. /\ opened \in Step /\ opened.id = t.chain[n].id
        /\ opened.role = t.chain[n].role /\ Open(opened)
    <2>1. t.chain[n] \in Step
      BY <1>2
    <2> QED BY <2>1 DEF Step, LiveFs, Open
  <1> HIDE DEF opened, m
  <1>4. /\ d \in [1..n -> Step] /\ \A j \in 1..n : d[j].id = t.chain[j].id
        /\ d[n] = opened /\ \A j \in 1..n : j < n => d[j] = t.chain[j]
    BY <1>1, <1>2, <1>3
  <1> HIDE DEF d
  <1>5. d \in Chain /\ Len(d) = n
    <2>1. d \in Chain
      BY <1>1, <1>4, ChainKept
    <2> QED BY <1>4, <2>1, LenProperties DEF Chain
  <1>6. u \in Good /\ u.chain = d /\ u.wait = t.wait /\ u.plan = t.plan
    BY <1>1, <1>5 DEF Good, Task, Chain
  <1> HIDE DEF u
  <1>7. /\ e \in Good /\ SameFields(u, e) /\ Len(e.chain) = n
        /\ \A j \in 1..n : /\ Kept(d[j], e.chain[j])
                           /\ d[j].st = "running" => e.chain[j] = d[j]
    BY <1>5, <1>6, EnsuredIs
  <1> HIDE DEF e
  <1>8. d[n].id \in (Nat \ {0}) \X (Nat \ {0})
    BY <1>4 DEF Step
  <1>9. /\ r \in Good /\ r.state = "executing" /\ r.status = "running"
        /\ r.wait = t.wait /\ r.plan = t.plan /\ r.chain = e.chain
    <2>1. e \in Task /\ u.chain[n].id \in (Nat \ {0}) \X (Nat \ {0})
      BY <1>6, <1>7, <1>8 DEF Good
    <2>2. /\ r \in Task /\ r.state = "executing" /\ r.status = "running"
          /\ r.wait = e.wait /\ r.plan = e.plan /\ r.chain = e.chain
          /\ r.pushes = e.pushes /\ r.retries = e.retries
      BY <2>1 DEF Task, State, Status
    <2> QED BY <1>6, <1>7, <2>2 DEF Good, SameFields
  <1>10. Reverted(t, n) = r
    BY DEF Reverted, r, e, u, d, m, opened
  <1> HIDE DEF r
  <1>11. n \in 1..n
    OBVIOUS
  <1>12. /\ r.chain[n].id = t.chain[n].id /\ r.chain[n].role = t.chain[n].role
         /\ Open(r.chain[n])
    BY <1>3, <1>4, <1>7, <1>9, <1>11 DEF Open
  <1>13. \A i \in 1..n : i < n => Kept(t.chain[i], r.chain[i])
    BY <1>4, <1>7, <1>9
  <1> QED BY <1>7, <1>9, <1>10, <1>12, <1>13

(* apply_rollback in a chain in line.                                      *)
LEMMA RolledBackIs ==
    ASSUME NEW t \in Good, InLine(t.chain), Len(t.chain) < MaxSteps,
           NEW j \in DOMAIN t.chain
    PROVE  LET u == RolledBack(t, j)
               n == Len(t.chain)
           IN  /\ u \in Good /\ u.state = "executing" /\ u.status = "running"
               /\ u.wait = t.wait /\ u.plan = t.plan
               /\ Extended(t.chain, u.chain)
               /\ u.chain[n + 1].role = t.chain[j].role
               /\ Remembers(t.chain, u.chain)
  <1> DEFINE n == Len(t.chain)
             d == [k \in DOMAIN t.chain |->
                     IF k = n THEN [t.chain[k] EXCEPT !.fs = "failed",
                                                !.st = "failed"]
                     ELSE IF k > n THEN [t.chain[k] EXCEPT !.fs = "superseded",
                                                     !.st = "done"]
                     ELSE t.chain[k]]
             f == [t EXCEPT !.chain = d]
             s == RedoStep(t, t.chain[n].id, t.chain[j].role)
             u == Advanced(f, s)
  <1>1. /\ t \in Task /\ t.chain \in Chain /\ n \in 1..n /\ n \in Nat
        /\ DOMAIN t.chain = 1..n /\ ActiveIdx(t) = n
    BY LastIdGood, ActiveIsLast DEF Good
  <1>2. \A k \in 1..n : t.chain[k] \in Step
    BY <1>1, ChainSteps
  <1>3. LET x == [t.chain[n] EXCEPT !.fs = "failed", !.st = "failed"]
        IN  /\ x \in Step /\ x.id = t.chain[n].id /\ x.role = t.chain[n].role
            /\ Closed(x) /\ x.consumed = t.chain[n].consumed
    BY <1>1, <1>2 DEF Step, TerminalFs, Closed
  <1>4. \A k \in 1..n : d[k] = IF k = n
                               THEN [t.chain[n] EXCEPT !.fs = "failed",
                                                       !.st = "failed"]
                               ELSE t.chain[k]
    <2> TAKE k \in 1..n
    <2>1. ~(k > n) /\ k \in DOMAIN t.chain
      BY <1>1
    <2>2. d[k] = IF k = n THEN [t.chain[k] EXCEPT !.fs = "failed",
                                                  !.st = "failed"]
                 ELSE IF k > n THEN [t.chain[k] EXCEPT !.fs = "superseded",
                                                       !.st = "done"]
                 ELSE t.chain[k]
      BY <2>1
    <2> HIDE DEF d
    <2> QED BY <2>1, <2>2
  <1>5. /\ d \in [1..n -> Step] /\ \A k \in 1..n : d[k].id = t.chain[k].id
        /\ d[n].role = t.chain[n].role /\ Closed(d[n])
        /\ d[n].consumed = t.chain[n].consumed
        /\ \A k \in 1..n : k < n => d[k] = t.chain[k]
    <2> DEFINE x == [t.chain[n] EXCEPT !.fs = "failed", !.st = "failed"]
    <2>1. DOMAIN d = DOMAIN t.chain
      OBVIOUS
    <2>2. d = [k \in DOMAIN t.chain |-> d[k]]
      OBVIOUS
    <2> HIDE DEF d, x
    <2>3. \A k \in 1..n : d[k] = IF k = n THEN x ELSE t.chain[k]
      BY <1>4 DEF x
    <2>4. /\ x \in Step /\ x.id = t.chain[n].id /\ x.role = t.chain[n].role
          /\ Closed(x) /\ x.consumed = t.chain[n].consumed
      BY <1>3 DEF x
    <2>5. \A k \in 1..n : d[k] \in Step /\ d[k].id = t.chain[k].id
      BY <1>2, <2>3, <2>4
    <2>6. d \in [1..n -> Step]
      BY <1>1, <2>1, <2>2, <2>5
    <2> QED BY <1>1, <2>3, <2>4, <2>5, <2>6
  <1>6. u = RolledBack(t, j)
    BY <1>1 DEF RolledBack
  <1> HIDE DEF d
  <1>7. d \in Chain /\ Len(d) = n
    <2>1. d \in Chain
      BY <1>1, <1>5, ChainKept
    <2> QED BY <1>1, <1>5, <2>1, LenProperties DEF Chain
  <1>8. f \in Good /\ f.chain = d /\ f.wait = t.wait /\ f.plan = t.plan
    BY <1>1, <1>7 DEF Good, Task, Chain
  <1> HIDE DEF f
  <1>9. t.chain[j].role \in Role
    BY <1>1, <1>2 DEF Step
  <1>10. /\ s \in NextStep(t) /\ Open(s) /\ Before(t.chain[n].id, s.id)
         /\ s.role = t.chain[j].role
    BY <1>9, RedoStepFollows
  <1>11. s \in NextStep(f)
    BY <1>7, <1>8, <1>10 DEF NextStep
  <1> HIDE DEF s
  <1>12. /\ u \in Good /\ u.state = "executing" /\ u.status = "running"
         /\ u.wait = f.wait /\ u.plan = f.plan
         /\ Len(u.chain) = n + 1 /\ u.chain[n + 1] = s
         /\ \A i \in 1..n : u.chain[i] = f.chain[i]
    <2>1. /\ Closed(f.chain[n]) /\ Len(f.chain) = n
          /\ f.chain[n].id = t.chain[n].id
      BY <1>1, <1>5, <1>7, <1>8
    <2>2. Len(f.chain) < MaxSteps /\ Before(f.chain[Len(f.chain)].id, s.id)
      BY <1>10, <2>1
    <2>3. Closed(f.chain[Len(f.chain)])
      BY <2>1
    <2>4. /\ u \in Good /\ u.state = "executing" /\ u.status = "running"
          /\ u.wait = f.wait /\ u.plan = f.plan
          /\ Len(u.chain) = Len(f.chain) + 1 /\ u.chain[Len(f.chain) + 1] = s
          /\ \A i \in 1..Len(f.chain) : u.chain[i] = f.chain[i]
      BY <1>8, <1>10, <1>11, <2>2, <2>3, AdvancedIs
    <2> QED BY <2>1, <2>4
  <1> HIDE DEF u
  <1>13. Extended(t.chain, u.chain) /\ Remembers(t.chain, u.chain)
    BY <1>1, <1>5, <1>8, <1>10, <1>12 DEF Extended, Kept, Remembers
  <1> QED BY <1>6, <1>8, <1>10, <1>11, <1>12, <1>13

-----------------------------------------------------------------------------

(* What giving out s makes of t: u, which has s behind its chain, or is    *)
(* open again because the order of s did not arrive.                       *)
GivenOut(w, t, s, u) ==
    LET n == Len(t.chain)
    IN  /\ Settle(w, u) /\ u.wait = t.wait /\ u.plan = t.plan
        /\ verdict' = verdict
        /\ \/ /\ u.state \in {"blocked", "executing"}
              /\ Extended(t.chain, u.chain)
              /\ u.chain[n] = t.chain[n] /\ u.chain[n + 1].role = s.role
              /\ \/ /\ u.state = "blocked" /\ orders' = orders
                    /\ pending' = pending \cup {"push_budget"}
                 \/ /\ u.state = "executing" /\ u.status = "running"
                    /\ orders' = orders \cup {s.id}
                    /\ u.chain[n + 1].id = s.id
                    /\ pending' = pending
           \/ /\ u.state = "executing" /\ u.status = "running"
              /\ Reworked(t.chain, u.chain) /\ Open(u.chain[n])
              /\ SendMayFail /\ orders' = orders /\ pending' = pending

(* Giving out step s behind the chain of t.                                *)
LEMMA GiveOutIs ==
    ASSUME NEW w, NEW t \in Good, NEW n, n = Len(t.chain),
           NEW s \in NextStep(t),
           Closed(t.chain[n]), Open(s), Before(t.chain[n].id, s.id),
           GiveOut(w, t, n, s)
    PROVE  \E u : u \in Good /\ GivenOut(w, t, s, u)
  <1> DEFINE a == Advanced(t, s)
  <1>1. n \in Nat \ {0} /\ n \in 1..n /\ Len(t.chain) < MaxSteps
    BY LastIdGood DEF GiveOut
  <1>2. /\ a \in Good /\ a.wait = t.wait /\ a.plan = t.plan
        /\ a.state = "executing" /\ a.status = "running"
        /\ Len(a.chain) = n + 1 /\ a.chain[n + 1] = s
        /\ Extended(t.chain, a.chain)
        /\ \A i \in 1..n : a.chain[i] = t.chain[i]
    BY <1>1, AdvancedIs
  <1> HIDE DEF a
  <1>3. CASE BlockFor(w, BudgetBlocked(a), "push_budget")
    <2> DEFINE u == BudgetBlocked(a)
    <2>1. u \in Good
      BY <1>2, ClocksGood DEF Like
    <2>2. /\ u.chain = a.chain /\ u.state = "blocked" /\ u.wait = a.wait
          /\ u.plan = a.plan
      BY <1>2 DEF BudgetBlocked, Good, Task
    <2> HIDE DEF u
    <2>3. /\ Settle(w, u) /\ pending' = pending \cup {"push_budget"}
          /\ UNCHANGED <<orders, verdict>>
      BY <1>3 DEF BlockFor, u
    <2>4. GivenOut(w, t, s, u)
      BY <1>1, <1>2, <2>2, <2>3 DEF GivenOut
    <2> QED BY <2>1, <2>4
  <1>4. ASSUME NEW ok \in BOOLEAN, ~OverBudget(a), Send(s.id, ok),
               Settle(w, IF ok THEN Dispatched(Bumped(a), n + 1)
                         ELSE Reverted(a, n)),
               UNCHANGED <<pending, verdict>>
        PROVE  \E u : u \in Good /\ GivenOut(w, t, s, u)
    <2>1. CASE ok
      <3> DEFINE b == Bumped(a)
                 u == Dispatched(b, n + 1)
      <3>1. b \in Good
        BY <1>2, <1>4, ClocksGood DEF Like
      <3>2. /\ b.chain = a.chain /\ b.state = a.state /\ b.wait = a.wait
            /\ b.plan = a.plan /\ b.status = a.status
        BY <1>2 DEF Bumped, Good, Task
      <3> HIDE DEF b
      <3>3. /\ u \in Good /\ SameFields(b, u) /\ Reworked(a.chain, u.chain)
            /\ Open(u.chain[n + 1])
            /\ Len(u.chain) = n + 1
            /\ \A i \in 1..n + 1 : i # n + 1 => u.chain[i] = a.chain[i]
        BY <1>2, <3>1, <3>2, DispatchedIs DEF Open
      <3> HIDE DEF u
      <3>4. u.chain[n + 1].id = s.id /\ u.chain[n + 1].role = s.role
        BY <1>2, <3>3 DEF Reworked
      <3>5. \A i \in 1..n : u.chain[i] = t.chain[i]
        BY <1>1, <1>2, <3>3
      <3>6. Extended(t.chain, u.chain)
        BY <1>1, <3>3, <3>4, <3>5 DEF Extended, Kept
      <3>7. Settle(w, u) /\ orders' = orders \cup {s.id}
        BY <1>4, <2>1 DEF Send, u, b
      <3>8. GivenOut(w, t, s, u)
        BY <1>1, <1>2, <1>4, <3>2, <3>3, <3>4, <3>5, <3>6, <3>7
           DEF SameFields, GivenOut
      <3> QED BY <3>3, <3>8
    <2>2. CASE ~ok
      <3> DEFINE u == Reverted(a, n)
      <3>1. /\ u \in Good /\ u.state = "executing" /\ u.status = "running"
            /\ u.wait = a.wait /\ u.plan = a.plan /\ Len(u.chain) = n
            /\ \A i \in 1..n : i < n => Kept(a.chain[i], u.chain[i])
            /\ u.chain[n].id = a.chain[n].id
            /\ u.chain[n].role = a.chain[n].role
            /\ Open(u.chain[n])
        BY <1>1, <1>2, RevertedIs
      <3> HIDE DEF u
      <3>2. Reworked(t.chain, u.chain)
        BY <1>1, <1>2, <3>1 DEF Reworked
      <3>3. Settle(w, u) /\ SendMayFail /\ orders' = orders
        BY <1>4, <2>2 DEF Send, u
      <3>4. GivenOut(w, t, s, u)
        BY <1>2, <1>4, <3>1, <3>2, <3>3 DEF GivenOut
      <3> QED BY <3>1, <3>4
    <2> QED BY <2>1, <2>2
  <1>5. \/ BlockFor(w, BudgetBlocked(a), "push_budget")
        \/ /\ ~OverBudget(a)
           /\ \E ok \in BOOLEAN :
                 /\ Send(s.id, ok)
                 /\ Settle(w, IF ok THEN Dispatched(Bumped(a), n + 1)
                              ELSE Reverted(a, n))
           /\ UNCHANGED <<pending, verdict>>
    BY <1>2 DEF GiveOut, a
  <1> QED BY <1>3, <1>4, <1>5

-----------------------------------------------------------------------------

(* What a step of the trigger makes of the task m that worker w holds: u.  *)

(* Planned roles may go without getting a step.                            *)
Lossy ==
    \/ AgentMayLack \/ SendMayFail
    \/ "decompose" \in Kinds /\ SubtaskPlan = <<>>

(* The plan keeps its roles, or the first of them becomes the last step.   *)
PlanMove(m, u) ==
    \/ Len(u.chain) = Len(m.chain) /\ (u.plan = m.plan \/ Lossy)
    \/ /\ Len(u.chain) = Len(m.chain) + 1
       /\ \/ AgentMayLack \/ "decompose" \in Kinds
          \/ m.plan = <<>> /\ u.plan = <<>>
          \/ /\ m.plan # <<>> /\ u.plan = Tail(m.plan)
             /\ u.chain[Len(u.chain)].role = Head(m.plan)

(* The last step of c is done in d, or was before.                         *)
Finishes(c, d) ==
    LET n == Len(c)
    IN  \/ d[n].st = "completed"
        \/ StepDone(c[n]) /\ d[n].st = c[n].st

(* The chain is over: a person judges the task, or it is accepted.         *)
Judges(m, u) ==
    /\ Reworked(m.chain, u.chain) /\ AllClosed(u.chain)
    /\ u.plan = <<>> /\ u.wait = "none"
    /\ \/ /\ u.state = "accepting" /\ verdict' = verdict
          /\ pending' = pending \cup {"final_acceptance"}
       \/ u.state = "succeeded" /\ pending' = pending /\ verdict' = "approved"

(* A finished step may leave the task blocked.                             *)
Stuck ==
    "blocked" \in Flow \/ HasGate \/ "clarify" \in Kinds \/ AgentMayLack

(* The task waits for a person, by its label or by its state.              *)
Blocks(m, u) ==
    /\ Reworked(m.chain, u.chain) /\ u.state = "blocked"
    /\ verdict' = verdict /\ orders' = orders
    /\ Stuck \/ ~StepDone(u.chain[Len(u.chain)])
    /\ \/ /\ u.wait = m.wait
          /\ pending' \in {pending, pending \cup {"push_budget"}}
       \/ /\ u.wait = "await_owner_confirmation"
          /\ pending' = pending \cup {"owner_confirmation"}
          /\ u.chain[Len(u.chain)].st = "completed"
       \/ u.wait = "await_gate" /\ pending' = pending \cup {"workflow_gate"}

(* A step follows, sent, or held back by the push budget.                  *)
GivesOut(m, u) ==
    /\ Extended(m.chain, u.chain) /\ u.wait = m.wait /\ verdict' = verdict
    /\ Finishes(m.chain, u.chain)
    /\ \/ /\ u.state = "blocked" /\ orders' = orders
          /\ pending' = pending \cup {"push_budget"}
       \/ /\ u.state = "executing" /\ u.status = "running"
          /\ pending' = pending
          /\ orders' = orders \cup {u.chain[Len(u.chain)].id}

(* The last step is open again: sent again, or its delivery failed.        *)
Reopens(m, u) ==
    LET n == Len(m.chain)
    IN  /\ Reworked(m.chain, u.chain) /\ u.wait = m.wait
        /\ verdict' = verdict /\ pending' = pending
        /\ \/ /\ u.state = "executing" /\ u.status = "running"
              /\ Open(u.chain[n])
           \/ /\ u.state = m.state /\ u.status = m.status
              /\ ~StepDone(m.chain[n])
              /\ ~StepDone(u.chain[n]) /\ ~u.chain[n].consumed
        /\ \/ orders' = orders \cup {m.chain[n].id}
           \/ SendMayFail /\ orders' = orders

(* The states the trigger acts in.                                         *)
Runs(m) ==
    \/ m.state = "executing"
    \/ m.state = "created" /\ m.status = "running"
    \/ ChainOver(m) /\ m.state \notin {"paused", "cancelled"}

(* A scan that acts on its task does one of these.                         *)
Acts(w) ==
    /\ Runs(Mine(w))
    /\ \E f, u \in Good :
          /\ Store(w, f, u) /\ f.chain = Mine(w).chain /\ SameFields(Mine(w), f)
          /\ PlanMove(Mine(w), u)
          /\ SendMayFail \/ Remembers(Mine(w).chain, u.chain)
          /\ \/ Judges(Mine(w), u) \/ Blocks(Mine(w), u)
             \/ GivesOut(Mine(w), u) \/ Reopens(Mine(w), u)

(* A task the trigger goes on with: m with its last step closed.           *)
Ready(m, t) ==
    /\ t \in Good /\ Reworked(m.chain, t.chain) /\ AllClosed(t.chain)
    /\ Remembers(m.chain, t.chain) /\ Finishes(m.chain, t.chain)
    /\ t.wait = m.wait

-----------------------------------------------------------------------------

(* Marking the last step, twice or before a step follows.                  *)
LEMMA Composed ==
    ASSUME NEW c \in Chain, NEW d, NEW e, Reworked(c, d)
    PROVE  /\ Reworked(d, e) => Reworked(c, e)
           /\ Extended(d, e) => Extended(c, e)
  <1>1. Len(c) \in Nat /\ Len(c) \in 1..Len(c) /\ Len(d) = Len(c)
    BY ChainSteps DEF Reworked
  <1>2. Reworked(d, e) => Reworked(c, e)
    BY <1>1 DEF Reworked, Kept
  <1>3. Extended(d, e) => Extended(c, e)
    BY <1>1 DEF Reworked, Extended, Kept
  <1> QED BY <1>2, <1>3

(* Whatever a handler settles on is what the scan does.                    *)
LEMMA SettledActs ==
    ASSUME IInv, NEW w \in Worker, MayAct(w), Runs(Mine(w)), NEW u \in Good,
           Settle(w, u),
           PlanMove(Mine(w), u),
           SendMayFail \/ Remembers(Mine(w).chain, u.chain),
           \/ Judges(Mine(w), u) \/ Blocks(Mine(w), u)
           \/ GivesOut(Mine(w), u) \/ Reopens(Mine(w), u)
    PROVE  Acts(w)
  <1>1. Mine(w) \in Good
    BY MineGood DEF IInv, MayAct
  <1> QED BY <1>1 DEF Acts, Settle, SameFields

(* enter_accepting_or_succeed, and the end of a chain.                     *)
LEMMA EnterAcceptingActs ==
    ASSUME IInv, NEW w \in Worker, MayAct(w), Runs(Mine(w)), NEW t \in Good,
           Reworked(Mine(w).chain, t.chain), AllClosed(t.chain), t.plan = <<>>,
           PlanMove(Mine(w), t), Remembers(Mine(w).chain, t.chain)
    PROVE  /\ EnterAccepting(w, t) => Acts(w)
           /\ \A k : EndChain(w, t, k) => Acts(w)
  <1> DEFINE a == [t EXCEPT !.state = "accepting", !.wait = "none",
                            !.status = "pending"]
             d == [t EXCEPT !.state = "succeeded", !.wait = "none",
                            !.status = "success"]
  <1>1. a \in Good /\ d \in Good
    BY LabelGood DEF Like, State, Wait, Status
  <1>2. /\ a.state = "accepting" /\ a.wait = "none" /\ a.plan = t.plan
        /\ a.chain = t.chain
        /\ d.state = "succeeded" /\ d.wait = "none" /\ d.plan = t.plan
        /\ d.chain = t.chain
    BY DEF Good, Task
  <1> HIDE DEF a, d
  <1>3. EnterAccepting(w, t) => Acts(w)
    <2> SUFFICES ASSUME EnterAccepting(w, t) PROVE Acts(w)
      OBVIOUS
    <2>1. /\ Settle(w, a) /\ Judges(Mine(w), a) /\ PlanMove(Mine(w), a)
          /\ Remembers(Mine(w).chain, a.chain)
      BY <1>2 DEF EnterAccepting, Judges, PlanMove, a
    <2> QED BY <1>1, <2>1, SettledActs
  <1>4. ASSUME NEW k, EndChain(w, t, k) PROVE Acts(w)
    <2>1. CASE EnterAccepting(w, t)
      BY <1>3, <2>1
    <2>2. CASE ~EnterAccepting(w, t)
      <3>1. Settle(w, d) /\ pending' = pending /\ verdict' = "approved"
        BY <1>4, <2>2, Zenon DEF EndChain, d
      <3>2. /\ Judges(Mine(w), d) /\ PlanMove(Mine(w), d)
            /\ Remembers(Mine(w).chain, d.chain)
        BY <1>2, <3>1 DEF Judges, PlanMove
      <3> QED BY <1>1, <3>1, <3>2, SettledActs
    <2> QED BY <2>1, <2>2
  <1> QED BY <1>3, <1>4

(* The task is blocked.                                                    *)
LEMMA BlockActs ==
    ASSUME IInv, NEW w \in Worker, MayAct(w), Runs(Mine(w)), NEW t \in Good,
           Reworked(Mine(w).chain, t.chain), t.wait = Mine(w).wait, Block(w, t),
           Stuck \/ ~StepDone(t.chain[Len(t.chain)]),
           PlanMove(Mine(w), t), Remembers(Mine(w).chain, t.chain)
    PROVE  Acts(w)
  <1> DEFINE u == [t EXCEPT !.state = "blocked"]
  <1>1. /\ u \in Good /\ u.state = "blocked" /\ u.wait = t.wait
        /\ u.plan = t.plan /\ u.chain = t.chain
    BY DEF Good, Task, State
  <1> HIDE DEF u
  <1>2. Settle(w, u) /\ UNCHANGED <<pending, orders, verdict>>
    BY DEF Block, u
  <1>3. Blocks(Mine(w), u) /\ PlanMove(Mine(w), u)
    BY <1>1, <1>2 DEF Blocks, PlanMove
  <1> QED BY <1>1, <1>2, <1>3, SettledActs

(* The next step is given out.                                             *)
LEMMA GiveOutActs ==
    ASSUME IInv, NEW w \in Worker, MayAct(w), Runs(Mine(w)), NEW t,
           Ready(Mine(w), t),
           NEW s \in NextStep(t), Open(s),
           Before(t.chain[Len(t.chain)].id, s.id),
           GiveOut(w, t, Len(t.chain), s),
           \/ AgentMayLack \/ "decompose" \in Kinds
           \/ Mine(w).plan = <<>> /\ t.plan = <<>>
           \/ Mine(w).plan # <<>> /\ t.plan = Tail(Mine(w).plan)
              /\ s.role = Head(Mine(w).plan)
    PROVE  Acts(w)
  <1> DEFINE n == Len(t.chain)
             m == Mine(w)
  <1>1. /\ m \in Good /\ t \in Good /\ Len(m.chain) = n
        /\ Reworked(m.chain, t.chain) /\ Remembers(m.chain, t.chain)
        /\ Finishes(m.chain, t.chain) /\ t.wait = m.wait
    BY MineGood DEF IInv, MayAct, Ready, Reworked
  <1>2. n \in 1..n /\ n \in Nat /\ m.chain \in Chain
    BY <1>1, LastIdGood DEF Good
  <1>3. Closed(t.chain[n])
    BY <1>2 DEF Ready, AllClosed
  <1>4. PICK u : u \in Good /\ GivenOut(w, t, s, u)
    <2>1. n = Len(t.chain) /\ Closed(t.chain[n]) /\ GiveOut(w, t, n, s)
      BY <1>3
    <2> QED BY <1>1, <2>1, GiveOutIs, Zenon
  <1>5. CASE Extended(t.chain, u.chain)
    <2>1. Extended(m.chain, u.chain) /\ Len(u.chain) = n + 1
      BY <1>1, <1>2, <1>5, Composed DEF Extended
    <2>2. ~Reworked(t.chain, u.chain)
      BY <1>2, <2>1 DEF Reworked
    <2>3. u.chain[n] = t.chain[n]
      BY <1>4, <2>2 DEF GivenOut
    <2>5. GivesOut(m, u)
      BY <1>1, <1>4, <2>1, <2>2, <2>3 DEF GivesOut, GivenOut, Finishes
    <2>6. Remembers(m.chain, u.chain)
      BY <1>1, <2>3 DEF Remembers
    <2>4. PlanMove(m, u)
      BY <1>1, <1>4, <2>1, <2>2 DEF PlanMove, GivenOut
    <2> QED BY <1>4, <2>4, <2>5, <2>6, SettledActs DEF GivenOut
  <1>6. CASE ~Extended(t.chain, u.chain)
    <2>1. Reworked(t.chain, u.chain)
      BY <1>4, <1>6 DEF GivenOut
    <2>2. Reworked(m.chain, u.chain)
      BY <1>1, <1>2, <2>1, Composed
    <2>3. Len(u.chain) = Len(m.chain)
      BY <2>2 DEF Reworked
    <2>4. Reopens(m, u) /\ PlanMove(m, u) /\ SendMayFail
      BY <1>1, <1>4, <1>6, <2>2, <2>3 DEF Reopens, PlanMove, Lossy, GivenOut
    <2> QED BY <1>4, <2>4, SettledActs DEF GivenOut
  <1> QED BY <1>5, <1>6

-----------------------------------------------------------------------------

(* What a scan knows of its task before it acts.                           *)
LEMMA MineLine ==
    ASSUME IInv, LineInv, NEW w \in Worker, MayAct(w)
    PROVE  /\ Mine(w) \in Good /\ Line(Mine(w)) /\ Normal(Mine(w).chain)
           /\ ActiveIdx(Mine(w)) = Len(Mine(w).chain)
           /\ MyStep(w) = Mine(w).chain[Len(Mine(w).chain)]
           /\ Len(Mine(w).chain) \in 1..Len(Mine(w).chain)
           /\ Reworked(Mine(w).chain, Mine(w).chain)
           /\ Remembers(Mine(w).chain, Mine(w).chain)
           /\ Mine(w).chain \in Chain
  <1>1. /\ Mine(w) \in Good /\ Line(Mine(w)) /\ Normal(Mine(w).chain)
    BY MineGood DEF IInv, LineInv, MayAct, Mine
  <1>2. Mine(w).chain \in Chain /\ Len(Mine(w).chain) \in 1..Len(Mine(w).chain)
    BY <1>1, LastIdGood DEF Good
  <1>3. /\ Reworked(Mine(w).chain, Mine(w).chain)
        /\ Remembers(Mine(w).chain, Mine(w).chain)
    BY DEF Reworked, Kept, Remembers
  <1> QED BY <1>1, <1>2, <1>3, ActiveIsLast DEF Line, MyStep

(* On a normalised task, a step that is done or passed over is closed.     *)
LEMMA DoneIsClosed ==
    ASSUME NEW c \in Chain, Normal(c), NEW i \in 1..Len(c)
    PROVE  /\ StepDone(c[i]) => Closed(c[i])
           /\ \/ c[i].st \in {"completed", "done", "skipped"}
              \/ c[i].fs \in {"completed", "skipped", "superseded"}
              => Closed(c[i])
  BY DEF Normal, StepDone, Closed, TerminalFs

(* resolve_transition without a next role or agent.                        *)
LEMMA NoNextRoleActs ==
    ASSUME IInv, NEW w \in Worker, MayAct(w), Runs(Mine(w)), NEW t,
           Ready(Mine(w), t),
           t.plan = <<>>,
           \/ Mine(w).plan = <<>> \/ AgentMayLack
           \/ Lossy /\ "decompose" \in Kinds,
           NEW k, NoNextRole(w, t, Len(t.chain), k)
    PROVE  Acts(w)
  <1>1. /\ t \in Good /\ Reworked(Mine(w).chain, t.chain) /\ AllClosed(t.chain)
        /\ Remembers(Mine(w).chain, t.chain) /\ t.wait = Mine(w).wait
    BY DEF Ready
  <1>2. PlanMove(Mine(w), t)
    BY <1>1 DEF PlanMove, Reworked, Lossy
  <1>3. ASSUME "terminal" \in Flow, EndChain(w, t, k) PROVE Acts(w)
    BY <1>1, <1>2, <1>3, EnterAcceptingActs
  <1>4. ASSUME "blocked" \in Flow, Block(w, t) PROVE Acts(w)
    BY <1>1, <1>2, <1>4, BlockActs DEF Stuck
  <1>5. ASSUME NEW r \in Role,
               GiveOut(w, t, Len(t.chain),
                       RedoStep(t, t.chain[Len(t.chain)].id, r))
        PROVE  Acts(w)
    <2> DEFINE s == RedoStep(t, t.chain[Len(t.chain)].id, r)
    <2>1. s \in NextStep(t) /\ Open(s) /\ Before(t.chain[Len(t.chain)].id, s.id)
      BY <1>1, RedoStepFollows
    <2>2. GiveOut(w, t, Len(t.chain), s)
      BY <1>5
    <2> HIDE DEF s
    <2> QED BY <2>1, <2>2, GiveOutActs
  <1> QED BY <1>3, <1>4, <1>5 DEF NoNextRole

(* The role flow with no planned role left.                                *)
LEMMA NextByFlowActs ==
    ASSUME IInv, NEW w \in Worker, MayAct(w), Runs(Mine(w)), NEW t,
           Ready(Mine(w), t),
           t.plan = <<>>,
           \/ Mine(w).plan = <<>> \/ AgentMayLack
           \/ Lossy /\ "decompose" \in Kinds,
           NEW k, NextByFlow(w, t, Len(t.chain), k)
    PROVE  Acts(w)
  <1>1. ASSUME NEW r \in Role, GiveOut(w, t, Len(t.chain), FreshStep(t, r))
        PROVE  Acts(w)
    <2> DEFINE s == FreshStep(t, r)
    <2>1. s \in NextStep(t) /\ Open(s) /\ Before(t.chain[Len(t.chain)].id, s.id)
      BY FreshStepFollows DEF Ready
    <2>2. GiveOut(w, t, Len(t.chain), s)
      BY <1>1
    <2> HIDE DEF s
    <2> QED BY <2>1, <2>2, GiveOutActs
  <1> QED BY <1>1, NoNextRoleActs DEF NextByFlow

(* Taking the first role off the plan.                                     *)
LEMMA ReadyPopped ==
    ASSUME NEW m, NEW t, Ready(m, t), t.plan # <<>>
    PROVE  LET u == [t EXCEPT !.plan = Tail(@)]
           IN  /\ Ready(m, u) /\ u.plan = Tail(t.plan) /\ u.chain = t.chain
               /\ u.wait = t.wait /\ Head(t.plan) \in Role
  <1> DEFINE u == [t EXCEPT !.plan = Tail(@)]
  <1>1. /\ u \in Good /\ u.plan = Tail(t.plan) /\ u.chain = t.chain
        /\ u.wait = t.wait
        /\ Head(t.plan) \in Role
    BY PlanPopped DEF Ready, Like, Good, Task
  <1> HIDE DEF u
  <1>2. Ready(m, u)
    BY <1>1 DEF Ready
  <1> QED BY <1>1, <1>2 DEF u

(* The first planned role is given its step ...                            *)
LEMMA GiveOutPlannedActs ==
    ASSUME IInv, NEW w \in Worker, MayAct(w), Runs(Mine(w)), NEW t,
           Ready(Mine(w), t),
           t.plan # <<>>, t.plan = Mine(w).plan \/ "decompose" \in Kinds,
           GiveOutPlanned(w, t, Len(t.chain))
    PROVE  Acts(w)
  <1> DEFINE u == [t EXCEPT !.plan = Tail(@)]
             s == FreshStep(t, Head(t.plan))
             n == Len(t.chain)
  <1>1. /\ Ready(Mine(w), u) /\ u.plan = Tail(t.plan) /\ u.chain = t.chain
        /\ Head(t.plan) \in Role
    BY ReadyPopped
  <1>2. GiveOut(w, u, Len(t.chain), s)
    BY DEF GiveOutPlanned
  <1> HIDE DEF u
  <1>3. /\ s \in NextStep(t) /\ Open(s) /\ Before(t.chain[n].id, s.id)
        /\ s.role = Head(t.plan)
    BY <1>1, FreshStepFollows DEF Ready
  <1> HIDE DEF s
  <1>4. s \in NextStep(u)
    BY <1>1, <1>3 DEF NextStep
  <1>5. \/ AgentMayLack \/ "decompose" \in Kinds
        \/ /\ Mine(w).plan # <<>> /\ u.plan = Tail(Mine(w).plan)
           /\ s.role = Head(Mine(w).plan)
    BY <1>1, <1>3
  <1> QED BY <1>1, <1>2, <1>3, <1>4, <1>5, GiveOutActs

(* ... or is gone, for want of an agent.                                   *)
LEMMA BlockPoppedActs ==
    ASSUME IInv, NEW w \in Worker, MayAct(w), Runs(Mine(w)), NEW t,
           Ready(Mine(w), t),
           t.plan # <<>>, AgentMayLack, Block(w, [t EXCEPT !.plan = Tail(@)])
    PROVE  Acts(w)
  <1> DEFINE u == [t EXCEPT !.plan = Tail(@)]
  <1>1. Ready(Mine(w), u)
    BY ReadyPopped
  <1>2. Block(w, u)
    OBVIOUS
  <1> HIDE DEF u
  <1>3. /\ u \in Good /\ Reworked(Mine(w).chain, u.chain)
        /\ Remembers(Mine(w).chain, u.chain)
        /\ u.wait = Mine(w).wait /\ PlanMove(Mine(w), u)
    BY <1>1 DEF Ready, PlanMove, Lossy, Reworked
  <1> QED BY <1>2, <1>3, BlockActs DEF Stuck

(* resolve_transition with planned roles left.                             *)
LEMMA NextPlannedActs ==
    ASSUME IInv, NEW w \in Worker, MayAct(w), Runs(Mine(w)), NEW t,
           Ready(Mine(w), t),
           t.plan # <<>>, t.plan = Mine(w).plan \/ "decompose" \in Kinds,
           NEW k, NextPlanned(w, t, Len(t.chain), k)
    PROVE  Acts(w)
  <1> DEFINE u == [t EXCEPT !.plan = Tail(@)]
  <1>1. Ready(Mine(w), u) /\ u.chain = t.chain
    BY ReadyPopped
  <1>2. \/ GiveOutPlanned(w, t, Len(t.chain))
        \/ AgentMayLack /\ Block(w, u)
        \/ AgentMayLack /\ u.plan = <<>> /\ NoNextRole(w, u, Len(t.chain), k)
    BY DEF NextPlanned
  <1>3. ASSUME AgentMayLack, u.plan = <<>>, NoNextRole(w, u, Len(t.chain), k)
        PROVE  Acts(w)
    <2> HIDE DEF u
    <2>1. NoNextRole(w, u, Len(u.chain), k)
      BY <1>1, <1>3
    <2> QED BY <1>1, <1>3, <2>1, NoNextRoleActs
  <1> QED BY <1>2, <1>3, GiveOutPlannedActs, BlockPoppedActs

-----------------------------------------------------------------------------

(* All steps done and nothing planned.                                     *)
LEMMA FinishChainActs ==
    ASSUME IInv, LineInv, NEW w \in Worker, FinishChain(w)
    PROVE  Acts(w)
  <1> DEFINE m == Mine(w)
  <1>1. /\ MayAct(w) /\ ChainOver(m) /\ EnterAccepting(w, m)
        /\ m.state \notin {"paused", "cancelled"} /\ AllDone(m) /\ m.plan = <<>>
    BY DEF FinishChain, ChainOver
  <1>2. /\ m \in Good /\ Normal(m.chain) /\ m.chain \in Chain
        /\ Reworked(m.chain, m.chain) /\ Remembers(m.chain, m.chain)
    BY <1>1, MineLine
  <1>3. AllClosed(m.chain)
    BY <1>1, <1>2, DoneIsClosed, ChainSteps DEF AllClosed, AllDone
  <1>4. Runs(m) /\ PlanMove(m, m)
    BY <1>1 DEF Runs, PlanMove
  <1> HIDE DEF m
  <1>5. m = Mine(w)
    BY DEF m
  <1> QED BY <1>1, <1>2, <1>3, <1>4, <1>5, EnterAcceptingActs

(* _resume_planned_advance.                                                *)
LEMMA ResumePlannedActs ==
    ASSUME IInv, LineInv, NEW w \in Worker, ResumePlanned(w)
    PROVE  Acts(w)
  <1> DEFINE m == Mine(w)
             n == Len(m.chain)
  <1>1. /\ MayAct(w) /\ StepDone(m.chain[ActiveIdx(m)]) /\ m.state = "executing"
        /\ m.plan # <<>>
        /\ \/ GiveOutPlanned(w, m, ActiveIdx(m))
           \/ AgentMayLack /\ Block(w, [m EXCEPT !.plan = Tail(@)])
    BY DEF ResumePlanned, MayResume
  <1>2. /\ m \in Good /\ Line(m) /\ Normal(m.chain) /\ m.chain \in Chain
        /\ Reworked(m.chain, m.chain) /\ Remembers(m.chain, m.chain)
        /\ ActiveIdx(m) = n /\ n \in 1..n
    BY <1>1, MineLine
  <1>3. Closed(m.chain[n]) /\ Finishes(m.chain, m.chain)
    BY <1>1, <1>2, DoneIsClosed DEF Finishes
  <1>4. Ready(m, m)
    BY <1>2, <1>3, ReworkedInLine DEF Ready, Line
  <1>5. Runs(m)
    BY <1>1 DEF Runs
  <1>6. \/ GiveOutPlanned(w, m, Len(m.chain))
        \/ AgentMayLack /\ Block(w, [m EXCEPT !.plan = Tail(@)])
    BY <1>1, <1>2
  <1> HIDE DEF n
  <1> QED BY <1>1, <1>4, <1>5, <1>6, GiveOutPlannedActs, BlockPoppedActs

(* apply_submit: the result completes its step.                            *)
LEMMA SubmitActs ==
    ASSUME IInv, LineInv, NEW w \in Worker, Submit(w)
    PROVE  Acts(w)
  <1> DEFINE m == Mine(w)
             n == Len(m.chain)
             k == result[MyStep(w).id].kind
             t == Completed(m, n)
             p == IF k = "decompose" THEN [t EXCEPT !.plan = SubtaskPlan] ELSE t
             c == [t EXCEPT !.state = "blocked",
                            !.wait = "await_owner_confirmation",
                            !.status = "running"]
             g == [p EXCEPT !.state = "blocked", !.wait = "await_gate",
                            !.status = "running",
                            !.gate = IF @ = "denied" THEN @ ELSE "pending"]
  <1>1. MayAct(w) /\ MaySubmit(m)
    BY DEF Submit
  <1>2. /\ m \in Good /\ Line(m) /\ m.chain \in Chain
        /\ ActiveIdx(m) = n /\ n \in 1..n /\ MyStep(w) = m.chain[n]
    BY <1>1, MineLine
  <1>3. Runs(m)
    BY <1>1 DEF MaySubmit, Executable, Runs
  <1>4. k \in Kinds
    BY <1>1, <1>2 DEF MaySubmit, LineInv, KindsOK
  <1>5. /\ t \in Good /\ SameFields(m, t) /\ Reworked(m.chain, t.chain)
        /\ Closed(t.chain[n]) /\ Len(t.chain) = n
        /\ t.chain[n].st = "completed" /\ t.chain[n].consumed
    BY <1>2, CompletedIs
  <1>6. \/ k = "clarify" /\ BlockFor(w, c, "owner_confirmation")
        \/ p.plan = <<>> /\ HasGate /\ BlockFor(w, g, "workflow_gate")
        \/ p.plan # <<>> /\ NextPlanned(w, p, n, k)
        \/ p.plan = <<>> /\ NextByFlow(w, p, n, k)
    BY <1>2 DEF Submit
  <1> HIDE DEF k, t
  <1>7. /\ AllClosed(t.chain) /\ Remembers(m.chain, t.chain)
        /\ Finishes(m.chain, t.chain)
    BY <1>2, <1>5, ReworkedInLine DEF Good, Line, Remembers, Finishes
  <1> HIDE DEF n
  <1>8. /\ Ready(m, p) /\ p.chain = t.chain
        /\ p.plan = m.plan \/ "decompose" \in Kinds
        /\ p.plan # <<>> \/ m.plan = <<>>
           \/ (Lossy /\ "decompose" \in Kinds)
    <2>1. CASE k # "decompose"
      BY <1>5, <1>7, <2>1 DEF Ready, SameFields
    <2>2. CASE k = "decompose"
      <3>1. /\ p \in Good /\ p.chain = t.chain /\ p.wait = t.wait
            /\ p.plan = SubtaskPlan
        BY <1>5, <2>2, ParamAssumption DEF Good, Task
      <3> HIDE DEF p
      <3>2. Ready(m, p)
        BY <1>5, <1>7, <3>1 DEF Ready, SameFields
      <3> QED BY <1>4, <2>2, <3>1, <3>2 DEF Lossy
    <2> QED BY <2>1, <2>2
  <1>9. ASSUME k = "clarify", BlockFor(w, c, "owner_confirmation")
        PROVE  Acts(w)
    <2>1. /\ c \in Good /\ c.state = "blocked"
          /\ c.wait = "await_owner_confirmation"
          /\ c.plan = t.plan /\ c.chain = t.chain
      <3>1. c \in Good
        BY <1>5, LabelGood DEF Like, State, Wait, Status
      <3> QED BY <1>5, <3>1 DEF Good, Task
    <2> HIDE DEF c
    <2>2. /\ Settle(w, c) /\ Blocks(m, c) /\ PlanMove(m, c)
          /\ Remembers(m.chain, c.chain)
      BY <1>4, <1>5, <1>7, <1>9, <2>1
         DEF BlockFor, Blocks, Stuck, PlanMove, SameFields, Reworked
    <2> QED BY <1>1, <1>3, <2>1, <2>2, SettledActs
  <1>10. ASSUME p.plan = <<>>, HasGate, BlockFor(w, g, "workflow_gate")
        PROVE  Acts(w)
    <2>1. p \in Good
      BY <1>8 DEF Ready
    <2> HIDE DEF p
    <2> DEFINE r == IF p.gate = "denied" THEN p.gate ELSE "pending"
               h == [p EXCEPT !.state = "blocked", !.wait = "await_gate",
                              !.status = "running"]
    <2>2. h \in Good
      BY <2>1, LabelGood DEF Like, State, Wait, Status
    <2>3. /\ h.state = "blocked" /\ h.wait = "await_gate"
          /\ h.plan = p.plan /\ h.chain = p.chain /\ h.gate = p.gate
      BY <2>1 DEF Good, Task
    <2>4. r \in {"pending", "denied"} /\ g = [h EXCEPT !.gate = r]
      BY <2>1 DEF Good, Task
    <2> HIDE DEF r, g, h
    <2>5. /\ g \in Good /\ g.state = "blocked" /\ g.wait = "await_gate"
          /\ g.plan = p.plan /\ g.chain = p.chain
      BY <2>2, <2>3, <2>4 DEF Good, Task
    <2>6. /\ Settle(w, g) /\ Blocks(m, g) /\ PlanMove(m, g)
          /\ Remembers(m.chain, g.chain)
      BY <1>5, <1>7, <1>8, <1>10, <2>5
         DEF BlockFor, Blocks, Stuck, PlanMove, Reworked
    <2> QED BY <1>1, <1>3, <2>5, <2>6, SettledActs
  <1>11. ASSUME p.plan # <<>>, NextPlanned(w, p, n, k)
         PROVE  Acts(w)
    <2> HIDE DEF p
    <2>1. NextPlanned(w, p, Len(p.chain), k)
      BY <1>5, <1>8, <1>11
    <2> QED BY <1>1, <1>3, <1>8, <1>11, <2>1, NextPlannedActs
  <1>12. ASSUME p.plan = <<>>, NextByFlow(w, p, n, k)
         PROVE  Acts(w)
    <2> HIDE DEF p
    <2>1. NextByFlow(w, p, Len(p.chain), k)
      BY <1>5, <1>8, <1>12
    <2> QED BY <1>1, <1>3, <1>8, <1>12, <2>1, NextByFlowActs
  <1> QED BY <1>6, <1>9, <1>10, <1>11, <1>12

(* A result run_step_verify rejects: retried, or the task blocks.          *)
LEMMA RetryActs ==
    ASSUME IInv, LineInv, NEW w \in Worker, Retry(w)
    PROVE  Acts(w)
  <1> DEFINE m == Mine(w)
             n == Len(m.chain)
             id == m.chain[n].id
             t == [m EXCEPT !.retries = @ + 1]
             x == [t.chain[n] EXCEPT !.fs = "awaiting_result",
                                     !.consumed = FALSE]
             o == [t EXCEPT !.chain[n] = x]
             v == [t EXCEPT !.chain[n].fs = "awaiting_result",
                            !.chain[n].consumed = FALSE]
  <1>1. MayAct(w) /\ MaySubmit(m)
    BY DEF Retry
  <1>2. /\ m \in Good /\ m.chain \in Chain /\ Reworked(m.chain, m.chain)
        /\ ActiveIdx(m) = n /\ n \in 1..n /\ MyStep(w) = m.chain[n]
    BY <1>1, MineLine
  <1>3. Runs(m) /\ ~StepDone(m.chain[n]) /\ ~m.chain[n].consumed
    BY <1>1, <1>2 DEF MaySubmit, Executable, Runs
  <1>4. t \in Good /\ t.chain = m.chain /\ SameFields(m, t)
    <2>1. m.retries \in Nat
      BY <1>2 DEF Good, Task
    <2> DEFINE r == m.retries + 1
    <2>2. r \in Nat
      BY <2>1
    <2> HIDE DEF r
    <2>3. t = [m EXCEPT !.retries = r]
      BY DEF r
    <2>4. t \in Good
      BY <1>2, <2>2, <2>3 DEF Good, Task
    <2>5. t.chain = m.chain /\ SameFields(m, t)
      BY <1>2, <2>3 DEF Good, Task, SameFields
    <2> QED BY <2>4, <2>5
  <1>5. \/ Block(w, t)
        \/ /\ ~OverBudget(t)
           /\ \E ok \in BOOLEAN : /\ Send(id, ok)
                                  /\ Store(w, t, IF ok THEN Bumped(t) ELSE v)
           /\ UNCHANGED <<pending, verdict>>
        \/ /\ Store(w, t, BudgetBlocked(t))
           /\ pending' = pending \cup {"push_budget"}
           /\ UNCHANGED <<orders, verdict>>
    BY <1>2 DEF Retry
  <1> HIDE DEF t
  <1>6. /\ v = o /\ x \in Step /\ x.id = id /\ x.role = m.chain[n].role
        /\ ~x.consumed /\ ~StepDone(x)
    <2>1. t.chain[n] = m.chain[n] /\ t.chain[n] \in Step
      BY <1>2, <1>4, ChainSteps
    <2>2. /\ x \in Step /\ x.id = id /\ x.role = m.chain[n].role
          /\ ~x.consumed /\ ~StepDone(x)
      BY <1>3, <2>1 DEF Step, LiveFs, StepDone
    <2>3. v = o
      <3>1. t \in Task /\ n \in DOMAIN t.chain
        BY <1>2, <1>4, ChainSteps DEF Good
      <3> QED BY <2>1, <3>1 DEF Task, Step
    <2> QED BY <2>2, <2>3
  <1> HIDE DEF v, x, n, id
  <1>7. \A u : Remembers(m.chain, u.chain)
    BY <1>3 DEF Remembers, n
  <1>8. CASE Block(w, t)
    <2>1. PlanMove(m, t) /\ t.wait = m.wait /\ Reworked(m.chain, t.chain)
      BY <1>2, <1>4 DEF SameFields, PlanMove
    <2>2. ~StepDone(t.chain[Len(t.chain)])
      BY <1>3, <1>4 DEF n
    <2> QED BY <1>1, <1>3, <1>4, <1>7, <1>8, <2>1, <2>2, BlockActs
  <1>9. CASE /\ Store(w, t, BudgetBlocked(t))
             /\ pending' = pending \cup {"push_budget"}
             /\ UNCHANGED <<orders, verdict>>
    <2> DEFINE u == BudgetBlocked(t)
    <2>1. u \in Good
      BY <1>4, ClocksGood DEF Like
    <2>2. /\ u.chain = m.chain /\ u.state = "blocked" /\ u.wait = m.wait
          /\ u.plan = m.plan
      BY <1>4 DEF BudgetBlocked, Good, Task, SameFields
    <2> HIDE DEF u
    <2>3. Blocks(m, u) /\ PlanMove(m, u)
      BY <1>2, <1>3, <1>9, <2>2 DEF Blocks, PlanMove, n
    <2>4. Store(w, t, u)
      BY <1>9 DEF u
    <2> QED BY <1>3, <1>4, <1>7, <2>1, <2>3, <2>4 DEF Acts
  <1>10. ASSUME NEW ok \in BOOLEAN, ~OverBudget(t), Send(id, ok),
                Store(w, t, IF ok THEN Bumped(t) ELSE v),
                UNCHANGED <<pending, verdict>>
         PROVE  Acts(w)
    <2>1. CASE ok
      <3> DEFINE u == Bumped(t)
      <3>1. u \in Good
        BY <1>4, <1>10, ClocksGood DEF Like
      <3>2. /\ u.chain = m.chain /\ u.state = m.state /\ u.wait = m.wait
            /\ u.plan = m.plan /\ u.status = m.status
        BY <1>4 DEF Bumped, Good, Task, SameFields
      <3> HIDE DEF u
      <3>3. Reopens(m, u) /\ PlanMove(m, u)
        BY <1>2, <1>3, <1>10, <2>1, <3>2 DEF Reopens, PlanMove, Send, n, id
      <3>4. Store(w, t, u)
        BY <1>10, <2>1 DEF u
      <3> QED BY <1>3, <1>4, <1>7, <3>1, <3>3, <3>4 DEF Acts
    <2>2. CASE ~ok
      <3>1. /\ o \in Good /\ SameFields(t, o) /\ Reworked(t.chain, o.chain)
            /\ o.chain[n] = x
        <4>1. /\ n = Len(t.chain) /\ x.id = t.chain[n].id
              /\ x.role = t.chain[n].role /\ o = [t EXCEPT !.chain[n] = x]
          BY <1>4, <1>6 DEF n, id
        <4> HIDE DEF o
        <4>2. x \in Step /\ t \in Good
          BY <1>4, <1>6
        <4>3. /\ o \in Good /\ SameFields(t, o)
              /\ Reworked(t.chain, o.chain)
          BY <4>1, <4>2, LastReplaced, ZenonT(60)
        <4>4. o.chain[n] = x
          <5>1. t \in Task /\ n \in DOMAIN t.chain
            BY <1>2, <1>4, ChainSteps DEF Good, n
          <5> QED BY <4>1, <5>1 DEF Task
        <4> QED BY <4>3, <4>4
      <3> HIDE DEF o
      <3>2. ~o.chain[n].consumed /\ ~StepDone(o.chain[n])
        BY <1>6, <3>1
      <3>3. /\ Reworked(m.chain, o.chain) /\ SameFields(m, o)
            /\ Len(o.chain) = Len(m.chain)
        BY <1>4, <3>1 DEF SameFields, Reworked
      <3>4. Reopens(m, o) /\ PlanMove(m, o)
        BY <1>3, <1>10, <2>2, <3>2, <3>3
           DEF Reopens, PlanMove, Send, SameFields, n
      <3>5. Store(w, t, o)
        BY <1>6, <1>10, <2>2
      <3> QED BY <1>3, <1>4, <1>7, <3>1, <3>4, <3>5 DEF Acts
    <2> QED BY <2>1, <2>2
  <1> QED BY <1>5, <1>8, <1>9, <1>10

-----------------------------------------------------------------------------

(* The person changes labels of the task only.                             *)
Relabels(d) ==
    /\ d.chain = T.chain /\ d.plan = T.plan /\ orders' = orders
    /\ \/ /\ "deny_plan" \in Ops /\ AwaitsPlan
          /\ d.state = "cancelled" /\ d.wait = "none" /\ d.status = "cancelled"
          /\ pending' = pending \ {"plan_approval"} /\ verdict' = verdict
       \/ /\ "accept" \in Ops /\ T.state = "accepting"
          /\ d.state = "succeeded" /\ d.wait = T.wait
          /\ pending' = pending \ {"final_acceptance"} /\ verdict' = "approved"
       \/ /\ "deny_final" \in Ops /\ T.state = "accepting"
          /\ d.state = "blocked" /\ d.wait = T.wait
          /\ pending' = pending \ {"final_acceptance"} /\ verdict' = "denied"
       \/ /\ "owner" \in Ops /\ "owner_confirmation" \in pending
          /\ d.wait = "none"
          /\ \/ d.state = "executing" /\ d.status = "running"
             \/ d.state = "cancelled" /\ d.status = "cancelled"
          /\ pending' = pending \ {"owner_confirmation"} /\ verdict' = verdict
       \/ /\ {"pause", "budget"} \cap Ops # {}
          /\ d.state \in {"paused", "executing"} /\ d.wait = T.wait
          /\ d.state = "executing" => "budget" \in Ops
          /\ T.state = "cancelled" => "pause" \in Ops \/ T.status = "running"
          /\ pending' = pending /\ verdict' = verdict

(* The person leaves the task as it is.                                    *)
Misses(d) ==
    /\ d = task /\ orders' = orders
    /\ \/ /\ "deny_missed" \in Ops /\ T.state = "accepting"
          /\ pending' = pending \ {"final_acceptance"} /\ verdict' = "denied"
       \/ /\ "queue_refused" \in Ops /\ pending' \subseteq pending
          /\ verdict' = verdict

(* The person sets the task to work.                                       *)
SetsOff(d) ==
    /\ "approve_plan" \in Ops /\ AwaitsPlan
    /\ Reworked(T.chain, d.chain) /\ Remembers(T.chain, d.chain)
    /\ d.plan = T.plan
    /\ \/ /\ d.state = "executing" /\ d.status = "running"
          /\ ~T.chain[1].consumed => Open(d.chain[1])
          /\ T.chain[1].id \in orders'
       \/ d.state = "blocked" /\ d.chain = T.chain
    /\ d.wait = "none"
    /\ \E more \in {{}, {"push_budget"}} :
          pending' = (pending \ {"plan_approval"}) \cup more
    /\ verdict' = verdict

(* A new plan is put up.                                                   *)
Replans(d) ==
    /\ "deny_plan" \in Ops /\ AwaitsPlan
    /\ d.chain = InitialChain(InitPlan) /\ d.plan = Tail(InitPlan)
    /\ d.state = T.state /\ d.wait = T.wait /\ d.status = "pending"
    /\ pending' = pending \cup {"plan_approval"}
    /\ verdict' = verdict /\ orders' = orders

(* The person has the work done again.                                     *)
SendsBack(d) ==
    /\ Extended(T.chain, d.chain) /\ d.plan = T.plan /\ d.wait = T.wait
    /\ Remembers(T.chain, d.chain)
    /\ d.state = "executing" /\ d.status = "running"
    /\ \/ SendMayFail \/ "queue_deny" \in Ops
       \/ d.chain[Len(d.chain)].id \in orders'
    /\ \/ /\ {"deny", "queue_deny"} \cap Ops # {} /\ T.state = "accepting"
          /\ pending' = pending \ {"final_acceptance"} /\ verdict' = "denied"
       \/ /\ "rollback" \in Ops /\ pending' = pending /\ verdict' = verdict

(* The person marks the active step.                                       *)
Marks(d) ==
    /\ Reworked(T.chain, d.chain) /\ d.plan = T.plan /\ d.wait = T.wait
    /\ "continue" \in Ops \/ Remembers(T.chain, d.chain)
    /\ verdict' = verdict
    /\ \/ /\ "skip" \in Ops /\ Closed(d.chain[Len(d.chain)])
          /\ d.chain[Len(d.chain)].consumed => T.chain[Len(T.chain)].consumed
          /\ ~StepDone(d.chain[Len(d.chain)])
          /\ SameFields(T, d) /\ pending' = pending /\ orders' = orders
       \/ /\ "cancel" \in Ops /\ Closed(d.chain[Len(d.chain)])
          /\ d.state = "cancelled" /\ d.status = "cancelled"
          /\ pending' = {} /\ orders' = orders
       \/ /\ "continue" \in Ops /\ T.state \notin {"cancelled", "succeeded"}
          /\ d.state = "executing" /\ d.status = "running"
          /\ Open(d.chain[Len(d.chain)])
          /\ SendMayFail \/ d.chain[Len(d.chain)].id \in orders'
          /\ pending' = pending

(* A request of a person does one of these.                                *)
Requests ==
    /\ Free /\ UNCHANGED <<snap, result>> /\ actor' = "human" /\ task' \in Good
    /\ \/ Relabels(task') \/ Misses(task') \/ SetsOff(task') \/ Replans(task')
       \/ SendsBack(task') \/ Marks(task')

-----------------------------------------------------------------------------

(* A request reads the task normalised.                                    *)
LEMMA TLine ==
    ASSUME IInv, Line(task)
    PROVE  /\ T \in Good /\ T \in Task /\ T.chain \in Chain
           /\ Line(T) /\ SameFields(task, T)
           /\ ActiveIdx(T) = Len(T.chain) /\ Len(T.chain) \in 1..Len(T.chain)
           /\ DOMAIN T.chain = 1..Len(T.chain)
           /\ Reworked(task.chain, T.chain) /\ Remembers(task.chain, T.chain)
  <1>1. task \in Good
    BY DEF IInv, TasksOK
  <1>2. /\ T \in Good /\ Line(T) /\ SameFields(task, T)
        /\ Len(T.chain) = Len(task.chain)
        /\ \A i \in 1..Len(task.chain) : Kept(task.chain[i], T.chain[i])
    BY <1>1, EnsuredIs, EnsuredLine DEF T
  <1>3. /\ T \in Task /\ T.chain \in Chain /\ Len(T.chain) \in 1..Len(T.chain)
        /\ DOMAIN T.chain = 1..Len(T.chain)
    BY <1>2, LastIdGood DEF Good
  <1>4. Reworked(task.chain, T.chain) /\ Remembers(task.chain, T.chain)
    BY <1>2, <1>3 DEF Reworked, Kept, Remembers
  <1> QED BY <1>2, <1>3, <1>4, ActiveIsLast DEF Line

(* apply_approve_plan, approved ...                                        *)
LEMMA ApprovePlanIs ==
    ASSUME IInv, Line(task), ApprovePlan
    PROVE  SetsOff(task')
  <1> DEFINE s == Started(T)
             b == Bumped(s)
  <1>1. /\ T \in Good /\ T \in Task /\ Len(T.chain) = 1 /\ AwaitsPlan
        /\ "approve_plan" \in Ops /\ verdict' = verdict
        /\ DispatchFirst(s, pending \ {"plan_approval"})
    BY TLine DEF Line, ApprovePlan, AwaitsPlan, Person
  <1>2. /\ s.chain = T.chain /\ s.plan = T.plan /\ s.wait = "none"
        /\ s.state = "executing" /\ s.status = "running"
    BY <1>1 DEF Started, Task
  <1>3. s \in Good /\ s \in Task
    BY <1>1, ClocksGood DEF Like, Good
  <1>4. Reworked(T.chain, T.chain) /\ Remembers(T.chain, T.chain)
    BY DEF Reworked, Kept, Remembers
  <1> HIDE DEF s
  <1>5. ASSUME task' = BudgetBlocked(s),
               pending' = (pending \ {"plan_approval"}) \cup {"push_budget"}
        PROVE  SetsOff(task')
    <2>1. /\ task'.chain = T.chain /\ task'.plan = T.plan
          /\ task'.state = "blocked"
          /\ task'.wait = "none"
      BY <1>2, <1>3, <1>5 DEF BudgetBlocked, Task
    <2> QED BY <1>1, <1>4, <1>5, <2>1 DEF SetsOff
  <1>6. ASSUME pending' = pending \ {"plan_approval"},
               task' = [s EXCEPT !.state = "blocked", !.status = "blocked"]
        PROVE  SetsOff(task')
    <2>1. /\ task'.chain = T.chain /\ task'.plan = T.plan
          /\ task'.state = "blocked"
          /\ task'.wait = "none"
      BY <1>2, <1>3, <1>6 DEF Task
    <2> QED BY <1>1, <1>4, <1>6, <2>1 DEF SetsOff
  <1>7. ASSUME ~OverBudget(s), pending' = pending \ {"plan_approval"},
               task' = [Dispatched(b, 1) EXCEPT !.active = s.chain[1].id],
               s.chain[1].id \in orders'
        PROVE  SetsOff(task')
    <2>1. b \in Good
      BY <1>3, <1>7, ClocksGood DEF Like
    <2>2. /\ b.chain = T.chain /\ b.plan = T.plan /\ b.wait = "none"
          /\ b.state = "executing" /\ b.status = "running"
      BY <1>2, <1>3 DEF Bumped, Task
    <2> HIDE DEF b
    <2> DEFINE d == Dispatched(b, 1)
    <2>3. /\ d \in Good /\ SameFields(b, d) /\ Reworked(T.chain, d.chain)
          /\ ~T.chain[1].consumed => Open(d.chain[1])
          /\ d.chain[1].consumed = T.chain[1].consumed
      <3>1. Len(b.chain) = 1
        BY <1>1, <2>2
      <3>2. /\ d \in Good /\ SameFields(b, d) /\ Reworked(b.chain, d.chain)
            /\ ~b.chain[1].consumed => Open(d.chain[1])
            /\ d.chain[1].consumed = b.chain[1].consumed
        BY <2>1, <3>1, DispatchedIs
      <3> HIDE DEF d
      <3> QED BY <2>2, <3>2
    <2> HIDE DEF d
    <2>4. /\ task'.chain = d.chain /\ task'.plan = d.plan
          /\ task'.state = d.state /\ task'.status = d.status
          /\ task'.wait = d.wait
      BY <1>7, <2>3 DEF d, Good, Task
    <2>5. Remembers(T.chain, d.chain)
      BY <1>1, <2>3 DEF Remembers
    <2> QED BY <1>1, <1>2, <1>7, <2>2, <2>3, <2>4, <2>5 DEF SetsOff, SameFields
  <1> QED BY <1>1, <1>5, <1>6, <1>7 DEF DispatchFirst, Send, b

(* ... and denied.                                                         *)
LEMMA DenyPlanIs ==
    ASSUME IInv, Line(task), DenyPlan
    PROVE  Relabels(task') \/ Replans(task')
  <1>1. T \in Task
    BY TLine
  <1>2. ASSUME task' = [T EXCEPT !.state = "cancelled", !.wait = "none",
                                 !.status = "cancelled"],
               pending' = pending \ {"plan_approval"}
        PROVE  Relabels(task')
    BY <1>1, <1>2 DEF Relabels, Task, DenyPlan, Person
  <1>3. ASSUME task' = [T EXCEPT !.chain = InitialChain(InitPlan),
                               !.plan = Tail(InitPlan), !.active = <<1, 1>>,
                               !.status = "pending"],
               pending' = pending \cup {"plan_approval"}
        PROVE  Replans(task')
    BY <1>1, <1>3 DEF Replans, Task, DenyPlan, Person
  <1> QED BY <1>2, <1>3 DEF DenyPlan

(* A rollback by the API appends a redo behind a closed chain.             *)
LEMMA RollBackAndSendIs ==
    ASSUME IInv, Line(task), NEW j \in DOMAIN T.chain, RollBackAndSend(j)
    PROVE  /\ Extended(T.chain, task'.chain) /\ task'.plan = T.plan
           /\ task'.wait = T.wait /\ task'.state = "executing"
           /\ task'.status = "running" /\ Remembers(T.chain, task'.chain)
           /\ SendMayFail \/ task'.chain[Len(task'.chain)].id \in orders'
  <1> DEFINE u == RolledBack(T, j)
             n == Len(T.chain)
  <1>1. /\ u \in Good /\ u.state = "executing" /\ u.wait = T.wait
        /\ u.plan = T.plan /\ Extended(T.chain, u.chain)
        /\ u.status = "running" /\ Remembers(T.chain, u.chain)
    BY TLine, RolledBackIs DEF RollBackAndSend, Line
  <1>2. \/ /\ task' = Dispatched(u, Len(u.chain))
           /\ u.chain[Len(u.chain)].id \in orders'
        \/ task' = u /\ SendMayFail
    BY DEF RollBackAndSend, Send, LastOf
  <1> HIDE DEF u
  <1>3. CASE /\ task' = Dispatched(u, Len(u.chain))
             /\ u.chain[Len(u.chain)].id \in orders'
    <2>1. /\ SameFields(u, task') /\ Reworked(u.chain, task'.chain)
          /\ ~u.chain[Len(u.chain)].consumed => Open(task'.chain[Len(u.chain)])
          /\ Len(task'.chain) = Len(u.chain)
          /\ \A i \in 1..Len(u.chain) :
                i # Len(u.chain) => task'.chain[i] = u.chain[i]
      BY <1>1, <1>3, DispatchedIs
    <2>2. /\ n \in Nat /\ n \in 1..n /\ Len(u.chain) = n + 1
          /\ Open(u.chain[n + 1])
      BY <1>1, TLine DEF Extended
    <2>3. \A i \in 1..n : task'.chain[i] = u.chain[i]
      BY <2>1, <2>2
    <2>4. Open(task'.chain[n + 1]) /\ task'.chain[n + 1].id = u.chain[n + 1].id
      BY <2>1, <2>2 DEF Open, Reworked
    <2>5. Extended(T.chain, task'.chain)
      BY <1>1, <2>1, <2>2, <2>3, <2>4 DEF Extended
    <2>6. Remembers(T.chain, task'.chain)
      BY <1>1, <2>2, <2>3 DEF Remembers
    <2> QED BY <1>1, <1>3, <2>1, <2>2, <2>4, <2>5, <2>6 DEF SameFields
  <1> QED BY <1>1, <1>2, <1>3

(* Denied acceptances and rollbacks send the work back.                    *)
LEMMA SendsBackIs ==
    ASSUME IInv, Line(task), DenyBack \/ QueueDeny \/ Rollback
    PROVE  SendsBack(task')
  <1>1. CASE DenyBack
    BY <1>1, RollBackAndSendIs DEF SendsBack, DenyBack, Denied, Person
  <1>2. CASE QueueDeny
    <2>1. PICK j \in DOMAIN T.chain : task' = RolledBack(T, j)
      BY <1>2 DEF QueueDeny
    <2>2. /\ Extended(T.chain, task'.chain) /\ task'.plan = T.plan
          /\ task'.wait = T.wait /\ task'.state = "executing"
          /\ task'.status = "running" /\ Remembers(T.chain, task'.chain)
      BY <1>2, <2>1, TLine, RolledBackIs DEF QueueDeny, Line
    <2> QED BY <1>2, <2>2 DEF SendsBack, QueueDeny, Person
  <1>3. CASE Rollback
    BY <1>3, RollBackAndSendIs DEF SendsBack, Rollback, Person
  <1> QED BY <1>1, <1>2, <1>3

(* Acceptance, final denial, the owner, pauses: the chain is untouched.    *)
LEMMA RelabelsIs ==
    ASSUME IInv, Line(task),
           \/ Accept \/ DenyFinal \/ OwnerConfirm \/ Pause \/ BudgetPause
           \/ BudgetResume
    PROVE  Relabels(task')
  <1>1. T \in Task
    BY TLine
  <1>2. CASE Accept
    BY <1>1, <1>2 DEF Accept, Person, Task, Relabels
  <1>3. CASE DenyFinal
    BY <1>1, <1>3 DEF DenyFinal, Denied, Person, Task, Relabels
  <1>4. CASE OwnerConfirm
    BY <1>1, <1>4 DEF OwnerConfirm, Person, Task, Started, Relabels
  <1>5. CASE Pause
    BY <1>1, <1>5 DEF Pause, Person, Task, Relabels
  <1>6. CASE BudgetPause
    BY <1>1, <1>6 DEF BudgetPause, Person, Task, Relabels
  <1>7. CASE BudgetResume
    BY <1>1, <1>7 DEF BudgetResume, Person, Task, Relabels
  <1> QED BY <1>2, <1>3, <1>4, <1>5, <1>6, <1>7

(* Denials and resolutions without effect.                                 *)
LEMMA MissesIs ==
    ASSUME DenyMissed \/ QueueRefused
    PROVE  Misses(task')
  BY DEF DenyMissed, Denied, QueueRefused, Person, Misses

(* skip, cancel, continue mark the active step, which is the last.         *)
LEMMA MarksIs ==
    ASSUME IInv, Line(task), Skip \/ Cancel \/ Continue
    PROVE  Marks(task')
  <1> DEFINE n == Len(T.chain)
  <1>1. /\ T \in Good /\ T \in Task /\ T.chain \in Chain /\ ActiveIdx(T) = n
        /\ n \in 1..n
        /\ DOMAIN T.chain = 1..n /\ n = Len(T.chain)
    BY TLine
  <1> HIDE DEF n
  <1>2. /\ n = Len(T.chain) /\ T.chain[n] \in Step /\ T.chain \in Seq(Step)
    BY <1>1, ChainSteps DEF n, Chain
  <1>3. CASE Skip
    <2> DEFINE x == [T.chain[n] EXCEPT !.fs = "skipped", !.st = "skipped"]
    <2>1. /\ x \in Step /\ x.id = T.chain[n].id /\ x.role = T.chain[n].role
          /\ Closed(x) /\ ~StepDone(x) /\ x.consumed = T.chain[n].consumed
      BY <1>2 DEF Step, TerminalFs, Closed, StepDone
    <2>2. task' = [T EXCEPT !.chain[n] = x]
      <3>1. task' = [T EXCEPT !.chain[n].fs = "skipped",
                              !.chain[n].st = "skipped"]
        BY <1>1, <1>3 DEF Skip
      <3> QED BY <1>1, <1>2, <3>1 DEF Task, Step
    <2> HIDE DEF x
    <2>3. SameFields(T, task') /\ Reworked(T.chain, task'.chain)
      BY <1>1, <1>2, <2>1, <2>2, LastReplaced, ZenonT(60)
    <2>4. Len(task'.chain) = n /\ task'.chain[n] = x
      BY <1>1, <1>2, <2>2, <2>3 DEF Reworked, Task
    <2>5. Remembers(T.chain, task'.chain)
      BY <1>1, <2>1, <2>4 DEF Remembers
    <2> QED BY <1>1, <1>3, <2>1, <2>3, <2>4, <2>5
               DEF Marks, Skip, Person, SameFields
  <1>4. CASE Cancel
    <2> DEFINE x == [T.chain[n] EXCEPT !.fs = "superseded"]
               u == [T EXCEPT !.chain[n] = x]
    <2>1. /\ x \in Step /\ x.id = T.chain[n].id /\ x.role = T.chain[n].role
          /\ Closed(x) /\ x.consumed = T.chain[n].consumed
      BY <1>2 DEF Step, TerminalFs, Closed
    <2>2. task' = [u EXCEPT !.state = "cancelled", !.status = "cancelled"]
      BY <1>1, <1>2, <1>4 DEF Cancel, Task, Step
    <2> HIDE DEF x
    <2>3. u = [T EXCEPT !.chain[n] = x]
      OBVIOUS
    <2> HIDE DEF u
    <2>4. u \in Good /\ SameFields(T, u) /\ Reworked(T.chain, u.chain)
      BY <1>1, <1>2, <2>1, <2>3, LastReplaced, ZenonT(60)
    <2>5. Len(u.chain) = n /\ u.chain[n] = x
      BY <1>1, <1>2, <2>4, <2>3 DEF Reworked, Task
    <2>6. /\ task'.chain = u.chain /\ task'.state = "cancelled"
          /\ task'.status = "cancelled"
          /\ task'.plan = u.plan /\ task'.wait = u.wait
      BY <2>2, <2>4 DEF Good, Task
    <2>7. Remembers(T.chain, task'.chain)
      BY <1>1, <2>1, <2>5, <2>6 DEF Remembers
    <2> QED BY <1>4, <2>1, <2>4, <2>5, <2>6, <2>7
               DEF Marks, Cancel, Person, SameFields
  <1>5. CASE Continue
    <2> DEFINE x == [T.chain[n] EXCEPT !.fs = "queued", !.st = "running",
                                       !.consumed = FALSE]
               u == [T EXCEPT !.chain[n] = x]
               bp == T.budgetPaused /\ T.state # "paused"
               id == T.chain[n].id
               t == [T EXCEPT !.chain[n].fs = "queued",
                              !.chain[n].st = "running",
                              !.chain[n].consumed = FALSE,
                              !.state = "executing", !.status = "running",
                              !.active = T.chain[n].id,
                              !.budgetPaused = @ /\ T.state # "paused"]
               v == [u EXCEPT !.state = "executing", !.status = "running",
                              !.active = id, !.budgetPaused = bp]
    <2>1. /\ x \in Step /\ x.id = T.chain[n].id /\ x.role = T.chain[n].role
          /\ Open(x)
      BY <1>2 DEF Step, LiveFs, Open
    <2>2. \/ task' = Dispatched(t, n) /\ T.chain[n].id \in orders'
          \/ task' = t /\ SendMayFail
      BY <1>1, <1>5 DEF Continue, Send
    <2>3. t = [T EXCEPT !.chain[n].fs = "queued", !.chain[n].st = "running",
                       !.chain[n].consumed = FALSE, !.state = "executing",
                       !.status = "running", !.active = id, !.budgetPaused = bp]
      OBVIOUS
    <2>4. id \in (Nat \ {0}) \X (Nat \ {0}) /\ bp \in BOOLEAN
      BY <1>2 DEF Step
    <2> HIDE DEF t, bp, id
    <2>5. /\ T \in Task /\ n \in DOMAIN T.chain /\ T.chain[n] \in Step
      BY <1>1, <1>2
    <2>6. t = v
      <3> DEFINE xa == [T.chain[n] EXCEPT !.fs = "queued"]
                 xb == [xa EXCEPT !.st = "running"]
                 a == [T EXCEPT !.chain[n].fs = "queued"]
                 b == [a EXCEPT !.chain[n].st = "running"]
                 c == [b EXCEPT !.chain[n].consumed = FALSE]
      <3>1. t = [c EXCEPT !.state = "executing", !.status = "running",
                          !.active = id, !.budgetPaused = bp]
        BY <2>3
      <3>2. a = [T EXCEPT !.chain[n] = xa]
        BY <2>5 DEF Task, Step
      <3>3. xa \in Step
        BY <2>5 DEF Step, LiveFs
      <3>4. a \in Like(T)
        BY <1>1, <1>2, StepMarked DEF LiveFs
      <3> HIDE DEF a, xa
      <3>5. a \in Task /\ n \in DOMAIN a.chain /\ a.chain[n] = xa
        <4>1. a \in Good /\ Len(a.chain) = n
          BY <1>1, <1>2, <3>4 DEF Like
        <4>2. a.chain[n] = xa
          BY <2>5, <3>2 DEF Task
        <4> QED BY <1>1, <4>1, <4>2, LastIdGood DEF Good
      <3>6. b = [T EXCEPT !.chain[n] = xb]
        <4>1. b = [a EXCEPT !.chain[n] = xb]
          BY <3>5
        <4> HIDE DEF b
        <4> QED BY <2>5, <3>2, <4>1, TwiceReplaced, ZenonT(60)
      <3>7. xb \in Step
        BY <3>3 DEF Step
      <3>8. x = [xb EXCEPT !.consumed = FALSE]
        BY <2>5 DEF Step, xa
      <3>9. b \in Like(a)
        BY <1>1, <1>2, <3>4, StepMarked DEF Like
      <3> HIDE DEF b, xb, x
      <3>10. b \in Task /\ n \in DOMAIN b.chain /\ b.chain[n] = xb
        <4>1. b \in Good /\ Len(b.chain) = n
          BY <1>1, <1>2, <3>4, <3>9 DEF Like
        <4>2. b.chain[n] = xb
          BY <2>5, <3>6 DEF Task
        <4> QED BY <1>1, <4>1, <4>2, LastIdGood DEF Good
      <3>11. c = u
        <4>1. c = [b EXCEPT !.chain[n] = x]
          BY <3>10, <3>8
        <4> HIDE DEF c, u
        <4>2. c = [T EXCEPT !.chain[n] = x]
          BY <2>5, <3>6, <4>1, TwiceReplaced, ZenonT(60)
        <4> QED BY <4>2 DEF u
      <3> QED BY <3>1, <3>11
    <2> HIDE DEF x
    <2>7. u = [T EXCEPT !.chain[n] = x]
      OBVIOUS
    <2> HIDE DEF u
    <2>8. /\ u \in Good /\ SameFields(T, u) /\ Reworked(T.chain, u.chain)
      BY <1>1, <1>2, <2>1, <2>7, LastReplaced, ZenonT(60)
    <2>9. /\ u \in Good /\ SameFields(T, u) /\ Reworked(T.chain, u.chain)
          /\ Len(u.chain) = n /\ u.chain[n] = x
      <3>1. u.chain[n] = x
        BY <2>5, <2>7 DEF Task
      <3> QED BY <1>2, <2>8, <3>1 DEF Reworked
    <2>10. u \in Task
      BY <2>9 DEF Good
    <2>11. /\ v \in Task /\ v.pushes = u.pushes /\ v.retries = u.retries
           /\ v.chain = u.chain /\ v.plan = u.plan /\ v.wait = u.wait
           /\ v.state = "executing" /\ v.status = "running"
      BY <2>4, <2>10 DEF Task, State, Status
    <2>12. /\ v \in Good /\ v.chain = u.chain /\ v.plan = u.plan
           /\ v.wait = u.wait /\ v.state = "executing"
           /\ v.status = "running"
      BY <2>9, <2>11 DEF Good
    <2> HIDE DEF v
    <2>13. /\ SameFields(v, Dispatched(v, n))
           /\ Reworked(v.chain, Dispatched(v, n).chain)
           /\ Open(Dispatched(v, n).chain[n])
      BY <2>1, <2>9, <2>12, DispatchedIs DEF Open
    <2>14. /\ task'.state = "executing" /\ task'.wait = T.wait
           /\ task'.plan = T.plan /\ task'.status = "running"
           /\ Reworked(T.chain, task'.chain)
      BY <1>1, <2>2, <2>6, <2>9, <2>12, <2>13, Composed DEF SameFields
    <2>15. /\ Open(task'.chain[n]) /\ Len(task'.chain) = n
           /\ task'.chain[n].id = T.chain[n].id
           /\ SendMayFail \/ T.chain[n].id \in orders'
      BY <1>1, <2>1, <2>2, <2>6, <2>9, <2>12, <2>13, <2>14 DEF Reworked
    <2> QED BY <1>5, <2>14, <2>15 DEF Marks, Continue, Person
  <1> QED BY <1>3, <1>4, <1>5

(* So every request but those on the gate is one of the above.             *)
LEMMA PeopleRequest ==
    ASSUME IInv, IInv', Line(task), "gate" \notin Ops, People
    PROVE  Requests
  <1>1. task' \in Good
    BY DEF IInv, TasksOK
  <1>2. ~ApproveGate /\ ~DenyGate
    BY DEF ApproveGate, DenyGate, Person
  <1>3. /\ Free /\ UNCHANGED snap /\ actor' = "human"
    BY <1>2
       DEF People, Person, ApprovePlan, DenyPlan, Accept, DenyBack, DenyFinal,
           DenyMissed, Denied, QueueDeny, QueueRefused, OwnerConfirm, Rollback,
           Skip, Cancel, Pause, Continue, BudgetPause, BudgetResume
  <1>4. UNCHANGED result
    BY <1>2
       DEF People, ApprovePlan, DenyPlan, Accept, DenyBack, DenyFinal,
           DenyMissed, Denied, QueueDeny, QueueRefused, OwnerConfirm, Rollback,
           Skip, Cancel, Pause, Continue, BudgetPause, BudgetResume
  <1> QED BY <1>1, <1>2, <1>3, <1>4, ApprovePlanIs, DenyPlanIs, SendsBackIs,
             RelabelsIs, MissesIs, MarksIs DEF People, Requests

-----------------------------------------------------------------------------

(* What a step of the trigger does.                                        *)
LEMMA TriggerDoes ==
    ASSUME IInv, LineInv, NEW w \in Worker, Trigger(w)
    PROVE  \/ Read(w) \/ Write(w) \/ (MayAct(w) /\ Leave(w))
           \/ (MayAct(w) /\ Acts(w))
  <1>1. Idle(w) \/ NobodyToRedo(w) => MayAct(w) /\ Leave(w)
    BY DEF Idle, NobodyToRedo
  <1>2. FinishChain(w) \/ ResumePlanned(w) \/ Submit(w) \/ Retry(w)
        => MayAct(w) /\ Acts(w)
    BY FinishChainActs, ResumePlannedActs, SubmitActs, RetryActs
    DEF FinishChain, ResumePlanned, Submit, Retry
  <1> QED BY <1>1, <1>2 DEF Trigger

(* Archiving or using up a result does not change what it says.            *)
LEMMA KindsKept ==
    ASSUME IInv, LineInv, NEW w \in Worker, Trigger(w)
    PROVE  KindsOK'
  <1>1. KindsOK
    BY DEF LineInv
  <1>2. CASE UNCHANGED result
    BY <1>1, <1>2 DEF KindsOK
  <1>3. ASSUME NEW id, MyStep(w).id = id,
               result' = [j \in DOMAIN result \ {id} |-> result[j]]
        PROVE  KindsOK'
    BY <1>1, <1>3 DEF KindsOK
  <1>4. ASSUME NEW id \in DOMAIN result,
               result' = [result EXCEPT ![id].uses = IF @ = 2 THEN 2 ELSE @ + 1]
        PROVE  KindsOK'
    <2> DEFINE r == [result[id] EXCEPT !.uses = IF @ = 2 THEN 2 ELSE @ + 1]
    <2>1. r.kind = result[id].kind
      BY DEF IInv, ResultsOK, Result
    <2>2. result' = [result EXCEPT ![id] = r]
      BY <1>4
    <2> HIDE DEF r
    <2> QED BY <1>1, <2>1, <2>2 DEF KindsOK
  <1>5. CASE Submit(w)
    <2>1. MyStep(w).id \in DOMAIN result
      BY <1>5 DEF Submit, MaySubmit, MyStep
    <2>2. \/ UNCHANGED result
          \/ result' = [result EXCEPT ![MyStep(w).id].uses =
                                         IF @ = 2 THEN 2 ELSE @ + 1]
      BY <1>5 DEF Submit
    <2> QED BY <1>2, <1>4, <2>1, <2>2
  <1>6. CASE Retry(w)
    <2>1. \/ UNCHANGED result
          \/ result' = [j \in DOMAIN result \ {MyStep(w).id} |-> result[j]]
      BY <1>6 DEF Retry
    <2> QED BY <1>2, <1>3, <2>1
  <1>7. CASE ~Submit(w) /\ ~Retry(w)
    BY <1>2, <1>7
       DEF Trigger, Read, Idle, NobodyToRedo, Leave, FinishChain, ResumePlanned,
           Write
  <1> QED BY <1>5, <1>6, <1>7

(* A scan that acts keeps every copy of the task in line.                  *)
LEMMA ActsLine ==
    ASSUME IInv, LineInv, KindsOK', NEW w \in Worker, MayAct(w), Acts(w)
    PROVE  LineInv'
  <1> DEFINE m == Mine(w)
  <1>1. m \in Good /\ Line(m) /\ m.chain \in Chain
    BY MineLine DEF Good
  <1>2. PICK f \in Good, u \in Good :
          /\ Store(w, f, u) /\ f.chain = m.chain /\ SameFields(m, f)
          /\ \/ Judges(m, u) \/ Blocks(m, u) \/ GivesOut(m, u) \/ Reopens(m, u)
    BY DEF Acts
  <1>3. Runs(m)
    BY DEF Acts
  <1> HIDE DEF m
  <1>4. Line(f)
    BY <1>1, <1>2 DEF Line, SameFields
  <1>5. u.chain \in Chain
    BY DEF Good
  <1>6. Line(u)
    <2>1. CASE Judges(m, u)
      BY <1>1, <1>5, <2>1, ReworkedInLine DEF Judges, Line
    <2>2. CASE Blocks(m, u)
      BY <1>1, <1>5, <2>2, ReworkedInLine DEF Blocks, Line
    <2>3. CASE GivesOut(m, u)
      BY <1>1, <1>5, <2>3, ExtendedInLine DEF GivesOut, Line
    <2>4. CASE Reopens(m, u)
      <3>1. Len(u.chain) = Len(m.chain) /\ u.state \in {"executing", m.state}
        BY <2>4 DEF Reopens, Reworked
      <3>2. m.state \notin {"accepting", "succeeded"}
        BY <1>3 DEF Runs, ChainOver
      <3> QED BY <1>1, <1>5, <2>4, <3>1, <3>2, ReworkedInLine DEF Reopens, Line
    <2> QED BY <1>2, <2>1, <2>2, <2>3, <2>4
  <1>7. task' = f /\ snap' = [snap EXCEPT ![w] = [task |-> u, acted |-> TRUE]]
    BY <1>2 DEF Store
  <1>8. \A v \in Worker : snap'[v] = IF v = w THEN [task |-> u, acted |-> TRUE]
                                    ELSE snap[v]
    BY <1>7 DEF IInv, TasksOK
  <1> QED BY <1>4, <1>6, <1>7, <1>8 DEF LineInv

(* So does every other step of a scan ...                                  *)
LEMMA TriggerLine ==
    ASSUME IInv, LineInv, NEW w \in Worker, Trigger(w)
    PROVE  LineInv'
  <1>1. KindsOK'
    BY KindsKept
  <1>2. snap \in [Worker -> Snap] /\ task \in Good
    BY DEF IInv, TasksOK
  <1>3. CASE Read(w)
    <2> DEFINE s == [task |-> Ensured(task), acted |-> FALSE]
    <2>1. Line(Ensured(task)) /\ Normal(Ensured(task).chain)
      BY <1>2, EnsuredLine, EnsuredIs DEF LineInv
    <2>2. snap' = [snap EXCEPT ![w] = s] /\ task' = task
      BY <1>3 DEF Read
    <2>3. \A v \in Worker : snap'[v] = IF v = w THEN s ELSE snap[v]
      BY <1>2, <2>2
    <2> QED BY <1>1, <2>1, <2>2, <2>3 DEF LineInv
  <1>4. CASE Write(w)
    <2>1. \A v \in Worker : snap'[v] = IF v = w THEN NoTask ELSE snap[v]
      BY <1>2, <1>4 DEF Write
    <2>2. Line(task')
      BY <1>4 DEF Write, LineInv
    <2> QED BY <1>1, <2>1, <2>2 DEF LineInv
  <1>5. CASE MayAct(w) /\ Leave(w)
    <2>1. \A v \in Worker : snap'[v] = IF v = w THEN NoTask ELSE snap[v]
      BY <1>2, <1>5 DEF Leave
    <2>2. Line(task')
      BY <1>5, MineLine DEF Leave
    <2> QED BY <1>1, <2>1, <2>2 DEF LineInv
  <1> QED BY <1>1, <1>3, <1>4, <1>5, ActsLine, TriggerDoes

(* ... and every request.                                                  *)
LEMMA RequestLine ==
    ASSUME IInv, LineInv, Requests
    PROVE  LineInv'
  <1>1. /\ T \in Good /\ Line(T) /\ T.chain \in Chain /\ SameFields(task, T)
        /\ Line(task)
    BY TLine DEF LineInv
  <1>2. task'.chain \in Chain /\ UNCHANGED <<snap, result>>
    BY DEF Requests, Good
  <1>3. CASE Relabels(task')
    <2>1. Line(task')
      BY <1>1, <1>3 DEF Relabels, Line
    <2> QED BY <1>2, <2>1 DEF LineInv, KindsOK
  <1>4. CASE Misses(task')
    BY <1>1, <1>2, <1>4 DEF Misses, LineInv, KindsOK
  <1>5. CASE SetsOff(task')
    <2>1. Line(task')
      BY <1>1, <1>2, <1>5, ReworkedInLine DEF SetsOff, Line
    <2> QED BY <1>2, <2>1 DEF LineInv, KindsOK
  <1>6. CASE Replans(task')
    <2>1. Len(task'.chain) = 1 /\ T.state = "created"
      BY <1>6, InitialChainGood DEF Replans, AwaitsPlan
    <2>2. InLine(task'.chain)
      BY <2>1 DEF InLine
    <2>3. Line(task')
      BY <1>6, <2>1, <2>2 DEF Replans, Line
    <2> QED BY <1>2, <2>3 DEF LineInv, KindsOK
  <1>7. CASE SendsBack(task')
    <2>1. Line(task')
      BY <1>1, <1>2, <1>7, ExtendedInLine DEF SendsBack, Line
    <2> QED BY <1>2, <2>1 DEF LineInv, KindsOK
  <1>8. CASE Marks(task')
    <2>1. /\ InLine(task'.chain) /\ Len(task'.chain) = Len(T.chain)
          /\ (Closed(task'.chain[Len(task'.chain)]) => AllClosed(task'.chain))
      BY <1>1, <1>2, <1>8, ReworkedInLine DEF Marks, Line, Reworked
    <2>2. Line(task')
      BY <1>1, <1>8, <2>1 DEF Marks, Line, SameFields
    <2> QED BY <1>2, <2>2 DEF LineInv, KindsOK
  <1> QED BY <1>3, <1>4, <1>5, <1>6, <1>7, <1>8 DEF Requests

(* Every step keeps the line.                                              *)
LEMMA LineNext ==
    ASSUME IInv, IInv', LineInv, "gate" \notin Ops, [Next]_vars
    PROVE  LineInv'
  <1>1. CASE People
    BY <1>1, PeopleRequest, RequestLine DEF LineInv
  <1>2. CASE Agents
    <2>1. PICK id \in orders, k \in Kinds : Report(id, k)
      BY <1>2 DEF Agents
    <2> DEFINE r == [kind |-> k, uses |-> 0]
    <2>2. result' = [j \in DOMAIN result \cup {id} |->
                       IF j = id THEN r ELSE result[j]]
      BY <2>1 DEF Report
    <2>3. r.kind \in Kinds
      OBVIOUS
    <2> HIDE DEF r
    <2>4. KindsOK'
      BY <2>2, <2>3 DEF LineInv, KindsOK
    <2> QED BY <2>1, <2>4 DEF LineInv, Report
  <1>3. ASSUME NEW w \in Worker, Trigger(w) PROVE LineInv'
    BY <1>3, TriggerLine
  <1>4. ASSUME NEW w \in Worker, Crash(w) PROVE LineInv'
    <2>1. \A v \in Worker : snap'[v] = IF v = w THEN NoTask ELSE snap[v]
      BY <1>4 DEF Crash, IInv, TasksOK
    <2> QED BY <1>4, <2>1 DEF Crash, LineInv, KindsOK
  <1>5. CASE UNCHANGED vars
    BY <1>5 DEF vars, LineInv, KindsOK
  <1> QED BY <1>1, <1>2, <1>3, <1>4, <1>5 DEF Next

(* handle_task_create: the task as it is written first.                    *)
LEMMA FirstTask ==
    ASSUME Init
    PROVE  /\ Len(task.chain) = 1 /\ task.plan = Tail(InitPlan)
           /\ task.chain[1].role = Head(InitPlan)
           /\ \/ /\ NeedsApproval /\ task.state = "created"
                 /\ ~StepDone(task.chain[1]) /\ Open(task.chain[1])
                 /\ task.wait = "await_plan_approval" /\ task.status = "pending"
                 /\ pending = {"plan_approval"}
              \/ /\ \/ /\ task.state = "executing" /\ task.status = "running"
                       /\ Open(task.chain[1]) /\ orders = {task.chain[1].id}
                    \/ SendMayFail /\ task.state = "blocked"
                 /\ task.wait = "none" /\ pending = {}
  <1>1. /\ NewTask.chain = InitialChain(InitPlan) /\ Len(NewTask.chain) = 1
        /\ NewTask.chain[1].role = Head(InitPlan)
        /\ ~StepDone(NewTask.chain[1]) /\ Open(NewTask.chain[1])
        /\ NewTask.chain[1].id = <<1, 1>>
        /\ NewTask.plan = Tail(InitPlan)
    BY InitialChainGood DEF NewTask, InitialChain, StepDone, Open, LiveFs
  <1>2. NewTask \in Task
    <2>1. InitialChain(InitPlan) \in Seq(Step) /\ Tail(InitPlan) \in Seq(Role)
      BY InitialChainGood, ParamAssumption, HeadTailProperties DEF Chain
    <2> DEFINE c == InitialChain(InitPlan)
    <2>2. c \in Seq(Step)
      BY <2>1
    <2> HIDE DEF c
    <2>3. NewTask = [state |-> "created", wait |-> "await_plan_approval",
     status |-> "pending", chain |-> c,
     plan |-> Tail(InitPlan), active |-> <<1, 1>>, gate |-> "none",
     budgetPaused |-> FALSE, pushes |-> 0, retries |-> 0]
      BY DEF NewTask, c
    <2> QED BY <2>1, <2>2, <2>3 DEF Task, State, Wait, Status
  <1>3. NeedsApproval => /\ task = NewTask /\ pending = {"plan_approval"}
    BY DEF Init
  <1>4. /\ NewTask.state = "created" /\ NewTask.wait = "await_plan_approval"
        /\ NewTask.status = "pending"
    BY DEF NewTask
  <1>5. CASE NeedsApproval
    BY <1>1, <1>3, <1>4, <1>5
  <1> DEFINE n == Started(NewTask)
  <1>6. /\ n \in Task /\ n.chain = NewTask.chain /\ n.plan = NewTask.plan
        /\ n.state = "executing" /\ n.status = "running" /\ n.wait = "none"
    BY <1>2 DEF Started, Task, State, Wait, Status
  <1>7. ~NeedsApproval =>
       /\ pending = {}
       /\ \/ task = Dispatched(Bumped(n), 1) /\ orders = {<<1, 1>>}
          \/ /\ SendMayFail
             /\ task = [n EXCEPT !.state = "blocked", !.status = "blocked"]
    BY DEF Init
  <1> HIDE DEF n
  <1>8. CASE /\ SendMayFail /\ pending = {}
             /\ task = [n EXCEPT !.state = "blocked", !.status = "blocked"]
    BY <1>1, <1>6, <1>8 DEF Task
  <1>9. CASE /\ task = Dispatched(Bumped(n), 1) /\ pending = {}
             /\ orders = {<<1, 1>>}
    <2> DEFINE b == Bumped(n)
    <2>1. /\ b \in Task /\ b.chain = NewTask.chain /\ b.plan = NewTask.plan
          /\ b.state = "executing" /\ b.status = "running" /\ b.wait = "none"
      <3> DEFINE x == n.pushes + 1
      <3>1. b = [n EXCEPT !.pushes = x]
        BY DEF Bumped
      <3>2. x \in Nat
        BY <1>6 DEF Task
      <3> HIDE DEF b, x
      <3> QED BY <1>6, <3>1, <3>2 DEF Task
    <2> HIDE DEF b
    <2>2. task = Dispatched(b, 1)
      BY <1>9 DEF b
    <2>3. b.chain \in Seq(Step) /\ Len(b.chain) = 1
      BY <1>1, <2>1 DEF Task
    <2>4. b.chain[1] \in Step /\ 1 \in DOMAIN b.chain /\ DOMAIN b.chain = 1..1
      BY <2>3
    <2> DEFINE s == [b.chain[1] EXCEPT !.fs = "dispatched", !.st = "running"]
               c == [b.chain EXCEPT ![1] = s]
    <2>5. /\ s.role = b.chain[1].role /\ s.id = b.chain[1].id /\ s \in Step
          /\ Open(b.chain[1]) => Open(s)
      BY <2>4 DEF Step, LiveFs, Open
    <2>6. task = [b EXCEPT !.chain[1] = s]
      BY <2>1, <2>2, <2>4 DEF Dispatched, Task, Step
    <2> HIDE DEF s
    <2>7. c \in Seq(Step) /\ Len(c) = 1 /\ c[1] = s
      BY <2>3, <2>4, <2>5
    <2>8. task = [b EXCEPT !.chain = c]
      BY <2>6
    <2> HIDE DEF c
    <2> QED BY <1>1, <1>9, <2>1, <2>5, <2>7, <2>8 DEF Task
  <1> QED BY <1>5, <1>7, <1>8, <1>9

(* It is in line.                                                          *)
LEMMA LineInit == Init => LineInv
  <1> SUFFICES ASSUME Init PROVE LineInv
    OBVIOUS
  <1>1. Line(task)
    <2>1. Len(task.chain) = 1 /\ task.state \notin {"accepting", "succeeded"}
      BY FirstTask
    <2>2. InLine(task.chain)
      BY <2>1 DEF InLine
    <2> QED BY <2>1, <2>2 DEF Line
  <1>2. KindsOK
    BY DEF Init, KindsOK
  <1> QED BY <1>1, <1>2 DEF LineInv, Init

(* Whatever scans, agents and people do, by however many workers, with     *)
(* crashes and overwritten snapshots: the task on disk and in memory is in *)
(* line, unless a workflow gate is decided (on_gate_approve may append a step*)
(* behind one that is still queued).                                       *)
THEOREM TaskInLine == "gate" \notin Ops /\ Spec => [](IInv /\ LineInv)
  <1>1. ASSUME "gate" \notin Ops PROVE Spec => [](IInv /\ LineInv)
    <2>1. Init => IInv /\ LineInv
      BY InitOK, LineInit
    <2>2. IInv /\ LineInv /\ [Next]_vars => (IInv /\ LineInv)'
      BY <1>1, NextOK, LineNext
    <2> QED BY <2>1, <2>2, PTL DEF Spec
  <1> QED BY <1>1

(* What a line means for the chain.                                        *)
LEMMA LineSays ==
    ASSUME IInv, LineInv
    PROVE  OneLiveStep /\ UniqueStepIds /\ AcceptingIsFinished
  <1> DEFINE n == Len(task.chain)
             live == {i \in DOMAIN task.chain : task.chain[i].fs \in LiveFs}
  <1>1. /\ task \in Good /\ task.chain \in Chain /\ n \in 1..n
        /\ DOMAIN task.chain = 1..n
    BY LastIdGood DEF IInv, TasksOK, Good
  <1>2. InLine(task.chain)
    BY DEF LineInv, Line
  <1>3. live \subseteq {n}
    BY <1>1, <1>2 DEF InLine, Closed, TerminalFs, LiveFs
  <1> HIDE DEF n, live
  <1>4. Cardinality(live) <= 1
    <2>1. IsFiniteSet({n}) /\ Cardinality({n}) = 1
      BY FS_Singleton
    <2>2. Cardinality(live) <= Cardinality({n})
      BY <1>3, <2>1, FS_Subset
    <2> QED BY <2>1, <2>2
  <1>5. OneLiveStep
    BY <1>4 DEF OneLiveStep, live
  <1>6. UniqueStepIds
    <2>1. \A i \in 1..n : task.chain[i].id \in (Nat \ {0}) \X (Nat \ {0})
      BY <1>1, LastIdGood DEF n
    <2>2. \A i, j \in 1..n : i < j => task.chain[i].id # task.chain[j].id
      <3> SUFFICES ASSUME NEW i \in 1..n, NEW j \in 1..n, i < j
                   PROVE  task.chain[i].id # task.chain[j].id
        OBVIOUS
      <3>1. Before(task.chain[i].id, task.chain[j].id)
        BY <1>2 DEF InLine, n
      <3>2. /\ task.chain[i].id[1] \in Nat /\ task.chain[i].id[2] \in Nat
        BY <2>1
      <3> QED BY <3>1, <3>2 DEF Before
    <2> QED BY <1>1, <2>2 DEF UniqueStepIds
  <1>7. AcceptingIsFinished
    BY <1>1 DEF LineInv, Line, AcceptingIsFinished, AllClosed, Closed, n
  <1> QED BY <1>5, <1>6, <1>7

(* get_active_step never has two live steps to choose from, gates apart.   *)
THEOREM TaskOneLiveStep == "gate" \notin Ops /\ Spec => []OneLiveStep
  BY TaskInLine, LineSays, PTL

(* No two steps of a chain share an id, hence a result file, gates apart.  *)
THEOREM TaskUniqueStepIds == "gate" \notin Ops /\ Spec => []UniqueStepIds
  BY TaskInLine, LineSays, PTL

(* A task comes to final acceptance with its plan used up and no live step,*)
(* gates apart: also with snapshots overwritten and orders lost.           *)
THEOREM TaskAcceptingIsFinished ==
    "gate" \notin Ops /\ Spec => []AcceptingIsFinished
  BY TaskInLine, LineSays, PTL

-----------------------------------------------------------------------------

(* An accepted task has its verdict, on disk and in memory.                *)
Judged(t) == t.state = "succeeded" => verdict = "approved"

(* So on disk and in every copy.                                           *)
VerdictInv ==
    /\ Judged(task)
    /\ \A w \in Worker : snap[w] # NoTask => Judged(snap[w].task)

(* A wait for a person has its item.                                       *)
Items(t) ==
    /\ t.state = "accepting" => "final_acceptance" \in pending
    /\ t.state = "created" /\ t.wait = "await_plan_approval" =>
          "plan_approval" \in pending
    /\ t.state # "cancelled" =>
          /\ t.wait = "await_owner_confirmation" =>
                "owner_confirmation" \in pending
          /\ t.wait = "await_gate" => "workflow_gate" \in pending
    /\ t.state = "cancelled" =>
          t.status = "cancelled" /\ (t.wait = "none" \/ "cancel" \in Ops)

(* So on disk and in every copy.                                           *)
ItemsInv ==
    /\ Items(task)
    /\ \A w \in Worker : snap[w] # NoTask => Items(snap[w].task)

-----------------------------------------------------------------------------

(* What worker w does to the task on disk and in its memory.               *)
LEMMA WorkerSnaps ==
    ASSUME IInv, LineInv, NEW w \in Worker, Trigger(w) \/ Crash(w)
    PROVE  /\ \A v \in Worker : v # w => snap'[v] = snap[v]
           /\ \/ /\ UNCHANGED <<pending, verdict>>
                 /\ \/ task' = task
                    \/ snap[w] # NoTask /\ task' = snap[w].task
                 /\ \/ snap'[w] = NoTask
                    \/ SameFields(task, snap'[w].task)
              \/ /\ MayAct(w) /\ Runs(Mine(w))
                 /\ \E f, u \in Good :
                       /\ task' = f /\ SameFields(Mine(w), f)
                       /\ snap'[w].task = u
                       /\ \/ Judges(Mine(w), u) \/ Blocks(Mine(w), u)
                          \/ GivesOut(Mine(w), u) \/ Reopens(Mine(w), u)
  <1>1. snap \in [Worker -> Snap] /\ task \in Good
    BY DEF IInv, TasksOK
  <1>2. CASE Read(w)
    <2>1. SameFields(task, Ensured(task))
      BY <1>1, EnsuredIs
    <2>2. snap'[w].task = Ensured(task)
      BY <1>1, <1>2 DEF Read
    <2> QED BY <1>1, <1>2, <2>1, <2>2 DEF Read
  <1>3. CASE Write(w) \/ Crash(w)
    BY <1>1, <1>3 DEF Write, Crash
  <1>4. CASE MayAct(w) /\ Leave(w)
    BY <1>1, <1>4 DEF Leave, Mine, MayAct
  <1>5. CASE MayAct(w) /\ Acts(w)
    <2>1. PICK f \in Good, u \in Good :
            /\ Store(w, f, u) /\ SameFields(Mine(w), f)
            /\ \/ Judges(Mine(w), u) \/ Blocks(Mine(w), u)
               \/ GivesOut(Mine(w), u) \/ Reopens(Mine(w), u)
      BY <1>5 DEF Acts
    <2>2. /\ task' = f /\ snap'[w].task = u
          /\ \A v \in Worker : v # w => snap'[v] = snap[v]
      BY <1>1, <2>1 DEF Store
    <2> QED BY <1>5, <2>1, <2>2 DEF Acts
  <1> QED BY <1>2, <1>3, <1>4, <1>5, TriggerDoes

(* No step takes the verdict from an accepted task.                        *)
LEMMA VerdictNext ==
    ASSUME IInv, IInv', LineInv, "gate" \notin Ops, ~Concurrent, VerdictInv,
           [Next]_vars
    PROVE  VerdictInv'
  <1>1. CASE People
    <2>1. Requests /\ SameFields(task, T)
      BY <1>1, PeopleRequest, TLine DEF LineInv
    <2>2. \A w \in Worker : snap'[w] = NoTask
      BY <2>1 DEF Requests, Free
    <2>3. Judged(task)'
      BY <2>1
         DEF Requests, Relabels, Misses, SetsOff, Replans, AwaitsPlan,
             SendsBack, Marks, SameFields, VerdictInv, Judged
    <2> QED BY <2>2, <2>3 DEF VerdictInv
  <1>2. CASE Agents
    BY <1>2 DEF Agents, Report, VerdictInv, Judged
  <1>3. ASSUME NEW w \in Worker, Trigger(w) \/ Crash(w) PROVE VerdictInv'
    <2>1. \A v \in Worker : v # w => snap'[v] = snap[v]
      BY <1>3, WorkerSnaps
    <2>2. ASSUME UNCHANGED verdict,
                 \/ task' = task
                 \/ snap[w] # NoTask /\ task' = snap[w].task,
                 snap'[w] = NoTask \/ SameFields(task, snap'[w].task)
          PROVE  VerdictInv'
      BY <2>1, <2>2 DEF VerdictInv, Judged, SameFields
    <2>3. ASSUME MayAct(w), NEW f, NEW u, task' = f, SameFields(Mine(w), f),
                 snap'[w].task = u, Runs(Mine(w)),
                 \/ Judges(Mine(w), u) \/ Blocks(Mine(w), u)
                 \/ GivesOut(Mine(w), u) \/ Reopens(Mine(w), u)
          PROVE  VerdictInv'
      <3>1. Judged(Mine(w))
        BY <2>3 DEF VerdictInv, MayAct, Mine
      <3>2. verdict' \in {verdict, "approved"}
        BY <2>3 DEF Judges, Blocks, GivesOut, Reopens
      <3>3. u.state = "succeeded" => verdict' = "approved"
        BY <2>3, <3>1, <3>2 DEF Judges, Blocks, GivesOut, Reopens, Judged
      <3>4. f.state = "succeeded" => verdict' = "approved"
        BY <2>3, <3>1, <3>2 DEF SameFields, Judged
      <3> QED BY <2>1, <2>3, <3>2, <3>3, <3>4 DEF VerdictInv, Judged
    <2> QED BY <1>3, <2>2, <2>3, WorkerSnaps
  <1>4. CASE UNCHANGED vars
    BY <1>4 DEF vars, VerdictInv, Judged
  <1> QED BY <1>1, <1>2, <1>3, <1>4 DEF Next

(* An accepted task in line is finished.                                   *)
LEMMA VerdictSays ==
    ASSUME IInv, LineInv, VerdictInv
    PROVE  SucceededIsFinished
  <1>1. DOMAIN task.chain = 1..Len(task.chain)
    BY LastIdGood DEF IInv, TasksOK
  <1> QED BY <1>1
             DEF VerdictInv, Judged, LineInv, Line, AllClosed, Closed,
                 SucceededIsFinished

(* A task is closed as succeeded with an approving verdict, its plan used up*)
(* and no live step (apply_accept, the auto acceptance of tier S).  Where  *)
(* requests run beside a scan, a denial may come under a scan that is about*)
(* to write its acceptance.                                                *)
THEOREM TaskSucceededIsFinished ==
    "gate" \notin Ops /\ ~Concurrent /\ Spec => []SucceededIsFinished
  <1>1. ASSUME "gate" \notin Ops, ~Concurrent
        PROVE  Spec => []SucceededIsFinished
    <2>1. Init => VerdictInv
      <3>1. Init => task.state # "succeeded"
        BY FirstTask
      <3> QED BY <3>1 DEF Init, VerdictInv, Judged
    <2>2. IInv /\ IInv' /\ LineInv /\ VerdictInv /\ [Next]_vars => VerdictInv'
      BY <1>1, VerdictNext
    <2>3. "gate" \notin Ops
      BY <1>1
    <2>4. IInv /\ LineInv /\ VerdictInv => SucceededIsFinished
      BY VerdictSays
    <2>5. Spec => [](IInv /\ LineInv)
      BY <2>3, TaskInLine
    <2> QED BY <2>1, <2>2, <2>4, <2>5, PTL DEF Spec
  <1> QED BY <1>1

-----------------------------------------------------------------------------

(* The requests that keep a wait and its item together.                    *)
KeepsItems ==
    /\ {"gate", "queue_refused", "deny_missed"} \cap Ops = {}
    /\ "cancel" \notin Ops \/ {"rollback", "pause"} \cap Ops = {}

(* Waits and items come and go together.                                   *)
LEMMA ItemsNext ==
    ASSUME IInv, IInv', LineInv, KeepsItems, ~Concurrent, ItemsInv, [Next]_vars
    PROVE  ItemsInv'
  <1>1. CASE People
    <2>1. Requests /\ SameFields(task, T)
      BY <1>1, PeopleRequest, TLine DEF LineInv, KeepsItems
    <2>2. \A w \in Worker : snap'[w] = NoTask
      BY <2>1 DEF Requests, Free
    <2>3. Items(T)
      BY <2>1 DEF SameFields, ItemsInv, Items
    <2>4. "cancel" \in Ops => "rollback" \notin Ops /\ "pause" \notin Ops
      BY DEF KeepsItems
    <2>5. Items(task)'
      <3>1. CASE Relabels(task')
        BY <2>3, <2>4, <3>1 DEF Relabels, AwaitsPlan, Items
      <3>2. CASE Misses(task')
        BY <3>2 DEF Misses, KeepsItems
      <3>3. CASE SetsOff(task')
        BY <2>3, <3>3 DEF SetsOff, Items
      <3>4. CASE Replans(task')
        BY <2>3, <3>4 DEF Replans, AwaitsPlan, Items
      <3>5. CASE SendsBack(task')
        BY <2>3, <2>4, <3>5 DEF SendsBack, Items
      <3>6. CASE Marks(task')
        BY <2>3, <3>6 DEF Marks, SameFields, Items
      <3> QED BY <2>1, <3>1, <3>2, <3>3, <3>4, <3>5, <3>6 DEF Requests
    <2> QED BY <2>2, <2>5 DEF ItemsInv
  <1>2. CASE Agents
    BY <1>2 DEF Agents, Report, ItemsInv, Items
  <1>3. ASSUME NEW w \in Worker, Trigger(w) \/ Crash(w) PROVE ItemsInv'
    <2>1. \A v \in Worker : v # w => snap'[v] = snap[v]
      BY <1>3, WorkerSnaps
    <2>2. ASSUME UNCHANGED pending,
                 \/ task' = task
                 \/ snap[w] # NoTask /\ task' = snap[w].task,
                 snap'[w] = NoTask \/ SameFields(task, snap'[w].task)
          PROVE  ItemsInv'
      BY <2>1, <2>2 DEF ItemsInv, Items, SameFields
    <2>3. ASSUME MayAct(w), NEW f, NEW u, task' = f, SameFields(Mine(w), f),
                 snap'[w].task = u, Runs(Mine(w)),
                 \/ Judges(Mine(w), u) \/ Blocks(Mine(w), u)
                 \/ GivesOut(Mine(w), u) \/ Reopens(Mine(w), u)
          PROVE  ItemsInv'
      <3> DEFINE m == Mine(w)
      <3>1. Items(m)
        BY <2>3 DEF ItemsInv, MayAct, Mine
      <3> HIDE DEF m
      <3>2. pending \subseteq pending'
        BY <2>3 DEF Judges, Blocks, GivesOut, Reopens
      <3>3. m.state \notin {"cancelled", "accepting"}
        BY <2>3 DEF Runs, ChainOver, m
      <3>4. Items(f)'
        BY <2>3, <3>1, <3>2 DEF SameFields, Items, m
      <3>5. Items(u)'
        <4>1. CASE Judges(m, u)
          BY <4>1 DEF Judges, Items
        <4>2. CASE Blocks(m, u)
          BY <3>1, <3>2, <3>3, <4>2 DEF Blocks, Items
        <4>3. CASE GivesOut(m, u)
          BY <3>1, <3>2, <3>3, <4>3 DEF GivesOut, Items
        <4>4. CASE Reopens(m, u)
          BY <3>1, <3>2, <3>3, <4>4 DEF Reopens, Items
        <4> QED BY <2>3, <4>1, <4>2, <4>3, <4>4 DEF m
      <3>6. \A v \in Worker : v # w /\ snap[v] # NoTask => Items(snap[v].task)'
        BY <2>1, <3>2 DEF ItemsInv, Items
      <3> QED BY <2>1, <2>3, <3>4, <3>5, <3>6 DEF ItemsInv, Items
    <2> QED BY <1>3, <2>2, <2>3, WorkerSnaps
  <1>4. CASE UNCHANGED vars
    BY <1>4 DEF vars, ItemsInv, Items
  <1> QED BY <1>1, <1>2, <1>3, <1>4 DEF Next

(* What that means for the four waits.                                     *)
LEMMA ItemsSay ==
    ASSUME IInv, LineInv, ItemsInv
    PROVE  WaitHasItem
  <1>1. SameFields(task, T)
    BY TLine DEF LineInv
  <1> QED BY <1>1 DEF SameFields, ItemsInv, Items, AwaitsPlan, WaitHasItem

(* A task that waits for a person has its item in the human queue, where   *)
(* people use neither the gate nor the requests that close an item and leave*)
(* the task (queue_refused, deny_missed), nor revive a cancelled task.     *)
THEOREM TaskWaitHasItem ==
    KeepsItems /\ ~Concurrent /\ Spec => []WaitHasItem
  <1>1. ASSUME KeepsItems, ~Concurrent
        PROVE  Spec => []WaitHasItem
    <2>1. Init => ItemsInv
      <3>1. Init => Items(task)
        BY FirstTask DEF Items
      <3> QED BY <3>1 DEF Init, ItemsInv
    <2>2. IInv /\ IInv' /\ LineInv /\ ItemsInv /\ [Next]_vars => ItemsInv'
      BY <1>1, ItemsNext
    <2>3. "gate" \notin Ops
      BY <1>1 DEF KeepsItems
    <2>4. IInv /\ LineInv /\ ItemsInv => WaitHasItem
      BY ItemsSay
    <2>5. Spec => [](IInv /\ LineInv)
      BY <2>3, TaskInLine
    <2> QED BY <2>1, <2>2, <2>4, <2>5, PTL DEF Spec
  <1> QED BY <1>1
=============================================================================
