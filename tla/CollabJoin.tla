----------------------------- MODULE CollabJoin -----------------------------
(***************************************************************************)
(* A task whose line begins with a parallel group: Width members work at   *)
(* once, each with an order of its own, and their results are joined by    *)
(* one step before the line goes on.  The chain is the members, the join   *)
(* and what the plan has after it, in this order; the trigger looks at one *)
(* step of the chain at a time.                                            *)
(*                                                                         *)
(* The group is dispatched member by member, orders of later steps may not *)
(* arrive, and people skip steps and continue the task in any state.  That *)
(* a join waits for its reviewer is never written by the trigger, so there *)
(* is nothing an approval of it could act on.  Rollbacks are left out.     *)
(***************************************************************************)
EXTENDS Naturals, FiniteSets

CONSTANT Width     \* members of the group

ASSUME WidthAssumption == Width \in Nat \ {0, 1}

Member == 1..Width
Join == Width + 1
After == Width + 2
Step == 1..Width + 2

VARIABLES steps,    \* each step's fsm_state; "live" is any that is not over
          active,   \* fsm.active_step_id
          line,     \* fsm.state
          gate,     \* join_gate
          left,     \* a role is left in planned_role_types
          first,    \* the first member with the same agent as this one
          ordered,  \* steps whose agent has an order,
          reported, \* those whose result file is there, and
          used,     \* those with result_consumed
          upset     \* what went another way: "short", "skip", "continue"

groupVars == <<steps, active, line, gate, left, first, ordered, reported, used, upset>>
setupVars == <<gate, first>>

Over == {"completed", "skipped"}
LiveSteps(f) == {s \in Step : f[s] = "live"}
Chain(f) == {s \in Step : f[s] # "absent"}
Latest(S) == {s \in S : \A t \in S : t <= s}

GroupInit ==
    /\ steps = [s \in Step |-> IF s = 1 THEN "live" ELSE "absent"]
    /\ active = 1
    /\ line = "created"
    /\ gate \in {"auto", "review"}
    /\ left \in BOOLEAN
    /\ first \in {f \in [Member -> Member] : \A m \in Member : f[m] <= m /\ f[f[m]] = f[m]}
    /\ ordered = {} /\ reported = {} /\ used = {} /\ upset = {}

(* get_active_step: the active one, else the last that is not over, else    *)
(* the last.                                                                *)
LookedAt == IF steps[active] = "live" THEN {active}
            ELSE IF LiveSteps(steps) # {} THEN Latest(LiveSteps(steps))
            ELSE Latest(Chain(steps))

(* Mutant: only the head of the chain has the group's metadata.             *)
MutantInGroup(s) == s = 1

InGroup(s) == s \in Member

(* Mutant: the group is counted one short.                                  *)
MutantAllIn(f) == Cardinality({m \in Member : f[m] \in Over}) + 1 >= Width

(* Every member is over: "done_cnt < total" is false.                       *)
AllIn(f) == Cardinality({m \in Member : f[m] \in Over}) >= Width

(* resolve_step_for_agent: a result goes to its agent's first live step,    *)
(* which refuses one that names another step.                               *)
Attributed(c) ==
    c \in Member => \A d \in Member : d < c /\ first[d] = first[c] => steps[d] # "live"

(* The orders of the group, one after the other: the first that does not    *)
(* arrive blocks the task, and the members from it on are never made.       *)
DispatchGroup ==
    /\ line = "created"
    /\ \E n \in 0..Width :
          /\ steps' = [s \in Step |-> IF s <= n \/ s = 1 THEN "live" ELSE "absent"]
          /\ ordered' = 1..n
          /\ line' = IF n = Width THEN "executing" ELSE "blocked"
          /\ upset' = IF n = Width THEN upset ELSE upset \cup {"short"}
    /\ UNCHANGED <<active, left, reported, used, setupVars>>

Report(s) ==
    /\ s \in ordered \ reported
    /\ reported' = reported \cup {s}
    /\ UNCHANGED <<steps, active, line, left, ordered, used, upset, setupVars>>

(* The trigger completes c and gives out s; an order that does not arrive   *)
(* takes the completion back (revert_failed_advance).  Bound: a join given  *)
(* out again, after a continue, is the same step.                           *)
HandOn(c, s) ==
    /\ line' = "executing"
    /\ \/ /\ steps' = [steps EXCEPT ![c] = "completed", ![s] = "live"]
          /\ active' = s
          /\ used' = (used \cup {c}) \ {s}
          /\ ordered' = ordered \cup {s}
       \/ /\ steps' = [steps EXCEPT ![c] = "live"]
          /\ active' = c
          /\ used' = used \ {c}
          /\ ordered' = ordered

(* The step looked at has a result: it may have been skipped meanwhile.     *)
MaySubmitNow(c) ==
    /\ line = "executing" /\ steps[c] # "completed"
    /\ c \in reported \ used
    /\ Attributed(c)

Completes(c) ==
    /\ steps' = [steps EXCEPT ![c] = "completed"]
    /\ used' = used \cup {c}

(* Mutant: the result is noted as used, the step is not completed.          *)
MutantAwait(c) ==
    /\ MaySubmitNow(c) /\ InGroup(c)
    /\ ~AllIn([steps EXCEPT ![c] = "completed"])
    /\ used' = used \cup {c}
    /\ UNCHANGED <<steps, active, line, left, ordered, reported, upset, setupVars>>

(* A member is done, others are not: the last of those is looked at next.   *)
Await(c) ==
    /\ MaySubmitNow(c) /\ InGroup(c)
    /\ LET f == [steps EXCEPT ![c] = "completed"]
           pending == {m \in Member : f[m] = "live"}
       IN  /\ ~AllIn(f)
           /\ active' \in IF pending # {} THEN Latest(pending) ELSE {c}
    /\ Completes(c)
    /\ UNCHANGED <<line, left, ordered, reported, upset, setupVars>>

(* The last member is done: the join is given out, if somebody can take it. *)
(* When it is to be reviewed the trigger returns without writing what it    *)
(* decided, and the next scan finds the same result.                        *)
GroupDone(c) ==
    /\ MaySubmitNow(c) /\ InGroup(c) /\ AllIn([steps EXCEPT ![c] = "completed"])
    /\ \/ gate = "auto" /\ HandOn(c, Join)
       \/ active' = c /\ UNCHANGED <<steps, line, ordered, used>>
    /\ UNCHANGED <<left, reported, upset, setupVars>>

(* A step that is in no group: the plan's role is popped and given out, or  *)
(* the line has to be accepted.                                             *)
Advance(c) ==
    /\ MaySubmitNow(c) /\ ~InGroup(c)
    /\ \/ left /\ HandOn(c, After)
       \/ /\ ~left
          /\ Completes(c) /\ active' = c
          /\ line' = "accepting"
          /\ UNCHANGED ordered
    /\ left' = FALSE
    /\ UNCHANGED <<reported, upset, setupVars>>

(* The trigger finds the step it looks at completed: a chain that is over   *)
(* has to be accepted, in whatever state the task is; a role that is left   *)
(* is given out while it executes.                                          *)
LookAtCompleted(c) ==
    /\ line # "created" /\ steps[c] = "completed"
    /\ \/ /\ ~left /\ line # "accepting"
          /\ line' = "accepting" /\ active' = c
          /\ UNCHANGED <<steps, ordered, used>>
       \/ left /\ line = "executing" /\ HandOn(c, After)
    /\ left' = FALSE
    /\ UNCHANGED <<reported, upset, setupVars>>

Trigger == \E c \in LookedAt : Await(c) \/ GroupDone(c) \/ Advance(c) \/ LookAtCompleted(c)

SkipStep(c) ==
    /\ line # "created"
    /\ steps' = [steps EXCEPT ![c] = "skipped"]
    /\ active' = c
    /\ upset' = upset \cup {"skip"}
    /\ UNCHANGED <<line, left, ordered, reported, used, setupVars>>

(* recover_continue, once the group was dispatched: in any state of the     *)
(* task, and whatever has become of the step.                               *)
ContinueTask(c) ==
    /\ line # "created"
    /\ steps' = [steps EXCEPT ![c] = "live"]
    /\ active' = c /\ line' = "executing"
    /\ used' = used \ {c}
    /\ ordered' \in {ordered, ordered \cup {c}}
    /\ upset' = upset \cup {"continue"}
    /\ UNCHANGED <<left, reported, setupVars>>

GroupNext ==
    \/ DispatchGroup
    \/ \E s \in Step : Report(s)
    \/ Trigger
    \/ \E c \in LookedAt : SkipStep(c) \/ ContinueTask(c)

GroupSpec == GroupInit /\ [][GroupNext]_groupVars

(* The scan comes back, and every agent that has an order writes a result.  *)
GroupFairSpec ==
    GroupSpec /\ WF_groupVars(Trigger) /\ WF_groupVars(\E s \in Step : Report(s))

-----------------------------------------------------------------------------
GroupTypeOK ==
    /\ steps \in [Step -> Over \cup {"absent", "live"}]
    /\ active \in Step /\ steps[active] # "absent"
    /\ line \in {"created", "executing", "blocked", "accepting"}
    /\ gate \in {"auto", "review"} /\ left \in BOOLEAN
    /\ first \in [Member -> Member]
    /\ ordered \in SUBSET Step /\ reported \in SUBSET Step /\ used \in SUBSET Step
    /\ upset \in SUBSET {"short", "skip", "continue"}

(* The join is given out when every member of the group is over, unless     *)
(* somebody continued the task.                                             *)
JoinIsLast ==
    steps[Join] # "absent" => "continue" \in upset \/ \A m \in Member : steps[m] \in Over

(* What the plan has after a group, and the acceptance of the line, come    *)
(* after its join, unless members were never made or steps were skipped.    *)
JoinComesFirst ==
    steps[After] # "absent" \/ line = "accepting" => steps[Join] = "completed" \/ upset # {}

(* Unless somebody continues the task, every member's result is read while  *)
(* the others work: a group of members with agents of their own comes to    *)
(* its end, or to a last result whose join cannot be given out.             *)
GroupIsRead ==
    line = "executing" /\ (\A m \in Member : first[m] = m) ~>
        "continue" \in upset \/ {m \in Member : steps[m] = "live"} \subseteq LookedAt \cap reported

(* A group whose join is to be reviewed comes to wait for its reviewer, as  *)
(* the test of the review and apply_approve_join have it.                   *)
ReviewerIsAsked ==
    line = "executing" /\ gate = "review" /\ upset = {} /\ (\A m \in Member : first[m] = m) ~>
        line = "blocked" \/ upset # {}
=============================================================================
