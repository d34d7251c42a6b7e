---------------------------- MODULE A2aDispatch -----------------------------
(***************************************************************************)
(* One step handed to a remote agent over A2A (core/a2a): the router sends *)
(* it, retries, polls the remote task, falls back to the file bus, or asks *)
(* a person what the remote agent wants to know.  Around it: the agent,    *)
(* whose replies may be lost, the person who answers the queue item, the   *)
(* scan that polls the remote tasks the task file still names, a cancel,   *)
(* and the caller, which writes the task back from memory when the router  *)
(* returns.                                                                *)
(***************************************************************************)
EXTENDS Naturals

CONSTANTS MaxRetries,  \* attempts, a2a.max_retries
          MaxPolls     \* polls of one remote task, a2a.max_polls

ASSUME A2aAssumption == MaxRetries \in Nat \ {0} /\ MaxPolls \in Nat \ {0}

Remote == 1..MaxRetries
Terminal == {"completed", "failed", "cancelled"}

VARIABLES remote,   \* the remote tasks, one for every SendMessage that arrived
          leg,      \* where the router is
          tries,    \* attempts that failed
          polled,   \* polls of the current remote task
          current,  \* the remote task of this attempt, 0 before there is one
          noted,    \* the a2a_task_id of the step in the task file
          result,   \* the step-result file
          order,    \* whether the step was sent to the agent's inbox
          item,     \* the a2a_input_required item: its state and remote task
          resume    \* the answer that is being passed on

a2aVars == <<remote, leg, tries, polled, current, noted, result, order, item, resume>>

Going == {"send", "poll", "note", "ask", "ask again", "bus", "return"}
NoItem == [state |-> "none", id |-> 0]
Concluded(id) == IF remote[id] = "completed" THEN "done" ELSE "fail"

A2aInit ==
    /\ remote = [i \in Remote |-> "none"]
    /\ leg = "idle"
    /\ tries = 0 /\ polled = 0 /\ current = 0 /\ noted = 0
    /\ result = "none" /\ order = "none" /\ item = NoItem /\ resume = 0

(* dispatch_step: can_deliver_a2a decides between the two channels.         *)
DispatchStep ==
    /\ leg = "idle" /\ leg' \in {"send", "bus"}
    /\ UNCHANGED <<remote, tries, polled, current, noted, result, order, item, resume>>

(* enqueue: a pending item of this task and type is used again.             *)
AskFor(id) == item' = IF item.state = "pending" THEN item ELSE [state |-> "pending", id |-> id]

(* Mutant: a failed attempt is not counted.                                 *)
MutantAttemptFails == tries' = tries /\ leg' \in {"send", "bus"}

(* Mutant: one attempt too many.                                            *)
MutantOneMore ==
    /\ tries' = tries + 1
    /\ leg' \in {"send", "bus"} /\ (leg' = "send" => tries < MaxRetries)

(* A transport error: retried, until the attempts are used up; not every    *)
(* error is worth a retry.                                                  *)
AttemptFails ==
    /\ tries' = tries + 1
    /\ leg' \in {"send", "bus"} /\ (leg' = "send" => tries' < MaxRetries)

(* SendMessage makes a new remote task, whether or not its reply arrives.   *)
SendMessage ==
    /\ leg = "send"
    /\ polled' = 0
    /\ \/ /\ remote' = [remote EXCEPT ![tries + 1] = "working"]
          /\ \/ current' = tries + 1 /\ leg' = "poll" /\ tries' = tries
             \/ current' = current /\ AttemptFails
       \/ UNCHANGED <<remote, current>> /\ AttemptFails
    /\ UNCHANGED <<noted, result, order, item, resume>>

(* persist_step_transport: a step the caller has only in memory yet is not  *)
(* found in the file.                                                       *)
Persist == noted' \in {noted, current}

(* Mutant: a remote task that failed sends the step to the file bus.        *)
MutantConclude ==
    /\ result' = Concluded(current)
    /\ leg' = IF Concluded(current) = "done" THEN "return" ELSE "bus"
    /\ Persist

(* from_a2a_task: whatever is not completed is a failure of the step.       *)
Conclude ==
    /\ result' = Concluded(current)
    /\ leg' = "return"
    /\ Persist

(* _poll_to_outcome.  A remote task that still works after the last poll is *)
(* concluded all the same; a poll fails whatever the remote task does.      *)
Poll ==
    /\ leg = "poll"
    /\ \/ remote[current] \in Terminal /\ Conclude /\ UNCHANGED <<tries, polled>>
       \/ remote[current] = "asks" /\ leg' = "note" /\ UNCHANGED <<tries, polled, result, noted>>
       \/ /\ remote[current] = "working"
          /\ polled' = polled + 1
          /\ \/ polled' = MaxPolls /\ Conclude /\ tries' = tries
             \/ polled' < MaxPolls /\ UNCHANGED <<leg, tries, result, noted>>
       \/ polled' = polled + 1 /\ polled' < MaxPolls /\ AttemptFails /\ UNCHANGED <<result, noted>>
    /\ UNCHANGED <<remote, current, order, item, resume>>

(* The remote agent needs input: its id goes into the task file ...         *)
PersistTransport ==
    /\ leg = "note" /\ leg' = "ask"
    /\ Persist
    /\ UNCHANGED <<remote, tries, polled, current, result, order, item, resume>>

(* Mutant: the router leaves the question to its caller, which drops it.    *)
MutantEnqueue ==
    /\ leg = "ask" /\ leg' = "return"
    /\ UNCHANGED <<remote, tries, polled, current, noted, result, order, item, resume>>

(* ... and the question into the queue, by the router and again by          *)
(* dispatch_pipeline_step.                                                  *)
Enqueue ==
    /\ \/ leg = "ask" /\ leg' = "ask again"
       \/ leg = "ask again" /\ leg' = "return"
    /\ AskFor(current)
    /\ UNCHANGED <<remote, tries, polled, current, noted, result, order, resume>>

FileBus ==
    /\ leg = "bus" /\ leg' = "return"
    /\ order' = "sent"
    /\ UNCHANGED <<remote, tries, polled, current, noted, result, item, resume>>

(* The caller writes the task it holds in memory: the id is gone.           *)
CallerWrites ==
    /\ leg = "return" /\ leg' = "over"
    /\ noted' = 0
    /\ UNCHANGED <<remote, tries, polled, current, result, order, item, resume>>

(* The dispatching process is killed.                                       *)
DispatcherDies ==
    /\ leg \in Going /\ leg' = "dead"
    /\ UNCHANGED <<remote, tries, polled, current, noted, result, order, item, resume>>

RemoteMoves(id) ==
    /\ remote[id] = "working"
    /\ \E s \in {"asks", "completed", "failed"} : remote' = [remote EXCEPT ![id] = s]
    /\ UNCHANGED <<leg, tries, polled, current, noted, result, order, item, resume>>

(* A person answers; a denial is told nobody, an approval is sent to the    *)
(* agent.                                                                   *)
AnswerItem(v) ==
    /\ item.state = "pending" /\ resume = 0
    /\ item' = [item EXCEPT !.state = v]
    /\ resume' = IF v = "approved" THEN item.id ELSE 0
    /\ UNCHANGED <<remote, leg, tries, polled, current, noted, result, order>>

(* resume_after_resolve: the remote task goes on, or the call fails and the *)
(* answer is lost; a task that ended has nothing to resume.                 *)
SendResolve ==
    /\ resume # 0 /\ remote[resume] = "asks"
    /\ \/ remote' = [remote EXCEPT ![resume] = "working"] /\ resume' = resume
       \/ resume' = 0 /\ remote' = remote
    /\ UNCHANGED <<leg, tries, polled, current, noted, result, order, item>>

(* It is polled to its outcome, given up when it asks again, when the polls *)
(* run out, or when a poll fails.                                           *)
ResumePolls ==
    /\ resume # 0
    /\ resume' = 0
    /\ \/ remote[resume] \in Terminal \cup {"working"} /\ result' = Concluded(resume)
       \/ result' = result
    /\ UNCHANGED <<remote, leg, tries, polled, current, noted, order, item>>

(* poll_pending_a2a_tasks: the step has no result and the file names its    *)
(* remote task.                                                             *)
PollPending ==
    /\ noted # 0 /\ result = "none"
    /\ IF remote[noted] = "asks" THEN AskFor(noted) /\ result' = result
       ELSE result' = Concluded(noted) /\ item' = item
    /\ UNCHANGED <<remote, leg, tries, polled, current, noted, order, resume>>

(* cancel_inflight_a2a_for_task finds the remote task in the file or not.   *)
CancelInflight ==
    /\ noted # 0 /\ remote[noted] \notin Terminal
    /\ remote' = [remote EXCEPT ![noted] = "cancelled"]
    /\ UNCHANGED <<leg, tries, polled, current, noted, result, order, item, resume>>

Dispatching ==
    \/ SendMessage \/ Poll \/ PersistTransport \/ Enqueue \/ FileBus \/ CallerWrites

A2aNext ==
    \/ DispatchStep \/ Dispatching \/ DispatcherDies
    \/ \E id \in Remote : RemoteMoves(id)
    \/ \E v \in {"approved", "denied"} : AnswerItem(v)
    \/ SendResolve \/ ResumePolls \/ PollPending \/ CancelInflight

A2aSpec == A2aInit /\ [][A2aNext]_a2aVars

(* The router's loop runs in one call; the remote agent, the person and the *)
(* scan owe nothing.                                                        *)
A2aFairSpec == A2aSpec /\ WF_a2aVars(Dispatching)

-----------------------------------------------------------------------------
A2aTypeOK ==
    /\ remote \in [Remote -> Terminal \cup {"none", "working", "asks"}]
    /\ leg \in Going \cup {"idle", "over", "dead"}
    /\ tries \in 0..MaxRetries /\ polled \in 0..MaxPolls
    /\ current \in 0..MaxRetries /\ noted \in 0..MaxRetries
    /\ result \in {"none", "done", "fail"} /\ order \in {"none", "sent"}
    /\ item \in [state : {"none", "pending", "approved", "denied"}, id : 0..MaxRetries]
    /\ resume \in 0..MaxRetries

(* One dispatch uses one channel: a step that fell back to the agent's      *)
(* inbox has neither a result from a remote task nor a question of one,     *)
(* whatever remote tasks its failed attempts left behind.                   *)
OneChannel == order = "sent" => result = "none" /\ item.state = "none" /\ noted = 0

(* A dispatch that returned left what moves the step on: a result, an order *)
(* in the inbox, or an open question, until a person answers that one.      *)
SomethingLeft ==
    leg = "over" => result # "none" \/ order = "sent" \/ item.state # "none"

(* However the attempts and the polls go, the dispatch returns.             *)
DispatchEnds == leg \in Going ~> leg \notin Going
=============================================================================
