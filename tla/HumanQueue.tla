----------------------------- MODULE HumanQueue -----------------------------
(***************************************************************************)
(* human-queue.json (adapters/orchestration/human_queue.py) and those who  *)
(* change it: the trigger that asks for a final acceptance, people who     *)
(* answer an item of the queue or decide about the task itself, the scan   *)
(* that blocks tasks nobody answered for, and people who cancel a task.    *)
(*                                                                         *)
(* enqueue and close_item read and write the file under its lock and are   *)
(* steps.  All else is read and written without one: a scan and a decision *)
(* write a copy of the task they read before, and a cancel writes back the *)
(* whole document it read.  A request that dies is one that stops for good.*)
(***************************************************************************)
EXTENDS Naturals, FiniteSets

CONSTANTS Job,      \* tasks whose line of steps is done
          Item,     \* the ids a queue item may get: a bound, they are random
          Reviewer, \* requests that decide about a task
          Scan,     \* scans, each with the task it has in hand
          Canceller,\* requests that cancel a task
          NoDoc     \* no document read

NoJob == "no job"
Verdict == {"approved", "denied"}
Free == [job |-> NoJob, item |-> 0, verdict |-> "denied", step |-> "free"]
Resting == [job |-> NoJob, copy |-> "executing", step |-> "free"]
NoCancel == [job |-> NoJob, doc |-> NoDoc, step |-> "free"]

ASSUME QueueAssumption ==
    Item \subseteq Nat \ {0} /\ NoDoc \notin [Item -> STRING] /\ NoJob \notin Job

VARIABLES hq,        \* the document: the status of every item
          about,     \* the task an id was given for
          fsm,       \* the state of each task
          scan,      \* what each scan is doing, and the task's state in its copy
          hand,      \* what each reviewer's request is doing
          canceller  \* what each cancel is doing, and the document it has read

(* An item is absent before it is added, closed once it is approved, denied *)
(* or cancelled.                                                            *)
Status == {"absent", "pending", "closed"}
TaskState == {"executing", "accepting", "blocked", "succeeded", "cancelled"}

queueVars == <<hq, about, fsm, scan, hand, canceller>>

Absent(i) == hq[i] = "absent"
Fresh == {i \in Item : about[i] = NoJob /\ \A k \in Item : k < i => about[k] # NoJob}
PendingOf(j) == {i \in Item : about[i] = j /\ hq[i] = "pending"}
Asked(j) == PendingOf(j) # {}

QueueInit ==
    /\ hq = [i \in Item |-> "absent"]
    /\ about = [i \in Item |-> NoJob]
    /\ fsm = [j \in Job |-> "executing"]
    /\ scan = [s \in Scan |-> Resting]
    /\ hand = [r \in Reviewer |-> Free]
    /\ canceller = [c \in Canceller |-> NoCancel]

(* Mutant: enqueue does not look for a pending item of the task.            *)
MutantAsk(j) ==
    \E i \in Fresh : /\ hq' = [hq EXCEPT ![i] = "pending"]
                     /\ about' = [about EXCEPT ![i] = j]

(* enqueue: a pending item of the same task and type is used again.  So it  *)
(* is for acceptances, as here; a push_budget item is always a new one.     *)
Ask(j) ==
    IF PendingOf(j) # {} THEN UNCHANGED <<hq, about>>
    ELSE \E i \in Fresh : /\ hq' = [hq EXCEPT ![i] = "pending"]
                          /\ about' = [about EXCEPT ![i] = j]

-----------------------------------------------------------------------------
(* A scan.  It reads the tasks (list_all) ...                               *)
ScanReads(s, j) ==
    /\ scan[s] = Resting
    /\ scan' = [scan EXCEPT ![s] = [job |-> j, copy |-> fsm[j], step |-> "read"]]
    /\ UNCHANGED <<hq, about, fsm, hand, canceller>>

(* ... comes to this one and writes it as it read it.  Its line is done, so *)
(* it is to be accepted; the trigger does not look whether it is blocked.   *)
ScanEnsures(s) ==
    /\ scan[s].step = "read"
    /\ fsm' = [fsm EXCEPT ![scan[s].job] = scan[s].copy]
    /\ scan' = [scan EXCEPT ![s] = IF scan[s].copy \in {"executing", "blocked"}
                                   THEN [@ EXCEPT !.step = "ask", !.copy = "accepting"] ELSE Resting]
    /\ UNCHANGED <<hq, about, hand, canceller>>

(* enter_accepting_or_succeed sets the copy accepting, asks for an item ... *)
ScanAsks(s) ==
    /\ scan[s].step = "ask"
    /\ Ask(scan[s].job)
    /\ scan' = [scan EXCEPT ![s].step = "write"]
    /\ UNCHANGED <<fsm, hand, canceller>>

(* ... and the copy is written last.                                        *)
ScanWrites(s) ==
    /\ scan[s].step = "write"
    /\ fsm' = [fsm EXCEPT ![scan[s].job] = scan[s].copy]
    /\ scan' = [scan EXCEPT ![s] = Resting]
    /\ UNCHANGED <<hq, about, hand, canceller>>

ScanDies(s) ==
    /\ scan[s] # Resting
    /\ scan' = [scan EXCEPT ![s] = Resting]
    /\ UNCHANGED <<hq, about, fsm, hand, canceller>>

-----------------------------------------------------------------------------
(* The request h comes to a step, with an item in hand or with none (0).    *)
GoesTo(h, step, i) == [h EXCEPT !.step = step, !.item = i]

(* A decision.  resolve_human_queue_item sees a pending item ...            *)
Look(r, i, v) ==
    /\ hand[r] = Free /\ hq[i] = "pending"
    /\ hand' = [hand EXCEPT ![r] = [job |-> about[i], item |-> i, verdict |-> v,
                                    step |-> "close"]]
    /\ UNCHANGED <<hq, about, fsm, scan, canceller>>

(* close_item: it is closed, whatever has become of it, if it is there.     *)
CloseItem(r) ==
    LET i == hand[r].item IN
    /\ hand[r].step \in {"close", "rest"}
    /\ hq' = IF Absent(i) THEN hq ELSE [hq EXCEPT ![i] = "closed"]
    /\ hand' = [hand EXCEPT ![r] =
                  IF hand[r].step = "rest" THEN GoesTo(@, "write", 0)
                  ELSE IF Absent(i) THEN Free
                  ELSE GoesTo(@, "read", 0)]
    /\ UNCHANGED <<about, fsm, scan, canceller>>

(* ... then apply_accept gets the task and refuses one that does not wait   *)
(* for it, or a denial without a reason.                                    *)
ReadTask(r) ==
    /\ hand[r].step = "read"
    /\ \/ /\ fsm[hand[r].job] = "accepting"
          /\ hand' = [hand EXCEPT ![r] = GoesTo(@, "find", 0)]
       \/ /\ fsm[hand[r].job] # "accepting" \/ hand[r].verdict = "denied"
          /\ hand' = [hand EXCEPT ![r] = Free]
    /\ UNCHANGED <<hq, about, fsm, scan, canceller>>

(* The decision may also be made on the task's page.                        *)
JudgeTask(r, j, v) ==
    /\ hand[r] = Free /\ fsm[j] = "accepting"
    /\ hand' = [hand EXCEPT ![r] = [job |-> j, item |-> 0, verdict |-> v, step |-> "find"]]
    /\ UNCHANGED <<hq, about, fsm, scan, canceller>>

(* Mutant: close_by_task does not compare the task's id.                    *)
MutantFindRest(r) ==
    /\ hand[r].step = "find"
    /\ \E i \in {k \in Item : hq[k] = "pending"} :
          hand' = [hand EXCEPT ![r] = GoesTo(@, "rest", i)]
    /\ UNCHANGED <<hq, about, fsm, scan, canceller>>

(* close_by_task looks what is still pending for the task ...               *)
FindRest(r) ==
    /\ hand[r].step = "find"
    /\ \/ /\ ~Asked(hand[r].job)
          /\ hand' = [hand EXCEPT ![r] = GoesTo(@, "write", 0)]
       \/ \E i \in PendingOf(hand[r].job) :
             hand' = [hand EXCEPT ![r] = GoesTo(@, "rest", i)]
    /\ UNCHANGED <<hq, about, fsm, scan, canceller>>

(* ... and the task is written: accepted, sent back for a redo or blocked,  *)
(* or not at all when there is no step to send it back to.                  *)
WriteTask(r) ==
    LET j == hand[r].job IN
    /\ hand[r].step = "write"
    /\ \/ /\ hand[r].verdict = "approved"
          /\ fsm' = [fsm EXCEPT ![j] = "succeeded"]
       \/ /\ hand[r].verdict = "denied"
          /\ \E to \in {"executing", "blocked", fsm[j]} : fsm' = [fsm EXCEPT ![j] = to]
    /\ hand' = [hand EXCEPT ![r] = Free]
    /\ UNCHANGED <<hq, about, scan, canceller>>

-----------------------------------------------------------------------------
(* A cancel.  apply_cancel reads the document ...                           *)
CancelReads(c, j) ==
    /\ canceller[c] = NoCancel
    /\ canceller' = [canceller EXCEPT ![c] =
                        IF Asked(j) THEN [job |-> j, doc |-> hq, step |-> "save"]
                        ELSE [job |-> j, doc |-> NoDoc, step |-> "write"]]
    /\ UNCHANGED <<hq, about, fsm, scan, hand>>

(* ... saves it with the items of the task closed, if it has any, ...       *)
CancelSaves(c) ==
    LET j == canceller[c].job
        doc == canceller[c].doc
    IN  /\ canceller[c].step = "save"
        /\ hq' = [i \in Item |-> IF about[i] = j /\ doc[i] = "pending" THEN "closed"
                                ELSE doc[i]]
        /\ canceller' = [canceller EXCEPT ![c] = [job |-> j, doc |-> NoDoc, step |-> "write"]]
        /\ UNCHANGED <<about, fsm, scan, hand>>

(* ... and apply_cancel_task writes the task.                               *)
CancelWrites(c) ==
    /\ canceller[c].step = "write"
    /\ fsm' = [fsm EXCEPT ![canceller[c].job] = "cancelled"]
    /\ canceller' = [canceller EXCEPT ![c] = NoCancel]
    /\ UNCHANGED <<hq, about, scan, hand>>

(* check_input_required_timeouts blocks the task of a pending item that got *)
(* old, whatever the task's state, and leaves the item.                     *)
BlockUnanswered(i) ==
    /\ hq[i] = "pending"
    /\ fsm' = [fsm EXCEPT ![about[i]] = "blocked"]
    /\ UNCHANGED <<hq, about, scan, hand, canceller>>

QueueNext ==
    \/ \E s \in Scan : \/ \E j \in Job : ScanReads(s, j)
                      \/ ScanEnsures(s) \/ ScanAsks(s) \/ ScanWrites(s) \/ ScanDies(s)
    \/ \E r \in Reviewer : \/ \E i \in Item, v \in Verdict : Look(r, i, v)
                          \/ \E j \in Job, v \in Verdict : JudgeTask(r, j, v)
                          \/ CloseItem(r) \/ ReadTask(r) \/ FindRest(r) \/ WriteTask(r)
    \/ \E c \in Canceller : \/ \E j \in Job : CancelReads(c, j)
                           \/ CancelSaves(c) \/ CancelWrites(c)
    \/ \E i \in Item : BlockUnanswered(i)

QueueSpec == QueueInit /\ [][QueueNext]_queueVars

-----------------------------------------------------------------------------
QueueTypeOK ==
    /\ hq \in [Item -> Status]
    /\ about \in [Item -> Job \cup {NoJob}]
    /\ fsm \in [Job -> TaskState]
    /\ scan \in [Scan -> [job : Job \cup {NoJob}, copy : TaskState,
                          step : {"free", "read", "ask", "write"}]]
    /\ hand \in [Reviewer -> [job : Job \cup {NoJob}, item : Item \cup {0}, verdict : Verdict,
                              step : {"free", "close", "read", "find", "rest", "write"}]]
    /\ canceller \in [Canceller -> [job : Job \cup {NoJob}, doc : [Item -> Status] \cup {NoDoc},
                                   step : {"free", "save", "write"}]]

(* However answers, timeouts, repeated scans and stale writes of cancels    *)
(* follow each other (enqueue, close_item, _close_pending_hq_on_cancel), a  *)
(* person is never asked twice at once for the final acceptance of a task.  *)
AskedOnce == \A j \in Job : Cardinality(PendingOf(j)) <= 1

CancelSaving ==
    \E c \in Canceller : canceller[c].step = "save" /\ canceller'[c].step = "write"

(* A request with a decision about j closes i.                              *)
Answers(i, j) ==
    \E r \in Reviewer : /\ hand[r].step \in {"close", "rest"} /\ hand'[r] # hand[r]
                        /\ hand[r].item = i /\ hand[r].job = j

(* A task is over: nothing of it is open, and nobody works on a copy of it  *)
(* that he read before.                                                     *)
Ended(j) == fsm[j] \in {"succeeded", "cancelled"}
InHand(j) ==
    \/ \E s \in Scan : scan[s].job = j /\ scan[s].copy \notin {"succeeded", "cancelled"}
    \/ \E r \in Reviewer : hand[r].job = j /\ hand[r].step \in {"find", "rest", "write"}
Settled(j) == Ended(j) /\ ~Asked(j) /\ ~InHand(j)

(* Only the save of a cancel loses what others wrote to the queue: apart    *)
(* from it no item disappears or is open again after it was decided, an     *)
(* open one is closed only by a decision about its task, and a task that is *)
(* over stays so and gets no open one.  While a scan still works on an older*)
(* copy of it, a task that is cancelled does get one.                       *)
QueueKept ==
    [][~CancelSaving =>
         /\ \A i \in Item : /\ ~Absent(i) => hq'[i] # "absent"
                            /\ hq[i] = "closed" => hq'[i] # "pending"
                            /\ hq[i] = "pending" /\ hq'[i] # "pending" => Answers(i, about[i])
         /\ \A j \in Job : Settled(j) => Settled(j)']_queueVars
=============================================================================
