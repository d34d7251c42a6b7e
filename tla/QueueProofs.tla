----------------------------- MODULE QueueProofs ------------------------------
(*****************************************************************************)
(* Proofs about HumanQueue, for any number of tasks, items and requests,     *)
(* about A2aDispatch, for any number of attempts and polls, about CollabJoin,*)
(* for a group of any width: the join is given out last among the group, and *)
(* first before what the plan has after it, and about TaskLifecycle, for any *)
(* role types and any plan.                                                  *)
(*****************************************************************************)
EXTENDS HumanQueue, A2aDispatch, CollabJoin, TaskLifecycle, FiniteSetTheorems,
        SequenceTheorems, TLAPS

(* No two items of one task are pending in a document.                      *)
OnePending(doc) ==
    \A i, k \in Item :
       doc[i] = "pending" /\ doc[k] = "pending" /\ about[i] = about[k] => i = k

(* An id nobody was given is in no document.                                *)
NewIsAbsent(doc) == \A i \in Item : about[i] = NoJob => doc[i] = "absent"

(* Nor is it in the document a cancel has read and will write back: the     *)
(* items asked since then are lost, and none of those it brings back is a   *)
(* second one.                                                              *)
DocsKept ==
    \A c \in Canceller :
       canceller[c].step = "save" => /\ canceller[c].doc \in [Item -> Status]
                                     /\ OnePending(canceller[c].doc)
                                     /\ NewIsAbsent(canceller[c].doc)

(* Who works has a task, a scan that asks has accepted its copy, and an     *)
(* item is closed by a request about its task.                              *)
ScansKnow ==
    \A s \in Scan : /\ scan[s].step # "free" => scan[s].job \in Job
                    /\ scan[s].step \in {"ask", "write"} => scan[s].copy = "accepting"

HandsKnow ==
    \A r \in Reviewer :
       /\ hand[r].step # "free" => hand[r].job \in Job
       /\ hand[r].step \in {"close", "rest"} => /\ hand[r].item \in Item
                                                      /\ about[hand[r].item] = hand[r].job

Hand ==
    [job : Job \cup {NoJob}, item : Item \cup {0}, verdict : Verdict,
     step : {"free", "close", "read", "find", "rest", "write"}]

CancelsKnow ==
    \A c \in Canceller : canceller[c].step # "free" => canceller[c].job \in Job

QInv ==
    /\ QueueTypeOK /\ OnePending(hq) /\ NewIsAbsent(hq) /\ DocsKept
    /\ ScansKnow /\ HandsKnow /\ CancelsKnow

-----------------------------------------------------------------------------
LEMMA QueueInitInv == QueueInit => QInv
  BY DEF QueueInit, QInv, QueueTypeOK, OnePending, NewIsAbsent, DocsKept, ScansKnow, HandsKnow,
         CancelsKnow, Status, TaskState, Verdict, Free, Resting, NoCancel

(* A new item is asked for only where none is pending, under a new id.      *)
LEMMA AskKeeps ==
    ASSUME QInv, NEW j \in Job, Ask(j), UNCHANGED <<canceller, hand>>
    PROVE  /\ hq' \in [Item -> Status] /\ about' \in [Item -> Job \cup {NoJob}]
           /\ OnePending(hq)' /\ NewIsAbsent(hq)' /\ DocsKept' /\ HandsKnow'
  <1>1. CASE UNCHANGED <<hq, about>>
    BY <1>1 DEF QInv, QueueTypeOK, OnePending, NewIsAbsent, DocsKept, HandsKnow
  <1>2. ASSUME PendingOf(j) = {}, NEW i \in Fresh,
               hq' = [hq EXCEPT ![i] = "pending"], about' = [about EXCEPT ![i] = j]
        PROVE  /\ hq' \in [Item -> Status] /\ about' \in [Item -> Job \cup {NoJob}]
               /\ OnePending(hq)' /\ NewIsAbsent(hq)' /\ DocsKept' /\ HandsKnow'
    <2>1. i \in Item /\ about[i] = NoJob /\ hq[i] = "absent"
      BY DEF Fresh, QInv, NewIsAbsent
    <2>2. hq' \in [Item -> Status] /\ about' \in [Item -> Job \cup {NoJob}]
      BY <1>2, <2>1 DEF QInv, QueueTypeOK, Status
    <2>3. /\ hq'[i] = "pending" /\ about'[i] = j /\ j # NoJob
          /\ \A k \in Item \ {i} : hq'[k] = hq[k] /\ about'[k] = about[k]
      BY <1>2, <2>1, QueueAssumption DEF QInv, QueueTypeOK
    <2>4. OnePending(hq)'
      BY <1>2, <2>3 DEF QInv, OnePending, PendingOf
    <2>5. NewIsAbsent(hq)'
      BY <2>3 DEF QInv, NewIsAbsent
    <2>6. DocsKept'
      <3> SUFFICES ASSUME NEW c \in Canceller, canceller[c].step = "save"
                   PROVE  (/\ canceller[c].doc \in [Item -> Status]
                           /\ OnePending(canceller[c].doc) /\ NewIsAbsent(canceller[c].doc))'
        BY DEF DocsKept
      <3>1. /\ canceller[c].doc \in [Item -> Status]
            /\ OnePending(canceller[c].doc) /\ NewIsAbsent(canceller[c].doc)
            /\ canceller[c].doc[i] = "absent"
        BY <2>1 DEF QInv, DocsKept, NewIsAbsent
      <3> QED
        BY <2>3, <3>1 DEF OnePending, NewIsAbsent
    <2>7. HandsKnow'
      BY <2>1, <2>3, QueueAssumption DEF QInv, HandsKnow
    <2> QED
      BY <2>2, <2>4, <2>5, <2>6, <2>7
  <1> QED
    BY <1>1, <1>2 DEF Ask

(* A step that only closes items, or leaves them, keeps every document.     *)
LEMMA ClosingKeeps ==
    ASSUME QInv, about' = about, canceller' = canceller, hq' \in [Item -> Status],
           \A i \in Item : hq'[i] = hq[i] \/ (hq[i] # "absent" /\ hq'[i] # "pending")
    PROVE  OnePending(hq)' /\ NewIsAbsent(hq)' /\ DocsKept'
  BY DEF QInv, OnePending, NewIsAbsent, DocsKept

LEMMA LeavingKeeps ==
    ASSUME QInv, UNCHANGED <<hq, about, canceller>>
    PROVE  OnePending(hq)' /\ NewIsAbsent(hq)' /\ DocsKept' /\ CancelsKnow'
  BY DEF QInv, OnePending, NewIsAbsent, DocsKept, CancelsKnow

(* The document a cancel saves is older, and was as good.                   *)
LEMMA CancelKeeps ==
    ASSUME QInv, NEW c \in Canceller, CancelSaves(c)
    PROVE  QInv'
  <1> DEFINE doc == canceller[c].doc
             j == canceller[c].job
  <1>1. OnePending(doc) /\ NewIsAbsent(doc) /\ doc \in [Item -> Status] /\ j \in Job
    BY DEF CancelSaves, QInv, DocsKept, CancelsKnow
  <1>2. /\ hq' = [i \in Item |-> IF about[i] = j /\ doc[i] = "pending" THEN "closed" ELSE doc[i]]
        /\ canceller' = [canceller EXCEPT ![c] = [job |-> j, doc |-> NoDoc, step |-> "write"]]
        /\ UNCHANGED <<about, fsm, scan, hand>>
    BY DEF CancelSaves
  <1> HIDE DEF doc, j
  <1>3. hq' \in [Item -> Status]
    BY <1>1, <1>2 DEF Status
  <1>4. OnePending(hq)' /\ NewIsAbsent(hq)'
    BY <1>1, <1>2, QueueAssumption DEF OnePending, NewIsAbsent
  <1>5. DocsKept' /\ CancelsKnow'
    BY <1>1, <1>2 DEF QInv, DocsKept, CancelsKnow, QueueTypeOK, OnePending, NewIsAbsent
  <1>6. QueueTypeOK'
    BY <1>1, <1>2, <1>3 DEF QInv, QueueTypeOK
  <1> QED
    BY <1>2, <1>4, <1>5, <1>6 DEF QInv, ScansKnow, HandsKnow

(* Every step of a scan.                                                    *)
LEMMA ScanKeeps ==
    ASSUME QInv, NEW s \in Scan,
           \/ \E j \in Job : ScanReads(s, j)
           \/ ScanEnsures(s) \/ ScanAsks(s) \/ ScanWrites(s) \/ ScanDies(s)
    PROVE  QInv'
  <1>1. ASSUME NEW j \in Job, ScanReads(s, j) PROVE QInv'
    <2>1. fsm[j] \in TaskState
      BY DEF QInv, QueueTypeOK
    <2>2. QueueTypeOK' /\ ScansKnow'
      BY <1>1, <2>1 DEF ScanReads, QInv, QueueTypeOK, ScansKnow
    <2> QED
      BY <1>1, <2>2, LeavingKeeps DEF ScanReads, QInv, HandsKnow
  <1>2. CASE ScanEnsures(s)
    <2> DEFINE c == scan[s].copy
               x == IF c \in {"executing", "blocked"}
                    THEN [scan[s] EXCEPT !.step = "ask", !.copy = "accepting"] ELSE Resting
    <2>1. scan[s].job \in Job /\ c \in TaskState
      BY <1>2 DEF ScanEnsures, QInv, QueueTypeOK, ScansKnow
    <2>2. /\ x = Resting \/ (x.job \in Job /\ x.copy = "accepting")
          /\ x \in [job : Job \cup {NoJob}, copy : TaskState,
                    step : {"free", "read", "ask", "write"}]
      BY <2>1 DEF QInv, QueueTypeOK, Resting, TaskState
    <2>3. scan' = [scan EXCEPT ![s] = x] /\ fsm' = [fsm EXCEPT ![scan[s].job] = c]
      BY <1>2 DEF ScanEnsures
    <2> HIDE DEF x, c
    <2>4. QueueTypeOK'
      BY <1>2, <2>1, <2>2, <2>3 DEF ScanEnsures, QInv, QueueTypeOK
    <2>5. ScansKnow'
      BY <2>2, <2>3 DEF QInv, QueueTypeOK, ScansKnow, Resting
    <2> QED
      BY <1>2, <2>4, <2>5, LeavingKeeps DEF ScanEnsures, QInv, HandsKnow
  <1>3. CASE ScanAsks(s)
    <2>1. /\ hq' \in [Item -> Status] /\ about' \in [Item -> Job \cup {NoJob}]
          /\ OnePending(hq)' /\ NewIsAbsent(hq)' /\ DocsKept' /\ HandsKnow'
      BY <1>3, AskKeeps DEF ScanAsks, QInv, ScansKnow
    <2> QED
      BY <1>3, <2>1 DEF ScanAsks, QInv, QueueTypeOK, ScansKnow, CancelsKnow
  <1>4. CASE ScanWrites(s)
    BY <1>4, LeavingKeeps
       DEF ScanWrites, QInv, QueueTypeOK, ScansKnow, HandsKnow, Resting, TaskState
  <1>5. CASE ScanDies(s)
    BY <1>5, LeavingKeeps
       DEF ScanDies, QInv, QueueTypeOK, ScansKnow, HandsKnow, Resting, TaskState
  <1> QED
    BY <1>1, <1>2, <1>3, <1>4, <1>5

(* A request that goes on with the same task.                               *)
LEMMA RequestGoesOn ==
    ASSUME NEW h \in Hand, NEW st \in {"read", "find", "rest", "write"}, NEW i \in Item \cup {0}
    PROVE  /\ GoesTo(h, st, i) \in Hand
           /\ GoesTo(h, st, i).job = h.job
           /\ GoesTo(h, st, i).step = st
           /\ GoesTo(h, st, i).item = i
  BY DEF GoesTo, Hand

LEMMA RequestKeeps ==
    ASSUME QInv, NEW r \in Reviewer, UNCHANGED <<about, scan, canceller>>,
           OnePending(hq)', NewIsAbsent(hq)', DocsKept',
           hq' \in [Item -> Status], fsm' \in [Job -> TaskState],
           NEW x \in Hand, hand' = [hand EXCEPT ![r] = x],
           x.step # "free" => x.job \in Job,
           x.step \in {"close", "rest"} => x.item \in Item /\ about[x.item] = x.job
    PROVE  QInv'
  <1>1. hand' \in [Reviewer -> Hand] /\ HandsKnow'
    BY DEF QInv, QueueTypeOK, HandsKnow, Hand
  <1> QED
    BY <1>1 DEF QInv, QueueTypeOK, ScansKnow, CancelsKnow, Hand

(* Every step of a decision.                                                *)
LEMMA DecisionKeeps ==
    ASSUME QInv, NEW r \in Reviewer,
           \/ \E i \in Item, v \in Verdict : Look(r, i, v)
           \/ \E j \in Job, v \in Verdict : JudgeTask(r, j, v)
           \/ CloseItem(r) \/ ReadTask(r) \/ FindRest(r) \/ WriteTask(r)
    PROVE  QInv'
  <1>1. /\ hand[r] \in Hand /\ Free \in Hand /\ Free.step = "free"
        /\ hq \in [Item -> Status] /\ fsm \in [Job -> TaskState]
    BY DEF QInv, QueueTypeOK, Hand, Free, Verdict
  <1>2. ASSUME UNCHANGED <<about, scan, canceller>>,
               OnePending(hq)', NewIsAbsent(hq)', DocsKept',
               hq' \in [Item -> Status], fsm' \in [Job -> TaskState]
        PROVE  /\ hand' = [hand EXCEPT ![r] = Free] => QInv'
               /\ \A st \in {"read", "find", "write"} :
                     hand[r].job \in Job /\ hand' = [hand EXCEPT ![r] = GoesTo(hand[r], st, 0)] => QInv'
    <2>1. hand' = [hand EXCEPT ![r] = Free] => QInv'
      BY <1>2, <1>1, RequestKeeps
    <2>2. ASSUME NEW st \in {"read", "find", "write"}, hand[r].job \in Job,
                 hand' = [hand EXCEPT ![r] = GoesTo(hand[r], st, 0)]
          PROVE  QInv'
      <3> DEFINE x == GoesTo(hand[r], st, 0)
      <3>1. x \in Hand /\ x.job = hand[r].job /\ x.step = st
        BY <1>1, RequestGoesOn
      <3>2. hand' = [hand EXCEPT ![r] = x]
        BY <2>2
      <3> HIDE DEF x
      <3> QED
        BY <1>2, <2>2, <3>1, <3>2, RequestKeeps
    <2> QED
      BY <2>1, <2>2
  <1>3. ASSUME NEW i \in Item, NEW v \in Verdict, Look(r, i, v) PROVE QInv'
    <2> DEFINE x == [job |-> about[i], item |-> i, verdict |-> v, step |-> "close"]
    <2>1. about[i] \in Job
      BY <1>3 DEF Look, QInv, QueueTypeOK, NewIsAbsent
    <2>2. x \in Hand /\ x.job = about[i] /\ x.item = i
      BY <2>1 DEF Hand
    <2>3. hand' = [hand EXCEPT ![r] = x]
      BY <1>3 DEF Look
    <2> HIDE DEF x
    <2> QED
      BY <1>1, <1>3, <2>1, <2>2, <2>3, LeavingKeeps, RequestKeeps DEF Look
  <1>4. ASSUME NEW j \in Job, NEW v \in Verdict, JudgeTask(r, j, v) PROVE QInv'
    <2> DEFINE x == [job |-> j, item |-> 0, verdict |-> v, step |-> "find"]
    <2>1. x \in Hand /\ x.job = j /\ x.step = "find"
      BY DEF Hand
    <2>2. hand' = [hand EXCEPT ![r] = x]
      BY <1>4 DEF JudgeTask
    <2> HIDE DEF x
    <2> QED
      BY <1>1, <1>4, <2>1, <2>2, LeavingKeeps, RequestKeeps DEF JudgeTask
  <1>5. CASE CloseItem(r)
    <2>1. /\ hand[r].item \in Item /\ hand[r].job \in Job
          /\ UNCHANGED <<about, fsm, scan, canceller>>
      BY <1>5 DEF CloseItem, QInv, HandsKnow
    <2>2. /\ hq' \in [Item -> Status]
          /\ \A i \in Item : hq'[i] = hq[i] \/ (hq[i] # "absent" /\ hq'[i] # "pending")
      BY <1>1, <1>5, <2>1 DEF CloseItem, Absent, Status
    <2>3. OnePending(hq)' /\ NewIsAbsent(hq)' /\ DocsKept'
      BY <2>1, <2>2, ClosingKeeps
    <2>4. \/ hand' = [hand EXCEPT ![r] = Free]
          \/ \E st \in {"read", "write"} : hand' = [hand EXCEPT ![r] = GoesTo(hand[r], st, 0)]
      BY <1>5 DEF CloseItem
    <2> QED
      BY <1>2, <1>1, <2>1, <2>2, <2>3, <2>4
  <1>6. CASE ReadTask(r)
    <2>1. hand[r].job \in Job /\ UNCHANGED <<hq, about, fsm, scan, canceller>>
      BY <1>6 DEF ReadTask, QInv, HandsKnow
    <2>2. hand' = [hand EXCEPT ![r] = Free] \/ hand' = [hand EXCEPT ![r] = GoesTo(hand[r], "find", 0)]
      BY <1>6 DEF ReadTask
    <2> QED
      BY <1>2, <1>1, <2>1, <2>2, LeavingKeeps
  <1>7. CASE FindRest(r)
    <2>1. hand[r].job \in Job /\ UNCHANGED <<hq, about, fsm, scan, canceller>>
      BY <1>7 DEF FindRest, QInv, HandsKnow
    <2>2. CASE hand' = [hand EXCEPT ![r] = GoesTo(hand[r], "write", 0)]
      BY <1>2, <1>1, <2>1, <2>2, LeavingKeeps
    <2>3. ASSUME NEW i \in Item, about[i] = hand[r].job,
                 hand' = [hand EXCEPT ![r] = GoesTo(hand[r], "rest", i)]
          PROVE  QInv'
      <3> DEFINE x == GoesTo(hand[r], "rest", i)
      <3>1. x \in Hand /\ x.job = hand[r].job /\ x.item = i
        <4>1. \A h \in Hand : GoesTo(h, "rest", i) \in Hand /\ GoesTo(h, "rest", i).job = h.job
                              /\ GoesTo(h, "rest", i).item = i
          BY DEF GoesTo, Hand
        <4> QED
          BY <1>1, <4>1
      <3>2. hand' = [hand EXCEPT ![r] = x]
        BY <2>3
      <3> HIDE DEF x
      <3> QED
        BY <1>1, <2>1, <2>3, <3>1, <3>2, LeavingKeeps, RequestKeeps
    <2> QED
      BY <1>7, <2>2, <2>3 DEF FindRest, PendingOf
  <1>8. CASE WriteTask(r)
    <2>1. hand[r].job \in Job /\ UNCHANGED <<hq, about, scan, canceller>>
      BY <1>8 DEF WriteTask, QInv, HandsKnow
    <2>2. fsm' \in [Job -> TaskState] /\ hand' = [hand EXCEPT ![r] = Free]
      BY <1>1, <1>8, <2>1 DEF WriteTask, TaskState
    <2> QED
      BY <1>1, <2>1, <2>2, LeavingKeeps, RequestKeeps
  <1> QED
    BY <1>3, <1>4, <1>5, <1>6, <1>7, <1>8

LEMMA QueueNextInv == QInv /\ [QueueNext]_queueVars => QInv'
  <1> SUFFICES ASSUME QInv, [QueueNext]_queueVars PROVE QInv'
    OBVIOUS
  <1>1. ASSUME NEW c \in Canceller, NEW j \in Job, CancelReads(c, j) PROVE QInv'
    <2>1. /\ OnePending(hq)' /\ NewIsAbsent(hq)' /\ ScansKnow' /\ HandsKnow' /\ CancelsKnow'
          /\ hq \in [Item -> Status]
      BY <1>1 DEF CancelReads, QInv, QueueTypeOK, OnePending, NewIsAbsent, ScansKnow, HandsKnow,
                  CancelsKnow
    <2>2. DocsKept'
      BY <1>1, <2>1 DEF CancelReads, QInv, QueueTypeOK, DocsKept, OnePending, NewIsAbsent
    <2>3. QueueTypeOK'
      BY <1>1 DEF CancelReads, QInv, QueueTypeOK
    <2> QED
      BY <2>1, <2>2, <2>3 DEF QInv
  <1>2. ASSUME NEW c \in Canceller, CancelSaves(c) PROVE QInv'
    BY <1>2, CancelKeeps
  <1>3. ASSUME NEW c \in Canceller, CancelWrites(c) PROVE QInv'
    <2>1. /\ OnePending(hq)' /\ NewIsAbsent(hq)' /\ ScansKnow' /\ HandsKnow' /\ CancelsKnow'
          /\ canceller[c].job \in Job
      BY <1>3 DEF CancelWrites, QInv, QueueTypeOK, OnePending, NewIsAbsent, ScansKnow, HandsKnow,
                  CancelsKnow, NoCancel
    <2>2. DocsKept'
      BY <1>3 DEF CancelWrites, QInv, QueueTypeOK, DocsKept, OnePending, NewIsAbsent, NoCancel
    <2>3. QueueTypeOK'
      BY <1>3, <2>1 DEF CancelWrites, QInv, QueueTypeOK, NoCancel, TaskState
    <2> QED
      BY <2>1, <2>2, <2>3 DEF QInv
  <1>4. ASSUME NEW i \in Item, BlockUnanswered(i) PROVE QInv'
    <2>1. fsm' \in [Job -> TaskState]
      BY <1>4 DEF BlockUnanswered, QInv, QueueTypeOK, TaskState
    <2> QED
      BY <1>4, <2>1, LeavingKeeps DEF BlockUnanswered, QInv, QueueTypeOK, ScansKnow, HandsKnow
  <1>5. CASE UNCHANGED queueVars
    BY <1>5, LeavingKeeps DEF queueVars, QInv, QueueTypeOK, ScansKnow, HandsKnow
  <1> QED
    BY <1>1, <1>2, <1>3, <1>4, <1>5, ScanKeeps, DecisionKeeps DEF QueueNext

LEMMA QueueInvariance == QueueSpec => []QInv
  BY QueueInitInv, QueueNextInv, PTL DEF QueueSpec

(* The queue, the tasks and those who change them keep their shapes.        *)
THEOREM QueueTypeCorrect == QueueSpec => []QueueTypeOK
  <1>1. QInv => QueueTypeOK
    BY DEF QInv
  <1> QED
    BY <1>1, QueueInvariance, PTL

(* A person is never asked twice at once for the acceptance of a task,      *)
(* although cancels write back documents that are arbitrarily old.          *)
THEOREM PersonIsAskedOnce == QueueSpec => []AskedOnce
  <1>1. ASSUME QInv PROVE AskedOnce
    <2> SUFFICES ASSUME NEW j \in Job PROVE Cardinality(PendingOf(j)) <= 1
      BY DEF AskedOnce
    <2>1. \A i, k \in PendingOf(j) : i = k
      BY <1>1 DEF QInv, OnePending, PendingOf
    <2>2. CASE PendingOf(j) = {}
      BY <2>2, FS_EmptySet
    <2>3. ASSUME NEW i \in PendingOf(j) PROVE Cardinality(PendingOf(j)) <= 1
      <3>1. PendingOf(j) = {i}
        BY <2>1, <2>3
      <3>2. Cardinality({i}) = 1
        BY FS_Singleton, Zenon
      <3> QED
        BY <3>1, <3>2
    <2> QED
      BY <2>2, <2>3
  <1> QED
    BY <1>1, QueueInvariance, PTL

-----------------------------------------------------------------------------
(* What a step that is no save of a cancel keeps of the queue.              *)
ItemsKept ==
    \A i \in Item : /\ ~Absent(i) => hq'[i] # "absent"
                    /\ hq[i] = "closed" => hq'[i] # "pending"
                    /\ hq[i] = "pending" /\ hq'[i] # "pending" => Answers(i, about[i])

SettledKept == \A j \in Job : Settled(j) => Settled(j)'

KeptQueue ==
    /\ \A i \in Item : /\ ~Absent(i) => hq'[i] # "absent"
                       /\ hq[i] = "closed" => hq'[i] # "pending"
                       /\ hq[i] = "pending" /\ hq'[i] # "pending" => Answers(i, about[i])
    /\ \A j \in Job : Settled(j) => Settled(j)'

LEMMA UnchangedItems ==
    ASSUME UNCHANGED hq
    PROVE  ItemsKept
  BY DEF ItemsKept, Absent

(* A task that is over and not asked about stays so, where the step puts no *)
(* other state on it, opens no item of it and gives no copy of it to anyone.*)
LEMMA StaysSettled ==
    ASSUME NEW j \in Job, Settled(j), Ended(j)', PendingOf(j)' \subseteq PendingOf(j),
           \A s \in Scan : \/ scan'[s].job = scan[s].job /\ scan'[s].copy = scan[s].copy
                           \/ scan'[s].job = j => scan'[s].copy \in {"succeeded", "cancelled"},
           \A r \in Reviewer : \/ hand'[r] = hand[r]
                               \/ hand'[r].job # j
                               \/ hand'[r].step \in {"free", "close", "read"}
    PROVE  Settled(j)'
  BY DEF Settled, Asked, InHand

(* A scan opens an item, but of a task it accepts, which is not settled.    *)
LEMMA ScanKeepsQueue ==
    ASSUME QInv, NEW s \in Scan,
           \/ \E j \in Job : ScanReads(s, j)
           \/ ScanEnsures(s) \/ ScanAsks(s) \/ ScanWrites(s) \/ ScanDies(s)
    PROVE  ItemsKept /\ SettledKept
  <1> DEFINE m == scan[s].job
  <1>1. /\ hand' = hand
        /\ \A t \in Scan \ {s} : scan'[t] = scan[t]
        /\ \A j \in Job : m = j /\ Settled(j) => scan[s].copy \in {"succeeded", "cancelled"}
    BY DEF QInv, QueueTypeOK, ScanReads, ScanEnsures, ScanAsks, ScanWrites, ScanDies, Settled,
           InHand
  <1>2. ASSUME UNCHANGED <<hq, about>> PROVE \A j \in Job : PendingOf(j)' = PendingOf(j)
    BY <1>2 DEF PendingOf
  <1>3. ASSUME NEW l \in Job, ScanReads(s, l) PROVE ItemsKept /\ SettledKept
    <2>1. scan'[s] = [job |-> l, copy |-> fsm[l], step |-> "read"]
      BY <1>3 DEF ScanReads, QInv, QueueTypeOK
    <2>2. ASSUME NEW j \in Job, Settled(j) PROVE Settled(j)'
      <3>1. Ended(j) /\ Ended(j)'
        BY <1>3, <2>2 DEF Settled, Ended, ScanReads
      <3>2. PendingOf(j)' = PendingOf(j)
        BY <1>2, <1>3 DEF ScanReads
      <3>3. scan'[s].job = j => scan'[s].copy \in {"succeeded", "cancelled"}
        BY <2>1, <3>1 DEF Ended
      <3> QED
        BY <1>1, <2>2, <3>1, <3>2, <3>3, StaysSettled
    <2> QED
      BY <1>3, <2>2, UnchangedItems DEF ScanReads, SettledKept
  <1>4. CASE ScanEnsures(s) \/ ScanWrites(s)
    <2>1. /\ fsm' = [fsm EXCEPT ![m] = scan[s].copy] /\ UNCHANGED <<hq, about>>
          /\ scan'[s] = Resting \/ (scan'[s].job = m /\ scan[s].copy \in {"executing", "blocked"})
          /\ m \in Job
      <3>1. m \in Job /\ s \in DOMAIN scan /\ scan[s].job = m /\ "job" \in DOMAIN scan[s]
        BY <1>4 DEF ScanEnsures, ScanWrites, QInv, QueueTypeOK, ScansKnow
      <3>2. CASE ScanEnsures(s)
        <4>1. CASE scan[s].copy \in {"executing", "blocked"}
          BY <3>1, <3>2, <4>1 DEF ScanEnsures, QInv, QueueTypeOK
        <4>2. CASE scan[s].copy \notin {"executing", "blocked"}
          BY <3>1, <3>2, <4>2 DEF ScanEnsures
        <4> QED
          BY <4>1, <4>2
      <3>3. CASE ScanWrites(s)
        BY <3>1, <3>3 DEF ScanWrites
      <3> QED
        BY <1>4, <3>1, <3>2, <3>3
    <2>2. ASSUME NEW j \in Job, Settled(j) PROVE Settled(j)'
      <3>1. Ended(j)'
        BY <1>1, <2>1, <2>2 DEF Settled, Ended, QInv, QueueTypeOK
      <3>2. scan'[s].job # j
        BY <1>1, <2>1, <2>2, QueueAssumption DEF Resting
      <3> QED
        BY <1>1, <1>2, <2>1, <2>2, <3>1, <3>2, StaysSettled
    <2> QED
      BY <2>1, <2>2, UnchangedItems DEF SettledKept
  <1>5. CASE ScanDies(s)
    <2>1. UNCHANGED <<hq, about, fsm>> /\ scan'[s] = Resting
      BY <1>5 DEF ScanDies, QInv, QueueTypeOK
    <2>2. ASSUME NEW j \in Job, Settled(j) PROVE Settled(j)'
      <3>1. Ended(j)' /\ scan'[s].job # j
        BY <2>1, <2>2, QueueAssumption DEF Settled, Ended, Resting
      <3> QED
        BY <1>1, <1>2, <2>1, <2>2, <3>1, StaysSettled
    <2> QED
      BY <2>1, <2>2, UnchangedItems DEF SettledKept
  <1>6. CASE ScanAsks(s)
    <2>1. /\ m \in Job /\ scan[s].copy = "accepting" /\ fsm' = fsm
          /\ scan'[s].job = m /\ scan'[s].copy = scan[s].copy
      BY <1>6 DEF ScanAsks, QInv, QueueTypeOK, ScansKnow
    <2>2. /\ ItemsKept
          /\ \A j \in Job \ {m} : PendingOf(j)' \subseteq PendingOf(j)
      <3>1. CASE UNCHANGED <<hq, about>>
        BY <3>1, UnchangedItems DEF PendingOf
      <3>2. ASSUME NEW i \in Fresh,
                   hq' = [hq EXCEPT ![i] = "pending"], about' = [about EXCEPT ![i] = m]
            PROVE  ItemsKept /\ \A j \in Job \ {m} : PendingOf(j)' \subseteq PendingOf(j)
        <4>1. i \in Item /\ hq[i] = "absent"
          BY DEF Fresh, QInv, NewIsAbsent
        <4>2. /\ hq'[i] = "pending" /\ about'[i] = m
              /\ \A k \in Item \ {i} : hq'[k] = hq[k] /\ about'[k] = about[k]
          BY <3>2, <4>1 DEF QInv, QueueTypeOK
        <4>3. ItemsKept
          BY <4>1, <4>2 DEF ItemsKept, Absent
        <4>4. \A j \in Job \ {m} : PendingOf(j)' \subseteq PendingOf(j)
          BY <4>2 DEF PendingOf
        <4> QED
          BY <4>3, <4>4
      <3> QED
        BY <1>6, <3>1, <3>2 DEF ScanAsks, Ask
    <2>3. ASSUME NEW j \in Job, Settled(j) PROVE Settled(j)'
      <3>1. j # m /\ Ended(j)'
        BY <1>1, <2>1, <2>3 DEF Settled, Ended
      <3> QED
        BY <1>1, <2>1, <2>2, <2>3, <3>1, StaysSettled
    <2> QED
      BY <2>2, <2>3 DEF SettledKept
  <1> QED
    BY <1>3, <1>4, <1>5, <1>6

(* A decision closes items of its task, and writes one that waited for it.  *)
LEMMA DecisionKeepsQueue ==
    ASSUME QInv, NEW r \in Reviewer,
           \/ \E i \in Item, v \in Verdict : Look(r, i, v)
           \/ \E j \in Job, v \in Verdict : JudgeTask(r, j, v)
           \/ CloseItem(r) \/ ReadTask(r) \/ FindRest(r) \/ WriteTask(r)
    PROVE  ItemsKept /\ SettledKept
  <1> DEFINE m == hand[r].job
  <1>0. \A st \in {"read", "find", "rest", "write"}, i \in Item \cup {0} :
           GoesTo(hand[r], st, i).job = m /\ GoesTo(hand[r], st, i).step = st
    BY RequestGoesOn DEF QInv, QueueTypeOK, Hand
  <1>1. /\ UNCHANGED <<about, scan>>
        /\ \A q \in Reviewer \ {r} : hand'[q] = hand[q]
        /\ \A j \in Job : Settled(j) /\ m = j => hand[r].step \notin {"find", "rest", "write"}
    BY DEF QInv, QueueTypeOK, Look, JudgeTask, CloseItem, ReadTask, FindRest, WriteTask, Settled,
           InHand
  <1>2. CASE CloseItem(r)
    <2> DEFINE i == hand[r].item
    <2>1. i \in Item /\ about[i] = m /\ hand[r].step \in {"close", "rest"} /\ fsm' = fsm
      BY <1>2 DEF CloseItem, QInv, HandsKnow
    <2>2. /\ \A k \in Item \ {i} : hq'[k] = hq[k]
          /\ hq'[i] = hq[i] \/ (hq[i] # "absent" /\ hq'[i] = "closed")
      BY <1>2, <2>1 DEF CloseItem, Absent, QInv, QueueTypeOK
    <2>3. /\ hand'[r].step # hand[r].step
          /\ hand[r].step = "close" => hand'[r].step \in {"free", "read"}
      BY <1>0, <1>2 DEF CloseItem, QInv, QueueTypeOK, Free
    <2>4. Answers(i, about[i])
      BY <2>1, <2>3 DEF Answers
    <2>5. ItemsKept
      BY <2>2, <2>4 DEF ItemsKept, Absent
    <2>6. ASSUME NEW j \in Job, Settled(j) PROVE Settled(j)'
      <3>1. Ended(j)'
        BY <2>1, <2>6 DEF Settled, Ended
      <3>2. PendingOf(j)' \subseteq PendingOf(j)
        BY <1>1, <2>2 DEF PendingOf
      <3>3. hand'[r].job # j \/ hand'[r].step \in {"free", "close", "read"}
        <4>1. CASE hand[r].step = "close"
          BY <2>3, <4>1
        <4>2. CASE hand[r].step = "rest"
          <5>1. m # j
            BY <1>1, <2>6, <4>2
          <5>2. hand'[r].job = m
            BY <1>0, <1>2, <4>2 DEF CloseItem, QInv, QueueTypeOK
          <5> QED
            BY <5>1, <5>2
        <4> QED
          BY <2>1, <4>1, <4>2
      <3> QED
        BY <1>1, <2>6, <3>1, <3>2, <3>3, StaysSettled
    <2> QED
      BY <2>5, <2>6 DEF SettledKept
  <1>3. ASSUME UNCHANGED <<hq, fsm>>,
               \A j \in Job : Settled(j) => \/ hand'[r].job # j
                                            \/ hand'[r].step \in {"free", "close", "read"}
        PROVE  ItemsKept /\ SettledKept
    <2>1. ASSUME NEW j \in Job, Settled(j) PROVE Settled(j)'
      <3>1. Ended(j)' /\ PendingOf(j)' = PendingOf(j)
        BY <1>1, <1>3, <2>1 DEF Settled, Ended, PendingOf
      <3> QED
        BY <1>1, <1>3, <2>1, <3>1, StaysSettled
    <2> QED
      BY <1>3, <2>1, UnchangedItems DEF SettledKept
  <1>4. ASSUME NEW i \in Item, NEW v \in Verdict, Look(r, i, v) PROVE ItemsKept /\ SettledKept
    <2>1. hand'[r].step = "close" /\ UNCHANGED <<hq, fsm>>
      BY <1>4 DEF Look, QInv, QueueTypeOK
    <2> QED
      BY <1>3, <2>1
  <1>5. ASSUME NEW j \in Job, NEW v \in Verdict, JudgeTask(r, j, v) PROVE ItemsKept /\ SettledKept
    <2>1. hand'[r].job = j /\ UNCHANGED <<hq, fsm>> /\ ~Settled(j)
      BY <1>5 DEF JudgeTask, QInv, QueueTypeOK, Settled, Ended
    <2> QED
      BY <1>3, <2>1
  <1>6. CASE ReadTask(r)
    <2>1. /\ UNCHANGED <<hq, fsm>>
          /\ hand'[r].step = "free" \/ (hand'[r].job = m /\ fsm[m] = "accepting")
      BY <1>0, <1>6 DEF ReadTask, QInv, QueueTypeOK, Free
    <2>2. \A j \in Job : Settled(j) => \/ hand'[r].job # j
                                       \/ hand'[r].step \in {"free", "close", "read"}
      BY <2>1 DEF Settled, Ended
    <2> QED
      BY <1>3, <2>1, <2>2
  <1>7. CASE FindRest(r)
    <2>1. /\ UNCHANGED <<hq, fsm>> /\ hand[r].step = "find"
          /\ \/ hand'[r] = GoesTo(hand[r], "write", 0)
             \/ \E i \in Item : hand'[r] = GoesTo(hand[r], "rest", i)
      BY <1>7 DEF FindRest, PendingOf, QInv, QueueTypeOK
    <2>2. hand'[r].job = m
      BY <1>0, <2>1
    <2> QED
      BY <1>1, <1>3, <2>1, <2>2
  <1>8. CASE WriteTask(r)
    <2>1. /\ hand[r].step = "write" /\ hand'[r] = Free /\ UNCHANGED hq
          /\ \A j \in Job \ {m} : fsm'[j] = fsm[j]
      BY <1>8 DEF WriteTask, QInv, QueueTypeOK
    <2>2. ASSUME NEW j \in Job, Settled(j) PROVE Settled(j)'
      <3>1. m # j /\ Ended(j)' /\ PendingOf(j)' = PendingOf(j)
        BY <1>1, <2>1, <2>2 DEF Settled, Ended, PendingOf
      <3> QED
        BY <1>1, <2>1, <2>2, <3>1, StaysSettled DEF Free
    <2> QED
      BY <2>1, <2>2, UnchangedItems DEF SettledKept
  <1> QED
    BY <1>2, <1>4, <1>5, <1>6, <1>7, <1>8

LEMMA QueueStep ==
    ASSUME QInv, [QueueNext]_queueVars, ~CancelSaving
    PROVE  ItemsKept /\ SettledKept
  <1>1. ASSUME UNCHANGED <<hq, about, scan, hand>>, \A j \in Job : Settled(j) => Ended(j)'
        PROVE  ItemsKept /\ SettledKept
    <2>1. \A j \in Job : PendingOf(j)' = PendingOf(j)
      BY <1>1 DEF PendingOf
    <2> QED
      BY <1>1, <2>1, UnchangedItems, StaysSettled DEF SettledKept
  <1>2. ASSUME NEW c \in Canceller, NEW j \in Job, CancelReads(c, j)
        PROVE  ItemsKept /\ SettledKept
    BY <1>1, <1>2 DEF CancelReads, Settled, Ended
  <1>3. ASSUME NEW c \in Canceller, CancelSaves(c) PROVE FALSE
    BY <1>3 DEF CancelSaves, CancelSaving, QInv, QueueTypeOK
  <1>4. ASSUME NEW c \in Canceller, CancelWrites(c) PROVE ItemsKept /\ SettledKept
    BY <1>1, <1>4 DEF CancelWrites, Settled, Ended, QInv, QueueTypeOK
  <1>5. ASSUME NEW i \in Item, BlockUnanswered(i) PROVE ItemsKept /\ SettledKept
    <2>1. \A j \in Job : Settled(j) => about[i] # j
      BY <1>5 DEF BlockUnanswered, Settled, Asked, PendingOf
    <2> QED
      BY <1>1, <1>5, <2>1 DEF BlockUnanswered, Settled, Ended, QInv, QueueTypeOK
  <1>6. CASE UNCHANGED queueVars
    BY <1>1, <1>6 DEF queueVars, Settled, Ended
  <1> QED
    BY <1>2, <1>3, <1>4, <1>5, <1>6, ScanKeepsQueue, DecisionKeepsQueue DEF QueueNext

(* Apart from the save of a cancel, which brings back an old document, no   *)
(* item of the queue is lost or opened again, an open one is closed only by *)
(* a decision about its task, and a task that is over, with no open item    *)
(* and no copy of it in anybody's hands, stays so, for any number of tasks, *)
(* items, scans and requests.                                               *)
THEOREM QueueIsKept == QueueSpec => QueueKept
  <1>1. QInv /\ [QueueNext]_queueVars => [~CancelSaving => KeptQueue]_queueVars
    BY QueueStep DEF KeptQueue, ItemsKept, SettledKept
  <1>2. QueueSpec => [][~CancelSaving => KeptQueue]_queueVars
    BY <1>1, QueueInvariance, PTL DEF QueueSpec
  <1> QED
    BY <1>2 DEF KeptQueue, QueueKept

-----------------------------------------------------------------------------
(* Where the router is tells what it has counted and whom it works with.    *)
LegKnows ==
    /\ leg \in {"idle", "send", "poll"} => tries < MaxRetries
    /\ leg \in {"poll", "note", "ask", "ask again"} => current \in Remote
    /\ leg = "poll" => polled < MaxPolls

(* Until it concludes or asks, nobody has heard of a remote task.           *)
Unheard == result = "none" /\ item.state = "none" /\ noted = 0 /\ resume = 0

Channels ==
    /\ leg \in {"idle", "send", "poll", "note", "bus"} => Unheard /\ order = "none"
    /\ order = "sent" => leg \in {"return", "over", "dead"} /\ Unheard

(* What it leaves.                                                          *)
Left ==
    /\ leg = "ask again" => item.state # "none"
    /\ leg \in {"return", "over"} => result # "none" \/ order = "sent" \/ item.state # "none"

(* Whoever passes an answer on passes it to a remote task.                  *)
IdsKnown ==
    /\ item.state \in {"pending", "approved"} => item.id \in Remote
    /\ resume # 0 => item.state # "none"

AInv == A2aTypeOK /\ LegKnows /\ Channels /\ Left /\ IdsKnown

LEMMA A2aInitInv == A2aInit => AInv
  <1> SUFFICES ASSUME A2aInit PROVE AInv
    OBVIOUS
  <1>1. A2aTypeOK
    <2>1. 0 \in 0..MaxRetries /\ 0 \in 0..MaxPolls
      BY A2aAssumption
    <2> QED
      BY <2>1 DEF A2aInit, A2aTypeOK, NoItem
  <1>2. LegKnows /\ Channels /\ Left /\ IdsKnown
    BY A2aAssumption DEF A2aInit, LegKnows, Channels, Left, IdsKnown, Unheard, NoItem
  <1> QED
    BY <1>1, <1>2 DEF AInv

(* A failed attempt is counted, and tried again only within the limit.      *)
LEMMA AttemptBounds ==
    ASSUME tries \in 0..MaxRetries, tries < MaxRetries, AttemptFails
    PROVE  /\ tries' \in 0..MaxRetries /\ leg' \in {"send", "bus"}
           /\ leg' = "send" => tries' < MaxRetries
  <1>1. MaxRetries \in Nat
    BY A2aAssumption
  <1> QED
    BY <1>1 DEF AttemptFails

(* The counters and the current remote task are what the leg says.          *)
LEMMA RouterCounts ==
    ASSUME AInv, DispatchStep \/ Dispatching \/ DispatcherDies
    PROVE  LegKnows' /\ tries' \in 0..MaxRetries /\ polled' \in 0..MaxPolls /\ current' \in 0..MaxRetries
  <1>0. LegKnows /\ tries \in 0..MaxRetries /\ polled \in 0..MaxPolls /\ current \in 0..MaxRetries
    BY DEF AInv, A2aTypeOK
  <1> USE A2aAssumption DEF LegKnows, Remote
  <1>1. CASE DispatchStep
    BY <1>0, <1>1 DEF DispatchStep
  <1>3. CASE SendMessage
    <2>1. CASE current' = tries + 1 /\ leg' = "poll" /\ tries' = tries
      BY <1>0, <1>3, <2>1 DEF SendMessage
    <2>2. CASE current' = current /\ AttemptFails
      <3>1. leg = "send" /\ polled' = 0
        BY <1>3 DEF SendMessage
      <3>2. 0 \in 0..MaxPolls
        OBVIOUS
      <3> QED
        BY <1>0, <2>2, <3>1, <3>2, AttemptBounds
    <2> QED
      BY <1>3, <2>1, <2>2 DEF SendMessage
  <1>7. CASE Poll
    <2>1. leg = "poll" /\ current' = current
      BY <1>7 DEF Poll
    <2>2. polled' \in 0..MaxPolls
      BY <1>0, <1>7, <2>1 DEF Poll
    <2>3. CASE AttemptFails
      BY <1>0, <2>1, <2>2, <2>3, AttemptBounds
    <2>4. CASE tries' = tries /\ leg' \in {"return", "note"}
      BY <1>0, <2>1, <2>2, <2>4
    <2>5. CASE tries' = tries /\ leg' = "poll" /\ polled' < MaxPolls
      BY <1>0, <2>1, <2>2, <2>5
    <2> QED
      BY <1>7, <2>1, <2>3, <2>4, <2>5 DEF Poll, Conclude
  <1>4. CASE PersistTransport
    BY <1>0, <1>4 DEF PersistTransport
  <1>5. CASE Enqueue
    BY <1>0, <1>5 DEF Enqueue
  <1>6. CASE FileBus \/ CallerWrites \/ DispatcherDies
    BY <1>0, <1>6 DEF FileBus, CallerWrites, DispatcherDies
  <1> QED
    BY <1>1, <1>3, <1>7, <1>4, <1>5, <1>6 DEF Dispatching

(* What has been heard of remote tasks, and what a dispatch leaves.         *)
LEMMA RouterChannels ==
    ASSUME AInv, DispatchStep \/ Dispatching \/ DispatcherDies
    PROVE  Channels' /\ Left' /\ IdsKnown'
  <1>0. Channels /\ Left /\ IdsKnown /\ LegKnows /\ order \in {"none", "sent"}
    BY DEF AInv, A2aTypeOK
  <1> USE DEF Channels, Left, IdsKnown, LegKnows, Unheard, Going
  <1>1. CASE DispatchStep
    BY <1>0, <1>1 DEF DispatchStep
  <1>2. CASE SendMessage
    BY <1>0, <1>2 DEF SendMessage, AttemptFails
  <1>3. CASE Poll
    <2>1. CASE Conclude /\ UNCHANGED <<order, item, resume>>
      BY <1>0, <1>3, <2>1 DEF Poll, Conclude, Concluded
    <2>2. CASE leg' \in {"note", "poll", "send", "bus"} /\ UNCHANGED <<result, noted, order, item, resume>>
      BY <1>0, <1>3, <2>2 DEF Poll
    <2> QED
      BY <1>3, <2>1, <2>2 DEF Poll, AttemptFails
  <1>4. CASE PersistTransport
    BY <1>0, <1>4 DEF PersistTransport
  <1>5. CASE Enqueue
    <2>1. leg \in {"ask", "ask again"} /\ current \in Remote /\ order = "none"
      BY <1>0, <1>5 DEF Enqueue
    <2>2. item'.state = "pending" /\ item'.id \in Remote
      BY <1>0, <1>5, <2>1 DEF Enqueue, AskFor
    <2> QED
      BY <1>0, <1>5, <2>1, <2>2 DEF Enqueue
  <1>6. CASE FileBus
    BY <1>0, <1>6 DEF FileBus
  <1>7. CASE CallerWrites
    BY <1>0, <1>7 DEF CallerWrites
  <1>8. CASE DispatcherDies
    BY <1>0, <1>8 DEF DispatcherDies
  <1> QED
    BY <1>1, <1>2, <1>3, <1>4, <1>5, <1>6, <1>7, <1>8 DEF Dispatching

(* The rest of the types.                                                   *)
LEMMA RouterTypes ==
    ASSUME AInv, DispatchStep \/ Dispatching \/ DispatcherDies
    PROVE  /\ remote' \in [Remote -> Terminal \cup {"none", "working", "asks"}]
           /\ leg' \in Going \cup {"idle", "over", "dead"}
           /\ noted' \in 0..MaxRetries /\ result' \in {"none", "done", "fail"} /\ order' \in {"none", "sent"}
           /\ item' \in [state : {"none", "pending", "approved", "denied"}, id : 0..MaxRetries]
           /\ resume' \in 0..MaxRetries
  <1>0. A2aTypeOK
    BY DEF AInv
  <1>1. remote' \in [Remote -> Terminal \cup {"none", "working", "asks"}]
    BY <1>0 DEF A2aTypeOK, DispatchStep, Dispatching, DispatcherDies, SendMessage, Poll,
                PersistTransport, Enqueue, FileBus, CallerWrites
  <1>2. leg' \in Going \cup {"idle", "over", "dead"}
    BY <1>0 DEF A2aTypeOK, Going, DispatchStep, Dispatching, DispatcherDies, SendMessage, Poll,
                PersistTransport, Enqueue, FileBus, CallerWrites, AttemptFails, Conclude
  <1>3. noted' \in {noted, current, 0} /\ resume' = resume /\ result' \in {result, "done", "fail"}
        /\ order' \in {order, "sent"} /\ (item' = item \/ item' = [state |-> "pending", id |-> current])
    BY DEF DispatchStep, Dispatching, DispatcherDies, SendMessage, Poll, PersistTransport, Enqueue,
           FileBus, CallerWrites, Conclude, Concluded, Persist, AskFor
  <1>4. 0 \in 0..MaxRetries
    BY A2aAssumption
  <1> QED
    BY <1>0, <1>1, <1>2, <1>3, <1>4 DEF A2aTypeOK

LEMMA RouterInv ==
    ASSUME AInv, DispatchStep \/ Dispatching \/ DispatcherDies
    PROVE  AInv'
  BY RouterCounts, RouterChannels, RouterTypes DEF AInv, A2aTypeOK

(* The remote agent, the person and the scan leave the router's place and   *)
(* what it counted.                                                         *)
LEMMA AroundInv ==
    ASSUME AInv,
           \/ \E id \in Remote : RemoteMoves(id)
           \/ \E v \in {"approved", "denied"} : AnswerItem(v)
           \/ SendResolve \/ ResumePolls \/ PollPending \/ CancelInflight
    PROVE  AInv'
  <1>0. A2aTypeOK /\ LegKnows /\ Channels /\ Left /\ IdsKnown
    BY DEF AInv
  <1>1. UNCHANGED <<leg, tries, polled, current, noted, order>>
    BY DEF RemoteMoves, AnswerItem, SendResolve, ResumePolls, PollPending, CancelInflight
  <1>2. LegKnows'
    BY <1>0, <1>1 DEF LegKnows
  <1>3. remote' \in [Remote -> Terminal \cup {"none", "working", "asks"}]
    BY <1>0 DEF A2aTypeOK, Terminal, RemoteMoves, AnswerItem, SendResolve, ResumePolls,
                PollPending, CancelInflight
  <1>4. CASE UNCHANGED <<result, item>> /\ resume' \in {resume, 0}
    <2>1. A2aTypeOK'
      <3>1. 0 \in 0..MaxRetries
        BY A2aAssumption
      <3> QED
        BY <1>0, <1>1, <1>3, <1>4, <3>1 DEF A2aTypeOK
    <2>2. Channels' /\ Left' /\ IdsKnown'
      BY <1>0, <1>1, <1>4 DEF Channels, Left, IdsKnown, Unheard
    <2> QED
      BY <1>2, <2>1, <2>2 DEF AInv
  <1>5. CASE \E v \in {"approved", "denied"} : AnswerItem(v)
    <2>1. PICK v \in {"approved", "denied"} : AnswerItem(v)
      BY <1>5
    <2>2. item.state = "pending" /\ item'.state = v /\ item'.id = item.id /\ result' = result
          /\ item' \in [state : {"none", "pending", "approved", "denied"}, id : 0..MaxRetries]
      BY <1>0, <2>1 DEF AnswerItem, A2aTypeOK
    <2>3. resume' \in {item.id, 0} /\ resume' \in 0..MaxRetries
      BY <1>0, <2>1, A2aAssumption DEF AnswerItem, A2aTypeOK
    <2>4. A2aTypeOK'
      BY <1>0, <1>1, <1>3, <2>2, <2>3 DEF A2aTypeOK
    <2>5. Channels' /\ Left' /\ IdsKnown'
      BY <1>0, <1>1, <2>2 DEF Channels, Left, IdsKnown, Unheard
    <2> QED
      BY <1>2, <2>4, <2>5 DEF AInv
  <1>6. CASE ResumePolls
    <2>1. /\ resume # 0 /\ resume' = 0 /\ item' = item
          /\ result' \in {result, "done", "fail"}
      BY <1>6 DEF ResumePolls, Concluded
    <2>2. A2aTypeOK'
      BY <1>0, <1>1, <1>3, <2>1, A2aAssumption DEF A2aTypeOK
    <2>3. Channels' /\ Left' /\ IdsKnown'
      BY <1>0, <1>1, <2>1 DEF Channels, Left, IdsKnown, Unheard
    <2> QED
      BY <1>2, <2>2, <2>3 DEF AInv
  <1>7. CASE PollPending
    <2>1. /\ noted # 0 /\ noted \in Remote /\ resume' = resume
          /\ result' \in {result, "done", "fail"}
          /\ item' = item \/ item' = [state |-> "pending", id |-> noted]
      BY <1>0, <1>7, A2aAssumption DEF PollPending, AskFor, Concluded, A2aTypeOK, Remote
    <2>2. A2aTypeOK'
      BY <1>0, <1>1, <1>3, <2>1 DEF A2aTypeOK
    <2>3. Channels' /\ Left'
      <3>1. leg \notin {"idle", "send", "poll", "note", "bus"} /\ order # "sent"
        BY <1>0, <2>1 DEF Channels, Unheard
      <3>2. item' = item \/ item'.state = "pending"
        BY <2>1
      <3> QED
        BY <1>0, <1>1, <2>1, <3>1, <3>2 DEF Channels, Left, Unheard
    <2>4. IdsKnown'
      BY <1>0, <2>1 DEF IdsKnown
    <2> QED
      BY <1>2, <2>2, <2>3, <2>4 DEF AInv
  <1> QED
    BY <1>4, <1>5, <1>6, <1>7 DEF RemoteMoves, SendResolve, CancelInflight

LEMMA A2aNextInv == AInv /\ [A2aNext]_a2aVars => AInv'
  <1> SUFFICES ASSUME AInv, [A2aNext]_a2aVars PROVE AInv'
    OBVIOUS
  <1>1. CASE UNCHANGED a2aVars
    BY <1>1 DEF a2aVars, AInv, A2aTypeOK, LegKnows, Channels, Left, IdsKnown, Unheard
  <1> QED
    BY <1>1, RouterInv, AroundInv DEF A2aNext

LEMMA A2aInvariance == A2aSpec => []AInv
  BY A2aInitInv, A2aNextInv, PTL DEF A2aSpec

(* Attempts and polls stay within their limits, and every id named in a     *)
(* file is that of a remote task.                                           *)
THEOREM A2aTypeCorrect == A2aSpec => []A2aTypeOK
  <1>1. AInv => A2aTypeOK
    BY DEF AInv
  <1> QED
    BY <1>1, A2aInvariance, PTL

(* A step that fell back to the agent's inbox has no result and no question *)
(* of a remote task, however many of them its attempts left behind.         *)
THEOREM DispatchUsesOneChannel == A2aSpec => []OneChannel
  <1>1. AInv => OneChannel
    BY DEF AInv, Channels, Unheard, OneChannel
  <1> QED
    BY <1>1, A2aInvariance, PTL

(* A dispatch that returned left a result, an order or a question.          *)
THEOREM DispatchLeavesSomething == A2aSpec => []SomethingLeft
  <1>1. AInv => SomethingLeft
    BY DEF AInv, Left, SomethingLeft
  <1> QED
    BY <1>1, A2aInvariance, PTL

-----------------------------------------------------------------------------
MembersOver == \A m \in Member : steps[m] \in Over

(* Before the dispatch there is the head of the chain and nothing else.     *)
AtStart ==
    line = "created" =>
        /\ active = 1 /\ upset = {}
        /\ steps[1] = "live" /\ \A s \in Step \ {1} : steps[s] = "absent"

(* While nobody continues the task the join follows its members.            *)
InOrder == "continue" \notin upset => (steps[Join] # "absent" => MembersOver)

(* While nothing goes another way at all: what keeps a task that executes   *)
(* from being found complete before its join.                               *)
Undisturbed ==
    upset = {} =>
        /\ \A s \in Step : steps[s] # "skipped"
        /\ line # "created" => \A m \in Member : steps[m] # "absent"
        /\ line = "executing" /\ steps[Join] = "absent" => \E m \in Member : steps[m] = "live"
        /\ line # "blocked"
        /\ line = "accepting" => steps[Join] = "completed"
        /\ steps[After] # "absent" => steps[Join] = "completed" /\ ~left

GroupInv == GroupTypeOK /\ AtStart /\ InOrder /\ Undisturbed

-----------------------------------------------------------------------------
(* The join and what comes after it are steps of their own.                 *)
LEMMA StepsDiffer ==
    /\ Member \subseteq Step /\ 1 \in Member
    /\ Join \in Step \ Member /\ After \in Step \ Member /\ Join # After
    /\ \A s \in Step : s \in Nat
    /\ \A s \in Step \ Member : s = Join \/ s = After
    /\ \A m \in Member : ~ Join <= m
    /\ ~ After <= Join
  BY WidthAssumption DEF Member, Step, Join, After

(* A group is counted complete exactly when every member is over.           *)
LEMMA AllInMeansAll ==
  ASSUME NEW f
  PROVE  AllIn(f) <=> \A m \in Member : f[m] \in Over
<1> DEFINE S == {m \in Member : f[m] \in Over}
<1>1. IsFiniteSet(Member) /\ Cardinality(Member) = Width
  BY FS_Interval, WidthAssumption DEF Member
<1>2. IsFiniteSet(S) /\ Cardinality(S) \in Nat /\ Cardinality(S) <= Width
  BY <1>1, FS_Subset, FS_CardinalityType
<1>3. S # Member => Cardinality(S) # Width
  BY <1>1, FS_Subset
<1>4. Cardinality(S) >= Width <=> S = Member
  BY <1>1, <1>2, <1>3, WidthAssumption
<1>5. S = Member <=> \A m \in Member : f[m] \in Over
  OBVIOUS
<1> HIDE DEF S
<1>6. AllIn(f) <=> Cardinality(S) >= Width
  BY DEF AllIn, S
<1> QED BY <1>4, <1>5, <1>6

(* What get_active_step returns is in the chain; when it is over, nothing   *)
(* lives and nothing in the chain is later.                                 *)
LEMMA LookedAtIsInChain ==
  ASSUME GroupTypeOK, NEW c \in LookedAt
  PROVE  /\ c \in Step /\ steps[c] # "absent"
         /\ steps[c] # "live" => \A s \in Step : steps[s] # "live"
         /\ steps[c] # "live" => \A s \in Step : steps[s] # "absent" => s <= c
<1>1. CASE steps[active] = "live"
  BY <1>1 DEF LookedAt, GroupTypeOK
<1>2. CASE steps[active] # "live" /\ LiveSteps(steps) # {}
  BY <1>2 DEF LookedAt, Latest, LiveSteps
<1>3. CASE steps[active] # "live" /\ LiveSteps(steps) = {}
  BY <1>3 DEF LookedAt, Latest, LiveSteps, Chain
<1> QED BY <1>1, <1>2, <1>3

(* What giving out a step, or taking it back, does to the types.            *)
LEMMA GivenOut ==
  ASSUME GroupTypeOK, NEW c \in Step, NEW s \in Step, HandOn(c, s)
  PROVE  /\ steps' \in [Step -> Over \cup {"absent", "live"}]
         /\ active' \in Step /\ steps'[active'] # "absent"
         /\ line' = "executing"
         /\ ordered' \in SUBSET Step /\ used' \in SUBSET Step
  BY DEF HandOn, GroupTypeOK, Over

(* The group begins with its type.                                          *)
LEMMA TypeInit == GroupInit => GroupTypeOK
  BY StepsDiffer DEF GroupInit, GroupTypeOK

(* Every step of the group keeps its type.                                  *)
LEMMA TypeStep == GroupTypeOK /\ AtStart /\ [GroupNext]_groupVars => GroupTypeOK'
<1> SUFFICES ASSUME GroupTypeOK, AtStart, [GroupNext]_groupVars
             PROVE  GroupTypeOK'
  OBVIOUS
<1> USE StepsDiffer
<1>1. CASE DispatchGroup
  <2>1. active = 1 /\ steps'[1] = "live"
    BY <1>1 DEF DispatchGroup, AtStart
  <2>2. ordered' \in SUBSET Step
    BY <1>1, WidthAssumption DEF DispatchGroup, Step
  <2> QED BY <1>1, <2>1, <2>2 DEF DispatchGroup, GroupTypeOK, setupVars, Over
<1>2. CASE \E s \in Step : Report(s)
  BY <1>2 DEF Report, GroupTypeOK, setupVars
<1>3. CASE Trigger
  <2> PICK c \in LookedAt : Await(c) \/ GroupDone(c) \/ Advance(c) \/ LookAtCompleted(c)
    BY <1>3 DEF Trigger
  <2>0. c \in Step /\ steps[c] # "absent"
    BY LookedAtIsInChain
  <2>1. CASE Await(c)
    <3>1. c \in Member
      BY <2>1 DEF Await, InGroup
    <3>2. steps' = [steps EXCEPT ![c] = "completed"] /\ used' \in SUBSET Step
      BY <2>0, <2>1 DEF Await, Completes, GroupTypeOK
    <3>3. active' \in Step /\ steps'[active'] # "absent"
      BY <2>0, <2>1, <3>2 DEF Await, Latest, GroupTypeOK
    <3> QED BY <2>1, <3>2, <3>3 DEF Await, GroupTypeOK, setupVars, Over
  <2>2. CASE GroupDone(c)
    <3>1. CASE HandOn(c, Join)
      BY <2>0, <2>2, <3>1, GivenOut DEF GroupDone, GroupTypeOK, setupVars
    <3>2. CASE ~HandOn(c, Join)
      BY <2>0, <2>2, <3>2 DEF GroupDone, Completes, GroupTypeOK, setupVars, Over
    <3> QED BY <3>1, <3>2
  <2>3. CASE Advance(c)
    <3>1. CASE HandOn(c, After)
      BY <2>0, <2>3, <3>1, GivenOut DEF Advance, GroupTypeOK, setupVars
    <3>2. CASE ~HandOn(c, After)
      BY <2>0, <2>3, <3>2 DEF Advance, Completes, GroupTypeOK, setupVars, Over
    <3> QED BY <3>1, <3>2
  <2>4. CASE LookAtCompleted(c)
    <3>1. CASE HandOn(c, After)
      BY <2>0, <2>4, <3>1, GivenOut DEF LookAtCompleted, GroupTypeOK, setupVars
    <3>2. CASE ~HandOn(c, After)
      BY <2>0, <2>4, <3>2 DEF LookAtCompleted, GroupTypeOK, setupVars
    <3> QED BY <3>1, <3>2
  <2> QED BY <2>1, <2>2, <2>3, <2>4
<1>4. CASE \E c \in LookedAt : SkipStep(c)
  BY <1>4, LookedAtIsInChain DEF SkipStep, GroupTypeOK, setupVars, Over
<1>5. CASE \E c \in LookedAt : ContinueTask(c)
  BY <1>5, LookedAtIsInChain DEF ContinueTask, GroupTypeOK, setupVars, Over
<1>6. CASE UNCHANGED groupVars
  BY <1>6 DEF groupVars, GroupTypeOK
<1> QED BY <1>1, <1>2, <1>3, <1>4, <1>5, <1>6 DEF GroupNext

-----------------------------------------------------------------------------
(* It begins in order, with the head of the chain alone.                    *)
LEMMA OrderInit == GroupInit => AtStart /\ InOrder /\ Undisturbed
  BY StepsDiffer DEF GroupInit, AtStart, InOrder, Undisturbed

(* Before the dispatch nothing else happens.                                *)
LEMMA StartStep == GroupTypeOK /\ AtStart /\ [GroupNext]_groupVars => AtStart'
<1> SUFFICES ASSUME GroupTypeOK, AtStart, [GroupNext]_groupVars
             PROVE  AtStart'
  OBVIOUS
<1>1. CASE DispatchGroup
  BY <1>1 DEF DispatchGroup, AtStart
<1>2. CASE \E s \in Step : Report(s)
  BY <1>2 DEF Report, AtStart
<1>3. CASE Trigger
  BY <1>3 DEF Trigger, Await, GroupDone, Advance, LookAtCompleted, HandOn, MaySubmitNow, AtStart
<1>4. CASE \E c \in LookedAt : SkipStep(c) \/ ContinueTask(c)
  BY <1>4 DEF SkipStep, ContinueTask, AtStart
<1>5. CASE UNCHANGED groupVars
  BY <1>5 DEF groupVars, AtStart
<1> QED BY <1>1, <1>2, <1>3, <1>4, <1>5 DEF GroupNext

(* Unless the task was continued, a member that is looked at and not        *)
(* completed finds no join: it lives, and the join follows the members, or  *)
(* it was skipped, and is the last step of the chain.                       *)
LEMMA NoJoinYet ==
  ASSUME GroupTypeOK, InOrder, "continue" \notin upset,
         NEW c \in LookedAt, c \in Member,
         steps[c] # "completed"
  PROVE  steps[Join] = "absent"
  BY LookedAtIsInChain, StepsDiffer DEF InOrder, MembersOver, Over

(* The order of group and join through every step.                          *)
LEMMA OrderStep == GroupInv /\ [GroupNext]_groupVars => InOrder'
<1> SUFFICES ASSUME GroupInv, [GroupNext]_groupVars, "continue" \notin upset'
             PROVE  steps'[Join] # "absent" => MembersOver'
  BY DEF InOrder
<1> USE StepsDiffer DEF GroupInv
<1>0. "continue" \notin upset
  BY DEF GroupNext, DispatchGroup, Report, Trigger, Await, GroupDone, Advance, LookAtCompleted,
         SkipStep, ContinueTask, groupVars
<1>1. CASE DispatchGroup
  BY <1>1 DEF DispatchGroup, AtStart, Step, Join, Member
<1>2. CASE \E s \in Step : Report(s)
  BY <1>0, <1>2 DEF Report, InOrder, MembersOver
<1>3. CASE Trigger
  <2> PICK c \in LookedAt : Await(c) \/ GroupDone(c) \/ Advance(c) \/ LookAtCompleted(c)
    BY <1>3 DEF Trigger
  <2>0. c \in Step /\ steps[c] # "absent"
    BY LookedAtIsInChain
  <2>1. CASE Await(c)
    <3>1. steps'[Join] = steps[Join]
      BY <2>1 DEF Await, Completes, InGroup, GroupTypeOK
    <3>2. MembersOver => MembersOver'
      BY <2>1 DEF Await, Completes, MembersOver, Over, GroupTypeOK
    <3> QED BY <1>0, <3>1, <3>2 DEF InOrder
  <2>2. CASE GroupDone(c)
    <3>1. steps[Join] = "absent"
      BY <1>0, <2>2, NoJoinYet DEF GroupDone, MaySubmitNow, InGroup
    <3>2. \A m \in Member \ {c} : steps[m] \in Over
      BY <2>2, AllInMeansAll DEF GroupDone, GroupTypeOK
    <3>3. CASE HandOn(c, Join)
      BY <2>2, <3>1, <3>2, <3>3 DEF GroupDone, HandOn, InGroup, MembersOver, Over, GroupTypeOK
    <3>4. CASE ~HandOn(c, Join)
      BY <2>2, <3>1, <3>4 DEF GroupDone
    <3> QED BY <3>3, <3>4
  <2>3. CASE Advance(c)
    <3>1. c \notin Member
      BY <2>3 DEF Advance, InGroup
    <3>2. \A m \in Member : steps'[m] = steps[m]
      BY <2>3, <3>1 DEF Advance, HandOn, Completes, GroupTypeOK
    <3>3. steps[Join] = "absent" => steps'[Join] = "absent"
      BY <2>0, <2>3 DEF Advance, HandOn, Completes, GroupTypeOK
    <3> QED BY <1>0, <3>1, <3>2, <3>3 DEF InOrder, MembersOver
  <2>4. CASE LookAtCompleted(c)
    <3>1. CASE HandOn(c, After)
      <4>1. steps'[Join] # "absent" => c \notin Member
        BY <2>0, <2>4, <3>1, LookedAtIsInChain DEF LookAtCompleted, HandOn, GroupTypeOK
      <4>2. c \notin Member => \A m \in Member : steps'[m] = steps[m]
        BY <3>1 DEF HandOn, GroupTypeOK
      <4>3. steps[Join] = "absent" => steps'[Join] = "absent"
        BY <2>0, <3>1 DEF HandOn, GroupTypeOK
      <4> QED BY <1>0, <4>1, <4>2, <4>3 DEF InOrder, MembersOver
    <3>2. CASE ~HandOn(c, After)
      BY <1>0, <2>4, <3>2 DEF LookAtCompleted, InOrder, MembersOver
    <3> QED BY <3>1, <3>2
  <2> QED BY <2>1, <2>2, <2>3, <2>4
<1>4. CASE \E c \in LookedAt : SkipStep(c)
  BY <1>0, <1>4, LookedAtIsInChain DEF SkipStep, InOrder, MembersOver, Over, GroupTypeOK
<1>5. CASE \E c \in LookedAt : ContinueTask(c)
  BY <1>5 DEF ContinueTask
<1>6. CASE UNCHANGED groupVars
  BY <1>0, <1>6 DEF groupVars, InOrder, MembersOver
<1> QED BY <1>1, <1>2, <1>3, <1>4, <1>5, <1>6 DEF GroupNext

(* No step goes back to "absent" but by a dispatch.                         *)
LEMMA ChainOnlyGrows ==
  ASSUME GroupTypeOK, [GroupNext]_groupVars, ~DispatchGroup, NEW s \in Step, steps[s] # "absent"
  PROVE  steps'[s] # "absent"
<1> USE StepsDiffer DEF GroupTypeOK
<1>1. CASE Trigger
  BY <1>1, LookedAtIsInChain
  DEF Trigger, Await, GroupDone, Advance, LookAtCompleted, Completes, HandOn, Over
<1>2. CASE ~Trigger
  BY <1>2 DEF GroupNext, Report, SkipStep, ContinueTask, groupVars
<1> QED BY <1>1, <1>2

(* A group nothing disturbed through every step.                            *)
LEMMA UndisturbedStep == GroupInv /\ [GroupNext]_groupVars => Undisturbed'
<1> SUFFICES ASSUME GroupInv, [GroupNext]_groupVars, upset' = {}
             PROVE  Undisturbed'
  BY DEF Undisturbed
<1> USE StepsDiffer DEF GroupInv, GroupTypeOK, Undisturbed
<1>0. upset = {}
  BY DEF GroupNext, DispatchGroup, Report, Trigger, Await, GroupDone, Advance, LookAtCompleted,
         SkipStep, ContinueTask, groupVars
<1>1. CASE DispatchGroup
  <2>1. \A m \in Member : steps'[m] = "live"
    BY <1>1 DEF DispatchGroup, Member
  <2>2. line' = "executing" /\ steps'[After] = "absent" /\ \A s \in Step : steps'[s] # "skipped"
    BY <1>1 DEF DispatchGroup, Step, Member, After
  <2> QED BY <2>1, <2>2
<1>2. CASE \E s \in Step : Report(s)
  BY <1>0, <1>2 DEF Report
<1>3. CASE Trigger
  <2> PICK c \in LookedAt : Await(c) \/ GroupDone(c) \/ Advance(c) \/ LookAtCompleted(c)
    BY <1>3 DEF Trigger
  <2>0. /\ c \in Step /\ steps[c] \in {"live", "completed"} /\ line # "created"
        /\ steps[c] = "completed" => \A s \in Step : steps[s] # "live"
    BY <1>0, LookedAtIsInChain, <1>3
    DEF Trigger, Await, GroupDone, Advance, LookAtCompleted, MaySubmitNow, Over
  <2>1. /\ \A s \in Step : steps'[s] # "skipped"
        /\ line' # "created" /\ \A m \in Member : steps'[m] # "absent"
    <3>1. ~DispatchGroup
      BY <2>0 DEF DispatchGroup
    <3>2. \A m \in Member : steps'[m] # "absent"
      BY <1>0, <2>0, <3>1, ChainOnlyGrows
    <3> QED BY <1>0, <2>0, <3>2
        DEF Await, GroupDone, Advance, LookAtCompleted, Completes, HandOn
  <2>2. CASE Await(c)
    <3>1. \E m \in Member : steps'[m] \notin Over
      BY <2>2, AllInMeansAll DEF Await, Completes
    <3>2. \E m \in Member : steps'[m] = "live"
      BY <2>1, <3>1, TypeStep DEF Over
    <3>3. steps'[After] = steps[After] /\ steps'[Join] = steps[Join]
      BY <2>2 DEF Await, Completes, InGroup
    <3> QED BY <1>0, <2>1, <2>2, <3>2, <3>3 DEF Await, MaySubmitNow
  <2>3. CASE GroupDone(c)
    <3>1. steps[Join] = "absent" /\ steps[c] = "live" /\ line = "executing" /\ c \in Member
      BY <1>0, <2>0, <2>3, NoJoinYet DEF GroupDone, MaySubmitNow, InGroup
    <3>2. CASE HandOn(c, Join)
      BY <1>0, <2>1, <2>3, <3>1, <3>2 DEF GroupDone, HandOn
    <3>3. CASE ~HandOn(c, Join)
      BY <1>0, <2>1, <2>3, <3>1, <3>3 DEF GroupDone
    <3> QED BY <3>2, <3>3
  <2>4. CASE Advance(c)
    <3>1. steps[c] = "live" /\ line = "executing" /\ (c = Join \/ c = After)
      BY <2>0, <2>4 DEF Advance, MaySubmitNow, InGroup
    <3>2. CASE HandOn(c, After)
      BY <1>0, <2>1, <2>4, <3>1, <3>2 DEF Advance, HandOn
    <3>3. CASE ~HandOn(c, After)
      BY <1>0, <2>1, <2>4, <3>1, <3>3 DEF Advance, Completes
    <3> QED BY <3>2, <3>3
  <2>5. CASE LookAtCompleted(c)
    <3>1. \A s \in Step : steps[s] \in {"absent", "completed"}
      BY <1>0, <2>0, <2>5 DEF LookAtCompleted, Over
    <3>2. CASE HandOn(c, After)
      <4>1. \/ left /\ steps[Join] = "completed" /\ steps[After] = "absent" /\ line = "executing"
            \/ ~left /\ line # "accepting"
        BY <1>0, <2>5, <3>1 DEF LookAtCompleted
      <4> QED BY <1>0, <2>1, <2>5, <3>1, <3>2, <4>1 DEF LookAtCompleted, HandOn
    <3>3. CASE ~HandOn(c, After)
      BY <1>0, <2>1, <2>5, <3>1, <3>3 DEF LookAtCompleted
    <3> QED BY <3>2, <3>3
  <2> QED BY <2>2, <2>3, <2>4, <2>5
<1>4. CASE \E c \in LookedAt : SkipStep(c) \/ ContinueTask(c)
  BY <1>4 DEF SkipStep, ContinueTask
<1>5. CASE UNCHANGED groupVars
  BY <1>0, <1>5 DEF groupVars
<1> QED BY <1>1, <1>2, <1>3, <1>4, <1>5 DEF GroupNext

-----------------------------------------------------------------------------
(* The invariant is inductive, whatever members share agents and whatever   *)
(* orders are lost.                                                         *)
THEOREM GroupInvariant == GroupSpec => []GroupInv
<1>1. GroupInit => GroupInv
  BY TypeInit, OrderInit DEF GroupInv
<1>2. GroupInv /\ [GroupNext]_groupVars => GroupInv'
  BY TypeStep, StartStep, OrderStep, UndisturbedStep DEF GroupInv
<1> QED BY <1>1, <1>2, PTL DEF GroupSpec

(* The group keeps its type.                                                *)
THEOREM GroupTypeCorrect == GroupSpec => []GroupTypeOK
  BY GroupInvariant, PTL DEF GroupInv

(* For a group of any width, agents shared or not, orders lost or not: the  *)
(* join is given out when every member is over, unless the task was         *)
(* continued.                                                               *)
THEOREM JoinFollowsMembers == GroupSpec => []JoinIsLast
<1>1. GroupInv => JoinIsLast
  BY DEF GroupInv, InOrder, MembersOver, JoinIsLast
<1> QED BY <1>1, GroupInvariant, PTL

(* Nor is anything after the group given out, or accepted, before the join, *)
(* unless something went another way.                                       *)
THEOREM JoinPrecedesTheRest == GroupSpec => []JoinComesFirst
<1>1. GroupInv => JoinComesFirst
  BY DEF GroupInv, Undisturbed, JoinComesFirst
<1> QED BY <1>1, GroupInvariant, PTL

-----------------------------------------------------------------------------
(* The lifecycle of a task.                                                 *)

(* The inductive invariant.  PlanKept needs JudgedIsServed: a line that is  *)
(* sent back gets its redo at the end only because its plan was served.     *)
LifeInv == TypeOK /\ JudgedIsServed /\ PlanKept

-----------------------------------------------------------------------------

(* Serving moves a role from the head of todo to the end of served: the     *)
(* line as a whole stays what it was.                                       *)
LEMMA ServeKeepsLine ==
    ASSUME NEW s \in Seq(Role), NEW t \in Seq(Role), t # <<>>
    PROVE  /\ Append(s, Head(t)) \in Seq(Role)
           /\ Tail(t) \in Seq(Role)
           /\ Append(s, Head(t)) \o Tail(t) = s \o t
  <1>1. Head(t) \in Role /\ Tail(t) \in Seq(Role)
    BY HeadTailProperties
  <1>2. Append(s, Head(t)) \in Seq(Role)
    BY <1>1, AppendProperties
  <1>3. <<Head(t)>> \in Seq(Role)
    BY <1>1
  <1>4. Append(s, Head(t)) = s \o <<Head(t)>>
    BY <1>1, AppendIsConcat
  <1>5. t = <<Head(t)>> \o Tail(t)
    BY HeadTailAppend, ConcatProperties
  <1>6. (s \o <<Head(t)>>) \o Tail(t) = s \o (<<Head(t)>> \o Tail(t))
    BY <1>1, <1>3, ConcatAssociative
  <1> QED
    BY <1>1, <1>2, <1>4, <1>5, <1>6

(* A role added behind a served plan leaves the first roles as they are.    *)
LEMMA ExtendKeepsPlan ==
    ASSUME PlanKept, NEW r \in Role, served \in Seq(Role), todo = <<>>,
           served' = Append(served, r), todo' = todo
    PROVE  PlanKept'
  <1>1. served \o todo = served
    BY ConcatEmptySeq
  <1>2. served' \in Seq(Role) /\ served' \o todo' = served'
    BY ConcatEmptySeq, AppendProperties
  <1>3. /\ Len(served') = Len(served) + 1
        /\ \A i \in 1..Len(served) : served'[i] = served[i]
    BY AppendProperties
  <1>4. Len(Plan) \in Nat /\ Len(served) \in Nat
    BY PlanAssumption, LenProperties
  <1>5. Len(Plan) <= Len(served)
    BY <1>1 DEF PlanKept
  <1>6. \A i \in 1..Len(Plan) : served'[i] = Plan[i]
    BY <1>1, <1>3, <1>4, <1>5 DEF PlanKept
  <1> QED
    BY <1>2, <1>3, <1>4, <1>5, <1>6 DEF PlanKept

-----------------------------------------------------------------------------

(* The first role is served, the others are still to be.                    *)
LEMMA LifeInit == Init => LifeInv
  <1> SUFFICES ASSUME Init PROVE LifeInv
    OBVIOUS
  <1>1. Head(Plan) \in Role /\ Tail(Plan) \in Seq(Role)
    BY PlanAssumption, HeadTailProperties
  <1>2. <<Head(Plan)>> \o Tail(Plan) = Plan
    BY PlanAssumption, ServeKeepsLine, EmptySeq
  <1>3. Len(Plan) \in Nat
    BY PlanAssumption, LenProperties
  <1> QED
    BY <1>1, <1>2, <1>3
    DEF Init, LifeInv, TypeOK, JudgedIsServed, PlanKept, Phase

(* Every step keeps the invariant.                                          *)
LEMMA LifeNext == LifeInv /\ [Next]_vars => LifeInv'
  <1> SUFFICES ASSUME LifeInv, [Next]_vars PROVE LifeInv'
    OBVIOUS
  <1> USE DEF LifeInv
  <1>1. CASE Decide
    BY <1>1 DEF Decide, TypeOK, JudgedIsServed, PlanKept, Phase
  <1>2. CASE Serve
    <2>1. /\ served' \in Seq(Role) /\ todo' \in Seq(Role)
          /\ served' \o todo' = served \o todo
      BY <1>2, ServeKeepsLine DEF Serve, TypeOK
    <2>2. TypeOK' /\ JudgedIsServed'
      BY <1>2, <2>1 DEF Serve, TypeOK, JudgedIsServed, Phase
    <2>3. PlanKept'
      BY <2>1 DEF PlanKept
    <2> QED
      BY <2>2, <2>3
  <1>3. CASE Extend
    <2>1. PICK r \in Role : served' = Append(served, r)
      BY <1>3 DEF Extend
    <2>2. TypeOK' /\ JudgedIsServed'
      BY <1>3, <2>1, AppendProperties
      DEF Extend, TypeOK, JudgedIsServed, Phase
    <2>3. PlanKept'
      BY <1>3, <2>1, ExtendKeepsPlan DEF Extend, TypeOK
    <2> QED
      BY <2>2, <2>3
  <1>4. CASE Stop
    BY <1>4 DEF Stop, TypeOK, JudgedIsServed, PlanKept, Phase
  <1>5. CASE Finish
    BY <1>5 DEF Finish, TypeOK, JudgedIsServed, PlanKept, Phase
  <1>6. CASE Accept
    BY <1>6 DEF Accept, TypeOK, JudgedIsServed, PlanKept, Phase
  <1>7. CASE SendBack
    <2>1. PICK r \in Role : served' = Append(served, r)
      BY <1>7 DEF SendBack
    <2>2. todo = <<>> /\ todo' = todo
      BY <1>7 DEF SendBack, JudgedIsServed
    <2>3. TypeOK' /\ JudgedIsServed'
      BY <1>7, <2>1, <2>2, AppendProperties
      DEF SendBack, TypeOK, JudgedIsServed, Phase
    <2>4. PlanKept'
      BY <2>1, <2>2, ExtendKeepsPlan DEF TypeOK
    <2> QED
      BY <2>3, <2>4
  <1>8. CASE Drop
    BY <1>8 DEF Drop, TypeOK, JudgedIsServed, PlanKept, Phase
  <1>9. CASE Proceed
    BY <1>9 DEF Proceed, TypeOK, JudgedIsServed, PlanKept
  <1>10. CASE UNCHANGED vars
    BY <1>10 DEF vars, TypeOK, JudgedIsServed, PlanKept
  <1> QED
    BY <1>1, <1>2, <1>3, <1>4, <1>5, <1>6, <1>7, <1>8, <1>9, <1>10 DEF Next

(* The invariant holds in every state of the lifecycle.                     *)
THEOREM LifecycleInvariant == Spec => []LifeInv
  BY LifeInit, LifeNext, PTL DEF Spec

(* The lifecycle keeps its type.                                            *)
THEOREM LifecycleTypeOK == Spec => []TypeOK
  BY LifecycleInvariant, PTL DEF LifeInv

(* Acceptance is asked of a task whose planned roles were all served        *)
(* (enter_accepting_or_succeed), for any plan.                              *)
THEOREM LifecycleJudgesServed == Spec => []JudgedIsServed
  BY LifecycleInvariant, PTL DEF LifeInv

(* The roles of the plan come first and in order, whatever redos add.       *)
THEOREM LifecycleKeepsPlan == Spec => []PlanKept
  BY LifecycleInvariant, PTL DEF LifeInv
=============================================================================
