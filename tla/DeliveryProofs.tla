--------------------------- MODULE DeliveryProofs ---------------------------
(***************************************************************************)
(* Proofs about Delivery, for any number of messages of any kinds, any     *)
(* limit of pushes and every combination of events.                        *)
(***************************************************************************)
EXTENDS Delivery, TLAPS

(* What is pushed was sent; a message not sent yet is as it was at first.   *)
PushesSent == \A p \in Pusher : job[p].step # "idle" => job[p].msg \in Sent
UnsentIsNew == \A m \in Msg : box[m].state = "unsent" => box[m] = Unsent

(* A task is done, or remembered as finished while it is worked on, only    *)
(* when its result is there or its step is over.                            *)
FinishedAnswered ==
    \A m \in Task : box[m].state = "done" \/ box[m].fin => Delivered(m)

IInv == TypeOK /\ PushesSent /\ UnsentIsNew /\ FinishedAnswered /\ WaitingIsUncounted

-----------------------------------------------------------------------------
(* What is known of a message m with the record r, and of one that was sent. *)
Good(m, r) ==
    /\ r \in Record /\ (r.state = "unsent" => r = Unsent)
    /\ r.state = "pending" => r.count = 0
    /\ m \in Task /\ (r.state = "done" \/ r.fin) => Delivered(m)
Kept(m, r) == Good(m, r) /\ r.state # "unsent"

LEMMA BoxGood ==
    ASSUME IInv, NEW m \in Msg
    PROVE  Good(m, box[m])
  BY DEF IInv, TypeOK, UnsentIsNew, FinishedAnswered, WaitingIsUncounted, Waiting, Good

(* The functions of inbox.py keep what is known of a message.               *)
LEMMA RecordFunctions ==
    ASSUME NEW m \in Msg, NEW r, Kept(m, r)
    PROVE  /\ Kept(m, Processing(r)) /\ Kept(m, Pending(r)) /\ Kept(m, Reset(r))
           /\ Kept(m, Marked(r)) /\ Kept(m, Blocked(m, r))
           /\ (m \in Task => Delivered(m)) => Kept(m, Done(r))
  <1>0. /\ r \in Record
        /\ 0 \in Age /\ r.count \in Nat /\ r.count + 1 \in Nat
    BY DEF Kept, Good, Record, Age
  <1>1. Kept(m, Processing(r))
    <2>1. Processing(r) \in Record
      BY <1>0 DEF Processing, Record, State, Status
    <2>2. Processing(r).state = "processing" /\ Processing(r).fin = r.fin
      BY <1>0 DEF Processing, Record
    <2> QED
      BY <2>1, <2>2 DEF Kept, Good
  <1>2. Kept(m, Pending(r))
    BY <1>0 DEF Pending, Record, State, Status, Kept, Good
  <1>3. Kept(m, Reset(r))
    <2>1. /\ Reset(r) \in Record /\ Reset(r).state = "pending" /\ Reset(r).count = 0
          /\ Reset(r).fin = FALSE
      BY <1>0 DEF Reset, Pending, Record, State, Status
    <2> QED
      BY <2>1 DEF Kept, Good
  <1>4. Kept(m, Marked(r))
    <2>1. Marked(r) \in Record
      BY <1>0, Zenon DEF Marked, Record, State, Status
    <2>2. Marked(r).state = "pushed" /\ Marked(r).fin = r.fin
      BY <1>0 DEF Marked, Record
    <2> QED
      BY <2>1, <2>2 DEF Kept, Good
  <1>5. Kept(m, Blocked(m, r))
    BY <1>0 DEF Blocked, Record, State, Status, Kept, Good
  <1>6. (m \in Task => Delivered(m)) => Kept(m, Done(r))
    BY <1>0 DEF Done, Record, State, Status, Kept, Good
  <1> QED
    BY <1>1, <1>2, <1>3, <1>4, <1>5, <1>6

(* A younger, or older, message, and one with another status.               *)
LEMMA RecordFields ==
    ASSUME NEW m \in Msg, NEW r, Kept(m, r)
    PROVE  /\ \A a \in Age : Kept(m, [r EXCEPT !.age = a])
           /\ \A s \in Status : Kept(m, [r EXCEPT !.status = s])
           /\ Kept(m, [r EXCEPT !.state = "pushed"])
  <1>0. r \in Record
    BY DEF Kept, Good
  <1>1. ASSUME NEW a \in Age PROVE Kept(m, [r EXCEPT !.age = a])
    BY <1>0, <1>1 DEF Record, Kept, Good
  <1>2. ASSUME NEW s \in Status PROVE Kept(m, [r EXCEPT !.status = s])
    BY <1>0, <1>2 DEF Record, Kept, Good
  <1>3. Kept(m, [r EXCEPT !.state = "pushed"])
    BY <1>0 DEF Record, State, Kept, Good
  <1> QED
    BY <1>1, <1>2, <1>3

(* An acknowledgement, a heal and a recovery compose them.                  *)
LEMMA AcknowledgedKept ==
    ASSUME NEW m \in Msg, NEW r, Kept(m, r)
    PROVE  Kept(m, Acknowledged(m, r))
  <1> DEFINE s == [r EXCEPT !.status = "acknowledged"]
             t == [s EXCEPT !.age = 0]
  <1>0. 0 \in Age /\ "acknowledged" \in Status
    BY DEF Age, Status
  <1>1. Kept(m, s)
    BY <1>0, RecordFields
  <1>2. Kept(m, t)
    <2> HIDE DEF s
    <2> QED
      BY <1>0, <1>1, RecordFields
  <1>3. [r EXCEPT !.status = "acknowledged", !.age = 0] = t
    BY DEF Kept, Good, Record
  <1>4. Acknowledged(m, r) = IF r.state # "pending" THEN t
                             ELSE IF m \in Task THEN Processing(r) ELSE Done(t)
    BY <1>3 DEF Acknowledged
  <1> HIDE DEF t
  <1> QED
    BY <1>2, <1>4, RecordFunctions

LEMMA HealedKept ==
    ASSUME NEW m \in Msg, NEW r, Kept(m, r)
    PROVE  Kept(m, Healed(m, r))
  <1>1. CASE /\ m \in Task /\ r.state \notin {"unsent", "done"}
             /\ IF m \in Order THEN Stale(m) ELSE m \in answered
    <2>1. Delivered(m)
      BY <1>1 DEF Delivered
    <2>2. Kept(m, Done(r)) /\ 0 \in Age
      BY <2>1, RecordFunctions DEF Age
    <2> QED
      BY <1>1, <2>2, RecordFields DEF Healed
  <1> QED
    BY <1>1 DEF Healed

LEMMA RecoveredKept ==
    ASSUME IInv, NEW m \in Msg, NEW r, Kept(m, r)
    PROVE  Kept(m, Recovered(m, r))
  <1>1. r.fin /\ m \in Task => Delivered(m)
    BY DEF Kept, Good
  <1>2. Stale(m) => Delivered(m)
    BY DEF Delivered
  <1>3. r.state # "unsent"
    BY DEF Kept
  <1>4. Kept(m, [r EXCEPT !.state = "pushed"])
    BY RecordFields
  <1> QED
    BY <1>1, <1>2, <1>3, <1>4, RecordFunctions DEF Recovered

-----------------------------------------------------------------------------
(* A step that writes only what the functions of inbox.py make of messages  *)
(* that were sent, while results only appear and steps only end.            *)
Writes == \A m \in Msg : \/ box'[m] = box[m]
                         \/ m \in Sent /\ Kept(m, box'[m])

LEMMA WritesKeep ==
    ASSUME IInv, kind' = kind, live' \subseteq live, answered \subseteq answered',
           box' \in [Msg -> Record], Writes
    PROVE  /\ UnsentIsNew' /\ FinishedAnswered' /\ WaitingIsUncounted'
           /\ Sent \subseteq Sent'
  <1>1. ASSUME NEW m \in Msg, Delivered(m) PROVE Delivered(m)'
    BY <1>1 DEF Delivered, Stale, Order
  <1>2. ASSUME NEW m \in Msg PROVE Good(m, box'[m]) /\ (m \in Sent => box'[m].state # "unsent")
    BY BoxGood DEF Writes, Kept, Sent
  <1>3. UnsentIsNew' /\ WaitingIsUncounted'
    BY <1>2 DEF UnsentIsNew, WaitingIsUncounted, Waiting, Good
  <1>4. FinishedAnswered'
    BY <1>1, <1>2 DEF FinishedAnswered, Good, Task
  <1>5. Sent \subseteq Sent'
    BY <1>2 DEF Sent
  <1> QED
    BY <1>3, <1>4, <1>5

(* The same for a step that writes one message, or none.                    *)
LEMMA WritesOne ==
    ASSUME IInv, NEW m \in Sent, NEW r, Kept(m, r), box' = [box EXCEPT ![m] = r]
    PROVE  box' \in [Msg -> Record] /\ Writes
  <1>1. m \in Msg /\ r \in Record
    BY DEF Sent, Kept, Good
  <1> QED
    BY <1>1 DEF IInv, TypeOK, Writes

LEMMA WritesNone ==
    ASSUME IInv, box' = box
    PROVE  box' \in [Msg -> Record] /\ Writes
  BY DEF IInv, TypeOK, Writes

(* Every message at once.                                                   *)
LEMMA WritesAll ==
    ASSUME IInv, NEW f, box' = [m \in Msg |-> f[m]],
           \A m \in Msg : f[m] = box[m] \/ (m \in Sent /\ Kept(m, f[m]))
    PROVE  box' \in [Msg -> Record] /\ Writes
  BY DEF IInv, TypeOK, Writes, Kept, Good

LEMMA SentKept ==
    ASSUME IInv, NEW m \in Sent
    PROVE  m \in Msg /\ Kept(m, box[m])
  BY BoxGood DEF Sent, Kept

(* A push that goes on, and what it pushes.                                 *)
LEMMA JobSent ==
    ASSUME IInv, NEW p \in Pusher, job[p].step # "idle"
    PROVE  job[p].msg \in Sent
  BY DEF IInv, PushesSent

-----------------------------------------------------------------------------
LEMMA InitIInv == Init => IInv
  <1> SUFFICES ASSUME Init PROVE IInv
    OBVIOUS
  <1>1. PICK i \in Instances : kind = i.kinds /\ events = i.events
    BY DEF Init
  <1>2. kind \in [Msg -> Kind] /\ events \subseteq Event
    BY <1>1, DeliveryAssumption
  <1>3. Unsent \in Record /\ Unsent.state = "unsent" /\ Unsent.fin = FALSE
    BY DEF Unsent, Record, State, Status, Age
  <1>4. TypeOK
    BY <1>2, <1>3 DEF Init, TypeOK, Idle, Nobody
  <1>5. PushesSent
    BY DEF Init, PushesSent, Idle
  <1>6. UnsentIsNew /\ FinishedAnswered /\ WaitingIsUncounted
    BY <1>3 DEF Init, UnsentIsNew, FinishedAnswered, WaitingIsUncounted, Waiting, Task
  <1> QED
    BY <1>4, <1>5, <1>6 DEF IInv

(* A new message is pending and uncounted; its own step, if it is an order, *)
(* becomes the running one, which no finished message can be.               *)
LEMMA SendIInv ==
    ASSUME IInv, NEW m \in Msg, Send(m)
    PROVE  IInv'
  <1> DEFINE r == [Unsent EXCEPT !.state = "pending"]
  <1>1. box[m] = Unsent /\ box' = [box EXCEPT ![m] = r]
    <2>1. box[m] = Unsent
      BY DEF Send, IInv, UnsentIsNew
    <2>2. box' = [box EXCEPT ![m] = [box[m] EXCEPT !.state = "pending"]]
      BY DEF Send, IInv, TypeOK
    <2>3. [box[m] EXCEPT !.state = "pending"] = r
      BY <2>1
    <2> HIDE DEF r
    <2> QED
      BY <2>1, <2>2, <2>3, Zenon
  <1>2. r \in Record /\ r.state = "pending" /\ r.count = 0 /\ r.fin = FALSE
    <2>1. 0 \in Age
      BY DEF Age
    <2> QED
      BY <2>1 DEF Unsent, Record, State, Status
  <1> HIDE DEF r
  <1>3. /\ box \in [Msg -> Record] /\ box' \in [Msg -> Record] /\ kind' = kind
        /\ box'[m] = r /\ \A n \in Msg \ {m} : box'[n] = box[n]
    BY <1>1, <1>2 DEF IInv, TypeOK, Send
  <1>4. Sent \subseteq Sent' /\ m \in Sent'
    BY <1>2, <1>3 DEF Sent
  <1>5. job' = job \/ job' = [job EXCEPT !["api"] = [msg |-> m, step |-> "mark"]]
    BY DEF Send
  <1>6. TypeOK'
    <2>1. job' \in [Pusher -> [msg : Msg \cup {Nobody},
                               step : {"idle", "mark", "launch", "finish"}]]
      BY <1>5 DEF IInv, TypeOK, Pusher
    <2> QED
      BY <1>3, <1>4, <2>1 DEF IInv, TypeOK, Send, Order, Task, agentVars, cliVars
  <1>7. PushesSent'
    BY <1>4, <1>5 DEF IInv, TypeOK, PushesSent, Pusher
  <1>8. UnsentIsNew' /\ WaitingIsUncounted'
    BY <1>2, <1>3 DEF IInv, UnsentIsNew, WaitingIsUncounted, Waiting
  <1>9. FinishedAnswered'
    <2>1. \A n \in Msg \ {m} : Delivered(n) => Delivered(n)'
      BY <1>3 DEF Send, Delivered, Stale, Order, agentVars
    <2> QED
      BY <1>2, <1>3, <2>1 DEF IInv, FinishedAnswered, Task
  <1> QED
    BY <1>6, <1>7, <1>8, <1>9 DEF IInv

(* Every other step writes only what the functions of inbox.py leave.       *)
LEMMA PushWrites ==
    ASSUME IInv, NEW p \in Pusher, Push(p)
    PROVE  box' \in [Msg -> Record] /\ Writes
  <1> DEFINE m == job[p].msg
  <1>1. m \in Sent /\ m \in Msg /\ Kept(m, box[m])
    BY JobSent, SentKept DEF Push, Mark, Launch, LaunchFails, Finish
  <1>2. CASE Mark(p)
    <2>1. box' = [box EXCEPT ![m] = Marked(box[m])]
      BY <1>2 DEF Mark
    <2>2. Kept(m, Marked(box[m]))
      BY <1>1, RecordFunctions
    <2> QED
      BY <1>1, <2>1, <2>2, WritesOne
  <1>3. CASE Launch(p)
    BY <1>3, WritesNone DEF Launch
  <1>4. CASE LaunchFails(p)
    <2>1. box' = [box EXCEPT ![m] = [box[m] EXCEPT !.status = "failed"]]
      BY <1>1, <1>4 DEF LaunchFails, IInv, TypeOK
    <2>2. Kept(m, [box[m] EXCEPT !.status = "failed"])
      BY <1>1, RecordFields DEF Status
    <2> QED
      BY <1>1, <2>1, <2>2, WritesOne
  <1>5. CASE Finish(p)
    <2>1. box' = [box EXCEPT ![m] = IF m \in Task THEN Processing(box[m])
                                    ELSE [box[m] EXCEPT !.status = "pushed"]]
      BY <1>1, <1>5 DEF Finish, IInv, TypeOK
    <2>2. Kept(m, Processing(box[m])) /\ Kept(m, [box[m] EXCEPT !.status = "pushed"])
      BY <1>1, RecordFunctions, RecordFields DEF Status
    <2> QED
      BY <1>1, <2>1, <2>2, WritesOne
  <1> QED
    BY <1>2, <1>3, <1>4, <1>5, Zenon DEF Push

LEMMA ScanWrites ==
    ASSUME IInv, Scan
    PROVE  box' \in [Msg -> Record] /\ Writes
  <1>1. ASSUME NEW m \in Msg PROVE box[m].state = "unsent" \/ (m \in Sent /\ Kept(m, box[m]))
    <2>1. Good(m, box[m])
      BY BoxGood
    <2> QED
      BY <2>1 DEF Kept, Sent
  <1>2. CASE ScanAcks
    <2> DEFINE f == [m \in Msg |-> IF m \in ackFile THEN Acknowledged(m, box[m]) ELSE box[m]]
    <2>1. \A m \in Msg : f[m] = box[m] \/ (m \in Sent /\ Kept(m, f[m]))
      BY <1>1, AcknowledgedKept DEF IInv, TypeOK, Sent
    <2>2. box' = [m \in Msg |-> f[m]]
      BY <1>2 DEF ScanAcks
    <2> HIDE DEF f
    <2> QED
      BY <2>1, <2>2, WritesAll
  <1>3. CASE Heal
    <2> DEFINE f == [m \in Msg |-> Healed(m, box[m])]
    <2>1. \A m \in Msg : f[m] = box[m] \/ (m \in Sent /\ Kept(m, f[m]))
      BY <1>1, HealedKept DEF Healed
    <2>2. box' = [m \in Msg |-> f[m]]
      BY <1>3 DEF Heal
    <2> HIDE DEF f
    <2> QED
      BY <2>1, <2>2, WritesAll
  <1>4. CASE Recover
    <2> DEFINE f == [m \in Msg |-> Recovered(m, box[m])]
    <2>1. \A m \in Msg : f[m] = box[m] \/ (m \in Sent /\ Kept(m, f[m]))
      BY <1>1, RecoveredKept DEF Recovered
    <2>2. box' = box \/ box' = [m \in Msg |-> f[m]]
      BY <1>4, Zenon DEF Recover
    <2> HIDE DEF f
    <2> QED
      BY <2>1, <2>2, WritesAll, WritesNone
  <1>5. CASE Pick
    <2> DEFINE f == [m \in Msg |-> IF m \in GivenUp THEN Blocked(m, box[m]) ELSE box[m]]
    <2>1. GivenUp \subseteq Sent
      BY DEF GivenUp, Ahead, Oldest, Waiting, Sent
    <2>2. \A m \in Msg : f[m] = box[m] \/ (m \in Sent /\ Kept(m, f[m]))
      BY <1>1, <2>1, RecordFunctions DEF Sent
    <2>3. box' = [m \in Msg |-> f[m]]
      BY <1>5 DEF Pick
    <2> HIDE DEF f
    <2> QED
      BY <2>2, <2>3, WritesAll
  <1>6. CASE Housekeep
    BY <1>6, WritesNone DEF Housekeep
  <1>7. CASE Push("scan")
    BY <1>7, PushWrites DEF Pusher
  <1> QED
    BY <1>2, <1>3, <1>4, <1>5, <1>6, <1>7, Zenon DEF Scan

LEMMA MessageWrites ==
    ASSUME IInv, NEW m \in Msg,
           Ack(m) \/ Answer(m) \/ Exit(m) \/ Watched(m) \/ TimeOut(m) \/ Retry(m)
             \/ StepEnds(m) \/ Tick(m)
    PROVE  box' \in [Msg -> Record] /\ Writes
  <1>1. box' = box => box' \in [Msg -> Record] /\ Writes
    BY WritesNone
  <1>2. ASSUME m \in Sent, box' = [box EXCEPT ![m] = Reset(box[m])]
        PROVE  box' \in [Msg -> Record] /\ Writes
    BY <1>2, SentKept, RecordFunctions, WritesOne
  <1>3. cli \subseteq Sent /\ watch \subseteq Sent
    BY DEF IInv, TypeOK
  <1>4. CASE Ack(m)
    <2>1. m \in Sent /\ box' = [box EXCEPT ![m] = Acknowledged(m, box[m])]
      BY <1>3, <1>4 DEF Ack
    <2> QED
      BY <2>1, SentKept, AcknowledgedKept, WritesOne
  <1>5. CASE Tick(m)
    <2>1. m \in Sent /\ box[m].age < 2
      BY <1>5 DEF Tick
    <2>2. box' = [box EXCEPT ![m] = [box[m] EXCEPT !.age = box[m].age + 1]]
      BY <1>5 DEF Tick, IInv, TypeOK
    <2>3. box[m].age + 1 \in Age
      BY <2>1 DEF IInv, TypeOK, Record, Age
    <2>4. Kept(m, [box[m] EXCEPT !.age = box[m].age + 1])
      BY <2>1, <2>3, SentKept, RecordFields
    <2> QED
      BY <2>1, <2>2, <2>4, WritesOne
  <1>6. CASE Watched(m)
    BY <1>1, <1>2, <1>3, <1>6 DEF Watched
  <1>7. CASE TimeOut(m)
    BY <1>1, <1>2, <1>3, <1>7 DEF TimeOut
  <1>8. CASE Retry(m)
    BY <1>2, <1>8 DEF Retry
  <1>9. CASE Answer(m) \/ Exit(m) \/ StepEnds(m)
    BY <1>1, <1>9 DEF Answer, Exit, StepEnds
  <1> QED
    BY <1>4, <1>5, <1>6, <1>7, <1>8, <1>9

-----------------------------------------------------------------------------
(* The variables beside the inbox keep their types, and pushes are of sent  *)
(* messages.                                                                *)
LEMMA JobKept ==
    ASSUME IInv, Sent \subseteq Sent', NEW p \in Pusher, NEW m \in Sent, NEW k,
           k \in {"mark", "launch", "finish"},
           \/ job' = job
           \/ job' = [job EXCEPT ![p] = Idle]
           \/ job' = [job EXCEPT ![p] = [msg |-> m, step |-> k]]
           \/ job[p].step # "idle" /\ job' = [job EXCEPT ![p].step = k]
    PROVE  /\ job' \in [Pusher -> [msg : Msg \cup {Nobody},
                                   step : {"idle", "mark", "launch", "finish"}]]
           /\ PushesSent'
  <1>1. m \in Msg
    BY DEF Sent
  <1> QED
    BY <1>1 DEF IInv, TypeOK, PushesSent, Idle, Nobody

(* From what a step leaves of the parts to the invariant.                   *)
LEMMA Together ==
    ASSUME IInv, kind' = kind, live' \subseteq live, answered \subseteq answered',
           box' \in [Msg -> Record], Writes,
           answered' \subseteq Task, scan' \in {"idle", "heal", "recover", "pick", "push"},
           cli' \subseteq Sent, watch' \subseteq Sent, ackFile' \subseteq Sent, events' \subseteq Event,
           job' \in [Pusher -> [msg : Msg \cup {Nobody}, step : {"idle", "mark", "launch", "finish"}]],
           PushesSent'
    PROVE  IInv'
  <1>1. UnsentIsNew' /\ FinishedAnswered' /\ WaitingIsUncounted' /\ Sent \subseteq Sent'
    BY WritesKeep
  <1>2. TypeOK'
    BY <1>1 DEF IInv, TypeOK, Order, Task
  <1> QED
    BY <1>1, <1>2 DEF IInv

LEMMA PushIInv ==
    ASSUME IInv, NEW p \in Pusher, Push(p)
    PROVE  IInv'
  <1> USE DEF agentVars, cliVars
  <1>1. box' \in [Msg -> Record] /\ Writes
    BY PushWrites
  <1>2. kind' = kind /\ live' = live /\ answered' = answered /\ scan' = scan
        /\ ackFile' = ackFile /\ events' = events
    BY DEF Push, Mark, Launch, LaunchFails, Finish
  <1>3. job[p].msg \in Sent
    BY JobSent DEF Push, Mark, Launch, LaunchFails, Finish
  <1>4. Sent \subseteq Sent'
    BY <1>1, <1>2, WritesKeep
  <1>5. \/ job' = [job EXCEPT ![p] = Idle]
        \/ \E k \in {"launch", "finish"} : job[p].step # "idle" /\ job' = [job EXCEPT ![p].step = k]
    BY DEF Push, Mark, Launch, LaunchFails, Finish
  <1>6. /\ job' \in [Pusher -> [msg : Msg \cup {Nobody}, step : {"idle", "mark", "launch", "finish"}]]
        /\ PushesSent'
    BY <1>3, <1>4, <1>5, JobKept
  <1>7. cli' \subseteq Sent /\ watch' \subseteq Sent
    BY <1>3 DEF Push, Mark, Launch, LaunchFails, Finish, IInv, TypeOK
  <1>8. TypeOK
    BY DEF IInv
  <1> QED
    BY <1>1, <1>2, <1>6, <1>7, <1>8, Together DEF TypeOK

LEMMA ScanIInv ==
    ASSUME IInv, Scan
    PROVE  IInv'
  <1> USE DEF agentVars, cliVars
  <1>1. CASE Push("scan")
    BY <1>1, PushIInv DEF Pusher
  <1>2. CASE ScanAcks \/ Heal \/ Recover \/ Pick \/ Housekeep
    <2>1. box' \in [Msg -> Record] /\ Writes
      BY ScanWrites
    <2>2. kind' = kind /\ live' \subseteq live /\ answered' = answered
          /\ cli' = cli /\ watch' = watch /\ events' = events
      BY <1>2 DEF ScanAcks, Heal, Recover, Pick, Housekeep
    <2>3. Sent \subseteq Sent'
      BY <2>1, <2>2, WritesKeep
    <2>4. /\ ackFile' \subseteq ackFile
          /\ scan' \in {"idle", "heal", "recover", "pick", "push"}
      BY <1>2 DEF ScanAcks, Heal, Recover, Pick, Housekeep
    <2>5. \/ job' = job
          \/ \E m \in Sent : job' = [job EXCEPT !["scan"] = [msg |-> m, step |-> "mark"]]
      <3>1. Pushable \subseteq Sent
        BY DEF Pushable, Ahead, Oldest, Waiting, Sent
      <3> QED
        BY <1>2, <3>1 DEF ScanAcks, Heal, Recover, Pick, Housekeep, Oldest
    <2>6. /\ job' \in [Pusher -> [msg : Msg \cup {Nobody}, step : {"idle", "mark", "launch", "finish"}]]
          /\ PushesSent'
      <3>1. CASE job' = job
        BY <2>3, <3>1 DEF IInv, TypeOK, PushesSent
      <3>2. CASE \E m \in Sent : job' = [job EXCEPT !["scan"] = [msg |-> m, step |-> "mark"]]
        BY <2>3, <3>2, JobKept DEF Pusher
      <3> QED
        BY <2>5, <3>1, <3>2
    <2>7. TypeOK
      BY DEF IInv
    <2> QED
      BY <2>1, <2>2, <2>4, <2>6, <2>7, Together DEF TypeOK
  <1> QED
    BY <1>1, <1>2 DEF Scan

LEMMA MessageIInv ==
    ASSUME IInv, NEW m \in Msg,
           Ack(m) \/ Answer(m) \/ Exit(m) \/ Watched(m) \/ TimeOut(m) \/ Retry(m)
             \/ StepEnds(m) \/ Tick(m)
    PROVE  IInv'
  <1> USE DEF agentVars, cliVars
  <1>1. box' \in [Msg -> Record] /\ Writes
    BY MessageWrites
  <1>2. kind' = kind /\ live' \subseteq live /\ answered \subseteq answered' /\ scan' = scan
        /\ events' = events /\ job' = job
    BY DEF Ack, Answer, Exit, Watched, TimeOut, Retry, StepEnds, Tick
  <1>3. Sent \subseteq Sent'
    BY <1>1, <1>2, WritesKeep
  <1>4. /\ cli' \subseteq cli /\ watch' \subseteq watch
        /\ answered' \subseteq Task \cup answered /\ ackFile' \subseteq cli \cup ackFile
    BY DEF Ack, Answer, Exit, Watched, TimeOut, Retry, StepEnds, Tick
  <1>5. PushesSent'
    BY <1>2, <1>3 DEF IInv, PushesSent
  <1>6. TypeOK
    BY DEF IInv
  <1> QED
    BY <1>1, <1>2, <1>4, <1>5, <1>6, Together DEF TypeOK

LEMMA CrashIInv ==
    ASSUME IInv, Crash
    PROVE  IInv'
  <1>1. box' \in [Msg -> Record] /\ Writes
    BY WritesNone DEF Crash
  <1>2. PushesSent'
    BY DEF Crash, PushesSent, Idle
  <1>3. TypeOK
    BY DEF IInv
  <1> QED
    BY <1>1, <1>2, <1>3, Together DEF TypeOK, Crash, agentVars, Idle

LEMMA StutterIInv ==
    ASSUME IInv, UNCHANGED vars
    PROVE  IInv'
  <1>1. box' \in [Msg -> Record] /\ Writes
    BY WritesNone DEF vars
  <1>2. PushesSent'
    BY DEF vars, IInv, PushesSent, Sent
  <1>3. TypeOK
    BY DEF IInv
  <1> QED
    BY <1>1, <1>2, <1>3, Together DEF TypeOK, vars

LEMMA NextIInv == IInv /\ [Next]_vars => IInv'
  <1> SUFFICES ASSUME IInv, [Next]_vars PROVE IInv'
    OBVIOUS
  <1>1. CASE \E m \in Msg : Send(m)
    BY <1>1, SendIInv
  <1>2. CASE \E m \in Msg : \/ Ack(m) \/ Answer(m) \/ Exit(m) \/ Watched(m) \/ TimeOut(m)
                            \/ Retry(m) \/ StepEnds(m) \/ Tick(m)
    BY <1>2, MessageIInv
  <1>3. CASE Scan
    BY <1>3, ScanIInv
  <1>4. CASE Push("api")
    BY <1>4, PushIInv DEF Pusher
  <1>5. CASE Crash
    BY <1>5, CrashIInv
  <1>6. CASE UNCHANGED vars
    BY <1>6, StutterIInv
  <1> QED
    BY <1>1, <1>2, <1>3, <1>4, <1>5, <1>6 DEF Next

-----------------------------------------------------------------------------
LEMMA Invariance == Spec => []IInv
  BY InitIInv, NextIInv, PTL DEF Spec

(* The inbox, the pushes and the agent stay what the code takes them for:   *)
(* whatever is pushed, worked on or acknowledged was sent, and results are  *)
(* those of tasks.                                                          *)
THEOREM TypeCorrect == Spec => []TypeOK
  <1>1. IInv => TypeOK
    BY DEF IInv
  <1> QED
    BY <1>1, Invariance, PTL

(* Whatever acks, retries, timeouts, crashes and second pushes come in      *)
(* between, a task is closed only with its result, or for a step that is no *)
(* longer this agent's.                                                     *)
THEOREM ClosedTasksAreAnswered == Spec => []ClosedTaskAnswered
  <1>1. IInv => ClosedTaskAnswered
    BY DEF IInv, FinishedAnswered, ClosedTaskAnswered
  <1> QED
    BY <1>1, Invariance, PTL

(* Every message that waits for a push has its count reset: neither the     *)
(* push limit nor the cooldown ever applies to it.                          *)
THEOREM WaitingMessagesAreUncounted == Spec => []WaitingIsUncounted
  <1>1. IInv => WaitingIsUncounted
    BY DEF IInv
  <1> QED
    BY <1>1, Invariance, PTL
=============================================================================
