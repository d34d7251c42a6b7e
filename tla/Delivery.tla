------------------------------ MODULE Delivery ------------------------------
(***************************************************************************)
(* The inbox of one agent and the processes that move its messages: the    *)
(* senders, the scan (application/scan/inbox.py), the pusher               *)
(* (application/push/pusher.py) with the thread that watches each CLI it   *)
(* starts, the agent, and its acknowledgements                             *)
(* (adapters/results/ack_handler.py).                                      *)
(*                                                                         *)
(* Every function that reads inbox.json, changes messages and writes it    *)
(* back is one step; everybody else may act between two of them.           *)
(***************************************************************************)
EXTENDS Integers, Sequences

CONSTANTS N,           \* how many messages there may be
          Instances,   \* the kinds of the messages sent, in order, and what may
                       \* happen beside the pushes: a bound
          MaxPushes    \* max_pushes_per_message

Msg == 1..N          \* the messages, in the order they are sent
Kind == {"none", "notice", "task", "order"}
Event == {"ack", "retry", "crash", "launch fails", "step ends"}

ASSUME DeliveryAssumption ==
    /\ MaxPushes \in Nat \ {0}
    /\ N \in Nat
    /\ Instances \subseteq [kinds : [Msg -> Kind],
                            events : SUBSET Event]

VARIABLES kind,     \* kind[m]: a notice, a task answered by a file, a pipeline order, nothing
          box,      \* inbox.json: what it says of every message sent
          live,     \* the orders whose step is the running one and this agent's
          answered, \* the tasks and orders whose result file is there
          cli,      \* the messages a CLI of the agent is working on
          watch,    \* the messages whose CLI has a thread waiting for its exit
          job,      \* what the scan and the API are pushing, and how far they are
          scan,     \* where the scan is
          ackFile,  \* ack.json
          events    \* what may still happen

vars == <<kind, box, live, answered, cli, watch, job, scan, ackFile, events>>
agentVars == <<answered, ackFile>>
cliVars == <<cli, watch>>

Sent == {m \in Msg : box[m].state # "unsent"}
Task == {m \in Msg : kind[m] \in {"task", "order"}}
Order == {m \in Msg : kind[m] = "order"}
Pusher == {"scan", "api"}
Nobody == 0
Idle == [msg |-> Nobody, step |-> "idle"]

Oldest(S) == {m \in S : \A n \in S : m <= n}

----------------------------------------------------------------------------
(* Ages: 0 is within the shortest limit, 1 beyond the limits of 3 to 10    *)
(* minutes (cooldown, silent failure), 2 beyond those of 30 and 45; they   *)
(* count from received_at, acknowledged_at or created_at, whichever is set. *)
Age == 0..2

State == {"unsent", "pending", "pushed", "processing", "done", "failed"}
Status == {"pending", "pushed", "acknowledged", "failed"}
Record == [state : State, status : Status, count : Nat, age : Age,
           fin : BOOLEAN]

Unsent == [state |-> "unsent", status |-> "pending", count |-> 0, age |-> 0,
           fin |-> FALSE]

(* The messages as the functions of inbox.py leave them.                   *)
Done(r) == [r EXCEPT !.state = "done", !.status = "acknowledged", !.fin = TRUE]
Processing(r) == [r EXCEPT !.state = "processing", !.status = "acknowledged", !.age = 0]
(* Mutant: a message is put back without its count.                        *)
MutantKeepCount(r) == [r EXCEPT !.state = "pending", !.status = "pending"]
Pending(r) == [r EXCEPT !.state = "pending", !.status = "pending", !.count = 0]
Marked(r) == [r EXCEPT !.state = "pushed", !.status = "pushed", !.count = @ + 1]
Reset(r) == [Pending(r) EXCEPT !.fin = FALSE]

(* Mutant: an acknowledgement closes a task like a notice.                 *)
MutantAckCloses(m, r) ==
    LET seen == [r EXCEPT !.status = "acknowledged", !.age = 0]
    IN  IF r.state = "pending" THEN Done(seen) ELSE seen

(* process_ack moves on the state of a message that nobody pushed yet.     *)
Acknowledged(m, r) ==
    LET seen == [r EXCEPT !.status = "acknowledged", !.age = 0]
    IN  IF r.state # "pending" THEN seen
        ELSE IF m \in Task THEN Processing(r) ELSE Done(seen)

Active == cli # {}                                  \* agent_cli_active
(* Mutant: nobody looks whose step it is.                                  *)
MutantNeverStale(m) == FALSE
Stale(m) == m \in Order /\ m \notin live            \* pipeline_inbox_message_stale
Delivered(m) == m \in answered \/ Stale(m)          \* verify_..._delivery

(* recover_inbox_stale_states imports a module that is not there when it   *)
(* wants to give an order with a silent CLI to somebody else.              *)
Silent(m) == /\ m \in live /\ m \notin answered /\ m \notin cli
             /\ box[m].state = "processing" /\ ~box[m].fin /\ box[m].age >= 1
ScanFails == \E m \in Sent : Silent(m)

(* Mutant: an order whose CLI fell silent stays as it is.                  *)
MutantKeepProcessing(m, r) ==
    IF r.state # "unsent" /\ m \in Order \ live THEN Done(r)
    ELSE IF r.state = "pushed" /\ r.age >= 1 THEN Pending(r) ELSE r

Recovered(m, r) ==
    IF r.state # "unsent" /\ Stale(m) THEN Done(r)
    ELSE
    CASE m \in live /\ r.state = "failed" -> Reset(r)
      [] r.state = "processing" /\ r.fin -> IF m \in live \ answered THEN r ELSE Done(r)
      [] r.state = "pending" /\ r.status = "pushed" ->
             IF r.age = 2 THEN Pending(r) ELSE [r EXCEPT !.state = "pushed"]
      [] r.state = "pushed" /\ (r.age = 2 \/ (~Active /\ r.age >= 1)) -> Pending(r)
      [] r.state = "processing" /\ ~r.fin /\ m \notin Task -> Done(r)
      [] r.state = "processing" /\ ~r.fin /\ m \in Task
             /\ (r.age = 2 \/ (m \notin cli /\ r.age >= 1)) -> Pending(r)
      [] OTHER -> r

(* sync_tracker_and_inbox: a task that has its result, an order whose step *)
(* is over.                                                                *)
Healed(m, r) ==
    IF /\ m \in Task /\ r.state \notin {"unsent", "done"}
       /\ IF m \in Order THEN Stale(m) ELSE m \in answered
    THEN [Done(r) EXCEPT !.age = 0] ELSE r

----------------------------------------------------------------------------
(* should_skip_push and what it does to a message at its limit.            *)
AtLimit(m) == box[m].count >= MaxPushes
Skipped(m) == AtLimit(m) \/ (box[m].count > 0 /\ box[m].age = 0)
Blocked(m, r) == [r EXCEPT !.state = "failed", !.status = "failed"]

Waiting == {m \in Msg : box[m].state = "pending"}

(* _agent_has_active_work: the first unfinished task decides.              *)
Working == {m \in Task : box[m].state = "processing" /\ ~box[m].fin}
Busy(m) == /\ Active \/ box[m].age = 0
           /\ m \in live => m \notin answered /\ (m \in cli \/ box[m].age = 0)
HasActiveWork == \/ \E m \in Msg : box[m].state = "pushed"
                 \/ (\E m \in Oldest(Working) : Busy(m))

(* The order of the queue: orders that run, tasks, the rest; the oldest    *)
(* first.  An order that runs does not wait for the agent to be free.      *)
Ahead == LET orders == Waiting \cap live
             tasks  == Waiting \cap Task
         IN  IF orders # {} THEN Oldest(orders)
             ELSE IF HasActiveWork THEN {}
             ELSE IF tasks # {} THEN tasks ELSE Waiting
Pushable == {m \in Ahead : ~Skipped(m)}
GivenUp == {m \in Ahead : AtLimit(m) /\ \A n \in Pushable : m < n}

----------------------------------------------------------------------------
Init == /\ \E i \in Instances : kind = i.kinds /\ events = i.events
        /\ box = [m \in Msg |-> Unsent]
        /\ live = {} /\ answered = {} /\ cli = {} /\ watch = {}
        /\ job = [p \in Pusher |-> Idle]
        /\ scan = "idle"
        /\ ackFile = {} 

(* Mutant: every message is taken for an order.                            *)
MutantSendLive(m) ==
    /\ kind[m] # "none" /\ box[m].state = "unsent" /\ \A n \in Msg : n < m => n \in Sent
    /\ job["api"] = Idle
    /\ box' = [box EXCEPT ![m].state = "pending"]
    /\ live' = live \cup {m}
    /\ job' = [job EXCEPT !["api"] = [msg |-> m, step |-> "mark"]]
    /\ UNCHANGED <<kind, scan, events, agentVars, cliVars>>

(* cmd_send and handle_send_msg write the message and push it at once; an  *)
(* order (_send_task) waits for the scan.                                  *)
Send(m) ==
    /\ kind[m] # "none" /\ box[m].state = "unsent" /\ \A n \in Msg : n < m => n \in Sent
    /\ m \notin Order => job["api"] = Idle
    /\ box' = [box EXCEPT ![m].state = "pending"]
    /\ live' = live \cup (Order \cap {m})
    /\ job' = IF m \in Order THEN job ELSE [job EXCEPT !["api"] = [msg |-> m, step |-> "mark"]]
    /\ UNCHANGED <<kind, scan, events, agentVars, cliVars>>

(* mark_as_pushed, whatever has become of the message since it was picked. *)
Mark(p) ==
    LET m == job[p].msg IN
    /\ job[p].step = "mark"
    /\ box' = [box EXCEPT ![m] = Marked(@)]
    /\ job' = [job EXCEPT ![p].step = "launch"]
    /\ UNCHANGED <<kind, live, scan, events, agentVars, cliVars>>

(* _invoke_cli: the CLI and its watching thread start.                     *)
Launch(p) ==
    LET m == job[p].msg IN
    /\ job[p].step = "launch"
    /\ cli' = cli \cup {m} /\ watch' = watch \cup {m}
    /\ job' = [job EXCEPT ![p].step = "finish"]
    /\ UNCHANGED <<kind, box, live, scan, events, agentVars>>

(* No model's CLI starts: the message is failed and a dead letter.  Only    *)
(* its status says so.                                                      *)
LaunchFails(p) ==
    LET m == job[p].msg IN
    /\ "launch fails" \in events /\ job[p].step = "launch"
    /\ box' = [box EXCEPT ![m].status = "failed"]
    /\ job' = [job EXCEPT ![p] = Idle]
    /\ UNCHANGED <<kind, live, scan, events, cli, watch, agentVars>>

(* finalize_processing_on_push for tasks, status "pushed" for the rest.    *)
Finish(p) ==
    LET m == job[p].msg IN
    /\ job[p].step = "finish"
    /\ box' = [box EXCEPT ![m] = IF m \in Task THEN Processing(@)
                                 ELSE [@ EXCEPT !.status = "pushed"]]
    /\ job' = [job EXCEPT ![p] = Idle]
    /\ UNCHANGED <<kind, live, scan, events, agentVars, cliVars>>

Push(p) == Mark(p) \/ Launch(p) \/ LaunchFails(p) \/ Finish(p)

----------------------------------------------------------------------------
(* The scan (_run_scan_once_body), under the lock mailbus-scan.            *)

(* scan_ack_files: every ack of ack.json is applied and the file cleared.  *)
(* An ack added meanwhile is cleared too, its command applies it itself.   *)
ScanAcks ==
    /\ scan = "idle"
    /\ box' = [m \in Msg |-> IF m \in ackFile THEN Acknowledged(m, box[m]) ELSE box[m]]
    /\ ackFile' = {}
    /\ scan' = "heal"
    /\ UNCHANGED <<kind, live, job, events, answered, cliVars>>

(* run_self_heal and recover_inbox_stale_states; nothing is written when   *)
(* the latter raises, and the scan is over.                                *)
Heal ==
    /\ scan = "heal"
    /\ box' = [m \in Msg |-> Healed(m, box[m])]
    /\ scan' = "recover"
    /\ UNCHANGED <<kind, live, job, events, agentVars, cliVars>>

Recover ==
    /\ scan = "recover"
    /\ box' = IF ScanFails THEN box ELSE [m \in Msg |-> Recovered(m, box[m])]
    /\ scan' = IF ScanFails THEN "idle" ELSE "pick"
    /\ UNCHANGED <<kind, live, job, events, agentVars, cliVars>>

(* build_queues: the messages at their limit are given up, one other is    *)
(* picked for the push that follows.                                       *)
Pick ==
    /\ scan = "pick"
    /\ box' = [m \in Msg |-> IF m \in GivenUp THEN Blocked(m, box[m]) ELSE box[m]]
    /\ scan' = "push"
    /\ IF Pushable = {} THEN job' = job
       ELSE \E m \in Oldest(Pushable) : job' = [job EXCEPT !["scan"] = [msg |-> m, step |-> "mark"]]
    /\ UNCHANGED <<kind, live, events, agentVars, cliVars>>

(* run_housekeeping: the pipeline trigger takes the results of orders.     *)
Housekeep ==
    /\ scan = "push" /\ job["scan"] = Idle
    /\ live' = live \ answered
    /\ scan' = "idle"
    /\ UNCHANGED <<kind, box, job, events, agentVars, cliVars>>

Scan == ScanAcks \/ Heal \/ Recover \/ Pick \/ Housekeep \/ Push("scan")

----------------------------------------------------------------------------
(* The agent.                                                              *)

(* cmd_ack applies the ack and leaves it in ack.json for the scan, which   *)
(* applies it again.                                                       *)
Ack(m) ==
    /\ "ack" \in events /\ m \in cli /\ m \notin ackFile
    /\ ackFile' = ackFile \cup {m}
    /\ box' = [box EXCEPT ![m] = Acknowledged(m, @)]
    /\ UNCHANGED <<kind, live, job, scan, events, answered, cliVars>>

Answer(m) ==
    /\ m \in cli \cap Task
    /\ answered' = answered \cup {m}
    /\ UNCHANGED <<kind, box, live, job, scan, events, ackFile, cliVars>>

(* The CLI ends; nobody watches it when mailbus died in between.           *)
Exit(m) ==
    /\ m \in cli
    /\ cli' = cli \ {m}
    /\ UNCHANGED <<kind, box, live, job, scan, events, watch, agentVars>>

(* _save_reply after the exit: a task without its result is reset unless a *)
(* CLI for it runs again.                                                  *)
Watched(m) ==
    /\ m \in watch \ cli
    /\ watch' = watch \ {m}
    /\ box' = IF m \in Task /\ ~Delivered(m) THEN [box EXCEPT ![m] = Reset(@)] ELSE box
    /\ UNCHANGED <<kind, live, job, scan, events, cli, agentVars>>

(* Its timeout: the CLI is killed and its task reset without a look at the *)
(* result.                                                                 *)
TimeOut(m) ==
    /\ m \in watch \cap cli
    /\ watch' = watch \ {m} /\ cli' = cli \ {m}
    /\ box' = IF m \in Task THEN [box EXCEPT ![m] = Reset(@)] ELSE box
    /\ UNCHANGED <<kind, live, job, scan, events, agentVars>>

----------------------------------------------------------------------------
(* People, time and events.                                               *)

(* cmd_retry <id>, in any state.                                           *)
Retry(m) ==
    /\ "retry" \in events /\ m \in Sent /\ box[m] # Reset(box[m])
    /\ box' = [box EXCEPT ![m] = Reset(@)]
    /\ UNCHANGED <<kind, live, job, scan, events, cli, watch, agentVars>>

(* The step of an order is given to somebody else, or its task stopped.    *)
StepEnds(m) ==
    /\ "step ends" \in events /\ m \in live
    /\ live' = live \ {m}
    /\ UNCHANGED <<kind, box, job, scan, events, agentVars, cliVars>>

Tick(m) ==
    /\ m \in Sent /\ box[m].age < 2
    /\ box' = [box EXCEPT ![m].age = @ + 1]
    /\ UNCHANGED <<kind, live, job, scan, events, agentVars, cliVars>>

(* mailbus dies: the scan, the pushes and the threads are gone, the CLIs   *)
(* (sessions of their own) and the files stay.                             *)
Crash ==
    /\ "crash" \in events /\ events' = events \ {"crash"}
    /\ job' = [p \in Pusher |-> Idle] /\ scan' = "idle" /\ watch' = {}
    /\ UNCHANGED <<kind, box, live, cli, agentVars>>

Next == \/ \E m \in Msg : \/ Send(m) \/ Ack(m) \/ Answer(m) \/ Exit(m)
                          \/ Watched(m) \/ TimeOut(m) \/ Retry(m) \/ StepEnds(m) \/ Tick(m)
        \/ Scan \/ Push("api") \/ Crash

(* mailbus scans again and again, the API finishes its pushes, a CLI that  *)
(* is watched is killed at its timeout, and time passes.  Nobody has to    *)
(* answer, and a CLI that nobody watches may run for ever.                 *)
Fairness == /\ WF_vars(Scan) /\ WF_vars(Push("api"))
            /\ \A m \in Msg : WF_vars(TimeOut(m)) /\ WF_vars(Watched(m)) /\ WF_vars(Tick(m))

Spec == Init /\ [][Next]_vars /\ Fairness

----------------------------------------------------------------------------
TypeOK == /\ kind \in [Msg -> Kind]
          /\ box \in [Msg -> Record]
          /\ live \subseteq Order /\ answered \subseteq Task
          /\ cli \subseteq Sent /\ watch \subseteq Sent /\ ackFile \subseteq Sent
          /\ job \in [Pusher -> [msg : Msg \cup {Nobody},
                                 step : {"idle", "mark", "launch", "finish"}]]
          /\ scan \in {"idle", "heal", "recover", "pick", "push"}
          /\ events \subseteq Event

(* A task is closed only when its result is there or its step is somebody  *)
(* else's: no ack, reset, late exit of a CLI or second push closes it.      *)
ClosedTaskAnswered == \A m \in Task : box[m].state = "done" => Delivered(m)

(* A message waits for a push only with its count reset, so that the push  *)
(* limit and the cooldown between two pushes cannot apply to it.           *)
WaitingIsUncounted == \A m \in Waiting : box[m].count = 0

(* The task the scan would serve first: running orders, then tasks, the    *)
(* oldest first.                                                           *)
Open(m) == m \in (Task \cap Sent) \ (Order \ live) /\ box[m].state # "done"
First(m) == Open(m) /\ \A n \in Task : Open(n) /\ n # m =>
                          \/ m \in live /\ n \notin live
                          \/ m < n /\ (m \in live <=> n \in live)
Pushing(m) == \E p \in Pusher : job[p].msg = m

(* It never stays so that nobody works on the first open task and nobody   *)
(* pushes it, unless scans fail: no reset, ack, crash, lost thread or other *)
(* message leaves it behind.                                               *)
Forgotten == \E m \in Msg : First(m) /\ ~Pushing(m) /\ m \notin cli
FirstTaskPushed == []<>(~Forgotten \/ ScanFails)

(* Orders whose step has ended leave the inbox in the end.                 *)
WithdrawnOrderClosed ==
    []<>((\A m \in (Order \cap Sent) \ live : box[m].state = "done") \/ ScanFails)
=============================================================================
