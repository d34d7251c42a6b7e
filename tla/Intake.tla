------------------------------- MODULE Intake -------------------------------
(***************************************************************************)
(* One order of leads/order-intake.json (application/workflow/intake): its *)
(* gates, approved or denied by people, and the tasks spawned for it by an *)
(* approval, by a spawn request, or by the bridge job that makes up for a  *)
(* missing analysis.  A request reads the order, checks that the task does *)
(* not exist, creates it, and writes the order it has read, as a whole.    *)
(***************************************************************************)
CONSTANTS Request,   \* requests and runs of the bridge
          Spawnable, \* the kinds of tasks: analyze, solution, content
          Gate,      \* the gates, those that spawn a task named by its kind
          NoOrder    \* no order read

VARIABLES lead,       \* the stored order: its linked tasks and its gates
          spawned,    \* the tasks that exist
          copy,       \* the order each request has read and changed
          doing,      \* what each request is at: a stage, a kind or gate
          disturbed   \* a request died, or two were at work together

intakeVars == <<lead, spawned, copy, doing, disturbed>>

Idle == [stage |-> "idle", verb |-> "none", what |-> "none"]
Running == {r \in Request : doing[r] # Idle}

IntakeInit ==
    /\ lead = [link |-> {}, gate |-> [g \in Gate |-> "pending"]]
    /\ spawned = {}
    /\ copy = [r \in Request |-> NoOrder]
    /\ doing = [r \in Request |-> Idle]
    /\ disturbed = FALSE

At(r, stage) == doing' = [doing EXCEPT ![r].stage = stage]
Ends(r) == doing' = [doing EXCEPT ![r] = Idle] /\ copy' = [copy EXCEPT ![r] = NoOrder]

(* The order is read.  An approval refuses a gate that is approved, spawns  *)
(* nothing for what is linked, and marks the gate in its copy; a denial     *)
(* looks at nothing.                                                        *)
Begin(r, verb, what) ==
    /\ doing[r] = Idle
    /\ \/ /\ verb = "approve" /\ what \in Gate /\ lead.gate[what] # "approved"
          /\ what \notin lead.link
          /\ copy' = [copy EXCEPT ![r] = [lead EXCEPT !.gate[what] = "approved"]]
       \/ /\ verb = "deny" /\ what \in Gate
          /\ copy' = [copy EXCEPT ![r] = [lead EXCEPT !.gate[what] = "denied"]]
       \/ /\ verb = "spawn" /\ what \in Spawnable /\ what \notin lead.link
          /\ copy' = [copy EXCEPT ![r] = lead]
    /\ doing' = [doing EXCEPT ![r] = [verb |-> verb, what |-> what, stage |->
                    IF verb = "deny" \/ what \notin Spawnable THEN "write" ELSE "check"]]
    /\ disturbed' = (disturbed \/ Running # {})
    /\ UNCHANGED <<lead, spawned>>

(* _create_task: a task of that id is there, and nothing is written ...     *)
Check(r) ==
    /\ doing[r].stage = "check"
    /\ IF doing[r].what \in spawned THEN Ends(r) ELSE At(r, "create") /\ copy' = copy
    /\ UNCHANGED <<lead, spawned, disturbed>>

(* Mutant: the link is written before the task.                             *)
MutantCreate(r) ==
    /\ doing[r].stage = "create"
    /\ lead' = [copy[r] EXCEPT !.link = @ \cup {doing[r].what}]
    /\ copy' = [copy EXCEPT ![r] = lead']
    /\ At(r, "write")
    /\ UNCHANGED <<spawned, disturbed>>

(* ... or it is created, over one that came meanwhile.                      *)
Create(r) ==
    /\ doing[r].stage = "create"
    /\ spawned' = spawned \cup {doing[r].what}
    /\ copy' = [copy EXCEPT ![r].link = @ \cup {doing[r].what}]
    /\ At(r, "link")
    /\ UNCHANGED <<lead, disturbed>>

(* upsert replaces the order by the request's copy, under the lock: with    *)
(* the new link; an approval does so twice.                                 *)
Link(r) ==
    /\ doing[r].stage = "link"
    /\ lead' = copy[r]
    /\ IF doing[r].verb = "approve" THEN At(r, "write") /\ copy' = copy ELSE Ends(r)
    /\ UNCHANGED <<spawned, disturbed>>

(* Mutant: the gate is written with the order as it was before the spawn.   *)
MutantWrite(r) ==
    /\ doing[r].stage = "write"
    /\ lead' = [copy[r] EXCEPT !.link = @ \ {doing[r].what}]
    /\ Ends(r)
    /\ UNCHANGED <<spawned, disturbed>>

Write(r) ==
    /\ doing[r].stage = "write"
    /\ lead' = copy[r]
    /\ Ends(r)
    /\ UNCHANGED <<spawned, disturbed>>

RequestDies(r) ==
    /\ doing[r] # Idle
    /\ Ends(r)
    /\ disturbed' = TRUE
    /\ UNCHANGED <<lead, spawned>>

IntakeNext ==
    \E r \in Request :
       \/ \E verb \in {"approve", "deny", "spawn"}, what \in Spawnable \cup Gate : Begin(r, verb, what)
       \/ Check(r) \/ Create(r) \/ Link(r) \/ Write(r) \/ RequestDies(r)

IntakeSpec == IntakeInit /\ [][IntakeNext]_intakeVars

-----------------------------------------------------------------------------
Order == [link : SUBSET Spawnable, gate : [Gate -> {"pending", "approved", "denied"}]]

IntakeTypeOK ==
    /\ lead \in Order
    /\ spawned \in SUBSET Spawnable
    /\ copy \in [Request -> Order \cup {NoOrder}]
    /\ doing \in [Request -> [stage : {"idle", "check", "create", "link", "write"},
                              verb : {"none", "approve", "deny", "spawn"},
                              what : Spawnable \cup Gate \cup {"none"}]]
    /\ disturbed \in BOOLEAN

(* Whatever requests overtake each other or die: what an order links was    *)
(* created, and a gate that starts a task is only approved once it was.     *)
LinkedExists ==
    /\ lead.link \subseteq spawned
    /\ \A g \in Gate \cap Spawnable : lead.gate[g] = "approved" => g \in spawned

(* Requests that came one after the other and ran to their end leave every  *)
(* task linked: only a death or an overtaking leaves one its order does not *)
(* know of, which no approval can ever create again.                        *)
AloneIsWhole == ~disturbed /\ Running = {} => lead.link = spawned
=============================================================================
