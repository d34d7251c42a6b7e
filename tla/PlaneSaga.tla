----------------------------- MODULE PlaneSaga ------------------------------
(***************************************************************************)
(* Enabling and disabling agent frameworks (application/lifecycle.py): an  *)
(* operation reads the whole of config.json, notes its intent, starts the  *)
(* framework on the host or in its container, probes it, and commits, or   *)
(* stops it again and restores the entry it found.  A lock per framework   *)
(* keeps operations on one apart; operations on two frameworks write one   *)
(* file from memory.                                                       *)
(***************************************************************************)
EXTENDS Naturals, FiniteSets

CONSTANTS Framework, NoConfig

Mount == {"host", "container"}
Working == {"intent", "start", "commit", "undo", "restore", "stop", "disable"}

VARIABLES config,   \* each framework's entry: on, mount
          runs,     \* the mounts a framework runs on
          saga,     \* what the operation on a framework does next
          memory,   \* the config it works on
          before,   \* the entry it found
          untidy    \* a framework could not be stopped, or a write undid another's

sagaVars == <<config, runs, saga, memory, before, untidy>>

(* pending_enable is left out: it is only set together with enabled, and    *)
(* only read in "enabled or pending_enable".                                *)
Entry == [on : BOOLEAN, mount : Mount]
Off == [on |-> FALSE, mount |-> "container"]

SagaInit ==
    /\ config = [f \in Framework |-> Off]
    /\ runs = [f \in Framework |-> {}]
    /\ saga = [f \in Framework |-> "none"]
    /\ memory = [f \in Framework |-> NoConfig]
    /\ before = [f \in Framework |-> Off]
    /\ untidy = FALSE

Goes(f, stage) == saga' = [saga EXCEPT ![f] = stage]

Done(f) ==
    /\ Goes(f, "none")
    /\ memory' = [memory EXCEPT ![f] = NoConfig]
    /\ before' = [before EXCEPT ![f] = Off]

(* Mutant: the mount is not compared.                                       *)
MutantMountFree(e, m) == e.on \in BOOLEAN /\ m \in Mount

(* assert_exclusive                                                         *)
MountFree(e, m) == e.on => e.mount = m

EnableBegins(f, m) ==
    /\ saga[f] = "none" /\ MountFree(config[f], m)
    /\ memory' = [memory EXCEPT ![f] =
                     [config EXCEPT ![f] = [on |-> TRUE, mount |-> m]]]
    /\ before' = [before EXCEPT ![f] = config[f]]
    /\ Goes(f, "intent")
    /\ UNCHANGED <<config, runs, untidy>>

(* json_write of the config in memory: entries of other frameworks that     *)
(* changed since it was read go back to what they were.                     *)
WriteConfig(f, doc) ==
    /\ config' = doc
    /\ untidy' = (untidy \/ \E g \in Framework \ {f} : doc[g] # config[g])

Intent(f) ==
    /\ saga[f] = "intent"
    /\ WriteConfig(f, memory[f])
    /\ Goes(f, "start")
    /\ UNCHANGED <<runs, memory, before>>

(* start_framework and probe_framework: a start that fails may have started *)
(* something, and a started one may not answer the probe.                   *)
Start(f) ==
    /\ saga[f] = "start"
    /\ \/ /\ runs' = [runs EXCEPT ![f] = @ \cup {memory[f][f].mount}]
          /\ Goes(f, "commit") \/ Goes(f, "undo")
       \/ runs' = runs /\ Goes(f, "undo")
    /\ UNCHANGED <<config, memory, before, untidy>>

CommitEnable(f) ==
    /\ saga[f] = "commit"
    /\ WriteConfig(f, memory[f])
    /\ Done(f)
    /\ UNCHANGED runs

(* stop_framework: a failure is logged and changes nothing; without a stop  *)
(* command it succeeds and changes nothing.                                 *)
StopOn(f, m) ==
    \/ runs' = [runs EXCEPT ![f] = @ \ {m}] /\ untidy' = untidy
    \/ runs' = runs /\ untidy' = (untidy \/ m \in runs[f])

(* Mutant: the entry is restored, and the framework left as it is.          *)
MutantUndo(f) ==
    /\ saga[f] = "undo"
    /\ Goes(f, "restore")
    /\ UNCHANGED <<config, runs, memory, before, untidy>>

(* _compensate                                                              *)
Undo(f) ==
    /\ saga[f] = "undo"
    /\ StopOn(f, memory[f][f].mount)
    /\ Goes(f, "restore")
    /\ UNCHANGED <<config, memory, before>>

RestoreEntry(f) ==
    /\ saga[f] = "restore"
    /\ WriteConfig(f, [memory[f] EXCEPT ![f] = before[f]])
    /\ Done(f)
    /\ UNCHANGED runs

DisableBegins(f) ==
    /\ saga[f] = "none"
    /\ memory' = [memory EXCEPT ![f] = config]
    /\ Goes(f, "stop")
    /\ UNCHANGED <<config, runs, before, untidy>>

DisableStops(f) ==
    /\ saga[f] = "stop"
    /\ StopOn(f, memory[f][f].mount)
    /\ Goes(f, "disable")
    /\ UNCHANGED <<config, memory, before>>

DisableWrites(f) ==
    /\ saga[f] = "disable"
    /\ WriteConfig(f, [memory[f] EXCEPT ![f].on = FALSE])
    /\ Done(f)
    /\ UNCHANGED runs

(* The process dies; its lock is gone, the entry stays as it is.            *)
SagaDies(f) ==
    /\ saga[f] # "none"
    /\ Done(f)
    /\ UNCHANGED <<config, runs, untidy>>

(* Bound: an untidy state is where a behaviour is left.                     *)
SagaNext ==
    /\ ~untidy
    /\ \E f \in Framework :
          \/ \E m \in Mount : EnableBegins(f, m)
          \/ Intent(f) \/ Start(f) \/ CommitEnable(f) \/ Undo(f) \/ RestoreEntry(f)
          \/ DisableBegins(f) \/ DisableStops(f) \/ DisableWrites(f) \/ SagaDies(f)

SagaSpec == SagaInit /\ [][SagaNext]_sagaVars

-----------------------------------------------------------------------------
SagaTypeOK ==
    /\ config \in [Framework -> Entry]
    /\ runs \in [Framework -> SUBSET Mount]
    /\ saga \in [Framework -> Working \cup {"none"}]
    /\ memory \in [Framework -> [Framework -> Entry] \cup {NoConfig}]
    /\ before \in [Framework -> Entry]
    /\ untidy \in BOOLEAN

(* "Mount mutex: container|host exclusive per framework": whatever starts   *)
(* fail, probes time out and processes die, a framework runs nowhere but on *)
(* the mount its entry names, and only while that entry is on.  A stop that *)
(* fails and a write that undoes another framework's are the ways out.      *)
RunsAsConfigured ==
    untidy \/ \A f \in Framework :
        runs[f] # {} => config[f].on /\ runs[f] = {config[f].mount}
=============================================================================
