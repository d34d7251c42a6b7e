------------------------------ MODULE TaskLock ------------------------------
(***************************************************************************)
(* The lock of one task, locks/task-<id>.json (task_lock.py), with its     *)
(* users: _send_task, which takes it for a push or goes on under whatever  *)
(* lock it finds, recover_continue, which holds it over its push, and a    *)
(* cancel, which releases it for whoever holds it.  The lock is a record   *)
(* with a holder's NAME and a time: calls with one name share it, and one  *)
(* whose time is up can be taken over.                                     *)
(***************************************************************************)

CONSTANTS Pusher,     \* calls of _send_task
          Recoverer,  \* calls of recover_continue, all named mailbus-recover
          StepOf,     \* the agent and step a pusher sends, part of its name
          NoHolder

Caller == Pusher \cup Recoverer
HolderName(c) == IF c \in Recoverer THEN "mailbus-recover" ELSE StepOf[c]

ASSUME TaskLockAssumption ==
    /\ Pusher \cap Recoverer = {}
    /\ \A p \in Pusher : StepOf[p] \notin {"mailbus-recover", NoHolder}
    /\ NoHolder # "mailbus-recover"

VARIABLES holder,   \* the name in the lock file, NoHolder without a file
          stale,    \* its ttl is over
          seen,     \* the holder each call has read, before it goes on
          where,    \* where each call is
          took,     \* the calls that acquired the lock themselves
          excused   \* calls whose lock was lost: by time, a cancel, a namesake

taskLockVars == <<holder, stale, seen, where, took, excused>>

Live == IF stale THEN NoHolder ELSE holder
Namesakes(n) == {c \in Caller : HolderName(c) = n}

TaskLockInit ==
    /\ holder = NoHolder /\ stale = FALSE
    /\ seen = [c \in Caller |-> NoHolder]
    /\ where = [c \in Caller |-> "out"]
    /\ took = {} /\ excused = {}

(* task_lock_holder: a recovery gives up when it reads another's name.      *)
LookAtLock(c) ==
    /\ where[c] = "out"
    /\ seen' = [seen EXCEPT ![c] = Live]
    /\ where' = [where EXCEPT ![c] =
           IF c \in Recoverer /\ Live \notin {NoHolder, HolderName(c)} THEN "out" ELSE "looked"]
    /\ UNCHANGED <<holder, stale, took, excused>>

(* A push that read a holder works under that one's lock.                   *)
Borrow(c) ==
    /\ where[c] = "looked" /\ c \in Pusher /\ seen[c] # NoHolder
    /\ where' = [where EXCEPT ![c] = "inside"]
    /\ UNCHANGED <<holder, stale, seen, took, excused>>

(* acquire_task_lock: free, overdue, or held by the caller's own name,      *)
(* whose time is then not renewed.                                          *)
AcquireLock(c) ==
    /\ where[c] = "looked" /\ (c \in Pusher => seen[c] = NoHolder)
    /\ IF Live \in {NoHolder, HolderName(c)}
       THEN /\ holder' = HolderName(c) /\ stale' = FALSE
            /\ took' = took \cup {c} /\ excused' = excused \ {c}
            /\ where' = [where EXCEPT ![c] = "inside"]
            /\ seen' = [seen EXCEPT ![c] = HolderName(c)]
       ELSE /\ where' = [where EXCEPT ![c] = "out"]
            /\ UNCHANGED <<holder, stale, seen, took, excused>>

(* release_task_lock(name): the file goes when the name in it is the same.  *)
Unlock(n) == IF holder = n THEN holder' = NoHolder /\ stale' = FALSE ELSE UNCHANGED <<holder, stale>>

(* The calls whose lock that was, other than c, have lost it.               *)
Excuse(n, c) == excused' = (excused \cup (Namesakes(n) \cap took)) \ {c}

Leaves(c) ==
    /\ where' = [where EXCEPT ![c] = "out"]
    /\ seen' = [seen EXCEPT ![c] = NoHolder]
    /\ took' = took \ {c}

(* Mutant: a push releases the lock it has borrowed.                        *)
MutantLeave(c) ==
    /\ where[c] = "inside" /\ Leaves(c)
    /\ Unlock(seen[c])
    /\ IF c \in took THEN Excuse(seen[c], c) ELSE UNCHANGED excused

(* Only a call that acquired the lock releases it.                          *)
Leave(c) ==
    /\ where[c] = "inside" /\ Leaves(c)
    /\ IF c \in took THEN Unlock(seen[c]) /\ Excuse(seen[c], c)
                      ELSE UNCHANGED <<holder, stale, excused>>

CallerDies(c) ==
    /\ where[c] # "out" /\ Leaves(c)
    /\ excused' = excused \ {c}
    /\ UNCHANGED <<holder, stale>>

TtlEnds ==
    /\ holder # NoHolder /\ ~stale
    /\ stale' = TRUE
    /\ excused' = excused \cup (Namesakes(holder) \cap took)
    /\ UNCHANGED <<holder, seen, where, took>>

(* apply_cancel_task, for a holder that is not overdue.                     *)
CancelUnlocks ==
    /\ Live # NoHolder
    /\ Unlock(holder)
    /\ excused' = excused \cup (Namesakes(holder) \cap took)
    /\ UNCHANGED <<seen, where, took>>

TaskLockNext ==
    \/ \E c \in Caller : LookAtLock(c) \/ Borrow(c) \/ AcquireLock(c) \/ Leave(c) \/ CallerDies(c)
    \/ TtlEnds \/ CancelUnlocks

TaskLockSpec == TaskLockInit /\ [][TaskLockNext]_taskLockVars

-----------------------------------------------------------------------------
TaskLockTypeOK ==
    /\ holder \in {HolderName(c) : c \in Caller} \cup {NoHolder}
    /\ stale \in BOOLEAN
    /\ seen \in [Caller -> {HolderName(c) : c \in Caller} \cup {NoHolder}]
    /\ where \in [Caller -> {"out", "looked", "inside"}]
    /\ took \in SUBSET Caller /\ excused \in SUBSET Caller

(* "The lock is held over the repush": a call that acquired the lock has it *)
(* until it leaves, and so keeps calls of every other name from acquiring   *)
(* it, however many pushes work under it meanwhile.  It loses it only when  *)
(* its time is up, the task is cancelled, or a call of its own name leaves. *)
LockHeld == \A c \in took \ excused : holder = HolderName(c) /\ ~stale
=============================================================================
