------------------------------- MODULE Mutex --------------------------------
(***************************************************************************)
(* What a caller of file_lock() counts on: a lock is held by one thread at *)
(* a time, who gives it back or dies.  FileLock implements it for the      *)
(* locks whose file nobody unlinks while it is open.                       *)
(***************************************************************************)
CONSTANTS
    Thread,   \* those that take locks
    LockName  \* what they take

VARIABLE holders   \* lock -> the threads that hold it

Init == holders = [l \in LockName |-> {}]

Take(t, l) ==
    /\ holders[l] = {}
    /\ holders' = [holders EXCEPT ![l] = {t}]

Give(t, l) ==
    /\ holders[l] = {t}
    /\ holders' = [holders EXCEPT ![l] = {}]

(* A thread that is gone holds nothing.                                     *)
Vanish(t) == holders' = [l \in LockName |-> holders[l] \ {t}]

Next ==
    \E t \in Thread :
        Vanish(t) \/ \E l \in LockName : Take(t, l) \/ Give(t, l)

Spec == Init /\ [][Next]_holders
=============================================================================
