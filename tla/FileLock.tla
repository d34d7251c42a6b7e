------------------------------ MODULE FileLock ------------------------------
(***************************************************************************)
(* The advisory file lock of the bus, file_lock() in                       *)
(* python/lib/infra/utils.py.  Every JSON read and write of the store goes *)
(* through it.  A call opens the lock file of its path, polls flock() (or  *)
(* msvcrt.locking) until a deadline, falls back to ONE global lock file    *)
(* when the deadline passes, and raises when that one is busy as well.     *)
(* Its finally clause releases and closes the descriptor and unlinks the   *)
(* lock file of the path, whichever way the call ended.                    *)
(*                                                                         *)
(* A lock is held on an inode, not on a name: the model keeps both, since  *)
(* unlinking a name other processes have open gives the next caller a      *)
(* fresh inode.  A Proc is one thread; its calls nest, stack[p] is their   *)
(* order and only the top one moves.  A nested call of a path the thread   *)
(* is already in takes no lock and changes nothing, so it is not a step.   *)
(***************************************************************************)
EXTENDS Naturals, Sequences, FiniteSets

CONSTANTS
    Proc,          \* threads (of any number of processes)
    Path,          \* store files, each with a lock file of its own
    Inode,         \* inodes of the lock directory
    Global,        \* the name of mailbus.lock
    None,          \* no inode, no owner
    UnlinkOpen,    \* the paths whose lock file can be unlinked while others
                   \* have it open: all on POSIX, none on Windows, where
                   \* that unlink fails (and is swallowed)
    MaxDepth       \* bound on the nesting of calls in one thread

ASSUME NamesAssumption ==
    /\ Global \notin Path
    /\ None \notin Inode
    /\ None \notin Proc \X Path
    /\ UnlinkOpen \subseteq Path
    /\ MaxDepth \in Nat \ {0}

VARIABLES
    dir,     \* name -> the inode it refers to
    owner,   \* inode -> the descriptor holding its lock, a <<thread, path>>
    fd,      \* thread, path -> the inode its lock_fd refers to
    place,   \* thread, path -> where the call is
    stack    \* thread -> the paths of its open calls, innermost first

lockVars == <<dir, owner, fd, place, stack>>

Name == Path \cup {Global}

(* "trying", "fallback": polling the lock of the path, the global lock;     *)
(* "body": inside the with block holding the path's lock; "fallbackBody":   *)
(* inside it holding the global lock; "nested": inside it through the       *)
(* global lock an enclosing call holds; "unlinking": released and closed.   *)
Place == {"out", "trying", "fallback", "body", "fallbackBody", "nested",
          "unlinking"}

InBody == {"body", "fallbackBody", "nested"}

LockTypeOK ==
    /\ dir \in [Name -> Inode \cup {None}]
    /\ owner \in [Inode -> (Proc \X Path) \cup {None}]
    /\ fd \in [Proc -> [Path -> Inode \cup {None}]]
    /\ place \in [Proc -> [Path -> Place]]
    /\ stack \in [Proc -> Seq(Path)]

LockInit ==
    /\ dir = [n \in Name |-> None]
    /\ owner = [i \in Inode |-> None]
    /\ fd = [p \in Proc |-> [f \in Path |-> None]]
    /\ place = [p \in Proc |-> [f \in Path |-> "out"]]
    /\ stack = [p \in Proc |-> <<>>]

-----------------------------------------------------------------------------

(* held: the locks the thread owns, consulted for re-entrance.              *)
HoldsGlobal(p) == \E f \in Path : place[p][f] = "fallbackBody"

Top(p, f) == stack[p] # <<>> /\ Head(stack[p]) = f

IsOpen(i) == \E p \in Proc, f \in Path : fd[p][f] = i

Unused(i) == ~IsOpen(i) /\ \A n \in Name : dir[n] # i

(* open(name): the file's inode, or a fresh one that gets the name, always  *)
(* the same one of those that could: inodes differ in nothing else.         *)
OpenName(n, i) ==
    \/ dir[n] = i /\ dir' = dir
    \/ /\ dir[n] = None /\ Unused(i)
       /\ i = CHOOSE k \in Inode : Unused(k)
       /\ dir' = [dir EXCEPT ![n] = i]

Goto(p, f, ph) == place' = [place EXCEPT ![p][f] = ph]

(* The thread may start a call: outside any, or inside the body of one.     *)
MayCall(p, f) ==
    /\ place[p][f] = "out"
    /\ Len(stack[p]) < MaxDepth
    /\ stack[p] # <<>> => place[p][Head(stack[p])] \in InBody

(* file_lock(path=f) up to the first poll, when nothing held covers f.      *)
Enter(p, f) ==
    /\ MayCall(p, f)
    /\ ~HoldsGlobal(p)
    /\ \E i \in Inode :
          /\ OpenName(f, i)
          /\ fd' = [fd EXCEPT ![p][f] = i]
    /\ Goto(p, f, "trying")
    /\ stack' = [stack EXCEPT ![p] = <<f>> \o @]
    /\ UNCHANGED owner

(* The thread holds the global lock: the call passes straight through.      *)
EnterNested(p, f) ==
    /\ MayCall(p, f)
    /\ HoldsGlobal(p)
    /\ Goto(p, f, "nested")
    /\ stack' = [stack EXCEPT ![p] = <<f>> \o @]
    /\ UNCHANGED <<dir, owner, fd>>

(* A poll that succeeds: the inode the descriptor refers to is free.        *)
Lock(p, f, from, to) ==
    /\ Top(p, f)
    /\ place[p][f] = from
    /\ owner[fd[p][f]] = None
    /\ owner' = [owner EXCEPT ![fd[p][f]] = <<p, f>>]
    /\ Goto(p, f, to)
    /\ UNCHANGED <<dir, fd, stack>>

Acquire(p, f) == Lock(p, f, "trying", "body")

AcquireGlobal(p, f) == Lock(p, f, "fallback", "fallbackBody")

(* Mutant: a blocking flock, whose deadline is never looked at.             *)
MutantNoDeadline(p, f) == FALSE /\ UNCHANGED lockVars

(* The deadline passes while another descriptor holds the lock: close, and  *)
(* open the global lock file.                                               *)
FallBack(p, f) ==
    /\ Top(p, f)
    /\ place[p][f] = "trying"
    /\ owner[fd[p][f]] # None
    /\ \E i \in Inode :
          /\ OpenName(Global, i)
          /\ fd' = [fd EXCEPT ![p][f] = i]
    /\ Goto(p, f, "fallback")
    /\ UNCHANGED <<owner, stack>>

(* The second deadline passes: TimeoutError.  Nothing was acquired, but the *)
(* finally clause still closes and goes on to unlink the path's lock file.  *)
GiveUp(p, f) ==
    /\ Top(p, f)
    /\ place[p][f] = "fallback"
    /\ owner[fd[p][f]] # None
    /\ fd' = [fd EXCEPT ![p][f] = None]
    /\ Goto(p, f, "unlinking")
    /\ UNCHANGED <<dir, owner, stack>>

(* Mutant: the release is not in a finally clause and an exception skips it.*)
MutantNoFinally(p, f) ==
    /\ Top(p, f)
    /\ place[p][f] \in {"body", "fallbackBody"}
    /\ Goto(p, f, "unlinking")
    /\ UNCHANGED <<dir, owner, fd, stack>>

(* The body ends, normally or by an exception: held.discard, unlock, close. *)
Release(p, f) ==
    /\ Top(p, f)
    /\ place[p][f] \in {"body", "fallbackBody"}
    /\ owner' = [owner EXCEPT ![fd[p][f]] = None]
    /\ fd' = [fd EXCEPT ![p][f] = None]
    /\ Goto(p, f, "unlinking")
    /\ UNCHANGED <<dir, stack>>

Return(p, f) ==
    /\ Goto(p, f, "out")
    /\ stack' = [stack EXCEPT ![p] = Tail(@)]

(* The body of a call that took no lock ends: nothing to release.           *)
LeaveNested(p, f) ==
    /\ Top(p, f)
    /\ place[p][f] = "nested"
    /\ Return(p, f)
    /\ UNCHANGED <<dir, owner, fd>>

(* Mutant: the lock file that was effective is unlinked, the global one too.*)
MutantUnlinkGlobal(p, f) ==
    /\ Top(p, f)
    /\ place[p][f] = "unlinking"
    /\ dir' = [dir EXCEPT ![f] = None, ![Global] = None]
    /\ Return(p, f)
    /\ UNCHANGED <<owner, fd>>

(* os.unlink(lock_file), an OSError is ignored: always the path's own lock  *)
(* file, never the global one.                                              *)
UnlinkLockFile(p, f) ==
    /\ Top(p, f)
    /\ place[p][f] = "unlinking"
    /\ dir' = IF f \in UnlinkOpen \/ ~IsOpen(dir[f])
              THEN [dir EXCEPT ![f] = None] ELSE dir
    /\ Return(p, f)
    /\ UNCHANGED <<owner, fd>>

(* The process is killed: the system drops its locks and descriptors, the   *)
(* lock files stay.                                                         *)
Die(p) ==
    /\ stack[p] # <<>>
    /\ owner' = [i \in Inode |-> IF \E f \in Path : owner[i] = <<p, f>>
                                 THEN None ELSE owner[i]]
    /\ fd' = [fd EXCEPT ![p] = [f \in Path |-> None]]
    /\ place' = [place EXCEPT ![p] = [f \in Path |-> "out"]]
    /\ stack' = [stack EXCEPT ![p] = <<>>]
    /\ UNCHANGED dir

(* What the code of one call does once it has started.                      *)
LockStep(p, f) ==
    \/ Acquire(p, f) \/ FallBack(p, f)
    \/ AcquireGlobal(p, f) \/ GiveUp(p, f)
    \/ Release(p, f) \/ LeaveNested(p, f) \/ UnlinkLockFile(p, f)

LockNext ==
    \E p \in Proc :
       \/ \E f \in Path : Enter(p, f) \/ EnterNested(p, f) \/ LockStep(p, f)
       \/ Die(p)

LockSpec == LockInit /\ [][LockNext]_lockVars

(* A thread that started a call is scheduled, the polls are bounded by a    *)
(* clock that advances, and a body is finite; new calls are nobody's duty.  *)
LockFairSpec == LockSpec /\ \A p \in Proc, f \in Path : WF_lockVars(LockStep(p, f))

-----------------------------------------------------------------------------

Inside(p, f) == place[p][f] \in InBody

Polls(p, f) == place[p][f] \in {"trying", "fallback"}

(* file_lock's docstring: no two processes write the same file at once.     *)
MutualExclusion ==
    \A p, q \in Proc, f \in Path : Inside(p, f) /\ Inside(q, f) => p = q

(* The global lock file is never unlinked, so the fallback really excludes: *)
(* two threads never work under the global lock at the same time, whatever  *)
(* timeouts, nesting and crashes led there.                                 *)
FallbackExclusion ==
    \A p, q \in Proc : HoldsGlobal(p) /\ HoldsGlobal(q) => p = q

(* Where an open file cannot be unlinked, two threads that both hold the    *)
(* lock of one path itself exclude each other: the fallback is then the     *)
(* only way past a held lock.                                               *)
OwnLockExclusion ==
    \A p, q \in Proc, f \in Path \ UnlinkOpen :
        place[p][f] = "body" /\ place[q][f] = "body" => p = q

(* The locks that hold what they promise: the global one, whose file is     *)
(* never unlinked, and those of the paths whose file cannot be while open.  *)
SureLocks == {Global} \cup (Path \ UnlinkOpen)

(* p is inside its with block by virtue of lock l.                          *)
Has(p, l) == IF l = Global THEN HoldsGlobal(p) ELSE place[p][l] = "body"

SureLock == INSTANCE Mutex WITH
    Thread <- Proc, LockName <- SureLocks,
    holders <- [l \in SureLocks |-> {p \in Proc : Has(p, l)}]

(* file_lock's descriptors, inodes, polls, timeouts and fallbacks amount to *)
(* a mutex for each of these locks: taken only when nobody has it, given    *)
(* back by whoever took it or lost with his process, never by an unlink.    *)
KeepsMutex == SureLock!Spec

(* A crash or a timeout leaves no lock behind: an owned inode is owned by a *)
(* descriptor of a call that is inside its body.                            *)
NoOrphanLock ==
    \A i \in Inode : owner[i] # None =>
       \E p \in Proc, f \in Path :
          owner[i] = <<p, f>> /\ fd[p][f] = i /\ Inside(p, f)

(* "with a timeout, against deadlock": a call that waits gets in or gives   *)
(* up, even when threads wait for each other's locks in opposite orders.    *)
NoDeadlock ==
    \A p \in Proc, f \in Path : Polls(p, f) ~> ~Polls(p, f)

=============================================================================
