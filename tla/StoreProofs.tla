----------------------------- MODULE StoreProofs ------------------------------
(*****************************************************************************)
(* Proofs about the file lock and the small stores, each for any number of   *)
(* its users: FileLock, which implements Mutex for the locks whose file      *)
(* nobody unlinks, TaskLock, Intake, PlaneSaga and JsonStore.                *)
(*****************************************************************************)
EXTENDS FileLock, TaskLock, Intake, PlaneSaga, JsonStore, TLAPS

(* A call that polls or holds a lock has a descriptor.                      *)
HasFd ==
    \A p \in Proc, f \in Path :
       place[p][f] \in {"trying", "body", "fallback", "fallbackBody"}
          => fd[p][f] \in Inode

(* Every call in the fallback refers to the one inode of the global name.   *)
OneGlobalInode ==
    \A p \in Proc, f \in Path :
       place[p][f] \in {"fallback", "fallbackBody"} => fd[p][f] = dir[Global]

(* Inside its body a call owns the inode its descriptor refers to.          *)
BodyOwns ==
    \A p \in Proc, f \in Path :
       place[p][f] \in {"body", "fallbackBody"} => owner[fd[p][f]] = <<p, f>>

(* Only a call inside its body owns an inode.                               *)
OwnerInBody ==
    \A i \in Inode, p \in Proc, f \in Path :
       owner[i] = <<p, f>> =>
          fd[p][f] = i /\ place[p][f] \in {"body", "fallbackBody"}

(* Where open files cannot be unlinked a path has one inode while in use.   *)
OnePathInode ==
    \A p \in Proc, f \in Path \ UnlinkOpen :
       place[p][f] \in {"trying", "body"} => fd[p][f] = dir[f]

FileInv == /\ LockTypeOK /\ HasFd /\ OneGlobalInode /\ BodyOwns /\ OwnerInBody
        /\ OnePathInode

-----------------------------------------------------------------------------

(* The initial state satisfies the inductive invariant: no call is open.    *)
LEMMA FileInit == LockInit => FileInv
  BY NamesAssumption
  DEF LockInit, FileInv, LockTypeOK, HasFd, OneGlobalInode, BodyOwns, OwnerInBody,
      OnePathInode, Name, Place

(* open(): the name refers to the inode, and no other name changed.         *)
LEMMA OpenNameFacts ==
    ASSUME LockTypeOK, NEW n \in Name, NEW i \in Inode, OpenName(n, i)
    PROVE  /\ dir' \in [Name -> Inode \cup {None}]
           /\ dir'[n] = i
           /\ \A m \in Name \ {n} : dir'[m] = dir[m]
           /\ dir[n] # None => dir' = dir
  BY DEF LockTypeOK, OpenName

(* A poll that succeeds keeps the invariant, for either of the two locks.   *)
LEMMA FileLocks ==
    ASSUME FileInv, NEW p \in Proc, NEW f \in Path,
           Acquire(p, f) \/ AcquireGlobal(p, f)
    PROVE  FileInv'
  <1> USE DEF Goto
  <1>1. PICK to \in {"body", "fallbackBody"} :
           /\ place[p][f] = IF to = "body" THEN "trying" ELSE "fallback"
           /\ place' = [place EXCEPT ![p][f] = to]
           /\ owner[fd[p][f]] = None
           /\ owner' = [owner EXCEPT ![fd[p][f]] = <<p, f>>]
           /\ dir' = dir /\ fd' = fd /\ stack' = stack
    BY DEF Acquire, AcquireGlobal, Lock
  <1>2. fd[p][f] \in Inode
    BY <1>1 DEF FileInv, HasFd
  <1>3. LockTypeOK'
    BY <1>1, <1>2 DEF FileInv, LockTypeOK, Place
  <1>4. HasFd' /\ OneGlobalInode' /\ OnePathInode'
    BY <1>1, <1>2 DEF FileInv, LockTypeOK, HasFd, OneGlobalInode, OnePathInode
  <1>5. BodyOwns'
    <2> SUFFICES ASSUME NEW q \in Proc, NEW g \in Path,
                        place'[q][g] \in {"body", "fallbackBody"}
                 PROVE  owner'[fd[q][g]] = <<q, g>>
      BY <1>1 DEF BodyOwns
    <2>1. CASE q = p /\ g = f
      BY <2>1, <1>1, <1>2 DEF FileInv, LockTypeOK
    <2>2. CASE ~(q = p /\ g = f)
      <3>1. place[q][g] \in {"body", "fallbackBody"}
        BY <2>2, <1>1 DEF FileInv, LockTypeOK
      <3>2. owner[fd[q][g]] = <<q, g>> /\ fd[q][g] \in Inode
        BY <3>1 DEF FileInv, BodyOwns, HasFd
      <3>3. <<q, g>> # None
        BY NamesAssumption
      <3>. QED
        BY <3>2, <3>3, <1>1, <1>2 DEF FileInv, LockTypeOK
    <2>. QED
      BY <2>1, <2>2
  <1>6. OwnerInBody'
    <2> SUFFICES ASSUME NEW i \in Inode, NEW q \in Proc, NEW g \in Path,
                        owner'[i] = <<q, g>>
                 PROVE  fd[q][g] = i
                        /\ place'[q][g] \in {"body", "fallbackBody"}
      BY <1>1 DEF OwnerInBody
    <2>1. CASE i = fd[p][f]
      BY <2>1, <1>1, <1>2 DEF FileInv, LockTypeOK
    <2>2. CASE i # fd[p][f]
      <3>1. owner[i] = <<q, g>>
        BY <2>2, <1>1 DEF FileInv, LockTypeOK
      <3>2. fd[q][g] = i /\ place[q][g] \in {"body", "fallbackBody"}
        BY <3>1 DEF FileInv, OwnerInBody
      <3>. QED
        BY <3>2, <2>2, <1>1 DEF FileInv, LockTypeOK
    <2>. QED
      BY <2>1, <2>2
  <1>. QED
    BY <1>3, <1>4, <1>5, <1>6 DEF FileInv

(* The end of a body frees the call's own inode and no other.               *)
LEMMA FileReleases ==
    ASSUME FileInv, NEW p \in Proc, NEW f \in Path, Release(p, f)
    PROVE  FileInv'
  <1>1. /\ place[p][f] \in {"body", "fallbackBody"}
        /\ place' = [place EXCEPT ![p][f] = "unlinking"]
        /\ owner' = [owner EXCEPT ![fd[p][f]] = None]
        /\ fd' = [fd EXCEPT ![p][f] = None]
        /\ dir' = dir /\ stack' = stack
    BY DEF Release, Goto
  <1>2. fd[p][f] \in Inode /\ owner[fd[p][f]] = <<p, f>>
    BY <1>1 DEF FileInv, HasFd, BodyOwns
  <1>3. LockTypeOK'
    BY <1>1, <1>2 DEF FileInv, LockTypeOK, Place
  <1>4. HasFd' /\ OneGlobalInode' /\ OnePathInode'
    BY <1>1 DEF FileInv, LockTypeOK, HasFd, OneGlobalInode, OnePathInode
  <1>5. ASSUME NEW q \in Proc, NEW g \in Path,
               place'[q][g] \in {"body", "fallbackBody"}
        PROVE  owner'[fd'[q][g]] = <<q, g>>
    <2>1. ~(q = p /\ g = f)
      BY <1>1, <1>5 DEF FileInv, LockTypeOK
    <2>2. place[q][g] \in {"body", "fallbackBody"} /\ fd'[q][g] = fd[q][g]
      BY <2>1, <1>1, <1>5 DEF FileInv, LockTypeOK
    <2>3. fd[q][g] \in Inode /\ owner[fd[q][g]] = <<q, g>>
      BY <2>2 DEF FileInv, HasFd, BodyOwns
    <2>4. fd[q][g] # fd[p][f]
      BY <2>1, <2>3, <1>2
    <2>. QED
      BY <2>2, <2>3, <2>4, <1>1 DEF FileInv, LockTypeOK
  <1>6. ASSUME NEW i \in Inode, NEW q \in Proc, NEW g \in Path,
               owner'[i] = <<q, g>>
        PROVE  fd'[q][g] = i /\ place'[q][g] \in {"body", "fallbackBody"}
    <2>1. <<q, g>> # None
      BY NamesAssumption
    <2>2. i # fd[p][f] /\ owner[i] = <<q, g>>
      BY <2>1, <1>1, <1>2, <1>6 DEF FileInv, LockTypeOK
    <2>3. ~(q = p /\ g = f) /\ fd[q][g] = i
          /\ place[q][g] \in {"body", "fallbackBody"}
      BY <2>2 DEF FileInv, OwnerInBody
    <2>. QED
      BY <2>3, <1>1 DEF FileInv, LockTypeOK
  <1>. QED
    BY <1>3, <1>4, <1>5, <1>6 DEF FileInv, BodyOwns, OwnerInBody

(* A crash frees what the dead thread owned and nothing else.               *)
LEMMA FileCrash ==
    ASSUME FileInv, NEW p \in Proc, Die(p)
    PROVE  FileInv'
  <1>1. /\ owner' = [i \in Inode |-> IF \E f \in Path : owner[i] = <<p, f>>
                                     THEN None ELSE owner[i]]
        /\ fd' = [fd EXCEPT ![p] = [f \in Path |-> None]]
        /\ place' = [place EXCEPT ![p] = [f \in Path |-> "out"]]
        /\ stack' = [stack EXCEPT ![p] = <<>>]
        /\ dir' = dir
    BY DEF Die
  <1>2. LockTypeOK'
    <2>1. [f \in Path |-> None] \in [Path -> Inode \cup {None}]
      OBVIOUS
    <2>2. [f \in Path |-> "out"] \in [Path -> Place]
      BY DEF Place
    <2>3. owner' \in [Inode -> (Proc \X Path) \cup {None}]
      BY <1>1 DEF FileInv, LockTypeOK
    <2>. QED
      BY <1>1, <2>1, <2>2, <2>3 DEF FileInv, LockTypeOK
  <1>3. \A q \in Proc, g \in Path :
           /\ q = p => place'[q][g] = "out"
           /\ q # p => place'[q][g] = place[q][g] /\ fd'[q][g] = fd[q][g]
    BY <1>1 DEF FileInv, LockTypeOK
  <1>4. HasFd' /\ OneGlobalInode' /\ OnePathInode'
    BY <1>1, <1>3 DEF FileInv, HasFd, OneGlobalInode, OnePathInode
  <1>5. ASSUME NEW q \in Proc, NEW g \in Path,
               place'[q][g] \in {"body", "fallbackBody"}
        PROVE  owner'[fd'[q][g]] = <<q, g>>
    <2>1. q # p /\ fd[q][g] \in Inode /\ owner[fd[q][g]] = <<q, g>>
          /\ fd'[q][g] = fd[q][g]
      BY <1>3, <1>5 DEF FileInv, HasFd, BodyOwns
    <2>2. \A f \in Path : owner[fd[q][g]] # <<p, f>>
      BY <2>1
    <2>. QED
      BY <2>1, <2>2, <1>1
  <1>6. ASSUME NEW i \in Inode, NEW q \in Proc, NEW g \in Path,
               owner'[i] = <<q, g>>
        PROVE  fd'[q][g] = i /\ place'[q][g] \in {"body", "fallbackBody"}
    <2>1. <<q, g>> # None
      BY NamesAssumption
    <2>2. owner[i] = <<q, g>> /\ q # p
      BY <2>1, <1>1, <1>6
    <2>. QED
      BY <2>2, <1>3 DEF FileInv, OwnerInBody
  <1>. QED
    BY <1>2, <1>4, <1>5, <1>6 DEF FileInv, BodyOwns, OwnerInBody

(* One step of the code, taken case by case, keeps the invariant.           *)
LEMMA FileNext == FileInv /\ [LockNext]_lockVars => FileInv'
  <1> SUFFICES ASSUME FileInv, [LockNext]_lockVars PROVE FileInv'
    OBVIOUS
  <1> USE NamesAssumption
  <1> USE DEF FileInv, LockTypeOK, HasFd, OneGlobalInode, BodyOwns, OwnerInBody,
              OnePathInode, Name, Place, Goto
  <1>1. ASSUME NEW p \in Proc, NEW f \in Path, Enter(p, f) PROVE FileInv'
    <2>1. PICK i \in Inode : OpenName(f, i) /\ fd' = [fd EXCEPT ![p][f] = i]
      BY <1>1 DEF Enter
    <2>2. /\ dir' \in [Name -> Inode \cup {None}] /\ dir'[f] = i
          /\ dir'[Global] = dir[Global]
          /\ dir[f] # None => dir' = dir
          /\ \A m \in Name \ {f} : dir'[m] = dir[m]
      <3>1. f \in Name /\ Global \in Name \ {f}
        OBVIOUS
      <3>. QED
        BY ONLY LockTypeOK, <2>1, <3>1, OpenNameFacts
    <2>3. place[p][f] = "out" /\ place' = [place EXCEPT ![p][f] = "trying"]
          /\ stack' \in [Proc -> Seq(Path)] /\ owner' = owner
      BY <1>1 DEF Enter, MayCall
    <2>. QED
      BY <2>1, <2>2, <2>3
  <1>2. ASSUME NEW p \in Proc, NEW f \in Path, EnterNested(p, f) PROVE FileInv'
    BY <1>2 DEF EnterNested, MayCall
  <1>3. ASSUME NEW p \in Proc, NEW f \in Path,
               Acquire(p, f) \/ AcquireGlobal(p, f)
        PROVE  FileInv'
    BY <1>3, FileLocks
  <1>4. ASSUME NEW p \in Proc, NEW f \in Path, FallBack(p, f) PROVE FileInv'
    <2>1. PICK i \in Inode : OpenName(Global, i)
                             /\ fd' = [fd EXCEPT ![p][f] = i]
      BY <1>4 DEF FallBack
    <2>2. /\ dir' \in [Name -> Inode \cup {None}] /\ dir'[Global] = i
          /\ dir[Global] # None => dir' = dir
          /\ \A m \in Name \ {Global} : dir'[m] = dir[m]
      BY <2>1, OpenNameFacts
    <2>3. /\ place[p][f] = "trying"
          /\ place' = [place EXCEPT ![p][f] = "fallback"]
          /\ owner' = owner /\ stack' = stack
      BY <1>4 DEF FallBack
    <2>. QED
      BY <2>1, <2>2, <2>3
  <1>5. ASSUME NEW p \in Proc, NEW f \in Path, GiveUp(p, f) PROVE FileInv'
    BY <1>5 DEF GiveUp
  <1>6. ASSUME NEW p \in Proc, NEW f \in Path, Release(p, f) PROVE FileInv'
    BY <1>6, FileReleases
  <1>7. ASSUME NEW p \in Proc, NEW f \in Path, LeaveNested(p, f) PROVE FileInv'
    BY <1>7 DEF LeaveNested, Return, Top
  <1>8. ASSUME NEW p \in Proc, NEW f \in Path, UnlinkLockFile(p, f)
        PROVE  FileInv'
    BY <1>8 DEF UnlinkLockFile, Return, Top, IsOpen
  <1>9. ASSUME NEW p \in Proc, Die(p) PROVE FileInv'
    BY <1>9, FileCrash
  <1>10. CASE UNCHANGED lockVars
    BY <1>10 DEF lockVars
  <1> HIDE DEF FileInv
  <1>. QED
    BY <1>1, <1>2, <1>3, <1>4, <1>5, <1>6, <1>7, <1>8, <1>9, <1>10
    DEF LockNext, LockStep

(* The inductive invariant holds in every reachable state.                  *)
LEMMA FileInvariant == LockSpec => []FileInv
  BY FileInit, FileNext, PTL DEF LockSpec

-----------------------------------------------------------------------------

(* Type correctness of the lock's state.                                    *)
THEOREM LockTypeCorrect == LockSpec => []LockTypeOK
  BY FileInvariant, PTL DEF FileInv

(* file_lock's fallback excludes: the global lock file is never unlinked,   *)
(* so at most one thread is ever inside a body under the global lock.       *)
THEOREM FallbackExcludes == LockSpec => []FallbackExclusion
  <1>1. FileInv => FallbackExclusion
    BY DEF FileInv, LockTypeOK, HasFd, OneGlobalInode, BodyOwns, FallbackExclusion,
           HoldsGlobal, Place
  <1>. QED
    BY <1>1, FileInvariant, PTL

(* Where open files cannot be unlinked, the lock of a path excludes.        *)
THEOREM OwnLockExcludes == LockSpec => []OwnLockExclusion
  <1>1. FileInv => OwnLockExclusion
    BY DEF FileInv, BodyOwns, OnePathInode, OwnLockExclusion
  <1>. QED
    BY <1>1, FileInvariant, PTL

(* The holders of the sure locks, as SureLock has them.                     *)
Held == [l \in SureLocks |-> {p \in Proc : Has(p, l)}]

(* Two calls that hold the same sure lock are one.                          *)
LEMMA HoldersAreOne ==
    ASSUME FileInv, NEW p \in Proc, NEW q \in Proc, NEW f \in Path, NEW g \in Path
    PROVE  /\ place[p][f] = "fallbackBody" /\ place[q][g] = "fallbackBody" =>
                 p = q /\ f = g
           /\ f \notin UnlinkOpen /\ place[p][f] = "body" /\ place[q][f] = "body"
                 => p = q
  <1>1. ASSUME place[p][f] = "fallbackBody", place[q][g] = "fallbackBody"
        PROVE  p = q /\ f = g
    <2>1. owner[dir[Global]] = <<p, f>> /\ owner[dir[Global]] = <<q, g>>
      BY <1>1 DEF FileInv, OneGlobalInode, BodyOwns
    <2> QED BY <2>1
  <1>2. ASSUME f \notin UnlinkOpen, place[p][f] = "body", place[q][f] = "body"
        PROVE  p = q
    <2>1. owner[dir[f]] = <<p, f>> /\ owner[dir[f]] = <<q, f>>
      BY <1>2 DEF FileInv, OnePathInode, BodyOwns
    <2> QED BY <2>1
  <1> QED BY <1>1, <1>2

(* A call moves from one place to another.                                  *)
LEMMA Moved ==
    ASSUME FileInv, NEW p \in Proc, NEW f \in Path, NEW to, Goto(p, f, to)
    PROVE  \A q \in Proc, g \in Path :
              place'[q][g] = IF q = p /\ g = f THEN to ELSE place[q][g]
  BY DEF FileInv, LockTypeOK, Goto

(* The same threads hold the same locks.                                    *)
LEMMA SameHolders ==
    ASSUME \A q \in Proc, l \in SureLocks : Has(q, l)' <=> Has(q, l)
    PROVE  Held' = Held
  <1>1. ASSUME NEW l \in SureLocks PROVE Held'[l] = Held[l]
    BY DEF Held
  <1> QED BY <1>1, Zenon DEF Held

(* What stays out of the bodies of the locks takes and gives none back.     *)
LEMMA NothingHeld ==
    ASSUME \A q \in Proc, g \in Path :
              /\ place'[q][g] = "body" <=> place[q][g] = "body"
              /\ place'[q][g] = "fallbackBody" <=> place[q][g] = "fallbackBody"
    PROVE  Held' = Held
  <1>1. \A q \in Proc, l \in SureLocks : Has(q, l)' <=> Has(q, l)
    BY DEF Has, HoldsGlobal, SureLocks
  <1> QED BY <1>1, SameHolders

(* The first poll that succeeds takes the lock nobody has.                  *)
LEMMA AcquireTakes ==
    ASSUME FileInv, NEW p \in Proc, NEW f \in Path, Acquire(p, f)
    PROVE  Held' = Held \/ (f \in SureLocks /\ SureLock!Take(p, f))
  <1>1. /\ place[p][f] = "trying" /\ owner[fd[p][f]] = None
        /\ \A q \in Proc, g \in Path :
              place'[q][g] = IF q = p /\ g = f THEN "body" ELSE place[q][g]
    BY Moved DEF Acquire, Lock
  <1>2. \A q \in Proc : HoldsGlobal(q)' <=> HoldsGlobal(q)
    BY <1>1 DEF HoldsGlobal
  <1>3. CASE f \in UnlinkOpen
    <2>1. \A q \in Proc, l \in SureLocks : Has(q, l)' <=> Has(q, l)
      BY <1>1, <1>2, <1>3 DEF Has, SureLocks
    <2> QED BY <2>1, SameHolders
  <1>4. CASE f \notin UnlinkOpen
    <2>1. f \in SureLocks /\ f # Global
      BY <1>4, NamesAssumption DEF SureLocks
    <2>2. ASSUME NEW q \in Proc PROVE ~Has(q, f)
      <3>1. SUFFICES ASSUME place[q][f] = "body" PROVE FALSE
        BY <2>1 DEF Has
      <3>2. owner[dir[f]] = <<q, f>> /\ fd[p][f] = dir[f]
        <4>1. owner[fd[q][f]] = <<q, f>>
          BY <3>1 DEF FileInv, BodyOwns
        <4>2. fd[q][f] = dir[f] /\ fd[p][f] = dir[f]
          BY <1>1, <1>4, <3>1 DEF FileInv, OnePathInode
        <4> QED BY <4>1, <4>2
      <3>3. <<q, f>> # None
        BY NamesAssumption
      <3> QED BY <1>1, <3>2, <3>3
    <2>3. \A q \in Proc : Has(q, f)' <=> q = p
      BY <1>1, <2>1, <2>2 DEF Has
    <2>4. \A q \in Proc, l \in SureLocks \ {f} : Has(q, l)' <=> Has(q, l)
      BY <1>1, <1>2 DEF Has, SureLocks
    <2>5. Held[f] = {}
      BY <2>1, <2>2 DEF Held
    <2>6. Held' = [Held EXCEPT ![f] = {p}]
      BY <2>1, <2>3, <2>4 DEF Held
    <2> QED BY <2>1, <2>5, <2>6 DEF SureLock!Take, Held
  <1> QED BY <1>3, <1>4

(* So does the first under the global lock.                                 *)
LEMMA AcquireGlobalTakes ==
    ASSUME FileInv, NEW p \in Proc, NEW f \in Path, AcquireGlobal(p, f)
    PROVE  SureLock!Take(p, Global)
  <1>1. /\ place[p][f] = "fallback" /\ owner[fd[p][f]] = None
        /\ \A q \in Proc, g \in Path :
              place'[q][g] = IF q = p /\ g = f THEN "fallbackBody"
                             ELSE place[q][g]
    BY Moved DEF AcquireGlobal, Lock
  <1>2. ASSUME NEW q \in Proc PROVE ~HoldsGlobal(q)
    <2>1. SUFFICES ASSUME NEW g \in Path, place[q][g] = "fallbackBody"
                   PROVE  FALSE
      BY DEF HoldsGlobal
    <2>2. owner[dir[Global]] = <<q, g>> /\ fd[p][f] = dir[Global]
      BY <1>1, <2>1 DEF FileInv, BodyOwns, OneGlobalInode
    <2>3. <<q, g>> # None
      BY NamesAssumption
    <2> QED BY <1>1, <2>2, <2>3
  <1>3. Global \in SureLocks
    BY DEF SureLocks
  <1>4. \A q \in Proc : HoldsGlobal(q)' <=> q = p
    BY <1>1, <1>2 DEF HoldsGlobal
  <1>5. \A q \in Proc, l \in SureLocks \ {Global} : Has(q, l)' <=> Has(q, l)
    BY <1>1 DEF Has, SureLocks
  <1>6. Held[Global] = {}
    BY <1>2, <1>3 DEF Held, Has
  <1>7. Held' = [Held EXCEPT ![Global] = {p}]
    BY <1>3, <1>4, <1>5 DEF Held, Has
  <1> QED BY <1>6, <1>7 DEF SureLock!Take, Held

(* The end of a body gives its lock back.                                   *)
LEMMA ReleaseGives ==
    ASSUME FileInv, NEW p \in Proc, NEW f \in Path, Release(p, f)
    PROVE  \/ Held' = Held
           \/ \E l \in SureLocks : SureLock!Give(p, l)
  <1>1. /\ place[p][f] \in {"body", "fallbackBody"}
        /\ \A q \in Proc, g \in Path :
              place'[q][g] = IF q = p /\ g = f THEN "unlinking"
                             ELSE place[q][g]
    BY Moved DEF Release
  <1>2. CASE place[p][f] = "fallbackBody"
    <2>1. Global \in SureLocks
      BY DEF SureLocks
    <2>2. \A q \in Proc : HoldsGlobal(q) <=> q = p
      BY <1>2, HoldersAreOne DEF HoldsGlobal
    <2>3. \A q \in Proc : ~HoldsGlobal(q)'
      BY <1>1, <1>2, HoldersAreOne DEF HoldsGlobal
    <2>4. \A q \in Proc, l \in SureLocks \ {Global} : Has(q, l)' <=> Has(q, l)
      BY <1>1, <1>2 DEF Has, SureLocks
    <2>5. Held[Global] = {p}
      BY <2>1, <2>2 DEF Held, Has
    <2>6. Held' = [Held EXCEPT ![Global] = {}]
      BY <2>1, <2>3, <2>4 DEF Held, Has
    <2> QED BY <2>1, <2>5, <2>6 DEF SureLock!Give, Held
  <1>3. CASE place[p][f] = "body"
    <2>1. \A q \in Proc : HoldsGlobal(q)' <=> HoldsGlobal(q)
      BY <1>1, <1>3 DEF HoldsGlobal
    <2>2. CASE f \in UnlinkOpen
      <3>1. \A q \in Proc, l \in SureLocks : Has(q, l)' <=> Has(q, l)
        BY <1>1, <2>1, <2>2 DEF Has, SureLocks
      <3> QED BY <3>1, SameHolders
    <2>3. CASE f \notin UnlinkOpen
      <3>1. f \in SureLocks /\ f # Global
        BY <2>3, NamesAssumption DEF SureLocks
      <3>2. \A q \in Proc : Has(q, f) <=> q = p
        BY <1>3, <2>3, <3>1, HoldersAreOne DEF Has
      <3>3. \A q \in Proc : ~Has(q, f)'
        BY <1>1, <3>1, <3>2 DEF Has
      <3>4. \A q \in Proc, l \in SureLocks \ {f} : Has(q, l)' <=> Has(q, l)
        BY <1>1, <2>1 DEF Has, SureLocks
      <3>5. Held[f] = {p}
        BY <3>1, <3>2 DEF Held
      <3>6. Held' = [Held EXCEPT ![f] = {}]
        BY <3>1, <3>3, <3>4 DEF Held
      <3> QED BY <3>1, <3>5, <3>6 DEF SureLock!Give, Held
    <2> QED BY <2>2, <2>3
  <1> QED BY <1>1, <1>2, <1>3

(* A killed process loses its locks.                                        *)
LEMMA DeathVanishes ==
    ASSUME FileInv, NEW p \in Proc, Die(p)
    PROVE  SureLock!Vanish(p)
  <1>1. \A q \in Proc, g \in Path :
           place'[q][g] = IF q = p THEN "out" ELSE place[q][g]
    BY DEF Die, FileInv, LockTypeOK
  <1>2. \A q \in Proc, l \in SureLocks : Has(q, l)' <=> Has(q, l) /\ q # p
    BY <1>1 DEF Has, HoldsGlobal, SureLocks
  <1>3. Held' = [l \in SureLocks |-> Held[l] \ {p}]
    BY <1>2 DEF Held
  <1> QED BY <1>3 DEF SureLock!Vanish, Held

(* Every step of a call is one of the mutex or leaves it alone.             *)
LEMMA LockStepIsMutexStep ==
    ASSUME FileInv, [LockNext]_lockVars
    PROVE  [SureLock!Next]_Held
  <1>1. ASSUME NEW p \in Proc, NEW f \in Path,
               \/ Enter(p, f) \/ EnterNested(p, f) \/ FallBack(p, f)
               \/ GiveUp(p, f) \/ LeaveNested(p, f) \/ UnlinkLockFile(p, f)
        PROVE  Held' = Held
    <2>1. PICK to \in {"trying", "nested", "fallback", "unlinking", "out"} :
             Goto(p, f, to)
      BY <1>1 DEF Enter, EnterNested, FallBack, GiveUp, LeaveNested,
                  UnlinkLockFile, Return
    <2>2. place[p][f] \notin {"body", "fallbackBody"}
      BY <1>1 DEF Enter, EnterNested, MayCall, FallBack, GiveUp, LeaveNested,
                  UnlinkLockFile
    <2>3. \A q \in Proc, g \in Path :
             place'[q][g] = IF q = p /\ g = f THEN to ELSE place[q][g]
      BY <2>1, Moved
    <2> QED BY <2>1, <2>2, <2>3, NothingHeld
  <1>2. ASSUME NEW p \in Proc, NEW f \in Path, Acquire(p, f)
        PROVE  [SureLock!Next]_Held
    BY <1>2, AcquireTakes DEF SureLock!Next
  <1>3. ASSUME NEW p \in Proc, NEW f \in Path, AcquireGlobal(p, f)
        PROVE  [SureLock!Next]_Held
    <2>1. Global \in SureLocks
      BY DEF SureLocks
    <2> QED BY <1>3, <2>1, AcquireGlobalTakes DEF SureLock!Next
  <1>4. ASSUME NEW p \in Proc, NEW f \in Path, Release(p, f)
        PROVE  [SureLock!Next]_Held
    BY <1>4, ReleaseGives DEF SureLock!Next
  <1>5. ASSUME NEW p \in Proc, Die(p) PROVE [SureLock!Next]_Held
    BY <1>5, DeathVanishes DEF SureLock!Next
  <1>6. CASE UNCHANGED lockVars
    BY <1>6, NothingHeld DEF lockVars
  <1> QED
    BY <1>1, <1>2, <1>3, <1>4, <1>5, <1>6 DEF LockNext, LockStep

(* file_lock implements a mutex for the global lock file, on either         *)
(* platform, and where open files cannot be unlinked for every path's: for  *)
(* any number of threads, paths and inodes and any nesting, with timeouts,  *)
(* fallbacks, exceptions and crashes.                                       *)
THEOREM LockKeepsMutex == LockSpec => KeepsMutex
  <1>1. LockInit => SureLock!Init
    BY DEF LockInit, SureLock!Init, Has, HoldsGlobal, SureLocks
  <1>2. FileInv /\ [LockNext]_lockVars => [SureLock!Next]_Held
    BY LockStepIsMutexStep
  <1> QED
    BY <1>1, <1>2, FileInvariant, PTL
       DEF LockSpec, KeepsMutex, SureLock!Spec, Held

(* No crash, timeout or exception leaves an inode locked.                   *)
THEOREM NoLockOrphaned == LockSpec => []NoOrphanLock
  <1>1. FileInv => NoOrphanLock
    <2> SUFFICES ASSUME FileInv, NEW i \in Inode, owner[i] # None
                 PROVE  \E p \in Proc, f \in Path :
                           owner[i] = <<p, f>> /\ fd[p][f] = i /\ Inside(p, f)
      BY DEF NoOrphanLock
    <2>1. PICK p \in Proc, f \in Path : owner[i] = <<p, f>>
      BY DEF FileInv, LockTypeOK
    <2>. QED
      BY <2>1 DEF FileInv, OwnerInBody, Inside, InBody
  <1>. QED
    BY <1>1, FileInvariant, PTL

-----------------------------------------------------------------------------
(* Who acquired the lock is inside and remembers its own name.              *)
TakenInside == \A c \in took : where[c] = "inside" /\ seen[c] = HolderName(c)

LockInv == TaskLockTypeOK /\ TakenInside /\ LockHeld

LEMMA TaskLockInitInv == TaskLockInit => LockInv
  BY DEF TaskLockInit, LockInv, TaskLockTypeOK, TakenInside, LockHeld

(* No caller is called nobody.                                              *)
LEMMA NamesAreNames ==
    \A c \in Caller : HolderName(c) # NoHolder
  BY TaskLockAssumption DEF Caller, HolderName

(* A lock taken takes it from nobody who still relied on it.                *)
LEMMA AcquireKeeps ==
    ASSUME LockInv, NEW c \in Caller, AcquireLock(c)
    PROVE  LockInv'
  <1>1. CASE Live \in {NoHolder, HolderName(c)}
    <2>1. /\ holder' = HolderName(c) /\ stale' = FALSE
          /\ took' = took \cup {c} /\ excused' = excused \ {c}
          /\ where' = [where EXCEPT ![c] = "inside"]
          /\ seen' = [seen EXCEPT ![c] = HolderName(c)]
      BY <1>1 DEF AcquireLock
    <2>2. TaskLockTypeOK' /\ TakenInside'
      BY <2>1 DEF LockInv, TaskLockTypeOK, TakenInside
    <2>3. LockHeld'
      <3> SUFFICES ASSUME NEW d \in took \ excused, d # c PROVE HolderName(d) = HolderName(c)
        BY <2>1 DEF LockHeld
      <3>1. holder = HolderName(d) /\ ~stale /\ d \in Caller
        BY DEF LockInv, LockHeld, TaskLockTypeOK
      <3>2. Live = HolderName(d) /\ Live # NoHolder
        BY <3>1, NamesAreNames DEF Live
      <3> QED
        BY <1>1, <3>2
    <2> QED
      BY <2>2, <2>3 DEF LockInv
  <1>2. CASE Live \notin {NoHolder, HolderName(c)}
    BY <1>2 DEF AcquireLock, LockInv, TaskLockTypeOK, TakenInside, LockHeld
  <1> QED
    BY <1>1, <1>2

LEMMA LeaveKeeps ==
    ASSUME LockInv, NEW c \in Caller, Leave(c)
    PROVE  LockInv'
  <1>1. /\ where' = [where EXCEPT ![c] = "out"]
        /\ seen' = [seen EXCEPT ![c] = NoHolder]
        /\ took' = took \ {c}
    BY DEF Leave, Leaves
  <1>2. TakenInside'
    BY <1>1 DEF LockInv, TaskLockTypeOK, TakenInside
  <1>3. CASE c \in took
    <2>1. seen[c] = HolderName(c)
      BY <1>3 DEF LockInv, TakenInside
    <2>2. /\ excused' = (excused \cup (Namesakes(HolderName(c)) \cap took)) \ {c}
          /\ \/ holder = HolderName(c) /\ holder' = NoHolder /\ stale' = FALSE
             \/ holder # HolderName(c) /\ holder' = holder /\ stale' = stale
      BY <1>3, <2>1 DEF Leave, Unlock, Excuse
    <2>3. TaskLockTypeOK'
      BY <1>1, <2>2 DEF LockInv, TaskLockTypeOK
    <2>4. LockHeld'
      BY <1>1, <2>2 DEF LockInv, TaskLockTypeOK, LockHeld, Namesakes
    <2> QED
      BY <1>2, <2>3, <2>4 DEF LockInv
  <1>4. CASE c \notin took
    BY <1>1, <1>2, <1>4 DEF Leave, LockInv, TaskLockTypeOK, LockHeld
  <1> QED
    BY <1>3, <1>4

LEMMA TaskLockNextInv == LockInv /\ [TaskLockNext]_taskLockVars => LockInv'
  <1> SUFFICES ASSUME LockInv, [TaskLockNext]_taskLockVars PROVE LockInv'
    OBVIOUS
  <1>0. TaskLockTypeOK /\ TakenInside /\ LockHeld
    BY DEF LockInv
  <1>1. ASSUME NEW c \in Caller, LookAtLock(c) PROVE LockInv'
    <2>1. Live \in {HolderName(d) : d \in Caller} \cup {NoHolder}
      BY <1>0 DEF Live, TaskLockTypeOK
    <2>2. c \notin took
      BY <1>0, <1>1 DEF LookAtLock, TakenInside
    <2>3. TaskLockTypeOK'
      BY <1>0, <1>1, <2>1 DEF LookAtLock, TaskLockTypeOK
    <2> QED
      BY <1>0, <1>1, <2>2, <2>3 DEF LookAtLock, LockInv, TakenInside, LockHeld, TaskLockTypeOK
  <1>2. ASSUME NEW c \in Caller, Borrow(c) PROVE LockInv'
    BY <1>0, <1>2 DEF Borrow, LockInv, TakenInside, LockHeld, TaskLockTypeOK
  <1>3. ASSUME NEW c \in Caller, AcquireLock(c) PROVE LockInv'
    BY <1>3, AcquireKeeps
  <1>4. ASSUME NEW c \in Caller, Leave(c) PROVE LockInv'
    BY <1>4, LeaveKeeps
  <1>5. ASSUME NEW c \in Caller, CallerDies(c) PROVE LockInv'
    BY <1>0, <1>5 DEF CallerDies, Leaves, LockInv, TakenInside, LockHeld, TaskLockTypeOK
  <1>6. CASE TtlEnds
    BY <1>0, <1>6 DEF TtlEnds, LockInv, TakenInside, LockHeld, TaskLockTypeOK, Namesakes
  <1>7. CASE CancelUnlocks
    BY <1>0, <1>7 DEF CancelUnlocks, Unlock, LockInv, TakenInside, LockHeld, TaskLockTypeOK, Namesakes
  <1>8. CASE UNCHANGED taskLockVars
    BY <1>0, <1>8 DEF taskLockVars, LockInv, TakenInside, LockHeld, TaskLockTypeOK
  <1> QED
    BY <1>1, <1>2, <1>3, <1>4, <1>5, <1>6, <1>7, <1>8 DEF TaskLockNext

LEMMA TaskLockInvariance == TaskLockSpec => []LockInv
  BY TaskLockInitInv, TaskLockNextInv, PTL DEF TaskLockSpec

(* The lock file names one of the callers, or nobody.                       *)
THEOREM TaskLockTypeCorrect == TaskLockSpec => []TaskLockTypeOK
  <1>1. LockInv => TaskLockTypeOK
    BY DEF LockInv
  <1> QED
    BY <1>1, TaskLockInvariance, PTL

(* Who acquired the task's lock has it until it leaves, its time is up, the *)
(* task is cancelled, or a call of its own name leaves.                     *)
THEOREM TaskLockIsHeld == TaskLockSpec => []LockHeld
  <1>1. LockInv => LockHeld
    BY DEF LockInv
  <1> QED
    BY <1>1, TaskLockInvariance, PTL

-----------------------------------------------------------------------------
(* The copy a request works on links what exists, and approves a gate that  *)
(* starts a task only when it was there, or is about to be.                 *)
CopiesExist ==
    \A r \in Running :
       /\ copy[r] \in Order /\ copy[r].link \subseteq spawned
       /\ doing[r].stage \in {"check", "create", "link", "write"}
       /\ doing[r].stage \in {"check", "create"} => doing[r].what \in Spawnable
       /\ \A g \in Gate \cap Spawnable :
             copy[r].gate[g] = "approved" =>
                g \in spawned \/ (doing[r].what = g /\ doing[r].stage \in {"check", "create"})

(* A request alone has in its copy what was spawned, except for the task it *)
(* is about to create.                                                      *)
AloneKnows ==
    ~disturbed =>
       /\ \A r, s \in Running : r = s
       /\ \A r \in Running : copy[r].link = spawned
       /\ (\A r \in Running : doing[r].stage \in {"check", "create"}) => lead.link = spawned

IntakeInv == IntakeTypeOK /\ LinkedExists /\ CopiesExist /\ AloneKnows

LEMMA IntakeInitInv == IntakeInit => IntakeInv
  <1> SUFFICES ASSUME IntakeInit PROVE IntakeInv
    OBVIOUS
  <1>1. Running = {}
    BY DEF IntakeInit, Running
  <1>2. IntakeTypeOK
    BY DEF IntakeInit, IntakeTypeOK, Order, Idle
  <1>3. LinkedExists
    BY DEF IntakeInit, LinkedExists
  <1> QED
    BY <1>1, <1>2, <1>3 DEF IntakeInit, IntakeInv, CopiesExist, AloneKnows

(* Who is running after a step of one request.                              *)
LEMMA RunningSteps ==
    ASSUME IntakeTypeOK, NEW r \in Request
    PROVE  /\ Ends(r) => Running' = Running \ {r}
           /\ \A stage \in {"create", "link", "write"} : At(r, stage) => Running' = Running \cup {r}
  <1>1. ASSUME Ends(r) PROVE Running' = Running \ {r}
    BY <1>1 DEF IntakeTypeOK, Ends, Running
  <1>2. ASSUME NEW stage \in {"create", "link", "write"}, At(r, stage)
        PROVE  Running' = Running \cup {r}
    <2>1. doing' = [doing EXCEPT ![r] = [doing[r] EXCEPT !.stage = stage]]
      BY <1>2 DEF At, IntakeTypeOK
    <2>2. [doing[r] EXCEPT !.stage = stage].stage = stage /\ Idle.stage = "idle"
      BY DEF IntakeTypeOK, Idle
    <2>3. [doing[r] EXCEPT !.stage = stage] # Idle
      BY <2>2
    <2> QED
      BY <2>1, <2>3 DEF Running, IntakeTypeOK
  <1> QED
    BY <1>1, <1>2

(* A gate is marked in an order, and nothing else.                          *)
LEMMA MarkGate ==
    ASSUME NEW o \in Order, NEW what \in Gate, NEW v \in {"approved", "denied"}
    PROVE  LET c == [o EXCEPT !.gate[what] = v]
           IN  /\ c \in Order /\ c.link = o.link
               /\ \A g \in Gate : c.gate[g] = "approved" =>
                      o.gate[g] = "approved" \/ (g = what /\ v = "approved")
  <1> DEFINE h == [o.gate EXCEPT ![what] = v]
             c == [o EXCEPT !.gate[what] = v]
  <1>1. o.gate \in [Gate -> {"pending", "approved", "denied"}]
    BY DEF Order
  <1>2. /\ h \in [Gate -> {"pending", "approved", "denied"}]
        /\ \A g \in Gate : h[g] = IF g = what THEN v ELSE o.gate[g]
    BY <1>1
  <1>3. c.link = o.link /\ c.gate = h /\ c = [link |-> o.link, gate |-> h]
    BY DEF Order
  <1> HIDE DEF c, h
  <1>4. c \in Order
    BY <1>2, <1>3 DEF Order
  <1> QED
    BY <1>2, <1>3, <1>4 DEF c

LEMMA BeginKeeps ==
    ASSUME IntakeInv, NEW r \in Request, NEW verb \in {"approve", "deny", "spawn"},
           NEW what \in Spawnable \cup Gate, Begin(r, verb, what)
    PROVE  IntakeInv'
  <1>0. IntakeTypeOK /\ LinkedExists /\ CopiesExist /\ AloneKnows
    BY DEF IntakeInv
  <1> DEFINE stage == IF verb = "deny" \/ what \notin Spawnable THEN "write" ELSE "check"
             now == [verb |-> verb, what |-> what, stage |-> stage]
  <1>1. /\ doing' = [doing EXCEPT ![r] = now] /\ stage \in {"check", "write"}
        /\ stage = "check" => what \in Spawnable
        /\ lead' = lead /\ spawned' = spawned
        /\ disturbed' = (disturbed \/ Running # {})
    BY DEF Begin
  <1>2. r \notin Running /\ Running' = Running \cup {r}
    <2>1. now.stage # Idle.stage
      BY <1>1 DEF Idle
    <2>2. doing[r] = Idle
      BY DEF Begin
    <2> HIDE DEF now
    <2> QED
      BY <1>0, <1>1, <2>1, <2>2 DEF Running, IntakeTypeOK
  <1>3. PICK c \in Order : /\ copy' = [copy EXCEPT ![r] = c] /\ c.link = lead.link
                           /\ \A g \in Gate \cap Spawnable :
                                 c.gate[g] = "approved" => lead.gate[g] = "approved"
                                                           \/ (g = what /\ stage = "check")
    <2>1. lead \in Order
      BY <1>0 DEF IntakeTypeOK
    <2>2. CASE verb = "approve" /\ copy' = [copy EXCEPT ![r] = [lead EXCEPT !.gate[what] = "approved"]]
      <3>1. what \in Gate /\ (what \in Spawnable => stage = "check")
        BY <2>2 DEF Begin
      <3> DEFINE c == [lead EXCEPT !.gate[what] = "approved"]
      <3>2. /\ c \in Order /\ c.link = lead.link
            /\ \A g \in Gate : c.gate[g] = "approved" =>
                   lead.gate[g] = "approved" \/ (g = what /\ "approved" = "approved")
        BY <2>1, <3>1, MarkGate
      <3>3. copy' = [copy EXCEPT ![r] = c]
        BY <2>2
      <3> HIDE DEF c, stage
      <3> QED
        BY <3>1, <3>2, <3>3
    <2>3. CASE verb = "deny" /\ copy' = [copy EXCEPT ![r] = [lead EXCEPT !.gate[what] = "denied"]]
      <3>1. what \in Gate
        BY <2>3 DEF Begin
      <3> DEFINE c == [lead EXCEPT !.gate[what] = "denied"]
      <3>2. /\ c \in Order /\ c.link = lead.link
            /\ \A g \in Gate : c.gate[g] = "approved" =>
                   lead.gate[g] = "approved" \/ (g = what /\ "denied" = "approved")
        BY <2>1, <3>1, MarkGate
      <3>3. copy' = [copy EXCEPT ![r] = c]
        BY <2>3
      <3> HIDE DEF c, stage
      <3> QED
        BY <3>1, <3>2, <3>3
    <2>4. CASE copy' = [copy EXCEPT ![r] = lead]
      BY <2>1, <2>4
    <2> QED
      BY <2>2, <2>3, <2>4 DEF Begin
  <1>4. IntakeTypeOK'
    BY <1>0, <1>1, <1>3 DEF IntakeTypeOK
  <1>5. LinkedExists'
    BY <1>0, <1>1 DEF LinkedExists
  <1>6. /\ copy'[r] = c /\ doing'[r].stage = stage /\ doing'[r].what = what
        /\ \A s \in Running : copy'[s] = copy[s] /\ doing'[s] = doing[s]
    BY <1>0, <1>1, <1>2, <1>3 DEF IntakeTypeOK, Running
  <1> HIDE DEF stage
  <1>7. CopiesExist'
    BY <1>0, <1>1, <1>2, <1>3, <1>6 DEF CopiesExist, LinkedExists
  <1>8. AloneKnows'
    BY <1>0, <1>1, <1>2, <1>3, <1>6 DEF AloneKnows
  <1> QED
    BY <1>4, <1>5, <1>7, <1>8 DEF IntakeInv

(* A request that ends, or dies, takes its copy with it.                    *)
LEMMA EndKeeps ==
    ASSUME IntakeInv, NEW r \in Running, Ends(r), spawned' = spawned,
           lead' = lead \/ (lead' = copy[r] /\ doing[r].stage \in {"link", "write"}),
           disturbed' = disturbed \/ disturbed' = TRUE,
           ~disturbed' => lead'.link = spawned
    PROVE  IntakeInv'
  <1>0. IntakeTypeOK /\ LinkedExists /\ CopiesExist /\ AloneKnows /\ r \in Request
    BY DEF IntakeInv, Running
  <1>1. Running' = Running \ {r}
    BY <1>0, RunningSteps
  <1>2. /\ copy[r] \in Order /\ copy[r].link \subseteq spawned
        /\ doing[r].stage \in {"link", "write"} =>
              \A g \in Gate \cap Spawnable : copy[r].gate[g] = "approved" => g \in spawned
    BY <1>0 DEF CopiesExist
  <1>3. IntakeTypeOK'
    BY <1>0, <1>2 DEF IntakeTypeOK, Ends, Idle
  <1>4. LinkedExists'
    BY <1>0, <1>2 DEF LinkedExists
  <1>5. \A s \in Running \ {r} : copy'[s] = copy[s] /\ doing'[s] = doing[s]
    BY <1>0 DEF IntakeTypeOK, Ends, Running
  <1>6. CopiesExist'
    BY <1>0, <1>1, <1>5 DEF CopiesExist
  <1>7. AloneKnows'
    BY <1>0, <1>1, <1>5 DEF AloneKnows
  <1> QED
    BY <1>3, <1>4, <1>6, <1>7 DEF IntakeInv

(* A request that goes on to another stage.                                 *)
LEMMA StageKeeps ==
    ASSUME IntakeInv, NEW r \in Running, NEW stage \in {"create", "link", "write"}, At(r, stage)
    PROVE  /\ r \in Request /\ Running' = Running
           /\ doing' \in [Request -> [stage : {"idle", "check", "create", "link", "write"},
                                      verb : {"none", "approve", "deny", "spawn"},
                                      what : Spawnable \cup Gate \cup {"none"}]]
           /\ doing'[r].stage = stage /\ doing'[r].what = doing[r].what
           /\ \A s \in Running \ {r} : doing'[s] = doing[s]
  <1>0. IntakeTypeOK /\ r \in Request
    BY DEF IntakeInv, Running
  <1>1. Running' = Running
    BY <1>0, RunningSteps
  <1>2. doing' = [doing EXCEPT ![r] = [doing[r] EXCEPT !.stage = stage]]
    BY <1>0 DEF At, IntakeTypeOK
  <1>3. doing[r] \in [stage : {"idle", "check", "create", "link", "write"},
                      verb : {"none", "approve", "deny", "spawn"},
                      what : Spawnable \cup Gate \cup {"none"}]
    BY <1>0 DEF IntakeTypeOK
  <1> QED
    BY <1>0, <1>1, <1>2, <1>3 DEF IntakeTypeOK, Running

LEMMA CreateKeeps ==
    ASSUME IntakeInv, NEW r \in Running, Create(r)
    PROVE  IntakeInv'
  <1> DEFINE k == doing[r].what
             c == [copy[r] EXCEPT !.link = copy[r].link \cup {k}]
  <1>0. IntakeTypeOK /\ LinkedExists /\ CopiesExist /\ AloneKnows
    BY DEF IntakeInv
  <1>1. /\ doing[r].stage = "create" /\ At(r, "link") /\ k \in Spawnable /\ copy[r] \in Order
        /\ spawned' = spawned \cup {k} /\ lead' = lead /\ disturbed' = disturbed
    BY <1>0 DEF Create, CopiesExist
  <1>2. /\ r \in Request /\ Running' = Running /\ doing'[r].stage = "link" /\ doing'[r].what = k
        /\ \A s \in Running \ {r} : doing'[s] = doing[s]
    BY <1>1, StageKeeps
  <1>3. copy' = [copy EXCEPT ![r] = c]
    BY <1>0, <1>2 DEF Create, IntakeTypeOK
  <1>4. c \in Order /\ c.link = copy[r].link \cup {k} /\ c.gate = copy[r].gate
    BY <1>1 DEF Order
  <1> HIDE DEF c
  <1>5. copy'[r] = c /\ \A s \in Running \ {r} : copy'[s] = copy[s]
    BY <1>0, <1>2, <1>3 DEF IntakeTypeOK, Running
  <1>6. IntakeTypeOK'
    BY <1>0, <1>1, <1>3, <1>4, StageKeeps DEF IntakeTypeOK
  <1>7. LinkedExists'
    BY <1>0, <1>1 DEF LinkedExists
  <1>8. CopiesExist'
    BY <1>0, <1>1, <1>2, <1>4, <1>5 DEF CopiesExist
  <1>9. AloneKnows'
    BY <1>0, <1>1, <1>2, <1>4, <1>5 DEF AloneKnows
  <1> QED
    BY <1>6, <1>7, <1>8, <1>9 DEF IntakeInv

LEMMA IntakeNextInv == IntakeInv /\ [IntakeNext]_intakeVars => IntakeInv'
  <1> SUFFICES ASSUME IntakeInv, [IntakeNext]_intakeVars PROVE IntakeInv'
    OBVIOUS
  <1>0. IntakeTypeOK /\ LinkedExists /\ CopiesExist /\ AloneKnows
    BY DEF IntakeInv
  <1>1. ASSUME NEW r \in Request, NEW verb \in {"approve", "deny", "spawn"},
               NEW what \in Spawnable \cup Gate, Begin(r, verb, what)
        PROVE  IntakeInv'
    BY <1>1, BeginKeeps
  <1>2. ASSUME NEW r \in Request, doing[r].stage # "idle" PROVE r \in Running
    BY <1>2 DEF Running, Idle
  <1>3. ASSUME NEW r \in Request, Check(r) PROVE IntakeInv'
    <2>1. r \in Running /\ doing[r].stage = "check"
      BY <1>2, <1>3 DEF Check
    <2>2. CASE doing[r].what \in spawned
      BY <1>0, <1>3, <2>1, <2>2, EndKeeps DEF Check, AloneKnows
    <2>3. CASE doing[r].what \notin spawned
      <3>1. At(r, "create") /\ UNCHANGED <<lead, spawned, copy, disturbed>>
        BY <1>3, <2>3 DEF Check
      <3>2. /\ Running' = Running /\ doing'[r].stage = "create" /\ doing'[r].what = doing[r].what
            /\ \A s \in Running \ {r} : doing'[s] = doing[s]
        BY <2>1, <3>1, StageKeeps
      <3>3. IntakeTypeOK'
        BY <1>0, <2>1, <3>1, StageKeeps DEF IntakeTypeOK
      <3> QED
        BY <1>0, <2>1, <3>1, <3>2, <3>3 DEF IntakeInv, LinkedExists, CopiesExist, AloneKnows
    <2> QED
      BY <2>2, <2>3
  <1>4. ASSUME NEW r \in Request, Create(r) PROVE IntakeInv'
    BY <1>2, <1>4, CreateKeeps DEF Create
  <1>5. ASSUME NEW r \in Request, Link(r) PROVE IntakeInv'
    <2>1. r \in Running /\ doing[r].stage = "link" /\ lead' = copy[r] /\ spawned' = spawned
          /\ disturbed' = disturbed
      BY <1>2, <1>5 DEF Link
    <2>2. ~disturbed => copy[r].link = spawned
      BY <1>0, <2>1 DEF AloneKnows
    <2>3. CASE Ends(r)
      BY <2>1, <2>2, <2>3, EndKeeps
    <2>4. CASE At(r, "write") /\ copy' = copy
      <3>1. /\ Running' = Running /\ doing'[r].stage = "write" /\ doing'[r].what = doing[r].what
            /\ \A s \in Running \ {r} : doing'[s] = doing[s]
        BY <2>1, <2>4, StageKeeps
      <3>2. copy[r] \in Order
        BY <1>0, <2>1 DEF CopiesExist
      <3>3. IntakeTypeOK'
        BY <1>0, <2>1, <2>4, <3>2, StageKeeps DEF IntakeTypeOK
      <3>4. LinkedExists'
        BY <1>0, <2>1 DEF CopiesExist, LinkedExists
      <3>5. CopiesExist'
        BY <1>0, <2>1, <2>4, <3>1 DEF CopiesExist
      <3>6. AloneKnows'
        BY <1>0, <2>1, <2>2, <2>4, <3>1 DEF AloneKnows
      <3> QED
        BY <3>3, <3>4, <3>5, <3>6 DEF IntakeInv
    <2> QED
      BY <1>5, <2>3, <2>4 DEF Link
  <1>6. ASSUME NEW r \in Request, Write(r) PROVE IntakeInv'
    <2>1. r \in Running /\ doing[r].stage = "write" /\ lead' = copy[r] /\ spawned' = spawned
          /\ disturbed' = disturbed /\ Ends(r)
      BY <1>2, <1>6 DEF Write
    <2>2. ~disturbed => copy[r].link = spawned
      BY <1>0, <2>1 DEF AloneKnows
    <2> QED
      BY <2>1, <2>2, EndKeeps
  <1>7. ASSUME NEW r \in Request, RequestDies(r) PROVE IntakeInv'
    <2>1. r \in Running
      BY <1>7 DEF RequestDies, Running
    <2> QED
      BY <1>7, <2>1, EndKeeps DEF RequestDies
  <1>8. CASE UNCHANGED intakeVars
    BY <1>0, <1>8 DEF intakeVars, IntakeInv, IntakeTypeOK, LinkedExists, CopiesExist, AloneKnows,
                      Running
  <1> QED
    BY <1>1, <1>3, <1>4, <1>5, <1>6, <1>7, <1>8 DEF IntakeNext

LEMMA IntakeInvariance == IntakeSpec => []IntakeInv
  BY IntakeInitInv, IntakeNextInv, PTL DEF IntakeSpec

(* Orders, copies and requests keep their shapes.                           *)
THEOREM IntakeTypeCorrect == IntakeSpec => []IntakeTypeOK
  <1>1. IntakeInv => IntakeTypeOK
    BY DEF IntakeInv
  <1> QED
    BY <1>1, IntakeInvariance, PTL

(* What an order links exists, whatever requests overtake each other.       *)
THEOREM LinksAreOfTasks == IntakeSpec => []LinkedExists
  <1>1. IntakeInv => LinkedExists
    BY DEF IntakeInv
  <1> QED
    BY <1>1, IntakeInvariance, PTL

(* Requests one after the other leave no task without its link.             *)
THEOREM AloneNothingIsLost == IntakeSpec => []AloneIsWhole
  <1>1. IntakeInv => AloneIsWhole
    BY DEF IntakeInv, AloneKnows, AloneIsWhole
  <1> QED
    BY <1>1, IntakeInvariance, PTL

-----------------------------------------------------------------------------
(* What an operation on a framework knows at each stage, as long as nobody  *)
(* undid its writes and every stop worked.                                  *)
StageFacts(f) ==
    /\ saga[f] # "none" => memory[f] \in [Framework -> Entry]
    /\ saga[f] = "intent" => memory[f][f].on /\ MountFree(config[f], memory[f][f].mount)
                             /\ before[f] = config[f]
    /\ saga[f] \in {"start", "commit", "undo"} =>
          config[f] = memory[f][f] /\ config[f].on
    /\ saga[f] = "stop" => memory[f][f] = config[f]
    /\ saga[f] \in {"restore", "disable"} => runs[f] = {}

Configured(f) == runs[f] # {} => config[f].on /\ runs[f] = {config[f].mount}

SagaInv == /\ SagaTypeOK
           /\ ~untidy => \A f \in Framework : StageFacts(f) /\ Configured(f)

LEMMA OffIsEntry == Off \in Entry
  BY DEF Off, Entry, Mount

LEMMA SagaInitInv == SagaInit => SagaInv
  <1> SUFFICES ASSUME SagaInit PROVE SagaInv
    OBVIOUS
  <1>1. SagaTypeOK
    BY OffIsEntry DEF SagaInit, SagaTypeOK
  <1> QED
    BY <1>1 DEF SagaInit, SagaInv, StageFacts, Configured

(* The next step starts in a tidy state; what it does to one framework does *)
(* not concern the others, unless it undoes their writes.                   *)
LEMMA OthersKeep ==
    ASSUME SagaInv, ~untidy, NEW f \in Framework, NEW g \in Framework \ {f},
           config'[g] = config[g], runs'[g] = runs[g], saga'[g] = saga[g],
           memory'[g] = memory[g], before'[g] = before[g]
    PROVE  (StageFacts(g) /\ Configured(g))'
  BY DEF SagaInv, StageFacts, Configured

(* What f alone changes.                                                    *)
Only(f) == /\ \A g \in Framework \ {f} : /\ runs'[g] = runs[g] /\ saga'[g] = saga[g]
                                         /\ memory'[g] = memory[g] /\ before'[g] = before[g]
           /\ ~untidy' => \A g \in Framework \ {f} : config'[g] = config[g]

LEMMA OneKeeps ==
    ASSUME SagaInv, ~untidy, NEW f \in Framework, Only(f), SagaTypeOK',
           ~untidy' => (StageFacts(f) /\ Configured(f))'
    PROVE  SagaInv'
  BY OthersKeep DEF SagaInv, Only

(* json_write of an entry for f in the config that f holds in memory.       *)
LEMMA WriteFacts ==
    ASSUME SagaInv, ~untidy, NEW f \in Framework, NEW new \in [Framework -> Entry],
           WriteConfig(f, new)
    PROVE  /\ config' = new /\ untidy' \in BOOLEAN
           /\ ~untidy' => \A g \in Framework \ {f} : config'[g] = config[g]
  BY DEF WriteConfig, SagaInv, SagaTypeOK

LEMMA EnableSteps ==
    ASSUME SagaInv, ~untidy, NEW f \in Framework,
           (\E m \in Mount : EnableBegins(f, m)) \/ Intent(f) \/ Start(f) \/ CommitEnable(f)
    PROVE  SagaInv'
  <1>0. SagaTypeOK /\ StageFacts(f) /\ Configured(f)
    BY DEF SagaInv
  <1> USE DEF Goes
  <1>1. ASSUME NEW m \in Mount, EnableBegins(f, m) PROVE SagaInv'
    <2> DEFINE e == [on |-> TRUE, mount |-> m]
    <2>1. e \in Entry /\ e.on /\ e.mount = m
      BY DEF Entry
    <2>2. /\ memory' = [memory EXCEPT ![f] = [config EXCEPT ![f] = e]]
          /\ MountFree(config[f], m)
      BY <1>1 DEF EnableBegins
    <2> HIDE DEF e
    <2>4. /\ [config EXCEPT ![f] = e] \in [Framework -> Entry]
          /\ memory'[f] = [config EXCEPT ![f] = e] /\ memory'[f][f] = e
      BY <1>0, <2>1, <2>2 DEF SagaTypeOK
    <2>3. SagaTypeOK'
      <3>1. memory' \in [Framework -> [Framework -> Entry] \cup {NoConfig}]
        BY <1>0, <2>2, <2>4 DEF SagaTypeOK
      <3>2. before' \in [Framework -> Entry]
        BY <1>0, <1>1 DEF EnableBegins, SagaTypeOK
      <3> QED
        BY <1>0, <1>1, <3>1, <3>2 DEF EnableBegins, SagaTypeOK, Working
    <2>5. StageFacts(f)' /\ Configured(f)'
      BY <1>0, <1>1, <2>1, <2>2, <2>4 DEF EnableBegins, SagaTypeOK, StageFacts, Configured, MountFree
    <2>6. Only(f)
      BY <1>0, <1>1 DEF EnableBegins, SagaTypeOK, Only
    <2> QED
      BY <2>3, <2>5, <2>6, OneKeeps
  <1>2. CASE Intent(f)
    <2>1. memory[f] \in [Framework -> Entry] /\ memory[f][f].on
          /\ MountFree(config[f], memory[f][f].mount)
      BY <1>0, <1>2 DEF Intent, StageFacts
    <2>2. /\ config' = memory[f] /\ untidy' \in BOOLEAN
          /\ ~untidy' => \A g \in Framework \ {f} : config'[g] = config[g]
      BY <1>2, <2>1, WriteFacts DEF Intent
    <2>3. SagaTypeOK'
      BY <1>0, <1>2, <2>1, <2>2 DEF Intent, SagaTypeOK, Working
    <2>4. StageFacts(f)' /\ Configured(f)'
      BY <1>0, <1>2, <2>1, <2>2 DEF Intent, SagaTypeOK, StageFacts, Configured, MountFree
    <2>5. Only(f)
      BY <1>0, <1>2, <2>2 DEF Intent, SagaTypeOK, Only
    <2> QED
      BY <2>3, <2>4, <2>5, OneKeeps
  <1>3. CASE Start(f)
    <2>1. /\ memory[f] \in [Framework -> Entry] /\ config[f] = memory[f][f] /\ config[f].on
          /\ config[f].mount \in Mount
      BY <1>0, <1>3 DEF Start, StageFacts, SagaTypeOK, Entry
    <2>2. runs' \in {runs, [runs EXCEPT ![f] = runs[f] \cup {config[f].mount}]}
      BY <1>3, <2>1 DEF Start
    <2>3. SagaTypeOK'
      BY <1>0, <1>3, <2>1, <2>2 DEF Start, SagaTypeOK, Working
    <2>4. StageFacts(f)'
      BY <1>0, <1>3, <2>1 DEF Start, SagaTypeOK, StageFacts
    <2>5. Configured(f)'
      BY <1>0, <1>3, <2>1, <2>2 DEF Start, SagaTypeOK, Configured
    <2>6. Only(f)
      BY <1>0, <1>3, <2>2 DEF Start, SagaTypeOK, Only
    <2> QED
      BY <2>3, <2>4, <2>5, <2>6, OneKeeps
  <1>4. CASE CommitEnable(f)
    <2>1. memory[f] \in [Framework -> Entry] /\ config[f] = memory[f][f]
      BY <1>0, <1>4 DEF CommitEnable, StageFacts
    <2>2. /\ config' = memory[f] /\ untidy' \in BOOLEAN
          /\ ~untidy' => \A g \in Framework \ {f} : config'[g] = config[g]
      BY <1>4, <2>1, WriteFacts DEF CommitEnable
    <2>3. SagaTypeOK'
      BY <1>0, <1>4, <2>1, <2>2, OffIsEntry DEF CommitEnable, Done, SagaTypeOK
    <2>4. StageFacts(f)' /\ Configured(f)'
      BY <1>0, <1>4, <2>1, <2>2 DEF CommitEnable, Done, SagaTypeOK, StageFacts, Configured
    <2>5. Only(f)
      BY <1>0, <1>4, <2>2 DEF CommitEnable, Done, SagaTypeOK, Only
    <2> QED
      BY <2>3, <2>4, <2>5, OneKeeps
  <1> QED
    BY <1>1, <1>2, <1>3, <1>4

(* A stop that leaves the framework running is untidy.                      *)
LEMMA StopFacts ==
    ASSUME SagaInv, ~untidy, NEW f \in Framework, NEW m \in Mount, StopOn(f, m),
           runs[f] \subseteq {m}
    PROVE  /\ runs' \in [Framework -> SUBSET Mount] /\ untidy' \in BOOLEAN
           /\ \A g \in Framework \ {f} : runs'[g] = runs[g]
           /\ ~untidy' => runs'[f] = {}
  BY DEF StopOn, SagaInv, SagaTypeOK

LEMMA DisableSteps ==
    ASSUME SagaInv, ~untidy, NEW f \in Framework,
           Undo(f) \/ RestoreEntry(f) \/ DisableBegins(f) \/ DisableStops(f) \/ DisableWrites(f)
             \/ SagaDies(f)
    PROVE  SagaInv'
  <1>0. SagaTypeOK /\ StageFacts(f) /\ Configured(f)
    BY DEF SagaInv
  <1> USE DEF Goes
  <1>1. CASE Undo(f) \/ DisableStops(f)
    <2>1. /\ memory[f] \in [Framework -> Entry] /\ config[f] = memory[f][f]
          /\ memory[f][f].mount \in Mount
      BY <1>0, <1>1 DEF Undo, DisableStops, StageFacts, Entry
    <2>2. StopOn(f, memory[f][f].mount) /\ runs[f] \subseteq {memory[f][f].mount}
      BY <1>0, <1>1, <2>1 DEF Undo, DisableStops, Configured
    <2>3. /\ runs' \in [Framework -> SUBSET Mount] /\ untidy' \in BOOLEAN
          /\ \A g \in Framework \ {f} : runs'[g] = runs[g]
          /\ ~untidy' => runs'[f] = {}
      BY <2>1, <2>2, StopFacts
    <2>4. SagaTypeOK'
      BY <1>0, <1>1, <2>3 DEF Undo, DisableStops, SagaTypeOK, Working
    <2>5. ~untidy' => (StageFacts(f) /\ Configured(f))'
      BY <1>0, <1>1, <2>1, <2>3 DEF Undo, DisableStops, SagaTypeOK, StageFacts, Configured
    <2>6. Only(f)
      BY <1>0, <1>1, <2>3 DEF Undo, DisableStops, SagaTypeOK, Only
    <2> QED
      BY <2>4, <2>5, <2>6, OneKeeps
  <1>2. CASE DisableBegins(f)
    <2>1. SagaTypeOK'
      BY <1>0, <1>2 DEF DisableBegins, SagaTypeOK, Working
    <2>2. (StageFacts(f) /\ Configured(f))'
      BY <1>0, <1>2 DEF DisableBegins, SagaTypeOK, StageFacts, Configured
    <2>3. Only(f)
      BY <1>0, <1>2 DEF DisableBegins, SagaTypeOK, Only
    <2> QED
      BY <2>1, <2>2, <2>3, OneKeeps
  <1>3. ASSUME NEW new \in [Framework -> Entry], WriteConfig(f, new), Done(f), runs' = runs, runs[f] = {}
        PROVE  SagaInv'
    <2>1. /\ config' = new /\ untidy' \in BOOLEAN
          /\ ~untidy' => \A g \in Framework \ {f} : config'[g] = config[g]
      BY <1>3, WriteFacts
    <2>2. SagaTypeOK'
      BY <1>0, <1>3, <2>1, OffIsEntry DEF Done, SagaTypeOK
    <2>3. (StageFacts(f) /\ Configured(f))'
      BY <1>0, <1>3, <2>1 DEF Done, SagaTypeOK, StageFacts, Configured
    <2>4. Only(f)
      BY <1>0, <1>3, <2>1 DEF Done, SagaTypeOK, Only
    <2> QED
      BY <2>2, <2>3, <2>4, OneKeeps
  <1>4. CASE RestoreEntry(f)
    <2>1. /\ [memory[f] EXCEPT ![f] = before[f]] \in [Framework -> Entry] /\ runs[f] = {}
      BY <1>0, <1>4 DEF RestoreEntry, StageFacts, SagaTypeOK
    <2> QED
      BY <1>3, <1>4, <2>1 DEF RestoreEntry
  <1>5. CASE DisableWrites(f)
    <2>1. /\ [memory[f] EXCEPT ![f].on = FALSE] \in [Framework -> Entry] /\ runs[f] = {}
      BY <1>0, <1>5 DEF DisableWrites, StageFacts, SagaTypeOK, Entry
    <2> QED
      BY <1>3, <1>5, <2>1 DEF DisableWrites
  <1>6. CASE SagaDies(f)
    <2>1. SagaTypeOK'
      BY <1>0, <1>6, OffIsEntry DEF SagaDies, Done, SagaTypeOK
    <2>2. (StageFacts(f) /\ Configured(f))'
      BY <1>0, <1>6 DEF SagaDies, Done, SagaTypeOK, StageFacts, Configured
    <2>3. Only(f)
      BY <1>0, <1>6 DEF SagaDies, Done, SagaTypeOK, Only
    <2> QED
      BY <2>1, <2>2, <2>3, OneKeeps
  <1> QED
    BY <1>1, <1>2, <1>4, <1>5, <1>6

LEMMA SagaNextInv == SagaInv /\ [SagaNext]_sagaVars => SagaInv'
  <1> SUFFICES ASSUME SagaInv, [SagaNext]_sagaVars PROVE SagaInv'
    OBVIOUS
  <1>1. CASE SagaNext
    BY <1>1, EnableSteps, DisableSteps DEF SagaNext
  <1>2. CASE UNCHANGED sagaVars
    BY <1>2 DEF sagaVars, SagaInv, SagaTypeOK, StageFacts, Configured
  <1> QED
    BY <1>1, <1>2

LEMMA SagaInvariance == SagaSpec => []SagaInv
  BY SagaInitInv, SagaNextInv, PTL DEF SagaSpec

(* The config, what runs and the operations keep their shapes.              *)
THEOREM SagaTypeCorrect == SagaSpec => []SagaTypeOK
  <1>1. SagaInv => SagaTypeOK
    BY DEF SagaInv
  <1> QED
    BY <1>1, SagaInvariance, PTL

(* Until a stop fails or a write undoes another framework's, a framework    *)
(* runs nowhere but on the mount of its entry, and only while that is on,   *)
(* whichever starts, probes and compensations come in between.              *)
THEOREM FrameworksRunAsConfigured == SagaSpec => []RunsAsConfigured
  <1>1. SagaInv => RunsAsConfigured
    BY DEF SagaInv, Configured, RunsAsConfigured
  <1> QED
    BY <1>1, SagaInvariance, PTL

-----------------------------------------------------------------------------
(* Whoever is in an update has one to make.                                 *)
HasUpdate == \A u \in User : at[u] # "free" => adds[u] \in Update

(* While no two calls were inside the lock at once: one is at most, the     *)
(* temporary file is the one it writes, and the document is whole.          *)
Handle(u) == IF at[u] \in {"dump", "replace"} THEN "tmp" ELSE "none"

Serial ==
    /\ \A u, v \in InLock : u = v
    /\ \A u \in User : /\ handle[u] = Handle(u)
                       /\ at[u] = "dump" => tmp.bytes = "empty"
                       /\ at[u] = "replace" => tmp.bytes = "whole"
    /\ doc.bytes = "whole"

(* A cached document expires within Ttl of now and of whatever it lacks.    *)
Expires ==
    \A u \in User : /\ cache[u].until <= time + Ttl
                    /\ \A n \in doc.has \ cache[u].has : cache[u].until <= since[n] + Ttl

StoreInv == StoreTypeOK /\ HasUpdate /\ (overlapped \/ Serial) /\ Expires

LEMMA StoreInitInv == StoreInit => StoreInv
  <1> SUFFICES ASSUME StoreInit PROVE StoreInv
    OBVIOUS
  <1>1. 0 \in 0..MaxTime /\ Never \in 0..Never
    BY StoreAssumption DEF Never
  <1>2. StoreTypeOK
    BY <1>1, StoreAssumption DEF StoreInit, StoreTypeOK, File, NoFile, NoCache, Update
  <1>3. HasUpdate /\ Serial
    BY DEF StoreInit, HasUpdate, Serial, Handle, InLock, Inner
  <1>4. Expires
    BY StoreAssumption DEF StoreInit, Expires, NoCache
  <1> QED
    BY <1>2, <1>3, <1>4 DEF StoreInv

(* What a read returns is a set of updates, and what it caches is new.      *)
LEMMA ReadKeeps ==
    ASSUME StoreInv, NEW u \in User, NEW got, JsonRead(u, got),
           UNCHANGED <<doc, since, time>>
    PROVE  /\ got \in SUBSET Update
           /\ cache' \in [User -> [has : SUBSET Update, mtime : 0..MaxTime, until : Nat]]
           /\ Expires'
  <1>0. doc.has \in SUBSET Update /\ doc.mtime \in 0..MaxTime /\ time \in Nat
    BY DEF StoreInv, StoreTypeOK, File
  <1>1. cache \in [User -> [has : SUBSET Update, mtime : 0..MaxTime, until : Nat]]
    BY DEF StoreInv, StoreTypeOK
  <1>2. got \in SUBSET Update
    BY <1>0, <1>1 DEF JsonRead, Content
  <1>3. CASE cache' = cache
    BY <1>1, <1>2, <1>3 DEF StoreInv, Expires
  <1>4. CASE cache' = [cache EXCEPT ![u] = [has |-> doc.has, mtime |-> doc.mtime,
                                            until |-> time + Ttl]]
    <2>1. [has |-> doc.has, mtime |-> doc.mtime, until |-> time + Ttl]
              \in [has : SUBSET Update, mtime : 0..MaxTime, until : Nat]
      BY <1>0, StoreAssumption
    <2>2. cache' \in [User -> [has : SUBSET Update, mtime : 0..MaxTime, until : Nat]]
      BY <1>1, <1>4, <2>1
    <2>3. cache'[u].has = doc.has /\ cache'[u].until = time + Ttl
      BY <1>1, <1>4
    <2>4. \A v \in User \ {u} : cache'[v] = cache[v]
      BY <1>1, <1>4
    <2>5. Expires'
      <3> SUFFICES ASSUME NEW v \in User
                   PROVE  /\ cache'[v].until <= time + Ttl
                          /\ \A n \in doc.has \ cache'[v].has : cache'[v].until <= since[n] + Ttl
        BY DEF Expires
      <3>1. CASE v = u
        BY <1>0, <2>3, <3>1, StoreAssumption
      <3>2. CASE v # u
        BY <2>4, <3>2 DEF StoreInv, Expires
      <3> QED
        BY <3>1, <3>2
    <2> QED
      BY <1>2, <2>2, <2>5
  <1> QED
    BY <1>3, <1>4 DEF JsonRead

(* A process that is not in json_write changes where it is.                 *)
LEMMA PeekKeeps ==
    ASSUME StoreInv, NEW u \in User, Peek(u)
    PROVE  StoreInv'
  <1>1. PICK got \in SUBSET Update : JsonRead(u, got) /\ held' \in {held, [held EXCEPT ![u] = got]}
    BY DEF Peek
  <1>2. CASE UNCHANGED <<at, held, adds, blind>>
    <2>1. cache' \in [User -> [has : SUBSET Update, mtime : 0..MaxTime, until : Nat]] /\ Expires'
      BY ReadKeeps, <1>1 DEF Peek
    <2>2. StoreTypeOK'
      BY <1>2, <2>1 DEF Peek, StoreInv, StoreTypeOK
    <2>3. HasUpdate' /\ (overlapped' \/ Serial')
      BY <1>2 DEF Peek, StoreInv, HasUpdate, Serial, Handle, InLock
    <2> QED
      BY <2>1, <2>2, <2>3 DEF StoreInv
  <1>3. CASE \E n \in NewUpdate : /\ adds' = [adds EXCEPT ![u] = n]
                                  /\ at' = [at EXCEPT ![u] = "have"]
                                  /\ blind' = blind \cup {u}
    <2>0. PICK n \in Update : adds' = [adds EXCEPT ![u] = n]
      BY <1>3 DEF NewUpdate
    <2>1. cache' \in [User -> [has : SUBSET Update, mtime : 0..MaxTime, until : Nat]] /\ Expires'
      BY ReadKeeps, <1>1 DEF Peek
    <2>2. StoreTypeOK'
      BY <1>1, <1>3, <2>0, <2>1 DEF Peek, StoreInv, StoreTypeOK
    <2>3. HasUpdate'
      BY <1>3, <2>0 DEF StoreInv, StoreTypeOK, HasUpdate
    <2>4. overlapped' \/ Serial'
      BY <1>3 DEF Peek, StoreInv, StoreTypeOK, Serial, Handle, InLock, Inner
    <2> QED
      BY <2>1, <2>2, <2>3, <2>4 DEF StoreInv
  <1> QED
    BY <1>2, <1>3 DEF Peek

LEMMA LockFileKeeps ==
    ASSUME StoreInv, NEW u \in User, LockFile(u)
    PROVE  StoreInv'
  <1>1. PICK to \in {"read", "open"} : at' = [at EXCEPT ![u] = to]
    BY DEF LockFile
  <1>2. /\ adds' \in [User -> Update \cup {0}] /\ adds'[u] \in Update
        /\ \A v \in User \ {u} : adds'[v] = adds[v]
    <2>1. CASE at[u] = "free" /\ \E n \in NewUpdate : adds' = [adds EXCEPT ![u] = n]
      BY <2>1 DEF NewUpdate, StoreInv, StoreTypeOK
    <2>2. CASE at[u] = "have" /\ adds' = adds
      BY <2>2 DEF StoreInv, StoreTypeOK, HasUpdate
    <2> QED
      BY <2>1, <2>2 DEF LockFile
  <1>3. StoreTypeOK'
    BY <1>1, <1>2 DEF LockFile, StoreInv, StoreTypeOK, Inner
  <1>4. HasUpdate'
    BY <1>1, <1>2 DEF StoreInv, StoreTypeOK, HasUpdate
  <1>5. overlapped' \/ Serial'
    <2> SUFFICES ASSUME ~overlapped, InLock = {} PROVE Serial'
      BY DEF LockFile
    <2>1. \A v \in User : at[v] \notin Inner
      BY DEF InLock
    <2>2. \A v \in User : v # u => at'[v] = at[v]
      BY <1>1 DEF StoreInv, StoreTypeOK
    <2>3. at'[u] = to
      BY <1>1 DEF StoreInv, StoreTypeOK
    <2>4. InLock' \subseteq {u}
      BY <2>1, <2>2 DEF InLock
    <2>5. handle[u] = "none" /\ at[u] \notin {"dump", "replace"}
      BY <2>1 DEF StoreInv, Serial, Handle, Inner
    <2>6. \A v \in User : /\ handle'[v] = Handle(v)'
                          /\ at'[v] \notin {"dump", "replace"}
      BY <2>1, <2>2, <2>3, <2>5 DEF LockFile, StoreInv, Serial, Handle, Inner
    <2> QED
      BY <2>4, <2>6 DEF LockFile, StoreInv, Serial
  <1>6. Expires'
    BY DEF LockFile, StoreInv, Expires
  <1> QED
    BY <1>3, <1>4, <1>5, <1>6 DEF StoreInv

LEMMA ReadLockedKeeps ==
    ASSUME StoreInv, NEW u \in User, ReadLocked(u)
    PROVE  StoreInv'
  <1>1. PICK got \in SUBSET Update : JsonRead(u, got) /\ held' = [held EXCEPT ![u] = got]
    BY DEF ReadLocked
  <1>2. cache' \in [User -> [has : SUBSET Update, mtime : 0..MaxTime, until : Nat]] /\ Expires'
    BY ReadKeeps, <1>1 DEF ReadLocked
  <1>3. at' = [at EXCEPT ![u] = "open"] /\ at[u] = "read"
    BY DEF ReadLocked
  <1>4. StoreTypeOK'
    <2>1. at' \in [User -> Inner \cup {"free", "have"}]
      BY <1>3 DEF StoreInv, StoreTypeOK, Inner
    <2>2. held' \in [User -> SUBSET Update]
      BY <1>1 DEF StoreInv, StoreTypeOK
    <2> QED
      BY <1>2, <2>1, <2>2 DEF ReadLocked, StoreInv, StoreTypeOK
  <1>5. HasUpdate'
    BY <1>3 DEF ReadLocked, StoreInv, StoreTypeOK, HasUpdate
  <1>6. overlapped' \/ Serial'
    <2>1. InLock' = InLock
      BY <1>3 DEF StoreInv, StoreTypeOK, InLock, Inner
    <2>2. \A v \in User : Handle(v)' = Handle(v)
      BY <1>3 DEF StoreInv, StoreTypeOK, Handle
    <2> QED
      BY <1>3, <2>1, <2>2 DEF ReadLocked, StoreInv, StoreTypeOK, Serial
  <1> QED
    BY <1>2, <1>4, <1>5, <1>6 DEF StoreInv

LEMMA OpenTmpKeeps ==
    ASSUME StoreInv, NEW u \in User, OpenTmp(u)
    PROVE  StoreInv'
  <1>1. /\ at[u] = "open" /\ at' = [at EXCEPT ![u] = "dump"]
        /\ handle' = [handle EXCEPT ![u] = "tmp"]
        /\ tmp' = [has |-> {}, bytes |-> "empty", mtime |-> time]
    BY DEF OpenTmp
  <1>2. tmp' \in File
    BY <1>1 DEF StoreInv, StoreTypeOK, File
  <1>3. StoreTypeOK'
    BY <1>1, <1>2 DEF OpenTmp, StoreInv, StoreTypeOK, Inner
  <1>4. HasUpdate'
    BY <1>1 DEF OpenTmp, StoreInv, StoreTypeOK, HasUpdate
  <1>5. overlapped' \/ Serial'
    <2> SUFFICES ASSUME Serial PROVE Serial'
      BY DEF OpenTmp, StoreInv
    <2>1. InLock' = InLock /\ u \in InLock
      BY <1>1 DEF StoreInv, StoreTypeOK, InLock, Inner
    <2>2. \A v \in User : v # u => at'[v] = at[v] /\ handle'[v] = handle[v]
      BY <1>1 DEF StoreInv, StoreTypeOK
    <2>3. at'[u] = "dump" /\ handle'[u] = "tmp" /\ tmp'.bytes = "empty"
      BY <1>1 DEF StoreInv, StoreTypeOK
    <2>4. \A v \in User : v # u => at'[v] \notin Inner
      BY <2>1, <2>2 DEF Serial, InLock
    <2>5. \A v \in User : /\ handle'[v] = Handle(v)'
                          /\ at'[v] = "dump" => tmp'.bytes = "empty"
                          /\ at'[v] = "replace" => tmp'.bytes = "whole"
      BY <2>2, <2>3, <2>4 DEF Serial, Handle, Inner
    <2> QED
      BY <2>1, <2>5 DEF OpenTmp, Serial
  <1>6. Expires'
    BY DEF OpenTmp, StoreInv, Expires
  <1> QED
    BY <1>3, <1>4, <1>5, <1>6 DEF StoreInv

(* A document of known updates, written now, is one no cache outlives.      *)
LEMMA BecomesKeeps ==
    ASSUME StoreInv, NEW f \in File, Becomes(f), time' = time,
           \A u \in User : cache'[u] \in {cache[u], NoCache}
    PROVE  /\ doc' \in File
           /\ stamp' \in [Update -> 0..Never] /\ since' \in [Update -> 0..Never]
           /\ Expires'
  <1>0. /\ f.has \in SUBSET Update /\ f.mtime \in 0..MaxTime /\ doc.has \in SUBSET Update
        /\ time \in 0..MaxTime /\ stamp \in [Update -> 0..Never] /\ since \in [Update -> 0..Never]
        /\ cache \in [User -> [has : SUBSET Update, mtime : 0..MaxTime, until : Nat]]
    BY DEF StoreInv, StoreTypeOK, File
  <1>1. doc' = f /\ doc' \in File
    BY DEF Becomes
  <1>2. f.mtime \in 0..Never /\ time \in 0..Never
    BY <1>0, StoreAssumption DEF Never
  <1>3. stamp' \in [Update -> 0..Never]
    BY <1>0, <1>2 DEF Becomes
  <1>4. since' \in [Update -> 0..Never]
    BY <1>0, <1>2 DEF Becomes
  <1>5. \A n \in Update : since'[n] = IF n \in f.has \ doc.has THEN time ELSE since[n]
    BY DEF Becomes
  <1>6. Expires'
    <2> SUFFICES ASSUME NEW u \in User
                 PROVE  /\ cache'[u].until <= time + Ttl
                        /\ \A n \in f.has \ cache'[u].has : cache'[u].until <= since'[n] + Ttl
      BY <1>1 DEF Expires
    <2>1. CASE cache'[u] = NoCache
      <3>1. cache'[u].until = 0
        BY <2>1 DEF NoCache
      <3>2. \A n \in Update : since'[n] \in Nat
        BY <1>4
      <3> QED
        BY <1>0, <3>1, <3>2, StoreAssumption
    <2>2. CASE cache'[u] = cache[u]
      <3>1. cache[u].until \in Nat /\ cache[u].until <= time + Ttl
        BY <1>0 DEF StoreInv, Expires
      <3>2. ASSUME NEW n \in f.has \ cache[u].has
            PROVE  cache[u].until <= since'[n] + Ttl
        <4>1. CASE n \in doc.has
          BY <1>0, <1>5, <3>2, <4>1 DEF StoreInv, Expires
        <4>2. CASE n \notin doc.has
          BY <1>0, <1>5, <3>1, <3>2, <4>2
        <4> QED
          BY <4>1, <4>2
      <3> QED
        BY <2>2, <3>1, <3>2
    <2> QED
      BY <2>1, <2>2
  <1> QED
    BY <1>1, <1>3, <1>4, <1>6

LEMMA DumpedIsFile ==
    ASSUME StoreInv, NEW u \in User, at[u] = "dump", NEW f \in File, NEW g \in Dumped(u, f)
    PROVE  g \in File /\ (f.bytes = "empty" => g.bytes = "whole")
  <1>1. held[u] \cup {adds[u]} \in SUBSET Update /\ time \in 0..MaxTime
    BY DEF StoreInv, StoreTypeOK, HasUpdate
  <1> QED
    BY <1>1 DEF Dumped, File

LEMMA DumpKeeps ==
    ASSUME StoreInv, NEW u \in User, Dump(u)
    PROVE  StoreInv'
  <1>1. at[u] = "dump" /\ at' = [at EXCEPT ![u] = "replace"] /\ cache' = cache /\ time' = time
    BY DEF Dump
  <1>2. tmp \in File /\ doc \in File
    BY DEF StoreInv, StoreTypeOK
  <1>3. tmp' \in File
    BY <1>1, <1>2, DumpedIsFile DEF Dump
  <1>4. /\ doc' \in File
        /\ stamp' \in [Update -> 0..Never] /\ since' \in [Update -> 0..Never]
        /\ Expires'
    <2>1. CASE UNCHANGED <<doc, stamp, since>>
      BY <1>1, <2>1 DEF StoreInv, StoreTypeOK, Expires
    <2>2. CASE \E f \in Dumped(u, doc) : Becomes(f)
      BY <1>1, <1>2, <2>2, DumpedIsFile, BecomesKeeps
    <2> QED
      BY <2>1, <2>2 DEF Dump
  <1>5. StoreTypeOK'
    BY <1>1, <1>3, <1>4 DEF Dump, StoreInv, StoreTypeOK, Inner
  <1>6. HasUpdate'
    BY <1>1 DEF Dump, StoreInv, StoreTypeOK, HasUpdate
  <1>7. overlapped' \/ Serial'
    <2> SUFFICES ASSUME Serial PROVE Serial'
      BY DEF Dump, StoreInv
    <2>1. InLock' = InLock /\ u \in InLock
      BY <1>1 DEF StoreInv, StoreTypeOK, InLock, Inner
    <2>2. handle[u] = "tmp" /\ tmp.bytes = "empty"
      BY <1>1 DEF Serial, Handle
    <2>3. tmp'.bytes = "whole" /\ doc' = doc
      BY <1>1, <1>2, <2>2, DumpedIsFile DEF Dump
    <2>4. \A v \in User : v # u => at'[v] = at[v] /\ at'[v] \notin Inner
      BY <1>1, <2>1 DEF StoreInv, StoreTypeOK, Serial, InLock
    <2>5. at'[u] = "replace"
      BY <1>1 DEF StoreInv, StoreTypeOK
    <2>6. \A v \in User : /\ handle'[v] = Handle(v)'
                          /\ at'[v] = "dump" => tmp'.bytes = "empty"
                          /\ at'[v] = "replace" => tmp'.bytes = "whole"
      BY <2>2, <2>3, <2>4, <2>5 DEF Dump, Serial, Handle, Inner
    <2> QED
      BY <2>1, <2>3, <2>6 DEF Serial
  <1> QED
    BY <1>4, <1>5, <1>6, <1>7 DEF StoreInv

(* Whoever leaves json_write has no update any more.                        *)
LEMMA ForgetKeeps ==
    ASSUME StoreInv, NEW u \in User, Forget(u)
    PROVE  /\ at' \in [User -> Inner \cup {"free", "have"}]
           /\ adds' \in [User -> Update \cup {0}]
           /\ held' \in [User -> SUBSET Update]
           /\ blind' \in SUBSET User
           /\ HasUpdate'
           /\ at'[u] = "free" /\ \A v \in User : v # u => at'[v] = at[v]
           /\ InLock' \subseteq InLock
  BY DEF Forget, StoreInv, StoreTypeOK, HasUpdate, InLock, Inner

LEMMA ReplaceKeeps ==
    ASSUME StoreInv, NEW u \in User, Replace(u)
    PROVE  StoreInv'
  <1>1. at[u] = "replace" /\ Forget(u) /\ time' = time /\ overlapped' = overlapped
    BY DEF Replace
  <1>2. CASE tmp.bytes = "none"
    <2>1. UNCHANGED <<doc, tmp, cache, stamp, since>> /\ handle' = [handle EXCEPT ![u] = "none"]
      BY <1>2 DEF Replace
    <2>2. StoreTypeOK'
      BY <1>1, <2>1, ForgetKeeps DEF StoreInv, StoreTypeOK
    <2>3. overlapped
      BY <1>1, <1>2 DEF StoreInv, Serial
    <2>4. Expires'
      BY <1>1, <2>1 DEF StoreInv, Expires
    <2> QED
      BY <1>1, <2>2, <2>3, <2>4, ForgetKeeps DEF StoreInv
  <1>3. CASE tmp.bytes # "none"
    <2>1. /\ Becomes(tmp) /\ tmp' = NoFile /\ cache' = [cache EXCEPT ![u] = NoCache]
          /\ handle' = [v \in User |-> IF v = u THEN "none" ELSE Renamed(handle[v])]
      BY <1>3 DEF Replace
    <2>2. tmp \in File /\ NoFile \in File
      <3>1. 0 \in 0..MaxTime
        BY StoreAssumption
      <3> QED
        BY <3>1 DEF StoreInv, StoreTypeOK, File, NoFile
    <2>3. /\ cache' \in [User -> [has : SUBSET Update, mtime : 0..MaxTime, until : Nat]]
          /\ \A v \in User : cache'[v] \in {cache[v], NoCache}
      <3>1. 0 \in 0..MaxTime
        BY StoreAssumption
      <3> QED
        BY <2>1, <3>1 DEF StoreInv, StoreTypeOK, NoCache
    <2>4. handle' \in [User -> {"none", "tmp", "doc", "gone"}]
      <3>1. \A v \in User : Renamed(handle[v]) \in {"none", "tmp", "doc", "gone"}
        BY DEF StoreInv, StoreTypeOK, Renamed
      <3> QED
        BY <2>1, <3>1
    <2>5. /\ doc' \in File
          /\ stamp' \in [Update -> 0..Never] /\ since' \in [Update -> 0..Never]
          /\ Expires'
      BY <1>1, <2>1, <2>2, <2>3, BecomesKeeps
    <2>6. StoreTypeOK'
      BY <1>1, <2>1, <2>2, <2>3, <2>4, <2>5, ForgetKeeps DEF StoreInv, StoreTypeOK
    <2>7. overlapped' \/ Serial'
      <3> SUFFICES ASSUME Serial PROVE Serial'
        BY <1>1 DEF StoreInv
      <3>1. doc'.bytes = "whole"
        BY <1>1, <2>1 DEF Serial, Becomes
      <3>2. u \in InLock
        BY <1>1 DEF InLock, Inner
      <3>3. \A v \in User : v # u => at[v] \notin Inner /\ handle[v] = "none"
        BY <3>2 DEF Serial, InLock, Inner, Handle
      <3>4. \A v \in User : at'[v] \notin Inner /\ handle'[v] = "none"
        <4>1. at'[u] = "free" /\ \A v \in User : v # u => at'[v] = at[v]
          BY <1>1, ForgetKeeps
        <4>2. \A v \in User : handle'[v] = "none"
          BY <2>1, <3>3 DEF Renamed
        <4> QED
          BY <3>3, <4>1, <4>2 DEF Inner
      <3> QED
        BY <3>1, <3>4 DEF Serial, InLock, Inner, Handle
    <2> QED
      BY <1>1, <2>5, <2>6, <2>7, ForgetKeeps DEF StoreInv
  <1> QED
    BY <1>2, <1>3

LEMMA KillUserKeeps ==
    ASSUME StoreInv, NEW u \in User, KillUser(u)
    PROVE  StoreInv'
  <1>1. /\ Forget(u) /\ handle' = [handle EXCEPT ![u] = "none"]
        /\ cache' = [cache EXCEPT ![u] = NoCache]
        /\ UNCHANGED <<doc, tmp, stamp, since, time, overlapped>>
    BY DEF KillUser
  <1>2. /\ cache' \in [User -> [has : SUBSET Update, mtime : 0..MaxTime, until : Nat]]
        /\ \A v \in User : v # u => cache'[v] = cache[v]
        /\ cache'[u] = NoCache
    <2>1. 0 \in 0..MaxTime
      BY StoreAssumption
    <2> QED
      BY <1>1, <2>1 DEF StoreInv, StoreTypeOK, NoCache
  <1>3. StoreTypeOK'
    BY <1>1, <1>2, ForgetKeeps DEF StoreInv, StoreTypeOK
  <1>4. Expires'
    <2>1. \A n \in doc.has : since[n] \in Nat
      BY DEF StoreInv, StoreTypeOK, File
    <2>2. NoCache.until = 0 /\ time \in Nat
      BY DEF NoCache, StoreInv, StoreTypeOK
    <2> QED
      BY <1>1, <1>2, <2>1, <2>2, StoreAssumption DEF StoreInv, Expires
  <1>5. overlapped' \/ Serial'
    <2> SUFFICES ASSUME Serial PROVE Serial'
      BY <1>1 DEF StoreInv
    <2>1. InLock' \subseteq InLock /\ at'[u] = "free" /\ \A v \in User : v # u => at'[v] = at[v]
      BY <1>1, ForgetKeeps
    <2>2. \A v \in User : /\ handle'[v] = Handle(v)'
                          /\ at'[v] = "dump" => tmp'.bytes = "empty"
                          /\ at'[v] = "replace" => tmp'.bytes = "whole"
      BY <1>1, <2>1 DEF Serial, Handle, StoreInv, StoreTypeOK
    <2> QED
      BY <1>1, <2>1, <2>2 DEF Serial
  <1> QED
    BY <1>1, <1>3, <1>4, <1>5, ForgetKeeps DEF StoreInv

LEMMA LaterKeeps ==
    ASSUME StoreInv, Later
    PROVE  StoreInv'
  <1>1. /\ time' = time + 1 /\ time \in 0..MaxTime /\ time < MaxTime
        /\ UNCHANGED <<doc, tmp, cache, at, held, handle, adds, blind, stamp, since, overlapped>>
    BY DEF Later, StoreInv, StoreTypeOK
  <1>2. time' \in 0..MaxTime /\ time' > time
    BY <1>1, StoreAssumption
  <1>3. StoreTypeOK'
    BY <1>1, <1>2 DEF StoreInv, StoreTypeOK
  <1>4. HasUpdate' /\ (overlapped' \/ Serial')
    BY <1>1 DEF StoreInv, HasUpdate, Serial, Handle, InLock
  <1>5. Expires'
    <2>1. \A u \in User : cache[u].until \in Nat
      BY DEF StoreInv, StoreTypeOK
    <2> QED
      BY <1>1, <1>2, <2>1, StoreAssumption DEF StoreInv, Expires
  <1> QED
    BY <1>3, <1>4, <1>5 DEF StoreInv

LEMMA StoreNextInv == StoreInv /\ [StoreNext]_storeVars => StoreInv'
  <1> SUFFICES ASSUME StoreInv, [StoreNext]_storeVars PROVE StoreInv'
    OBVIOUS
  <1>1. CASE StoreNext
    BY <1>1, PeekKeeps, LockFileKeeps, ReadLockedKeeps, OpenTmpKeeps, DumpKeeps, ReplaceKeeps,
       KillUserKeeps, LaterKeeps DEF StoreNext
  <1>2. CASE UNCHANGED storeVars
    BY <1>2 DEF storeVars, StoreInv, StoreTypeOK, HasUpdate, Serial, Handle, InLock, Expires
  <1> QED
    BY <1>1, <1>2

LEMMA StoreInvariance == StoreSpec => []StoreInv
  BY StoreInitInv, StoreNextInv, PTL DEF StoreSpec

(* The file, its temporary copy and every cache keep their shapes.          *)
THEOREM StoreTypeCorrect == StoreSpec => []StoreTypeOK
  <1>1. StoreInv => StoreTypeOK
    BY DEF StoreInv
  <1> QED
    BY <1>1, StoreInvariance, PTL

(* Whoever is killed wherever in json_write, the document is readable until *)
(* two calls have been inside the lock at once.                             *)
THEOREM KillsDoNotTear == StoreSpec => []TornNeedsOverlap
  <1>1. StoreInv => TornNeedsOverlap
    BY DEF StoreInv, Serial, TornNeedsOverlap
  <1> QED
    BY <1>1, StoreInvariance, PTL

(* A cached document that is still used lacks nothing that has been in the  *)
(* file for the ttl, even when time stamps do not tell versions apart.      *)
THEOREM CachesAreShort == StoreSpec => []StaleIsShort
  <1>1. StoreInv => StaleIsShort
    <2> SUFFICES ASSUME StoreInv, NEW u \in User, Hit(u), NEW n \in doc.has \ cache[u].has
                 PROVE  time < since[n] + Ttl
      BY DEF StaleIsShort
    <2>1. cache[u].until <= since[n] + Ttl /\ time < cache[u].until
      BY DEF StoreInv, Expires, Hit
    <2>2. cache[u].until \in Nat /\ since[n] \in Nat /\ time \in Nat
      BY DEF StoreInv, StoreTypeOK, File
    <2> QED
      BY <2>1, <2>2, StoreAssumption
  <1> QED
    BY <1>1, StoreInvariance, PTL

-----------------------------------------------------------------------------
(* The updates of S came with the document or before it.                    *)
Known(S, d, m) == \A n \in S : m[n] <= d.mtime

(* What a reader of S misses of the document came in the document's tick,   *)
(* in which S has an update too.                                            *)
InTick(S, d, m) ==
    /\ \A n \in d.has \ S : m[n] = d.mtime
    /\ d.mtime = 0 \/ \E k \in S : m[k] = d.mtime

DocTick == doc.mtime <= time /\ Known(doc.has, doc, stamp) /\ InTick(doc.has, doc, stamp)

(* A cache with the document's time stamp misses nothing older.             *)
CacheTick ==
    \A u \in User :
       /\ Known(cache[u].has, doc, stamp) /\ cache[u].mtime <= doc.mtime
       /\ cache[u].until > 0 /\ cache[u].mtime = doc.mtime => InTick(cache[u].has, doc, stamp)

(* Nor does what was read within the lock, until it is written.             *)
HeldTick ==
    \A u \in User :
       /\ Known(held[u], doc, stamp)
       /\ at[u] = "have" => u \in blind
       /\ at[u] \in {"open", "dump", "replace"} /\ u \notin blind => InTick(held[u], doc, stamp)
       /\ at[u] = "replace" => /\ tmp.has = held[u] \cup {adds[u]}
                               /\ doc.mtime <= tmp.mtime /\ tmp.mtime <= time

(* An update that was started and not written is in no document.            *)
AddsNew ==
    /\ \A u, v \in User : adds[u] = adds[v] /\ adds[u] # 0 => u = v
    /\ \A u \in User : adds[u] # 0 => stamp[adds[u]] = Never

TickInv == DocTick /\ CacheTick /\ HeldTick /\ AddsNew

LEMMA TickInit == StoreInit => TickInv
  BY DEF StoreInit, TickInv, DocTick, CacheTick, HeldTick, AddsNew, Known, InTick, NoCache

(* The shapes these conditions are about.                                   *)
LEMMA StoreTypes ==
    ASSUME StoreInv
    PROVE  /\ doc.has \in SUBSET Update /\ doc.mtime \in 0..MaxTime
           /\ time \in Nat /\ MaxTime \in Nat
           /\ stamp \in [Update -> 0..Never] /\ \A n \in Update : stamp[n] \in Nat
           /\ held \in [User -> SUBSET Update]
           /\ cache \in [User -> [has : SUBSET Update, mtime : 0..MaxTime, until : Nat]]
           /\ adds \in [User -> Update \cup {0}]
           /\ at \in [User -> Inner \cup {"free", "have"}]
           /\ blind \in SUBSET User
           /\ 0 \notin Update
  BY StoreAssumption DEF StoreInv, StoreTypeOK, File, Update, Never

(* A read within or without the lock.                                       *)
LEMMA ReadTick ==
    ASSUME StoreInv, Serial, TickInv, NEW u \in User, NEW got, JsonRead(u, got),
           UNCHANGED <<doc, stamp>>
    PROVE  CacheTick' /\ Known(got, doc', stamp') /\ InTick(got, doc', stamp')
  <1>1. CASE Hit(u)
    <2>1. cache[u].until > 0 /\ cache[u].mtime = doc.mtime
      BY <1>1, StoreTypes DEF Hit
    <2>2. got = cache[u].has /\ cache' = cache
      BY <1>1 DEF JsonRead
    <2>3. Known(cache[u].has, doc, stamp) /\ InTick(cache[u].has, doc, stamp)
      BY <2>1 DEF TickInv, CacheTick
    <2> QED
      BY <2>2, <2>3 DEF TickInv, CacheTick, Known, InTick
  <1>2. CASE ~Hit(u)
    <2>1. got = doc.has
      BY <1>2 DEF JsonRead, Content, Serial
    <2>2. cache' = [cache EXCEPT ![u] = [has |-> doc.has, mtime |-> doc.mtime,
                                         until |-> time + Ttl]]
      BY <1>2 DEF JsonRead, Serial
    <2>3. /\ cache'[u].has = doc.has /\ cache'[u].mtime = doc.mtime
          /\ \A v \in User \ {u} : cache'[v] = cache[v]
      BY <2>2, StoreTypes
    <2>4. Known(doc'.has, doc', stamp') /\ InTick(doc'.has, doc', stamp')
      BY DEF TickInv, DocTick, Known, InTick
    <2>5. CacheTick'
      BY <2>3, <2>4, StoreTypes DEF TickInv, CacheTick, Known, InTick
    <2> QED
      BY <2>1, <2>4, <2>5 DEF Known, InTick
  <1> QED
    BY <1>1, <1>2

LEMMA PeekTick ==
    ASSUME StoreInv, Serial, TickInv, NEW u \in User, Peek(u)
    PROVE  TickInv'
  <1>0. UNCHANGED <<doc, tmp, handle, stamp, since, time, overlapped>> /\ at[u] = "free"
    BY DEF Peek
  <1>1. DocTick'
    BY <1>0 DEF TickInv, DocTick, Known, InTick
  <1>2. CASE UNCHANGED <<at, held, adds, blind>> /\ \E got \in SUBSET Update : JsonRead(u, got)
    <2>1. CacheTick'
      BY <1>0, <1>2, ReadTick
    <2> QED
      BY <1>0, <1>1, <1>2, <2>1 DEF TickInv, HeldTick, AddsNew, Known, InTick
  <1>3. ASSUME NEW got \in SUBSET Update, JsonRead(u, got), held' = [held EXCEPT ![u] = got],
               NEW n \in NewUpdate, adds' = [adds EXCEPT ![u] = n],
               at' = [at EXCEPT ![u] = "have"], blind' = blind \cup {u}
        PROVE  TickInv'
    <2>1. CacheTick' /\ Known(got, doc', stamp')
      BY <1>0, <1>3, ReadTick
    <2>2. /\ n \in Update /\ stamp[n] = Never /\ \A v \in User : adds[v] # n
      BY DEF NewUpdate, Started
    <2>3. AddsNew'
      BY <1>0, <1>3, <2>2, StoreTypes DEF TickInv, AddsNew
    <2>4. /\ held'[u] = got /\ at'[u] = "have" /\ u \in blind'
          /\ \A v \in User \ {u} : /\ held'[v] = held[v] /\ at'[v] = at[v] /\ adds'[v] = adds[v]
                                   /\ v \in blind' <=> v \in blind
      BY <1>3, StoreTypes
    <2>5. HeldTick'
      <3>1. \A v \in User : Known(held'[v], doc', stamp')
        BY <1>0, <2>1, <2>4 DEF TickInv, HeldTick, Known
      <3> QED
        BY <1>0, <2>1, <2>4 DEF TickInv, HeldTick, Known, InTick
    <2> QED
      BY <1>1, <2>1, <2>3, <2>5 DEF TickInv
  <1> QED
    BY <1>2, <1>3 DEF Peek

LEMMA LockFileTick ==
    ASSUME StoreInv, Serial, TickInv, NEW u \in User, LockFile(u)
    PROVE  TickInv'
  <1>0. UNCHANGED <<doc, tmp, cache, held, handle, blind, stamp, since, time>>
    BY DEF LockFile
  <1>1. DocTick' /\ CacheTick'
    BY <1>0 DEF TickInv, DocTick, CacheTick, Known, InTick
  <1>2. CASE /\ at[u] = "free"
             /\ \E n \in NewUpdate : adds' = [adds EXCEPT ![u] = n]
                                     /\ at' = [at EXCEPT ![u] = "read"]
    <2>1. PICK n \in NewUpdate : adds' = [adds EXCEPT ![u] = n] /\ at' = [at EXCEPT ![u] = "read"]
      BY <1>2
    <2>2. /\ n \in Update /\ stamp[n] = Never /\ \A v \in User : adds[v] # n
      BY DEF NewUpdate, Started
    <2>3. AddsNew'
      BY <1>0, <2>1, <2>2, StoreTypes DEF TickInv, AddsNew
    <2>4. /\ at'[u] = "read"
          /\ \A v \in User \ {u} : at'[v] = at[v] /\ adds'[v] = adds[v]
      BY <2>1, StoreTypes
    <2>5. HeldTick'
      BY <1>0, <2>4 DEF TickInv, HeldTick, Known, InTick
    <2> QED
      BY <1>1, <2>3, <2>5 DEF TickInv
  <1>3. CASE at[u] = "have" /\ at' = [at EXCEPT ![u] = "open"] /\ adds' = adds
    <2>1. u \in blind /\ at'[u] = "open" /\ \A v \in User \ {u} : at'[v] = at[v]
      BY <1>3, StoreTypes DEF TickInv, HeldTick
    <2>2. HeldTick'
      BY <1>0, <1>3, <2>1 DEF TickInv, HeldTick, Known, InTick
    <2> QED
      BY <1>0, <1>1, <1>3, <2>2 DEF TickInv, AddsNew
  <1> QED
    BY <1>2, <1>3 DEF LockFile

LEMMA ReadLockedTick ==
    ASSUME StoreInv, Serial, TickInv, NEW u \in User, ReadLocked(u)
    PROVE  TickInv'
  <1>0. UNCHANGED <<doc, tmp, handle, adds, blind, stamp, since, time, overlapped>>
    BY DEF ReadLocked
  <1>1. PICK got \in SUBSET Update : JsonRead(u, got) /\ held' = [held EXCEPT ![u] = got]
    BY DEF ReadLocked
  <1>2. at' = [at EXCEPT ![u] = "open"]
    BY DEF ReadLocked
  <1>3. CacheTick' /\ Known(got, doc', stamp') /\ InTick(got, doc', stamp')
    BY <1>0, <1>1, ReadTick
  <1>4. DocTick' /\ AddsNew'
    BY <1>0 DEF TickInv, DocTick, AddsNew, Known, InTick
  <1>5. /\ held'[u] = got /\ at'[u] = "open"
        /\ \A v \in User \ {u} : held'[v] = held[v] /\ at'[v] = at[v]
    BY <1>1, <1>2, StoreTypes
  <1>6. HeldTick'
    BY <1>0, <1>3, <1>5 DEF TickInv, HeldTick, Known, InTick
  <1> QED
    BY <1>3, <1>4, <1>6 DEF TickInv

(* While nobody else is inside the lock only the temporary file of u and    *)
(* its place change.                                                        *)
LEMMA WritingTick ==
    ASSUME StoreInv, Serial, TickInv, NEW u \in User, at[u] \in {"open", "dump"},
           NEW to \in {"dump", "replace"}, at' = [at EXCEPT ![u] = to],
           to = "replace" => /\ tmp'.has = held[u] \cup {adds[u]} /\ tmp'.mtime = time,
           UNCHANGED <<doc, cache, held, adds, blind, stamp, time>>
    PROVE  TickInv'
  <1>1. DocTick' /\ CacheTick' /\ AddsNew'
    BY DEF TickInv, DocTick, CacheTick, AddsNew, Known, InTick
  <1>2. /\ at'[u] = to /\ \A v \in User \ {u} : at'[v] = at[v]
    BY StoreTypes
  <1>3. \A v \in User \ {u} : at[v] \notin Inner
    BY DEF Serial, InLock, Inner
  <1>4. HeldTick'
    <2> SUFFICES ASSUME NEW v \in User
                 PROVE  /\ Known(held[v], doc, stamp)
                        /\ at'[v] = "have" => v \in blind
                        /\ at'[v] \in {"open", "dump", "replace"} /\ v \notin blind
                              => InTick(held[v], doc, stamp)
                        /\ at'[v] = "replace" => /\ tmp'.has = held[v] \cup {adds[v]}
                                                 /\ doc.mtime <= tmp'.mtime /\ tmp'.mtime <= time
      BY DEF HeldTick, Known, InTick
    <2>1. CASE v = u
      BY <1>2, <2>1, StoreTypes DEF TickInv, HeldTick, DocTick
    <2>2. CASE v # u
      BY <1>2, <1>3, <2>2 DEF TickInv, HeldTick, Inner
    <2> QED
      BY <2>1, <2>2
  <1> QED
    BY <1>1, <1>4 DEF TickInv

LEMMA DumpTick ==
    ASSUME StoreInv, Serial, TickInv, NEW u \in User, Dump(u)
    PROVE  TickInv'
  <1>1. at[u] = "dump" /\ handle[u] = "tmp"
    BY DEF Dump, Serial, Handle
  <1>2. /\ tmp' \in Dumped(u, tmp) /\ UNCHANGED <<doc, stamp, since>>
        /\ at' = [at EXCEPT ![u] = "replace"]
        /\ UNCHANGED <<cache, held, adds, blind, time>>
    BY <1>1 DEF Dump
  <1>3. tmp'.has = held[u] \cup {adds[u]} /\ tmp'.mtime = time
    BY <1>2 DEF Dumped
  <1> QED
    BY <1>1, <1>2, <1>3, WritingTick

(* The document that u brings: its own update is new, the others known.     *)
LEMMA BecomesTick ==
    ASSUME StoreInv, Serial, TickInv, NEW u \in User, at[u] = "replace", Becomes(tmp)
    PROVE  /\ doc' = tmp /\ doc.mtime <= tmp.mtime
           /\ tmp.has = held[u] \cup {adds[u]}
           /\ \A n \in Update : /\ stamp'[n] \in {stamp[n], tmp.mtime}
                                /\ n \in doc.has => stamp'[n] = stamp[n]
                                /\ n \in tmp.has \ doc.has => stamp'[n] = tmp.mtime
           /\ stamp'[adds[u]] = tmp.mtime
           /\ \A v \in User \ {u} : adds[v] # 0 => adds[v] \notin tmp.has
           /\ \A S \in SUBSET Update : Known(S, doc, stamp) => Known(S, doc', stamp')
           /\ Known(tmp.has, doc', stamp')
  <1>1. /\ doc' = tmp /\ doc.mtime <= tmp.mtime /\ tmp.mtime <= time
        /\ tmp.has = held[u] \cup {adds[u]} /\ adds[u] \in Update
        /\ stamp' = [n \in Update |-> IF n \in tmp.has \ doc.has THEN tmp.mtime ELSE stamp[n]]
        /\ tmp.mtime \in 0..MaxTime
    BY DEF Becomes, TickInv, HeldTick, StoreInv, HasUpdate, StoreTypeOK, File
  <1>2. \A n \in Update : stamp[n] = Never => ~(stamp[n] <= doc.mtime)
    BY StoreTypes DEF Never
  <1>3. adds[u] \notin doc.has
    BY <1>1, <1>2, StoreTypes DEF TickInv, AddsNew, DocTick, Known
  <1>4. \A v \in User \ {u} : adds[v] # 0 => adds[v] \notin tmp.has
    <2> SUFFICES ASSUME NEW v \in User \ {u}, adds[v] # 0 PROVE adds[v] \notin tmp.has
      OBVIOUS
    <2>1. adds[v] \in Update /\ stamp[adds[v]] = Never /\ adds[v] # adds[u]
      BY StoreTypes DEF TickInv, AddsNew
    <2>2. adds[v] \notin held[u]
      BY <1>2, <2>1 DEF TickInv, HeldTick, Known
    <2> QED
      BY <1>1, <2>1, <2>2
  <1>5. \A n \in Update : /\ stamp'[n] \in {stamp[n], tmp.mtime}
                          /\ n \in doc.has => stamp'[n] = stamp[n]
                          /\ n \in tmp.has \ doc.has => stamp'[n] = tmp.mtime
    BY <1>1
  <1>6. stamp'[adds[u]] = tmp.mtime
    BY <1>1, <1>3
  <1>7. ASSUME NEW S \in SUBSET Update, Known(S, doc, stamp) PROVE Known(S, doc', stamp')
    <2> SUFFICES ASSUME NEW n \in S PROVE stamp'[n] <= tmp.mtime
      BY <1>1 DEF Known
    <2>1. stamp[n] <= doc.mtime /\ stamp[n] \in Nat /\ doc.mtime \in Nat /\ tmp.mtime \in Nat
      BY <1>1, <1>7, StoreTypes DEF Known
    <2> QED
      BY <1>1, <1>5, <2>1
  <1>8. Known(tmp.has, doc', stamp')
    <2>1. Known(held[u], doc', stamp')
      BY <1>7, StoreTypes DEF TickInv, HeldTick
    <2>2. tmp.mtime <= tmp.mtime
      BY <1>1
    <2> QED
      BY <1>1, <1>6, <2>1, <2>2 DEF Known
  <1> QED
    BY <1>1, <1>4, <1>5, <1>6, <1>7, <1>8

LEMMA ReplaceTick ==
    ASSUME StoreInv, Serial, TickInv, NEW u \in User, Replace(u)
    PROVE  TickInv'
  <1>1. at[u] = "replace" /\ Forget(u) /\ time' = time /\ tmp.bytes = "whole"
    BY DEF Replace, Serial
  <1>2. Becomes(tmp) /\ cache' = [cache EXCEPT ![u] = NoCache]
    BY <1>1 DEF Replace
  <1>3. /\ doc' = tmp /\ doc.mtime <= tmp.mtime
        /\ tmp.has = held[u] \cup {adds[u]}
        /\ \A n \in Update : /\ stamp'[n] \in {stamp[n], tmp.mtime}
                             /\ n \in doc.has => stamp'[n] = stamp[n]
                             /\ n \in tmp.has \ doc.has => stamp'[n] = tmp.mtime
        /\ stamp'[adds[u]] = tmp.mtime
        /\ \A v \in User \ {u} : adds[v] # 0 => adds[v] \notin tmp.has
        /\ \A S \in SUBSET Update : Known(S, doc, stamp) => Known(S, doc', stamp')
        /\ Known(tmp.has, doc', stamp')
    BY <1>1, <1>2, BecomesTick
  <1>4. tmp.mtime <= time /\ tmp.mtime \in Nat /\ tmp.has \in SUBSET Update
    BY <1>1 DEF TickInv, HeldTick, StoreInv, StoreTypeOK, File
  <1>5. /\ at'[u] = "free" /\ adds'[u] = 0 /\ held'[u] = {} /\ blind' = blind \ {u}
        /\ \A v \in User \ {u} : at'[v] = at[v] /\ adds'[v] = adds[v] /\ held'[v] = held[v]
    BY <1>1, StoreTypes DEF Forget
  <1>6. DocTick'
    BY <1>1, <1>3, <1>4 DEF DocTick, InTick
  <1>7. CacheTick'
    <2> SUFFICES ASSUME NEW v \in User
                 PROVE  /\ Known(cache'[v].has, doc', stamp') /\ cache'[v].mtime <= tmp.mtime
                        /\ cache'[v].until > 0 /\ cache'[v].mtime = tmp.mtime
                              => InTick(cache'[v].has, doc', stamp')
      BY <1>3 DEF CacheTick, Known, InTick
    <2>1. CASE v = u
      <3>1. cache'[v] = NoCache
        BY <1>2, <2>1, StoreTypes
      <3> QED
        BY <1>4, <3>1 DEF NoCache, Known
    <2>2. CASE v # u
      <3> DEFINE S == cache[v].has
      <3>1. /\ cache'[v] = cache[v] /\ S \in SUBSET Update /\ cache[v].mtime \in Nat
            /\ Known(S, doc, stamp) /\ cache[v].mtime <= doc.mtime
        BY <1>2, <2>2, StoreTypes DEF TickInv, CacheTick
      <3>2. Known(S, doc', stamp')
        BY <1>3, <3>1
      <3>3. cache[v].mtime <= tmp.mtime
        BY <1>3, <1>4, <3>1, StoreTypes
      <3>4. ASSUME cache[v].until > 0, cache[v].mtime = tmp.mtime PROVE InTick(S, doc', stamp')
        <4>1. cache[v].mtime = doc.mtime /\ doc.mtime = tmp.mtime
          <5>1. doc.mtime \in Nat /\ cache[v].mtime \in Nat
            BY <3>1, StoreTypes
          <5> HIDE DEF S
          <5>2. cache[v].mtime <= doc.mtime /\ doc.mtime <= cache[v].mtime
            BY <1>3, <3>1, <3>4
          <5>3. doc.mtime = cache[v].mtime
            BY <5>1, <5>2
          <5> QED
            BY <3>4, <5>3
        <4>2. InTick(S, doc, stamp)
          BY <3>4, <4>1 DEF TickInv, CacheTick
        <4>3. \A n \in tmp.has \ S : stamp'[n] = tmp.mtime
          BY <1>3, <1>4, <4>1, <4>2 DEF InTick
        <4>4. tmp.mtime = 0 \/ \E k \in S : stamp'[k] = tmp.mtime
          BY <1>3, <3>1, <4>1, <4>2 DEF InTick
        <4> QED
          BY <1>3, <3>1, <4>3, <4>4 DEF InTick
      <3> QED
        BY <3>1, <3>2, <3>3, <3>4 DEF Known, InTick
    <2> QED
      BY <2>1, <2>2
  <1>8. AddsNew'
    <2>1. \A v \in User : adds'[v] # 0 => v # u /\ adds'[v] = adds[v]
      BY <1>5
    <2>2. \A v \in User \ {u} : adds[v] # 0 => stamp'[adds[v]] = Never
      <3> SUFFICES ASSUME NEW v \in User \ {u}, adds[v] # 0 PROVE stamp'[adds[v]] = Never
        OBVIOUS
      <3>1. adds[v] \in Update /\ stamp[adds[v]] = Never /\ adds[v] \notin tmp.has
        BY <1>3, StoreTypes DEF TickInv, AddsNew
      <3>2. stamp' = [n \in Update |-> IF n \in tmp.has \ doc.has THEN tmp.mtime ELSE stamp[n]]
        BY <1>2 DEF Becomes
      <3> QED
        BY <3>1, <3>2
    <2>3. \A v \in User : adds'[v] # 0 => stamp'[adds'[v]] = Never'
      BY <2>1, <2>2 DEF Never
    <2>4. \A v, z \in User : adds'[v] = adds'[z] /\ adds'[v] # 0 => v = z
      BY <2>1 DEF TickInv, AddsNew
    <2> QED
      BY <2>3, <2>4 DEF AddsNew
  <1>9. HeldTick'
    <2>1. \A v \in User \ {u} : at[v] \notin Inner
      BY <1>1 DEF Serial, InLock, Inner
    <2>2. \A v \in User : held'[v] \in SUBSET Update /\ Known(held'[v], doc, stamp)
      BY <1>5, StoreTypes DEF TickInv, HeldTick, Known
    <2>3. \A v \in User : at'[v] \notin {"open", "dump", "replace"}
      BY <1>5, <2>1 DEF Inner
    <2>4. \A v \in User : at'[v] = "have" => v \in blind'
      BY <1>5 DEF TickInv, HeldTick
    <2>5. \A v \in User : Known(held'[v], doc', stamp')
      BY <1>3, <2>2
    <2> QED
      BY <2>3, <2>4, <2>5 DEF HeldTick, Known, InTick
  <1> QED
    BY <1>6, <1>7, <1>8, <1>9 DEF TickInv

LEMMA KillUserTick ==
    ASSUME StoreInv, Serial, TickInv, NEW u \in User, KillUser(u)
    PROVE  TickInv'
  <1>1. Forget(u) /\ cache' = [cache EXCEPT ![u] = NoCache] /\ UNCHANGED <<doc, tmp, stamp, time>>
    BY DEF KillUser
  <1>2. /\ at'[u] = "free" /\ adds'[u] = 0 /\ held'[u] = {} /\ blind' = blind \ {u}
        /\ \A v \in User \ {u} : at'[v] = at[v] /\ adds'[v] = adds[v] /\ held'[v] = held[v]
        /\ cache'[u] = NoCache /\ \A v \in User \ {u} : cache'[v] = cache[v]
    BY <1>1, StoreTypes DEF Forget
  <1>3. DocTick' /\ AddsNew'
    BY <1>1, <1>2 DEF TickInv, DocTick, AddsNew, Known, InTick, Never
  <1>4. CacheTick'
    BY <1>1, <1>2, StoreTypes DEF TickInv, CacheTick, NoCache, Known, InTick
  <1>5. HeldTick'
    BY <1>1, <1>2 DEF TickInv, HeldTick, Known, InTick
  <1> QED
    BY <1>3, <1>4, <1>5 DEF TickInv

LEMMA LaterTick ==
    ASSUME StoreInv, TickInv, Later
    PROVE  TickInv'
  <1>1. /\ time' = time + 1
        /\ UNCHANGED <<doc, tmp, cache, at, held, handle, adds, blind, stamp, since, overlapped>>
    BY DEF Later
  <1>2. DocTick'
    BY <1>1, StoreTypes DEF TickInv, DocTick, Known, InTick
  <1>3. HeldTick'
    <2>1. \A u \in User : at[u] = "replace" => tmp.mtime <= time + 1
      <3> SUFFICES ASSUME NEW u \in User, at[u] = "replace" PROVE tmp.mtime <= time + 1
        OBVIOUS
      <3>1. tmp.mtime <= time /\ tmp.mtime \in Nat
        BY DEF TickInv, HeldTick, StoreInv, StoreTypeOK, File
      <3> QED
        BY <3>1, StoreTypes
    <2> QED
      BY <1>1, <2>1 DEF TickInv, HeldTick, Known, InTick
  <1> QED
    BY <1>1, <1>2, <1>3 DEF TickInv, CacheTick, AddsNew, Known, InTick, Never

LEMMA TickNext == StoreInv /\ (overlapped \/ TickInv) /\ [StoreNext]_storeVars
                      => (overlapped \/ TickInv)'
  <1> SUFFICES ASSUME StoreInv, overlapped \/ TickInv, [StoreNext]_storeVars
               PROVE  (overlapped \/ TickInv)'
    OBVIOUS
  <1>1. overlapped => overlapped'
    BY DEF StoreNext, Peek, LockFile, ReadLocked, OpenTmp, Dump, Replace, KillUser, Later, storeVars
  <1>2. CASE ~overlapped /\ StoreNext
    <2>1. TickInv /\ Serial
      BY <1>2 DEF StoreInv
    <2>2. \A u \in User : OpenTmp(u) => TickInv'
      BY <2>1, WritingTick DEF OpenTmp
    <2> QED
      BY <1>2, <2>1, <2>2, PeekTick, LockFileTick, ReadLockedTick, DumpTick, ReplaceTick,
         KillUserTick, LaterTick DEF StoreNext
  <1>3. CASE ~overlapped /\ UNCHANGED storeVars
    BY <1>3 DEF storeVars, TickInv, DocTick, CacheTick, HeldTick, AddsNew, Known, InTick, Never
  <1> QED
    BY <1>1, <1>2, <1>3

(* What a step may take out of the document.                                *)
LosesInATick ==
    \A n \in doc.has \ doc'.has :
       \/ overlapped \/ SameTick(n)
       \/ \E u \in blind : at[u] = "replace" /\ at'[u] = "free"

LEMMA TickStep ==
    ASSUME StoreInv, overlapped \/ TickInv, [StoreNext]_storeVars
    PROVE  LosesInATick
  <1>1. CASE overlapped \/ UNCHANGED doc
    BY <1>1 DEF LosesInATick
  <1>2. CASE ~overlapped /\ doc' # doc
    <2>1. TickInv /\ Serial
      BY <1>2 DEF StoreInv
    <2>2. ASSUME NEW u \in User, Dump(u) PROVE FALSE
      <3>1. handle[u] = "tmp"
        BY <2>1, <2>2 DEF Serial, Handle, Dump
      <3> QED
        BY <1>2, <2>2, <3>1 DEF Dump
    <2>3. ASSUME NEW u \in User, Replace(u) PROVE LosesInATick
      <3>1. at[u] = "replace" /\ Forget(u) /\ tmp.bytes = "whole"
        BY <2>1, <2>3 DEF Replace, Serial
      <3>2. doc' = tmp
        BY <2>3, <3>1 DEF Replace, Becomes
      <3>3. at'[u] = "free"
        BY <3>1, ForgetKeeps
      <3>4. CASE u \notin blind
        <4>1. InTick(held[u], doc, stamp) /\ held[u] \subseteq tmp.has /\ held[u] \subseteq Update
          BY <2>1, <3>1, <3>4, StoreTypes DEF TickInv, HeldTick
        <4>2. \A n \in doc.has \ tmp.has : stamp[n] = doc.mtime
          BY <4>1 DEF InTick
        <4>3. \E k \in Update \cup {0} : /\ k = 0 \/ k \in tmp.has
                                        /\ (IF k = 0 THEN 0 ELSE stamp[k]) = doc.mtime
          <5>1. CASE doc.mtime = 0
            BY <5>1
          <5>2. CASE \E k \in held[u] : stamp[k] = doc.mtime
            BY <4>1, <5>2, StoreTypes
          <5> QED
            BY <4>1, <5>1, <5>2 DEF InTick
        <4> QED
          BY <3>2, <4>2, <4>3 DEF LosesInATick, SameTick
      <3> QED
        BY <3>1, <3>3, <3>4 DEF LosesInATick
    <2> QED
      BY <1>2, <2>2, <2>3
      DEF StoreNext, Peek, LockFile, ReadLocked, OpenTmp, KillUser, Later, storeVars
  <1> QED
    BY <1>1, <1>2

(* Without two calls inside the lock at once an update is lost only to one  *)
(* that was read outside the lock, or in the tick of a cached document, for *)
(* any number of processes and updates, whoever is killed.                  *)
THEOREM UpdatesAreLostInATick == StoreSpec => LostOnlyInATick
  <1>1. StoreInit => overlapped \/ TickInv
    BY TickInit
  <1>2. StoreSpec => [](overlapped \/ TickInv)
    BY <1>1, TickNext, StoreInvariance, PTL DEF StoreSpec
  <1>3. StoreInv /\ (overlapped \/ TickInv) /\ [StoreNext]_storeVars => [LosesInATick]_storeVars
    BY TickStep
  <1>4. StoreSpec => [][LosesInATick]_storeVars
    BY <1>2, <1>3, StoreInvariance, PTL DEF StoreSpec
  <1> QED
    BY <1>4 DEF LosesInATick, LostOnlyInATick

=============================================================================
