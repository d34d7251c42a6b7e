----------------------------- MODULE JsonStore ------------------------------
(***************************************************************************)
(* One JSON file of the store and the processes that use it: json_read     *)
(* with the cache each process keeps for Ttl, json_write through one       *)
(* temporary file name, and the two ways the bus updates a document: read  *)
(* and write within one file_lock, or a json_read whose result is written  *)
(* back later (each call then takes the lock for itself).                  *)
(*                                                                         *)
(* A document is the set of updates it contains.  The clock is that of the *)
(* file system's time stamps: several writes fall into one tick.  The lock *)
(* excludes, except for a caller that waited too long and goes on under    *)
(* the fallback lock (FileLock): the model notes that calls overlapped.    *)
(***************************************************************************)
EXTENDS Naturals, FiniteSets

CONSTANTS User,      \* processes that use the file
          Ttl,       \* ticks a cached document is used for, 5 s
          MaxUpdate, \* bound on the updates started
          MaxTime    \* bound on the clock

ASSUME StoreAssumption == Ttl \in Nat /\ MaxUpdate \in Nat /\ MaxTime \in Nat

Update == 1..MaxUpdate
NoFile == [has |-> {}, bytes |-> "none", mtime |-> 0]
NoCache == [has |-> {}, mtime |-> 0, until |-> 0]

VARIABLES doc,        \* the file: [has, bytes, mtime], bytes "whole" unless torn
          tmp,        \* the temporary file beside it
          cache,      \* each process's cached [has, mtime, until]
          at,         \* where each process is in its update
          held,       \* the document it has read, with its own update added
          handle,     \* the file its open descriptor writes to
          adds,       \* the update it is making, 0 while it has none
          blind,      \* the processes whose update was read outside the lock
          stamp,      \* the mtime of the version that brought an update, and
          since,      \* when it did
          time,
          overlapped  \* two calls were inside the lock at once

storeVars == <<doc, tmp, cache, at, held, handle, adds, blind, stamp, since, time, overlapped>>

Never == MaxTime + 1
Inner == {"read", "open", "dump", "replace"}
InLock == {u \in User : at[u] \in Inner}

(* Mutant: the file's mtime is not compared.                                *)
MutantTimeless(u) == time < cache[u].until

(* Mutant: the entry's age is not looked at.                                *)
MutantAgeless(u) == cache[u].until > 0 /\ doc.mtime = cache[u].mtime

(* A cached document is used: it is not old and the file's mtime is its own.*)
Hit(u) == time < cache[u].until /\ doc.mtime = cache[u].mtime
Started == {adds[u] : u \in User} \cup {n \in Update : stamp[n] # Never}

StoreInit ==
    /\ doc = [has |-> {}, bytes |-> "whole", mtime |-> 0] /\ tmp = NoFile
    /\ cache = [u \in User |-> NoCache]
    /\ at = [u \in User |-> "free"]
    /\ held = [u \in User |-> {}]
    /\ handle = [u \in User |-> "none"]
    /\ adds = [u \in User |-> 0]
    /\ blind = {}
    /\ stamp = [n \in Update |-> Never] /\ since = stamp
    /\ time = 0
    /\ overlapped = FALSE

(* What json_read returns: the cached document, or the file's, which is     *)
(* cached then; a file that does not parse is the default, and not cached.  *)
Content == IF doc.bytes = "whole" THEN doc.has ELSE {}

JsonRead(u, got) ==
    IF Hit(u) THEN got = cache[u].has /\ cache' = cache
    ELSE /\ got = Content
         /\ cache' = IF doc.bytes # "whole" THEN cache
                     ELSE [cache EXCEPT ![u] = [has |-> doc.has, mtime |-> doc.mtime,
                                                until |-> time + Ttl]]

(* Bound: after an overlap only the updates that were begun go on.          *)
NewUpdate == {n \in Update \ Started : ~overlapped /\ \A k \in Update \ Started : n <= k}

(* A read outside the lock whose result is used later, or only looked at.   *)
Peek(u) ==
    /\ at[u] = "free"
    /\ \/ (\E got \in SUBSET Update : JsonRead(u, got)) /\ UNCHANGED <<at, held, adds, blind>>
       \/ /\ \E got \in SUBSET Update : JsonRead(u, got) /\ held' = [held EXCEPT ![u] = got]
          /\ \E n \in NewUpdate : adds' = [adds EXCEPT ![u] = n]
          /\ at' = [at EXCEPT ![u] = "have"]
          /\ blind' = blind \cup {u}
    /\ UNCHANGED <<doc, tmp, handle, stamp, since, time, overlapped>>

(* file_lock, around the whole update or around json_write alone.           *)
LockFile(u) ==
    /\ \/ at[u] = "free" /\ \E n \in NewUpdate : adds' = [adds EXCEPT ![u] = n]
                                                 /\ at' = [at EXCEPT ![u] = "read"]
       \/ at[u] = "have" /\ at' = [at EXCEPT ![u] = "open"] /\ adds' = adds
    /\ overlapped' = (overlapped \/ InLock # {})
    /\ UNCHANGED <<doc, tmp, cache, held, handle, blind, stamp, since, time>>

ReadLocked(u) ==
    /\ at[u] = "read"
    /\ \E got \in SUBSET Update : JsonRead(u, got) /\ held' = [held EXCEPT ![u] = got]
    /\ at' = [at EXCEPT ![u] = "open"]
    /\ UNCHANGED <<doc, tmp, handle, adds, blind, stamp, since, time, overlapped>>

(* Mutant: json_write opens the file itself.                                *)
MutantOpenTmp(u) ==
    /\ at[u] = "open"
    /\ doc' = [has |-> {}, bytes |-> "empty", mtime |-> time] /\ tmp' = NoFile
    /\ handle' = [handle EXCEPT ![u] = "doc"]
    /\ at' = [at EXCEPT ![u] = "dump"]
    /\ UNCHANGED <<cache, held, adds, blind, stamp, since, time, overlapped>>

(* open(tmp, "w") truncates what is there, whoever left or writes it.       *)
OpenTmp(u) ==
    /\ at[u] = "open"
    /\ tmp' = [has |-> {}, bytes |-> "empty", mtime |-> time]
    /\ handle' = [handle EXCEPT ![u] = "tmp"]
    /\ at' = [at EXCEPT ![u] = "dump"]
    /\ UNCHANGED <<doc, cache, held, adds, blind, stamp, since, time, overlapped>>

(* The document becomes f; noted of the updates it brings is when.          *)
Becomes(f) ==
    /\ doc' = f
    /\ stamp' = [n \in Update |-> IF n \in f.has \ doc.has THEN f.mtime ELSE stamp[n]]
    /\ since' = [n \in Update |-> IF n \in f.has \ doc.has THEN time ELSE since[n]]

(* json.dump, flush, fsync: over another's text the result may be mixed.    *)
Dumped(u, f) == {[has |-> held[u] \cup {adds[u]}, bytes |-> b, mtime |-> time] :
                    b \in IF f.bytes = "empty" THEN {"whole"} ELSE {"whole", "mixed"}}

Dump(u) ==
    /\ at[u] = "dump"
    /\ \/ handle[u] = "tmp" /\ tmp' \in Dumped(u, tmp) /\ UNCHANGED <<doc, stamp, since>>
       \/ handle[u] = "doc" /\ (\E f \in Dumped(u, doc) : Becomes(f)) /\ tmp' = tmp
       \/ handle[u] = "gone" /\ UNCHANGED <<doc, tmp, stamp, since>>
    /\ at' = [at EXCEPT ![u] = "replace"]
    /\ UNCHANGED <<cache, held, handle, adds, blind, time, overlapped>>

Forget(u) ==
    /\ at' = [at EXCEPT ![u] = "free"]
    /\ adds' = [adds EXCEPT ![u] = 0]
    /\ held' = [held EXCEPT ![u] = {}]
    /\ blind' = blind \ {u}

(* What a descriptor on one of the two files is on once they are one.       *)
Renamed(h) == CASE h = "tmp" -> "doc" [] h = "doc" -> "gone" [] OTHER -> h

(* os.replace: the temporary file, with everyone who writes it, becomes the *)
(* document; the entry is dropped from this process's cache.  Without one,  *)
(* json_write raises.                                                       *)
Replace(u) ==
    /\ at[u] = "replace"
    /\ IF tmp.bytes = "none"
       THEN /\ UNCHANGED <<doc, tmp, cache, stamp, since>>
            /\ handle' = [handle EXCEPT ![u] = "none"]
       ELSE /\ Becomes(tmp) /\ tmp' = NoFile
            /\ handle' = [v \in User |-> IF v = u THEN "none" ELSE Renamed(handle[v])]
            /\ cache' = [cache EXCEPT ![u] = NoCache]
    /\ Forget(u)
    /\ UNCHANGED <<time, overlapped>>

(* The process is killed and started again, with an empty cache.            *)
KillUser(u) ==
    /\ at[u] # "free"
    /\ Forget(u)
    /\ handle' = [handle EXCEPT ![u] = "none"]
    /\ cache' = [cache EXCEPT ![u] = NoCache]
    /\ UNCHANGED <<doc, tmp, stamp, since, time, overlapped>>

Later ==
    /\ time < MaxTime /\ ~overlapped
    /\ time' = time + 1
    /\ UNCHANGED <<doc, tmp, cache, at, held, handle, adds, blind, stamp, since, overlapped>>

StoreNext ==
    \/ \E u \in User : \/ Peek(u) \/ LockFile(u) \/ ReadLocked(u) \/ OpenTmp(u) \/ Dump(u)
                       \/ Replace(u) \/ KillUser(u)
    \/ Later

StoreSpec == StoreInit /\ [][StoreNext]_storeVars

-----------------------------------------------------------------------------
File == [has : SUBSET Update, bytes : {"none", "empty", "whole", "mixed"}, mtime : 0..MaxTime]

StoreTypeOK ==
    /\ doc \in File /\ tmp \in File
    /\ cache \in [User -> [has : SUBSET Update, mtime : 0..MaxTime, until : Nat]]
    /\ at \in [User -> Inner \cup {"free", "have"}]
    /\ held \in [User -> SUBSET Update]
    /\ handle \in [User -> {"none", "tmp", "doc", "gone"}]
    /\ adds \in [User -> Update \cup {0}]
    /\ blind \in SUBSET User
    /\ stamp \in [Update -> 0..Never] /\ since \in [Update -> 0..Never]
    /\ time \in 0..MaxTime /\ overlapped \in BOOLEAN

(* "Atomic write": processes killed anywhere in json_write, and temporary   *)
(* files they leave, never make the document unreadable.  Only two calls    *)
(* inside the lock at once can, since both use one temporary name.          *)
TornNeedsOverlap == overlapped \/ doc.bytes = "whole"

(* A reader never misses for longer than Ttl what is in the file, whatever  *)
(* the time stamps are.                                                     *)
StaleIsShort ==
    \A u \in User : Hit(u) => \A n \in doc.has \ cache[u].has : time < since[n] + Ttl

(* Updates are lost to one that was read outside the lock, or to a cached   *)
(* document with the same time stamp: an update that reads and writes       *)
(* within the lock drops none that was brought in an other tick than the    *)
(* youngest it has read.                                                    *)
SameTick(n) == \E k \in Update \cup {0} : /\ k = 0 \/ k \in doc'.has
                                        /\ (IF k = 0 THEN 0 ELSE stamp[k]) = stamp[n]

LostOnlyInATick ==
    [][\A n \in doc.has \ doc'.has :
          \/ overlapped \/ SameTick(n)
          \/ \E u \in blind : at[u] = "replace" /\ at'[u] = "free"]_storeVars
=============================================================================
