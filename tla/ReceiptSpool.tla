---------------------------- MODULE ReceiptSpool ----------------------------
(***************************************************************************)
(* The receipt spool: an append-only file to which several processes add   *)
(* receipts, each under the next cursor.  An append takes the file lock,   *)
(* finds the highest cursor (from a cache that is valid for one revision   *)
(* of the file, else by a scan that skips what it cannot parse), appends   *)
(* one line and remembers the cursor for the new revision.  A process may  *)
(* die, or its write fail, with part of the line in the file.              *)
(*                                                                         *)
(* A line is abstracted to its cursor.  The lock is taken to exclude (what *)
(* it does when it does not is the subject of FileLock), and that of a     *)
(* dead process to be reclaimed.                                           *)
(***************************************************************************)
EXTENDS Naturals

CONSTANTS Procs,        \* processes that append
          MaxAppends,   \* bound on the appends each of them begins
          NoProc, NoCache

VARIABLES readable, \* the cursors a scan finds
          tail,     \* the end of the file: closed by a newline, torn or bare
          bare,     \* the cursor of the record at a bare end
          size,     \* the revision of the file (it grows with every write)
          lock,     \* holder of the file lock
          stage, mine, cache, begun,   \* per process
          acked,    \* history: the appends that returned, with their cursors
          torn      \* history: some write stopped half way

spoolVars == <<readable, tail, bare, size, lock, stage, mine, cache, begun, acked, torn>>

ASSUME MaxAppendsAssumption == MaxAppends \in Nat

Caches == [size : Nat, highest : Nat]

ASSUME NoneAssumption == NoProc \notin Procs /\ NoCache \notin Caches

SpoolInit ==
  /\ readable = {}
  /\ tail = "closed"
  /\ bare = 0
  /\ size = 0
  /\ lock = NoProc
  /\ stage = [p \in Procs |-> "idle"]
  /\ mine = [p \in Procs |-> 0]
  /\ cache = [p \in Procs |-> NoCache]
  /\ begun = [p \in Procs |-> 0]
  /\ acked = {}
  /\ torn = FALSE

-----------------------------------------------------------------------------
SameSpoolRevisionAlways(p) == cache[p] # NoCache

SameSpoolRevision(p) == cache[p] # NoCache /\ cache[p].size = size

(* The result of a scan: the largest cursor on a line that parses, or 0. *)
IsHighest(h) == /\ h \in readable \cup {0}
                /\ \A n \in readable : n <= h

Lock(p) == /\ stage[p] = "idle"
           /\ begun[p] < MaxAppends
           /\ lock = NoProc
           /\ lock' = p
           /\ begun' = [begun EXCEPT ![p] = @ + 1]
           /\ stage' = [stage EXCEPT ![p] = "locked"]
           /\ UNCHANGED <<readable, tail, bare, size, mine, cache, acked, torn>>

ReadHighestCachedAsNext(p) ==
    /\ stage[p] = "locked"
    /\ \/ /\ SameSpoolRevision(p)
          /\ mine' = [mine EXCEPT ![p] = cache[p].highest]
          /\ UNCHANGED cache
       \/ /\ ~SameSpoolRevision(p)
          /\ \E h \in readable \cup {0} :
                /\ IsHighest(h)
                /\ mine' = [mine EXCEPT ![p] = h + 1]
                /\ cache' = [cache EXCEPT ![p] = IF size = 0 THEN NoCache ELSE [size |-> size, highest |-> h]]
    /\ stage' = [stage EXCEPT ![p] = "open"]
    /\ UNCHANGED <<readable, tail, bare, size, lock, begun, acked, torn>>

(* A file that does not exist yet has no revision to cache. *)
ReadHighest(p) ==
    /\ stage[p] = "locked"
    /\ \/ /\ SameSpoolRevision(p)
          /\ mine' = [mine EXCEPT ![p] = cache[p].highest + 1]
          /\ UNCHANGED cache
       \/ /\ ~SameSpoolRevision(p)
          /\ \E h \in readable \cup {0} :
                /\ IsHighest(h)
                /\ mine' = [mine EXCEPT ![p] = h + 1]
                /\ cache' = [cache EXCEPT ![p] = IF size = 0 THEN NoCache ELSE [size |-> size, highest |-> h]]
    /\ stage' = [stage EXCEPT ![p] = "open"]
    /\ UNCHANGED <<readable, tail, bare, size, lock, begun, acked, torn>>

GluedUnawaited(n) == readable

(* A record that is appended to an end without a newline is read together with *)
(* what stands there, which does not parse.                                    *)
Glued(n) == CASE tail = "closed" -> readable \cup {n}
              [] tail = "bare" -> readable \ {bare}
              [] OTHER -> readable

WriteRecord(p) == /\ stage[p] = "open"
                  /\ readable' = Glued(mine[p])
                  /\ tail' = "closed"
                  /\ bare' = 0
                  /\ size' = size + 1
                  /\ stage' = [stage EXCEPT ![p] = "written"]
                  /\ UNCHANGED <<lock, mine, cache, begun, acked, torn>>

(* Part of the line reached the file: some of it, or all but the newline. *)
Fragment(p) == /\ stage[p] = "open"
               /\ \/ /\ tail = "closed"
                     /\ readable' = Glued(mine[p])
                     /\ tail' = "bare"
                     /\ bare' = mine[p]
                  \/ /\ readable' = IF tail = "bare" THEN readable \ {bare} ELSE readable
                     /\ tail' = "torn"
                     /\ bare' = 0
               /\ size' = size + 1
               /\ torn' = TRUE

(* What a process forgets when it dies; its lock is reclaimed. *)
Leave(p) == /\ stage' = [stage EXCEPT ![p] = "idle"]
            /\ mine' = [mine EXCEPT ![p] = 0]
            /\ lock' = IF lock = p THEN NoProc ELSE lock

(* writeFile throws; the lock is released and the cache keeps the old revision. *)
FailWrite(p) == Fragment(p) /\ Leave(p) /\ UNCHANGED <<cache, begun, acked>>

DieWriting(p) == Fragment(p) /\ Leave(p) /\ cache' = [cache EXCEPT ![p] = NoCache] /\ UNCHANGED <<begun, acked>>

Die(p) == /\ stage[p] # "idle" \/ cache[p] # NoCache
          /\ Leave(p)
          /\ cache' = [cache EXCEPT ![p] = NoCache]
          /\ UNCHANGED <<readable, tail, bare, size, begun, acked, torn>>

(* Any other call of the append throws (the directory, the read, the open, the *)
(* sync or the stat): the lock is released, and what was written stays.        *)
Fail(p) == /\ stage[p] # "idle"
           /\ Leave(p)
           /\ UNCHANGED <<readable, tail, bare, size, cache, begun, acked, torn>>

(* The line is synced: the cursor is cached for the new revision and returned. *)
Return(p) == /\ stage[p] = "written"
             /\ cache' = [cache EXCEPT ![p] = [size |-> size, highest |-> mine[p]]]
             /\ acked' = acked \cup {[proc |-> p, nth |-> begun[p], cursor |-> mine[p]]}
             /\ Leave(p)
             /\ UNCHANGED <<readable, tail, bare, size, begun, torn>>

SpoolNext ==
  \E p \in Procs : \/ Lock(p) \/ ReadHighest(p) \/ WriteRecord(p) \/ FailWrite(p)
                   \/ DieWriting(p) \/ Die(p) \/ Fail(p) \/ Return(p)

SpoolSpec == SpoolInit /\ [][SpoolNext]_spoolVars

-----------------------------------------------------------------------------
(* The file, the caches and the processes have their shapes. *)
SpoolTypeOK ==
  /\ readable \subseteq Nat \ {0}
  /\ tail \in {"closed", "torn", "bare"}
  /\ bare \in Nat
  /\ size \in Nat
  /\ lock \in Procs \cup {NoProc}
  /\ stage \in [Procs -> {"idle", "locked", "open", "written"}]
  /\ mine \in [Procs -> Nat]
  /\ cache \in [Procs -> Caches \cup {NoCache}]
  /\ begun \in [Procs -> 0 .. MaxAppends]
  /\ acked \subseteq [proc : Procs, nth : 1 .. MaxAppends, cursor : Nat \ {0}]
  /\ torn \in BOOLEAN

(* A record is written under a larger cursor than every line that can be read,  *)
(* whatever was torn, lost, cached or written by others since its process last  *)
(* looked (appendReceiptToSpool).  A cursor may still come twice: that of a line *)
(* which could be read until the next append was glued to it.                   *)
CursorsAscend == [][ \A p \in Procs : stage[p] = "open" /\ stage'[p] = "written" =>
                                       \A k \in readable : k < mine[p] ]_spoolVars

(* A cache that is taken for current (same mtime and size) knows of every       *)
(* readable line, also when other processes append between its uses.            *)
CacheIsHonest == \A p \in Procs : SameSpoolRevision(p) => \A n \in readable : n <= cache[p].highest

(* As long as no write has stopped half way, a cursor that was returned stands  *)
(* in the file and was returned for one receipt only, whatever processes died   *)
(* between their steps.                                                         *)
UniqueUnlessTorn == ~torn => /\ \A a \in acked : a.cursor \in readable
                             /\ \A a, b \in acked : a.cursor = b.cursor => a = b

=============================================================================
