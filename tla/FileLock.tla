------------------------------ MODULE FileLock ------------------------------
(* The advisory lock of packages/coding-agent/src/config/file-lock.ts: a     *)
(* directory <file>.lock holding an `info` file that names its owner, used   *)
(* by withFileLock for every cross-process critical section of the agent,    *)
(* and the garbage collector of config/file-lock-gc.ts that prunes it.       *)
(*                                                                           *)
(* Every await of the code ends an action, so contenders interleave at every *)
(* file-system call.  The variable `window` is a history variable: it        *)
(* records which of the ways in which the protocol acts on a directory that  *)
(* is no longer the one it intact has happened.                             *)
EXTENDS Naturals, FiniteSets

CONSTANTS
  Contenders,     \* concurrent withFileLock calls on one path
  Pids,           \* process incarnations
  PidOf,          \* the process a contender runs in
  Hosts,          \* machines that share the volume
  HostOf,         \* the machine a process runs on
  HostQualified,  \* whether callers pass options.ownerHostId
  PsUnknown,      \* processes in which `ps -o lstart=` fails
  Stamps,         \* values of Date.now() that two acquisitions may share or not
  Retries,        \* options.retries
  NoDir,          \* no directory at lockPath
  NoInfo          \* info missing, torn or malformed: readLockInfo returns null

\* LockInfo: pid (with its start_time, which is fixed for an incarnation) and timestamp.
Tokens == [pid: Pids, ts: Stamps]

ASSUME ConstantsAssumption ==
  /\ PidOf \in [Contenders -> Pids]
  /\ HostOf \in [Pids -> Hosts]
  /\ HostQualified \/ \A p, q \in Pids : HostOf[p] = HostOf[q]
  /\ HostQualified \in BOOLEAN
  /\ PsUnknown \subseteq Pids
  /\ Retries \in Nat \ {0}
  /\ NoDir \notin Contenders
  /\ NoInfo \notin Tokens

VARIABLES
  lockDir,    \* which contender made the directory now at lockPath (stands for its inode)
  info,       \* the owner token in lockPath/info
  infoOld,    \* Date.now() - info.timestamp > staleMs
  dirOld,     \* Date.now() - mtime of lockPath > staleMs
  procState,  \* each process: running, dead, or dead with its pid reused
  pc,         \* where each contender is
  role,       \* why a contender is removing the directory
  attempt,    \* the loop counter of acquireLock
  token,      \* the owner token a contender stamps or releases
  expected,   \* the token a removal expects to find (NoInfo: the owner-less path)
  statSame,   \* the stat token of the snapshot still describes the directory
  startSeen,  \* contentionStartTimes: owners whose start time was read as matching
  intact,     \* history: nothing was put at lockPath since the identity check of a removal
  window      \* history: which escapes from the protocol's checks have happened

dirVars == <<lockDir, info, infoOld, dirOld>>
localVars == <<role, attempt, token, expected, startSeen>>
lookVars == <<statSame, intact>>
vars == <<lockDir, info, infoOld, dirOld, procState, pc, role, attempt, token, expected,
          statSame, startSeen, intact, window>>

Escapes == {"read-unlink", "slow-writer", "start-time"}
Places == {"idle", "try", "publish", "rename", "snapshot", "stat", "reread", "rereadNull",
           "restat", "unlink", "rmdir", "held", "failed", "releaseFailed", "crashed"}

TypeOK ==
  /\ lockDir \in Contenders \cup {NoDir}
  /\ info \in Tokens \cup {NoInfo}
  /\ infoOld \in BOOLEAN /\ dirOld \in BOOLEAN
  /\ procState \in [Pids -> {"running", "dead", "reused"}]
  /\ pc \in [Contenders -> Places]
  /\ role \in [Contenders -> {"acquire", "release", "gc"}]
  /\ attempt \in [Contenders -> 0..(Retries - 1)]
  /\ token \in [Contenders -> Tokens \cup {NoInfo}]
  /\ expected \in [Contenders -> Tokens \cup {NoInfo}]
  /\ statSame \in [Contenders -> BOOLEAN]
  /\ startSeen \in [Contenders -> SUBSET Pids]
  /\ intact \in [Contenders -> BOOLEAN]
  /\ window \in SUBSET Escapes

Init ==
  /\ lockDir = NoDir /\ info = NoInfo /\ infoOld = FALSE /\ dirOld = FALSE
  /\ procState = [p \in Pids |-> "running"]
  /\ pc = [c \in Contenders |-> "idle"]
  /\ role = [c \in Contenders |-> "acquire"]
  /\ attempt = [c \in Contenders |-> 0]
  /\ token = [c \in Contenders |-> NoInfo]
  /\ expected = [c \in Contenders |-> NoInfo]
  /\ statSame = [c \in Contenders |-> FALSE]
  /\ startSeen = [c \in Contenders |-> {}]
  /\ intact = [c \in Contenders |-> FALSE]
  /\ window = {}

-----------------------------------------------------------------------------
(* Liveness probes *)

\* ownerLiveness: kill(pid, 0) finds a process as long as somebody on this machine has the pid.
OwnerLiveness(c, p) ==
  IF procState[p] = "dead" \/ HostOf[p] # HostOf[PidOf[c]] THEN "dead" ELSE "alive"

\* ownerIsAlive: the pid exists and its start time is unreadable to this
\* contender, was cached as matching, or is the one the owner recorded.  A
\* process whose own `ps` failed recorded the literal "unknown".
OwnerIsAlive(c, t) ==
  /\ OwnerLiveness(c, t.pid) = "alive"
  /\ \/ PidOf[c] \in PsUnknown
     \/ t.pid \in startSeen[c]
     \/ procState[t.pid] = "running" /\ t.pid \notin PsUnknown

\* A host-qualified lock of another machine fails closed.
Foreign(c, t) == HostQualified /\ HostOf[t.pid] # HostOf[PidOf[c]]

\* Mutants of IsStale: the elapsed time alone decides (#652); pids of another machine are probed.
IsStaleByTime(c, t) == ~Foreign(c, t) /\ (OwnerLiveness(c, t.pid) = "dead" \/ infoOld)
IsStaleAnyHost(c, t) == ~OwnerIsAlive(c, t) /\ (OwnerLiveness(c, t.pid) = "dead" \/ infoOld)

\* The owner branch of staleLockSnapshot.
IsStale(c, t) ==
  /\ ~Foreign(c, t)
  /\ ~OwnerIsAlive(c, t)
  /\ OwnerLiveness(c, t.pid) = "dead" \/ infoOld

-----------------------------------------------------------------------------
(* acquireLock *)

Goto(c, place) == pc' = [pc EXCEPT ![c] = place]

\* acquireLock, releaseLock or the collector returns and its locals go out of scope.
Leave(c, place) ==
  /\ Goto(c, place)
  /\ role' = [role EXCEPT ![c] = "acquire"]
  /\ attempt' = [attempt EXCEPT ![c] = 0]
  /\ token' = [token EXCEPT ![c] = NoInfo]
  /\ expected' = [expected EXCEPT ![c] = NoInfo]
  /\ startSeen' = [startSeen EXCEPT ![c] = {}]

\* One turn of the for loop of acquireLock is over; the sleep is a mere delay.
NextAttempt(c, seen) ==
  IF attempt[c] + 1 < Retries
  THEN /\ Goto(c, "try")
       /\ attempt' = [attempt EXCEPT ![c] = @ + 1]
       /\ token' = [token EXCEPT ![c] = NoInfo]
       /\ expected' = [expected EXCEPT ![c] = NoInfo]
       /\ startSeen' = [startSeen EXCEPT ![c] = @ \cup seen]
       /\ UNCHANGED role
  ELSE Leave(c, "failed")

\* The directory at lockPath changed: stat tokens taken before no longer match.
Touch == statSame' = [d \in Contenders |-> FALSE]

\* A directory or an owner was put at lockPath.
Put == Touch /\ intact' = [d \in Contenders |-> FALSE]

\* withFileLock called by a task that is not inside it.
Call(c) ==
  /\ pc[c] \in {"idle", "failed", "releaseFailed"}
  /\ Goto(c, "try")
  /\ UNCHANGED <<dirVars, procState, localVars, lookVars, window>>

\* tryAcquireLock without ownerHostId: mkdir, or EEXIST.
TryMkdir(c) ==
  /\ pc[c] = "try" /\ ~HostQualified
  /\ \/ /\ lockDir = NoDir
        /\ lockDir' = c /\ dirOld' = FALSE /\ Put
        /\ Goto(c, "publish")
     \/ /\ lockDir # NoDir
        /\ Goto(c, "snapshot")
        /\ UNCHANGED <<lockDir, dirOld, lookVars>>
  /\ UNCHANGED <<info, infoOld, procState, localVars, window>>

\* writeLockInfo: Bun.write recreates a missing directory and overwrites a file that is there.
WriteLockInfo(c, ts) ==
  /\ pc[c] = "publish"
  /\ lockDir' = IF lockDir = NoDir THEN c ELSE lockDir
  /\ info' = [pid |-> PidOf[c], ts |-> ts]
  /\ token' = [token EXCEPT ![c] = info']
  /\ infoOld' = FALSE
  /\ dirOld' = (dirOld /\ info # NoInfo)
  /\ Put
  /\ Goto(c, "held")
  /\ UNCHANGED <<procState, role, attempt, expected, startSeen, window>>

\* tryAcquireLock with ownerHostId: a complete directory is prepared beside the lock ...
PreparePending(c, ts) ==
  /\ pc[c] = "try" /\ HostQualified
  /\ token' = [token EXCEPT ![c] = [pid |-> PidOf[c], ts |-> ts]]
  /\ Goto(c, "rename")
  /\ UNCHANGED <<dirVars, procState, role, attempt, expected, startSeen, lookVars, window>>

\* ... and renamed over it, which succeeds when nothing or an empty directory is there.
RenamePending(c) ==
  /\ pc[c] = "rename"
  /\ \/ /\ info = NoInfo
        /\ lockDir' = c /\ info' = token[c] /\ infoOld' = FALSE /\ dirOld' = FALSE /\ Put
        /\ Goto(c, "held")
     \/ /\ info # NoInfo
        /\ Goto(c, "snapshot")
        /\ UNCHANGED <<dirVars, lookVars>>
  /\ UNCHANGED <<procState, localVars, window>>

-----------------------------------------------------------------------------
(* staleLockSnapshot and removeStaleLockForAcquire *)

\* staleLockSnapshot reads info and finds no owner there.
SnapshotNoInfo(c) ==
  /\ pc[c] = "snapshot" /\ info = NoInfo
  /\ IF HostQualified THEN NextAttempt(c, {}) ELSE Goto(c, "stat") /\ UNCHANGED localVars
  /\ UNCHANGED <<dirVars, procState, lookVars, window>>

\* staleLockSnapshot reads an owner; the probes that follow are synchronous.
SnapshotInfo(c) ==
  /\ pc[c] = "snapshot" /\ info # NoInfo
  /\ \/ /\ IsStale(c, info)
        /\ expected' = [expected EXCEPT ![c] = info]
        /\ window' = IF procState[info.pid] = "running" /\ info.pid \in PsUnknown
                     THEN window \cup {"start-time"} ELSE window
        /\ Goto(c, "reread")
        /\ UNCHANGED <<role, attempt, token, startSeen>>
     \/ /\ ~IsStale(c, info)
        /\ NextAttempt(c, IF OwnerIsAlive(c, info) THEN {info.pid} ELSE {})
        /\ UNCHANGED window
  /\ UNCHANGED <<dirVars, procState, lookVars>>

\* The owner-less branch of staleLockSnapshot: only the age of the directory is left to go by.
SnapshotStat(c) ==
  /\ pc[c] = "stat"
  /\ \/ /\ lockDir # NoDir /\ dirOld
        /\ statSame' = [statSame EXCEPT ![c] = TRUE]
        /\ Goto(c, "rereadNull")
        /\ UNCHANGED localVars
     \/ /\ lockDir = NoDir \/ ~dirOld
        /\ NextAttempt(c, {})
        /\ UNCHANGED statSame
  /\ UNCHANGED <<dirVars, procState, intact, window>>

\* A removal was refused: what that means to the caller of the removal.
Refuse(c) ==
  CASE role[c] = "acquire" -> NextAttempt(c, {})
    [] role[c] = "release" -> Leave(c, "releaseFailed")
    [] role[c] = "gc" -> Leave(c, "idle")

\* Mutant of Reread: the directory is deleted by path alone (#606).
RereadByPath(c) ==
  /\ pc[c] = "reread"
  /\ intact' = [intact EXCEPT ![c] = TRUE]
  /\ Goto(c, "unlink")
  /\ UNCHANGED <<localVars, dirVars, procState, statSame, window>>

\* removeFileLockDirForGc re-reads the token just before it removes the directory.
Reread(c) ==
  /\ pc[c] = "reread"
  /\ \/ /\ info # NoInfo /\ info = expected[c]
        /\ intact' = [intact EXCEPT ![c] = TRUE]
        /\ Goto(c, "unlink")
        /\ UNCHANGED localVars
     \/ /\ info = NoInfo \/ info # expected[c]
        /\ Refuse(c)
        /\ UNCHANGED intact
  /\ UNCHANGED <<dirVars, procState, statSame, window>>

\* removeStaleLockForAcquire, owner-less: info must still be absent ...
RereadNull(c) ==
  /\ pc[c] = "rereadNull"
  /\ IF info = NoInfo THEN Goto(c, "restat") /\ UNCHANGED localVars ELSE NextAttempt(c, {})
  /\ UNCHANGED <<dirVars, procState, lookVars, window>>

\* ... and the directory must have the stat token of the snapshot.
Restat(c) ==
  /\ pc[c] = "restat"
  /\ \/ /\ lockDir # NoDir /\ statSame[c]
        /\ intact' = [intact EXCEPT ![c] = TRUE]
        /\ window' = IF pc[lockDir] = "publish" THEN window \cup {"slow-writer"} ELSE window
        /\ Goto(c, "unlink")
        /\ UNCHANGED localVars
     \/ /\ lockDir = NoDir \/ ~statSame[c]
        /\ NextAttempt(c, {})
        /\ UNCHANGED <<intact, window>>
  /\ UNCHANGED <<dirVars, procState, statSame>>

-----------------------------------------------------------------------------
(* fs.rm(lockPath, recursive): unlink the children, then rmdir; on ENOTEMPTY start over *)

\* History: what is at lockPath is not what passed the identity check.
Strays(c) ==
  IF lockDir # NoDir /\ ~intact[c] THEN window \cup {"read-unlink"} ELSE window

Unlink(c) ==
  /\ pc[c] = "unlink"
  /\ window' = Strays(c)
  /\ info' = NoInfo /\ infoOld' = FALSE
  /\ IF info # NoInfo THEN dirOld' = FALSE /\ Touch ELSE UNCHANGED <<dirOld, statSame>>
  /\ Goto(c, "rmdir")
  /\ UNCHANGED <<lockDir, procState, localVars, intact>>

Rmdir(c) ==
  /\ pc[c] = "rmdir"
  /\ \/ /\ info = NoInfo
        /\ window' = Strays(c)
        /\ lockDir' = NoDir /\ dirOld' = FALSE /\ Touch
        /\ intact' = [intact EXCEPT ![c] = FALSE]
        /\ IF role[c] = "acquire" THEN NextAttempt(c, {}) ELSE Leave(c, "idle")
     \/ /\ info # NoInfo
        /\ Goto(c, "unlink")
        /\ UNCHANGED <<lockDir, dirOld, localVars, lookVars, window>>
  /\ UNCHANGED <<info, infoOld, procState>>

-----------------------------------------------------------------------------
(* releaseLock, the collector, and the world around *)

\* withFileLock's operation has settled: releaseLock removes the directory by its own token.
Release(c) ==
  /\ pc[c] = "held"
  /\ role' = [role EXCEPT ![c] = "release"]
  /\ expected' = [expected EXCEPT ![c] = token[c]]
  /\ Goto(c, "reread")
  /\ UNCHANGED <<dirVars, procState, attempt, token, startSeen, lookVars, window>>

\* Mutant of GcPrune: the probe of the owner is forgotten.
GcPruneUnprobed(c) ==
  /\ pc[c] = "idle"
  /\ info # NoInfo /\ ~HostQualified
  /\ role' = [role EXCEPT ![c] = "gc"]
  /\ expected' = [expected EXCEPT ![c] = info]
  /\ Goto(c, "reread")
  /\ UNCHANGED <<dirVars, procState, attempt, token, startSeen, lookVars, window>>

\* fileLocksGcAdapter.prune: an unqualified lock whose owner's pid is dead.
GcPrune(c) ==
  /\ pc[c] = "idle"
  /\ info # NoInfo /\ ~HostQualified /\ OwnerLiveness(c, info.pid) = "dead"
  /\ role' = [role EXCEPT ![c] = "gc"]
  /\ expected' = [expected EXCEPT ![c] = info]
  /\ Goto(c, "reread")
  /\ UNCHANGED <<dirVars, procState, attempt, token, startSeen, lookVars, window>>

\* A process dies at any point and leaves the directory as it is.
Crash(p) ==
  /\ procState[p] = "running"
  /\ procState' = [procState EXCEPT ![p] = "dead"]
  /\ pc' = [c \in Contenders |-> IF PidOf[c] = p THEN "crashed" ELSE pc[c]]
  /\ UNCHANGED <<dirVars, localVars, lookVars, window>>

\* The operating system gives the pid of a dead process to another program.
ReusePid(p) ==
  /\ procState[p] = "dead"
  /\ procState' = [procState EXCEPT ![p] = "reused"]
  /\ UNCHANGED <<dirVars, pc, localVars, lookVars, window>>

\* More than staleMs goes by.
Elapse ==
  /\ lockDir # NoDir
  /\ dirOld' = TRUE
  /\ infoOld' = (info # NoInfo)
  /\ UNCHANGED <<lockDir, info, procState, pc, localVars, lookVars, window>>

Step(c) ==
  \/ Call(c) \/ TryMkdir(c) \/ RenamePending(c)
  \/ \E ts \in Stamps : WriteLockInfo(c, ts) \/ PreparePending(c, ts)
  \/ SnapshotNoInfo(c) \/ SnapshotInfo(c) \/ SnapshotStat(c) \/ Reread(c) \/ RereadNull(c) \/ Restat(c)
  \/ Unlink(c) \/ Rmdir(c) \/ Release(c) \/ GcPrune(c)

Next ==
  \/ \E c \in Contenders : Step(c)
  \/ \E p \in Pids : Crash(p) \/ ReusePid(p)
  \/ Elapse

Spec == Init /\ [][Next]_vars

-----------------------------------------------------------------------------
(* Properties *)

\* "Serializes all contenders, including callers in the same process": no two
\* operations of withFileLock are under way at once.
MutualExclusion ==
  \A c, d \in Contenders : pc[c] = "held" /\ pc[d] = "held" => c = d

\* withFileLock serializes all contenders unless one of three escapes has happened:
\* the directory changed between the identity check of a removal and its rm, an
\* owner-less directory was reaped by age while its maker was still about to write
\* the owner into it, or a running owner whose recorded start time is "unknown"
\* was reaped by age.
ExclusiveUnlessEscape == window = {} => MutualExclusion

\* As long as no escape has happened, the directory on disk is the one a running
\* operation made and carries its token, so no contender, reaper or collector
\* has touched a lock in use.
HeldLockIsOnDisk ==
  window = {} => \A c \in Contenders : pc[c] = "held" => lockDir = c /\ info = token[c]

\* releaseLock reports "Failed to release file lock" only after an escape.
ReleaseFailsOnlyAfterEscape ==
  \A c \in Contenders : pc[c] = "releaseFailed" => window # {}

\* "Never reap a live owner by elapsed time" (#652): no removal is aimed at the
\* token of a process that is still running, except a holder's own release.
NeverReapsLiveOwner ==
  \A c \in Contenders :
    pc[c] \in {"reread", "unlink"} /\ role[c] # "release" /\ expected[c] # NoInfo
      => procState[expected[c].pid] # "running"
=============================================================================
