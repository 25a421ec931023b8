--------------------------- MODULE FileLockProofs ---------------------------
(* Mutual exclusion of withFileLock up to its three escapes, for every set   *)
(* of contenders, processes and machines.                                    *)
EXTENDS FileLock, TLAPS

\* A contender whose directory must stay: it made it and is about to name itself
\* in it, it is inside the operation, or it is about to check that it may release.
Owns(c) == pc[c] = "held" \/ (pc[c] = "reread" /\ role[c] = "release")
InUse(c) == pc[c] = "publish" \/ Owns(c)

\* There is no info without a directory, and info names the process of its maker.
InfoInv == lockDir = NoDir => info = NoInfo
MakerInv == window = {} /\ info # NoInfo => info.pid = PidOf[lockDir]

\* The contenders of a process stop with it.
CrashInv == \A c \in Contenders : pc[c] = "crashed" <=> procState[PidOf[c]] # "running"

\* A directory in use is the one on disk, empty while its owner is not yet written.
DiskInv ==
  window = {} => \A c \in Contenders :
    /\ InUse(c) => lockDir = c
    /\ pc[c] = "publish" => info = NoInfo
    /\ Owns(c) => info = token[c]

\* No removal is under way.
Rest(c) == role[c] = "acquire" /\ expected[c] = NoInfo

\* What a contender stamps names its own process; a release expects its own token.
Stamped(c) ==
  /\ pc[c] = "rename" \/ Owns(c) => token[c] \in Tokens /\ token[c].pid = PidOf[c]
  /\ pc[c] = "reread" /\ role[c] = "release" => expected[c] = token[c]
  /\ pc[c] = "publish" => ~HostQualified
  /\ pc[c] = "rename" => HostQualified
  /\ pc[c] \notin {"reread", "unlink", "rmdir", "crashed"} => Rest(c)
TokenInv == \A c \in Contenders : Stamped(c)

\* A removal other than a release is aimed at a process that has stopped.
AimInv ==
  "start-time" \notin window => \A c \in Contenders :
    pc[c] \in {"reread", "unlink", "rmdir"} /\ role[c] # "release" /\ expected[c] # NoInfo
      => procState[expected[c].pid] # "running"

\* The stat token of an owner-less snapshot vouches for the absence of an owner ...
StatInv == \A c \in Contenders : pc[c] = "restat" /\ statSame[c] => info = NoInfo

\* ... and a removal that passed its check deletes no directory in use.
RemovalInv ==
  window = {} => \A c \in Contenders :
    pc[c] \in {"unlink", "rmdir"} /\ intact[c] /\ lockDir # NoDir => ~InUse(lockDir)

EscapeInv == "start-time" \in window => PsUnknown # {}

IInv ==
  /\ TypeOK /\ InfoInv /\ MakerInv /\ CrashInv /\ DiskInv /\ TokenInv /\ AimInv /\ StatInv
  /\ RemovalInv /\ ReleaseFailsOnlyAfterEscape /\ EscapeInv

-----------------------------------------------------------------------------
(* Leaving a place *)

Locals ==
  /\ pc \in [Contenders -> Places]
  /\ role \in [Contenders -> {"acquire", "release", "gc"}]
  /\ attempt \in [Contenders -> 0..(Retries - 1)]
  /\ token \in [Contenders -> Tokens \cup {NoInfo}]
  /\ expected \in [Contenders -> Tokens \cup {NoInfo}]
  /\ startSeen \in [Contenders -> SUBSET Pids]

\* A step of one contender leaves the program counters and locals of the others alone.
Frame(c) ==
  \A d \in Contenders \ {c} :
    pc'[d] = pc[d] /\ role'[d] = role[d] /\ token'[d] = token[d] /\ expected'[d] = expected[d]

\* Leave resets the locals of one contender.
LEMMA LeaveFrame ==
  ASSUME Locals, NEW c \in Contenders, NEW place \in Places, Leave(c, place)
  PROVE  Locals' /\ Frame(c) /\ pc'[c] = place /\ Rest(c)'
  BY ConstantsAssumption DEF Locals, Frame, Leave, Goto, Places, Rest

\* The loop of acquireLock goes on to an attempt within its bound or gives up.
LEMMA NextAttemptFrame ==
  ASSUME Locals, NEW c \in Contenders, NEW seen \in SUBSET Pids, NextAttempt(c, seen),
         role[c] = "acquire"
  PROVE  Locals' /\ Frame(c) /\ pc'[c] \in {"try", "failed"} /\ Rest(c)'
<1>1. CASE attempt[c] + 1 < Retries
  <2>1. attempt' \in [Contenders -> 0..(Retries - 1)]
    BY <1>1, ConstantsAssumption DEF Locals, NextAttempt
  <2>2. startSeen' \in [Contenders -> SUBSET Pids]
    BY <1>1 DEF Locals, NextAttempt
  <2> QED
    BY <1>1, <2>1, <2>2 DEF Locals, Frame, NextAttempt, Goto, Places, Rest
<1>2. CASE ~(attempt[c] + 1 < Retries)
  BY <1>2, LeaveFrame DEF NextAttempt, Places
<1> QED
  BY <1>1, <1>2

\* A refused removal fails only a release.
LEMMA RefuseFrame ==
  ASSUME Locals, NEW c \in Contenders, Refuse(c)
  PROVE  /\ Locals' /\ Frame(c) /\ Rest(c)'
         /\ \/ pc'[c] \in {"try", "failed", "idle"}
            \/ pc'[c] = "releaseFailed" /\ role[c] = "release"
<1>1. CASE role[c] = "acquire"
  BY <1>1, NextAttemptFrame DEF Refuse
<1>2. CASE role[c] = "release"
  BY <1>2, LeaveFrame DEF Refuse, Places
<1>3. CASE role[c] = "gc"
  BY <1>3, LeaveFrame DEF Refuse, Places
<1> QED
  BY <1>1, <1>2, <1>3 DEF Locals

\* What the other contenders stamp is framed.
LEMMA FrameTokens ==
  ASSUME TokenInv, NEW c \in Contenders, Frame(c), Stamped(c)'
  PROVE  TokenInv'
  BY DEF TokenInv, Stamped, Rest, Owns, Frame

\* A contender that goes to a place where it has no claim on the directory, and
\* leaves the disk alone, preserves the invariant.
LEMMA Withdraw ==
  ASSUME IInv, NEW c \in Contenders, pc[c] # "crashed", Locals', Frame(c), Rest(c)',
         \/ pc'[c] \in {"idle", "try", "snapshot", "stat", "rereadNull", "failed"}
         \/ pc'[c] = "restat" /\ info = NoInfo
         \/ pc'[c] = "releaseFailed" /\ window # {},
         UNCHANGED <<dirVars, procState, intact, window>>,
         statSame' \in [Contenders -> BOOLEAN],
         \A d \in Contenders \ {c} : statSame'[d] = statSame[d]
  PROVE  IInv'
<1> USE DEF IInv, TypeOK, Locals, Frame, dirVars
<1>1. TypeOK'
  OBVIOUS
<1>2. InfoInv' /\ MakerInv' /\ EscapeInv'
  BY DEF InfoInv, MakerInv, EscapeInv
<1>3. CrashInv'
  BY ConstantsAssumption DEF CrashInv
<1>4. DiskInv'
  BY DEF DiskInv, InUse, Owns
<1>5. TokenInv'
  <2>1. Stamped(c)'
    BY DEF IInv, TokenInv, Stamped, Rest, Owns
  <2> QED
    BY <2>1, FrameTokens DEF IInv
<1>6. AimInv'
  BY DEF AimInv
<1>7. StatInv'
  BY DEF StatInv
<1>8. RemovalInv'
  BY DEF RemovalInv, InUse, Owns
<1>9. ReleaseFailsOnlyAfterEscape'
  BY DEF ReleaseFailsOnlyAfterEscape
<1> QED
  BY <1>1, <1>2, <1>3, <1>4, <1>5, <1>6, <1>7, <1>8, <1>9

-----------------------------------------------------------------------------
(* The initial state and the steps, one lemma for each action *)

\* The lock is free and nobody has called withFileLock.
LEMMA InitIInv ==
  ASSUME Init
  PROVE  IInv
<1>1. 0 \in 0..(Retries - 1)
  BY ConstantsAssumption
<1>2. Locals
  BY <1>1 DEF Init, Locals, Places
<1>3. TypeOK
  BY <1>2, Zenon DEF Init, TypeOK, Locals
<1> QED
  BY <1>3, ConstantsAssumption DEF Init, IInv, InfoInv, MakerInv, CrashInv, DiskInv, TokenInv, Stamped, Rest, AimInv,
     StatInv, RemovalInv, ReleaseFailsOnlyAfterEscape, EscapeInv, Owns, InUse

\* IInv types the locals.
LEMMA IInvLocals ==
  ASSUME IInv
  PROVE  Locals
  BY DEF IInv, TypeOK, Locals

\* Only a removal has another role than acquire and an expected token.
LEMMA AtRest ==
  ASSUME IInv, NEW c \in Contenders, pc[c] \notin {"reread", "unlink", "rmdir", "crashed"}
  PROVE  Rest(c) /\ role[c] = "acquire"
  BY DEF IInv, TokenInv, Stamped, Rest

\* Calling withFileLock preserves the invariant.
LEMMA CallStep ==
  ASSUME IInv, NEW c \in Contenders, Call(c)
  PROVE  IInv'
<1>1. Locals' /\ Frame(c) /\ Rest(c)' /\ pc'[c] = "try"
  BY IInvLocals, AtRest DEF Locals, Frame, Call, Goto, localVars, Places, Rest
<1> QED
  BY <1>1, Withdraw DEF Call, dirVars, lookVars, IInv, TypeOK

\* mkdir finds no directory, so none is in use.
LEMMA TryMkdirStep ==
  ASSUME IInv, NEW c \in Contenders, TryMkdir(c)
  PROVE  IInv'
<1>1. CASE lockDir # NoDir
  <2>1. Locals' /\ Frame(c) /\ Rest(c)' /\ pc'[c] = "snapshot"
    BY <1>1, IInvLocals, AtRest DEF Locals, Frame, TryMkdir, Goto, localVars, Places, Rest
  <2> QED
    BY <1>1, <2>1, Withdraw DEF TryMkdir, dirVars, lookVars, IInv, TypeOK
<1>2. CASE lockDir = NoDir
  <2>1. Locals' /\ Frame(c) /\ Rest(c)' /\ pc'[c] = "publish" /\ role' = role /\ token' = token
    BY <1>2, IInvLocals, AtRest DEF Locals, Frame, TryMkdir, Goto, localVars, Places, Rest
  <2>2. /\ lockDir' = c /\ dirOld' = FALSE /\ info = NoInfo /\ ~HostQualified
        /\ UNCHANGED <<info, infoOld, procState, window>>
        /\ statSame' = [d \in Contenders |-> FALSE]
        /\ intact' = [d \in Contenders |-> FALSE]
        /\ pc[c] = "try"
    BY <1>2 DEF TryMkdir, Put, Touch, IInv, InfoInv
  <2>3. TypeOK'
    BY <2>1, <2>2, Zenon DEF IInv, TypeOK, Locals
  <2>4. InfoInv' /\ MakerInv' /\ EscapeInv' /\ StatInv' /\ RemovalInv'
    <3>1. InfoInv' /\ MakerInv' /\ EscapeInv'
      BY <2>2, ConstantsAssumption DEF IInv, InfoInv, MakerInv, EscapeInv
    <3>2. StatInv'
      BY <2>2, ConstantsAssumption DEF IInv, StatInv
    <3>3. RemovalInv'
      BY <2>2, ConstantsAssumption DEF IInv, RemovalInv, InUse, Owns
    <3> QED
      BY <3>1, <3>2, <3>3
  <2>5. CrashInv' /\ AimInv' /\ ReleaseFailsOnlyAfterEscape'
    <3>1. CrashInv'
      BY <2>1, <2>2 DEF IInv, CrashInv, Frame
    <3>2. AimInv'
      BY <2>1, <2>2 DEF IInv, AimInv, Frame
    <3>3. ReleaseFailsOnlyAfterEscape'
      BY <2>1, <2>2 DEF IInv, ReleaseFailsOnlyAfterEscape, Frame
    <3> QED
      BY <3>1, <3>2, <3>3
  <2>6. DiskInv'
    BY <1>2, <2>1, <2>2, ConstantsAssumption DEF IInv, DiskInv, InUse, Owns, Frame
  <2>7. TokenInv'
    <3>1. Stamped(c)'
      BY <2>1, <2>2 DEF IInv, TokenInv, Stamped, Rest, Owns
    <3> QED
      BY <2>1, <2>2, <3>1, FrameTokens DEF IInv
  <2> QED
    BY <2>3, <2>4, <2>5, <2>6, <2>7 DEF IInv
<1> QED
  BY <1>1, <1>2

\* Without an escape the owner record lands in the directory its writer made.
LEMMA WriteLockInfoStep ==
  ASSUME IInv, NEW c \in Contenders, NEW ts \in Stamps, WriteLockInfo(c, ts)
  PROVE  IInv'
<1> DEFINE t == [pid |-> PidOf[c], ts |-> ts]
<1>1. t \in Tokens /\ t.pid = PidOf[c] /\ t # NoInfo
  BY ConstantsAssumption DEF Tokens
<1>2. /\ pc[c] = "publish" /\ info' = t
      /\ lockDir' = IF lockDir = NoDir THEN c ELSE lockDir
      /\ infoOld' = FALSE /\ dirOld' = (dirOld /\ info # NoInfo)
      /\ statSame' = [d \in Contenders |-> FALSE]
      /\ intact' = [d \in Contenders |-> FALSE]
      /\ UNCHANGED <<procState, role, expected, window>>
  BY DEF WriteLockInfo, Put, Touch
<1>3. Locals' /\ Frame(c) /\ Rest(c)' /\ pc'[c] = "held" /\ token'[c] = t
  BY <1>1, IInvLocals, AtRest DEF WriteLockInfo, Goto, Locals, Frame, Places, Rest
<1> HIDE DEF t
<1>4. TypeOK'
  BY <1>1, <1>2, <1>3, Zenon DEF IInv, TypeOK, Locals
<1>5. InfoInv' /\ EscapeInv' /\ StatInv' /\ RemovalInv'
  <2>1. InfoInv' /\ EscapeInv'
    BY <1>2, <1>4, ConstantsAssumption DEF IInv, InfoInv, EscapeInv, TypeOK
  <2>2. StatInv'
    BY <1>2, <1>4, ConstantsAssumption DEF IInv, StatInv, TypeOK
  <2>3. RemovalInv'
    BY <1>2, <1>4, ConstantsAssumption DEF IInv, RemovalInv, InUse, Owns, TypeOK
  <2> QED
    BY <2>1, <2>2, <2>3
<1>6. CrashInv' /\ AimInv' /\ ReleaseFailsOnlyAfterEscape'
  <2>1. CrashInv'
    BY <1>2, <1>3 DEF IInv, CrashInv, Frame
  <2>2. AimInv'
    BY <1>2, <1>3 DEF IInv, AimInv, Frame
  <2>3. ReleaseFailsOnlyAfterEscape'
    BY <1>2, <1>3 DEF IInv, ReleaseFailsOnlyAfterEscape, Frame
  <2> QED
    BY <2>1, <2>2, <2>3
<1>7. MakerInv'
  BY <1>1, <1>2, ConstantsAssumption DEF IInv, DiskInv, InUse, MakerInv
<1>8. DiskInv'
  BY <1>1, <1>2, <1>3, ConstantsAssumption DEF IInv, DiskInv, InUse, Owns, Frame
<1>9. TokenInv'
  <2>1. Stamped(c)'
    BY <1>1, <1>3 DEF IInv, TokenInv, Stamped, Rest, Owns
  <2> QED
    BY <1>1, <1>3, <2>1, FrameTokens DEF IInv
<1> QED
  BY <1>4, <1>5, <1>6, <1>7, <1>8, <1>9 DEF IInv

\* Preparing a pending directory preserves it: nothing at lockPath changes.
LEMMA PreparePendingStep ==
  ASSUME IInv, NEW c \in Contenders, NEW ts \in Stamps, PreparePending(c, ts)
  PROVE  IInv'
<1> DEFINE t == [pid |-> PidOf[c], ts |-> ts]
<1>1. t \in Tokens /\ t.pid = PidOf[c]
  BY ConstantsAssumption DEF Tokens
<1>2. /\ pc[c] = "try"
      /\ UNCHANGED <<lockDir, info, infoOld, dirOld, procState, role, expected, statSame, intact,
                     window>>
  BY DEF PreparePending, dirVars, lookVars
<1>3. Locals' /\ Frame(c) /\ Rest(c)' /\ pc'[c] = "rename" /\ token'[c] = t
  BY <1>1, IInvLocals, AtRest DEF PreparePending, Goto, Locals, Frame, Places, Rest
<1> HIDE DEF t
<1>4. TypeOK'
  BY <1>2, <1>3 DEF IInv, TypeOK, Locals
<1>5. InfoInv' /\ MakerInv' /\ EscapeInv' /\ StatInv'
  BY <1>2, <1>3 DEF IInv, InfoInv, MakerInv, EscapeInv, StatInv, Frame
<1>6. CrashInv' /\ AimInv' /\ ReleaseFailsOnlyAfterEscape'
  <2>1. CrashInv'
    BY <1>2, <1>3 DEF IInv, CrashInv, Frame
  <2>2. AimInv'
    BY <1>2, <1>3 DEF IInv, AimInv, Frame
  <2>3. ReleaseFailsOnlyAfterEscape'
    BY <1>2, <1>3 DEF IInv, ReleaseFailsOnlyAfterEscape, Frame
  <2> QED
    BY <2>1, <2>2, <2>3
<1>7. DiskInv'
  BY <1>2, <1>3 DEF IInv, DiskInv, InUse, Owns, Frame
<1>8. RemovalInv'
  BY <1>2, <1>3 DEF IInv, TypeOK, RemovalInv, InUse, Owns, Frame
<1>9. TokenInv'
  <2>1. Stamped(c)'
    BY <1>1, <1>2, <1>3, AtRest DEF PreparePending, Stamped, Rest, Owns
  <2> QED
    BY <1>1, <1>2, <1>3, <2>1, FrameTokens DEF IInv
<1> QED
  BY <1>4, <1>5, <1>6, <1>7, <1>8, <1>9 DEF IInv

\* The rename replaces nothing or a directory without an owner, which is not in
\* use: host-qualified locks are never without their owner record while in use.
LEMMA RenamePendingStep ==
  ASSUME IInv, NEW c \in Contenders, RenamePending(c)
  PROVE  IInv'
<1>1. CASE info # NoInfo
  <2>1. Locals' /\ Frame(c) /\ Rest(c)' /\ pc'[c] = "snapshot"
    BY <1>1, IInvLocals, AtRest DEF Locals, Frame, RenamePending, Goto, localVars, Places, Rest
  <2> QED
    BY <1>1, <2>1, Withdraw DEF RenamePending, dirVars, lookVars, IInv, TypeOK
<1>2. CASE info = NoInfo
  <2>1. Locals' /\ Frame(c) /\ Rest(c)' /\ pc'[c] = "held" /\ role' = role /\ token' = token
        /\ expected' = expected
    BY <1>2, IInvLocals, AtRest DEF Locals, Frame, RenamePending, Goto, localVars, Places, Rest
  <2>2. /\ pc[c] = "rename" /\ lockDir' = c /\ info' = token[c]
        /\ infoOld' = FALSE /\ dirOld' = FALSE
        /\ UNCHANGED <<procState, window>>
        /\ statSame' = [d \in Contenders |-> FALSE]
        /\ intact' = [d \in Contenders |-> FALSE]
    BY <1>2 DEF RenamePending, Put, Touch
  <2>3. token[c] \in Tokens /\ token[c].pid = PidOf[c] /\ token[c] # NoInfo
    BY <2>2, ConstantsAssumption DEF IInv, TokenInv, Stamped
  <2>4. TypeOK'
    BY <2>1, <2>2, <2>3, Zenon DEF IInv, TypeOK, Locals
  <2>5. InfoInv' /\ MakerInv' /\ EscapeInv' /\ StatInv' /\ RemovalInv'
    <3>1. InfoInv' /\ MakerInv' /\ EscapeInv'
      BY <2>2, <2>3, ConstantsAssumption DEF IInv, InfoInv, MakerInv, EscapeInv
    <3>2. StatInv'
      BY <2>2, <2>3, ConstantsAssumption DEF IInv, StatInv
    <3>3. RemovalInv'
      BY <2>2, <2>3, ConstantsAssumption DEF IInv, RemovalInv, InUse, Owns
    <3> QED
      BY <3>1, <3>2, <3>3
  <2>6. CrashInv' /\ AimInv' /\ ReleaseFailsOnlyAfterEscape'
    <3>1. CrashInv'
      BY <2>1, <2>2 DEF IInv, CrashInv, Frame
    <3>2. AimInv'
      BY <2>1, <2>2 DEF IInv, AimInv, Frame
    <3>3. ReleaseFailsOnlyAfterEscape'
      BY <2>1, <2>2 DEF IInv, ReleaseFailsOnlyAfterEscape, Frame
    <3> QED
      BY <3>1, <3>2, <3>3
  <2>7. ASSUME window = {}, NEW d \in Contenders \ {c}
        PROVE  ~InUse(d)
    <3>1. ~Owns(d)
      BY <1>2, <2>7, ConstantsAssumption DEF IInv, DiskInv, TokenInv, Stamped, Tokens
    <3>2. pc[d] # "publish"
      BY <2>2 DEF IInv, TokenInv, Stamped
    <3> QED
      BY <3>1, <3>2 DEF InUse
  <2>8. DiskInv'
    BY <2>1, <2>2, <2>7 DEF DiskInv, InUse, Owns, Frame
  <2>9. TokenInv'
    <3>1. Stamped(c)'
      BY <2>1, <2>2 DEF IInv, TokenInv, Stamped, Rest, Owns
    <3> QED
      BY <2>1, <2>2, <3>1, FrameTokens DEF IInv
  <2> QED
    BY <2>4, <2>5, <2>6, <2>8, <2>9 DEF IInv
<1> QED
  BY <1>1, <1>2

-----------------------------------------------------------------------------
(* staleLockSnapshot and the checks before a removal *)

\* The host-qualified contender waits; the other goes on to stat the directory.
LEMMA SnapshotNoInfoStep ==
  ASSUME IInv, NEW c \in Contenders, SnapshotNoInfo(c)
  PROVE  IInv'
<1>1. Locals' /\ Frame(c) /\ Rest(c)' /\ pc'[c] \in {"try", "failed", "stat"}
  <2>1. CASE HostQualified
    BY Zenon, <2>1, IInvLocals, AtRest, NextAttemptFrame DEF SnapshotNoInfo
  <2>2. CASE ~HostQualified
    BY <2>2, IInvLocals, AtRest DEF SnapshotNoInfo, Goto, localVars, Locals, Frame, Places, Rest
  <2> QED
    BY <2>1, <2>2
<1> QED
  BY <1>1, Withdraw DEF SnapshotNoInfo, dirVars, lookVars, IInv, TypeOK

\* An owner judged stale has stopped, unless its start time was never recorded.
LEMMA StaleHasStopped ==
  ASSUME IInv, NEW c \in Contenders, pc[c] # "crashed", NEW t \in Tokens, IsStale(c, t),
         t.pid \notin PsUnknown
  PROVE  procState[t.pid] # "running"
<1>1. t.pid \in Pids /\ PidOf[c] \in Pids
  BY ConstantsAssumption DEF Tokens
<1>2. SUFFICES ASSUME procState[t.pid] = "running" PROVE FALSE
  OBVIOUS
<1>3. HostOf[t.pid] = HostOf[PidOf[c]]
  BY <1>1, ConstantsAssumption DEF IsStale, Foreign
<1>4. OwnerLiveness(c, t.pid) = "alive"
  BY <1>2, <1>3 DEF OwnerLiveness
<1> QED
  BY <1>2, <1>4 DEF IsStale, OwnerIsAlive

\* Reading an owner preserves it: a removal is aimed only at one that has stopped.
LEMMA SnapshotInfoStep ==
  ASSUME IInv, NEW c \in Contenders, SnapshotInfo(c)
  PROVE  IInv'
<1>1. info \in Tokens /\ info.pid \in Pids
  BY DEF SnapshotInfo, IInv, TypeOK, Tokens
<1>2. CASE ~IsStale(c, info)
  <2>1. NextAttempt(c, IF OwnerIsAlive(c, info) THEN {info.pid} ELSE {})
    BY <1>2 DEF SnapshotInfo
  <2>2. Locals' /\ Frame(c) /\ Rest(c)' /\ pc'[c] \in {"try", "failed"}
    BY <1>1, <2>1, IInvLocals, AtRest, NextAttemptFrame DEF SnapshotInfo
  <2> QED
    BY <1>2, <2>2, Withdraw DEF SnapshotInfo, dirVars, lookVars, IInv, TypeOK
<1>3. CASE IsStale(c, info)
  <2>1. /\ pc[c] = "snapshot"
        /\ UNCHANGED <<lockDir, info, infoOld, dirOld, procState, statSame, intact, role, token>>
        /\ window' = IF procState[info.pid] = "running" /\ info.pid \in PsUnknown
                     THEN window \cup {"start-time"} ELSE window
    BY <1>3 DEF SnapshotInfo, dirVars, lookVars
  <2>2. Locals' /\ Frame(c) /\ role'[c] = "acquire" /\ pc'[c] = "reread" /\ expected'[c] = info
    BY <1>1, <1>3, IInvLocals, AtRest DEF SnapshotInfo, Goto, Locals, Frame, Places, Rest
  <2>3. "start-time" \notin window' => procState[info.pid] # "running"
    BY <1>1, <1>3, <2>1, StaleHasStopped
  <2>4. window' = {} => window = {}
    BY <2>1
  <2>5. role[c] = "acquire"
    BY <2>1, AtRest
  <2>6. TypeOK'
    BY <2>1, <2>2 DEF IInv, TypeOK, Locals, Escapes
  <2>7. InfoInv' /\ MakerInv' /\ EscapeInv'
    BY <1>1, <2>1, <2>4 DEF IInv, InfoInv, MakerInv, EscapeInv
  <2>8. CrashInv' /\ StatInv' /\ ReleaseFailsOnlyAfterEscape'
    <3>1. CrashInv'
      BY <2>1, <2>2, <2>4 DEF IInv, CrashInv, Frame
    <3>2. StatInv'
      BY <2>1, <2>2, <2>4 DEF IInv, StatInv, Frame
    <3>3. ReleaseFailsOnlyAfterEscape'
      BY <2>1, <2>2, <2>4 DEF IInv, ReleaseFailsOnlyAfterEscape, Frame
    <3> QED
      BY <3>1, <3>2, <3>3
  <2>9. AimInv'
    BY <2>1, <2>2, <2>3 DEF IInv, AimInv, Frame
  <2>10. DiskInv'
    BY <2>1, <2>2, <2>4, <2>5 DEF IInv, DiskInv, InUse, Owns, Frame
  <2>11. TokenInv'
    <3>1. Stamped(c)'
      BY <2>1, <2>2, <2>5 DEF IInv, TokenInv, Stamped, Rest, Owns
    <3> QED
      BY <2>1, <2>2, <2>5, <3>1, FrameTokens DEF IInv
  <2>12. RemovalInv'
    BY <2>1, <2>2, <2>4, <2>5 DEF IInv, TypeOK, RemovalInv, InUse, Owns, Frame
  <2> QED
    BY <2>6, <2>7, <2>8, <2>9, <2>10, <2>11, <2>12 DEF IInv
<1> QED
  BY <1>2, <1>3

\* Statting an owner-less directory preserves it.
LEMMA SnapshotStatStep ==
  ASSUME IInv, NEW c \in Contenders, SnapshotStat(c)
  PROVE  IInv'
<1>1. Locals' /\ Frame(c) /\ Rest(c)' /\ pc'[c] \in {"try", "failed", "rereadNull"}
  <2>1. CASE lockDir # NoDir /\ dirOld
    BY <2>1, IInvLocals, AtRest DEF SnapshotStat, Goto, localVars, Locals, Frame, Places, Rest
  <2>2. CASE ~(lockDir # NoDir /\ dirOld)
    BY <2>2, IInvLocals, AtRest, NextAttemptFrame DEF SnapshotStat
  <2> QED
    BY <2>1, <2>2
<1>2. /\ statSame' \in [Contenders -> BOOLEAN]
      /\ \A d \in Contenders \ {c} : statSame'[d] = statSame[d]
  BY Zenon DEF SnapshotStat, IInv, TypeOK
<1> QED
  BY <1>1, <1>2, Withdraw DEF SnapshotStat, dirVars

\* The second look for an owner preserves it.
LEMMA RereadNullStep ==
  ASSUME IInv, NEW c \in Contenders, RereadNull(c)
  PROVE  IInv'
<1>1. /\ Locals' /\ Frame(c) /\ Rest(c)'
      /\ pc'[c] \in {"try", "failed"} \/ (pc'[c] = "restat" /\ info = NoInfo)
  <2>1. CASE info = NoInfo
    BY <2>1, IInvLocals, AtRest DEF RereadNull, Goto, localVars, Locals, Frame, Places, Rest
  <2>2. CASE info # NoInfo
    <3>1. NextAttempt(c, {})
      BY <2>2 DEF RereadNull
    <3> QED
      BY Zenon, <3>1, IInvLocals, AtRest, NextAttemptFrame DEF RereadNull
  <2> QED
    BY <2>1, <2>2
<1> QED
  BY <1>1, Withdraw DEF RereadNull, dirVars, lookVars, IInv, TypeOK

\* The directory that still carries the expected token is the releaser's own, or
\* its maker has stopped.
LEMMA RereadStep ==
  ASSUME IInv, NEW c \in Contenders, Reread(c)
  PROVE  IInv'
<1>1. pc[c] = "reread"
  BY DEF Reread
<1>2. CASE ~(info # NoInfo /\ info = expected[c])
  <2>1. Refuse(c) /\ UNCHANGED <<dirVars, procState, lookVars, window>>
    BY <1>2 DEF Reread, lookVars
  <2>2. role[c] = "release" => window # {}
    BY Zenon, <1>1, <1>2, ConstantsAssumption DEF IInv, DiskInv, TokenInv, Stamped, Owns
  <2>3. /\ Locals' /\ Frame(c) /\ Rest(c)'
        /\ \/ pc'[c] \in {"try", "failed", "idle"}
           \/ pc'[c] = "releaseFailed" /\ window # {}
    BY <2>1, <2>2, IInvLocals, RefuseFrame
  <2> QED
    BY <1>1, <2>1, <2>3, Withdraw DEF lookVars, IInv, TypeOK
<1>3. CASE info # NoInfo /\ info = expected[c]
  <2>1. UNCHANGED <<lockDir, info, infoOld, dirOld, procState, statSame, window, role, token,
                    expected>>
    BY <1>3 DEF Reread, localVars, dirVars
  <2>2. Locals' /\ Frame(c) /\ pc'[c] = "unlink"
    BY <1>3, IInvLocals DEF Reread, Goto, localVars, Locals, Frame, Places
  <2>3. TypeOK'
    <3>1. intact' \in [Contenders -> BOOLEAN]
      BY <1>3, Zenon DEF Reread, IInv, TypeOK
    <3> QED
      BY <2>1, <2>2, <3>1 DEF IInv, TypeOK, Locals
  <2>4. InfoInv' /\ MakerInv' /\ EscapeInv'
    BY <2>1 DEF IInv, InfoInv, MakerInv, EscapeInv
  <2>5. CrashInv' /\ StatInv' /\ ReleaseFailsOnlyAfterEscape'
    <3>1. CrashInv'
      BY Zenon, <1>1, <2>1, <2>2 DEF IInv, CrashInv, Frame
    <3>2. StatInv'
      BY <1>1, <2>1, <2>2 DEF IInv, StatInv, Frame
    <3>3. ReleaseFailsOnlyAfterEscape'
      BY <1>1, <2>1, <2>2 DEF IInv, ReleaseFailsOnlyAfterEscape, Frame
    <3> QED
      BY <3>1, <3>2, <3>3
  <2>6. AimInv'
    BY <1>1, <2>1, <2>2 DEF IInv, AimInv, Frame
  <2>7. DiskInv'
    BY <2>1, <2>2 DEF IInv, DiskInv, InUse, Owns, Frame
  <2>8. TokenInv'
    <3>1. Stamped(c)'
      BY <2>1, <2>2 DEF IInv, TokenInv, Stamped, Rest, Owns
    <3> QED
      BY <2>1, <2>2, <3>1, FrameTokens DEF IInv
  <2>9. ASSUME window = {}, lockDir # NoDir
        PROVE  ~InUse(lockDir)'
    <3>1. lockDir \in Contenders
      BY <2>9 DEF IInv, TypeOK
    <3>2. CASE role[c] = "release"
      <4>1. lockDir = c
        BY <1>1, <2>9, <3>2 DEF IInv, DiskInv, InUse, Owns
      <4> QED
        BY <2>1, <2>2, <4>1 DEF InUse, Owns
    <3>3. CASE role[c] # "release"
      <4>1. procState[info.pid] # "running"
        BY <1>1, <1>3, <2>9, <3>3 DEF IInv, AimInv
      <4>2. pc[lockDir] = "crashed"
        BY <1>3, <2>9, <3>1, <4>1 DEF IInv, MakerInv, CrashInv
      <4> QED
        BY <1>1, <2>1, <2>2, <3>1, <4>2 DEF InUse, Owns, Frame
    <3> QED
      BY <3>2, <3>3
  <2>10. RemovalInv'
    BY <2>1, <2>9 DEF RemovalInv
  <2> QED
    BY <2>3, <2>4, <2>5, <2>6, <2>7, <2>8, <2>10 DEF IInv
<1> QED
  BY <1>2, <1>3

\* An unchanged owner-less directory is in use only by a maker still about to
\* write its owner, which is an escape.
LEMMA RestatStep ==
  ASSUME IInv, NEW c \in Contenders, Restat(c)
  PROVE  IInv'
<1>1. pc[c] = "restat"
  BY DEF Restat
<1>2. CASE ~(lockDir # NoDir /\ statSame[c])
  <2>1. NextAttempt(c, {}) /\ UNCHANGED <<dirVars, procState, lookVars, window>>
    BY <1>2 DEF Restat, lookVars
  <2>2. Locals' /\ Frame(c) /\ Rest(c)' /\ pc'[c] \in {"try", "failed"}
    BY <1>1, <2>1, IInvLocals, AtRest, NextAttemptFrame
  <2> QED
    BY <1>1, <2>1, <2>2, Withdraw DEF lookVars, IInv, TypeOK
<1>3. CASE lockDir # NoDir /\ statSame[c]
  <2>1. /\ window' = IF pc[lockDir] = "publish" THEN window \cup {"slow-writer"} ELSE window
        /\ UNCHANGED <<lockDir, info, infoOld, dirOld, procState, statSame, role, token, expected>>
    BY <1>3 DEF Restat, localVars, dirVars
  <2>2. Locals' /\ Frame(c) /\ pc'[c] = "unlink"
    BY <1>3, IInvLocals DEF Restat, Goto, localVars, Locals, Frame, Places
  <2>3. window' = {} => window = {} /\ pc[lockDir] # "publish"
    BY <2>1
  <2>4. "start-time" \in window' <=> "start-time" \in window
    BY <2>1
  <2>5. info = NoInfo
    BY <1>1, <1>3 DEF IInv, StatInv
  <2>6. expected[c] = NoInfo
    BY <1>1, AtRest DEF Rest
  <2>7. TypeOK'
    <3>1. intact' \in [Contenders -> BOOLEAN]
      BY <1>3, Zenon DEF Restat, IInv, TypeOK
    <3> QED
      BY <2>1, <2>2, <3>1 DEF IInv, TypeOK, Locals, Escapes
  <2>8. InfoInv' /\ MakerInv' /\ EscapeInv'
    BY <2>1, <2>3, <2>4 DEF IInv, InfoInv, MakerInv, EscapeInv
  <2>9. CrashInv' /\ StatInv' /\ ReleaseFailsOnlyAfterEscape'
    <3>1. CrashInv'
      BY <1>1, <2>1, <2>2, <2>3 DEF IInv, CrashInv, Frame
    <3>2. StatInv'
      BY <1>1, <2>1, <2>2, <2>3 DEF IInv, StatInv, Frame
    <3>3. ReleaseFailsOnlyAfterEscape'
      BY <1>1, <2>1, <2>2, <2>3 DEF IInv, ReleaseFailsOnlyAfterEscape, Frame
    <3> QED
      BY <3>1, <3>2, <3>3
  <2>10. AimInv'
    BY <2>1, <2>2, <2>4, <2>6 DEF IInv, AimInv, Frame
  <2>11. DiskInv'
    BY <2>1, <2>2, <2>3 DEF IInv, DiskInv, InUse, Owns, Frame
  <2>12. TokenInv'
    <3>1. Stamped(c)'
      BY <2>1, <2>2 DEF IInv, TokenInv, Stamped, Rest, Owns
    <3> QED
      BY <2>1, <2>2, <3>1, FrameTokens DEF IInv
  <2>13. ASSUME window' = {}
         PROVE  ~InUse(lockDir)'
    <3>1. lockDir \in Contenders
      BY <1>3 DEF IInv, TypeOK
    <3>2. ~Owns(lockDir)
      BY Zenon, <2>3, <2>5, <2>13, <3>1, ConstantsAssumption DEF IInv, DiskInv, TokenInv, Stamped
    <3> QED
      BY <1>1, <2>1, <2>2, <2>3, <2>13, <3>1, <3>2 DEF InUse, Owns, Frame
  <2>14. RemovalInv'
    BY <2>1, <2>13 DEF RemovalInv
  <2> QED
    BY <2>7, <2>8, <2>9, <2>10, <2>11, <2>12, <2>14 DEF IInv
<1> QED
  BY <1>2, <1>3

-----------------------------------------------------------------------------
(* The removal, the release, the collector and the world around *)

\* Without an escape a removal finds no directory in use.
LEMMA RemovalSafe ==
  ASSUME IInv, NEW c \in Contenders, pc[c] \in {"unlink", "rmdir"}, Strays(c) = {},
         NEW d \in Contenders
  PROVE  window = {} /\ (Owns(d) \/ InUse(d) => FALSE)
<1>1. window = {} /\ (lockDir # NoDir => intact[c])
  BY DEF Strays, IInv, TypeOK
<1>2. ~InUse(d)
  BY <1>1, ConstantsAssumption DEF IInv, DiskInv, RemovalInv
<1> QED
  BY <1>1, <1>2 DEF InUse

\* Unlinking info preserves it: the directory is not in use.
LEMMA UnlinkStep ==
  ASSUME IInv, NEW c \in Contenders, Unlink(c)
  PROVE  IInv'
<1>1. /\ pc[c] = "unlink"
      /\ window' = Strays(c) /\ info' = NoInfo /\ infoOld' = FALSE
      /\ UNCHANGED <<lockDir, procState, role, token, expected, intact>>
  BY DEF Unlink, localVars
<1>2. dirOld' \in BOOLEAN /\ statSame' \in [Contenders -> BOOLEAN]
  BY Zenon DEF Unlink, Touch, IInv, TypeOK
<1>3. Locals' /\ Frame(c) /\ pc'[c] = "rmdir"
  BY IInvLocals DEF Unlink, Goto, localVars, Locals, Frame, Places
<1>4. /\ window' \in SUBSET Escapes /\ (window' = {} => window = {})
      /\ "start-time" \in window' <=> "start-time" \in window
  BY <1>1 DEF Strays, IInv, TypeOK, Escapes
<1>5. TypeOK'
  BY <1>1, <1>2, <1>3, <1>4, Zenon DEF IInv, TypeOK, Locals
<1>6. InfoInv' /\ MakerInv' /\ StatInv' /\ EscapeInv'
  BY <1>1, <1>4 DEF IInv, InfoInv, MakerInv, StatInv, EscapeInv
<1>7. CrashInv' /\ ReleaseFailsOnlyAfterEscape'
  <2>1. CrashInv'
    BY <1>1, <1>3, <1>4 DEF IInv, CrashInv, Frame
  <2>2. ReleaseFailsOnlyAfterEscape'
    BY <1>1, <1>3, <1>4 DEF IInv, ReleaseFailsOnlyAfterEscape, Frame
  <2> QED
    BY <2>1, <2>2
<1>8. AimInv'
  BY <1>1, <1>3, <1>4 DEF IInv, AimInv, Frame
<1>9. TokenInv'
  <2>1. Stamped(c)'
    BY <1>1, <1>3 DEF IInv, TokenInv, Stamped, Rest, Owns
  <2> QED
    BY <1>1, <1>3, <2>1, FrameTokens DEF IInv
<1>10. ASSUME window' = {}, NEW d \in Contenders
       PROVE  ~InUse(d)' /\ ~Owns(d)'
  BY <1>1, <1>3, <1>10, RemovalSafe, Zenon DEF InUse, Owns, Frame
<1>11. DiskInv'
  BY <1>10 DEF DiskInv, InUse
<1>12. RemovalInv'
  BY <1>5, <1>10 DEF RemovalInv, TypeOK
<1> QED
  BY <1>5, <1>6, <1>7, <1>8, <1>9, <1>11, <1>12 DEF IInv

\* Removing the directory preserves it, and so does starting the rm over.
LEMMA RmdirStep ==
  ASSUME IInv, NEW c \in Contenders, Rmdir(c)
  PROVE  IInv'
<1>1. pc[c] = "rmdir"
  BY Zenon DEF Rmdir
<1>2. CASE info # NoInfo
  <2>1. UNCHANGED <<lockDir, info, infoOld, dirOld, procState, statSame, intact, window, role,
                    token, expected>>
    BY Zenon, <1>2 DEF Rmdir, localVars, lookVars
  <2>2. Locals' /\ Frame(c) /\ pc'[c] = "unlink"
    BY <1>2, IInvLocals DEF Rmdir, Goto, localVars, Locals, Frame, Places
  <2>3. TypeOK'
    BY <2>1, <2>2 DEF IInv, TypeOK, Locals
  <2>4. InfoInv' /\ MakerInv' /\ EscapeInv'
    BY <2>1 DEF IInv, InfoInv, MakerInv, EscapeInv
  <2>5. CrashInv' /\ StatInv' /\ ReleaseFailsOnlyAfterEscape'
    <3>1. CrashInv'
      BY Zenon, <1>1, <2>1, <2>2 DEF IInv, CrashInv, Frame
    <3>2. StatInv'
      BY Zenon, <1>1, <2>1, <2>2 DEF IInv, StatInv, Frame
    <3>3. ReleaseFailsOnlyAfterEscape'
      BY <1>1, <2>1, <2>2 DEF IInv, ReleaseFailsOnlyAfterEscape, Frame
    <3> QED
      BY <3>1, <3>2, <3>3
  <2>6. AimInv'
    BY <1>1, <2>1, <2>2 DEF IInv, AimInv, Frame
  <2>7. DiskInv'
    BY <2>1, <2>2 DEF IInv, DiskInv, InUse, Owns, Frame
  <2>8. TokenInv'
    <3>1. Stamped(c)'
      BY Zenon, <2>1, <2>2 DEF IInv, TokenInv, Stamped, Rest, Owns
    <3> QED
      BY <2>1, <2>2, <3>1, FrameTokens DEF IInv
  <2>9. RemovalInv'
    BY <1>1, <2>1, <2>2 DEF IInv, TypeOK, RemovalInv, InUse, Owns, Frame
  <2> QED
    BY <2>3, <2>4, <2>5, <2>6, <2>7, <2>8, <2>9 DEF IInv
<1>3. CASE info = NoInfo
  <2>1. /\ window' = Strays(c) /\ lockDir' = NoDir /\ dirOld' = FALSE
        /\ statSame' = [d \in Contenders |-> FALSE] /\ intact' \in [Contenders -> BOOLEAN]
        /\ info' = NoInfo /\ UNCHANGED <<infoOld, procState>>
    BY <1>3, Zenon DEF Rmdir, Touch, IInv, TypeOK
  <2>2. Locals' /\ Frame(c) /\ Rest(c)' /\ pc'[c] \in {"try", "failed", "idle"}
    <3>1. CASE role[c] = "acquire"
      BY <1>3, <3>1, IInvLocals, NextAttemptFrame DEF Rmdir
    <3>2. CASE role[c] # "acquire"
      BY <1>3, <3>2, IInvLocals, LeaveFrame DEF Rmdir, Places
    <3> QED
      BY <3>1, <3>2
  <2>3. /\ window' \in SUBSET Escapes /\ (window' = {} => window = {})
        /\ "start-time" \in window' <=> "start-time" \in window
    BY <2>1 DEF Strays, IInv, TypeOK, Escapes
  <2>4. TypeOK'
    BY <2>1, <2>2, <2>3, Zenon DEF IInv, TypeOK, Locals
  <2>5. InfoInv' /\ MakerInv' /\ StatInv' /\ RemovalInv' /\ EscapeInv'
    <3>1. InfoInv' /\ MakerInv' /\ EscapeInv'
      BY <2>1, <2>3 DEF IInv, InfoInv, MakerInv, EscapeInv
    <3>2. StatInv'
      BY <2>1, <2>3 DEF IInv, StatInv
    <3>3. RemovalInv'
      BY <2>1, <2>3 DEF IInv, RemovalInv, InUse, Owns
    <3> QED
      BY <3>1, <3>2, <3>3
  <2>6. CrashInv' /\ ReleaseFailsOnlyAfterEscape'
    <3>1. CrashInv'
      BY <1>1, <2>1, <2>2, <2>3 DEF IInv, CrashInv, Frame
    <3>2. ReleaseFailsOnlyAfterEscape'
      BY <1>1, <2>1, <2>2, <2>3 DEF IInv, ReleaseFailsOnlyAfterEscape, Frame
    <3> QED
      BY <3>1, <3>2
  <2>7. AimInv'
    BY <2>1, <2>2, <2>3 DEF IInv, AimInv, Frame
  <2>8. TokenInv'
    <3>1. Stamped(c)'
      BY Zenon, <2>2 DEF IInv, TokenInv, Stamped, Rest, Owns
    <3> QED
      BY <2>2, <3>1, FrameTokens DEF IInv
  <2>9. ASSUME window' = {}, NEW d \in Contenders
        PROVE  ~InUse(d)' /\ ~Owns(d)'
    BY <1>1, <2>1, <2>2, <2>9, RemovalSafe, Zenon DEF InUse, Owns, Frame
  <2>10. DiskInv'
    BY <2>9 DEF DiskInv, InUse
  <2> QED
    BY <2>4, <2>5, <2>6, <2>7, <2>8, <2>10 DEF IInv
<1> QED
  BY <1>2, <1>3

\* releaseLock goes after its own token.
LEMMA ReleaseStep ==
  ASSUME IInv, NEW c \in Contenders, Release(c)
  PROVE  IInv'
<1>1. /\ pc[c] = "held"
      /\ UNCHANGED <<lockDir, info, infoOld, dirOld, procState, token, statSame, intact, window>>
  BY DEF Release, dirVars, lookVars
<1>2. /\ Locals' /\ Frame(c) /\ pc'[c] = "reread" /\ role'[c] = "release"
      /\ token'[c] = token[c] /\ expected'[c] = token[c]
  BY <1>1, IInvLocals DEF Release, Goto, Locals, Frame, Places
<1>3. TypeOK'
  BY <1>1, <1>2 DEF IInv, TypeOK, Locals
<1>4. InfoInv' /\ MakerInv' /\ EscapeInv'
  BY <1>1 DEF IInv, InfoInv, MakerInv, EscapeInv
<1>5. CrashInv' /\ StatInv' /\ ReleaseFailsOnlyAfterEscape'
  <2>1. CrashInv'
    BY <1>1, <1>2 DEF IInv, CrashInv, Frame
  <2>2. StatInv'
    BY <1>1, <1>2 DEF IInv, StatInv, Frame
  <2>3. ReleaseFailsOnlyAfterEscape'
    BY <1>1, <1>2 DEF IInv, ReleaseFailsOnlyAfterEscape, Frame
  <2> QED
    BY <2>1, <2>2, <2>3
<1>6. AimInv'
  BY <1>1, <1>2 DEF IInv, AimInv, Frame
<1>7. DiskInv'
  BY <1>1, <1>2 DEF IInv, DiskInv, InUse, Owns, Frame
<1>8. TokenInv'
  <2>1. Stamped(c)'
    BY <1>1, <1>2 DEF IInv, TokenInv, Stamped, Rest, Owns
  <2> QED
    BY <1>1, <1>2, <2>1, FrameTokens DEF IInv
<1>9. RemovalInv'
  BY Zenon, <1>1, <1>2 DEF IInv, TypeOK, RemovalInv, InUse, Owns, Frame
<1> QED
  BY <1>3, <1>4, <1>5, <1>6, <1>7, <1>8, <1>9 DEF IInv

\* The collector probes the owner of an unqualified lock, which is on its machine.
LEMMA GcPruneStep ==
  ASSUME IInv, NEW c \in Contenders, GcPrune(c)
  PROVE  IInv'
<1>1. /\ pc[c] = "idle"
      /\ UNCHANGED <<lockDir, info, infoOld, dirOld, procState, token, statSame, intact, window>>
  BY DEF GcPrune, dirVars, lookVars
<1>2. /\ Locals' /\ Frame(c) /\ pc'[c] = "reread" /\ role'[c] = "gc" /\ expected'[c] = info
  BY <1>1, IInvLocals DEF GcPrune, Goto, Locals, Frame, Places, IInv, TypeOK
<1>3. procState[info.pid] # "running"
  <2>1. info.pid \in Pids /\ PidOf[c] \in Pids
    BY ConstantsAssumption, Zenon DEF GcPrune, IInv, TypeOK, Tokens
  <2>2. HostOf[info.pid] = HostOf[PidOf[c]]
    BY <2>1, ConstantsAssumption DEF GcPrune
  <2> QED
    BY Zenon, <2>2 DEF GcPrune, OwnerLiveness
<1>4. TypeOK'
  BY <1>1, <1>2 DEF IInv, TypeOK, Locals
<1>5. InfoInv' /\ MakerInv' /\ EscapeInv'
  BY Zenon, <1>1 DEF IInv, InfoInv, MakerInv, EscapeInv
<1>6. CrashInv' /\ StatInv' /\ ReleaseFailsOnlyAfterEscape'
  <2>1. CrashInv'
    BY Zenon, <1>1, <1>2 DEF IInv, CrashInv, Frame
  <2>2. StatInv'
    BY <1>1, <1>2 DEF IInv, StatInv, Frame
  <2>3. ReleaseFailsOnlyAfterEscape'
    BY <1>1, <1>2 DEF IInv, ReleaseFailsOnlyAfterEscape, Frame
  <2> QED
    BY <2>1, <2>2, <2>3
<1>7. AimInv'
  BY <1>1, <1>2, <1>3 DEF IInv, AimInv, Frame
<1>8. DiskInv'
  BY <1>1, <1>2 DEF IInv, DiskInv, InUse, Owns, Frame
<1>9. TokenInv'
  <2>1. Stamped(c)'
    BY <1>1, <1>2 DEF IInv, TokenInv, Stamped, Rest, Owns
  <2> QED
    BY <1>1, <1>2, <2>1, FrameTokens DEF IInv
<1>10. RemovalInv'
  BY Zenon, <1>1, <1>2 DEF IInv, TypeOK, RemovalInv, InUse, Owns, Frame
<1> QED
  BY <1>4, <1>5, <1>6, <1>7, <1>8, <1>9, <1>10 DEF IInv

\* A crash takes claims away and makes no process run again.
LEMMA CrashStep ==
  ASSUME IInv, NEW p \in Pids, Crash(p)
  PROVE  IInv'
<1>1. /\ procState' = [procState EXCEPT ![p] = "dead"]
      /\ pc' = [c \in Contenders |-> IF PidOf[c] = p THEN "crashed" ELSE pc[c]]
      /\ UNCHANGED <<lockDir, info, infoOld, dirOld, role, attempt, token, expected, startSeen,
                     statSame, intact, window>>
  BY DEF Crash, dirVars, localVars, lookVars
<1>2. TypeOK'
  BY <1>1 DEF IInv, TypeOK, Places
<1>3. InfoInv' /\ MakerInv' /\ EscapeInv'
  BY Zenon, <1>1 DEF IInv, InfoInv, MakerInv, EscapeInv
<1>4. CrashInv'
  BY <1>1, ConstantsAssumption DEF IInv, TypeOK, CrashInv
<1>5. StatInv' /\ ReleaseFailsOnlyAfterEscape'
  <2>1. StatInv'
    BY Zenon, <1>1 DEF IInv, StatInv
  <2>2. ReleaseFailsOnlyAfterEscape'
    BY Zenon, <1>1 DEF IInv, ReleaseFailsOnlyAfterEscape
  <2> QED
    BY <2>1, <2>2
<1>6. AimInv'
  BY <1>1, ConstantsAssumption DEF IInv, TypeOK, AimInv, Tokens
<1>7. DiskInv'
  BY Zenon, <1>1 DEF IInv, DiskInv, InUse, Owns
<1>8. TokenInv'
  BY Zenon, <1>1 DEF IInv, TokenInv, Stamped, Rest, Owns
<1>9. RemovalInv'
  BY <1>1, <1>2 DEF IInv, TypeOK, RemovalInv, InUse, Owns
<1> QED
  BY <1>2, <1>3, <1>4, <1>5, <1>6, <1>7, <1>8, <1>9 DEF IInv

\* A reused pid is not the process that has stopped.
LEMMA ReusePidStep ==
  ASSUME IInv, NEW p \in Pids, ReusePid(p)
  PROVE  IInv'
<1>1. /\ procState[p] = "dead" /\ procState' = [procState EXCEPT ![p] = "reused"]
      /\ UNCHANGED <<lockDir, info, infoOld, dirOld, pc, role, attempt, token, expected, startSeen,
                     statSame, intact, window>>
  BY DEF ReusePid, dirVars, localVars, lookVars
<1>2. TypeOK'
  BY <1>1 DEF IInv, TypeOK
<1>3. InfoInv' /\ MakerInv' /\ EscapeInv' /\ StatInv' /\ ReleaseFailsOnlyAfterEscape'
  BY Zenon, <1>1 DEF IInv, InfoInv, MakerInv, EscapeInv, StatInv, ReleaseFailsOnlyAfterEscape
<1>4. CrashInv'
  BY <1>1, ConstantsAssumption DEF IInv, TypeOK, CrashInv
<1>5. AimInv'
  BY <1>1, ConstantsAssumption DEF IInv, TypeOK, AimInv, Tokens
<1>6. DiskInv' /\ TokenInv' /\ RemovalInv'
  BY <1>1 DEF IInv, DiskInv, TokenInv, Stamped, Rest, RemovalInv, InUse, Owns
<1> QED
  BY <1>2, <1>3, <1>4, <1>5, <1>6 DEF IInv

\* Time alone changes nothing but ages.
LEMMA ElapseStep ==
  ASSUME IInv, Elapse
  PROVE  IInv'
<1>1. UNCHANGED <<lockDir, info, procState, pc, role, attempt, token, expected, startSeen,
                  statSame, intact, window>>
  BY DEF Elapse, localVars, lookVars
<1>2. TypeOK'
  BY <1>1 DEF Elapse, IInv, TypeOK
<1>3. InfoInv' /\ MakerInv' /\ EscapeInv' /\ StatInv' /\ ReleaseFailsOnlyAfterEscape'
  BY Zenon, <1>1 DEF IInv, InfoInv, MakerInv, EscapeInv, StatInv, ReleaseFailsOnlyAfterEscape
<1>4. CrashInv' /\ AimInv'
  BY Zenon, <1>1 DEF IInv, CrashInv, AimInv
<1>5. DiskInv' /\ TokenInv' /\ RemovalInv'
  BY <1>1 DEF IInv, DiskInv, TokenInv, Stamped, Rest, RemovalInv, InUse, Owns
<1> QED
  BY <1>2, <1>3, <1>4, <1>5 DEF IInv

\* The invariant is about the variables of the specification only.
LEMMA StutterStep ==
  ASSUME IInv, UNCHANGED vars
  PROVE  IInv'
  BY Zenon DEF vars, dirVars, localVars, lookVars, IInv, TypeOK, InfoInv, MakerInv, CrashInv, DiskInv,
     TokenInv, Stamped, Rest, AimInv, StatInv, RemovalInv, ReleaseFailsOnlyAfterEscape, EscapeInv, Owns, InUse

-----------------------------------------------------------------------------
(* The theorems *)

\* The inductive invariant of withFileLock: every statement of acquireLock, of the
\* removals, of the release and of the collector, and every crash, pid reuse and
\* lapse of staleMs, preserves it.
THEOREM Invariance == Spec => []IInv
<1>1. Init => IInv
  BY InitIInv
<1>2. IInv /\ [Next]_vars => IInv'
  <2>1. SUFFICES ASSUME IInv, Next PROVE IInv'
    BY StutterStep
  <2>2. CASE \E c \in Contenders : Step(c)
    <3>1. PICK c \in Contenders : Step(c)
      BY <2>2
    <3>2. CASE Call(c) \/ TryMkdir(c) \/ RenamePending(c)
      BY <2>1, <3>2, CallStep, TryMkdirStep, RenamePendingStep
    <3>3. CASE \E ts \in Stamps : WriteLockInfo(c, ts) \/ PreparePending(c, ts)
      BY <2>1, <3>3, WriteLockInfoStep, PreparePendingStep
    <3>4. CASE SnapshotNoInfo(c) \/ SnapshotInfo(c) \/ SnapshotStat(c)
      BY <2>1, <3>4, SnapshotNoInfoStep, SnapshotInfoStep, SnapshotStatStep
    <3>5. CASE Reread(c) \/ RereadNull(c) \/ Restat(c)
      BY <2>1, <3>5, RereadStep, RereadNullStep, RestatStep
    <3>6. CASE Unlink(c) \/ Rmdir(c) \/ Release(c) \/ GcPrune(c)
      BY <2>1, <3>6, UnlinkStep, RmdirStep, ReleaseStep, GcPruneStep
    <3> QED
      BY <3>1, <3>2, <3>3, <3>4, <3>5, <3>6 DEF Step
  <2>3. CASE \E p \in Pids : Crash(p) \/ ReusePid(p)
    BY <2>1, <2>3, CrashStep, ReusePidStep
  <2>4. CASE Elapse
    BY <2>1, <2>4, ElapseStep
  <2> QED
    BY <2>1, <2>2, <2>3, <2>4 DEF Next
<1> QED
  BY <1>1, <1>2, PTL DEF Spec

\* The attempt counter of acquireLock stays below its retries, and every other
\* variable keeps its type.
THEOREM TypeCorrect == Spec => []TypeOK
<1>1. IInv => TypeOK
  BY DEF IInv
<1> QED
  BY <1>1, Invariance, PTL

\* withFileLock serializes any number of contenders, in any number of processes
\* on any number of machines, unless one of its three escapes has happened.
THEOREM Exclusion == Spec => []ExclusiveUnlessEscape
<1>1. IInv => ExclusiveUnlessEscape
  BY DEF IInv, DiskInv, InUse, Owns, ExclusiveUnlessEscape, MutualExclusion
<1> QED
  BY <1>1, Invariance, PTL

\* Without an escape the directory of a running operation stays on disk with its token.
THEOREM HeldOnDisk == Spec => []HeldLockIsOnDisk
<1>1. IInv => HeldLockIsOnDisk
  BY DEF IInv, DiskInv, InUse, Owns, HeldLockIsOnDisk
<1> QED
  BY <1>1, Invariance, PTL

\* Without an escape every release finds its own token and succeeds.
THEOREM ReleaseSucceeds == Spec => []ReleaseFailsOnlyAfterEscape
<1>1. IInv => ReleaseFailsOnlyAfterEscape
  BY DEF IInv
<1> QED
  BY <1>1, Invariance, PTL

\* When every process can read its own start time, no removal is ever aimed at a
\* running owner, escapes of the other two kinds included.
THEOREM LiveOwnersAreSafe ==
  ASSUME PsUnknown = {}
  PROVE  Spec => []NeverReapsLiveOwner
<1>1. IInv => NeverReapsLiveOwner
  BY DEF IInv, EscapeInv, AimInv, NeverReapsLiveOwner
<1> QED
  BY <1>1, Invariance, PTL
=============================================================================
