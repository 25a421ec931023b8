------------------------- MODULE RuntimeOwnerProofs -------------------------
(* The lease invariants of RuntimeOwner for any number of owners, in two pid *)
(* namespaces, and the proof that the owners implement SingleOwner.          *)
EXTENDS RuntimeOwner, TLAPS

(* The inductive invariant.  Each conjunct speaks of one owner, so that an   *)
(* action of another owner disturbs it only through lease and proc.  What    *)
(* follows from holding the lease is said of the owners not deposed unseen.  *)

\* An owner that believes it holds the lease runs, and lease.json names it.
Believes(o) == leaseHeld[o] /\ o \notin deposed => Holds(o) /\ Running(o)

\* From acquireLease to releaseLease the owner believes that it holds the lease.
Leased(o) ==
  o \notin deposed
    => /\ pc[o] \in {"rmStale", "bind", "announce", "started"} /\ down[o] # "stopped" => leaseHeld[o]
       /\ listening[o] \/ handler[o] = "waiting" \/ timer[o] \/ renewals[o] > 0 => leaseHeld[o]
       /\ down[o] = "release" => leaseHeld[o]
       /\ pc[o] \in {"off", "acquire"} => ~leaseHeld[o]

\* stop() runs after start() has returned or failed.
StopAfterStart(o) ==
  o \notin deposed
    => (pc[o] \in {"off", "acquire", "rmStale", "bind", "announce"} => down[o] = "up")

\* What each stage of the teardown has verified closed.
Closed(o) ==
  o \notin deposed
    => /\ transport[o] => down[o] \in {"up", "closeTransport"}
       /\ listening[o] => down[o] \in {"up", "closeTransport", "closeServer"}
       /\ handler[o] = "waiting" => listening[o] \/ down[o] = "awaitClients"

\* The heartbeat starts with the lease and ends with the fence, of every owner.
Fenced(o) ==
  /\ pc[o] \in {"off", "acquire"} => down[o] = "up" /\ ~timer[o] /\ renewals[o] = 0
  /\ timer[o] => down[o] \notin {"drain", "release", "stopped"}
  /\ renewals[o] > 0 => down[o] \notin {"release", "stopped"}

\* A dead process has none of this.
Gone(o) ==
  ~Running(o)
    => /\ pc[o] = "dead" /\ down[o] = "up" /\ ~transport[o] /\ ~listening[o] /\ ~timer[o]
       /\ renewals[o] = 0 /\ handler[o] = "none"

OwnerInv(o) ==
  Believes(o) /\ Leased(o) /\ StopAfterStart(o) /\ Closed(o) /\ Fenced(o) /\ Gone(o)
IInv == TypeOK /\ \A o \in Owners : OwnerInv(o)

-----------------------------------------------------------------------------
(* Framing: an owner none of whose own variables change *)

Same(p) ==
  /\ proc'[p] = proc[p] /\ pc'[p] = pc[p] /\ down'[p] = down[p]
  /\ transport'[p] = transport[p] /\ listening'[p] = listening[p] /\ leaseHeld'[p] = leaseHeld[p]
  /\ timer'[p] = timer[p] /\ renewals'[p] = renewals[p] /\ handler'[p] = handler[p]
  /\ (p \in deposed => p \in deposed')

\* An owner whose own variables stay keeps its invariant if a lease it believes in stays.
LEMMA Frame ==
  ASSUME NEW p \in Owners, OwnerInv(p), Same(p), leaseHeld[p] /\ p \notin deposed' => Holds(p)'
  PROVE  OwnerInv(p)'
<1>1. Believes(p)'  BY DEF OwnerInv, Believes, Same, Running
<1>2. Leased(p)'  BY DEF OwnerInv, Leased, Same
<1>3. StopAfterStart(p)'  BY DEF OwnerInv, StopAfterStart, Same
<1>4. Closed(p)'  BY DEF OwnerInv, Closed, Same
<1>5. Fenced(p)'  BY DEF OwnerInv, Fenced, Same
<1>6. Gone(p)'  BY DEF OwnerInv, Gone, Same, Running
<1> QED  BY <1>1, <1>2, <1>3, <1>4, <1>5, <1>6 DEF OwnerInv

\* An action of one owner that leaves the lease alone preserves IInv if it preserves the
\* types and the invariant of that owner.
LEMMA OneOwnerMoves ==
  ASSUME IInv, NEW o \in Owners, TypeOK', OwnerInv(o)', lease' = lease,
         \A p \in Owners \ {o} : Same(p)
  PROVE  IInv'
<1> SUFFICES ASSUME NEW p \in Owners, p # o  PROVE OwnerInv(p)'  BY DEF IInv
<1>1. OwnerInv(p) /\ Same(p)  BY DEF IInv
<1>2. leaseHeld[p] /\ p \notin deposed' => Holds(p)'  BY <1>1 DEF OwnerInv, Believes, Holds, Same
<1> QED  BY <1>1, <1>2, Frame

-----------------------------------------------------------------------------
(* The actions that leave the lease alone *)

\* The spawned session is open before anything is acquired.
LEMMA SpawnStep ==
  ASSUME IInv, NEW o \in Owners, Spawn(o)
  PROVE  IInv'
<1> USE OwnersAssumption
<1>1. TypeOK /\ OwnerInv(o)  BY DEF IInv
<1>2. lease' = lease /\ TypeOK'  BY <1>1 DEF TypeOK, StartPlaces, StopPlaces, Leases, leaseVars, views,
        ownVars, Spawn, Goto, StartIs
<1>3. \A p \in Owners \ {o} : Same(p)  BY <1>1 DEF TypeOK, Same, leaseVars, ownVars, views, Spawn, Goto,
        StartIs
<1>4. Believes(o)'  BY <1>1 DEF TypeOK, OwnerInv, Believes, Holds, Running, leaseVars, ownVars, views,
        Spawn, Goto, StartIs
<1>5. Leased(o)'  BY <1>1 DEF TypeOK, OwnerInv, Leased, leaseVars, ownVars, views, Spawn, Goto, StartIs,
        Running, StopAfterStart, Closed
<1>6. StopAfterStart(o)'  BY <1>1 DEF TypeOK, OwnerInv, StopAfterStart, leaseVars, ownVars, views, Spawn,
        Goto, StartIs, Running
<1>7. Closed(o)'  BY <1>1 DEF TypeOK, OwnerInv, Closed, leaseVars, ownVars, views, Spawn, Goto, StartIs,
        Running, StopAfterStart, Leased
<1>8. Gone(o)'  BY <1>1 DEF TypeOK, OwnerInv, Gone, Running, leaseVars, ownVars, views, Spawn, Goto,
        StartIs
<1>9. Fenced(o)'  BY <1>1 DEF TypeOK, OwnerInv, Fenced, Gone, Running, leaseVars, ownVars, views, Spawn,
        Goto, StartIs
<1>10. OwnerInv(o)'  BY <1>4, <1>5, <1>6, <1>7, <1>8, <1>9 DEF OwnerInv
<1> QED  BY <1>2, <1>3, <1>10, OneOwnerMoves

\* A failed start goes to the teardown with what it has acquired.
LEMMA StartFailsStep ==
  ASSUME IInv, NEW o \in Owners, StartFails(o)
  PROVE  IInv'
<1> USE OwnersAssumption
<1>1. TypeOK /\ OwnerInv(o)  BY DEF IInv
<1>2. lease' = lease /\ TypeOK'  BY <1>1 DEF TypeOK, StartPlaces, StopPlaces, Leases, leaseVars, views,
        ownVars, StartFails, FailStart, CallStop, StartIs
<1>3. \A p \in Owners \ {o} : Same(p)  BY <1>1 DEF TypeOK, Same, leaseVars, ownVars, views, StartFails,
        FailStart, CallStop, StartIs
<1>4. Believes(o)'  BY <1>1 DEF TypeOK, OwnerInv, Believes, Holds, Running, leaseVars, ownVars, views,
        StartFails, FailStart, CallStop, StartIs
<1>5. Leased(o)'  BY <1>1 DEF TypeOK, OwnerInv, Leased, leaseVars, ownVars, views, StartFails, FailStart,
        CallStop, StartIs, Running, StopAfterStart, Closed
<1>6. StopAfterStart(o)'  BY <1>1 DEF TypeOK, OwnerInv, StopAfterStart, leaseVars, ownVars, views,
        StartFails, FailStart, CallStop, StartIs, Running
<1>7. Closed(o)'  BY <1>1 DEF TypeOK, OwnerInv, Closed, leaseVars, ownVars, views, StartFails, FailStart,
        CallStop, StartIs, Running, StopAfterStart, Leased
<1>8. Gone(o)'  BY <1>1 DEF TypeOK, OwnerInv, Gone, Running, leaseVars, ownVars, views, StartFails,
        FailStart, CallStop, StartIs
<1>9. Fenced(o)'  BY <1>1 DEF TypeOK, OwnerInv, Fenced, Gone, Running, leaseVars, ownVars, views,
        StartFails, FailStart, CallStop, StartIs
<1>10. OwnerInv(o)'  BY <1>4, <1>5, <1>6, <1>7, <1>8, <1>9 DEF OwnerInv
<1> QED  BY <1>2, <1>3, <1>10, OneOwnerMoves

\* A refused owner goes to the teardown with nothing acquired.
LEMMA LeaseRefusedStep ==
  ASSUME IInv, NEW o \in Owners, LeaseRefused(o)
  PROVE  IInv'
<1> USE OwnersAssumption
<1>1. TypeOK /\ OwnerInv(o)  BY DEF IInv
<1>2. lease' = lease /\ TypeOK'  BY <1>1 DEF TypeOK, StartPlaces, StopPlaces, Leases, leaseVars, views,
        ownVars, LeaseRefused, FailStart, CallStop, StartIs
<1>3. \A p \in Owners \ {o} : Same(p)  BY <1>1 DEF TypeOK, Same, leaseVars, ownVars, views, LeaseRefused,
        FailStart, CallStop, StartIs
<1>4. Believes(o)'  BY <1>1 DEF TypeOK, OwnerInv, Believes, Holds, Running, leaseVars, ownVars, views,
        LeaseRefused, FailStart, CallStop, StartIs
<1>5. Leased(o)'  BY <1>1 DEF TypeOK, OwnerInv, Leased, leaseVars, ownVars, views, LeaseRefused,
        FailStart, CallStop, StartIs, Running, StopAfterStart, Closed
<1>6. StopAfterStart(o)'  BY <1>1 DEF TypeOK, OwnerInv, StopAfterStart, leaseVars, ownVars, views,
        LeaseRefused, FailStart, CallStop, StartIs, Running
<1>7. Closed(o)'  BY <1>1 DEF TypeOK, OwnerInv, Closed, leaseVars, ownVars, views, LeaseRefused,
        FailStart, CallStop, StartIs, Running, StopAfterStart, Leased
<1>8. Gone(o)'  BY <1>1 DEF TypeOK, OwnerInv, Gone, Running, leaseVars, ownVars, views, LeaseRefused,
        FailStart, CallStop, StartIs
<1>9. Fenced(o)'  BY <1>1 DEF TypeOK, OwnerInv, Fenced, Gone, Running, leaseVars, ownVars, views,
        LeaseRefused, FailStart, CallStop, StartIs
<1>10. OwnerInv(o)'  BY <1>4, <1>5, <1>6, <1>7, <1>8, <1>9 DEF OwnerInv
<1> QED  BY <1>2, <1>3, <1>10, OneOwnerMoves

\* Removing the stale socket touches no owner.
LEMMA RemoveStaleSocketStep ==
  ASSUME IInv, NEW o \in Owners, RemoveStaleSocket(o)
  PROVE  IInv'
<1> USE OwnersAssumption
<1>1. TypeOK /\ OwnerInv(o)  BY DEF IInv
<1>2. lease' = lease /\ TypeOK'  BY <1>1 DEF TypeOK, StartPlaces, StopPlaces, Leases, leaseVars, views,
        ownVars, RemoveStaleSocket, Goto, StartIs
<1>3. \A p \in Owners \ {o} : Same(p)  BY <1>1 DEF TypeOK, Same, leaseVars, ownVars, views,
        RemoveStaleSocket, Goto, StartIs
<1>4. Believes(o)'  BY <1>1 DEF TypeOK, OwnerInv, Believes, Holds, Running, leaseVars, ownVars, views,
        RemoveStaleSocket, Goto, StartIs
<1>5. Leased(o)'  BY <1>1 DEF TypeOK, OwnerInv, Leased, leaseVars, ownVars, views, RemoveStaleSocket,
        Goto, StartIs, Running
<1>6. StopAfterStart(o)'  BY <1>1 DEF TypeOK, OwnerInv, StopAfterStart, leaseVars, ownVars, views,
        RemoveStaleSocket, Goto, StartIs, Running
<1>7. Closed(o)'  BY <1>1 DEF TypeOK, OwnerInv, Closed, leaseVars, ownVars, views, RemoveStaleSocket,
        Goto, StartIs, Running
<1>8. Gone(o)'  BY <1>1 DEF TypeOK, OwnerInv, Gone, Running, leaseVars, ownVars, views,
        RemoveStaleSocket, Goto, StartIs
<1>9. Fenced(o)'  BY <1>1 DEF TypeOK, OwnerInv, Fenced, Gone, Running, leaseVars, ownVars, views,
        RemoveStaleSocket, Goto, StartIs
<1>10. OwnerInv(o)'  BY <1>4, <1>5, <1>6, <1>7, <1>8, <1>9 DEF OwnerInv
<1> QED  BY <1>2, <1>3, <1>10, OneOwnerMoves

\* The owner that binds the socket holds the lease.
LEMMA BindStep ==
  ASSUME IInv, NEW o \in Owners, Bind(o)
  PROVE  IInv'
<1> USE OwnersAssumption
<1>1. TypeOK /\ OwnerInv(o)  BY DEF IInv
<1>2. lease' = lease /\ TypeOK'  BY <1>1 DEF TypeOK, StartPlaces, StopPlaces, Leases, leaseVars, views,
        ownVars, Bind, Goto, StartIs
<1>3. \A p \in Owners \ {o} : Same(p)  BY <1>1 DEF TypeOK, Same, leaseVars, ownVars, views, Bind, Goto,
        StartIs
<1>4. Believes(o)'  BY <1>1 DEF TypeOK, OwnerInv, Believes, Holds, Running, leaseVars, ownVars, views,
        Bind, Goto, StartIs, Gone
<1>5. Leased(o)'  BY <1>1 DEF TypeOK, OwnerInv, Leased, leaseVars, ownVars, views, Bind, Goto, StartIs,
        Running, StopAfterStart, Closed
<1>6. StopAfterStart(o)'  BY <1>1 DEF TypeOK, OwnerInv, StopAfterStart, leaseVars, ownVars, views, Bind,
        Goto, StartIs, Running, Gone
<1>7. Closed(o)'  BY <1>1 DEF TypeOK, OwnerInv, Closed, leaseVars, ownVars, views, Bind, Goto, StartIs,
        Running, Gone, StopAfterStart, Leased
<1>8. Gone(o)'  BY <1>1 DEF TypeOK, OwnerInv, Gone, Running, leaseVars, ownVars, views, Bind, Goto, StartIs
<1>9. Fenced(o)'  BY <1>1 DEF TypeOK, OwnerInv, Fenced, Gone, Running, leaseVars, ownVars, views, Bind,
        Goto, StartIs
<1>10. OwnerInv(o)'  BY <1>4, <1>5, <1>6, <1>7, <1>8, <1>9 DEF OwnerInv
<1> QED  BY <1>2, <1>3, <1>10, OneOwnerMoves

\* start() returns with the lease held.
LEMMA AnnounceStep ==
  ASSUME IInv, NEW o \in Owners, Announce(o)
  PROVE  IInv'
<1> USE OwnersAssumption
<1>1. TypeOK /\ OwnerInv(o)  BY DEF IInv
<1>2. lease' = lease /\ TypeOK'  BY <1>1 DEF TypeOK, StartPlaces, StopPlaces, Leases, leaseVars, views,
        ownVars, Announce, Goto, StartIs
<1>3. \A p \in Owners \ {o} : Same(p)  BY <1>1 DEF TypeOK, Same, leaseVars, ownVars, views, Announce,
        Goto, StartIs
<1>4. Believes(o)'  BY <1>1 DEF TypeOK, OwnerInv, Believes, Holds, Running, leaseVars, ownVars, views,
        Announce, Goto, StartIs
<1>5. Leased(o)'  BY <1>1 DEF TypeOK, OwnerInv, Leased, leaseVars, ownVars, views, Announce, Goto,
        StartIs, Running
<1>6. StopAfterStart(o)'  BY <1>1 DEF TypeOK, OwnerInv, StopAfterStart, leaseVars, ownVars, views,
        Announce, Goto, StartIs, Running
<1>7. Closed(o)'  BY <1>1 DEF TypeOK, OwnerInv, Closed, leaseVars, ownVars, views, Announce, Goto,
        StartIs, Running
<1>8. Gone(o)'  BY <1>1 DEF TypeOK, OwnerInv, Gone, Running, leaseVars, ownVars, views, Announce, Goto,
        StartIs
<1>9. Fenced(o)'  BY <1>1 DEF TypeOK, OwnerInv, Fenced, Gone, Running, leaseVars, ownVars, views,
        Announce, Goto, StartIs
<1>10. OwnerInv(o)'  BY <1>4, <1>5, <1>6, <1>7, <1>8, <1>9 DEF OwnerInv
<1> QED  BY <1>2, <1>3, <1>10, OneOwnerMoves

\* A renewal is started only before the fence.
LEMMA HeartbeatTickStep ==
  ASSUME IInv, NEW o \in Owners, HeartbeatTick(o)
  PROVE  IInv'
<1> USE OwnersAssumption
<1>1. TypeOK /\ OwnerInv(o)  BY DEF IInv
<1>2. lease' = lease /\ TypeOK'  BY <1>1 DEF TypeOK, StartPlaces, StopPlaces, Leases, leaseVars, views,
        ownVars, HeartbeatTick
<1>3. \A p \in Owners \ {o} : Same(p)  BY <1>1 DEF TypeOK, Same, leaseVars, ownVars, views, HeartbeatTick
<1>4. Believes(o)'  BY <1>1 DEF TypeOK, OwnerInv, Believes, Holds, Running, leaseVars, ownVars, views,
        HeartbeatTick, Gone
<1>5. Leased(o)'  BY <1>1 DEF TypeOK, OwnerInv, Leased, leaseVars, ownVars, views, HeartbeatTick,
        StopAfterStart, Closed
<1>6. StopAfterStart(o)'  BY <1>1 DEF TypeOK, OwnerInv, StopAfterStart, leaseVars, ownVars, views,
        HeartbeatTick, Gone
<1>7. Closed(o)'  BY <1>1 DEF TypeOK, OwnerInv, Closed, leaseVars, ownVars, views, HeartbeatTick, Gone,
        StopAfterStart, Leased
<1>8. Gone(o)'  BY <1>1 DEF TypeOK, OwnerInv, Gone, Running, leaseVars, ownVars, views, HeartbeatTick
<1>9. Fenced(o)'  BY <1>1 DEF TypeOK, OwnerInv, Fenced, Gone, Running, leaseVars, ownVars, views,
        HeartbeatTick
<1>10. OwnerInv(o)'  BY <1>4, <1>5, <1>6, <1>7, <1>8, <1>9 DEF OwnerInv
<1> QED  BY <1>2, <1>3, <1>10, OneOwnerMoves

\* A request reaches a listening owner.
LEMMA RequestStep ==
  ASSUME IInv, NEW o \in Owners, Request(o)
  PROVE  IInv'
<1> USE OwnersAssumption
<1>1. TypeOK /\ OwnerInv(o)  BY DEF IInv
<1>2. lease' = lease /\ TypeOK'  BY <1>1 DEF TypeOK, StartPlaces, StopPlaces, Leases, leaseVars, views,
        ownVars, Request
<1>3. \A p \in Owners \ {o} : Same(p)  BY <1>1 DEF TypeOK, Same, leaseVars, ownVars, views, Request
<1>4. Believes(o)'  BY <1>1 DEF TypeOK, OwnerInv, Believes, Holds, Running, leaseVars, ownVars, views,
        Request, Gone
<1>5. Leased(o)'  BY <1>1 DEF TypeOK, OwnerInv, Leased, leaseVars, ownVars, views, Request,
        StopAfterStart, Closed
<1>6. StopAfterStart(o)'  BY <1>1 DEF TypeOK, OwnerInv, StopAfterStart, leaseVars, ownVars, views,
        Request, Gone
<1>7. Closed(o)'  BY <1>1 DEF TypeOK, OwnerInv, Closed, leaseVars, ownVars, views, Request, Gone,
        StopAfterStart, Leased
<1>8. Gone(o)'  BY <1>1 DEF TypeOK, OwnerInv, Gone, Running, leaseVars, ownVars, views, Request
<1>9. Fenced(o)'  BY <1>1 DEF TypeOK, OwnerInv, Fenced, Gone, Running, leaseVars, ownVars, views, Request
<1>10. OwnerInv(o)'  BY <1>4, <1>5, <1>6, <1>7, <1>8, <1>9 DEF OwnerInv
<1> QED  BY <1>2, <1>3, <1>10, OneOwnerMoves

\* A handler returns.
LEMMA RespondStep ==
  ASSUME IInv, NEW o \in Owners, Respond(o)
  PROVE  IInv'
<1> USE OwnersAssumption
<1>1. TypeOK /\ OwnerInv(o)  BY DEF IInv
<1>2. lease' = lease /\ TypeOK'  BY <1>1 DEF TypeOK, StartPlaces, StopPlaces, Leases, leaseVars, views,
        ownVars, Respond
<1>3. \A p \in Owners \ {o} : Same(p)  BY <1>1 DEF TypeOK, Same, leaseVars, ownVars, views, Respond
<1>4. Believes(o)'  BY <1>1 DEF TypeOK, OwnerInv, Believes, Holds, Running, leaseVars, ownVars, views,
        Respond
<1>5. Leased(o)'  BY <1>1 DEF TypeOK, OwnerInv, Leased, leaseVars, ownVars, views, Respond,
        StopAfterStart, Closed
<1>6. StopAfterStart(o)'  BY <1>1 DEF TypeOK, OwnerInv, StopAfterStart, leaseVars, ownVars, views, Respond
<1>7. Closed(o)'  BY <1>1 DEF TypeOK, OwnerInv, Closed, leaseVars, ownVars, views, Respond,
        StopAfterStart, Leased
<1>8. Gone(o)'  BY <1>1 DEF TypeOK, OwnerInv, Gone, Running, leaseVars, ownVars, views, Respond
<1>9. Fenced(o)'  BY <1>1 DEF TypeOK, OwnerInv, Fenced, Gone, Running, leaseVars, ownVars, views, Respond
<1>10. OwnerInv(o)'  BY <1>4, <1>5, <1>6, <1>7, <1>8, <1>9 DEF OwnerInv
<1> QED  BY <1>2, <1>3, <1>10, OneOwnerMoves

\* The poll starts the teardown.
LEMMA PollFindsNoOwnerStep ==
  ASSUME IInv, NEW o \in Owners, PollFindsNoOwner(o)
  PROVE  IInv'
<1> USE OwnersAssumption
<1>1. TypeOK /\ OwnerInv(o)  BY DEF IInv
<1>2. lease' = lease /\ TypeOK'  BY <1>1 DEF TypeOK, StartPlaces, StopPlaces, Leases, leaseVars, views,
        ownVars, PollFindsNoOwner, CallStop, StartIs, StopIs
<1>3. \A p \in Owners \ {o} : Same(p)  BY <1>1 DEF TypeOK, Same, leaseVars, ownVars, views,
        PollFindsNoOwner, CallStop, StartIs, StopIs
<1>4. Believes(o)'  BY <1>1 DEF TypeOK, OwnerInv, Believes, Holds, Running, leaseVars, ownVars, views,
        PollFindsNoOwner, CallStop, StartIs, StopIs
<1>5. Leased(o)'  BY <1>1 DEF TypeOK, OwnerInv, Leased, leaseVars, ownVars, views, PollFindsNoOwner,
        CallStop, StartIs, StopIs, Running
<1>6. StopAfterStart(o)'  BY <1>1 DEF TypeOK, OwnerInv, StopAfterStart, leaseVars, ownVars, views,
        PollFindsNoOwner, CallStop, StartIs, StopIs, Running
<1>7. Closed(o)'  BY <1>1 DEF TypeOK, OwnerInv, Closed, leaseVars, ownVars, views, PollFindsNoOwner,
        CallStop, StartIs, StopIs, Running
<1>8. Gone(o)'  BY <1>1 DEF TypeOK, OwnerInv, Gone, Running, leaseVars, ownVars, views, PollFindsNoOwner,
        CallStop, StartIs, StopIs
<1>9. Fenced(o)'  BY <1>1 DEF TypeOK, OwnerInv, Fenced, Gone, Running, leaseVars, ownVars, views,
        PollFindsNoOwner, CallStop, StartIs, StopIs
<1>10. OwnerInv(o)'  BY <1>4, <1>5, <1>6, <1>7, <1>8, <1>9 DEF OwnerInv
<1> QED  BY <1>2, <1>3, <1>10, OneOwnerMoves

\* A signal or a retire request starts the teardown.
LEMMA BeginStopStep ==
  ASSUME IInv, NEW o \in Owners, BeginStop(o)
  PROVE  IInv'
<1> USE OwnersAssumption
<1>1. TypeOK /\ OwnerInv(o)  BY DEF IInv
<1>2. lease' = lease /\ TypeOK'  BY <1>1 DEF TypeOK, StartPlaces, StopPlaces, Leases, leaseVars, views,
        ownVars, BeginStop, CallStop, StartIs, StopIs
<1>3. \A p \in Owners \ {o} : Same(p)  BY <1>1 DEF TypeOK, Same, leaseVars, ownVars, views, BeginStop,
        CallStop, StartIs, StopIs
<1>4. Believes(o)'  BY <1>1 DEF TypeOK, OwnerInv, Believes, Holds, Running, leaseVars, ownVars, views,
        BeginStop, CallStop, StartIs, StopIs
<1>5. Leased(o)'  BY <1>1 DEF TypeOK, OwnerInv, Leased, leaseVars, ownVars, views, BeginStop, CallStop,
        StartIs, StopIs, Running
<1>6. StopAfterStart(o)'  BY <1>1 DEF TypeOK, OwnerInv, StopAfterStart, leaseVars, ownVars, views,
        BeginStop, CallStop, StartIs, StopIs, Running
<1>7. Closed(o)'  BY <1>1 DEF TypeOK, OwnerInv, Closed, leaseVars, ownVars, views, BeginStop, CallStop,
        StartIs, StopIs, Running
<1>8. Gone(o)'  BY <1>1 DEF TypeOK, OwnerInv, Gone, Running, leaseVars, ownVars, views, BeginStop,
        CallStop, StartIs, StopIs
<1>9. Fenced(o)'  BY <1>1 DEF TypeOK, OwnerInv, Fenced, Gone, Running, leaseVars, ownVars, views,
        BeginStop, CallStop, StartIs, StopIs
<1>10. OwnerInv(o)'  BY <1>4, <1>5, <1>6, <1>7, <1>8, <1>9 DEF OwnerInv
<1> QED  BY <1>2, <1>3, <1>10, OneOwnerMoves

\* The transport is closed first.
LEMMA CloseTransportStep ==
  ASSUME IInv, NEW o \in Owners, CloseTransport(o)
  PROVE  IInv'
<1> USE OwnersAssumption
<1>1. TypeOK /\ OwnerInv(o)  BY DEF IInv
<1>2. lease' = lease /\ TypeOK'  BY <1>1 DEF TypeOK, StartPlaces, StopPlaces, Leases, leaseVars, views,
        ownVars, CloseTransport, StopGoto, StopIs
<1>3. \A p \in Owners \ {o} : Same(p)  BY <1>1 DEF TypeOK, Same, leaseVars, ownVars, views,
        CloseTransport, StopGoto, StopIs
<1>4. Believes(o)'  BY <1>1 DEF TypeOK, OwnerInv, Believes, Holds, Running, leaseVars, ownVars, views,
        CloseTransport, StopGoto, StopIs
<1>5. Leased(o)'  BY <1>1 DEF TypeOK, OwnerInv, Leased, leaseVars, ownVars, views, CloseTransport,
        StopGoto, StopIs, Running
<1>6. StopAfterStart(o)'  BY <1>1 DEF TypeOK, OwnerInv, StopAfterStart, leaseVars, ownVars, views,
        CloseTransport, StopGoto, StopIs, Running
<1>7. Closed(o)'  BY <1>1 DEF TypeOK, OwnerInv, Closed, leaseVars, ownVars, views, CloseTransport,
        StopGoto, StopIs, Running
<1>8. Gone(o)'  BY <1>1 DEF TypeOK, OwnerInv, Gone, Running, leaseVars, ownVars, views, CloseTransport,
        StopGoto, StopIs
<1>9. Fenced(o)'  BY <1>1 DEF TypeOK, OwnerInv, Fenced, Gone, Running, leaseVars, ownVars, views,
        CloseTransport, StopGoto, StopIs
<1>10. OwnerInv(o)'  BY <1>4, <1>5, <1>6, <1>7, <1>8, <1>9 DEF OwnerInv
<1> QED  BY <1>2, <1>3, <1>10, OneOwnerMoves

\* The server stops accepting connections.
LEMMA StopListeningStep ==
  ASSUME IInv, NEW o \in Owners, StopListening(o)
  PROVE  IInv'
<1> USE OwnersAssumption
<1>1. TypeOK /\ OwnerInv(o)  BY DEF IInv
<1>2. lease' = lease /\ TypeOK'  BY <1>1 DEF TypeOK, StartPlaces, StopPlaces, Leases, leaseVars, views,
        ownVars, StopListening, StopGoto, StopIs
<1>3. \A p \in Owners \ {o} : Same(p)  BY <1>1 DEF TypeOK, Same, leaseVars, ownVars, views,
        StopListening, StopGoto, StopIs
<1>4. Believes(o)'  BY <1>1 DEF TypeOK, OwnerInv, Believes, Holds, Running, leaseVars, ownVars, views,
        StopListening, StopGoto, StopIs
<1>5. Leased(o)'  BY <1>1 DEF TypeOK, OwnerInv, Leased, leaseVars, ownVars, views, StopListening,
        StopGoto, StopIs, Running, StopAfterStart, Closed
<1>6. StopAfterStart(o)'  BY <1>1 DEF TypeOK, OwnerInv, StopAfterStart, leaseVars, ownVars, views,
        StopListening, StopGoto, StopIs, Running
<1>7. Closed(o)'  BY <1>1 DEF TypeOK, OwnerInv, Closed, leaseVars, ownVars, views, StopListening,
        StopGoto, StopIs, Running, StopAfterStart, Leased
<1>8. Gone(o)'  BY <1>1 DEF TypeOK, OwnerInv, Gone, Running, leaseVars, ownVars, views, StopListening,
        StopGoto, StopIs
<1>9. Fenced(o)'  BY <1>1 DEF TypeOK, OwnerInv, Fenced, Gone, Running, leaseVars, ownVars, views,
        StopListening, StopGoto, StopIs
<1>10. OwnerInv(o)'  BY <1>4, <1>5, <1>6, <1>7, <1>8, <1>9 DEF OwnerInv
<1> QED  BY <1>2, <1>3, <1>10, OneOwnerMoves

\* No client waits once the connections are closed.
LEMMA AwaitClientsStep ==
  ASSUME IInv, NEW o \in Owners, AwaitClients(o)
  PROVE  IInv'
<1> USE OwnersAssumption
<1>1. TypeOK /\ OwnerInv(o)  BY DEF IInv
<1>2. lease' = lease /\ TypeOK'  BY <1>1 DEF TypeOK, StartPlaces, StopPlaces, Leases, leaseVars, views,
        ownVars, AwaitClients, StopGoto, StopIs
<1>3. \A p \in Owners \ {o} : Same(p)  BY <1>1 DEF TypeOK, Same, leaseVars, ownVars, views, AwaitClients,
        StopGoto, StopIs
<1>4. Believes(o)'  BY <1>1 DEF TypeOK, OwnerInv, Believes, Holds, Running, leaseVars, ownVars, views,
        AwaitClients, StopGoto, StopIs
<1>5. Leased(o)'  BY <1>1 DEF TypeOK, OwnerInv, Leased, leaseVars, ownVars, views, AwaitClients,
        StopGoto, StopIs, Running
<1>6. StopAfterStart(o)'  BY <1>1 DEF TypeOK, OwnerInv, StopAfterStart, leaseVars, ownVars, views,
        AwaitClients, StopGoto, StopIs, Running
<1>7. Closed(o)'  BY <1>1 DEF TypeOK, OwnerInv, Closed, leaseVars, ownVars, views, AwaitClients,
        StopGoto, StopIs, Running
<1>8. Gone(o)'  BY <1>1 DEF TypeOK, OwnerInv, Gone, Running, leaseVars, ownVars, views, AwaitClients,
        StopGoto, StopIs
<1>9. Fenced(o)'  BY <1>1 DEF TypeOK, OwnerInv, Fenced, Gone, Running, leaseVars, ownVars, views,
        AwaitClients, StopGoto, StopIs
<1>10. OwnerInv(o)'  BY <1>4, <1>5, <1>6, <1>7, <1>8, <1>9 DEF OwnerInv
<1> QED  BY <1>2, <1>3, <1>10, OneOwnerMoves

\* Removing the socket touches no owner.
LEMMA RemoveSocketStep ==
  ASSUME IInv, NEW o \in Owners, RemoveSocket(o)
  PROVE  IInv'
<1> USE OwnersAssumption
<1>1. TypeOK /\ OwnerInv(o)  BY DEF IInv
<1>2. lease' = lease /\ TypeOK'  BY <1>1 DEF TypeOK, StartPlaces, StopPlaces, Leases, leaseVars, views,
        ownVars, RemoveSocket, StopGoto, StopIs
<1>3. \A p \in Owners \ {o} : Same(p)  BY <1>1 DEF TypeOK, Same, leaseVars, ownVars, views, RemoveSocket,
        StopGoto, StopIs
<1>4. Believes(o)'  BY <1>1 DEF TypeOK, OwnerInv, Believes, Holds, Running, leaseVars, ownVars, views,
        RemoveSocket, StopGoto, StopIs
<1>5. Leased(o)'  BY <1>1 DEF TypeOK, OwnerInv, Leased, leaseVars, ownVars, views, RemoveSocket,
        StopGoto, StopIs, Running
<1>6. StopAfterStart(o)'  BY <1>1 DEF TypeOK, OwnerInv, StopAfterStart, leaseVars, ownVars, views,
        RemoveSocket, StopGoto, StopIs, Running
<1>7. Closed(o)'  BY <1>1 DEF TypeOK, OwnerInv, Closed, leaseVars, ownVars, views, RemoveSocket,
        StopGoto, StopIs, Running
<1>8. Gone(o)'  BY <1>1 DEF TypeOK, OwnerInv, Gone, Running, leaseVars, ownVars, views, RemoveSocket,
        StopGoto, StopIs
<1>9. Fenced(o)'  BY <1>1 DEF TypeOK, OwnerInv, Fenced, Gone, Running, leaseVars, ownVars, views,
        RemoveSocket, StopGoto, StopIs
<1>10. OwnerInv(o)'  BY <1>4, <1>5, <1>6, <1>7, <1>8, <1>9 DEF OwnerInv
<1> QED  BY <1>2, <1>3, <1>10, OneOwnerMoves

\* No renewal is started after the fence.
LEMMA FenceStep ==
  ASSUME IInv, NEW o \in Owners, Fence(o)
  PROVE  IInv'
<1> USE OwnersAssumption
<1>1. TypeOK /\ OwnerInv(o)  BY DEF IInv
<1>2. lease' = lease /\ TypeOK'  BY <1>1 DEF TypeOK, StartPlaces, StopPlaces, Leases, leaseVars, views,
        ownVars, Fence, StopGoto, StopIs
<1>3. \A p \in Owners \ {o} : Same(p)  BY <1>1 DEF TypeOK, Same, leaseVars, ownVars, views, Fence,
        StopGoto, StopIs
<1>4. Believes(o)'  BY <1>1 DEF TypeOK, OwnerInv, Believes, Holds, Running, leaseVars, ownVars, views,
        Fence, StopGoto, StopIs
<1>5. Leased(o)'  BY <1>1 DEF TypeOK, OwnerInv, Leased, leaseVars, ownVars, views, Fence, StopGoto,
        StopIs, Running
<1>6. StopAfterStart(o)'  BY <1>1 DEF TypeOK, OwnerInv, StopAfterStart, leaseVars, ownVars, views, Fence,
        StopGoto, StopIs, Running
<1>7. Closed(o)'  BY <1>1 DEF TypeOK, OwnerInv, Closed, leaseVars, ownVars, views, Fence, StopGoto,
        StopIs, Running
<1>8. Gone(o)'  BY <1>1 DEF TypeOK, OwnerInv, Gone, Running, leaseVars, ownVars, views, Fence, StopGoto,
        StopIs
<1>9. Fenced(o)'  BY <1>1 DEF TypeOK, OwnerInv, Fenced, Gone, Running, leaseVars, ownVars, views, Fence,
        StopGoto, StopIs
<1>10. OwnerInv(o)'  BY <1>4, <1>5, <1>6, <1>7, <1>8, <1>9 DEF OwnerInv
<1> QED  BY <1>2, <1>3, <1>10, OneOwnerMoves

\* The lease is released only when no renewal is under way.
LEMMA DrainStep ==
  ASSUME IInv, NEW o \in Owners, Drain(o)
  PROVE  IInv'
<1> USE OwnersAssumption
<1>1. TypeOK /\ OwnerInv(o)  BY DEF IInv
<1>2. lease' = lease /\ TypeOK'  BY <1>1 DEF TypeOK, StartPlaces, StopPlaces, Leases, leaseVars, views,
        ownVars, Drain, StopGoto, StopIs
<1>3. \A p \in Owners \ {o} : Same(p)  BY <1>1 DEF TypeOK, Same, leaseVars, ownVars, views, Drain,
        StopGoto, StopIs
<1>4. Believes(o)'  BY <1>1 DEF TypeOK, OwnerInv, Believes, Holds, Running, leaseVars, ownVars, views,
        Drain, StopGoto, StopIs
<1>5. Leased(o)'  BY <1>1 DEF TypeOK, OwnerInv, Leased, leaseVars, ownVars, views, Drain, StopGoto,
        StopIs, Running, StopAfterStart, Closed
<1>6. StopAfterStart(o)'  BY <1>1 DEF TypeOK, OwnerInv, StopAfterStart, leaseVars, ownVars, views, Drain,
        StopGoto, StopIs, Running
<1>7. Closed(o)'  BY <1>1 DEF TypeOK, OwnerInv, Closed, leaseVars, ownVars, views, Drain, StopGoto,
        StopIs, Running, StopAfterStart, Leased
<1>8. Gone(o)'  BY <1>1 DEF TypeOK, OwnerInv, Gone, Running, leaseVars, ownVars, views, Drain, StopGoto,
        StopIs
<1>9. Fenced(o)'  BY <1>1 DEF TypeOK, OwnerInv, Fenced, Gone, Running, leaseVars, ownVars, views, Drain,
        StopGoto, StopIs
<1>10. OwnerInv(o)'  BY <1>4, <1>5, <1>6, <1>7, <1>8, <1>9 DEF OwnerInv
<1> QED  BY <1>2, <1>3, <1>10, OneOwnerMoves

\* A dead process believes nothing.
LEMMA DieStep ==
  ASSUME IInv, NEW o \in Owners, Die(o)
  PROVE  IInv'
<1> USE OwnersAssumption
<1>1. TypeOK /\ OwnerInv(o)  BY DEF IInv
<1>2. lease' = lease /\ TypeOK'  BY <1>1 DEF TypeOK, StartPlaces, StopPlaces, Leases, leaseVars, views,
        ownVars, Die
<1>3. \A p \in Owners \ {o} : Same(p)  BY <1>1 DEF TypeOK, Same, leaseVars, ownVars, views, Die
<1>4. Believes(o)'  BY <1>1 DEF TypeOK, OwnerInv, Believes, Holds, Running, leaseVars, ownVars, views,
        Die, Gone
<1>5. Leased(o)'  BY <1>1 DEF TypeOK, OwnerInv, Leased, leaseVars, ownVars, views, Die, Running, Gone
<1>6. StopAfterStart(o)'  BY <1>1 DEF TypeOK, OwnerInv, StopAfterStart, leaseVars, ownVars, views, Die,
        Running, Gone
<1>7. Closed(o)'  BY <1>1 DEF TypeOK, OwnerInv, Closed, leaseVars, ownVars, views, Die, Running, Gone
<1>8. Gone(o)'  BY <1>1 DEF TypeOK, OwnerInv, Gone, Running, leaseVars, ownVars, views, Die
<1>9. Fenced(o)'  BY <1>1 DEF TypeOK, OwnerInv, Fenced, Gone, Running, leaseVars, ownVars, views, Die
<1>10. OwnerInv(o)'  BY <1>4, <1>5, <1>6, <1>7, <1>8, <1>9 DEF OwnerInv
<1> QED  BY <1>2, <1>3, <1>10, OneOwnerMoves

\* A reused pid belongs to no owner that believes anything.
LEMMA ReusePidStep ==
  ASSUME IInv, NEW o \in Owners, ReusePid(o)
  PROVE  IInv'
<1> USE OwnersAssumption
<1>1. TypeOK /\ OwnerInv(o)  BY DEF IInv
<1>2. lease' = lease /\ TypeOK'  BY <1>1 DEF TypeOK, StartPlaces, StopPlaces, Leases, leaseVars, views,
        ownVars, ReusePid
<1>3. \A p \in Owners \ {o} : Same(p)  BY <1>1 DEF TypeOK, Same, leaseVars, ownVars, views, ReusePid
<1>4. Believes(o)'  BY <1>1 DEF TypeOK, OwnerInv, Believes, Holds, Running, leaseVars, ownVars, views,
        ReusePid, Gone
<1>5. Leased(o)'  BY <1>1 DEF TypeOK, OwnerInv, Leased, leaseVars, ownVars, views, ReusePid, Gone
<1>6. StopAfterStart(o)'  BY <1>1 DEF TypeOK, OwnerInv, StopAfterStart, leaseVars, ownVars, views,
        ReusePid, Gone
<1>7. Closed(o)'  BY <1>1 DEF TypeOK, OwnerInv, Closed, leaseVars, ownVars, views, ReusePid, Gone
<1>8. Gone(o)'  BY <1>1 DEF TypeOK, OwnerInv, Gone, Running, leaseVars, ownVars, views, ReusePid
<1>9. Fenced(o)'  BY <1>1 DEF TypeOK, OwnerInv, Fenced, Gone, Running, leaseVars, ownVars, views,
        ReusePid
<1>10. OwnerInv(o)'  BY <1>4, <1>5, <1>6, <1>7, <1>8, <1>9 DEF OwnerInv
<1> QED  BY <1>2, <1>3, <1>10, OneOwnerMoves

-----------------------------------------------------------------------------
(* The actions on the lease *)

\* Under IInv an owner that believes in its lease loses it only to one that cannot see it,
\* and is then deposed.
LEMMA LostUnseen ==
  ASSUME IInv, NEW p \in Owners, p \notin deposed, leaseHeld[p],
         NEW seen, Dead(lease, seen), Depose(seen)
  PROVE  p \in deposed' /\ p \notin seen
<1>1. Holds(p) /\ proc[p] = "running"  BY DEF IInv, OwnerInv, Believes, Running
<1> QED  BY <1>1 DEF Holds, Dead, Depose

\* Under IInv the lease that may be acquired is believed in by nobody who is not deposed then.
LEMMA AcquiredUnseen ==
  ASSUME IInv, NEW o \in Owners, Acquire(o), NEW p \in Owners, p # o, p \notin deposed, leaseHeld[p]
  PROVE  p \in deposed' /\ p \notin Beside(o)
<1>1. Holds(p)  BY DEF IInv, OwnerInv, Believes
<1>2. Dead(lease, Beside(o))  BY <1>1 DEF Acquire, MayAcquire, Holds
<1>3. Depose(Beside(o))  BY DEF Acquire
<1> QED  BY <1>2, <1>3, LostUnseen

\* acquireLease takes the lease from nobody who believes in it and is seen.
LEMMA AcquireStep ==
  ASSUME IInv, NEW o \in Owners, Acquire(o)
  PROVE  IInv'
<1> USE OwnersAssumption
<1>1. TypeOK /\ OwnerInv(o)  BY DEF IInv
<1>2. NextEpoch(o) \in Nat  BY <1>1 DEF TypeOK, Leases, NextEpoch, Holds
<1>3. TypeOK'
  <2>1. deposed' \subseteq Owners  BY <1>1 DEF TypeOK, Acquire, Depose
  <2> QED  BY <1>1, <1>2, <2>1, Zenon DEF TypeOK, StartPlaces, StopPlaces, Leases, Acquire, Goto, StartIs
<1>4. \A p \in Owners \ {o} : Same(p)  BY <1>1 DEF TypeOK, Same, Acquire, Goto, Depose
<1>5. \A p \in Owners \ {o} : p \notin deposed' => ~leaseHeld[p]
  BY <1>4, AcquiredUnseen DEF Same
<1>6. Holds(o)'  BY <1>2 DEF Holds, Acquire
<1>7. Believes(o)'  BY <1>1, <1>6 DEF Believes, Running, Acquire, StartIs
<1>8. leaseHeld'[o] /\ pc'[o] = "rmStale" /\ down'[o] = down[o] /\ renewals'[o] = renewals[o]
      /\ handler'[o] = handler[o] /\ listening'[o] = listening[o] /\ transport'[o] = transport[o]
  BY <1>1 DEF TypeOK, Acquire, Goto, StartIs
<1>9. Fenced(o) /\ Closed(o) /\ pc[o] = "acquire" /\ deposed \subseteq deposed'
  BY Zenon, <1>1 DEF OwnerInv, Acquire, StartIs, Depose
<1>10. down[o] = "up" /\ renewals[o] = 0  BY <1>9 DEF Fenced
<1>11. Leased(o)' /\ StopAfterStart(o)' /\ Closed(o)'
  <2>1. Leased(o)'  BY Zenon, <1>8, <1>10 DEF Leased
  <2>2. StopAfterStart(o)'  BY Zenon, <1>8, <1>10 DEF StopAfterStart
  <2>3. Closed(o)'  BY Zenon, <1>8, <1>9, <1>10 DEF Closed
  <2> QED  BY <2>1, <2>2, <2>3
<1>12. Fenced(o)'  BY Zenon, <1>8, <1>10 DEF Fenced
<1>13. Gone(o)'  BY Zenon DEF Gone, Running, Acquire, StartIs
<1>14. OwnerInv(o)'  BY <1>7, <1>11, <1>12, <1>13 DEF OwnerInv
<1>15. \A p \in Owners \ {o} : OwnerInv(p)'  BY <1>4, <1>5, Frame DEF IInv
<1> QED  BY <1>3, <1>14, <1>15 DEF IInv

\* A renewal of an owner that was not deposed belongs to the holder: it extends the lease
\* and stops nobody.  One of a deposed owner finds that the lease is gone.
LEMMA RenewStep ==
  ASSUME IInv, NEW o \in Owners, Renew(o)
  PROVE  IInv'
<1>1. TypeOK /\ OwnerInv(o)  BY DEF IInv
<1>2. o \notin deposed => leaseHeld[o] /\ Holds(o)
  <2>1. Leased(o) /\ Believes(o) /\ renewals[o] > 0  BY <1>1 DEF OwnerInv, Renew
  <2> QED  BY <2>1 DEF Leased, Believes
<1>3. lease' = lease /\ proc' = proc /\ pc' = pc /\ transport' = transport
      /\ listening' = listening /\ leaseHeld' = leaseHeld /\ timer' = timer /\ handler' = handler
      /\ socket' = socket /\ gc' = gc /\ blind' = blind /\ deposed' = deposed /\ expired' \in BOOLEAN
      /\ (o \notin deposed => down' = down)
  <2>1. expired' \in BOOLEAN  BY Zenon DEF Renew
  <2>2. o \notin deposed => down' = down  BY <1>2 DEF Renew
  <2> QED  BY <2>1, <2>2, Zenon DEF Renew, views
<1>4. renewals' \in [Owners -> 0..MaxRenewals] /\ renewals'[o] = renewals[o] - 1 /\ renewals[o] > 0
  BY <1>1, OwnersAssumption DEF TypeOK, Renew
<1>5. down' \in [Owners -> StopPlaces] /\ (down'[o] = down[o] \/ down'[o] = "closeTransport")
  BY <1>1 DEF TypeOK, Renew, CallStop, StopPlaces
<1>6. TypeOK'  BY <1>1, <1>3, <1>4, <1>5 DEF TypeOK
<1>7. \A p \in Owners \ {o} : Same(p)  BY <1>1, <1>3 DEF TypeOK, Same, Renew, CallStop
<1>8. renewals[o] \in Nat  BY <1>1, OwnersAssumption DEF TypeOK
<1>9. Running(o) /\ pc[o] \notin {"off", "acquire"}
  <2>1. Gone(o) /\ Fenced(o)  BY <1>1 DEF OwnerInv
  <2>2. renewals[o] # 0  BY <1>4, <1>8
  <2> QED  BY <2>1, <2>2, Zenon DEF Gone, Fenced
<1>10. Believes(o)'  BY Zenon, <1>1, <1>3 DEF OwnerInv, Believes, Holds, Running
<1>11. Leased(o)'  BY Zenon, <1>1, <1>2, <1>3, <1>9 DEF OwnerInv, Leased
<1>12. StopAfterStart(o)'  BY <1>1, <1>3 DEF OwnerInv, StopAfterStart
<1>13. Closed(o)'  BY <1>1, <1>3 DEF OwnerInv, Closed
<1>14. Fenced(o)'  BY <1>1, <1>3, <1>4, <1>5, <1>8, <1>9 DEF OwnerInv, Fenced
<1>15. Gone(o)'  BY <1>3, <1>9 DEF Gone, Running
<1>16. OwnerInv(o)'  BY <1>10, <1>11, <1>12, <1>13, <1>14, <1>15 DEF OwnerInv
<1> QED  BY <1>3, <1>6, <1>7, <1>16, OneOwnerMoves

\* releaseLease removes the lease of its caller, and no other.
LEMMA ReleaseStep ==
  ASSUME IInv, NEW o \in Owners, Release(o)
  PROVE  IInv'
<1>1. TypeOK /\ OwnerInv(o) /\ Running(o)  BY DEF IInv, Release, StopIs
<1>2. TypeOK'  BY <1>1 DEF TypeOK, StopPlaces, Release, StopGoto, views
<1>3. \A p \in Owners \ {o} : Same(p)  BY <1>1 DEF TypeOK, Same, Release, StopGoto, views
<1>4. \A p \in Owners \ {o} : leaseHeld[p] /\ p \notin deposed' => Holds(p)'
  BY <1>3 DEF Same, IInv, OwnerInv, Believes, Holds, Release
<1>5. ~leaseHeld'[o] /\ down'[o] = "stopped" /\ down[o] = "release" /\ pc'[o] = pc[o]
      /\ transport'[o] = transport[o] /\ listening'[o] = listening[o] /\ timer'[o] = timer[o]
      /\ renewals'[o] = renewals[o] /\ handler'[o] = handler[o] /\ proc'[o] = proc[o]
      /\ deposed' = deposed
  BY <1>1 DEF TypeOK, Release, StopGoto, StopIs, views
<1>6. Closed(o) /\ Fenced(o)  BY <1>1 DEF OwnerInv
<1>7. Believes(o)'  BY <1>5 DEF Believes
<1>8. o \notin deposed => pc[o] \notin {"off", "acquire", "rmStale", "bind", "announce"}
  BY <1>1, <1>5 DEF OwnerInv, StopAfterStart
<1>9. Leased(o)'  BY Zenon, <1>5, <1>6 DEF Leased, Closed, Fenced
<1>10. StopAfterStart(o)'  BY <1>5, <1>8 DEF StopAfterStart
<1>11. Closed(o)'  BY <1>5, <1>6 DEF Closed
<1>12. Fenced(o)'  BY <1>5, <1>6 DEF Fenced
<1>13. Gone(o)'  BY <1>1, <1>5 DEF Gone, Running
<1>14. OwnerInv(o)'  BY <1>7, <1>9, <1>10, <1>11, <1>12, <1>13 DEF OwnerInv
<1>15. \A p \in Owners \ {o} : OwnerInv(p)'  BY <1>3, <1>4, Frame DEF IInv
<1> QED  BY <1>2, <1>14, <1>15 DEF IInv

\* An action that leaves every owner alone preserves IInv if it spares the believed lease.
LEMMA NoOwnerMoves ==
  ASSUME IInv, TypeOK',
         \A p \in Owners : Same(p) /\ (leaseHeld[p] /\ p \notin deposed' => lease' = lease)
  PROVE  IInv'
<1> SUFFICES ASSUME NEW p \in Owners  PROVE OwnerInv(p)'  BY DEF IInv
<1>1. OwnerInv(p) /\ Same(p)  BY DEF IInv
<1>2. leaseHeld[p] /\ p \notin deposed' => Holds(p)'  BY Zenon, <1>1 DEF OwnerInv, Believes, Holds, Same
<1> QED  BY <1>1, <1>2, Frame

\* The ttl runs out, a collector looks or reaps: no believed lease is lost.
LEMMA WorldStep ==
  ASSUME IInv, Expire \/ GcLook \/ GcReap
  PROVE  IInv'
<1>1. TypeOK  BY DEF IInv
<1>2. CASE Expire
  <2>1. TypeOK'  BY <1>1, <1>2 DEF TypeOK, Expire, ownVars, views
  <2>2. \A p \in Owners : Same(p) /\ lease' = lease  BY Zenon, <1>2 DEF Same, Expire, ownVars, views
  <2> QED  BY <2>1, <2>2, NoOwnerMoves
<1>3. CASE GcLook
  <2>1. gc' \in [lease : Leases, seen : SUBSET Owners]
    BY <1>1, <1>3, OwnersAssumption DEF TypeOK, GcLook, BesideGc, Dead
  <2>2. TypeOK'  BY <1>1, <1>3, <2>1 DEF TypeOK, GcLook, ownVars, leaseVars, views
  <2>3. \A p \in Owners : Same(p) /\ lease' = lease
    BY Zenon, <1>3 DEF Same, GcLook, ownVars, leaseVars, views
  <2> QED  BY <2>2, <2>3, NoOwnerMoves
<1>4. CASE GcReap
  <2>1. deposed \subseteq deposed' /\ deposed' \subseteq Owners
    BY <1>1, <1>4 DEF TypeOK, GcReap, Depose
  <2>2. TypeOK'  BY <1>1, <1>4, <2>1, Zenon DEF TypeOK, GcReap, ownVars, leaseVars
  <2>3. \A p \in Owners : Same(p)  BY <1>4, <2>1 DEF Same, GcReap, ownVars
  <2>4. \A p \in Owners : leaseHeld[p] /\ p \notin deposed' => lease' = lease
    BY <1>4, <2>1, LostUnseen DEF GcReap, leaseVars
  <2> QED  BY <2>2, <2>3, <2>4, NoOwnerMoves
<1> QED  BY <1>2, <1>3, <1>4

-----------------------------------------------------------------------------
(* The theorems *)

\* Nothing is held, open or under way at the start.
LEMMA InitIInv == Init => IInv
<1> SUFFICES ASSUME Init PROVE IInv  OBVIOUS
<1>1. 0 \in 0..MaxRenewals  BY OwnersAssumption
<1>2. TypeOK  BY <1>1, Zenon DEF Init, TypeOK, StartPlaces, StopPlaces
<1>3. ASSUME NEW o \in Owners  PROVE OwnerInv(o)
  BY DEF Init, OwnerInv, Believes, Leased, StopAfterStart, Closed, Fenced, Gone, Running
<1> QED  BY <1>2, <1>3 DEF IInv

\* Every step of every owner, of the clock and of the collector preserves IInv.
LEMMA NextIInv ==
  ASSUME IInv, [Next]_vars
  PROVE  IInv'
<1>1. CASE UNCHANGED vars
  <2>1. TypeOK' /\ lease' = lease  BY <1>1 DEF IInv, TypeOK, vars
  <2>2. \A p \in Owners : Same(p)  BY Zenon, <1>1 DEF Same, vars
  <2> QED  BY <2>1, <2>2, NoOwnerMoves
<1>2. ASSUME NEW o \in Owners, Start(o) \/ StartFails(o)  PROVE IInv'
  BY <1>2, SpawnStep, AcquireStep, LeaseRefusedStep, RemoveStaleSocketStep, BindStep,
     AnnounceStep, StartFailsStep DEF Start
<1>3. ASSUME NEW o \in Owners, Stop(o) \/ PollFindsNoOwner(o) \/ BeginStop(o)  PROVE IInv'
  BY <1>3, CloseTransportStep, StopListeningStep, AwaitClientsStep, RemoveSocketStep, FenceStep,
     DrainStep, ReleaseStep, PollFindsNoOwnerStep, BeginStopStep DEF Stop
<1>4. ASSUME NEW o \in Owners,
             HeartbeatTick(o) \/ Renew(o) \/ Request(o) \/ Respond(o) \/ Die(o) \/ ReusePid(o)
      PROVE  IInv'
  BY <1>4, HeartbeatTickStep, RenewStep, RequestStep, RespondStep, DieStep, ReusePidStep
<1> QED  BY <1>1, <1>2, <1>3, <1>4, WorldStep DEF Next

\* IInv holds throughout, for any number of owners, whether or not they see each other.
THEOREM Invariance == Spec => []IInv
<1>1. IInv /\ [Next]_vars => IInv'  BY NextIInv
<1> QED  BY InitIInv, <1>1, PTL DEF Spec

\* The variables keep their types.
THEOREM TypeCorrect == Spec => []TypeOK
<1>1. IInv => TypeOK  BY DEF IInv
<1> QED  BY Invariance, <1>1, PTL

\* "Exactly one live RuntimeOwner holds the lease."
THEOREM OneHolder == Spec => []HolderKeepsLease
<1>1. IInv => HolderKeepsLease  BY DEF IInv, OwnerInv, Believes, HolderKeepsLease
<1> QED  BY Invariance, <1>1, PTL

\* The lease outlives the transport, the endpoint and every waiting client of a started owner.
THEOREM LeaseOutlivesAuthority == Spec => []AuthorityIsLeased
<1>1. IInv => AuthorityIsLeased
  BY DEF IInv, OwnerInv, Believes, Leased, Closed, AuthorityIsLeased
<1> QED  BY Invariance, <1>1, PTL

\* No renewal is under way, and none will be, when the lease is released.
THEOREM HeartbeatIsFenced == Spec => []NoRenewalBesideRelease
<1>1. IInv => NoRenewalBesideRelease
  <2> SUFFICES ASSUME IInv, NEW o \in Owners, down[o] \in {"release", "stopped"}
               PROVE  renewals[o] = 0 /\ ~timer[o]
    BY DEF NoRenewalBesideRelease
  <2>1. renewals[o] \in Nat  BY OwnersAssumption DEF IInv, TypeOK
  <2> QED  BY <2>1 DEF IInv, OwnerInv, Fenced
<1> QED  BY Invariance, <1>1, PTL

\* A client that finds a listening owner at the socket has found the lease holder.
THEOREM SocketOfHolder == Spec => []SocketLeadsToHolder
<1>1. IInv => SocketLeadsToHolder
  BY Zenon DEF IInv, OwnerInv, Believes, Leased, SocketLeadsToHolder
<1> QED  BY Invariance, <1>1, PTL

-----------------------------------------------------------------------------
(* The refinement *)

Holders == {o \in Owners \ deposed : leaseHeld[o]}

\* Under IInv lease.json names every holder, so there is at most one.
LEMMA AtMostOneHolder ==
  ASSUME IInv, NEW o \in Holders, NEW p \in Holders
  PROVE  o = p
BY Zenon DEF IInv, OwnerInv, Believes, Holds, Holders

\* Only acquireLease makes a holder, and only where it sees none; every other step leaves
\* the holders alone, or the one there is stops, dies or is deposed.
LEMMA StepRefines ==
  ASSUME IInv, IInv', [Next]_vars
  PROVE  /\ blind' = blind
         /\ \/ Holders' = Holders \/ Holders' = {}
            \/ \E o \in Owners : Holders \subseteq Single!Unseen(o) /\ Holders' = {o}
<1>1. /\ blind' = blind
      /\ \/ leaseHeld' = leaseHeld /\ deposed' = deposed
         \/ GcReap \/ \E o \in Owners : Acquire(o) \/ Release(o) \/ Die(o)
  BY Zenon DEF Next, vars, views, Start, Stop, ownVars, Spawn, LeaseRefused, StartFails, FailStart,
     RemoveStaleSocket, Bind, Announce, HeartbeatTick, Renew, Request, Respond,
     PollFindsNoOwner, BeginStop, CloseTransport, StopListening, AwaitClients, RemoveSocket,
     Fence, Drain, Acquire, Release, Die, ReusePid, Expire, GcLook, GcReap
<1>2. CASE leaseHeld' = leaseHeld /\ deposed' = deposed  BY <1>1, <1>2 DEF Holders
<1>3. CASE GcReap
  <2>1. leaseHeld' = leaseHeld /\ deposed \subseteq deposed'
    BY Zenon, <1>3 DEF GcReap, ownVars, Depose
  <2>2. Holders' \subseteq Holders  BY <2>1 DEF Holders
  <2>3. Holders' = Holders \/ Holders' = {}  BY <2>2, AtMostOneHolder
  <2> QED  BY <1>1, <2>3
<1>4. ASSUME NEW o \in Owners, Acquire(o)
      PROVE  Holders \subseteq Single!Unseen(o) /\ (Holders' = {} \/ Holders' = {o})
  <2>1. \A p \in Owners \ {o} : leaseHeld[p] /\ p \notin deposed => p \in deposed' /\ p \notin Beside(o)
    BY <1>4, AcquiredUnseen
  <2>2. leaseHeld' = [leaseHeld EXCEPT ![o] = TRUE] /\ leaseHeld \in [Owners -> BOOLEAN]
        /\ deposed \subseteq deposed'
    BY Zenon, <1>4 DEF Acquire, IInv, TypeOK, Depose
  <2>3. o \notin Holders  BY Zenon, <1>4 DEF IInv, OwnerInv, Leased, Acquire, StartIs, Holders
  <2>4. Holders \subseteq Single!Unseen(o)  BY <2>1, <2>3 DEF Holders, Beside, Single!Unseen
  <2>5. Holders' \subseteq {o}  BY <2>1, <2>2 DEF Holders
  <2> QED  BY <2>4, <2>5
<1>5. ASSUME NEW o \in Owners, Release(o) \/ Die(o)  PROVE Holders' = Holders \/ Holders' = {}
  <2>1. leaseHeld' = [leaseHeld EXCEPT ![o] = FALSE] /\ leaseHeld \in [Owners -> BOOLEAN]
    BY Zenon, <1>5 DEF Release, Die, IInv, TypeOK
  <2>2. deposed' \ {o} = deposed \ {o}  BY <1>5 DEF Release, Die, views
  <2>3. Holders' = Holders \ {o}  BY <2>1, <2>2 DEF Holders
  <2>4. CASE o \in Holders
    <3>1. Holders = {o}  BY <2>4, AtMostOneHolder
    <3> QED  BY <2>3, <3>1
  <2>5. CASE o \notin Holders  BY <2>3, <2>5
  <2> QED  BY <2>4, <2>5
<1> QED  BY <1>1, <1>2, <1>3, <1>4, <1>5

\* The owners, however many, implement SingleOwner.
THEOREM Refinement == Spec => ImplementsSingleOwner
<1>1. Init => Single!Init  BY OwnersAssumption DEF Init, Single!Init
<1>2. IInv /\ IInv' /\ [Next]_vars => [Single!Next]_<<Holders, blind>>
  BY StepRefines DEF Holders, Single!Next, Single!GiveUp, Single!Take
<1>3. Init /\ [][Next]_vars /\ []IInv => Single!Init /\ [][Single!Next]_<<Holders, blind>>
  BY <1>1, <1>2, PTL
<1> QED  BY <1>3, Invariance, PTL DEF Spec, ImplementsSingleOwner, Single!Spec, Holders
=============================================================================
