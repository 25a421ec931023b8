---------------------------- MODULE RuntimeOwner ----------------------------
(* The runtime owners of one harness session: the lease that makes one of    *)
(* them the owner (harness-control-plane/session-lease.ts), their start,     *)
(* heartbeat and teardown (owner.ts), the control socket they serve          *)
(* (control-endpoint.ts), the process around them (#runOwner in              *)
(* commands/harness.ts) and the collector of dead leases (gc-adapter.ts).    *)
(* Every mutation of lease.json runs under withFileLock and is one action.   *)
EXTENDS Naturals, FiniteSets

CONSTANTS
  Owners,       \* RuntimeOwner objects; each has an ownerId and a process of its own
  Blind,        \* owners that may run in another pid namespace than the rest
  GcInside,     \* whether collectors run in that other pid namespace too
  MaxRenewals,  \* bound: renewals of one owner under way at once
  NoLease,      \* lease.json is absent
  NoSocket      \* nothing at controlSocketPath

ASSUME OwnersAssumption ==
  /\ Blind \subseteq Owners
  /\ GcInside \in BOOLEAN
  /\ MaxRenewals \in Nat \ {0}
  /\ NoSocket \notin Owners
  /\ NoLease \notin [owner : Owners, epoch : Nat]

VARIABLES
  lease,      \* lease.json: its ownerId and leaseEpoch
  expired,    \* expiresAt has passed
  socket,     \* the owner that bound the file at controlSocketPath
  proc,       \* what the operating system knows of an owner's pid
  pc,         \* where start() stands
  down,       \* where stop() stands; it may run beside start()
  transport,  \* the transport, and with it the spawned session, is open
  listening,  \* the control server accepts connections
  leaseHeld,  \* #leaseHeld
  timer,      \* #heartbeatTimer is set and not fenced
  renewals,   \* #heartbeatInFlight
  handler,    \* the client of a request waits for its answer
  gc,         \* the dead lease a collector has seen, and whom it can see
  blind,      \* owners in another pid namespace: kill(pid, 0) across finds nothing
  deposed     \* history: owners whose lease went, while they ran, to one that could not see them

leaseVars == <<lease, expired>>
ownVars == <<transport, listening, leaseHeld, timer, renewals>>
views == <<blind, deposed>>
vars == <<lease, expired, socket, proc, pc, down, transport, listening, leaseHeld, timer,
          renewals, handler, gc, blind, deposed>>

Leases == [owner : Owners, epoch : Nat]
StartPlaces == {"off", "acquire", "rmStale", "bind", "announce", "started", "failed", "dead"}
StopPlaces == {"up", "closeTransport", "closeServer", "awaitClients", "rmSocket", "fence", "drain",
               "release", "stopped"}

TypeOK ==
  /\ lease \in Leases \cup {NoLease} /\ expired \in BOOLEAN
  /\ socket \in Owners \cup {NoSocket}
  /\ proc \in [Owners -> {"running", "dead", "reused"}]
  /\ pc \in [Owners -> StartPlaces] /\ down \in [Owners -> StopPlaces]
  /\ transport \in [Owners -> BOOLEAN] /\ listening \in [Owners -> BOOLEAN]
  /\ leaseHeld \in [Owners -> BOOLEAN] /\ timer \in [Owners -> BOOLEAN]
  /\ renewals \in [Owners -> 0..MaxRenewals]
  /\ handler \in [Owners -> {"none", "waiting"}]
  /\ gc \in [lease : Leases, seen : SUBSET Owners] \cup {NoLease}
  /\ blind \subseteq Blind /\ deposed \subseteq Owners

Init ==
  /\ lease = NoLease /\ expired = FALSE /\ socket = NoSocket /\ gc = NoLease
  /\ proc = [o \in Owners |-> "running"]
  /\ pc = [o \in Owners |-> "off"] /\ down = [o \in Owners |-> "up"]
  /\ transport = [o \in Owners |-> FALSE]
  /\ listening = [o \in Owners |-> FALSE] /\ leaseHeld = [o \in Owners |-> FALSE]
  /\ timer = [o \in Owners |-> FALSE] /\ renewals = [o \in Owners |-> 0]
  /\ handler = [o \in Owners |-> "none"]
  /\ blind \in SUBSET Blind /\ deposed = {}

-----------------------------------------------------------------------------
(* session-lease.ts *)

Holds(o) == lease # NoLease /\ lease.owner = o

\* The owners whose pids a process can probe are those of its own pid namespace.
BesideGc == {Owners \ blind} \cup (IF GcInside THEN {blind} ELSE {})
Beside(o) == IF o \in blind THEN blind ELSE Owners \ blind

\* classifyLeaseStatus, called by one that can probe the pids of seen, finds l "dead".
Dead(l, seen) == l # NoLease /\ (proc[l.owner] = "dead" \/ l.owner \notin seen)

\* Mutant of MayAcquire: an expired lease may be taken over although its owner lives.
MayAcquireExpired(o) == lease = NoLease \/ Holds(o) \/ Dead(lease, Beside(o)) \/ expired

\* acquireLease: another owner's lease is taken over only when its process is not found.
MayAcquire(o) == lease = NoLease \/ Holds(o) \/ Dead(lease, Beside(o))

\* History: the lease goes to, or is removed by, one that can probe the pids of seen only.
Depose(seen) == deposed' = deposed \cup {o \in Owners \ seen : Holds(o) /\ proc[o] = "running"}

\* leaseEpoch counts takeovers; it starts over when lease.json is absent.
NextEpoch(o) ==
  IF lease = NoLease THEN 1 ELSE IF lease.owner = o THEN lease.epoch ELSE lease.epoch + 1

-----------------------------------------------------------------------------
(* RuntimeOwner.start *)

Running(o) == proc[o] = "running"
StartIs(o, place) == Running(o) /\ pc[o] = place
StopIs(o, place) == Running(o) /\ down[o] = place
Goto(o, place) == pc' = [pc EXCEPT ![o] = place] /\ UNCHANGED down
StopGoto(o, place) == down' = [down EXCEPT ![o] = place] /\ UNCHANGED pc

\* stop(): the first call starts the teardown, later ones join it.
CallStop(o) == down' = [down EXCEPT ![o] = IF @ = "up" THEN "closeTransport" ELSE @]

\* #runOwner opens the transport, which spawns the session, and calls start().
Spawn(o) ==
  /\ StartIs(o, "off")
  /\ transport' = [transport EXCEPT ![o] = TRUE]
  /\ Goto(o, "acquire")
  /\ UNCHANGED <<leaseVars, socket, proc, listening, leaseHeld, timer, renewals, handler, gc, views>>

\* start() throws: its catch clause runs the whole teardown.
FailStart(o) ==
  /\ pc' = [pc EXCEPT ![o] = "failed"] /\ CallStop(o)
  /\ UNCHANGED <<leaseVars, socket, proc, ownVars, handler, gc, views>>

\* The lock times out, the socket cannot be bound, or an event cannot be written.
StartFails(o) == (StartIs(o, "acquire") \/ StartIs(o, "bind") \/ StartIs(o, "announce")) /\ FailStart(o)

\* acquireLease throws lease_held.
LeaseRefused(o) == StartIs(o, "acquire") /\ ~MayAcquire(o) /\ FailStart(o)

\* acquireLease succeeds and the heartbeat interval is set.
Acquire(o) ==
  /\ StartIs(o, "acquire") /\ MayAcquire(o)
  /\ lease' = [owner |-> o, epoch |-> NextEpoch(o)] /\ expired' = FALSE
  /\ leaseHeld' = [leaseHeld EXCEPT ![o] = TRUE]
  /\ timer' = [timer EXCEPT ![o] = TRUE]
  /\ Goto(o, "rmStale") /\ Depose(Beside(o))
  /\ UNCHANGED <<socket, proc, transport, listening, renewals, handler, gc, blind>>

\* ControlServer.listen removes whatever is at the path ...
RemoveStaleSocket(o) ==
  /\ StartIs(o, "rmStale")
  /\ socket' = NoSocket
  /\ Goto(o, "bind")
  /\ UNCHANGED <<leaseVars, proc, ownVars, handler, gc, views>>

\* ... and binds it.
Bind(o) ==
  /\ StartIs(o, "bind") /\ socket = NoSocket
  /\ socket' = o
  /\ listening' = [listening EXCEPT ![o] = TRUE]
  /\ Goto(o, "announce")
  /\ UNCHANGED <<leaseVars, proc, transport, leaseHeld, timer, renewals, handler, gc, views>>

\* owner_started is appended to the event log and start() returns.
Announce(o) ==
  /\ StartIs(o, "announce")
  /\ Goto(o, "started")
  /\ UNCHANGED <<leaseVars, socket, proc, ownVars, handler, gc, views>>

-----------------------------------------------------------------------------
(* The heartbeat *)

\* The interval fires; it does not wait for the renewals it has started before.
HeartbeatTick(o) ==
  /\ timer[o] /\ renewals[o] < MaxRenewals
  /\ renewals' = [renewals EXCEPT ![o] = @ + 1]
  /\ UNCHANGED <<leaseVars, socket, proc, pc, down, transport, listening, leaseHeld, timer, handler, gc, views>>

\* heartbeat() under the lock extends the lease of its owner only; not_lease_holder
\* stops the owner, no_lease is swallowed.
Renew(o) ==
  /\ renewals[o] > 0
  /\ renewals' = [renewals EXCEPT ![o] = @ - 1]
  /\ expired' = (expired /\ ~Holds(o))
  /\ IF lease # NoLease /\ ~Holds(o) THEN CallStop(o) ELSE UNCHANGED down
  /\ UNCHANGED <<lease, socket, proc, pc, transport, listening, leaseHeld, timer, handler, gc, views>>

-----------------------------------------------------------------------------
(* Requests *)

\* A client connects to the socket and #handle starts.
Request(o) ==
  /\ listening[o] /\ socket = o /\ handler[o] = "none"
  /\ handler' = [handler EXCEPT ![o] = "waiting"]
  /\ UNCHANGED <<leaseVars, socket, proc, pc, down, ownVars, gc, views>>

\* The handler returns and the connection closes; or callEndpoint times out after 5 s and
\* destroys its connection, and the handler goes on with nobody waiting for it.
Respond(o) ==
  /\ handler[o] = "waiting"
  /\ handler' = [handler EXCEPT ![o] = "none"]
  /\ UNCHANGED <<leaseVars, socket, proc, pc, down, ownVars, gc, views>>

-----------------------------------------------------------------------------
(* RuntimeOwner.stop: a stage that fails is retried until it is verified *)

\* Mutant of PollFindsNoOwner: an absent lease is taken for one that is being renewed.
PollFindsDeadOwner(o) ==
  /\ StartIs(o, "started") /\ StopIs(o, "up")
  /\ Dead(lease, Beside(o)) /\ ~Holds(o)
  /\ CallStop(o)
  /\ UNCHANGED <<leaseVars, socket, proc, pc, ownVars, handler, gc, views>>

\* #runOwner asks resolveOwner every 500 ms and finds no live owner.
PollFindsNoOwner(o) ==
  /\ StartIs(o, "started") /\ StopIs(o, "up")
  /\ lease = NoLease \/ (Dead(lease, Beside(o)) /\ ~Holds(o))
  /\ CallStop(o)
  /\ UNCHANGED <<leaseVars, socket, proc, pc, ownVars, handler, gc, views>>

\* SIGTERM, SIGINT or a retire request.
BeginStop(o) ==
  /\ StartIs(o, "started") /\ StopIs(o, "up")
  /\ CallStop(o)
  /\ UNCHANGED <<leaseVars, socket, proc, pc, ownVars, handler, gc, views>>

\* Mutant of CloseTransport: the lease is given up before the endpoint is closed.
CloseTransportOnly(o) ==
  /\ StopIs(o, "closeTransport")
  /\ transport' = [transport EXCEPT ![o] = FALSE]
  /\ StopGoto(o, "fence")
  /\ UNCHANGED <<leaseVars, socket, proc, listening, leaseHeld, timer, renewals, handler, gc, views>>

CloseTransport(o) ==
  /\ StopIs(o, "closeTransport")
  /\ transport' = [transport EXCEPT ![o] = FALSE]
  /\ StopGoto(o, "closeServer")
  /\ UNCHANGED <<leaseVars, socket, proc, listening, leaseHeld, timer, renewals, handler, gc, views>>

\* ControlServer.close: no further connections, the open ones are waited for, if the
\* server has got as far as listening ...
StopListening(o) ==
  /\ StopIs(o, "closeServer")
  /\ listening' = [listening EXCEPT ![o] = FALSE]
  /\ StopGoto(o, IF listening[o] THEN "awaitClients" ELSE "rmSocket")
  /\ UNCHANGED <<leaseVars, socket, proc, transport, leaseHeld, timer, renewals, handler, gc, views>>

\* Mutant of AwaitClients: the open connections are not waited for.
AwaitNobody(o) ==
  /\ StopIs(o, "awaitClients")
  /\ StopGoto(o, "rmSocket")
  /\ UNCHANGED <<leaseVars, socket, proc, ownVars, handler, gc, views>>

AwaitClients(o) ==
  /\ StopIs(o, "awaitClients") /\ handler[o] = "none"
  /\ StopGoto(o, "rmSocket")
  /\ UNCHANGED <<leaseVars, socket, proc, ownVars, handler, gc, views>>

\* ... and the path is removed, whoever bound it.
RemoveSocket(o) ==
  /\ StopIs(o, "rmSocket")
  /\ socket' = NoSocket
  /\ StopGoto(o, "fence")
  /\ UNCHANGED <<leaseVars, proc, ownVars, handler, gc, views>>

\* Mutant of Fence: the interval is cleared only after the release.
FenceForgotten(o) ==
  /\ StopIs(o, "fence")
  /\ StopGoto(o, "drain")
  /\ UNCHANGED <<leaseVars, socket, proc, ownVars, handler, gc, views>>

\* #fenceHeartbeat clears the interval for good ...
Fence(o) ==
  /\ StopIs(o, "fence")
  /\ timer' = [timer EXCEPT ![o] = FALSE]
  /\ StopGoto(o, "drain")
  /\ UNCHANGED <<leaseVars, socket, proc, transport, listening, leaseHeld, renewals, handler, gc, views>>

\* Mutant of Drain: renewals under way are not waited for.
DrainNothing(o) ==
  /\ StopIs(o, "drain")
  /\ StopGoto(o, IF leaseHeld[o] THEN "release" ELSE "stopped")
  /\ UNCHANGED <<leaseVars, socket, proc, ownVars, handler, gc, views>>

\* ... and waits for every renewal under way.
Drain(o) ==
  /\ StopIs(o, "drain") /\ renewals[o] = 0
  /\ StopGoto(o, IF leaseHeld[o] THEN "release" ELSE "stopped")
  /\ UNCHANGED <<leaseVars, socket, proc, ownVars, handler, gc, views>>

\* releaseLease; not_lease_holder means that a successor has the lease.
Release(o) ==
  /\ StopIs(o, "release")
  /\ lease' = IF Holds(o) THEN NoLease ELSE lease
  /\ expired' = (expired /\ ~Holds(o))
  /\ leaseHeld' = [leaseHeld EXCEPT ![o] = FALSE]
  /\ StopGoto(o, "stopped")
  /\ UNCHANGED <<socket, proc, transport, listening, timer, renewals, handler, gc, views>>

-----------------------------------------------------------------------------
(* The world around *)

\* The process dies, at any point; a stopped owner's process exits.
Die(o) ==
  /\ Running(o) /\ pc[o] # "off"
  /\ pc' = [pc EXCEPT ![o] = "dead"]
  /\ down' = [down EXCEPT ![o] = "up"]
  /\ proc' = [proc EXCEPT ![o] = "dead"]
  /\ transport' = [transport EXCEPT ![o] = FALSE]
  /\ listening' = [listening EXCEPT ![o] = FALSE]
  /\ leaseHeld' = [leaseHeld EXCEPT ![o] = FALSE]
  /\ timer' = [timer EXCEPT ![o] = FALSE]
  /\ renewals' = [renewals EXCEPT ![o] = 0]
  /\ handler' = [handler EXCEPT ![o] = "none"]
  /\ deposed' = deposed \ {o}
  /\ UNCHANGED <<leaseVars, socket, gc, blind>>

ReusePid(o) ==
  /\ proc[o] = "dead"
  /\ proc' = [proc EXCEPT ![o] = "reused"]
  /\ UNCHANGED <<leaseVars, socket, pc, down, ownVars, handler, gc, views>>

\* The ttl runs out: the owner is suspended, or starved of the lock.
Expire ==
  /\ lease # NoLease /\ ~expired
  /\ expired' = TRUE
  /\ UNCHANGED <<lease, socket, proc, pc, down, ownVars, handler, gc, views>>

\* harnessLeasesGcAdapter.prune, in its namespace, reads the lease and judges it ...
GcLook ==
  /\ gc = NoLease
  /\ \E seen \in BesideGc : Dead(lease, seen) /\ gc' = [lease |-> lease, seen |-> seen]
  /\ UNCHANGED <<leaseVars, socket, proc, pc, down, ownVars, handler, views>>

\* Mutant of GcReap: what was judged dead is removed without a second look.
GcReapUnjudged ==
  /\ gc # NoLease
  /\ lease' = NoLease /\ socket' = NoSocket /\ expired' = FALSE /\ Depose(gc.seen)
  /\ gc' = NoLease
  /\ UNCHANGED <<proc, pc, down, ownVars, handler, blind>>

\* ... and reapDeadOwnerArtifacts judges it again under the lock.
GcReap ==
  /\ gc # NoLease
  /\ IF lease = gc.lease /\ Dead(lease, gc.seen)
     THEN lease' = NoLease /\ socket' = NoSocket /\ expired' = FALSE /\ Depose(gc.seen)
     ELSE UNCHANGED <<leaseVars, socket, deposed>>
  /\ gc' = NoLease
  /\ UNCHANGED <<proc, pc, down, ownVars, handler, blind>>

Start(o) ==
  \/ Spawn(o) \/ Acquire(o) \/ LeaseRefused(o) \/ RemoveStaleSocket(o) \/ Bind(o) \/ Announce(o)
Stop(o) ==
  \/ CloseTransport(o) \/ StopListening(o) \/ AwaitClients(o) \/ RemoveSocket(o) \/ Fence(o)
  \/ Drain(o) \/ Release(o)

Next ==
  \/ \E o \in Owners :
       \/ Start(o) \/ StartFails(o) \/ HeartbeatTick(o) \/ Renew(o)
       \/ Request(o) \/ Respond(o)
       \/ PollFindsNoOwner(o) \/ BeginStop(o) \/ Stop(o) \/ Die(o) \/ ReusePid(o)
  \/ Expire \/ GcLook \/ GcReap

Spec == Init /\ [][Next]_vars

\* The event loop of a running owner takes every step that is ready, the interval
\* keeps firing, handlers return, and a teardown stage that is retried without
\* limit succeeds in the end.
Fairness ==
  \A o \in Owners :
    /\ WF_vars(Stop(o)) /\ WF_vars(Respond(o))
    /\ WF_vars(Renew(o)) /\ WF_vars(HeartbeatTick(o)) /\ WF_vars(PollFindsNoOwner(o))
FairSpec == Spec /\ Fairness

-----------------------------------------------------------------------------
(* Properties *)

Serving(o) == StartIs(o, "started") /\ down[o] = "up"

\* "Exactly one live RuntimeOwner holds the lease": an owner that believes it holds the
\* lease is the one lease.json names, so no two believe so, whatever the lock order,
\* expiry, crashes and collectors. It loses the lease while it runs only to an owner or
\* a collector of another pid namespace, which cannot see that it runs.
HolderKeepsLease ==
  \A o \in Owners \ deposed : leaseHeld[o] => Holds(o)

\* "Do not surrender the lease while it is unverified": an owner that was not deposed in
\* that way and whose session or endpoint is still open, or a client of which still waits
\* for an answer, holds the lease.
AuthorityIsLeased ==
  \A o \in Owners \ deposed :
    pc[o] = "started" /\ (transport[o] \/ listening[o] \/ handler[o] = "waiting") => Holds(o)

\* "No already-started renewal can still be polling the lease mutation lock when
\* releaseLease runs", and none is started after it.
NoRenewalBesideRelease ==
  \A o \in Owners : down[o] \in {"release", "stopped"} => renewals[o] = 0 /\ ~timer[o]

\* A client that finds a listening owner at the socket has found the lease holder, or one
\* that was deposed unseen.
SocketLeadsToHolder ==
  \A o \in Owners \ deposed : socket = o /\ listening[o] => Holds(o)

\* The owners do what SingleOwner says: an owner takes the ownership when nobody has it,
\* or when the one that has it is out of its sight and is thereby deposed; in one pid
\* namespace it is given up before the next takes it, never handed over in one step.
Single == INSTANCE SingleOwner WITH holders <- {o \in Owners \ deposed : leaseHeld[o]}
ImplementsSingleOwner == Single!Spec

\* A teardown that has begun ends with the lease surrendered, or the process dies: none
\* is under way forever (an owner stops once).
TeardownCompletes ==
  []<>(\A o \in Owners : Running(o) => down[o] \in {"up", "stopped"})

\* An owner whose lease was taken over or collected, because the other process could not
\* see its pid, stops serving, by its next heartbeat or by the poll of #runOwner: it does
\* not serve without the lease forever (and does not get the lease again).
DeposedOwnerStops ==
  []<>(\A o \in Owners : Serving(o) => Holds(o))
=============================================================================
