---------------------------- MODULE ReverseLeases ----------------------------
(***************************************************************************)
(* The registry of reverse RPC leases of one session (ReverseLeaseRuntime  *)
(* in sdk/host/reverse-leases.ts).  A connection registers as the provider *)
(* of a capability, the session sends it requests, and the lease moves on: *)
(* it lapses without heartbeats, is handed to another connection, or is    *)
(* reclaimed under its old id after a disconnect.  Every operation is one  *)
(* synchronous call on a single thread, hence one action.                  *)
(*                                                                         *)
(* Time is what has lapsed: expiresAt and graceUntil only ever matter      *)
(* through whether they are past.  So a heartbeat that arrives in time, or *)
(* a registration replayed under its idempotency key, changes nothing, and *)
(* Lapse and GraceEnds may happen at any moment.                           *)
(***************************************************************************)
EXTENDS Naturals, FiniteSets

CONSTANTS Capabilities,   \* "fs", "ui", "permission", ...
          Connections,    \* connection ids; a reconnect gets a new one
          Definitions,    \* what a provider declares
          Requests,       \* slots for requests under way
          MaxOutstanding, \* MAX_REVERSE_OUTSTANDING
          MaxLeases,      \* bound on the lease ids minted
          None            \* no lease, no definitions, no request, no connection

ASSUME NoneAssumption ==
    /\ None \notin Definitions /\ None \notin Connections /\ None \notin Nat
    /\ None \notin [id : Nat, conn : Connections, defs : Definitions, use : {"active", "reserved"},
                    time : {"fresh", "lapsed"}, grace : {"open", "none"}]
    /\ None \notin [conn : Connections, cap : Capabilities, id : Nat]

ASSUME LimitsAssumption == MaxOutstanding \in Nat /\ MaxLeases \in Nat

VARIABLES leases,      \* #leases
          installed,   \* #installedCapabilities, with what installDefinitions was last given
          outstanding, \* #outstanding
          minted,      \* lease ids handed out: randomUUID
          conn         \* the transport: each connection is open, fenced or closed

leaseVars == <<leases, installed, outstanding, minted, conn>>

Leases == [id : Nat, conn : Connections, defs : Definitions, use : {"active", "reserved"},
           time : {"fresh", "lapsed"}, grace : {"open", "none"}]

Pending == [conn : Connections, cap : Capabilities, id : Nat]

LeasesTypeOK ==
    /\ leases \in [Capabilities -> Leases \cup {None}]
    /\ installed \in [Capabilities -> Definitions \cup {None}]
    /\ outstanding \in [Requests -> Pending \cup {None}]
    /\ minted \in Nat
    /\ conn \in [Connections -> {"open", "fenced", "closed"}]

LeasesInit ==
    /\ leases = [c \in Capabilities |-> None]
    /\ installed = [c \in Capabilities |-> None]
    /\ outstanding = [r \in Requests |-> None]
    /\ minted = 0
    /\ conn = [n \in Connections |-> "open"]

-----------------------------------------------------------------------------
Held(c) == leases[c] # None
Fresh(c) == Held(c) /\ leases[c].time = "fresh"
Lapsed(c) == Held(c) /\ leases[c].time = "lapsed"

\* #liveLease
Live(c) == Fresh(c) /\ leases[c].use = "active"

PendingHandoff(c) == Fresh(c) /\ leases[c].use = "reserved"

Reclaiming(c, expected) == Held(c) /\ leases[c].id = expected /\ leases[c].grace = "open"

Refreshing(c, n) == Live(c) /\ leases[c].conn = n

\* Mutant of Conflict: a reservation is taken up by whoever names its lease.
ConflictById(c, n, expected) ==
    IF PendingHandoff(c) THEN leases[c].id # expected
    ELSE Fresh(c) /\ leases[c].conn # n /\ ~Reclaiming(c, expected)

\* provider_lease_conflict
Conflict(c, n, expected) ==
    IF PendingHandoff(c) THEN leases[c].conn # n \/ leases[c].id # expected
    ELSE Fresh(c) /\ leases[c].conn # n /\ ~Reclaiming(c, expected)

\* The id stays through a hand-off, a reclaim and a refresh.
KeepsId(c, n, expected) == PendingHandoff(c) \/ Reclaiming(c, expected) \/ Refreshing(c, n)

\* Mutant of Register: the definitions of a lapsed lease are removed after the new ones are installed.
RegisterThenRemove(n, c, d, expected) ==
    /\ ~Conflict(c, n, expected)
    /\ KeepsId(c, n, expected) \/ minted < MaxLeases
    /\ LET id == IF KeepsId(c, n, expected) THEN leases[c].id ELSE minted + 1
       IN  leases' = [leases EXCEPT ![c] = [id |-> id, conn |-> n, defs |-> d, use |-> "active",
                                            time |-> "fresh", grace |-> "none"]]
    /\ minted' = IF KeepsId(c, n, expected) THEN minted ELSE minted + 1
    /\ installed' = [installed EXCEPT ![c] = IF Lapsed(c) THEN None ELSE d]
    /\ UNCHANGED <<outstanding, conn>>

\* registerProvider: what a lapsed lease left installed goes first, whatever follows.
Register(n, c, d, expected) ==
    /\ ~Conflict(c, n, expected)
    /\ KeepsId(c, n, expected) \/ minted < MaxLeases
    /\ LET id == IF KeepsId(c, n, expected) THEN leases[c].id ELSE minted + 1
       IN  leases' = [leases EXCEPT ![c] = [id |-> id, conn |-> n, defs |-> d, use |-> "active",
                                            time |-> "fresh", grace |-> "none"]]
    /\ minted' = IF KeepsId(c, n, expected) THEN minted ELSE minted + 1
    /\ installed' = [installed EXCEPT ![c] = d]
    /\ UNCHANGED <<outstanding, conn>>

\* A request, a late heartbeat, a look at the definitions, or a registration whose definitions
\* are invalid meets the lapsed lease and removes what it had installed.
Notice(c) ==
    /\ Lapsed(c) /\ installed[c] # None
    /\ installed' = [installed EXCEPT ![c] = None]
    /\ UNCHANGED <<leases, outstanding, minted, conn>>

\* Mutant of Sweep: the interval does nothing.
SweepNothing ==
    /\ \E c \in Capabilities : Lapsed(c) /\ installed[c] # None
    /\ UNCHANGED leaseVars

\* #expireStaleLeases, on its interval: the lease stays, its definitions go.
Sweep ==
    /\ \E c \in Capabilities : Lapsed(c) /\ installed[c] # None
    /\ installed' = [c \in Capabilities |-> IF Lapsed(c) THEN None ELSE installed[c]]
    /\ UNCHANGED <<leases, outstanding, minted, conn>>

-----------------------------------------------------------------------------
\* #cancelForConnection: every request the connection has, for whichever capability.
Cancelled(n) == [r \in Requests |-> IF outstanding[r] # None /\ outstanding[r].conn = n THEN None
                                    ELSE outstanding[r]]

\* Mutant of Release: the requests are left to the next holder.
ReleaseKeepingRequests(n, c, to) ==
    /\ Held(c) /\ leases[c].use = "active" /\ leases[c].conn = n
    /\ installed' = [installed EXCEPT ![c] = None]
    /\ leases' = [leases EXCEPT ![c] = IF to = None THEN None
                                       ELSE [@ EXCEPT !.conn = to, !.use = "reserved", !.time = "fresh",
                                                      !.grace = "none"]]
    /\ UNCHANGED <<outstanding, minted, conn>>

\* release, by the holder, of a lease that may have lapsed: it ends, or is reserved for the
\* connection named, which need not exist.
Release(n, c, to) ==
    /\ Held(c) /\ leases[c].use = "active" /\ leases[c].conn = n
    /\ outstanding' = Cancelled(n)
    /\ installed' = [installed EXCEPT ![c] = None]
    /\ leases' = [leases EXCEPT ![c] = IF to = None THEN None
                                       ELSE [@ EXCEPT !.conn = to, !.use = "reserved", !.time = "fresh",
                                                      !.grace = "none"]]
    /\ UNCHANGED <<minted, conn>>

\* disconnect: run when the socket closes, and before that when the connection is fenced
\* because a prompt could not be closed in time.  Leases may be reclaimed from now on.
Disconnect(n, to) ==
    /\ conn[n] # to /\ conn[n] # "closed"
    /\ conn' = [conn EXCEPT ![n] = to]
    /\ leases' = [c \in Capabilities |-> IF Held(c) /\ leases[c].conn = n
                                         THEN [leases[c] EXCEPT !.time = "lapsed", !.grace = "open"]
                                         ELSE leases[c]]
    /\ installed' = [c \in Capabilities |-> IF Held(c) /\ leases[c].conn = n THEN None ELSE installed[c]]
    /\ outstanding' = Cancelled(n)
    /\ UNCHANGED minted

\* expiresAt passes; nobody is told.
Lapse(c) ==
    /\ Fresh(c)
    /\ leases' = [leases EXCEPT ![c].time = "lapsed"]
    /\ UNCHANGED <<installed, outstanding, minted, conn>>

\* graceUntil passes.
GraceEnds(c) ==
    /\ Held(c) /\ leases[c].grace = "open"
    /\ leases' = [leases EXCEPT ![c].grace = "none"]
    /\ UNCHANGED <<installed, outstanding, minted, conn>>

-----------------------------------------------------------------------------
UnderWay == {r \in Requests : outstanding[r] # None}

\* request: directed to the connection of the lease that is live now.
Request(r, c) ==
    /\ Live(c) /\ outstanding[r] = None
    /\ Cardinality(UnderWay) < MaxOutstanding
    /\ outstanding' = [outstanding EXCEPT ![r] = [conn |-> leases[c].conn, cap |-> c, id |-> leases[c].id]]
    /\ UNCHANGED <<leases, installed, minted, conn>>

Take(r) ==
    /\ outstanding[r] # None
    /\ outstanding' = [outstanding EXCEPT ![r] = None]
    /\ UNCHANGED <<leases, installed, minted, conn>>

\* respond, under the connection and the lease id of the request.
Respond(n, r) == outstanding[r] # None /\ outstanding[r].conn = n /\ Take(r)

\* The caller aborts, or the frame could not be sent.
GiveUp(r) == Take(r)

\* dispose
Dispose ==
    /\ leases' = [c \in Capabilities |-> None]
    /\ installed' = [c \in Capabilities |-> None]
    /\ outstanding' = [r \in Requests |-> None]
    /\ UNCHANGED <<minted, conn>>

-----------------------------------------------------------------------------
(* Properties *)

\* A capability answers for exactly what its provider declared: while a lease is live, what
\* is wired into the session are the definitions of this very lease, through lapses, sweeps,
\* hand-offs, reclaims and disconnects in any order.
LiveLeaseIsInstalled == \A c \in Capabilities : Live(c) => installed[c] = leases[c].defs

\* A request under way can be answered: the connection it was sent to is open, also when the
\* lease it was sent under has long passed to somebody else, and while that lease lives on
\* under its id the connection is its holder.
RequestsFollowLease ==
    \A r \in UnderWay : LET q == outstanding[r] IN
        /\ conn[q.conn] = "open"
        /\ Held(q.cap) /\ leases[q.cap].id = q.id => leases[q.cap].conn = q.conn

\* While a lease has not lapsed it changes hands only by the word of its holder, and a
\* reservation is taken up by nobody but the connection it was made for.
HolderDecides ==
    [][\A c \in Capabilities :
         Fresh(c) /\ leases'[c] # None /\ leases'[c].conn # leases[c].conn
           => leases[c].use = "active" /\ leases'[c].use = "reserved"]_leaseVars
=============================================================================
