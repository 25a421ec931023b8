------------------------- MODULE SessionHostProofs --------------------------
(***************************************************************************)
(* The safety properties of the SDK host and of its lease registry, proved *)
(* for any number of capabilities, connections, requests, generations and  *)
(* events.                                                                 *)
(***************************************************************************)
EXTENDS SessionHost, SequenceTheorems, TLAPS

-----------------------------------------------------------------------------
(* The registry *)

\* Behind the properties of the registry: a live lease has an open connection, ids are given
\* out once, and a lease can be reclaimed only after its connection was lost.
Backed ==
    /\ \A c \in Capabilities : Live(c) => conn[leases[c].conn] = "open"
    /\ \A c \in Capabilities : Held(c) => leases[c].id <= minted
    /\ \A c \in Capabilities : Held(c) /\ leases[c].grace = "open"
                                  => leases[c].time = "lapsed" /\ conn[leases[c].conn] # "open"
    /\ \A r \in UnderWay : outstanding[r].id <= minted

LInv == LeasesTypeOK /\ Backed /\ LiveLeaseIsInstalled /\ RequestsFollowLease

\* The registry starts empty.
LEMMA LeasesInitInv == LeasesInit => LInv
BY NoneAssumption
DEF LeasesInit, LInv, LeasesTypeOK, Backed, LiveLeaseIsInstalled, RequestsFollowLease, UnderWay, Live, Fresh, Held

\* None is not a lease, a definition or a request.
LEMMA NoneIsNone == None \notin Leases /\ None \notin Pending /\ None \notin Definitions
BY NoneAssumption DEF Leases, Pending

\* A registration takes a lease over under its id only from the same connection or from one
\* that was lost.
LEMMA RegisterInv ==
    ASSUME LInv, NEW n \in Connections, conn[n] = "open", NEW c \in Capabilities, NEW d \in Definitions,
           NEW expected, Register(n, c, d, expected)
    PROVE  LInv'
<1> DEFINE keeps == KeepsId(c, n, expected)
           id == IF keeps THEN leases[c].id ELSE minted + 1
           l == [id |-> id, conn |-> n, defs |-> d, use |-> "active", time |-> "fresh", grace |-> "none"]
<1>1. /\ leases' = [leases EXCEPT ![c] = l]
      /\ minted' = (IF keeps THEN minted ELSE minted + 1)
      /\ installed' = [installed EXCEPT ![c] = d]
      /\ UNCHANGED <<outstanding, conn>>
  BY DEF Register
<1>2. keeps => leases[c] \in Leases /\ leases[c].id \in Nat /\ leases[c].id <= minted
  BY DEF LInv, LeasesTypeOK, Backed, KeepsId, PendingHandoff, Reclaiming, Refreshing, Live, Fresh, Held, Leases
<1>3. /\ id \in Nat /\ id <= minted' /\ minted \in Nat /\ minted' \in Nat /\ minted <= minted'
  BY <1>1, <1>2 DEF LInv, LeasesTypeOK
<1>4. l \in Leases BY <1>3 DEF Leases
<1>5. keeps => \A r \in UnderWay : outstanding[r].cap = c /\ outstanding[r].id = leases[c].id => outstanding[r].conn = n
  BY <1>2 DEF LInv, LeasesTypeOK, Backed, RequestsFollowLease, KeepsId, PendingHandoff, Reclaiming, Refreshing,
              Live, Fresh, Held, Register, Conflict, UnderWay, Pending
<1>6. ~keeps => \A r \in UnderWay : outstanding[r].id # id
  BY DEF LInv, LeasesTypeOK, Backed, UnderWay, Pending
<1>7. /\ l.id = id /\ l.conn = n /\ l.defs = d /\ l.use = "active" /\ l.time = "fresh" /\ l.grace = "none"
      /\ l # None
  BY <1>4, NoneIsNone
<1> HIDE DEF keeps, id, l
<1>8. LeasesTypeOK' BY <1>1, <1>3, <1>4 DEF LInv, LeasesTypeOK
<1>9. /\ leases'[c] = l /\ installed'[c] = d
      /\ \A x \in Capabilities \ {c} : leases'[x] = leases[x] /\ installed'[x] = installed[x]
  BY <1>1 DEF LInv, LeasesTypeOK
<1>10. \A x \in Capabilities : Held(x) => leases[x] \in Leases /\ leases[x].id \in Nat
  BY DEF LInv, LeasesTypeOK, Held, Leases
<1>11. \A r \in UnderWay : outstanding[r] \in Pending /\ outstanding[r].id \in Nat
  BY DEF LInv, LeasesTypeOK, UnderWay, Pending
<1>12. Backed'
  BY <1>1, <1>3, <1>7, <1>9, <1>10, <1>11 DEF LInv, Backed, Live, Fresh, Held, UnderWay
<1>13. LiveLeaseIsInstalled' BY <1>7, <1>9 DEF LInv, LiveLeaseIsInstalled, Live, Fresh, Held
<1>14. RequestsFollowLease'
  <2> SUFFICES ASSUME NEW r \in UnderWay
               PROVE  /\ conn[outstanding[r].conn] = "open"
                      /\ leases'[outstanding[r].cap] # None /\ leases'[outstanding[r].cap].id = outstanding[r].id
                           => leases'[outstanding[r].cap].conn = outstanding[r].conn
    BY <1>1 DEF RequestsFollowLease, UnderWay, Held
  <2>1. outstanding[r].cap \in Capabilities BY DEF LInv, LeasesTypeOK, UnderWay, Pending
  <2>2. conn[outstanding[r].conn] = "open" BY DEF LInv, RequestsFollowLease
  <2>4. CASE outstanding[r].cap = c
    <3>1. keeps => (outstanding[r].id = id => outstanding[r].conn = n) BY <2>4, <1>5 DEF id
    <3> QED BY <2>2, <2>4, <3>1, <1>6, <1>7, <1>9
  <2>3. CASE outstanding[r].cap # c BY <2>1, <2>3, <1>9 DEF LInv, RequestsFollowLease, Held
  <2> QED BY <2>3, <2>4
<1> QED BY <1>8, <1>12, <1>13, <1>14 DEF LInv

\* Definitions are removed only under leases that have lapsed.
LEMMA NoticeInv == ASSUME LInv, NEW c \in Capabilities, Notice(c) PROVE LInv'
BY DEF Notice, LInv, LeasesTypeOK, Backed, LiveLeaseIsInstalled, RequestsFollowLease, UnderWay, Live, Fresh, Lapsed, Held

(* The sweep drops leases whose time is over. *)
LEMMA SweepInv == ASSUME LInv, Sweep PROVE LInv'
BY DEF Sweep, LInv, LeasesTypeOK, Backed, LiveLeaseIsInstalled, RequestsFollowLease, UnderWay, Live, Fresh, Lapsed, Held

\* Cancelling the requests of a connection leaves the others as they were.
LEMMA CancelledIs ==
    ASSUME LeasesTypeOK, NEW n
    PROVE  /\ Cancelled(n) \in [Requests -> Pending \cup {None}]
           /\ \A r \in Requests : Cancelled(n)[r] # None =>
                 r \in UnderWay /\ Cancelled(n)[r] = outstanding[r] /\ outstanding[r].conn # n
BY DEF Cancelled, LeasesTypeOK, UnderWay

\* A lease given back takes the requests of its holder with it.
LEMMA ReleaseInv ==
    ASSUME LInv, NEW n \in Connections, NEW c \in Capabilities, NEW to \in Connections \cup {None}, Release(n, c, to)
    PROVE  LInv'
<1> DEFINE l == IF to = None THEN None
                ELSE [leases[c] EXCEPT !.conn = to, !.use = "reserved", !.time = "fresh", !.grace = "none"]
<1>1. /\ leases' = [leases EXCEPT ![c] = l]
      /\ installed' = [installed EXCEPT ![c] = None]
      /\ outstanding' = Cancelled(n)
      /\ UNCHANGED <<minted, conn>>
      /\ Held(c) /\ leases[c].conn = n
  BY DEF Release
<1>2. leases[c] \in Leases /\ leases[c].id <= minted BY <1>1 DEF LInv, LeasesTypeOK, Backed, Held
<1>3. l \in Leases \cup {None} BY Zenon, <1>2 DEF Leases
<1>4. l # None => l.id = leases[c].id /\ l.use = "reserved" /\ l.grace = "none" BY <1>2 DEF Leases
<1> HIDE DEF l
<1>5. /\ leases'[c] = l
      /\ \A x \in Capabilities \ {c} : leases'[x] = leases[x] /\ installed'[x] = installed[x]
  BY <1>1 DEF LInv, LeasesTypeOK
<1>6. \A r \in Requests : outstanding'[r] # None =>
         r \in UnderWay /\ outstanding'[r] = outstanding[r] /\ outstanding[r].conn # n
  BY <1>1, CancelledIs DEF LInv
<1>7. LeasesTypeOK' BY <1>1, <1>3, CancelledIs DEF LInv, LeasesTypeOK
<1>8. Backed' BY <1>1, <1>2, <1>4, <1>5, <1>6 DEF LInv, Backed, Live, Fresh, Held, UnderWay
<1>9. LiveLeaseIsInstalled' BY <1>4, <1>5 DEF LInv, LiveLeaseIsInstalled, Live, Fresh, Held
<1>10. RequestsFollowLease'
  <2> SUFFICES ASSUME NEW r \in Requests, outstanding'[r] # None
               PROVE  /\ conn[outstanding[r].conn] = "open"
                      /\ leases'[outstanding[r].cap] # None /\ leases'[outstanding[r].cap].id = outstanding[r].id
                           => leases'[outstanding[r].cap].conn = outstanding[r].conn
    BY <1>1, <1>6 DEF RequestsFollowLease, UnderWay, Held
  <2>1. r \in UnderWay /\ outstanding[r].conn # n BY <1>6
  <2>2. outstanding[r].cap \in Capabilities BY <2>1 DEF LInv, LeasesTypeOK, UnderWay, Pending
  <2>3. /\ conn[outstanding[r].conn] = "open"
        /\ Held(outstanding[r].cap) /\ leases[outstanding[r].cap].id = outstanding[r].id
              => leases[outstanding[r].cap].conn = outstanding[r].conn
    BY <2>1 DEF LInv, RequestsFollowLease
  <2>4. CASE outstanding[r].cap = c BY <2>1, <2>3, <2>4, <1>1, <1>4, <1>5 DEF Held
  <2>5. CASE outstanding[r].cap # c BY <2>2, <2>3, <2>5, <1>5 DEF Held
  <2> QED BY <2>4, <2>5
<1> QED BY <1>7, <1>8, <1>9, <1>10 DEF LInv

\* A connection that is lost takes its requests with it, and its leases lapse.
LEMMA DisconnectInv ==
    ASSUME LInv, NEW n \in Connections, NEW to \in {"fenced", "closed"}, Disconnect(n, to)
    PROVE  LInv'
<1>1. /\ conn' = [conn EXCEPT ![n] = to]
      /\ outstanding' = Cancelled(n)
      /\ minted' = minted
  BY Zenon DEF Disconnect
<1>2. \A c \in Capabilities : Held(c) /\ leases[c].conn = n =>
         /\ leases'[c] = [leases[c] EXCEPT !.time = "lapsed", !.grace = "open"]
         /\ installed'[c] = None
  BY Zenon DEF Disconnect
<1>3. \A c \in Capabilities : ~(Held(c) /\ leases[c].conn = n) =>
         leases'[c] = leases[c] /\ installed'[c] = installed[c]
  BY Zenon DEF Disconnect
<1>4. \A c \in Capabilities : Held(c) => leases[c] \in Leases /\ leases[c].conn \in Connections
  BY DEF LInv, LeasesTypeOK, Held, Leases
<1>5. \A c \in Capabilities : Held(c) /\ leases[c].conn = n =>
         /\ leases'[c] \in Leases /\ leases'[c].id = leases[c].id /\ leases'[c].conn = n
         /\ leases'[c].time = "lapsed" /\ leases'[c].grace = "open"
  BY Zenon, <1>2, <1>4 DEF Leases
<1>6. /\ conn'[n] # "open"
      /\ \A m \in Connections \ {n} : conn'[m] = conn[m]
      /\ \A m \in Connections : conn'[m] = "open" => conn[m] = "open"
      /\ conn' \in [Connections -> {"open", "fenced", "closed"}]
  BY <1>1 DEF LInv, LeasesTypeOK
<1>7. \A r \in Requests : outstanding'[r] # None =>
         r \in UnderWay /\ outstanding'[r] = outstanding[r] /\ outstanding[r].conn # n
  BY <1>1, CancelledIs DEF LInv
<1>8. LeasesTypeOK'
  <2>1. leases' \in [Capabilities -> Leases \cup {None}]
    <3>1. leases' = [c \in Capabilities |-> IF Held(c) /\ leases[c].conn = n
                                            THEN [leases[c] EXCEPT !.time = "lapsed", !.grace = "open"]
                                            ELSE leases[c]]
      BY Zenon DEF Disconnect
    <3>2. \A c \in Capabilities : leases'[c] \in Leases \cup {None} BY <1>3, <1>5 DEF LInv, LeasesTypeOK
    <3> QED BY Zenon, <3>1, <3>2
  <2>2. installed' \in [Capabilities -> Definitions \cup {None}] BY Zenon DEF LInv, LeasesTypeOK, Disconnect
  <2> QED BY <2>1, <2>2, <1>1, <1>6, CancelledIs DEF LInv, LeasesTypeOK
<1>9. Backed'
  <2>1. \A c \in Capabilities : Live(c)' => conn'[leases'[c].conn] = "open"
    BY <1>3, <1>4, <1>5, <1>6 DEF LInv, Backed, Live, Fresh, Held
  <2>2. \A c \in Capabilities : Held(c)' => leases'[c].id <= minted'
    BY <1>1, <1>3, <1>5 DEF LInv, Backed, Held
  <2>3. \A c \in Capabilities : Held(c)' /\ leases'[c].grace = "open"
                                  => leases'[c].time = "lapsed" /\ conn'[leases'[c].conn] # "open"
    BY <1>3, <1>4, <1>5, <1>6 DEF LInv, Backed, Held
  <2>4. \A r \in UnderWay' : outstanding'[r].id <= minted' BY <1>1, <1>7 DEF LInv, Backed, UnderWay
  <2> QED BY <2>1, <2>2, <2>3, <2>4 DEF Backed
<1>10. LiveLeaseIsInstalled' BY <1>3, <1>5 DEF LInv, LiveLeaseIsInstalled, Live, Fresh, Held
<1>11. RequestsFollowLease'
  <2> SUFFICES ASSUME NEW r \in Requests, outstanding'[r] # None
               PROVE  /\ conn'[outstanding[r].conn] = "open"
                      /\ leases'[outstanding[r].cap] # None /\ leases'[outstanding[r].cap].id = outstanding[r].id
                           => leases'[outstanding[r].cap].conn = outstanding[r].conn
    BY <1>1, <1>7 DEF RequestsFollowLease, UnderWay, Held
  <2>1. r \in UnderWay /\ outstanding[r].conn # n BY <1>7
  <2>2. outstanding[r].cap \in Capabilities /\ outstanding[r].conn \in Connections
    BY <2>1 DEF LInv, LeasesTypeOK, UnderWay, Pending
  <2>3. /\ conn[outstanding[r].conn] = "open"
        /\ Held(outstanding[r].cap) /\ leases[outstanding[r].cap].id = outstanding[r].id
              => leases[outstanding[r].cap].conn = outstanding[r].conn
    BY <2>1 DEF LInv, RequestsFollowLease
  <2> QED BY <2>1, <2>2, <2>3, <1>3, <1>5, <1>6 DEF Held
<1> QED BY <1>8, <1>9, <1>10, <1>11 DEF LInv

\* What runs out makes no lease live.
LEMMA LapseInv == ASSUME LInv, NEW c \in Capabilities, Lapse(c) \/ GraceEnds(c) PROVE LInv'
<1> DEFINE l == IF Lapse(c) THEN [leases[c] EXCEPT !.time = "lapsed"] ELSE [leases[c] EXCEPT !.grace = "none"]
<1>1. /\ leases' = [leases EXCEPT ![c] = l]
      /\ UNCHANGED <<installed, outstanding, minted, conn>>
      /\ Held(c)
  BY DEF Lapse, GraceEnds, Fresh
<1>2. leases[c] \in Leases BY <1>1 DEF LInv, LeasesTypeOK, Held
<1>3. /\ l \in Leases /\ l # None
      /\ l.id = leases[c].id /\ l.conn = leases[c].conn /\ l.defs = leases[c].defs /\ l.use = leases[c].use
      /\ l.time = "fresh" => leases[c].time = "fresh"
      /\ l.grace = "open" => leases[c].grace = "open" /\ l.time = "lapsed"
  <2>1. l \in Leases BY <1>2 DEF Leases
  <2>2. CASE Lapse(c) BY <1>2, <2>1, <2>2, NoneIsNone DEF Leases
  <2>3. CASE ~Lapse(c) BY <1>2, <2>1, <2>3, NoneIsNone DEF Leases
  <2> QED BY <2>1, <2>2, <2>3
<1> HIDE DEF l
<1>4. /\ leases'[c] = l
      /\ \A x \in Capabilities \ {c} : leases'[x] = leases[x]
  BY <1>1 DEF LInv, LeasesTypeOK
<1>5. LeasesTypeOK' BY <1>1, <1>3 DEF LInv, LeasesTypeOK
<1>6. Backed' BY <1>1, <1>3, <1>4 DEF LInv, Backed, Live, Fresh, Held, UnderWay
<1>7. LiveLeaseIsInstalled' BY <1>1, <1>3, <1>4 DEF LInv, LiveLeaseIsInstalled, Live, Fresh, Held
<1>8. RequestsFollowLease'
  <2>1. \A r \in UnderWay : outstanding[r].cap \in Capabilities BY DEF LInv, LeasesTypeOK, UnderWay, Pending
  <2> QED BY <2>1, <1>1, <1>3, <1>4 DEF LInv, RequestsFollowLease, Held, UnderWay
<1> QED BY <1>5, <1>6, <1>7, <1>8 DEF LInv

\* A request goes to the holder of the live lease.
LEMMA RequestInv == ASSUME LInv, NEW r \in Requests, NEW c \in Capabilities, Request(r, c) PROVE LInv'
<1> DEFINE q == [conn |-> leases[c].conn, cap |-> c, id |-> leases[c].id]
<1>1. /\ outstanding' = [outstanding EXCEPT ![r] = q]
      /\ UNCHANGED <<leases, installed, minted, conn>>
      /\ Live(c)
  BY DEF Request
<1>2. leases[c] \in Leases /\ leases[c].conn \in Connections /\ leases[c].id \in Nat
  BY <1>1 DEF LInv, LeasesTypeOK, Live, Fresh, Held, Leases
<1>3. q \in Pending /\ q.conn = leases[c].conn /\ q.cap = c /\ q.id = leases[c].id BY <1>2 DEF Pending
<1>4. conn[leases[c].conn] = "open" /\ leases[c].id <= minted BY <1>1 DEF LInv, Backed, Live, Fresh
<1> HIDE DEF q
<1>5. /\ outstanding'[r] = q
      /\ \A x \in Requests \ {r} : outstanding'[x] = outstanding[x]
  BY <1>1 DEF LInv, LeasesTypeOK
<1>6. LeasesTypeOK' BY <1>1, <1>3 DEF LInv, LeasesTypeOK
<1>7. Backed' BY <1>1, <1>3, <1>4, <1>5 DEF LInv, Backed, Live, Fresh, Held, UnderWay
<1>8. LiveLeaseIsInstalled' BY <1>1 DEF LInv, LiveLeaseIsInstalled, Live, Fresh, Held
<1>9. RequestsFollowLease' BY <1>1, <1>3, <1>4, <1>5 DEF LInv, RequestsFollowLease, Held, UnderWay
<1> QED BY <1>6, <1>7, <1>8, <1>9 DEF LInv

\* An answer, or a caller that gives up, ends one request.
LEMMA TakeInv == ASSUME LInv, NEW r \in Requests, Take(r) PROVE LInv'
BY DEF Take, LInv, LeasesTypeOK, Backed, LiveLeaseIsInstalled, RequestsFollowLease, UnderWay, Live, Fresh, Held

\* dispose leaves nothing.
LEMMA DisposeInv == ASSUME LInv, Dispose PROVE LInv'
BY DEF Dispose, LInv, LeasesTypeOK, Backed, LiveLeaseIsInstalled, RequestsFollowLease, UnderWay, Live, Fresh, Held

\* Nothing changes.
LEMMA IdleInv == ASSUME LInv, UNCHANGED leaseVars PROVE LInv'
BY DEF leaseVars, LInv, LeasesTypeOK, Backed, LiveLeaseIsInstalled, RequestsFollowLease, UnderWay, Live, Fresh, Held

\* Every step of the host is one of the registry, or leaves it alone.
LEMMA LeasesInv == ASSUME LInv, [Next]_vars PROVE LInv'
<1>1. CASE UNCHANGED vars BY <1>1, IdleInv DEF vars
<1>2. CASE Start \/ Stop("call") \/ Stop("bus") \/ Emit \/ ActivateOnce
  BY <1>2, IdleInv DEF Start, Stop, Emit, ActivateOnce
<1>3. ASSUME NEW expected, Activate(expected) PROVE LInv'
  BY <1>3, IdleInv DEF Activate
<1>4. ASSUME NEW ok \in BOOLEAN, GateAnswers(ok) PROVE LInv'
  BY <1>4, IdleInv DEF GateAnswers
<1>5. ASSUME NEW ok \in BOOLEAN, StopEnds(ok) PROVE LInv'
  <2>1. CASE Dispose BY <2>1, DisposeInv
  <2>2. CASE UNCHANGED leaseVars BY <2>2, IdleInv
  <2> QED BY Zenon, <1>5, <2>1, <2>2 DEF StopEnds
<1>6. ASSUME NEW n \in Connections, Provide(n) PROVE LInv'
  BY <1>6, RegisterInv, ReleaseInv, TakeInv DEF Provide, Speaks, Respond
<1>7. ASSUME NEW n \in Connections, Drop(n, "fenced") \/ Drop(n, "closed") PROVE LInv'
  BY <1>7, DisconnectInv DEF Drop
<1>8. CASE Ask BY <1>8, RequestInv, TakeInv, NoticeInv DEF Ask, GiveUp
<1>9. CASE Time BY <1>9, LapseInv DEF Time
<1>10. CASE Tick BY <1>10, SweepInv DEF Tick
<1> QED BY <1>1, <1>2, <1>3, <1>4, <1>5, <1>6, <1>7, <1>8, <1>9, <1>10 DEF Next

-----------------------------------------------------------------------------
(* The host *)

\* Readiness was published at most up to the current generation, and not in it while the host
\* does not remember it; a host of a session that is ready at once is never without it.
Ready ==
    /\ host # "off" => generation > 0
    /\ mode = "immediate" /\ generation > 0 => readyAt = generation
    /\ \A g \in Generations : g > generation => published[g] = 0
    /\ readyAt # generation => published[generation] = 0
    /\ asked # None => queue # <<>>

\* The ring holds the latest events without a hole.
Contiguous == /\ Len(frames) <= seq
              /\ \A i \in 1 .. Len(frames) : frames[i] = seq - Len(frames) + i

IInv == TypeOK /\ Ready /\ Contiguous /\ LInv

\* The state in which the host is constructed.
LEMMA InitIInv == Init => IInv
<1> SUFFICES ASSUME Init PROVE IInv OBVIOUS
<1>1. LInv BY LeasesInitInv DEF Init
<1>2. TypeOK BY <1>1, HostAssumption DEF Init, TypeOK, LInv, Generations
<1>3. Ready /\ Contiguous BY HostAssumption, NoneAssumption DEF Init, Ready, Contiguous, Generations
<1> QED BY <1>1, <1>2, <1>3 DEF IInv

\* An event more, and the oldest one less once the ring is full, leave no hole.
LEMMA RingIs ==
    ASSUME TypeOK, Contiguous
    PROVE  /\ Ring(frames, seq + 1) \in Seq(Nat)
           /\ Len(Ring(frames, seq + 1)) <= seq + 1
           /\ \A i \in 1 .. Len(Ring(frames, seq + 1)) :
                 Ring(frames, seq + 1)[i] = seq + 1 - Len(Ring(frames, seq + 1)) + i
<1> DEFINE pushed == Append(frames, seq + 1)
<1>1. /\ frames \in Seq(Nat) /\ seq \in Nat /\ Len(frames) \in Nat /\ Len(frames) <= seq
      /\ \A i \in 1 .. Len(frames) : frames[i] = seq - Len(frames) + i
  BY DEF TypeOK, Contiguous
<1>2. /\ pushed \in Seq(Nat) /\ Len(pushed) = Len(frames) + 1
      /\ \A i \in 1 .. Len(frames) : pushed[i] = frames[i]
      /\ pushed[Len(frames) + 1] = seq + 1
  BY <1>1
<1>3. \A i \in 1 .. Len(pushed) : pushed[i] = seq + 1 - Len(pushed) + i
  BY <1>1, <1>2
<1> DEFINE short == Tail(pushed)
<1> HIDE DEF pushed
<1>4. /\ short \in Seq(Nat) /\ Len(short) = Len(pushed) - 1
      /\ \A i \in 1 .. Len(short) : short[i] = pushed[i + 1]
  BY <1>1, <1>2, HeadTailProperties
<1>5. Ring(frames, seq + 1) = IF Len(pushed) > RingSize THEN short ELSE pushed
  BY DEF Ring, pushed
<1> HIDE DEF short
<1>6. \A i \in 1 .. Len(short) : short[i] = seq + 1 - Len(short) + i
  <2> TAKE i \in 1 .. Len(short)
  <2>1. i + 1 \in 1 .. Len(pushed) /\ i \in Nat BY <1>1, <1>2, <1>4
  <2>2. pushed[i + 1] = seq + 1 - Len(pushed) + (i + 1) BY <2>1, <1>3
  <2>3. short[i] = seq + 1 - Len(pushed) + (i + 1) BY <2>2, <1>4
  <2> QED BY <2>1, <2>3, <1>1, <1>2, <1>4
<1>7. Len(short) <= seq + 1 /\ Len(pushed) <= seq + 1 BY <1>1, <1>2, <1>4
<1>8. CASE Len(pushed) > RingSize BY <1>4, <1>5, <1>6, <1>7, <1>8
<1>9. CASE ~(Len(pushed) > RingSize) BY <1>2, <1>3, <1>5, <1>7, <1>9
<1> QED BY <1>8, <1>9

\* So the stream goes on without a hole.
LEMMA StreamInv ==
    ASSUME TypeOK, Contiguous, seq' = seq + 1, frames' = Ring(frames, seq + 1)
    PROVE  frames' \in Seq(Nat) /\ seq' \in Nat /\ Contiguous'
<1>1. seq \in Nat /\ seq' \in Nat BY DEF TypeOK
<1>2. frames' \in Seq(Nat) /\ Len(frames') <= seq' BY RingIs
<1>3. \A i \in 1 .. Len(frames') : frames'[i] = seq + 1 - Len(frames') + i BY RingIs, Zenon
<1>4. \A i \in 1 .. Len(frames') : frames'[i] = seq' - Len(frames') + i
  <2>1. Len(frames') \in Nat BY <1>2
  <2>2. TAKE i \in 1 .. Len(frames')
  <2>3. frames'[i] = seq + 1 - Len(frames') + i BY <1>3
  <2> QED BY <1>1, <2>1, <2>3
<1> QED BY <1>1, <1>2, <1>4 DEF Contiguous

\* Events, starts, activations and stops.
LEMMA EmitInv == ASSUME IInv, Emit PROVE TypeOK' /\ Ready' /\ Contiguous'
<1>1. LInv' BY IdleInv DEF IInv, Emit
<1>2. seq' = seq + 1 /\ frames' = Ring(frames, seq + 1) BY DEF Emit
<1>3. Contiguous' /\ frames' \in Seq(Nat) /\ seq' \in Nat BY <1>2, StreamInv DEF IInv
<1>4. TypeOK' BY <1>1, <1>3 DEF IInv, TypeOK, Emit, LInv
<1>5. Ready' BY DEF IInv, Ready, Emit
<1> QED BY <1>3, <1>4, <1>5

(* A generation starts with an empty ring. *)
LEMMA StartInv == ASSUME IInv, Start PROVE TypeOK' /\ Ready' /\ Contiguous'
<1>1. LInv' BY IdleInv DEF IInv, Start
<1>2. generation' = generation + 1 /\ generation' \in Generations /\ generation \in Nat
  BY HostAssumption DEF IInv, TypeOK, Start, Generations
<1>3. seq' = 1 /\ frames' = <<1>> BY DEF Start
<1>4. Contiguous' BY <1>3 DEF Contiguous
<1>5. /\ readyAt' \in Generations \cup {None} /\ published' \in [Generations -> Nat]
      /\ mode = "immediate" => readyAt' = generation'
      /\ \A g \in Generations : published'[g] # published[g] => g = generation' /\ readyAt' = generation'
  <2>1. published \in [Generations -> Nat] /\ readyAt \in Generations \cup {None} BY DEF IInv, TypeOK
  <2>2. CASE mode = "immediate"
    <3>1. readyAt' = generation + 1 /\ published' = [published EXCEPT ![generation + 1] = @ + 1] BY <2>2 DEF Start
    <3> QED BY <2>1, <3>1, <1>2
  <2>3. CASE mode # "immediate" BY <2>1, <2>3 DEF Start
  <2> QED BY <2>2, <2>3
<1>6. TypeOK' BY <1>1, <1>2, <1>3, <1>5 DEF IInv, TypeOK, Start, LInv
<1>7. Ready' BY <1>2, <1>5 DEF IInv, Ready, TypeOK, Start, Generations
<1> QED BY <1>4, <1>6, <1>7

(* Readiness is published at most once in a generation. *)
LEMMA PublishInv ==
    ASSUME IInv, Publish
    PROVE  /\ frames' \in Seq(Nat) /\ seq' \in Nat /\ Contiguous'
           /\ readyAt' = generation /\ generation \in Generations
           /\ published' \in [Generations -> Nat]
           /\ \A g \in Generations : g # generation => published'[g] = published[g]
<1>1. seq' = seq + 1 /\ frames' = Ring(frames, seq + 1) BY DEF Publish
<1>2. Contiguous' /\ frames' \in Seq(Nat) /\ seq' \in Nat BY <1>1, StreamInv DEF IInv
<1> QED BY <1>2 DEF IInv, TypeOK, Publish, Generations

(* An activation is asked for. *)
LEMMA ActivateInv == ASSUME IInv, NEW e \in Generations \cup {Any}, Activate(e) PROVE TypeOK' /\ Ready' /\ Contiguous'
<1>1. LInv' BY IdleInv DEF IInv, Activate
<1>2. queue' \in Seq(Generations \cup {Any}) BY DEF IInv, TypeOK, Activate
<1> QED BY <1>1, <1>2 DEF IInv, TypeOK, Ready, Contiguous, Activate, LInv

(* An activation without a gate, or before one. *)
LEMMA ActivateOnceInv == ASSUME IInv, ActivateOnce PROVE TypeOK' /\ Ready' /\ Contiguous'
<1>1. LInv' BY IdleInv DEF IInv, ActivateOnce
<1>2. queue' \in Seq(Generations \cup {Any}) /\ asked' \in Generations \cup {None}
  <2>1. queue # <<>> /\ Tail(queue) \in Seq(Generations \cup {Any})
    BY HeadTailProperties DEF IInv, TypeOK, ActivateOnce
  <2> QED BY Zenon, <2>1 DEF IInv, TypeOK, ActivateOnce, Done
<1>3. CASE Publish
  BY <1>1, <1>2, <1>3, PublishInv DEF IInv, TypeOK, Ready, ActivateOnce, Done, LInv, Generations
<1>4. CASE UNCHANGED <<readyAt, published, seq, frames>>
  BY <1>1, <1>2, <1>4 DEF IInv, TypeOK, Ready, Contiguous, ActivateOnce, Done, LInv
<1> QED BY <1>3, <1>4 DEF ActivateOnce

(* The gate answers, maybe after a restart. *)
LEMMA GateInv == ASSUME IInv, NEW yes \in BOOLEAN, GateAnswers(yes) PROVE TypeOK' /\ Ready' /\ Contiguous'
<1>1. LInv' BY IdleInv DEF IInv, GateAnswers
<1>2. queue' \in Seq(Generations \cup {Any}) /\ asked' \in Generations \cup {None} /\ allowed' \subseteq Generations
  <2>1. queue # <<>> /\ Tail(queue) \in Seq(Generations \cup {Any})
    BY HeadTailProperties DEF IInv, TypeOK, Ready, GateAnswers
  <2> QED BY <2>1 DEF IInv, TypeOK, GateAnswers, Done
<1>3. CASE Publish
  BY <1>1, <1>2, <1>3, PublishInv DEF IInv, TypeOK, Ready, GateAnswers, Done, LInv, Generations
<1>4. CASE UNCHANGED <<readyAt, published, seq, frames>>
  BY <1>1, <1>2, <1>4 DEF IInv, TypeOK, Ready, Contiguous, GateAnswers, Done, LInv
<1> QED BY <1>3, <1>4 DEF GateAnswers

(* A stop begins. *)
LEMMA StopInv ==
    ASSUME IInv, NEW caller \in {"call", "bus"}, Stop(caller) PROVE TypeOK' /\ Ready' /\ Contiguous'
<1>1. LInv' BY IdleInv DEF IInv, Stop
<1> QED BY Zenon, <1>1 DEF IInv, TypeOK, Ready, Contiguous, Stop, activationVars, LInv

(* A stop ends, or fails. *)
LEMMA StopEndsInv == ASSUME IInv, NEW ok \in BOOLEAN, StopEnds(ok) PROVE TypeOK' /\ Ready' /\ Contiguous'
<1>1. LInv' BY IdleInv, DisposeInv DEF IInv, StopEnds
<1> QED BY Zenon, <1>1 DEF IInv, TypeOK, Ready, Contiguous, StopEnds, activationVars, LInv

\* IInv is kept by every step.
LEMMA NextIInv == IInv /\ [Next]_vars => IInv'
<1> SUFFICES ASSUME IInv, [Next]_vars PROVE TypeOK' /\ Ready' /\ Contiguous'
  BY LeasesInv DEF IInv
<1>0. LInv' BY LeasesInv DEF IInv
<1>1. CASE UNCHANGED hostVars
  BY <1>0, <1>1 DEF IInv, TypeOK, Ready, Contiguous, hostVars, LInv
<1>2. ASSUME NEW e \in 1 .. MaxGenerations \cup {Any}, Activate(e) PROVE TypeOK' /\ Ready' /\ Contiguous'
  <2>1. e \in Generations \cup {Any} BY HostAssumption DEF Generations
  <2> QED BY <1>2, <2>1, ActivateInv
<1>3. ASSUME NEW n \in Connections, Provide(n) \/ Drop(n, "fenced") \/ Drop(n, "closed") PROVE UNCHANGED hostVars
  BY <1>3 DEF Provide, Drop
<1>4. CASE Ask \/ Time \/ Tick BY <1>1, <1>4 DEF Ask, Time, Tick
<1>5. CASE UNCHANGED vars BY <1>1, <1>5 DEF vars
<1>6. CASE Start \/ Stop("call") \/ Stop("bus") \/ Emit \/ ActivateOnce
  BY <1>6, StartInv, StopInv, EmitInv, ActivateOnceInv
<1>7. ASSUME NEW ok \in BOOLEAN, GateAnswers(ok) \/ StopEnds(ok) PROVE TypeOK' /\ Ready' /\ Contiguous'
  BY <1>7, GateInv, StopEndsInv
<1> QED BY <1>1, <1>2, <1>3, <1>4, <1>5, <1>6, <1>7 DEF Next

\* A contiguous ring and an honest gap are all the events after any cursor.
LEMMA ReplayIs == IInv => ReplayIsComplete
<1> SUFFICES ASSUME IInv, NEW g \in 1 .. generation, NEW last \in 0 .. seq, g = generation
             PROVE  Replayed(last, g) = (IF Gap(last, g) = "none" THEN last + 1 ELSE Oldest) .. seq
  BY DEF ReplayIsComplete, Gap
<1> DEFINE n == Len(frames)
           from == IF Gap(last, g) = "none" THEN last + 1 ELSE Oldest
<1>1. /\ seq \in Nat /\ n \in Nat /\ n <= seq /\ last \in Nat
      /\ \A i \in 1 .. n : frames[i] = seq - n + i
  BY DEF IInv, TypeOK, Contiguous
<1>2. Oldest = seq - n + 1
  <2>1. CASE frames = <<>> BY <2>1, <1>1 DEF Oldest
  <2>2. CASE frames # <<>>
    <3>1. 1 \in 1 .. n BY <2>2, <1>1 DEF IInv, TypeOK
    <3> QED BY <2>2, <3>1, <1>1 DEF Oldest
  <2> QED BY <2>1, <2>2
<1>3. Gap(last, g) = IF last + 1 < Oldest THEN "sequence_gap" ELSE "none" BY DEF Gap
<1>4. from \in Int /\ from >= Oldest /\ (Gap(last, g) = "none" => from = last + 1) /\ (Gap(last, g) # "none" => from = Oldest)
  BY <1>1, <1>2, <1>3
<1> HIDE DEF n, from
<1>5. ASSUME NEW v \in Replayed(last, g) PROVE v \in from .. seq
  <2>1. PICK i \in 1 .. n : v = frames[i] /\ (frames[i] > last \/ Gap(last, g) # "none")
    BY DEF Replayed, n
  <2>2. v = seq - n + i BY <2>1, <1>1
  <2> QED BY <2>1, <2>2, <1>1, <1>2, <1>4
<1>6. ASSUME NEW v \in from .. seq PROVE v \in Replayed(last, g)
  <2> DEFINE i == v - seq + n
  <2>1. i \in 1 .. n BY <1>1, <1>2, <1>4
  <2>2. frames[i] = seq - n + i BY <2>1, <1>1
  <2>3. frames[i] = v BY <2>2, <1>1, <1>4
  <2>4. frames[i] > last \/ Gap(last, g) # "none" BY <2>3, <1>1, <1>4
  <2> HIDE DEF i
  <2> QED BY <2>1, <2>3, <2>4 DEF Replayed, n
<1>7. Replayed(last, g) = from .. seq
  <2>1. Replayed(last, g) \subseteq from .. seq BY <1>5
  <2>2. from .. seq \subseteq Replayed(last, g) BY <1>6
  <2> QED BY Zenon, <2>1, <2>2
<1> QED BY <1>7 DEF from

\* Publishing is for the current generation, the first time, and authorized.
LEMMA ReadyStep ==
    ASSUME IInv, Next, NEW g \in Generations, published'[g] # published[g]
    PROVE  /\ host' = "started" /\ generation' = g
           /\ published[g] = 0 /\ (mode = "deferred" => g \in allowed')
<1>0. generation \in Nat /\ generation \in Generations /\ published \in [Generations -> Nat]
  BY DEF IInv, TypeOK, Generations
<1>1. CASE Start BY <1>0, <1>1 DEF Start, IInv, Ready
<1>2. CASE ActivateOnce
  <2>1. CASE Publish
    <3>1. g = generation BY <2>1, <1>0 DEF Publish
    <3> QED BY <1>2, <2>1, <3>1 DEF ActivateOnce, Publish, IInv, Ready, TypeOK
  <2> QED BY <2>1, <1>2 DEF ActivateOnce
<1>3. ASSUME NEW ok \in BOOLEAN, GateAnswers(ok)
      PROVE  /\ host' = "started" /\ generation' = g
             /\ published[g] = 0 /\ (mode = "deferred" => g \in allowed')
  <2>1. /\ ok /\ host = "started" /\ generation = asked /\ readyAt # generation /\ Publish
    BY <1>3 DEF GateAnswers
  <2>2. g = generation BY <2>1, <1>0 DEF Publish
  <2> QED BY <1>3, <2>1, <2>2 DEF GateAnswers, IInv, Ready
<1>4. CASE Stop("call") \/ Stop("bus") \/ Emit BY <1>4 DEF Stop, Emit, activationVars
<1>5. ASSUME NEW e, Activate(e) PROVE FALSE BY <1>5 DEF Activate
<1>6. ASSUME NEW ok \in BOOLEAN, StopEnds(ok) PROVE FALSE BY <1>6 DEF StopEnds, activationVars
<1>7. ASSUME NEW n \in Connections, Provide(n) \/ Drop(n, "fenced") \/ Drop(n, "closed") PROVE FALSE
  BY <1>7 DEF Provide, Drop, hostVars
<1>8. CASE Ask \/ Time \/ Tick BY <1>8 DEF Ask, Time, Tick, hostVars
<1> QED BY <1>1, <1>2, <1>3, <1>4, <1>5, <1>6, <1>7, <1>8 DEF Next

\* A lease that has not lapsed changes hands by its holder's word.
LEMMA HandStep ==
    ASSUME IInv, [Next]_vars, NEW c \in Capabilities, Fresh(c), leases'[c] # None, leases'[c].conn # leases[c].conn
    PROVE  leases[c].use = "active" /\ leases'[c].use = "reserved"
<1>0. leases \in [Capabilities -> Leases \cup {None}] /\ leases[c] \in Leases
  BY DEF IInv, LInv, LeasesTypeOK, Fresh, Held
<1>1. ASSUME NEW n \in Connections, NEW x \in Capabilities, NEW d \in Definitions, NEW expected, Register(n, x, d, expected)
      PROVE  FALSE
  <2>1. x = c BY <1>0, <1>1 DEF Register
  <2>2. leases'[c].conn = n BY <1>0, <1>1, <2>1 DEF Register
  <2>3. leases[c].grace # "open" BY DEF IInv, LInv, Backed, Fresh
  <2>4. ~Conflict(c, n, expected) BY <1>1, <2>1 DEF Register
  <2> QED BY <2>2, <2>3, <2>4, <1>0 DEF Conflict, PendingHandoff, Reclaiming, Fresh, Held
<1>2. ASSUME NEW n \in Connections, NEW x \in Capabilities, NEW to \in Connections \cup {None}, Release(n, x, to)
      PROVE  leases[c].use = "active" /\ leases'[c].use = "reserved"
  <2>1. x = c BY <1>0, <1>2 DEF Release
  <2>2. to # None /\ leases'[c] = [leases[c] EXCEPT !.conn = to, !.use = "reserved", !.time = "fresh", !.grace = "none"]
    BY <1>0, <1>2, <2>1 DEF Release
  <2> QED BY <1>0, <1>2, <2>1, <2>2 DEF Release, Leases
<1>3. ASSUME NEW n \in Connections, NEW to, Disconnect(n, to) PROVE FALSE
  <2>1. leases'[c] = leases[c] \/ leases'[c] = [leases[c] EXCEPT !.time = "lapsed", !.grace = "open"]
    BY Zenon, <1>3 DEF Disconnect
  <2> QED BY Zenon, <2>1, <1>0 DEF Leases
<1>4. ASSUME NEW x \in Capabilities, Lapse(x) \/ GraceEnds(x) PROVE FALSE
  <2>1. \/ leases'[c] = leases[c] \/ leases'[c] = [leases[c] EXCEPT !.time = "lapsed"]
        \/ leases'[c] = [leases[c] EXCEPT !.grace = "none"]
    BY <1>0, <1>4 DEF Lapse, GraceEnds
  <2> QED BY <2>1, <1>0 DEF Leases
<1>5. Dispose => FALSE BY DEF Dispose
<1>6. UNCHANGED leases => FALSE OBVIOUS
<1>7. ASSUME NEW n \in Connections, Provide(n) PROVE leases[c].use = "active" /\ leases'[c].use = "reserved"
  BY <1>1, <1>2, <1>6, <1>7 DEF Provide, Respond, Take
<1>8. CASE Start \/ Stop("call") \/ Stop("bus") \/ Emit \/ ActivateOnce \/ Ask \/ Time \/ Tick \/ UNCHANGED vars
  BY Zenon, <1>4, <1>6, <1>8 DEF Start, Stop, Emit, ActivateOnce, Ask, Time, Tick, Request, GiveUp, Take, Notice, Sweep, vars, leaseVars
<1>9. ASSUME NEW e, Activate(e) PROVE FALSE BY <1>9 DEF Activate, leaseVars
<1>10. ASSUME NEW ok \in BOOLEAN, GateAnswers(ok) \/ StopEnds(ok) PROVE FALSE
  BY <1>5, <1>10 DEF GateAnswers, StopEnds, leaseVars
<1>11. ASSUME NEW n \in Connections, Drop(n, "fenced") \/ Drop(n, "closed") PROVE FALSE BY <1>3, <1>11 DEF Drop
<1> QED BY <1>7, <1>8, <1>9, <1>10, <1>11 DEF Next

-----------------------------------------------------------------------------
\* IInv holds in every reachable state.
THEOREM Invariance == Spec => []IInv
BY InitIInv, NextIInv, PTL DEF Spec

\* The host and the registry keep their shapes.
THEOREM TypeCorrect == Spec => []TypeOK
BY Invariance, PTL DEF IInv

\* What is wired into the session is what the live provider declared.
THEOREM LiveIsInstalled == Spec => []LiveLeaseIsInstalled
BY Invariance, PTL DEF IInv, LInv

\* Every request under way is with an open connection, and with the holder of its lease.
THEOREM RequestsAreAnswerable == Spec => []RequestsFollowLease
BY Invariance, PTL DEF IInv, LInv

\* A replay and the gap it reports are complete.
THEOREM ReplayComplete == Spec => []ReplayIsComplete
BY Invariance, ReplayIs, PTL

\* Nobody takes a lease from a holder that is alive.
THEOREM HandoffIsGranted == Spec => HolderDecides
<1>1. IInv /\ [Next]_vars =>
        [\A c \in Capabilities :
           Fresh(c) /\ leases'[c] # None /\ leases'[c].conn # leases[c].conn
             => leases[c].use = "active" /\ leases'[c].use = "reserved"]_leaseVars
  BY HandStep
<1> QED BY <1>1, Invariance, PTL DEF Spec, HolderDecides

\* Readiness is published once in a generation, authorized, and never in a teardown.
THEOREM ReadinessIsAuthorized == Spec => ReadyIsAuthorized
<1>1. IInv /\ [Next]_vars =>
        [\A g \in Generations : published'[g] # published[g] =>
           /\ host' = "started" /\ generation' = g
           /\ published[g] = 0 /\ (mode = "deferred" => g \in allowed')]_vars
  BY ReadyStep
<1> QED BY <1>1, Invariance, PTL DEF Spec, ReadyIsAuthorized

-----------------------------------------------------------------------------
(* The teardown *)

Empty == /\ \A c \in Capabilities : leases[c] = None /\ installed[c] = None
         /\ \A r \in Requests : outstanding[r] = None

\* Once the bus has disposed of the registry it stays empty: nobody waits for a provider and
\* nothing is wired into the session, whatever frames, timers and closing connections follow.
TornDown == disposed => Empty

\* A host that is stopping, or whose registry is disposed of, does not listen, and stays off.
Deaf == /\ stopping # "no" => host # "off" /\ ~listening
        /\ disposed => ~listening

\* An empty registry to which nobody speaks stays empty.
LEMMA StaysEmpty == ASSUME LeasesTypeOK, Empty, ~listening, [Next]_vars PROVE Empty'
<1>1. /\ \A c \in Capabilities : leases[c] = None /\ installed[c] = None /\ ~Held(c) /\ ~Live(c) /\ ~Lapsed(c) /\ ~Fresh(c)
      /\ \A r \in Requests : outstanding[r] = None
  BY DEF Empty, Held, Live, Lapsed, Fresh
<1>2. UNCHANGED leaseVars => Empty' BY Zenon DEF leaseVars, Empty
<1>3. Dispose => Empty' BY DEF Dispose, Empty
<1>4. CASE \/ Start \/ Stop("call") \/ Stop("bus") \/ Emit \/ ActivateOnce \/ UNCHANGED vars
           \/ (\E e \in 1 .. MaxGenerations \cup {Any} : Activate(e)) \/ (\E ok \in BOOLEAN : GateAnswers(ok))
  BY Zenon, <1>2, <1>4 DEF Start, Stop, Emit, ActivateOnce, Activate, GateAnswers, vars
<1>5. CASE \E ok \in BOOLEAN : StopEnds(ok) BY Zenon, <1>2, <1>3, <1>5 DEF StopEnds, leaseVars
<1>6. ASSUME NEW n \in Connections, Provide(n) PROVE FALSE BY <1>6 DEF Provide, Speaks
<1>7. ASSUME NEW n \in Connections, Drop(n, "fenced") \/ Drop(n, "closed") PROVE Empty'
  <2>1. /\ leases' = [c \in Capabilities |-> IF Held(c) /\ leases[c].conn = n
                                             THEN [leases[c] EXCEPT !.time = "lapsed", !.grace = "open"]
                                             ELSE leases[c]]
        /\ installed' = [c \in Capabilities |-> IF Held(c) /\ leases[c].conn = n THEN None ELSE installed[c]]
        /\ outstanding' = Cancelled(n)
    BY Zenon, <1>7 DEF Drop, Disconnect
  <2> QED BY Zenon, <1>1, <2>1 DEF Empty, Cancelled
<1>8. CASE Ask BY Zenon, <1>1, <1>8 DEF Ask, Request, GiveUp, Take, Notice
<1>9. CASE Time BY Zenon, <1>1, <1>9 DEF Time, Lapse, GraceEnds
<1>10. CASE Tick BY Zenon, <1>1, <1>10 DEF Tick, Sweep
<1> QED BY Zenon, <1>4, <1>5, <1>6, <1>7, <1>8, <1>9, <1>10 DEF Next

\* Only a start listens, and a host that is stopping or disposed of is not started.
LEMMA StaysDeaf == ASSUME Deaf, [Next]_vars PROVE Deaf'
<1>1. CASE UNCHANGED hostVars BY Zenon, <1>1 DEF Deaf, hostVars
<1>2. CASE UNCHANGED <<host, listening, stopping, disposed>> BY Zenon, <1>2 DEF Deaf
<1>3. CASE Start BY Zenon, <1>3 DEF Start, Deaf
<1>4. CASE Stop("call") \/ Stop("bus")
  <2>1. host' = "stopping" /\ listening' = FALSE BY Zenon, <1>4 DEF Stop
  <2>2. host' # "off" BY <2>1
  <2> QED BY Zenon, <2>1, <2>2 DEF Deaf
<1>5. CASE \E ok \in BOOLEAN : StopEnds(ok)
  <2>1. stopping # "no" /\ stopping' = "no" /\ listening' = listening BY Zenon, <1>5 DEF StopEnds
  <2> QED BY Zenon, <2>1 DEF Deaf
<1> QED BY Zenon, <1>1, <1>2, <1>3, <1>4, <1>5 DEF Next, vars, hostVars, Emit, Activate, ActivateOnce, GateAnswers, Provide, Drop,
           Ask, Time, Tick

\* A registry that was disposed of, when unregister returned or threw, is empty for good.
THEOREM TeardownIsFinal == Spec => []TornDown
<1>1. Init => Deaf /\ TornDown BY DEF Init, Deaf, TornDown
<1>2. IInv /\ Deaf /\ TornDown /\ [Next]_vars => Deaf' /\ TornDown'
  <2> SUFFICES ASSUME IInv, Deaf, TornDown, [Next]_vars, disposed' PROVE Empty'
    BY StaysDeaf DEF TornDown
  <2>1. CASE disposed BY Zenon, <2>1, StaysEmpty DEF IInv, LInv, Deaf, TornDown
  <2>2. CASE ~disposed
    <3>1. Dispose BY Zenon, <2>2 DEF Next, vars, hostVars, Start, Stop, StopEnds, Emit, Activate, ActivateOnce, GateAnswers,
                     Provide, Drop, Ask, Time, Tick
    <3> QED BY <3>1 DEF Dispose, Empty
  <2> QED BY <2>1, <2>2
<1> QED BY <1>1, <1>2, Invariance, PTL DEF Spec

=============================================================================
