------------------------ MODULE SessionControlProofs ------------------------
(* What the writers of state.json preserve, for any number of concurrent     *)
(* calls of any verbs.  Every writer computes the next record from a copy of *)
(* its own that may be arbitrarily old, so the invariant speaks of the       *)
(* copies as much as of the record.                                          *)
EXTENDS SessionControl, TLAPS

(* A record that may be written at any later time: p says that a completion  *)
(* has been observed or finalized, and never becomes false again.            *)
Good(s, p) ==
  /\ s.lifecycle = "completed" => p = TRUE
  /\ s.lifecycle = "blocked" => s.blockers # {}

GoodClient(k, p) == Good(k.copy, p) /\ (k.seen = Completed => p = TRUE)

IInv ==
  /\ TypeOK
  /\ Good(state, proof) /\ Good(pump.copy, proof)
  /\ pump.pc # "idle" => proof = TRUE
  /\ events = Completed => proof = TRUE
  /\ \A c \in Calls : GoodClient(client[c], proof) /\ Good(handler[c].copy, proof)

-----------------------------------------------------------------------------
(* The decisions *)

\* The log only grows, and only towards what is appended.
LEMMA LoggedIsKind ==
  ASSUME NEW log \in Kinds, NEW kind \in Kinds
  PROVE  Logged(log, kind) \in Kinds /\ (Logged(log, kind) \in {log, kind})
BY DEF Logged, Kinds

\* A live owner that takes its own blocker away leaves no session blocked by nothing.
LEMMA ReconcileLiveOwnerIsGood ==
  ASSUME NEW s \in States, NEW p, Good(s, p)
  PROVE  ReconcileLiveOwner(s) \in States /\ Good(ReconcileLiveOwner(s), p)
BY DEF ReconcileLiveOwner, States, Lifecycles, Good

\* A recovery that clears the vanish leaves no session blocked by nothing.
LEMMA VanishClearedIsGood ==
  ASSUME NEW s \in States, NEW p, Good(s, p)
  PROVE  VanishCleared(s) \in States /\ Good(VanishCleared(s), p)
BY DEF VanishCleared, States, Lifecycles, Good

\* A caller completes a session only when it saw a completion, and blocks it with a reason.
LEMMA ReconciledIsGood ==
  ASSUME NEW k \in Clients, NEW p, GoodClient(k, p)
  PROVE  Reconciled(k) \in States /\ Good(Reconciled(k), p)
<1> DEFINE s1 == IF Completes(k.copy, k)
                 THEN [lifecycle |-> "completed", blockers |-> k.copy.blockers \ OwnerLivenessBlockers]
                 ELSE k.copy
           s2 == IF NeedsVanishedOwnerBlock(s1, k) THEN Blocked(s1, "owner-vanished") ELSE s1
<1>1. k.copy \in States  BY DEF Clients
<1>2. s1 \in States /\ Good(s1, p)
  BY <1>1 DEF Completes, States, Lifecycles, Good, GoodClient
<1>3. ASSUME NEW s \in States, NEW b \in Blockers
      PROVE  Blocked(s, b) \in States /\ Good(Blocked(s, b), p)
  BY DEF Blocked, States, Lifecycles, Good
<1>4. s2 \in States /\ Good(s2, p)
  <2>1. "owner-vanished" \in Blockers  BY DEF Blockers
  <2> HIDE DEF s1
  <2> QED  BY <1>2, <1>3, <2>1
<1>5. "owner-died-before-first-prompt" \in Blockers  BY DEF Blockers
<1>6. Reconciled(k) = IF StartupBlocker(k) /\ ~IsTerminal(s2.lifecycle)
                      THEN Blocked(s2, "owner-died-before-first-prompt") ELSE s2
  BY DEF Reconciled
<1> HIDE DEF s1, s2
<1> QED  BY <1>3, <1>4, <1>5, <1>6

\* A caller that moves on keeps a good copy, or forgets it.
LEMMA AtIsGood ==
  ASSUME NEW k \in Clients, NEW p, GoodClient(k, p), NEW pc \in ClientPlaces
  PROVE  At(k, pc) \in Clients /\ GoodClient(At(k, pc), p)
<1>1. CASE pc = "done"
  <2>1. At(k, pc) = [pc |-> "done", verb |-> k.verb, copy |-> NewState, seen |-> 0, git |-> "clean",
                     ran |-> 0, lease |-> "none"]
    BY Zenon, <1>1 DEF At, IdleClient
  <2>2. NewState \in States /\ Good(NewState, p)  BY DEF NewState, States, Lifecycles, Good
  <2> QED  BY <2>1, <2>2 DEF Clients, ClientPlaces, Kinds, Leases, GoodClient, Completed
<1>2. CASE pc # "done"
  <2>1. At(k, pc) = [k EXCEPT !.pc = pc]  BY <1>2 DEF At
  <2> QED  BY <2>1 DEF Clients, GoodClient
<1> QED  BY <1>1, <1>2

\* Whatever its verb, a caller that has its copy goes to a place.
LEMMA FirstLookIsPlace ==
  ASSUME NEW v, NEW s
  PROVE  FirstLook(v, s) \in ClientPlaces
BY DEF FirstLook, ClientPlaces

-----------------------------------------------------------------------------
(* The callers *)

\* A step of one caller that leaves the owner's side alone preserves IInv if it leaves
\* the caller, the record and the log good.
LEMMA ClientMoves ==
  ASSUME IInv, NEW c \in Calls, NEW k \in Clients, GoodClient(k, proof),
         client' = [client EXCEPT ![c] = k], UNCHANGED <<git, busy, pump, starter, handler, proof>>,
         state' \in States, Good(state', proof), events' \in Kinds, events' = Completed => proof = TRUE,
         owner' \in Leases, made' \in 0 .. MaxCalls
  PROVE  IInv'
<1>1. TypeOK'  BY DEF IInv, TypeOK
<1>2. \A d \in Calls : GoodClient(client'[d], proof')  BY DEF IInv, TypeOK
<1> QED  BY <1>1, <1>2 DEF IInv

\* The same, for a step that changes nothing but the caller.
LEMMA OnlyClientMoves ==
  ASSUME IInv, NEW c \in Calls, NEW k \in Clients, GoodClient(k, proof),
         client' = [client EXCEPT ![c] = k], OnlyClient
  PROVE  IInv'
BY ClientMoves DEF OnlyClient, IInv, TypeOK

\* What IInv says of one caller.
LEMMA ClientIsGood ==
  ASSUME IInv, NEW c \in Calls
  PROVE  client[c] \in Clients /\ GoodClient(client[c], proof)
BY DEF IInv, TypeOK

\* Invoking the command line.
LEMMA CallStep ==
  ASSUME IInv, NEW c \in Calls, NEW v \in Verbs, Call(c, v)
  PROVE  IInv'
<1> DEFINE place == CASE v = "submit" -> "gate" [] v = "classify" -> "load" [] OTHER -> "route"
           k == [client[c] EXCEPT !.verb = v, !.pc = place]
<1>1. client[c] \in Clients /\ GoodClient(client[c], proof)  BY ClientIsGood
<1>2. place \in ClientPlaces  BY DEF ClientPlaces
<1>3. v \in AllVerbs  BY VerbsAssumption
<1>4. k \in Clients /\ GoodClient(k, proof)
  <2> HIDE DEF place
  <2> QED  BY Zenon, <1>1, <1>2, <1>3 DEF Clients, GoodClient
<1>5. client' = [client EXCEPT ![c] = k]  BY Zenon DEF Call, IInv, TypeOK
<1>6. made' \in 0 .. MaxCalls  BY MaxCallsAssumption DEF Call, IInv, TypeOK
<1> HIDE DEF k
<1> QED  BY <1>4, <1>5, <1>6, ClientMoves DEF Call, IInv, TypeOK

\* The submit gate reads the record.
LEMMA SubmitGateStep ==
  ASSUME IInv, NEW c \in Calls, SubmitGate(c)
  PROVE  IInv'
<1> DEFINE l == [client[c] EXCEPT !.copy = state]
           k == IF SubmitReady(state.lifecycle) THEN At(client[c], "route")
                ELSE At(l, FirstLook("submit", state))
<1>1. client[c] \in Clients /\ GoodClient(client[c], proof)  BY ClientIsGood
<1>2. l \in Clients /\ GoodClient(l, proof)  BY <1>1 DEF Clients, GoodClient, IInv, TypeOK
<1>3. k \in Clients /\ GoodClient(k, proof)
  <2>1. "route" \in ClientPlaces  BY DEF ClientPlaces
  <2> HIDE DEF l
  <2> QED  BY <1>1, <1>2, <2>1, AtIsGood, FirstLookIsPlace
<1>4. client' = [client EXCEPT ![c] = k]  BY DEF SubmitGate
<1>5. OnlyClient  BY DEF SubmitGate
<1> HIDE DEF k
<1> QED  BY Zenon, <1>3, <1>4, <1>5, OnlyClientMoves

\* A caller without an owner loads the record.
LEMMA LoadStep ==
  ASSUME IInv, NEW c \in Calls, Load(c)
  PROVE  IInv'
<1> DEFINE l == [client[c] EXCEPT !.copy = state]
           k == At(l, FirstLook(client[c].verb, state))
<1>1. client[c] \in Clients /\ GoodClient(client[c], proof)  BY ClientIsGood
<1>2. l \in Clients /\ GoodClient(l, proof)  BY <1>1 DEF Clients, GoodClient, IInv, TypeOK
<1>3. k \in Clients /\ GoodClient(k, proof)
  <2> HIDE DEF l
  <2> QED  BY <1>2, AtIsGood, FirstLookIsPlace
<1>4. client' = [client EXCEPT ![c] = k]  BY DEF Load
<1>5. OnlyClient  BY DEF Load
<1> HIDE DEF k
<1> QED  BY Zenon, <1>3, <1>4, <1>5, OnlyClientMoves

\* A caller moves on and does nothing else.
LEMMA StepOnlyStep ==
  ASSUME IInv, NEW c \in Calls, NEW pc \in ClientPlaces, Step(c, pc), OnlyClient
  PROVE  IInv'
<1>1. client[c] \in Clients /\ GoodClient(client[c], proof)  BY ClientIsGood
<1>2. At(client[c], pc) \in Clients /\ GoodClient(At(client[c], pc), proof)  BY <1>1, AtIsGood
<1>3. client' = [client EXCEPT ![c] = At(client[c], pc)]  BY DEF Step
<1> QED  BY Zenon, <1>2, <1>3, OnlyClientMoves

\* A caller looks at git and the log: a completion it sees there has been proved.
LEMMA LookAtSessionStep ==
  ASSUME IInv, NEW c \in Calls, LookAtSession(c)
  PROVE  IInv'
<1> DEFINE k == [client[c] EXCEPT !.seen = events, !.git = git,
                                  !.pc = IF client[c].verb = "observe" THEN "lease" ELSE "act"]
<1>1. client[c] \in Clients /\ GoodClient(client[c], proof)  BY ClientIsGood
<1>2. k \in Clients /\ GoodClient(k, proof)
  BY Zenon, <1>1, DeltasAssumption DEF Clients, ClientPlaces, GoodClient, IInv, TypeOK
<1>3. client' = [client EXCEPT ![c] = k]  BY Zenon DEF LookAtSession, IInv, TypeOK
<1>4. OnlyClient  BY DEF LookAtSession
<1> HIDE DEF k
<1> QED  BY Zenon, <1>2, <1>3, <1>4, OnlyClientMoves

\* A caller looks at the lease and the log.
LEMMA LookAtLeaseStep ==
  ASSUME IInv, NEW c \in Calls, LookAtLease(c)
  PROVE  IInv'
<1> DEFINE k == [client[c] EXCEPT !.ran = events, !.lease = owner,
                                  !.pc = IF client[c].verb = "observe" THEN "act" ELSE "session"]
<1>1. client[c] \in Clients /\ GoodClient(client[c], proof)  BY ClientIsGood
<1>2. k \in Clients /\ GoodClient(k, proof)
  BY Zenon, <1>1 DEF Clients, ClientPlaces, GoodClient, IInv, TypeOK
<1>3. client' = [client EXCEPT ![c] = k]  BY Zenon DEF LookAtLease, IInv, TypeOK
<1>4. OnlyClient  BY DEF LookAtLease
<1> HIDE DEF k
<1> QED  BY Zenon, <1>2, <1>3, <1>4, OnlyClientMoves

\* A caller reconciles its copy and may write it.
LEMMA ReconcileStep ==
  ASSUME IInv, NEW c \in Calls, Reconcile(c)
  PROVE  IInv'
<1> DEFINE s == Reconciled(client[c])
           l == [client[c] EXCEPT !.copy = s]
           k == At(l, IF client[c].verb = "recover" THEN "decide" ELSE "done")
<1>1. client[c] \in Clients /\ GoodClient(client[c], proof)  BY ClientIsGood
<1>2. s \in States /\ Good(s, proof)  BY <1>1, ReconciledIsGood
<1>3. client' = [client EXCEPT ![c] = k] /\ state' \in {state, s}  BY DEF Reconcile
<1>4. l \in Clients /\ GoodClient(l, proof)
  <2> HIDE DEF s
  <2> QED  BY <1>1, <1>2 DEF Clients, GoodClient
<1>5. k \in Clients /\ GoodClient(k, proof)
  <2>1. {"decide", "done"} \subseteq ClientPlaces  BY DEF ClientPlaces
  <2> HIDE DEF l
  <2> QED  BY <1>4, <2>1, AtIsGood
<1>6. state' \in States /\ Good(state', proof)
  <2> HIDE DEF s
  <2> QED  BY <1>2, <1>3 DEF IInv, TypeOK
<1> HIDE DEF k
<1> QED  BY <1>3, <1>5, <1>6, ClientMoves DEF Reconcile, IInv, TypeOK

\* Retiring without an owner writes an old copy as retired.
LEMMA RetireStep ==
  ASSUME IInv, NEW c \in Calls, Retire(c)
  PROVE  IInv'
<1>1. client[c] \in Clients /\ GoodClient(client[c], proof)  BY ClientIsGood
<1>2. "done" \in ClientPlaces  BY DEF ClientPlaces
<1>3. At(client[c], "done") \in Clients /\ GoodClient(At(client[c], "done"), proof)
  BY <1>1, <1>2, AtIsGood
<1>4. state' \in States /\ Good(state', proof)
  BY <1>1 DEF Retire, Clients, States, Lifecycles, Good, IInv, TypeOK
<1> QED  BY <1>3, <1>4, ClientMoves DEF Retire, Step, IInv, TypeOK

\* A spawn, refused, given up or successful, appends no completion.
LEMMA SpawnIsGood ==
  ASSUME IInv, NEW live \in BOOLEAN, SpawnDetachedOwner(live)
  PROVE  owner' \in Leases /\ events' \in Kinds /\ (events' = Completed => proof = TRUE)
<1>1. OwnerStarted \in Kinds /\ OwnerStarted # Completed  BY DEF OwnerStarted, Completed, Kinds
<1>2. events \in Kinds /\ owner \in Leases  BY DEF IInv, TypeOK
<1>3. Logged(events, OwnerStarted) \in Kinds /\ Logged(events, OwnerStarted) \in {events, OwnerStarted}
  BY <1>1, <1>2, LoggedIsKind
<1> QED  BY <1>1, <1>2, <1>3 DEF SpawnDetachedOwner, Leases, IInv

\* recover respawns an owner ...
LEMMA RespawnStep ==
  ASSUME IInv, NEW c \in Calls, Respawn(c)
  PROVE  IInv'
<1>1. client[c] \in Clients /\ GoodClient(client[c], proof)  BY ClientIsGood
<1>2. PICK live \in BOOLEAN : SpawnDetachedOwner(live) /\ Step(c, IF live THEN "restore" ELSE "done")
  BY DEF Respawn
<1> DEFINE k == At(client[c], IF live THEN "restore" ELSE "done")
<1>3. {"restore", "done"} \subseteq ClientPlaces  BY DEF ClientPlaces
<1>4. k \in Clients /\ GoodClient(k, proof)  BY <1>1, <1>3, AtIsGood
<1>5. client' = [client EXCEPT ![c] = k]  BY <1>2 DEF Step
<1> HIDE DEF k
<1> QED  BY Zenon, <1>2, <1>4, <1>5, SpawnIsGood, ClientMoves DEF Respawn, IInv, TypeOK

\* ... and restores its old copy, as observing.
LEMMA RestoreStep ==
  ASSUME IInv, NEW c \in Calls, Restore(c)
  PROVE  IInv'
<1>1. client[c] \in Clients /\ GoodClient(client[c], proof)  BY ClientIsGood
<1>2. "done" \in ClientPlaces  BY DEF ClientPlaces
<1>3. At(client[c], "done") \in Clients /\ GoodClient(At(client[c], "done"), proof)
  BY <1>1, <1>2, AtIsGood
<1>4. state' \in States /\ Good(state', proof)
  BY <1>1 DEF Restore, Clients, States, Lifecycles, Good, IInv, TypeOK
<1> QED  BY <1>3, <1>4, ClientMoves DEF Restore, Step, IInv, TypeOK

\* A call reaches the owner, and a handler starts.
LEMMA RouteStep ==
  ASSUME IInv, NEW c \in Calls, Route(c)
  PROVE  IInv'
<1>1. client[c] \in Clients /\ GoodClient(client[c], proof)  BY ClientIsGood
<1>2. "waiting" \in ClientPlaces  BY DEF ClientPlaces
<1> DEFINE k == At(client[c], "waiting")
           h == [IdleHandler EXCEPT !.pc = "load", !.verb = client[c].verb]
<1>3. k \in Clients /\ GoodClient(k, proof)  BY <1>1, <1>2, AtIsGood
<1>4. h \in Handlers /\ Good(h.copy, proof)
  <2>1. IdleHandler \in Handlers /\ Good(IdleHandler.copy, proof)
    BY DEF IdleHandler, Handlers, HandlerPlaces, NewState, States, Lifecycles, Good
  <2>2. client[c].verb \in AllVerbs \cup {"none"} /\ "load" \in HandlerPlaces
    BY <1>1 DEF Clients, HandlerPlaces
  <2> QED  BY Zenon, <2>1, <2>2 DEF Handlers
<1>5. client' = [client EXCEPT ![c] = k] /\ handler' = [handler EXCEPT ![c] = h]
  BY DEF Route, Step
<1> HIDE DEF k, h
<1>6. TypeOK'  BY <1>3, <1>4, <1>5 DEF Route, IInv, TypeOK
<1>7. \A d \in Calls : GoodClient(client'[d], proof') /\ Good(handler'[d].copy, proof')
  BY Zenon, <1>3, <1>4, <1>5 DEF Route, IInv, TypeOK
<1> QED  BY <1>6, <1>7 DEF Route, IInv

\* Every step of a caller.
LEMMA ClientStep ==
  ASSUME IInv, NEW c \in Calls, ClientNext(c)
  PROVE  IInv'
<1>1. {"load", "spawn", "done"} \subseteq ClientPlaces  BY DEF ClientPlaces
<1>2. CASE Unrouted(c) \/ GiveUp(c) \/ Decide(c)
  BY <1>1, <1>2, StepOnlyStep DEF Unrouted, GiveUp, Decide
<1> QED  BY <1>2, SubmitGateStep, RouteStep, LoadStep, LookAtSessionStep, LookAtLeaseStep, ReconcileStep,
            RetireStep, RespawnStep, RestoreStep DEF ClientNext

-----------------------------------------------------------------------------
(* The handlers *)

\* A step of one handler preserves IInv if its copy, the record and the log are good
\* with respect to what has been proved by then.
LEMMA HandlerMoves ==
  ASSUME IInv, NEW c \in Calls, NEW h \in Handlers, handler' = [handler EXCEPT ![c] = h],
         proof' \in BOOLEAN, proof = TRUE => proof' = TRUE, Good(h.copy, proof'),
         state' \in States, Good(state', proof'),
         events' \in Kinds, events' = Completed => proof' = TRUE, busy' \in BOOLEAN,
         UNCHANGED <<made, owner, git, pump, starter, client>>
  PROVE  IInv'
<1>1. TypeOK'  BY DEF IInv, TypeOK
<1>2. \A d \in Calls : GoodClient(client'[d], proof') /\ Good(handler'[d].copy, proof')
  BY DEF IInv, TypeOK, GoodClient, Good
<1>3. Good(pump'.copy, proof') /\ (pump'.pc # "idle" => proof' = TRUE)  BY DEF IInv, Good
<1> QED  BY <1>1, <1>2, <1>3 DEF IInv

\* The same, for a step that changes nothing but the handler.
LEMMA OnlyHandlerMoves ==
  ASSUME IInv, NEW c \in Calls, NEW h \in Handlers, handler' = [handler EXCEPT ![c] = h],
         Good(h.copy, proof), OnlyHandler
  PROVE  IInv'
BY HandlerMoves DEF OnlyHandler, IInv, TypeOK

\* What IInv says of one handler.
LEMMA HandlerIsGood ==
  ASSUME IInv, NEW c \in Calls
  PROVE  handler[c] \in Handlers /\ handler[c].copy \in States /\ Good(handler[c].copy, proof)
BY DEF IInv, TypeOK, Handlers

\* A handler that moves on keeps a good copy, or forgets it.
LEMMA HandleIsGood ==
  ASSUME IInv, NEW c \in Calls, NEW place \in HandlerPlaces, Handle(c, place)
  PROVE  \E h \in Handlers : handler' = [handler EXCEPT ![c] = h] /\ Good(h.copy, proof)
<1>1. handler[c] \in Handlers /\ handler[c].copy \in States /\ Good(handler[c].copy, proof)
  BY HandlerIsGood
<1>2. NewState \in States /\ Good(NewState, proof)  BY DEF NewState, States, Lifecycles, Good
<1> DEFINE s == IF place = "reply" THEN NewState ELSE handler[c].copy
           h == [handler[c] EXCEPT !.pc = place, !.copy = s]
<1>3. s \in States /\ Good(s, proof)  BY <1>1, <1>2
<1>4. handler' = [handler EXCEPT ![c] = h]  BY Zenon DEF Handle, IInv, TypeOK
<1>5. h \in Handlers /\ h.copy = s
  <2> HIDE DEF s
  <2> QED  BY Zenon, <1>1, <1>3 DEF Handlers
<1> HIDE DEF h, s
<1> QED  BY Zenon, <1>3, <1>4, <1>5

\* A handler moves on and does nothing else.
LEMMA HandleOnlyStep ==
  ASSUME IInv, NEW c \in Calls, NEW place \in HandlerPlaces, Handle(c, place), OnlyHandler
  PROVE  IInv'
<1>1. PICK h \in Handlers : handler' = [handler EXCEPT ![c] = h] /\ Good(h.copy, proof)
  BY HandleIsGood
<1> QED  BY Zenon, <1>1, OnlyHandlerMoves

\* A handler takes a copy and moves on.
LEMMA CopyStep ==
  ASSUME IInv, NEW c \in Calls, NEW s \in States, NEW place \in HandlerPlaces,
         handler' = [handler EXCEPT ![c].copy = s, ![c].pc = place],
         proof' \in BOOLEAN, proof = TRUE => proof' = TRUE, Good(s, proof'),
         UNCHANGED <<made, state, events, owner, git, busy, pump, starter, client>>
  PROVE  IInv'
<1> DEFINE h == [handler[c] EXCEPT !.copy = s, !.pc = place]
<1>1. handler[c] \in Handlers  BY HandlerIsGood
<1>2. h \in Handlers /\ h.copy = s  BY Zenon, <1>1 DEF Handlers
<1>3. handler' = [handler EXCEPT ![c] = h]  BY Zenon DEF IInv, TypeOK
<1>4. Good(state', proof') /\ (events' = Completed => proof' = TRUE)  BY DEF IInv, Good
<1> HIDE DEF h
<1> QED  BY Zenon, <1>2, <1>3, <1>4, HandlerMoves DEF IInv, TypeOK

\* A handler changes the lifecycle of its copy to one that needs neither proof nor reason.
LEMMA LifecycleStep ==
  ASSUME IInv, NEW c \in Calls, NEW l \in {"observing", "validating", "retired"},
         handler' = [handler EXCEPT ![c].copy.lifecycle = l, ![c].pc = "write"], OnlyHandler
  PROVE  IInv'
<1> DEFINE s == [handler[c].copy EXCEPT !.lifecycle = l]
<1>1. handler[c] \in Handlers /\ handler[c].copy \in States  BY HandlerIsGood
<1>2. s \in States /\ Good(s, proof)  BY <1>1 DEF States, Lifecycles, Good
<1>3. handler' = [handler EXCEPT ![c].copy = s, ![c].pc = "write"]  BY <1>1 DEF IInv, TypeOK, Handlers
<1>4. "write" \in HandlerPlaces  BY DEF HandlerPlaces
<1> HIDE DEF s
<1> QED  BY Zenon, <1>2, <1>3, <1>4, CopyStep DEF OnlyHandler, IInv, TypeOK

\* A handler loads the record and corrects it.
LEMMA LoadStateStep ==
  ASSUME IInv, NEW c \in Calls, LoadState(c)
  PROVE  IInv'
<1> DEFINE s == ReconcileLiveOwner(state)
           place == IF s = state THEN "work" ELSE "fix"
<1>1. s \in States /\ Good(s, proof)  BY ReconcileLiveOwnerIsGood DEF IInv, TypeOK
<1>2. place \in HandlerPlaces  BY DEF HandlerPlaces
<1>3. handler' = [handler EXCEPT ![c].copy = s, ![c].pc = place] /\ OnlyHandler  BY DEF LoadState
<1> HIDE DEF s, place
<1> QED  BY Zenon, <1>1, <1>2, <1>3, CopyStep DEF OnlyHandler, IInv, TypeOK

\* A handler writes its copy.
LEMMA WriteCopyStep ==
  ASSUME IInv, NEW c \in Calls, state' = handler[c].copy, NEW place \in HandlerPlaces, Handle(c, place),
         UNCHANGED <<made, events, owner, git, busy, pump, starter, client, proof>>
  PROVE  IInv'
<1>1. PICK h \in Handlers : handler' = [handler EXCEPT ![c] = h] /\ Good(h.copy, proof)
  BY HandleIsGood
<1>2. state' \in States /\ Good(state', proof)  BY HandlerIsGood
<1> QED  BY <1>1, <1>2, HandlerMoves DEF IInv, TypeOK

\* The steps of a handler that only move on.
LEMMA MovingOnStep ==
  ASSUME IInv, NEW c \in Calls, Observe(c) \/ AskIdle(c)
  PROVE  IInv'
<1>1. {"reply", "judge", "send"} \subseteq HandlerPlaces  BY DEF HandlerPlaces
<1>2. PICK place \in {"reply", "judge", "send"} : Handle(c, place) /\ OnlyHandler
  BY DEF Observe, AskIdle
<1> QED  BY <1>1, <1>2, HandleOnlyStep

\* A prompt makes the agent busy.
LEMMA SendPromptStep ==
  ASSUME IInv, NEW c \in Calls, SendPrompt(c)
  PROVE  IInv'
<1>1. {"reply", "await"} \subseteq HandlerPlaces  BY DEF HandlerPlaces
<1>2. PICK place \in {"reply", "await"} : Handle(c, place)  BY DEF SendPrompt
<1>3. PICK h \in Handlers : handler' = [handler EXCEPT ![c] = h] /\ Good(h.copy, proof)
  BY <1>1, <1>2, HandleIsGood
<1>4. busy' \in BOOLEAN  BY Zenon DEF SendPrompt, IInv, TypeOK
<1> QED  BY <1>3, <1>4, HandlerMoves DEF SendPrompt, IInv, TypeOK

\* The agent starts in time, or it does not.
LEMMA AwaitAgentStartStep ==
  ASSUME IInv, NEW c \in Calls, AwaitAgentStart(c)
  PROVE  IInv'
<1>1. {"reply", "emit", "judge"} \subseteq HandlerPlaces  BY DEF HandlerPlaces
<1>2. CASE handler' = [handler EXCEPT ![c].copy.lifecycle = "observing", ![c].pc = "write"]
  BY Zenon, <1>2, LifecycleStep DEF AwaitAgentStart
<1>3. CASE \E place \in {"reply", "emit", "judge"} : Handle(c, place)
  BY <1>1, <1>3, HandleOnlyStep DEF AwaitAgentStart
<1> QED  BY <1>2, <1>3 DEF AwaitAgentStart

\* prompt_accepted is no completion.
LEMMA EmitStep ==
  ASSUME IInv, NEW c \in Calls, Emit(c)
  PROVE  IInv'
<1>1. {"reply", "judge"} \subseteq HandlerPlaces  BY DEF HandlerPlaces
<1>2. PICK place \in {"reply", "judge"} : Handle(c, place)  BY DEF Emit
<1>3. PICK h \in Handlers : handler' = [handler EXCEPT ![c] = h] /\ Good(h.copy, proof)
  BY <1>1, <1>2, HandleIsGood
<1>4. PromptAccepted \in Kinds /\ PromptAccepted # Completed  BY DEF PromptAccepted, Completed, Kinds
<1>5. events' \in Kinds /\ events' \in {events, PromptAccepted}
  BY <1>4, LoggedIsKind DEF Emit, IInv, TypeOK
<1> QED  BY <1>3, <1>4, <1>5, HandlerMoves DEF Emit, IInv, TypeOK

\* A finalization that passes its gates is the proof of a completion; one that does not
\* names a blocker.
LEMMA FinalizeStep ==
  ASSUME IInv, NEW c \in Calls, Finalize(c)
  PROVE  IInv'
<1>1. handler[c] \in Handlers /\ handler[c].copy \in States  BY HandlerIsGood
<1>2. "write" \in HandlerPlaces  BY DEF HandlerPlaces
<1>3. CASE handler' = [handler EXCEPT ![c].copy.lifecycle = "completed", ![c].pc = "write"] /\ proof' = TRUE
  <2> DEFINE s == [handler[c].copy EXCEPT !.lifecycle = "completed"]
  <2>1. s \in States /\ Good(s, proof')  BY <1>1, <1>3 DEF States, Lifecycles, Good
  <2>2. handler' = [handler EXCEPT ![c].copy = s, ![c].pc = "write"]
    BY <1>1, <1>3 DEF IInv, TypeOK, Handlers
  <2>3. UNCHANGED <<made, state, events, owner, git, busy, pump, starter, client>>  BY DEF Finalize
  <2> HIDE DEF s
  <2> QED  BY Zenon, <1>2, <1>3, <2>1, <2>2, <2>3, CopyStep
<1>4. CASE handler' = [handler EXCEPT ![c].copy = [lifecycle |-> "blocked", blockers |-> {"other"}],
                                      ![c].pc = "write"] /\ UNCHANGED proof
  <2> DEFINE s == [lifecycle |-> "blocked", blockers |-> {"other"}]
  <2>1. s \in States /\ Good(s, proof)  BY DEF States, Lifecycles, Blockers, Good
  <2>2. UNCHANGED <<made, state, events, owner, git, busy, pump, starter, client>>  BY DEF Finalize
  <2> HIDE DEF s
  <2> QED  BY Zenon, <1>2, <1>4, <2>1, <2>2, CopyStep DEF IInv, TypeOK, s
<1> QED  BY Zenon, <1>3, <1>4 DEF Finalize

\* recover clears a vanish that another process has declared.
LEMMA RecoverStep ==
  ASSUME IInv, NEW c \in Calls, Recover(c)
  PROVE  IInv'
<1>1. handler[c] \in Handlers /\ handler[c].copy \in States /\ Good(handler[c].copy, proof)
  BY HandlerIsGood
<1>2. {"write", "reply"} \subseteq HandlerPlaces  BY DEF HandlerPlaces
<1>3. CASE Handle(c, "reply")  BY <1>2, <1>3, HandleOnlyStep DEF Recover
<1>4. CASE handler' = [handler EXCEPT ![c].copy = VanishCleared(handler[c].copy), ![c].pc = "write"]
  <2> DEFINE s == VanishCleared(handler[c].copy)
  <2>1. s \in States /\ Good(s, proof)  BY <1>1, VanishClearedIsGood
  <2>2. OnlyHandler  BY DEF Recover
  <2> HIDE DEF s
  <2> QED  BY Zenon, <1>2, <1>4, <2>1, <2>2, CopyStep DEF OnlyHandler, IInv, TypeOK, s
<1> QED  BY <1>3, <1>4 DEF Recover

\* operate ends in a completion that its gates prove, or in a blocker, or goes on.
LEMMA JudgeStep ==
  ASSUME IInv, NEW c \in Calls, Judge(c)
  PROVE  IInv'
<1>1. {"write", "work"} \subseteq HandlerPlaces  BY DEF HandlerPlaces
<1>2. UNCHANGED <<made, state, events, owner, git, busy, pump, starter, client>>  BY DEF Judge
<1>3. CASE handler' = [handler EXCEPT ![c].copy = [lifecycle |-> "completed", blockers |-> {}],
                                      ![c].pc = "write"] /\ proof' = TRUE
  <2> DEFINE s == [lifecycle |-> "completed", blockers |-> {}]
  <2>1. s \in States /\ Good(s, proof')  BY <1>3 DEF States, Lifecycles, Good
  <2> HIDE DEF s
  <2> QED  BY Zenon, <1>1, <1>2, <1>3, <2>1, CopyStep DEF s
<1>4. CASE handler' = [handler EXCEPT ![c].copy = [lifecycle |-> "blocked", blockers |-> {"other"}],
                                      ![c].pc = "write"] /\ UNCHANGED proof
  <2> DEFINE s == [lifecycle |-> "blocked", blockers |-> {"other"}]
  <2>1. s \in States /\ Good(s, proof)  BY DEF States, Lifecycles, Blockers, Good
  <2> HIDE DEF s
  <2> QED  BY Zenon, <1>1, <1>2, <1>4, <2>1, CopyStep DEF IInv, TypeOK, s
<1>5. CASE Handle(c, "work") /\ UNCHANGED proof
  BY <1>1, <1>2, <1>5, HandleOnlyStep DEF OnlyHandler
<1> QED  BY Zenon, <1>3, <1>4, <1>5 DEF Judge

\* The record is written from the copy of the handler.
LEMMA WritesStep ==
  ASSUME IInv, NEW c \in Calls, WriteReconciled(c) \/ Write(c) \/ Rewrite(c)
  PROVE  IInv'
<1>1. {"work", "rewrite", "emit", "reply"} \subseteq HandlerPlaces  BY DEF HandlerPlaces
<1>2. PICK place \in {"work", "rewrite", "emit", "reply"} : Handle(c, place)
  BY DEF WriteReconciled, Write, Rewrite
<1> QED  BY <1>1, <1>2, WriteCopyStep DEF WriteReconciled, Write, Rewrite

\* The handler is over; its client, if it still waits, is too.
LEMMA ReplyStep ==
  ASSUME IInv, NEW c \in Calls, Reply(c)
  PROVE  IInv'
<1>1. client[c] \in Clients /\ GoodClient(client[c], proof)  BY ClientIsGood
<1>2. IdleHandler \in Handlers /\ Good(IdleHandler.copy, proof)
  BY DEF IdleHandler, Handlers, HandlerPlaces, NewState, States, Lifecycles, Good
<1>3. "done" \in ClientPlaces  BY DEF ClientPlaces
<1> DEFINE k == At(client[c], "done")
<1>4. k \in Clients /\ GoodClient(k, proof)  BY <1>1, <1>3, AtIsGood
<1>5. client' = [client EXCEPT ![c] = k] \/ client' = client  BY DEF Reply
<1>6. handler' = [handler EXCEPT ![c] = IdleHandler] /\ owner' \in Leases
  BY DEF Reply, IInv, TypeOK, Leases
<1> HIDE DEF k
<1>7. client' \in [Calls -> Clients] /\ \A d \in Calls : GoodClient(client'[d], proof)
  BY <1>4, <1>5 DEF IInv, TypeOK
<1>8. handler' \in [Calls -> Handlers] /\ \A d \in Calls : Good(handler'[d].copy, proof)
  BY <1>2, <1>6 DEF IInv, TypeOK
<1>9. TypeOK'  BY <1>6, <1>7, <1>8 DEF Reply, IInv, TypeOK
<1> QED  BY <1>7, <1>8, <1>9 DEF Reply, IInv

\* Every step of a handler.
LEMMA HandlerStep ==
  ASSUME IInv, NEW c \in Calls, HandlerNext(c)
  PROVE  IInv'
<1>1. CASE Validate(c) \/ RetireSession(c)  BY Zenon, <1>1, LifecycleStep DEF Validate, RetireSession
<1> QED  BY <1>1, LoadStateStep, WritesStep, MovingOnStep, SendPromptStep, AwaitAgentStartStep, EmitStep,
            FinalizeStep, RecoverStep, JudgeStep, ReplyStep DEF HandlerNext

-----------------------------------------------------------------------------
(* The agent, the pump, the starter and the end of an owner *)

\* A step of neither a caller nor a handler preserves IInv if the record, the log and the
\* pump stay good; the end of the owner forgets every handler.
LEMMA OthersMove ==
  ASSUME IInv, UNCHANGED <<made, client>>,
         handler' = handler \/ handler' = [c \in Calls |-> IdleHandler],
         proof' \in BOOLEAN, proof = TRUE => proof' = TRUE,
         state' \in States, Good(state', proof'),
         pump' \in [pc : {"idle", "read", "write", "emit"}, copy : States],
         Good(pump'.copy, proof'), pump'.pc # "idle" => proof' = TRUE,
         events' \in Kinds, events' = Completed => proof' = TRUE,
         owner' \in Leases, git' \in Deltas, busy' \in BOOLEAN,
         starter' \in {"spawning", "live", "failed", "done"}
  PROVE  IInv'
<1>1. IdleHandler \in Handlers /\ Good(IdleHandler.copy, proof')
  BY DEF IdleHandler, Handlers, HandlerPlaces, NewState, States, Lifecycles, Good
<1>2. handler' \in [Calls -> Handlers] /\ \A c \in Calls : Good(handler'[c].copy, proof')
  BY <1>1 DEF IInv, TypeOK, Good
<1>3. \A c \in Calls : GoodClient(client'[c], proof')  BY DEF IInv, GoodClient, Good
<1>4. TypeOK'  BY <1>2 DEF IInv, TypeOK
<1> QED  BY <1>2, <1>3, <1>4 DEF IInv

\* `start --detach` spawns an owner and writes the record it made before.
LEMMA StarterStep ==
  ASSUME IInv, StartSpawn \/ StartWrite \/ StartBlocked
  PROVE  IInv'
<1>1. CASE StartSpawn
  <2>1. PICK live \in BOOLEAN : SpawnDetachedOwner(live) /\ starter' = IF live THEN "live" ELSE "failed"
    BY <1>1 DEF StartSpawn
  <2> QED  BY Zenon, <1>1, <2>1, SpawnIsGood, OthersMove DEF StartSpawn, IInv, TypeOK
<1>2. CASE StartWrite
  <2>1. state' \in States /\ Good(state', proof)
    BY <1>2 DEF StartWrite, NewState, States, Lifecycles, Good
  <2> QED  BY <1>2, <2>1, OthersMove DEF StartWrite, IInv, TypeOK
<1>3. CASE StartBlocked
  <2>1. state' \in States /\ Good(state', proof)
    <3>1. PICK b \in (SUBSET {"detached-owner-not-live", "other"}) \ {{}} :
            state' = [lifecycle |-> "blocked", blockers |-> b]
      BY <1>3 DEF StartBlocked
    <3>2. b \in SUBSET Blockers /\ b # {}  BY DEF Blockers
    <3> QED  BY <3>1, <3>2 DEF States, Lifecycles, Good
  <2> QED  BY <1>3, <2>1, OthersMove DEF StartBlocked, IInv, TypeOK
<1> QED  BY <1>1, <1>2, <1>3

\* The agent works and completes; the pump writes the record and the log after that.
LEMMA AgentStep ==
  ASSUME IInv, AgentWorks \/ AgentCompletes \/ PumpRead \/ PumpWrite \/ PumpEmit \/ EditWorkspace
  PROVE  IInv'
<1>0. pump \in [pc : {"idle", "read", "write", "emit"}, copy : States]  BY DEF IInv, TypeOK
<1>1. CASE AgentWorks
  <2>1. AgentWorking \in Kinds /\ AgentWorking # Completed  BY DEF AgentWorking, Completed, Kinds
  <2>2. events' \in Kinds /\ events' \in {events, AgentWorking}
    BY <1>1, <2>1, LoggedIsKind DEF AgentWorks, IInv, TypeOK
  <2> QED  BY <1>1, <2>1, <2>2, OthersMove DEF AgentWorks, IInv, TypeOK
<1>2. CASE AgentCompletes
  <2>1. pump' \in [pc : {"idle", "read", "write", "emit"}, copy : States] /\ pump'.copy = pump.copy
    BY <1>0, <1>2 DEF AgentCompletes
  <2>2. proof' = TRUE /\ Good(pump'.copy, proof') /\ Good(state', proof')
    BY <1>2, <2>1 DEF AgentCompletes, IInv, Good
  <2> QED  BY Zenon, <1>2, <2>1, <2>2, OthersMove DEF AgentCompletes, IInv, TypeOK
<1>3. CASE PumpRead
  <2>1. CASE pump' = [pump EXCEPT !.pc = "emit"]
    <3>1. pump' \in [pc : {"idle", "read", "write", "emit"}, copy : States] /\ pump'.copy = pump.copy
      BY <1>0, <2>1
    <3> QED  BY Zenon, <1>3, <3>1, OthersMove DEF PumpRead, IInv, TypeOK
  <2>2. CASE pump' = [pc |-> "write", copy |-> [state EXCEPT !.lifecycle = "finalizing"]]
    <3> DEFINE s == [state EXCEPT !.lifecycle = "finalizing"]
    <3>1. s \in States /\ Good(s, proof)  BY DEF IInv, TypeOK, States, Lifecycles, Good
    <3> HIDE DEF s
    <3>2. pump' = [pc |-> "write", copy |-> s]  BY <2>2 DEF s
    <3>3. pump' \in [pc : {"idle", "read", "write", "emit"}, copy : States] /\ Good(pump'.copy, proof)
      BY <3>1, <3>2
    <3> QED  BY Zenon, <1>3, <3>3, OthersMove DEF PumpRead, IInv, TypeOK
  <2> QED  BY <1>3, <2>1, <2>2 DEF PumpRead
<1>4. CASE PumpWrite
  <2>1. pump' \in [pc : {"idle", "read", "write", "emit"}, copy : States] /\ Good(pump'.copy, proof)
    BY <1>4 DEF PumpWrite, IdlePump, NewState, States, Lifecycles, Good
  <2>2. state' \in States /\ Good(state', proof)  BY Zenon, <1>0, <1>4 DEF PumpWrite, IInv
  <2> QED  BY Zenon, <1>4, <2>1, <2>2, OthersMove DEF PumpWrite, IInv, TypeOK
<1>5. CASE PumpEmit
  <2>1. pump' \in [pc : {"idle", "read", "write", "emit"}, copy : States] /\ Good(pump'.copy, proof)
        /\ pump'.pc = "idle"
    BY <1>5 DEF PumpEmit, IdlePump, NewState, States, Lifecycles, Good
  <2>2. proof = TRUE  BY <1>5 DEF PumpEmit, IInv
  <2>3. events' \in Kinds
    <3>1. Completed \in Kinds  BY DEF Completed, Kinds
    <3> QED  BY <1>5, <3>1, LoggedIsKind DEF PumpEmit, IInv, TypeOK
  <2> QED  BY Zenon, <1>5, <2>1, <2>2, <2>3, OthersMove DEF PumpEmit, IInv, TypeOK
<1>6. CASE EditWorkspace  BY <1>6, OthersMove DEF EditWorkspace, IInv, TypeOK
<1> QED  BY <1>1, <1>2, <1>3, <1>4, <1>5, <1>6

\* An owner stops or dies: what its handlers and its pump had in hand is lost.
LEMMA EndStep ==
  ASSUME IInv, Signal \/ Stopped \/ Crash \/ CollectLease
  PROVE  IInv'
<1>1. IdlePump \in [pc : {"idle", "read", "write", "emit"}, copy : States] /\ Good(IdlePump.copy, proof)
      /\ IdlePump.pc = "idle"
  BY DEF IdlePump, NewState, States, Lifecycles, Good
<1>2. CASE Signal  BY <1>2, OthersMove DEF Signal, IInv, TypeOK, Leases
<1>3. CASE Stopped  BY Zenon, <1>3, OthersMove DEF Stopped, IInv, TypeOK, Leases
<1>4. CASE Crash  BY Zenon, <1>1, <1>4, OthersMove DEF Crash, IInv, TypeOK, Leases
<1>5. CASE CollectLease  BY <1>5, OthersMove DEF CollectLease, IInv, TypeOK, Leases
<1> QED  BY <1>2, <1>3, <1>4, <1>5

-----------------------------------------------------------------------------
(* The theorems *)

\* A new session is good.
LEMMA InitIInv == Init => IInv
<1> SUFFICES ASSUME Init PROVE IInv  OBVIOUS
<1>1. NewState \in States /\ Good(NewState, proof)  BY DEF NewState, States, Lifecycles, Good
<1>2. IdleClient \in Clients /\ GoodClient(IdleClient, proof)
  <2>1. IdleClient = [pc |-> "idle", verb |-> "none", copy |-> NewState, seen |-> 0, git |-> "clean",
                      ran |-> 0, lease |-> "none"]
    BY DEF IdleClient
  <2> QED  BY <1>1, <2>1 DEF Clients, ClientPlaces, Kinds, Leases, GoodClient, Completed
<1>3. IdleHandler \in Handlers /\ Good(IdleHandler.copy, proof)
  BY <1>1 DEF IdleHandler, Handlers, HandlerPlaces
<1>4. IdlePump \in [pc : {"idle", "read", "write", "emit"}, copy : States] /\ Good(IdlePump.copy, proof)
      /\ IdlePump.pc = "idle"
  BY <1>1 DEF IdlePump
<1>5. TypeOK
  <2>1. made \in 0 .. MaxCalls /\ events \in Kinds  BY MaxCallsAssumption DEF Init, Kinds
  <2>2. client \in [Calls -> Clients] /\ handler \in [Calls -> Handlers]  BY <1>2, <1>3 DEF Init
  <2>3. busy \in BOOLEAN /\ proof \in BOOLEAN  BY Zenon DEF Init
  <2> QED  BY <1>1, <1>4, <2>1, <2>2, <2>3 DEF Init, TypeOK, Leases
<1> QED  BY <1>1, <1>2, <1>3, <1>4, <1>5 DEF Init, IInv, Completed

\* Every step of every caller, handler, pump and owner preserves IInv.
LEMMA NextIInv ==
  ASSUME IInv, [Next]_vars
  PROVE  IInv'
<1>1. CASE UNCHANGED vars  BY <1>1 DEF vars, IInv, TypeOK
<1> QED  BY <1>1, CallStep, ClientStep, HandlerStep, StarterStep, AgentStep, EndStep DEF Next

\* IInv holds throughout, for any number of calls at a time and any verbs.
THEOREM Invariance == Spec => []IInv
<1>1. IInv /\ [Next]_vars => IInv'  BY NextIInv
<1> QED  BY InitIInv, <1>1, PTL DEF Spec

\* The record, the log, the lease and every copy keep their types.
THEOREM TypeCorrect == Spec => []TypeOK
<1>1. IInv => TypeOK  BY DEF IInv
<1> QED  BY Invariance, <1>1, PTL

\* However many calls race, state.json says completed only after a completion was
\* observed or finalized.
THEOREM CompletionIsProved == Spec => []CompletedIsProved
<1>1. IInv => CompletedIsProved  BY DEF IInv, Good, CompletedIsProved
<1> QED  BY Invariance, <1>1, PTL

\* However many calls race, a blocked session names what blocks it.
THEOREM BlockIsExplained == Spec => []BlockedHasReason
<1>1. IInv => BlockedHasReason  BY DEF IInv, Good, BlockedHasReason
<1> QED  BY Invariance, <1>1, PTL
=============================================================================
