--------------------------- MODULE SessionControl ---------------------------
(***************************************************************************)
(* The verbs of `gjc harness` and the one record they all rewrite, the     *)
(* state.json of a session.  A call of the command line first tries the    *)
(* owner behind the control socket; when nobody answers it works on the    *)
(* files itself.  A handler of the owner whose client has given up goes on *)
(* running.  Both sides load the whole record, wait for git, the event log *)
(* or the agent, and write the whole record back: nothing but the order of *)
(* the writes decides which of two verbs survives.                         *)
(*                                                                         *)
(* A call is one invocation of the command line: `client` is what the      *)
(* process of the caller does, `handler` what the owner does for it.       *)
(***************************************************************************)
EXTENDS Naturals, FiniteSets

CONSTANTS Calls,    \* invocations of the command line that may run at one time
          Verbs,    \* the verbs they may use
          Deltas,   \* the git deltas that occur
          MaxCalls  \* bound on the invocations in one behaviour

VARIABLES state,    \* state.json: lifecycle and blockers
          events,   \* events.jsonl: the furthest it has come (see Kinds)
          owner,    \* the lease: none, live, stopping (alive) or dead
          git,      \* what git status says of the workspace
          busy,     \* the agent is working on a prompt
          pump,     \* the frame pump of the owner
          starter,  \* the `start --detach` that created the session
          client,   \* the caller's side of each call
          handler,  \* the owner's side of each call
          proof,    \* history: a completion was observed or finalized
          made      \* invocations so far

vars == <<state, events, owner, git, busy, pump, starter, client, handler, proof, made>>

AllVerbs == {"observe", "classify", "submit", "retire", "recover", "validate", "finalize", "operate"}

(* new, submitted and recovering are lifecycles that no verb writes. *)
Lifecycles == {"started", "observing", "validating", "finalizing", "completed", "blocked", "retired"}

Blockers == {"detached-owner-not-live", "owner-vanished", "owner-died-before-first-prompt", "other"}

(* The decisions ask of the log whether it is empty, holds a completed, else a  *)
(* prompt_accepted, else a tool-call or streaming signal, else an owner_started: *)
(* 0, 4, 3, 2 and 1.  It only grows.                                            *)
Kinds == 0 .. 4

OwnerStarted == 1
AgentWorking == 2
PromptAccepted == 3
Completed == 4

Logged(log, kind) == IF kind > log THEN kind ELSE log

States == [lifecycle : Lifecycles, blockers : SUBSET Blockers]

NewState == [lifecycle |-> "started", blockers |-> {}]

Leases == {"none", "live", "stopping", "dead"}

ClientPlaces == {"idle", "gate", "route", "waiting", "load", "session", "lease", "act", "decide", "spawn",
                 "restore", "done"}

Clients == [pc : ClientPlaces, verb : AllVerbs \cup {"none"}, copy : States, seen : Kinds,
            git : {"clean", "dirty", "unknown"}, ran : Kinds, lease : Leases]

HandlerPlaces == {"idle", "load", "fix", "work", "send", "await", "emit", "judge", "write", "rewrite", "reply"}

Handlers == [pc : HandlerPlaces, verb : AllVerbs \cup {"none"}, copy : States]

IdleClient == [pc |-> "idle", verb |-> "none", copy |-> NewState,
               seen |-> 0, git |-> "clean", ran |-> 0, lease |-> "none"]

IdleHandler == [pc |-> "idle", verb |-> "none", copy |-> NewState]

IdlePump == [pc |-> "idle", copy |-> NewState]

ASSUME MaxCallsAssumption == MaxCalls \in Nat

ASSUME VerbsAssumption == Verbs \subseteq AllVerbs

ASSUME DeltasAssumption == Deltas \subseteq {"clean", "dirty", "unknown"} /\ Deltas # {}

Init == /\ state = NewState
        /\ events = 0
        /\ owner = "none"
        /\ git \in Deltas
        /\ busy = FALSE
        /\ pump = IdlePump
        /\ starter \in {"spawning", "done"}
        /\ client = [c \in Calls |-> IdleClient]
        /\ handler = [c \in Calls |-> IdleHandler]
        /\ proof = FALSE
        /\ made = 0

-----------------------------------------------------------------------------
(* The decisions of state-machine.ts, lifecycle-reconciliation.ts and owner.ts. *)

IsTerminal(lifecycle) == lifecycle \in {"completed", "retired"}

SubmitReady(lifecycle) == lifecycle \in {"started", "observing"}

OwnerLivenessBlockers == {"detached-owner-not-live", "owner-vanished"}

OwnerAlive == owner \in {"live", "stopping"}

(* What a handler makes of a record that says that the detached owner is not live. *)
ReconcileLiveOwner(s) ==
    LET rest == s.blockers \ {"detached-owner-not-live"}
    IN  IF rest = s.blockers THEN s
        ELSE [lifecycle |-> IF s.lifecycle = "blocked" /\ rest = {} THEN "observing" ELSE s.lifecycle,
              blockers |-> rest]

(* The three rules by which a caller corrects its copy k.copy, from what it saw *)
(* of the event log and of git (k.seen, k.git) and, in a second look, of the    *)
(* log and the lease (k.ran, k.lease).  Only `classify` asks whether the owner  *)
(* is alive; the other verbs come here because nobody answered.                 *)
OwnerLive(k) == k.verb = "classify" /\ k.lease \in {"live", "stopping"}

CompletesUnseen(s, k) == ~OwnerLive(k) /\ k.git = "clean" /\ ~IsTerminal(s.lifecycle)

Completes(s, k) == /\ k.seen = Completed
                   /\ ~OwnerLive(k)
                   /\ k.git = "clean"
                   /\ ~IsTerminal(s.lifecycle)

NeedsVanishedOwnerBlock(s, k) == /\ ~OwnerLive(k)
                                 /\ s.lifecycle = "observing"
                                 /\ k.seen \in {AgentWorking, PromptAccepted}

StartupBlocker(k) == /\ k.verb \in {"observe", "submit"}
                     /\ k.lease \in {"none", "dead"}
                     /\ k.ran \in {OwnerStarted, AgentWorking}

BlockedBlankly(s, b) == [s EXCEPT !.lifecycle = "blocked"]

Blocked(s, b) == [lifecycle |-> "blocked", blockers |-> s.blockers \cup {b}]

Reconciled(k) ==
    LET s1 == IF Completes(k.copy, k)
              THEN [lifecycle |-> "completed", blockers |-> k.copy.blockers \ OwnerLivenessBlockers]
              ELSE k.copy
        s2 == IF NeedsVanishedOwnerBlock(s1, k) THEN Blocked(s1, "owner-vanished") ELSE s1
    IN  IF StartupBlocker(k) /\ ~IsTerminal(s2.lifecycle)
        THEN Blocked(s2, "owner-died-before-first-prompt")
        ELSE s2

ReconcileWrites(k) == \/ Completes(k.copy, k)
                      \/ NeedsVanishedOwnerBlock(k.copy, k)
                      \/ StartupBlocker(k) /\ ~IsTerminal(k.copy.lifecycle)

(* Whether `recover` without an owner goes on to spawn one. *)
OwnerNeverStarted(k) == k.copy.lifecycle = "started" /\ k.lease = "none" /\ k.ran = 0

RespawnsOwner(k) == OwnerNeverStarted(k) \/ (k.git \in {"clean", "dirty"} /\ k.lease # "none")

(* A spawned owner is refused while another is alive, else it takes the lease;  *)
(* it may be given up and reaped, before or after it started, and a clean-up    *)
(* that cannot be verified leaves it alive.                                     *)
SpawnDetachedOwner(live) ==
    \/ OwnerAlive /\ UNCHANGED <<owner, events>>
    \/ ~OwnerAlive /\ owner' = "live" /\ events' = Logged(events, OwnerStarted)
    \/ ~OwnerAlive /\ ~live /\ UNCHANGED <<owner, events>>
    \/ ~OwnerAlive /\ ~live /\ owner' \in {"none", "dead"} /\ events' = Logged(events, OwnerStarted)

-----------------------------------------------------------------------------
(* `start --detach`, after it has written the first record. *)

StartSpawn == /\ starter = "spawning"
              /\ \E live \in BOOLEAN :
                    /\ SpawnDetachedOwner(live)
                    /\ starter' = IF live THEN "live" ELSE "failed"
              /\ UNCHANGED <<made, state, git, busy, pump, client, handler, proof>>

(* The record is written a second time, from the copy of before the spawn. *)
StartWrite == /\ starter = "live"
              /\ state' = NewState
              /\ starter' = "done"
              /\ UNCHANGED <<made, events, owner, git, busy, pump, client, handler, proof>>

StartBlocked == /\ starter = "failed"
                /\ \E b \in (SUBSET {"detached-owner-not-live", "other"}) \ {{}} :
                      state' = [lifecycle |-> "blocked", blockers |-> b]
                /\ starter' = "done"
                /\ UNCHANGED <<made, events, owner, git, busy, pump, client, handler, proof>>

-----------------------------------------------------------------------------
(* The caller. *)

(* A call that is over forgets what it read. *)
At(k, pc) == IF pc = "done" THEN [IdleClient EXCEPT !.pc = "done", !.verb = k.verb] ELSE [k EXCEPT !.pc = pc]

Step(c, pc) == client' = [client EXCEPT ![c] = At(@, pc)]

OnlyClient == UNCHANGED <<made, state, events, owner, git, busy, pump, starter, handler, proof>>

(* Where a verb that got no owner goes once it has its copy.  Without an owner  *)
(* validate, finalize and operate only report; submit reports a lifecycle that  *)
(* is not ready, unless the missing owner is the reason.                        *)
FirstLook(v, s) ==
    CASE v \in {"observe", "retire"} -> "session"
      [] v \in {"recover", "classify"} -> "lease"
      [] v = "submit" -> IF SubmitReady(s.lifecycle)
                             \/ s.blockers \cap (OwnerLivenessBlockers \cup {"owner-died-before-first-prompt"}) # {}
                         THEN "lease" ELSE "done"
      [] OTHER -> "done"

(* The command line may be invoked again as soon as the last call is over. *)
Call(c, v) == /\ client[c].pc \in {"idle", "done"}
              /\ handler[c].pc = "idle"
              /\ made < MaxCalls
              /\ client' = [client EXCEPT ![c].verb = v,
                                          ![c].pc = CASE v = "submit" -> "gate"
                                                      [] v = "classify" -> "load"
                                                      [] OTHER -> "route"]
              /\ made' = made + 1
              /\ UNCHANGED <<state, events, owner, git, busy, pump, starter, handler, proof>>

SubmitGate(c) == /\ client[c].pc = "gate"
                 /\ client' = [client EXCEPT ![c] = IF SubmitReady(state.lifecycle) THEN At(@, "route")
                                                   ELSE At([@ EXCEPT !.copy = state], FirstLook("submit", state))]
                 /\ OnlyClient

Route(c) == /\ client[c].pc = "route"
            /\ OwnerAlive
            /\ Step(c, "waiting")
            /\ handler' = [handler EXCEPT ![c] = [IdleHandler EXCEPT !.pc = "load", !.verb = client[c].verb]]
            /\ UNCHANGED <<made, state, events, owner, git, busy, pump, starter, proof>>

(* No lease, a dead owner, or a socket that nobody accepts on. *)
Unrouted(c) == client[c].pc = "route" /\ Step(c, "load") /\ OnlyClient

GiveUpWhenClosed(c) == client[c].pc = "waiting" /\ ~OwnerAlive /\ Step(c, "load") /\ OnlyClient

(* The call timed out or the connection broke; the handler is not told. *)
GiveUp(c) == client[c].pc = "waiting" /\ Step(c, "load") /\ OnlyClient

Load(c) == /\ client[c].pc = "load"
           /\ client' = [client EXCEPT ![c] = At([@ EXCEPT !.copy = state], FirstLook(client[c].verb, state))]
           /\ OnlyClient

(* git status and the event log. *)
LookAtSession(c) == /\ client[c].pc = "session"
                    /\ client' = [client EXCEPT ![c].seen = events, ![c].git = git,
                                                ![c].pc = IF client[c].verb = "observe" THEN "lease" ELSE "act"]
                    /\ OnlyClient

(* The lease and the event log again. *)
LookAtLease(c) == /\ client[c].pc = "lease"
                  /\ client' = [client EXCEPT ![c].ran = events, ![c].lease = owner,
                                              ![c].pc = IF client[c].verb = "observe" THEN "act" ELSE "session"]
                  /\ OnlyClient

Reconcile(c) == /\ client[c].pc = "act"
                /\ client[c].verb # "retire"
                /\ state' = IF ReconcileWrites(client[c]) THEN Reconciled(client[c]) ELSE state
                /\ client' = [client EXCEPT ![c] = At([@ EXCEPT !.copy = Reconciled(client[c])],
                                                      IF client[c].verb = "recover" THEN "decide" ELSE "done")]
                /\ UNCHANGED <<made, events, owner, git, busy, pump, starter, handler, proof>>

(* Retiring without an owner is refused over uncommitted or unknown work. *)
Retire(c) == /\ client[c].pc = "act"
             /\ client[c].verb = "retire"
             /\ state' = IF client[c].git = "clean" THEN [client[c].copy EXCEPT !.lifecycle = "retired"] ELSE state
             /\ Step(c, "done")
             /\ UNCHANGED <<made, events, owner, git, busy, pump, starter, handler, proof>>

(* recover, on the classification of what it saw (the vanish receipt it writes *)
(* before a respawn is the subject of Operate).                                *)
Decide(c) == /\ client[c].pc = "decide"
             /\ Step(c, IF RespawnsOwner(client[c]) THEN "spawn" ELSE "done")
             /\ OnlyClient

Respawn(c) == /\ client[c].pc = "spawn"
              /\ \E live \in BOOLEAN : /\ SpawnDetachedOwner(live)
                                       /\ Step(c, IF live THEN "restore" ELSE "done")
              /\ UNCHANGED <<made, state, git, busy, pump, starter, handler, proof>>

Restore(c) == /\ client[c].pc = "restore"
              /\ state' = IF OwnerAlive
                          THEN [lifecycle |-> "observing", blockers |-> client[c].copy.blockers \ OwnerLivenessBlockers]
                          ELSE state
              /\ Step(c, "done")
              /\ UNCHANGED <<made, events, owner, git, busy, pump, starter, handler, proof>>

-----------------------------------------------------------------------------
(* The handlers of the owner. *)

Handle(c, pc) == handler' = [handler EXCEPT ![c].pc = pc, ![c].copy = IF pc = "reply" THEN NewState ELSE @]

Serving(c, verbs, pc) == OwnerAlive /\ handler[c].verb \in verbs /\ handler[c].pc = pc

OnlyHandler == UNCHANGED <<made, state, events, owner, git, busy, pump, starter, client, proof>>

(* observe waits for the frames that were accepted before it. *)
LoadState(c) == /\ Serving(c, AllVerbs, "load")
                /\ handler[c].verb = "observe" => pump.pc = "idle"
                /\ LET s == ReconcileLiveOwner(state) IN
                      handler' = [handler EXCEPT ![c].copy = s, ![c].pc = IF s = state THEN "work" ELSE "fix"]
                /\ OnlyHandler

WriteReconciled(c) == /\ Serving(c, AllVerbs, "fix")
                      /\ state' = handler[c].copy
                      /\ Handle(c, "work")
                      /\ UNCHANGED <<made, events, owner, git, busy, pump, starter, client, proof>>

Observe(c) == Serving(c, {"observe"}, "work") /\ Handle(c, "reply") /\ OnlyHandler

(* The state of the agent is read before the prompt is sent.  operate does not *)
(* look at the lifecycle first.                                                *)
AskIdle(c) == /\ Serving(c, {"submit", "operate"}, "work")
              /\ Handle(c, CASE handler[c].verb = "submit" /\ ~SubmitReady(handler[c].copy.lifecycle) -> "reply"
                             [] busy -> IF handler[c].verb = "operate" THEN "judge" ELSE "reply"
                             [] OTHER -> "send")
              /\ OnlyHandler

(* The session refuses a prompt while it is busy: the handler fails. *)
SendPrompt(c) == /\ Serving(c, {"submit", "operate"}, "send")
                 /\ IF busy THEN Handle(c, "reply") /\ UNCHANGED busy
                             ELSE Handle(c, "await") /\ busy' = TRUE
                 /\ UNCHANGED <<made, state, events, owner, git, pump, starter, client, proof>>

(* An agent_start in time, or not. *)
AwaitAgentStart(c) == /\ Serving(c, {"submit", "operate"}, "await")
                      /\ \/ handler[c].verb = "submit"
                            /\ handler' = [handler EXCEPT ![c].copy.lifecycle = "observing", ![c].pc = "write"]
                         \/ handler[c].verb = "submit" /\ Handle(c, "reply")
                         \/ handler[c].verb = "operate" /\ Handle(c, "emit")
                         \/ handler[c].verb = "operate" /\ Handle(c, "judge")
                      /\ OnlyHandler

(* The events of the other verbs decide nothing. *)
Emit(c) == /\ Serving(c, {"submit", "operate"}, "emit")
           /\ events' = Logged(events, PromptAccepted)
           /\ Handle(c, IF handler[c].verb = "operate" THEN "judge" ELSE "reply")
           /\ UNCHANGED <<made, state, owner, git, busy, pump, starter, client, proof>>

Validate(c) == /\ Serving(c, {"validate"}, "work")
               /\ handler' = [handler EXCEPT ![c].copy.lifecycle = "validating", ![c].pc = "write"]
               /\ OnlyHandler

(* runFinalize: the gates hold, or each that does not is a blocker. *)
Finalize(c) ==
    /\ Serving(c, {"finalize"}, "work")
    /\ \/ /\ handler' = [handler EXCEPT ![c].copy.lifecycle = "completed", ![c].pc = "write"]
          /\ proof' = TRUE
       \/ /\ handler' = [handler EXCEPT ![c].copy = [lifecycle |-> "blocked", blockers |-> {"other"}], ![c].pc = "write"]
          /\ UNCHANGED proof
    /\ UNCHANGED <<made, state, events, owner, git, busy, pump, starter, client>>

RetireSession(c) == /\ Serving(c, {"retire"}, "work")
                    /\ handler' = [handler EXCEPT ![c].copy.lifecycle = "retired", ![c].pc = "write"]
                    /\ OnlyHandler

(* A session that another process called vanished is recovered by a receipt. *)
VanishCleared(s) == LET rest == s.blockers \ {"owner-vanished"}
                    IN  [lifecycle |-> IF rest = {} THEN "observing" ELSE s.lifecycle, blockers |-> rest]

Recover(c) == /\ Serving(c, {"recover"}, "work")
              /\ IF "owner-vanished" \in handler[c].copy.blockers /\ git \in {"clean", "dirty"}
                 THEN handler' = [handler EXCEPT ![c].copy = VanishCleared(@), ![c].pc = "write"]
                 ELSE Handle(c, "reply")
              /\ OnlyHandler

(* The loop of operate ends in a finalization, after an observed completion, or *)
(* in a blocker; or it submits the goal again.                                  *)
Judge(c) ==
    /\ Serving(c, {"operate"}, "judge")
    /\ \/ /\ events = Completed \/ state.lifecycle = "finalizing"
          /\ handler' = [handler EXCEPT ![c].copy = [lifecycle |-> "completed", blockers |-> {}], ![c].pc = "write"]
          /\ proof' = TRUE
       \/ /\ handler' = [handler EXCEPT ![c].copy = [lifecycle |-> "blocked", blockers |-> {"other"}], ![c].pc = "write"]
          /\ UNCHANGED proof
       \/ Handle(c, "work") /\ UNCHANGED proof
    /\ UNCHANGED <<made, state, events, owner, git, busy, pump, starter, client>>

(* operate writes its result with the terminal event and again at its end. *)
Write(c) == /\ Serving(c, AllVerbs, "write")
            /\ state' = handler[c].copy
            /\ Handle(c, CASE handler[c].verb = "operate" -> "rewrite"
                           [] handler[c].verb = "submit" -> "emit"
                           [] OTHER -> "reply")
            /\ UNCHANGED <<made, events, owner, git, busy, pump, starter, client, proof>>

Rewrite(c) == /\ Serving(c, {"operate"}, "rewrite")
              /\ state' = handler[c].copy
              /\ Handle(c, "reply")
              /\ UNCHANGED <<made, events, owner, git, busy, pump, starter, client, proof>>

(* A retiring owner stops once the record is written. *)
Reply(c) == /\ Serving(c, AllVerbs, "reply")
            /\ handler' = [handler EXCEPT ![c] = IdleHandler]
            /\ client' = IF client[c].pc = "waiting" THEN [client EXCEPT ![c] = At(@, "done")] ELSE client
            /\ owner' = IF handler[c].verb = "retire" THEN "stopping" ELSE owner
            /\ UNCHANGED <<made, state, events, git, busy, pump, starter, proof>>

-----------------------------------------------------------------------------
(* The agent and the frame pump. *)

AgentWorks == /\ busy /\ OwnerAlive /\ pump.pc = "idle"
              /\ events' = Logged(events, AgentWorking)
              /\ UNCHANGED <<made, state, owner, git, busy, pump, starter, client, handler, proof>>

AgentCompletes == /\ busy /\ OwnerAlive /\ pump.pc = "idle"
                  /\ busy' = FALSE
                  /\ pump' = [pump EXCEPT !.pc = "read"]
                  /\ proof' = TRUE
                  /\ UNCHANGED <<made, state, events, owner, git, starter, client, handler>>

PumpRead == /\ pump.pc = "read"
            /\ pump' = IF state.lifecycle \in {"completed", "retired", "finalizing"}
                       THEN [pump EXCEPT !.pc = "emit"]
                       ELSE [pc |-> "write", copy |-> [state EXCEPT !.lifecycle = "finalizing"]]
            /\ UNCHANGED <<made, state, events, owner, git, busy, starter, client, handler, proof>>

PumpWrite == /\ pump.pc = "write"
             /\ state' = pump.copy
             /\ pump' = [IdlePump EXCEPT !.pc = "emit"]
             /\ UNCHANGED <<made, events, owner, git, busy, starter, client, handler, proof>>

PumpEmit == /\ pump.pc = "emit"
            /\ events' = Logged(events, Completed)
            /\ pump' = IdlePump
            /\ UNCHANGED <<made, state, owner, git, busy, starter, client, handler, proof>>

EditWorkspace == /\ \E g \in Deltas : g # git /\ git' = g
                 /\ UNCHANGED <<made, state, events, owner, busy, pump, starter, client, handler, proof>>

-----------------------------------------------------------------------------
(* The end of an owner. *)

Signal == /\ owner = "live"
          /\ owner' = "stopping"
          /\ UNCHANGED <<made, state, events, git, busy, pump, starter, client, handler, proof>>

(* A stop drains the pump and waits for connected clients, not for the handlers *)
(* of those that gave up.  In the code these run on past the release, without a *)
(* transport; here they end with it.                                            *)
Stopped == /\ owner = "stopping"
           /\ pump.pc = "idle"
           /\ \A c \in Calls : client[c].pc # "waiting"
           /\ owner' = "none"
           /\ busy' = FALSE
           /\ handler' = [c \in Calls |-> IdleHandler]
           /\ UNCHANGED <<made, state, events, git, pump, starter, client, proof>>

Crash == /\ OwnerAlive
         /\ owner' = "dead"
         /\ busy' = FALSE
         /\ pump' = IdlePump
         /\ handler' = [c \in Calls |-> IdleHandler]
         /\ UNCHANGED <<made, state, events, git, starter, client, proof>>

CollectLease == /\ owner = "dead"
                /\ owner' = "none"
                /\ UNCHANGED <<made, state, events, git, busy, pump, starter, client, handler, proof>>

-----------------------------------------------------------------------------
ClientNext(c) == \/ SubmitGate(c) \/ Route(c) \/ Unrouted(c) \/ GiveUp(c) \/ Load(c)
                 \/ LookAtSession(c) \/ LookAtLease(c) \/ Reconcile(c) \/ Retire(c)
                 \/ Decide(c) \/ Respawn(c) \/ Restore(c)

HandlerNext(c) == \/ LoadState(c) \/ WriteReconciled(c) \/ Observe(c) \/ AskIdle(c) \/ SendPrompt(c)
                  \/ AwaitAgentStart(c) \/ Emit(c) \/ Validate(c) \/ Finalize(c) \/ RetireSession(c)
                  \/ Recover(c) \/ Judge(c) \/ Write(c) \/ Rewrite(c) \/ Reply(c)

Next == \/ \E c \in Calls : \/ \E v \in Verbs : Call(c, v)
                            \/ ClientNext(c)
                            \/ HandlerNext(c)
        \/ StartSpawn \/ StartWrite \/ StartBlocked
        \/ AgentWorks \/ AgentCompletes \/ PumpRead \/ PumpWrite \/ PumpEmit \/ EditWorkspace
        \/ Signal \/ Stopped \/ Crash \/ CollectLease

Spec == Init /\ [][Next]_vars

(* A process runs on, and the socket call times out. *)
FairSpec == Spec /\ \A c \in Calls : WF_vars(ClientNext(c))

-----------------------------------------------------------------------------
(* The record, the log, the lease and the local copies have their shapes. *)
TypeOK == /\ state \in States
          /\ events \in Kinds
          /\ owner \in Leases
          /\ git \in Deltas
          /\ busy \in BOOLEAN /\ proof \in BOOLEAN
          /\ pump \in [pc : {"idle", "read", "write", "emit"}, copy : States]
          /\ starter \in {"spawning", "live", "failed", "done"}
          /\ made \in 0 .. MaxCalls
          /\ client \in [Calls -> Clients]
          /\ handler \in [Calls -> Handlers]

(* However the writes of the callers, the handlers, the pump and `start` fall,   *)
(* state.json says completed only after a finalization passed its gates or the   *)
(* agent reported the end of a turn: no stale copy brings a completion about.    *)
CompletedIsProved == state.lifecycle = "completed" => proof

(* A blocked session names what blocks it.  Lifecycle and blockers are computed  *)
(* by nine writers in three files, each from a copy of its own; a session that   *)
(* is blocked by nothing could not be unblocked by any verb.                     *)
BlockedHasReason == state.lifecycle = "blocked" => state.blockers # {}

(* A call of the command line comes back, also when the owner it waits for hangs *)
(* in a handler, dies, or stops while the call is under way (callEndpoint's      *)
(* timeout).                                                                     *)
EveryCallReturns == \A c \in Calls : client[c].verb # "none" ~> client[c].pc = "done"

=============================================================================
