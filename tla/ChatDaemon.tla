------------------------------ MODULE ChatDaemon ------------------------------
(***************************************************************************)
(* The Discord daemon over its effect journal: handlers of inbound         *)
(* commands, posts of outbound messages, and a recovery timer that takes   *)
(* up what they leave behind, as asynchronous tasks of one process.  The   *)
(* conversation record keeps a receipt for every inbound effect that is    *)
(* not finished.  The process may die at any point and start again; the    *)
(* session a conversation is bound to may go away, and Discord may deliver *)
(* a command more than once.                                               *)
(*                                                                         *)
(* Interactions with a callback token, and threads with their archiving,   *)
(* are left out: the inbound effects are "/sdk" commands, the outbound     *)
(* ones messages with a nonce.                                             *)
(***************************************************************************)
EXTENDS EffectJournal

CONSTANTS Tasks,            \* tasks of the daemon that run at a time
          NoEffect,
          MaxDeliveries,    \* bound on the deliveries and posts
          MaxFaults,        \* bound on crashes, stalls, errors and changes of the binding
          MaxTries          \* bound on the claims of a post while there is no endpoint

VARIABLES receipts,     \* inboundDispatches of the conversation
          seen,         \* seenEventIds of the conversation
          binding,      \* whether record and endpoint are current
          inc,          \* incarnation of the daemon
          inflight,     \* inflightInbound: effects with a handler at work
          timer,        \* the recovery timer; "lost" if a late or failed look left it off with work to do
          task,         \* the tasks
          sent,         \* how often an effect reached the session or Discord
          expired,      \* history: effects of which a claim ran out that was in use
          raced,        \* history: receipts taken of an effect that was gone or to be evicted
          delivered, faults     \* the bounded events so far

conversation == <<receipts, seen, binding>>
history == <<life, sent, expired, raced, delivered, faults>>
vars == <<journal, conversation, inc, inflight, timer, task, history>>

ASSUME BoundsAssumption == MaxDeliveries \in Nat /\ MaxFaults \in Nat /\ MaxTries \in Nat
ASSUME NoEffectAssumption == NoEffect \notin Effects

Working == {"claimed", "ready", "confirm", "sending", "record"}
Stages == Working \cup {"idle", "reserve", "reject", "stale", "dispatch", "prune", "evict", "finish",
                        "sweep", "look", "set", "clear"}

TaskStates == [pc : Stages,
               kind : {"none", "handler", "post", "recovery", "failing"},
               ev : Effects \cup {NoEffect},    \* the effect it is about
               ep : Nat,                        \* its epoch of that
               want : {"none", "accepted", "uncertain", "terminal", "rejected"},    \* the outcome to record
               todo : SUBSET Effects,           \* what a recovery has still to look at
               doomed : SUBSET (Effects \X Nat)]    \* what it is to evict

Idle == [pc |-> "idle", kind |-> "none", ev |-> NoEffect, ep |-> 0, want |-> "none", todo |-> {}, doomed |-> {}]

TypeOK == /\ journal \in [Effects -> Records \cup {Absent}]
          /\ life \in [Effects -> Nat]
          /\ receipts \subseteq Inbound /\ seen \subseteq Inbound /\ inflight \subseteq Inbound
          /\ binding \in {"current", "no_endpoint", "no_record"}
          /\ inc \in Nat
          /\ timer \in {"set", "off", "lost"}
          /\ task \in [Tasks -> TaskStates]
          /\ sent \in [Effects -> Nat] /\ expired \subseteq Effects /\ raced \subseteq Inbound
          /\ delivered \in Nat /\ faults \in Nat

Init == /\ journal = [e \in Effects |-> Absent]
        /\ life = [e \in Effects |-> 0]
        /\ receipts = {} /\ seen = {} /\ inflight = {}
        /\ binding = "current"
        /\ inc = 0
        /\ timer = "off"
        /\ task = [t \in Tasks |-> Idle]
        /\ sent = [e \in Effects |-> 0]
        /\ expired = {} /\ raced = {}
        /\ delivered = 0 /\ faults = 0

-----------------------------------------------------------------------------
Fault == faults < MaxFaults /\ faults' = faults + 1

At(t, stage) == task[t].pc = stage

(* A new task: which of the idle ones it is makes no difference. *)
Free(t) == t = CHOOSE u \in Tasks : At(u, "idle")

Go(t, stage) == task' = [task EXCEPT ![t].pc = stage]

(* The end of the work on an effect: a recovery goes on with the next one, a post *)
(* is over, a handler leaves inflight and looks for work to recover.              *)
Left(t) == IF task[t].kind \in {"recovery", "failing"}
           THEN [task[t] EXCEPT !.pc = "sweep", !.ev = NoEffect, !.ep = 0, !.want = "none"]
           ELSE Idle

Quit(t) == task' = [task EXCEPT ![t] = Left(t)] /\ UNCHANGED inflight

Done(t) == IF task[t].kind = "handler"
           THEN /\ task' = [task EXCEPT ![t] = [Idle EXCEPT !.pc = "look", !.kind = "handler"]]
                /\ inflight' = inflight \ {task[t].ev}
           ELSE Quit(t)

(* A change that leaves an effect open is followed by a look at the journal, *)
(* which finds at least this effect: it can set the timer late, and never    *)
(* clears it.  The look after a claim or a renewal that was refused is left  *)
(* to the one that ends a handler and a recovery (Look), of which the list   *)
(* and the setting or clearing are two steps.                                *)
Reschedule == timer' = "set"

(* completeInbound, of the receipts that are there; what was said of them is over too. *)
Complete(E) == /\ receipts' = receipts \ E
               /\ seen' = seen \cup (receipts \cap E)
               /\ raced' = raced \ E

Terminated == {e \in Inbound : IsTerminal(e)}

Holds(t) == Fenced(task[t].ev, inc, task[t].ep)

-----------------------------------------------------------------------------
(* handleInbound for a "/sdk" command: finished receipts are reconciled, and the *)
(* effect is enqueued if the journal does not have it.                           *)
HandleInbound(t, e) ==
    /\ At(t, "idle") /\ Free(t) /\ e \in Inbound /\ binding # "no_record"
    /\ delivered < MaxDeliveries /\ delivered' = delivered + 1
    /\ Complete(Terminated)
    /\ IF Present(e) THEN UNCHANGED <<journal, life>> ELSE Create(e, "pending", 0, 0)
    /\ IF IsTerminal(e) THEN UNCHANGED timer ELSE Reschedule
    /\ task' = [task EXCEPT ![t] = [Idle EXCEPT !.pc = "reserve", !.kind = "handler", !.ev = e]]
    /\ UNCHANGED <<binding, inc, inflight, sent, expired, faults>>

(* A task that has listed e for eviction has already read the receipts. *)
Doomed(e) == \E t \in Tasks : \E d \in task[t].doomed : d[1] = e

TakeReceipt(e) == /\ receipts' = receipts \cup {e}
                  /\ raced' = IF e \notin receipts /\ (Doomed(e) \/ ~Present(e)) THEN raced \cup {e} ELSE raced

(* The receipt goes into the record, if that is still current; then the handler *)
(* gives way to one that is already at work.                                    *)
Reserve(t) ==
    /\ At(t, "reserve")
    /\ LET e == task[t].ev IN
       IF binding = "no_record"
       THEN Go(t, "reject") /\ UNCHANGED <<receipts, raced, inflight>>
       ELSE /\ TakeReceipt(e)
            /\ task' = [task EXCEPT ![t] = IF e \in inflight THEN Idle ELSE [@ EXCEPT !.pc = "dispatch"]]
            /\ inflight' = inflight \cup {e}
    /\ UNCHANGED <<journal, seen, binding, inc, timer, life, sent, expired, delivered, faults>>

(* postEffect: a new effect is created claimed; one that is there is claimed first. *)
Post(t, e) ==
    /\ At(t, "idle") /\ Free(t) /\ e \in Outbound /\ binding = "current"
    /\ delivered < MaxDeliveries /\ delivered' = delivered + 1
    /\ LET run(stage, epoch) ==
             task' = [task EXCEPT ![t] = [Idle EXCEPT !.pc = stage, !.kind = "post", !.ev = e, !.ep = epoch]]
       IN IF Present(e) THEN run("dispatch", 0) /\ UNCHANGED <<journal, life, timer>>
                        ELSE /\ Create(e, "leased", inc, 1)
                             /\ Reschedule
                             /\ run("claimed", 1)
    /\ UNCHANGED <<conversation, inc, inflight, sent, expired, raced, faults>>

-----------------------------------------------------------------------------
(* A handler without an endpoint says so in the thread and leaves. *)
NoEndpoint(t) ==
    /\ At(t, "dispatch") /\ task[t].kind = "handler" /\ binding = "no_endpoint"
    /\ Done(t)
    /\ UNCHANGED <<journal, conversation, inc, timer, history>>

Dispatch(t) ==
    /\ At(t, "dispatch")
    /\ LET e == task[t].ev IN
       IF CanClaim(e)
       THEN /\ Claim(e, inc)
            /\ task' = [task EXCEPT ![t].pc = "claimed", ![t].ep = journal[e].epoch + 1]
            /\ Reschedule
            /\ UNCHANGED inflight
       ELSE Done(t) /\ UNCHANGED <<journal, timer>>
    /\ UNCHANGED <<conversation, inc, history>>

(* The fence, before the work and again right before a post; a post that is no *)
(* longer wanted is dropped with its claim in place.                           *)
Ensure(t) ==
    /\ task[t].pc \in {"claimed", "confirm"}
    /\ IF Holds(t)
       THEN /\ Renew(task[t].ev)
            /\ Reschedule
            /\ IF task[t].ev \in Outbound /\ binding # "current"
               THEN Done(t)
               ELSE Go(t, IF At(t, "confirm") THEN "sending" ELSE "ready") /\ UNCHANGED inflight
       ELSE Done(t) /\ UNCHANGED <<journal, timer>>
    /\ UNCHANGED <<conversation, inc, history>>

(* The timer of a holder renews its claim while it works. *)
RenewTick(t) ==
    /\ task[t].pc \in {"ready", "confirm", "sending"} /\ Holds(t) /\ journal[task[t].ev].state = "lapsed"
    /\ Renew(task[t].ev)
    /\ Reschedule
    /\ UNCHANGED <<conversation, inc, inflight, task, history>>

(* The outcome to record next. *)
Outcome(t, state) == task' = [task EXCEPT ![t].pc = "record", ![t].want = state]

(* The checks of a command before it is sent; a post asks Discord for its nonce. *)
Check(t) ==
    /\ task[t].pc \in {"claimed", "ready"}
    /\ LET e == task[t].ev IN
       \/ /\ e \in Inbound
          /\ \/ binding = "no_record" /\ Outcome(t, "terminal")
             \/ binding = "no_endpoint" /\ Outcome(t, "accepted")
             \/ binding = "current" /\ At(t, "ready") /\ Go(t, "sending")
       \/ /\ e \in Outbound /\ At(t, "ready")
          /\ IF sent[e] > 0 THEN Outcome(t, "terminal") ELSE Go(t, "confirm")
    /\ UNCHANGED <<journal, conversation, inc, inflight, timer, history>>

(* The session or Discord gets it; or the call fails, with the sender sure that *)
(* nothing was sent (a command only) or not, and something sent or not.         *)
Send(t) ==
    /\ At(t, "sending")
    /\ LET e == task[t].ev IN
       \/ /\ sent' = [sent EXCEPT ![e] = @ + 1]
          /\ \/ Outcome(t, "terminal") /\ UNCHANGED faults
             \/ Outcome(t, "uncertain") /\ Fault
       \/ /\ Fault
          /\ \/ e \in Inbound /\ Outcome(t, "accepted")
             \/ Outcome(t, "uncertain")
          /\ UNCHANGED sent
    /\ UNCHANGED <<journal, conversation, inc, inflight, timer, life, expired, raced, delivered>>

(* The outcome is recorded behind the fence, that of a post only if the post is *)
(* still wanted.                                                                *)
RecordOutcome(t) ==
    /\ At(t, "record")
    /\ LET e == task[t].ev state == task[t].want IN
       \/ /\ Holds(t) /\ state = "terminal" /\ (e \in Outbound => binding = "current")
          /\ Record(e, state)
          /\ Go(t, "prune") /\ UNCHANGED <<inflight, timer>>
       \/ /\ Holds(t) /\ state = "terminal" /\ e \in Outbound /\ binding # "current"
          /\ Renew(e)
          /\ Done(t) /\ Reschedule
       \/ /\ Holds(t) /\ state # "terminal"
          /\ Record(e, state)
          /\ Done(t) /\ Reschedule
       \/ /\ ~Holds(t)
          /\ Done(t) /\ UNCHANGED <<journal, timer>>
    /\ UNCHANGED <<conversation, inc, history>>

(* terminalizeEffect without a claim, of a rejected or a stale effect. *)
Terminalize(t) ==
    /\ task[t].pc \in {"reject", "stale"}
    /\ LET e == task[t].ev
           next(stage) == task' = [task EXCEPT ![t].pc = stage,
                                               ![t].want = IF At(t, "reject") THEN "rejected" ELSE "terminal"]
       IN
       \/ /\ ~IsOpen(e)
          /\ next("finish") /\ UNCHANGED <<journal, inflight>>
       \/ /\ IsOpen(e) /\ journal[e].state \in {"uncertain", "leased"}
          /\ Quit(t) /\ UNCHANGED journal
       \/ /\ IsOpen(e) /\ journal[e].state = "lapsed"
          /\ Abandon(e) /\ Quit(t)
       \/ /\ IsOpen(e) /\ journal[e].state \in {"pending", "accepted"}
          /\ Record(e, "terminal")
          /\ next("prune") /\ UNCHANGED inflight
    /\ UNCHANGED <<conversation, inc, timer, history>>

(* The list of what to evict, which may be empty. *)
Listed(t, D) == task' = [task EXCEPT ![t].pc = IF D = {} THEN "finish" ELSE "evict",
                                     ![t].doomed = {<<e, life[e]>> : e \in D}]

PruneUnreferenced(t) ==
    /\ At(t, "prune")
    /\ \E D \in SUBSET Effects : Oldest(D) /\ Listed(t, D)
    /\ UNCHANGED <<journal, conversation, inc, inflight, timer, history>>

(* pruneTerminal: the journal is listed and the receipts are read. *)
Prune(t) ==
    /\ At(t, "prune")
    /\ \E D \in SUBSET Effects : Oldest(D) /\ Listed(t, D \ receipts)
    /\ UNCHANGED <<journal, conversation, inc, inflight, timer, history>>

(* The listed effects go one by one. *)
Evict(t) ==
    /\ At(t, "evict")
    /\ \E d \in task[t].doomed :
          /\ task' = [task EXCEPT ![t].doomed = @ \ {d},
                                  ![t].pc = IF task[t].doomed = {d} THEN "finish" ELSE "evict"]
          /\ \/ SameGeneration(d) /\ journal' = [journal EXCEPT ![d[1]] = Absent]
             \/ (Present(d[1]) => d[2] # life[d[1]]) /\ UNCHANGED journal
    /\ UNCHANGED <<conversation, inc, inflight, timer, history>>

(* finishInbound after the effect has become terminal; the rejection of an *)
(* event leaves the record alone.                                          *)
Finish(t) ==
    /\ At(t, "finish")
    /\ IF task[t].want = "rejected" THEN Quit(t) /\ UNCHANGED <<receipts, seen, raced>>
                                    ELSE Done(t) /\ Complete({task[t].ev})
    /\ UNCHANGED <<journal, binding, inc, timer, life, sent, expired, delivered, faults>>

-----------------------------------------------------------------------------
(* The timer goes off: recoverLeasedEffects. *)
Recover(t) ==
    /\ At(t, "idle") /\ Free(t) /\ timer = "set"
    /\ timer' = "off"
    /\ Complete(Terminated)
    /\ task' = [task EXCEPT ![t] = [Idle EXCEPT !.pc = "sweep", !.kind = "recovery", !.todo = Effects]]
    /\ UNCHANGED <<journal, binding, inc, inflight, life, sent, expired, delivered, faults>>

(* A recovery takes up e, which it then leaves as it is or brings to a stage. *)
Pass(t, e) == task' = [task EXCEPT ![t].todo = @ \ {e}]
TakeUp(t, e, stage) == task' = [task EXCEPT ![t].todo = @ \ {e}, ![t].ev = e, ![t].pc = stage]

(* drainProviderEffects: posts without a live claim are run again, or given up *)
(* when the conversation is no longer active.                                  *)
SweepOutbound(t, e) ==
    /\ At(t, "sweep") /\ e \in task[t].todo \cap Outbound
    /\ IF IsOpen(e) /\ journal[e].state # "leased" /\ (binding = "no_endpoint" => journal[e].epoch < MaxTries)
       THEN TakeUp(t, e, IF binding = "no_record" THEN "stale" ELSE "dispatch")
       ELSE Pass(t, e)
    /\ UNCHANGED <<journal, conversation, inc, inflight, timer, history>>

(* The receipts a recovery goes through: those of a conversation that is active. *)
Pending == IF binding = "no_record" THEN {} ELSE receipts

(* drainPendingDispatches: after the posts, the commands that have a receipt; one *)
(* without its effect makes the recovery fail, to be repeated.                    *)
SweepReceipt(t, e) ==
    /\ At(t, "sweep") /\ task[t].todo \cap Outbound = {} /\ e \in task[t].todo \cap Pending
    /\ \/ /\ e \in inflight
          /\ Pass(t, e) /\ UNCHANGED <<receipts, seen, raced>>
       \/ /\ e \notin inflight /\ ~Present(e)
          /\ task' = [task EXCEPT ![t].todo = @ \ {e}, ![t].kind = "failing"]
          /\ UNCHANGED <<receipts, seen, raced>>
       \/ /\ e \notin inflight /\ IsTerminal(e)
          /\ Pass(t, e) /\ Complete({e})
       \/ /\ e \notin inflight /\ IsOpen(e)
          /\ TakeUp(t, e, IF binding = "current" THEN "dispatch" ELSE "stale")
          /\ UNCHANGED <<receipts, seen, raced>>
    /\ UNCHANGED <<journal, binding, inc, inflight, timer, life, sent, expired, delivered, faults>>

SweepOrphanSkipped(t, e) ==
    /\ At(t, "sweep") /\ task[t].todo \cap (Outbound \cup Pending) = {} /\ e \in task[t].todo
    /\ Pass(t, e)
    /\ UNCHANGED <<journal, conversation, inc, inflight, timer, history>>

(* Last, those that have none because the daemon died before it was taken: they *)
(* are adopted, unless the event has been seen or the conversation is over.     *)
SweepOrphan(t, e) ==
    /\ At(t, "sweep") /\ task[t].todo \cap (Outbound \cup Pending) = {} /\ e \in task[t].todo
    /\ IF ~IsOpen(e) \/ e \in inflight
       THEN Pass(t, e) /\ UNCHANGED <<receipts, raced>>
       ELSE IF binding = "no_record" \/ e \in seen
       THEN TakeUp(t, e, "reject") /\ UNCHANGED <<receipts, raced>>
       ELSE TakeUp(t, e, IF binding = "current" THEN "dispatch" ELSE "stale") /\ TakeReceipt(e)
    /\ UNCHANGED <<journal, seen, binding, inc, inflight, timer, life, sent, expired, delivered, faults>>

(* What the recovery timer is set for. *)
Recoverable(e) == IsOpen(e) /\ (journal[e].state = "uncertain" => e \in Outbound)

(* The timer when a look does not set it. *)
LeftOff == IF \E e \in Effects : Recoverable(e) THEN "lost" ELSE "off"

(* A handler that is through, and a recovery that has nothing more to look at. *)
Looking(t) == At(t, "look") \/ (At(t, "sweep") /\ task[t].todo = {})

LookUnlessRecovery(t) ==
    /\ Looking(t)
    /\ task' = [task EXCEPT ![t] = IF task[t].kind = "handler" THEN [Idle EXCEPT !.pc = "set"] ELSE Idle]
    /\ UNCHANGED <<journal, conversation, inc, inflight, timer, history>>

(* scheduleLeaseRecovery: the journal is listed, then the timer is set or cleared *)
(* by what the list said.                                                         *)
Look(t) ==
    /\ Looking(t)
    /\ LET work == task[t].kind = "failing" \/ \E e \in Effects : Recoverable(e)
       IN  task' = [task EXCEPT ![t] = [Idle EXCEPT !.pc = IF work THEN "set" ELSE "clear"]]
    /\ UNCHANGED <<journal, conversation, inc, inflight, timer, history>>

Schedule(t) == /\ task[t].pc \in {"set", "clear"}
               /\ timer' = IF At(t, "set") THEN "set" ELSE LeftOff
               /\ task' = [task EXCEPT ![t] = Idle]
               /\ UNCHANGED <<journal, conversation, inc, inflight, life, sent, expired, raced, delivered, faults>>

(* A call on the journal, the record or the endpoint throws.  A handler leaves, past *)
(* its reservation by way of a look at the journal; a recovery fails, to be repeated. *)
Throw(t) ==
    /\ task[t].pc \notin {"idle", "set", "clear"}
    /\ Fault
    /\ \/ /\ \/ Looking(t)
             \/ task[t].kind = "post"
             \/ task[t].kind = "handler" /\ (task[t].pc \in {"reserve", "reject"} \/ task[t].want = "rejected")
          /\ task' = [task EXCEPT ![t] = Idle]
          /\ timer' = IF Looking(t) /\ timer # "set" THEN LeftOff ELSE timer
          /\ UNCHANGED inflight
       \/ /\ task[t].kind = "handler" /\ task[t].pc \notin {"look", "reserve", "reject"} /\ task[t].want # "rejected"
          /\ Done(t) /\ UNCHANGED timer
       \/ /\ task[t].kind \in {"recovery", "failing"} /\ ~Looking(t)
          /\ task' = [task EXCEPT ![t] = [Idle EXCEPT !.pc = "look", !.kind = "failing"]]
          /\ UNCHANGED <<inflight, timer>>
    /\ UNCHANGED <<journal, conversation, inc, life, sent, expired, raced, delivered>>

-----------------------------------------------------------------------------
HeldBy(t, e) == task[t].ev = e /\ task[t].pc \in Working /\ Holds(t)

(* A claim in use: its holder is still at work, or the command has reached the session. *)
InUse(e) == (\E t \in Tasks : HeldBy(t, e)) \/ (e \in Inbound /\ sent[e] > 0)

(* A claim runs out: its holder is gone, or it stalls for longer than the lease. *)
Expire(e) == /\ IsOpen(e) /\ journal[e].state = "leased"
             /\ journal' = [journal EXCEPT ![e].state = "lapsed"]
             /\ IF \E t \in Tasks : HeldBy(t, e) THEN Fault ELSE UNCHANGED faults
             /\ expired' = IF InUse(e) THEN expired \cup {e} ELSE expired
             /\ UNCHANGED <<conversation, inc, inflight, timer, task, life, sent, raced, delivered>>

(* The session goes and comes back, or the conversation is archived or closed. *)
Move == /\ \/ binding # "no_record" /\ binding' \in {"no_endpoint", "no_record"} \ {binding} /\ Fault
           \/ binding = "no_endpoint" /\ binding' = "current" /\ UNCHANGED faults
        /\ UNCHANGED <<journal, receipts, seen, inc, inflight, timer, task, life, sent, expired, raced, delivered>>

(* The daemon dies and is started again, which begins with a recovery. *)
Crash == /\ Fault
         /\ inc' = inc + 1
         /\ task' = [t \in Tasks |-> Idle]
         /\ inflight' = {}
         /\ timer' = "set"
         /\ UNCHANGED <<journal, conversation, life, sent, expired, raced, delivered>>

Step(t) == \/ Reserve(t) \/ NoEndpoint(t) \/ Dispatch(t) \/ Ensure(t) \/ RenewTick(t) \/ Check(t) \/ Send(t)
           \/ RecordOutcome(t) \/ Terminalize(t) \/ Prune(t) \/ Evict(t) \/ Finish(t) \/ Recover(t)
           \/ \E e \in Effects : SweepOutbound(t, e) \/ SweepReceipt(t, e) \/ SweepOrphan(t, e)
           \/ Look(t) \/ Schedule(t)

Next == \/ \E t \in Tasks : Step(t) \/ Throw(t) \/ \E e \in Effects : HandleInbound(t, e) \/ Post(t, e)
        \/ \E e \in Effects : Expire(e)
        \/ Move
        \/ Crash

Spec == Init /\ [][Next]_vars

(* Tasks that have begun go on, a timer that is set goes off, and a claim nobody *)
(* renews runs out.                                                              *)
Fairness == /\ \A t \in Tasks : WF_vars(Step(t))
            /\ \A e \in Effects : WF_vars(Expire(e) /\ \A t \in Tasks : ~HeldBy(t, e))

FairSpec == Spec /\ Fairness

-----------------------------------------------------------------------------
(* Of the tasks that work on an effect at most one passes its fence (owner and epoch, *)
(* chat-effect-journal.ts:265, 309).  An effect that was evicted and created anew     *)
(* counts its epochs from 1 again, and with it a task left over from before may pass. *)
OneHolder == \A e \in Effects : \A t, u \in Tasks : life[e] = 1 /\ HeldBy(t, e) /\ HeldBy(u, e) => t = u

(* As long as no claim on it runs out while in use, a message is posted once, and a     *)
(* command reaches the session once each time the journal takes it in, whatever         *)
(* crashes, fails, is delivered again or is taken up by a recovery: an uncertain        *)
(* command is not sent again, an uncertain post is looked up by its nonce first, and an *)
(* abandoned claim is taken over by one.                                                *)
SentOnceUnlessExpired == \A e \in Effects \ expired : sent[e] <= IF e \in Outbound THEN 1 ELSE life[e]

(* "Referenced effects are retained by terminal pruning" (discord-daemon.ts:853), *)
(* unless the receipt was taken after the pruning had read the receipts.          *)
ReceiptHasEffect == \A e \in receipts \ raced : Present(e)

(* "nonterminal effects are never evicted" (chat-effect-journal.ts:116): only one *)
(* created anew since a pruning listed it can be.                                 *)
OpenIsKept == [][\A e \in Effects : IsOpen(e) /\ ~Present(e)' =>
                     \E t \in Tasks : \E d \in task[t].doomed : d[1] = e /\ d[2] < life[e]]_vars

(* When nobody is at work on the journal the timer is set as long as there is work, *)
(* unless a late or failed look left it off.                                          *)
WorkIsScheduled == (\A t \in Tasks : At(t, "idle")) /\ (\E e \in Effects : Recoverable(e)) => timer # "off"

Settled(e) == ~IsOpen(e) \/ journal[e].state = "uncertain"

(* Every effect is brought to an end, at the latest by a recovery: it is terminal, *)
(* or nobody can say whether it was sent.  A post waits for its endpoint, and an   *)
(* effect left when a late or failed look put the timer off waits for the next     *)
(* task that looks at the journal.                                                 *)
EffectsSettle == \A e \in Effects : []<>(Settled(e) \/ timer = "lost" \/ (e \in Outbound /\ binding = "no_endpoint"))
=============================================================================
