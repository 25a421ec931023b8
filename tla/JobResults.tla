----------------------------- MODULE JobResults -----------------------------
(***************************************************************************)
(* How a job's result reaches the agent: onJobComplete (sdk/session.ts)    *)
(* formats it and enqueues it on the session's YieldQueue                  *)
(* (session/yield-queue.ts), which agent-session.ts flushes into a running *)
(* turn when the agent is about to yield, or, while the session is idle,   *)
(* by a scheduled flush that starts a turn of its own.                     *)
(*                                                                         *)
(* run is "running" from the start of a turn to its last onBeforeYield or  *)
(* its failure, and "ending" from there until #endInFlight: for the queue  *)
(* the session is streaming in both.  A poll is a tool call of a turn,     *)
(* which yields, fails or settles when the call has answered; only an      *)
(* abort ends the turn before.                                             *)
(***************************************************************************)
EXTENDS JobManager

CONSTANTS
  MaxFaults,  \* bound on aborts, and on failed turns, deliveries and handoffs
  MaxEras     \* bound on contexts: sessions, and clears of a session's context

VARIABLES
  entries,    \* #entries of kind async-result
  pending,    \* #idleFlushPending
  scheduled,  \* whether a post-prompt task will run the flush
  injecting,  \* results drained by a flush that waits in injectIdle
  run,        \* the turn of the agent
  handoff,    \* "none", or where the handoff is that holds the session
  era,        \* history: contexts begun
  got,        \* history: results put into a turn
  ended,      \* history: jobs whose results their context took to its end
  missed,     \* history: results may lie in the queue with no flush to come
  faults      \* history: faults so far

ASSUME SessionAssumption == MaxFaults \in Nat /\ MaxEras \in Nat \ {0}

sessionVars == <<entries, pending, scheduled, injecting, run, handoff, era,
                 got, ended, missed, faults>>
vars == <<managerVars, sessionVars>>

Eras == 1..MaxEras

TypeOK ==
  /\ ManagerTypeOK
  /\ entries \subseteq Gens /\ injecting \subseteq Gens
  /\ pending \in BOOLEAN /\ scheduled \in BOOLEAN
  /\ run \in {"idle", "running", "ending"}
  /\ handoff \in {"none", "open", "committed"}
  /\ era \in Eras
  /\ got \subseteq Gens /\ ended \subseteq Gens
  /\ missed \in BOOLEAN /\ faults \in 0..MaxFaults

Init ==
  /\ ManagerInit
  /\ entries = {} /\ injecting = {}
  /\ pending = FALSE /\ scheduled = FALSE
  /\ run = "idle" /\ handoff = "none"
  /\ era = 1 /\ got = {} /\ ended = {}
  /\ missed = FALSE /\ faults = 0

(* isStreaming, as the queue is given it; #handoffTransitionActive is set  *)
(* from the start of a handoff until the predecessor's results are gone.   *)
Streaming == run # "idle" \/ handoff # "none"

(* #scheduleIdleFlush                                                      *)
ScheduleIdleFlush ==
  /\ pending' = TRUE
  /\ scheduled' = (scheduled \/ ~pending)

-----------------------------------------------------------------------------
Fault == faults < MaxFaults /\ faults' = faults + 1

Manage ==
  /\ \/ \E i \in Ids : Register(i) \/ Evict(i)
     \/ \E g \in Gens : Cancel(g)
     \/ Pick
     \/ run = "running" /\ \E tracked \in SUBSET Gens : PollStarts(tracked)
     \/ PollEnds
  /\ UNCHANGED sessionVars

JobFinishes ==
  /\ \E g \in Gens : Finish(g)
  /\ UNCHANGED <<entries, pending, scheduled, injecting, run, handoff, era,
                 got, ended, missed, faults>>

DeliveryFails ==
  /\ Fault
  /\ FlightFails
  /\ UNCHANGED <<entries, pending, scheduled, injecting, run, handoff, era,
                 got, ended, missed>>

(* onJobComplete after the await of the formatting: discarded when it is   *)
(* suppressed by now, else enqueued, which schedules an idle flush unless  *)
(* the session is streaming.                                               *)
Deliver ==
  /\ flight # None
  /\ flight' = None
  /\ IF Suppressed(flight)
     THEN UNCHANGED <<entries, pending, scheduled, missed>>
     ELSE /\ entries' = entries \cup {flight}
          /\ IF Streaming THEN UNCHANGED <<pending, scheduled>>
                          ELSE ScheduleIdleFlush
          /\ missed' = (missed \/ run = "ending")
  /\ UNCHANGED <<jobs, idOf, status, watched, acked, queue, ahead, attempt,
                 loop, poll, shown, dropped>>
  /\ UNCHANGED <<injecting, run, handoff, era, got, ended, faults>>

(* #build: the drained entries that are not stale.                         *)
Survivors == {g \in entries : ~Suppressed(g)}

(* A prompt of the user starts a turn.                                     *)
Prompt ==
  /\ ~Streaming
  /\ run' = "running"
  /\ UNCHANGED <<managerVars, entries, pending, scheduled, injecting, handoff,
                 era, got, ended, missed, faults>>

(* onBeforeYield: the queue is flushed into the turn, which goes on when   *)
(* anything was injected and ends otherwise.  An idle flush that was       *)
(* cancelled still keeps the next one from being scheduled.                *)
Yield ==
  /\ run = "running" /\ poll = None
  /\ entries' = {}
  /\ got' = got \cup Survivors
  /\ run' = IF Survivors = {} THEN "ending" ELSE "running"
  /\ missed' = (missed /\ pending /\ ~scheduled)
  /\ UNCHANGED <<managerVars, pending, scheduled, injecting, handoff, era,
                 ended, faults>>

(* The turn ends by an error: agent_end without onBeforeYield.             *)
TurnFails ==
  /\ Fault
  /\ run = "running" /\ poll = None
  /\ run' = "ending" /\ missed' = (missed \/ entries # {})
  /\ UNCHANGED <<managerVars, entries, pending, scheduled, injecting, handoff,
                 era, got, ended>>

(* #endInFlight                                                            *)
Settle ==
  /\ run = "ending" /\ poll = None
  /\ run' = "idle"
  /\ UNCHANGED <<managerVars, entries, pending, scheduled, injecting, handoff,
                 era, got, ended, missed, faults>>

(* abort: #cancelPostPromptTasks skips a flush that has not run, whose     *)
(* #idleFlushPending stays set, and the turn ends without onBeforeYield.   *)
Abort ==
  /\ Fault
  /\ run = "running" \/ scheduled
  /\ scheduled' = FALSE
  /\ run' = IF run = "running" THEN "ending" ELSE run
  /\ missed' = (missed \/ entries # {} \/ scheduled)
  /\ UNCHANGED <<managerVars, entries, pending, injecting, handoff, era,
                 got, ended>>

(* The scheduled flush runs, 1 ms later: nothing while the session         *)
(* streams, else the queue is drained into injectIdle.                     *)
IdleFlush ==
  /\ scheduled
  /\ scheduled' = FALSE /\ pending' = FALSE
  /\ IF Streaming
     THEN UNCHANGED <<entries, injecting, missed>>
     ELSE /\ entries' = {}
          /\ injecting' = injecting \cup Survivors
          /\ missed' = FALSE
  /\ UNCHANGED <<managerVars, run, handoff, era, got, ended, faults>>

(* injectIdle past its barrier: agent.prompt starts a turn, or refuses     *)
(* because one is running and the results are gone (flush logs it).        *)
InjectIdle ==
  /\ injecting # {}
  /\ injecting' = {}
  /\ \/ /\ run # "running"
        /\ got' = got \cup injecting
        /\ run' = "running"
        /\ UNCHANGED dropped
     \/ /\ run # "idle"
        /\ dropped' = dropped \cup injecting
        /\ UNCHANGED <<got, run>>
  /\ UNCHANGED <<jobs, idOf, status, watched, acked, queue, ahead, attempt,
                 loop, flight, poll, shown>>
  /\ UNCHANGED <<entries, pending, scheduled, handoff, era, ended,
                 missed, faults>>

-----------------------------------------------------------------------------
(* getDeliveryState(...).pendingJobIds: what is queued or in flight and    *)
(* not suppressed.                                                         *)
PendingIds ==
  {idOf[g] : g \in {h \in queue \cup ({flight} \ {None}) : ~Suppressed(h)}}

CancelOwnAsyncJobs ==
  status' = [g \in Gens |->
               IF status[g] = "running" THEN "cancelled" ELSE status[g]]

(* What every change of the context does to the jobs: they are cancelled   *)
(* and the pending deliveries are acknowledged.  That is cancelAll and     *)
(* #suppressOwnAsyncJobDeliveries, or, where a lease fences the owner's    *)
(* deliveries, cancelAndSettleOwnerJobs and finishOwnerSubagentShutdown.   *)
SettleOwnAsyncJobsUnsuppressed ==
  /\ CancelOwnAsyncJobs
  /\ UNCHANGED <<jobs, idOf, watched, acked, queue, ahead, attempt, loop, flight,
                 poll, shown>>

SettleOwnAsyncJobs ==
  /\ CancelOwnAsyncJobs
  /\ Acknowledge(PendingIds)
  /\ UNCHANGED <<jobs, idOf, watched, attempt, loop, flight, poll, shown>>

(* A result on its way from the manager to a turn.                         *)
UnderWay == queue \cup ({flight} \ {None}) \cup entries \cup injecting

(* A new context takes along the results that a flush has drained and, in  *)
(* a new session, those that lie in the queue.  For the others, and for    *)
(* the jobs that run, it is the end.                                       *)
NewContext(taken) ==
  /\ era < MaxEras /\ era' = era + 1
  /\ ended' = ended \cup
       ((UnderWay \cup {g \in Gens : status[g] = "running"}) \ taken)

ClearContext ==
  /\ run # "running" /\ handoff = "none"
  /\ NewContext(injecting)
  /\ SettleOwnAsyncJobs
  /\ entries' = {}
  /\ dropped' = dropped \cup acked' \cup entries
  /\ scheduled' = FALSE /\ pending' = FALSE
  /\ missed' = FALSE
  /\ UNCHANGED <<injecting, run, handoff, got, faults>>

(* newSession and switchSession, at the point from which they are not      *)
(* undone.  Their abort has cancelled a flush, unless it was scheduled     *)
(* since.  The yield queue is left alone.  A delivery in flight makes      *)
(* newSession give up when it does not settle, not switchSession.          *)
NewSession ==
  /\ run # "running" /\ handoff = "none"
  /\ NewContext(injecting \cup entries)
  /\ SettleOwnAsyncJobs
  /\ dropped' = dropped \cup acked'
  /\ \/ /\ scheduled' = FALSE
        /\ missed' = (missed \/ entries # {} \/ scheduled)
     \/ UNCHANGED <<scheduled, missed>>
  /\ UNCHANGED <<entries, pending, injecting, run, handoff, got, faults>>

(* fork and branch: no abort, and no delivery is in flight.                *)
Fork ==
  /\ handoff = "none" /\ flight = None
  /\ NewContext(injecting \cup entries)
  /\ SettleOwnAsyncJobs
  /\ dropped' = dropped \cup acked'
  /\ UNCHANGED <<entries, pending, scheduled, injecting, run, handoff, got,
                 missed, faults>>

HandoffStarts ==
  /\ ~Streaming
  /\ era < MaxEras
  /\ handoff' = "open"
  /\ UNCHANGED <<managerVars, entries, pending, scheduled, injecting, run, era,
                 got, ended, missed, faults>>

(* The jobs are settled and, with no step between, the successor session   *)
(* is adopted.                                                             *)
HandoffCommits ==
  /\ handoff = "open" /\ flight = None
  /\ NewContext(injecting)
  /\ SettleOwnAsyncJobs
  /\ dropped' = dropped \cup acked'
  /\ handoff' = "committed"
  /\ UNCHANGED <<entries, pending, scheduled, injecting, run, got,
                 missed, faults>>

(* The end of a handoff that went well: pending deliveries are suppressed  *)
(* once more, and the queue's entries of this kind are dropped.            *)
(* (Its finally calls rearmIdle too, after session_switch is published; an *)
(* empty queue leaves that nothing to do, and what came in meanwhile has   *)
(* scheduled its own flush or is missed.)                                  *)
HandoffForgets ==
  /\ handoff = "committed"
  /\ Acknowledge(PendingIds)
  /\ entries' = {}
  /\ dropped' = dropped \cup acked' \cup entries
  /\ handoff' = "none"
  /\ UNCHANGED <<jobs, idOf, status, watched, attempt, loop, flight, poll, shown>>
  /\ UNCHANGED <<pending, scheduled, injecting, run, era, got, ended,
                 missed, faults>>

(* The finally of a handoff that throws: rearmIdle.                        *)
RearmIdle ==
  IF run # "idle" \/ entries = {}
  THEN UNCHANGED <<pending, scheduled>>
  ELSE ScheduleIdleFlush

(* A handoff that fails before its commit is rolled back; the results that *)
(* it held back are due in the same session.                               *)
HandoffFailsUnarmed ==
  /\ Fault
  /\ handoff = "open"
  /\ handoff' = "none"
  /\ UNCHANGED <<managerVars, entries, pending, scheduled, injecting, run, era,
                 got, ended, missed>>

HandoffFails ==
  /\ Fault
  /\ handoff = "open"
  /\ handoff' = "none"
  /\ RearmIdle
  /\ UNCHANGED <<managerVars, entries, injecting, run, era, got,
                 ended, missed>>

(* One that fails after it (handoff_committed_degraded) leaves them to the *)
(* successor.                                                              *)
HandoffDegrades ==
  /\ Fault
  /\ handoff = "committed"
  /\ handoff' = "none"
  /\ ended' = ended \ entries
  /\ RearmIdle
  /\ UNCHANGED <<managerVars, entries, injecting, run, era, got, missed>>

Next ==
  \/ Manage \/ JobFinishes \/ DeliveryFails \/ Deliver
  \/ Prompt \/ Yield \/ TurnFails \/ Settle \/ Abort
  \/ IdleFlush \/ InjectIdle
  \/ ClearContext \/ NewSession \/ Fork
  \/ HandoffStarts \/ HandoffCommits \/ HandoffForgets
  \/ HandoffFails \/ HandoffDegrades

Spec == Init /\ [][Next]_vars

(* Timers fire, promises settle, a poll comes to the end of its wait and a *)
(* turn to its own, however often it polls; nobody has to prompt again.    *)
Fairness ==
  /\ WF_vars(Pick /\ UNCHANGED sessionVars)
  /\ WF_vars(Deliver)
  /\ WF_vars(PollEnds /\ UNCHANGED sessionVars)
  /\ SF_vars(Yield) /\ WF_vars(Settle)
  /\ WF_vars(IdleFlush) /\ WF_vars(InjectIdle)
  /\ WF_vars(HandoffCommits \/ HandoffForgets \/ HandoffFails
             \/ HandoffDegrades)

FairSpec == Spec /\ Fairness

-----------------------------------------------------------------------------
Reused(g) == \E h \in Gens : h > g /\ idOf[h] = idOf[g]
Done(g) == status[g] = "done"

Accounted ==
  \A g \in Gens :
    Done(g) /\ ~Reused(g) => g \in UnderWay \cup got \cup shown \cup dropped

Carried ==
  /\ flight # None \/ (\E g \in queue : ~Suppressed(g)) => loop = "on"
  /\ entries # {} /\ ~Streaming => scheduled \/ missed

(* A finished job's result is on its way, in a turn or in a tool result,   *)
(* or was given up for a reason the code names: a watch or an              *)
(* acknowledgement never discards a result that nobody saw, as long as its *)
(* id is not reused (isDeliverySuppressed is asked in the loop, after the  *)
(* formatting and at the flush, by id and by generation).  And somebody    *)
(* carries it: the delivery loop is on while there is anything to deliver, *)
(* and while the session is idle a flush is scheduled for what is queued,  *)
(* unless the end of a turn missed it.                                     *)
NoResultLost == Accounted /\ Carried

(* A result a tool result has shown is not repeated as a message while the *)
(* job's record is kept, unless it had left the queue for injectIdle: the  *)
(* acknowledgement reaches a result that is queued, being formatted or     *)
(* waiting for the agent to yield.  And a result that is in a turn is not  *)
(* on its way any more: a retried delivery has not been queued before, and *)
(* a flush hands on what it takes from the queue.                          *)
NoEcho ==
  [][/\ \A g \in (got' \ got) \cap shown :
          g \in injecting \/ ~Current(g)
     /\ got' \cap UnderWay' = {}]_vars

(* "never flush into the new session": a result that was still to come     *)
(* when its context ended is not put into a turn of another.  That is what *)
(* was running, queued or in flight in the manager and, for clearContext   *)
(* and a handoff that ends well, what lay in the yield queue, unless a     *)
(* turn that a drained flush began takes it before the handoff has cleared *)
(* the queue.  newSession, switchSession, fork, branch and a degraded      *)
(* handoff take the yield queue along.                                     *)
StaysInItsContext ==
  [][handoff = "committed" \/ (got' \ got) \cap ended = {}]_vars

Settled(g) == g \in got \cup shown \cup dropped

(* Every finished job's result is eventually delivered, shown or given up, *)
(* unless its id is reused: again and again there is nothing that still    *)
(* has to arrive, but for results that came when a turn was past its       *)
(* flush, or whose flush an abort cancelled, until a turn takes them.      *)
ResultsArrive ==
  []<>(\A g \in Gens : Done(g) => Settled(g) \/ Reused(g) \/ missed)

(* "Background job results are delivered automatically when complete"      *)
(* (prompts/tools/job.md).                                                 *)
DeliveredAutomatically == \A g \in Gens : Done(g) ~> Settled(g)
=============================================================================
