----------------------------- MODULE JobManager -----------------------------
(***************************************************************************)
(* Background jobs of a session (async/job-manager.ts) and the tool that   *)
(* polls them (tools/job.ts).  A job has an id, reused once its record is  *)
(* evicted, and a generation, never reused.  When it finishes, its result  *)
(* is queued; one delivery loop hands the queued results, one at a time,   *)
(* to the session's onJobComplete.  A poll watches the running jobs it     *)
(* waits for, which holds their results back, and acknowledges the ones it *)
(* shows, which discards them.                                             *)
(*                                                                         *)
(* A result is in #deliveries at most once: the array is kept as the set   *)
(* of its deliveries and, for each, the set of those in front of it.       *)
(*                                                                         *)
(* A result that leaves the queue for a reason the code names (a dead      *)
(* letter, a retry after the record's eviction) is put in the history      *)
(* variable dropped; one that is discarded because it is suppressed or its *)
(* id was taken over is not, so that losing it that way shows.             *)
(***************************************************************************)
EXTENDS Integers, FiniteSets

CONSTANTS
  Ids,          \* the job ids #resolveJobId can give out
  MaxJobs,      \* bound on the jobs registered
  MaxQueue,     \* DEFAULT_MAX_DELIVERY_QUEUE
  MaxAttempts,  \* DELIVERY_MAX_ATTEMPTS
  None

VARIABLES
  jobs,      \* #jobs: id -> the generation registered under it
  idOf,      \* generation -> its id
  status,    \* generation -> its status
  watched,   \* #watchedJobs, by id
  acked,     \* #suppressedDeliveries, by generation
  queue,     \* #deliveries
  ahead,     \* for a queued delivery, those in front of it
  attempt,   \* delivery.attempt
  loop,      \* "on" while #deliveryLoop is set
  flight,    \* the delivery whose onJobComplete is running
  poll,      \* the poll that waits: the jobs it tracks and the ids it watches
  shown,     \* history: results a tool result carried
  dropped    \* history: results given up for a reason the code names

managerVars == <<jobs, idOf, status, watched, acked, queue, ahead, attempt,
                 loop, flight, poll, shown, dropped>>

Gens == 1..MaxJobs

(* A poll: the jobs it tracks, the ids it watches, and the jobs that were  *)
(* over when it began.                                                     *)
PollRecord == [tracked : SUBSET Gens, ids : SUBSET Ids, over : SUBSET Gens]

ASSUME ManagerAssumption ==
  /\ MaxJobs \in Nat \ {0} /\ MaxQueue \in Nat \ {0}
  /\ MaxAttempts \in Nat \ {0}
  /\ None \notin Gens /\ None \notin Ids /\ None \notin PollRecord

ManagerTypeOK ==
  /\ jobs \in [Ids -> Gens \cup {None}]
  /\ idOf \in [Gens -> Ids \cup {None}]
  /\ status \in [Gens -> {"none", "running", "done", "cancelled"}]
  /\ watched \subseteq Ids
  /\ acked \subseteq Gens
  /\ queue \subseteq Gens /\ ahead \in [Gens -> SUBSET Gens]
  /\ attempt \in [Gens -> 0..MaxAttempts]
  /\ loop \in {"off", "on"}
  /\ flight \in Gens \cup {None}
  /\ poll \in PollRecord \cup {None}
  /\ shown \subseteq Gens /\ dropped \subseteq Gens

ManagerInit ==
  /\ jobs = [i \in Ids |-> None]
  /\ idOf = [g \in Gens |-> None]
  /\ status = [g \in Gens |-> "none"]
  /\ watched = {} /\ acked = {}
  /\ queue = {} /\ ahead = [g \in Gens |-> {}]
  /\ attempt = [g \in Gens |-> 0]
  /\ loop = "off" /\ flight = None
  /\ poll = None
  /\ shown = {} /\ dropped = {}

Current(g) == jobs[idOf[g]] = g
Superseded(g) == jobs[idOf[g]] \notin {None, g}

(* isDeliverySuppressed: acknowledged, or watched under its id.            *)
Suppressed(g) == g \in acked \/ idOf[g] \in watched

(* The first of the deliveries S; the order after a push at the end, and   *)
(* when only the deliveries S are left; the last MaxQueue of q in an order.*)
First(S) == {g \in S : ahead[g] \cap S = {}}
Push(g) == [ahead EXCEPT ![g] = queue]
Only(S, order) == [g \in Gens |-> IF g \in S THEN order[g] \cap S ELSE {}]
Kept(q, order) ==
  {g \in q : Cardinality({h \in q : g \in order[h]}) < MaxQueue}

-----------------------------------------------------------------------------
Register(i) ==
  /\ jobs[i] = None
  /\ \E g \in Gens :
       /\ status[g] = "none"
       /\ \A h \in Gens : h < g => status[h] # "none"
       /\ jobs' = [jobs EXCEPT ![i] = g]
       /\ idOf' = [idOf EXCEPT ![g] = i]
       /\ status' = [status EXCEPT ![g] = "running"]
  /\ UNCHANGED <<watched, acked, queue, ahead, attempt, loop, flight, poll,
                 shown, dropped>>

(* The job's promise settles: #enqueueDelivery, the oldest deliveries      *)
(* going to the dead letters while the queue is over its limit, and        *)
(* #ensureDeliveryLoop.                                                    *)
Finish(g) ==
  /\ status[g] = "running"
  /\ status' = [status EXCEPT ![g] = "done"]
  /\ IF g \in acked
     THEN UNCHANGED <<queue, ahead, loop, dropped>>
     ELSE LET q == queue \cup {g} IN
          /\ queue' = Kept(q, Push(g))
          /\ ahead' = Only(queue', Push(g))
          /\ dropped' = dropped \cup (q \ Kept(q, Push(g)))
          /\ loop' = "on"
  /\ UNCHANGED <<jobs, idOf, watched, acked, attempt, flight, poll, shown>>

(* cancel: a cancelled job's result is not delivered.                      *)
Cancel(g) ==
  /\ status[g] = "running"
  /\ status' = [status EXCEPT ![g] = "cancelled"]
  /\ UNCHANGED <<jobs, idOf, watched, acked, queue, ahead, attempt, loop,
                 flight, poll, shown, dropped>>

(* #evictJob, the retention over: the record and the watch go, queued      *)
(* deliveries stay, and the loop is not started.  A poll waits for five    *)
(* minutes at most, and the retention is five minutes: the record of a job *)
(* that ends during a poll outlives the poll.  A cancelled job is taken to *)
(* settle within the retention: one that ignored its abort for longer      *)
(* would, by its id, schedule the eviction of the job that has it then.    *)
Evict(i) ==
  /\ jobs[i] # None
  /\ status[jobs[i]] \in {"done", "cancelled"}
  /\ poll # None => jobs[i] \in poll.over
  /\ jobs' = [jobs EXCEPT ![i] = None]
  /\ watched' = watched \ {i}
  /\ UNCHANGED <<idOf, status, acked, queue, ahead, attempt, loop, flight,
                 poll, shown, dropped>>

(* One turn of #runDeliveryLoop up to the call of onJobComplete: the first *)
(* delivery that is not suppressed, discarded when another job has its id. *)
Pick ==
  /\ loop = "on" /\ flight = None
  /\ LET ready == {g \in queue : ~Suppressed(g)} IN
     \/ /\ ready = {}
        /\ loop' = "off"
        /\ UNCHANGED <<queue, ahead, flight>>
     \/ \E g \in First(ready) :
          /\ queue' = queue \ {g}
          /\ ahead' = Only(queue', ahead)
          /\ flight' = IF Superseded(g) THEN None ELSE g
          /\ UNCHANGED loop
  /\ UNCHANGED <<jobs, idOf, status, watched, acked, attempt, poll, shown,
                 dropped>>

(* onJobComplete threw: the delivery is queued again while its record is   *)
(* there, and given up after MaxAttempts.                                  *)
FlightFails ==
  /\ flight # None
  /\ attempt' = [attempt EXCEPT ![flight] = @ + 1]
  /\ LET again == attempt'[flight] < MaxAttempts /\ Current(flight) IN
     /\ IF again /\ flight \notin acked
        THEN queue' = queue \cup {flight} /\ ahead' = Push(flight)
        ELSE UNCHANGED <<queue, ahead>>
     /\ dropped' = IF again THEN dropped ELSE dropped \cup {flight}
  /\ flight' = None
  /\ UNCHANGED <<jobs, idOf, status, watched, acked, loop, poll, shown>>

ByAcknowledgingQueued(ids) ==
  {g \in Gens : idOf[g] \in ids /\ g \in queue}

(* acknowledgeDeliveries(ids): the job now under the id, and every         *)
(* delivery of the id that is queued or in flight.                         *)
ByAcknowledging(ids) ==
  {g \in Gens : /\ idOf[g] \in ids
                /\ Current(g) \/ g \in queue \/ g = flight}

Acknowledge(ids) ==
  /\ acked' = acked \cup ByAcknowledging(ids)
  /\ queue' = queue \ acked'
  /\ ahead' = Only(queue', ahead)

(* #snapshotJobs shows, for each tracked job, the one now under its id, or *)
(* the tracked one when there is none; #buildResult acknowledges the ids   *)
(* that are not shown as running.                                          *)
Snapshot(tracked) ==
  {IF jobs[idOf[g]] = None THEN g ELSE jobs[idOf[g]] : g \in tracked}

BuildResult(tracked) ==
  LET over == {g \in Snapshot(tracked) : status[g] # "running"} IN
  /\ Acknowledge({idOf[g] : g \in over})
  /\ shown' = shown \cup over

WatchAll(tracked) == tracked
Watch(tracked) == {g \in tracked : status[g] = "running"}

(* A poll of some of the registered jobs answers at once when none runs;   *)
(* otherwise it watches those that run.                                    *)
PollStarts(tracked) ==
  /\ poll = None
  /\ tracked # {}
  /\ \A g \in tracked : idOf[g] # None /\ Current(g)
  /\ IF \A g \in tracked : status[g] # "running"
     THEN BuildResult(tracked) /\ UNCHANGED <<watched, poll>>
     ELSE LET ids == {idOf[g] : g \in Watch(tracked)} IN
          /\ watched' = watched \cup ids
          /\ poll' = [tracked |-> tracked, ids |-> ids,
                      over |-> {g \in Gens : status[g] \in {"done", "cancelled"}}]
          /\ UNCHANGED <<acked, queue, ahead, shown>>
  /\ UNCHANGED <<jobs, idOf, status, attempt, loop, flight, dropped>>

(* A watched job finished, the wait timed out or the call was aborted: the *)
(* ids are unwatched, which starts the loop, and the result is built, in   *)
(* one step.                                                               *)
PollEnds ==
  /\ poll # None
  /\ watched' = watched \ poll.ids
  /\ loop' = IF watched \cap poll.ids = {} THEN loop ELSE "on"
  /\ BuildResult(poll.tracked)
  /\ poll' = None
  /\ UNCHANGED <<jobs, idOf, status, attempt, flight, dropped>>
=============================================================================
