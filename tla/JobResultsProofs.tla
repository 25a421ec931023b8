-------------------------- MODULE JobResultsProofs --------------------------
(***************************************************************************)
(* No finished job's result is lost, told twice or put in another context, *)
(* for any number of jobs, ids, faults and contexts.                       *)
(*                                                                         *)
(* The argument.  The job under an id is the last that was given the id    *)
(* (Records), so a delivery that is discarded because another job has its  *)
(* id belongs to an id that was reused.  A watch holds back the job that   *)
(* is under its id, and that one has not left the queue (Watches): what is *)
(* discarded after the formatting or at a flush because it is watched is   *)
(* again of an older job.  An acknowledgement discards what was shown,     *)
(* what a context gave up, and older jobs of the same id (Excused), since  *)
(* the records of the jobs a poll shows stay the last of their ids for as  *)
(* long as it waits (Polls).                                               *)
(***************************************************************************)
EXTENDS JobResults, TLAPS

(* A job is registered with an id and keeps it; generations are given out  *)
(* in order; the record under an id is of the last job that has the id,    *)
(* and a running job has its record.                                       *)
Records ==
  /\ \A g \in Gens : status[g] = "none" <=> idOf[g] = None
  /\ \A g, h \in Gens : h < g /\ status[h] = "none" => status[g] = "none"
  /\ \A i \in Ids : jobs[i] # None =>
       /\ idOf[jobs[i]] = i
       /\ \A g \in Gens : idOf[g] = i => g <= jobs[i]
  /\ \A g \in Gens : status[g] = "running" => jobs[idOf[g]] = g

(* What is on its way, and what a turn has got, is the result of a job     *)
(* that is done; what was shown or acknowledged is of a registered job.    *)
Results ==
  /\ \A g \in UnderWay \cup got : status[g] = "done"
  /\ \A g \in shown \cup acked : idOf[g] # None

(* The watches are those of the poll, and each is of a job that ran when   *)
(* the poll began, whose record is there and whose result has not left the *)
(* queue.                                                                  *)
Watches ==
  /\ poll = None => watched = {}
  /\ poll # None =>
       /\ watched = poll.ids
       /\ \A i \in poll.ids :
            /\ jobs[i] \in poll.tracked \ poll.over
            /\ jobs[i] \notin ({flight} \cup entries \cup injecting)

(* The tracked jobs were the last of their ids when the poll began, and    *)
(* one without a record still is.                                          *)
Polls ==
  poll # None =>
    /\ \A g \in poll.over : status[g] \in {"done", "cancelled"}
    /\ \A t \in poll.tracked :
         /\ idOf[t] # None
         /\ \A g \in poll.over : idOf[g] = idOf[t] => g <= t
         /\ jobs[idOf[t]] = None =>
              \A g \in Gens : idOf[g] = idOf[t] => g <= t

(* An acknowledged result was shown or given up, or its id was reused.     *)
Excused == \A g \in acked : g \in shown \cup dropped \/ Reused(g)

(* A shown result whose record is there is acknowledged.                   *)
Shown == \A g \in shown : Current(g) => g \in acked

(* A delivery is queued or in flight, once, with attempts left.            *)
Attempts ==
  /\ flight \notin queue
  /\ \A g \in Gens : status[g] \in {"none", "running"} => attempt[g] = 0
  /\ \A g \in queue \cup ({flight} \ {None}) : attempt[g] < MaxAttempts

IInv == /\ TypeOK /\ Records /\ Results /\ Attempts /\ Watches /\ Polls
        /\ Excused /\ Shown /\ Accounted

(* At first there is no job.                                               *)
LEMMA InitIInv == Init => IInv
<1> SUFFICES ASSUME Init PROVE IInv
  OBVIOUS
<1> USE DEF Init, ManagerInit
<1>1. TypeOK
  <2>1. ManagerTypeOK
    <3>1. attempt \in [Gens -> 0 .. MaxAttempts] BY ManagerAssumption
    <3>2. jobs \in [Ids -> Gens \cup {None}] /\ idOf \in [Gens -> Ids \cup {None}] OBVIOUS
    <3>3. ahead \in [Gens -> SUBSET Gens] OBVIOUS
    <3>4. status \in [Gens -> {"none", "running", "done", "cancelled"}] OBVIOUS
    <3> QED BY <3>1, <3>2, <3>3, <3>4 DEF ManagerTypeOK
  <2>2. era \in Eras BY SessionAssumption DEF Eras
  <2>3. faults \in 0 .. MaxFaults BY SessionAssumption
  <2> QED BY Zenon, <2>1, <2>2, <2>3 DEF TypeOK
<1>2. Records BY ManagerAssumption DEF Records
<1>3. Results BY DEF Results, UnderWay
<1>4. Attempts BY ManagerAssumption DEF Attempts
<1>5. Watches /\ Polls BY DEF Watches, Polls
<1>6. Excused /\ Shown BY DEF Excused, Shown
<1>7. Accounted BY DEF Accounted, Done
<1> QED BY <1>1, <1>2, <1>3, <1>4, <1>5, <1>6, <1>7 DEF IInv

-----------------------------------------------------------------------------
(* What is discarded past the queue because it is suppressed was shown or  *)
(* given up, or its id was reused: it is not the job the watch is for.     *)
LEMMA Discarded ==
  ASSUME IInv, NEW g \in Gens, Suppressed(g),
         g \in {flight} \cup entries \cup injecting
  PROVE  g \in shown \cup dropped \/ Reused(g)
<1>1. CASE g \in acked BY <1>1 DEF IInv, Excused
<1>2. CASE idOf[g] \in watched
  <2>1. poll # None /\ idOf[g] \in poll.ids BY <1>2 DEF IInv, Watches
  <2> DEFINE h == jobs[idOf[g]]
  <2>2. idOf[g] \in Ids BY <1>2 DEF IInv, TypeOK, ManagerTypeOK
  <2>3. h \in poll.tracked /\ h # g BY <2>1 DEF IInv, Watches
  <2>4. h \in Gens BY <2>1, <2>3 DEF IInv, TypeOK, ManagerTypeOK, PollRecord
  <2>5. h # None BY <2>4, ManagerAssumption
  <2>6. idOf[h] = idOf[g] /\ g <= h BY <2>2, <2>5 DEF IInv, Records
  <2> QED BY <2>3, <2>4, <2>6 DEF Reused, Gens
<1> QED BY <1>1, <1>2 DEF Suppressed

(* A step of the session that leaves the job manager alone, takes results  *)
(* only from entries and injecting, and passes on or discards as stale     *)
(* what it takes.                                                          *)
LEMMA SessionStep ==
  ASSUME IInv, TypeOK', UNCHANGED managerVars,
         entries' \subseteq entries,
         injecting' \subseteq entries \cup injecting,
         got' \subseteq entries \cup injecting \cup got,
         \A g \in entries \cup injecting :
           g \in entries' \cup injecting' \cup got' \/ Suppressed(g),
         got \subseteq got'
  PROVE  IInv'
<1> USE DEF managerVars
<1>1. Records' BY DEF IInv, Records
<1>2. Results' BY DEF IInv, Results, UnderWay
<1>3. Attempts' BY DEF IInv, Attempts
<1>4. Watches' BY DEF IInv, Watches, UnderWay
<1>5. Polls' BY DEF IInv, Polls
<1>6. Excused' /\ Shown' BY DEF IInv, Excused, Shown, Reused, Current
<1>8. Accounted'
  <2> SUFFICES ASSUME NEW g \in Gens, status[g] = "done", ~Reused(g)
               PROVE  g \in UnderWay' \cup got' \cup shown \cup dropped
    BY DEF Accounted, Done, Reused
  <2>1. g \in UnderWay \cup got \cup shown \cup dropped BY DEF IInv, Accounted, Done
  <2>2. CASE g \in queue \cup ({flight} \ {None}) BY <2>2 DEF UnderWay
  <2>3. CASE g \in entries \cup injecting BY <2>3, Discarded DEF UnderWay
  <2>4. CASE g \in got BY <2>4 DEF UnderWay
  <2> QED BY <2>1, <2>2, <2>3, <2>4 DEF UnderWay
<1> QED BY <1>1, <1>2, <1>3, <1>4, <1>5, <1>6, <1>8 DEF IInv

(* Turns begin, fail, are aborted and end, and handoffs begin and fail,    *)
(* without touching a result.                                              *)
LEMMA TurnStep ==
  ASSUME IInv, Prompt \/ TurnFails \/ Settle \/ Abort \/ HandoffStarts \/ HandoffFails \/ HandoffDegrades
  PROVE  IInv'
<1>1. UNCHANGED <<managerVars, entries, injecting, got, era>> /\ ended' \subseteq ended
  BY DEF Prompt, TurnFails, Settle, Abort, HandoffStarts, HandoffFails, HandoffDegrades
<1>2. pending' \in BOOLEAN /\ scheduled' \in BOOLEAN
  BY Zenon DEF IInv, TypeOK, Prompt, TurnFails, Settle, Abort, HandoffStarts, HandoffFails,
     HandoffDegrades, RearmIdle, ScheduleIdleFlush
<1>3. run' \in {"idle", "running", "ending"} /\ handoff' \in {"none", "open", "committed"} /\ missed' \in BOOLEAN
  BY Zenon DEF IInv, TypeOK, Prompt, TurnFails, Settle, Abort, HandoffStarts, HandoffFails, HandoffDegrades
<1>4. faults' \in 0 .. MaxFaults
  BY SessionAssumption DEF IInv, TypeOK, Prompt, TurnFails, Settle, Abort, HandoffStarts, HandoffFails,
     HandoffDegrades, Fault
<1>5. TypeOK'
  BY <1>1, <1>2, <1>3, <1>4 DEF IInv, TypeOK, ManagerTypeOK, managerVars
<1> QED BY <1>1, <1>5, SessionStep

(* What a flush does not pass on is stale.                                 *)
LEMMA YieldStep == ASSUME IInv, Yield PROVE IInv'
<1> USE DEF Yield
<1>1. Survivors \subseteq entries /\ \A g \in entries \ Survivors : Suppressed(g) BY DEF Survivors
<1>2. got' = got \cup Survivors OBVIOUS
<1>3. TypeOK'
  <2>1. got' \subseteq Gens BY <1>1 DEF IInv, TypeOK
  <2> QED BY <2>1 DEF IInv, TypeOK, ManagerTypeOK, managerVars
<1> QED BY <1>1, <1>2, <1>3, SessionStep

(* The same of the scheduled flush, whose results wait in injectIdle.      *)
LEMMA IdleFlushStep == ASSUME IInv, IdleFlush PROVE IInv'
<1> USE DEF IdleFlush
<1>1. Survivors \subseteq entries /\ \A g \in entries \ Survivors : Suppressed(g) BY DEF Survivors
<1>2. got' = got OBVIOUS
<1>3. TypeOK' BY Zenon, <1>1 DEF IInv, TypeOK, ManagerTypeOK, managerVars
<1> QED BY <1>1, <1>2, <1>3, SessionStep

(* injectIdle puts its results into a turn or gives them up.               *)
LEMMA InjectIdleStep == ASSUME IInv, InjectIdle PROVE IInv'
<1> USE DEF InjectIdle
<1>1. \/ got' = got \cup injecting /\ dropped' = dropped
      \/ got' = got /\ dropped' = dropped \cup injecting
  OBVIOUS
<1>2. got \subseteq got' /\ got' \subseteq got \cup injecting BY <1>1
<1>3. TypeOK'
  <2>1. got' \subseteq Gens /\ dropped' \subseteq Gens BY DEF IInv, TypeOK, ManagerTypeOK
  <2> QED BY <2>1 DEF IInv, TypeOK, ManagerTypeOK
<1>4. Records' BY DEF IInv, Records
<1>5. Results' BY <1>2 DEF IInv, Results, UnderWay
<1>6. Attempts' BY DEF IInv, Attempts
<1>7. Watches' BY DEF IInv, Watches
<1>8. Polls' BY DEF IInv, Polls
<1>9. Excused' /\ Shown' BY <1>1 DEF IInv, Excused, Shown, Reused, Current
<1>11. Accounted' BY <1>1 DEF IInv, Accounted, Done, Reused, UnderWay
<1> QED BY <1>3, <1>4, <1>5, <1>6, <1>7, <1>8, <1>9, <1>11 DEF IInv

-----------------------------------------------------------------------------
(* A new job takes an id without a record and the next generation.         *)
LEMMA RegisterStep ==
  ASSUME IInv, NEW i \in Ids, Register(i), UNCHANGED sessionVars
  PROVE  IInv'
<1> USE ManagerAssumption DEF sessionVars
<1>1. PICK g \in Gens :
        /\ status[g] = "none"
        /\ jobs' = [jobs EXCEPT ![i] = g]
        /\ idOf' = [idOf EXCEPT ![g] = i]
        /\ status' = [status EXCEPT ![g] = "running"]
        /\ \A h \in Gens : h < g => status[h] # "none"
  BY Zenon DEF Register
<1>2. jobs[i] = None /\ UNCHANGED <<watched, acked, queue, ahead, attempt, loop, flight, poll, shown, dropped>>
  BY DEF Register
<1>3. /\ jobs \in [Ids -> Gens \cup {None}]
      /\ idOf \in [Gens -> Ids \cup {None}]
      /\ status \in [Gens -> {"none", "running", "done", "cancelled"}]
  BY DEF IInv, TypeOK, ManagerTypeOK
<1>4. TypeOK' BY <1>1, <1>2, <1>3 DEF IInv, TypeOK, ManagerTypeOK
<1>5. idOf[g] = None /\ \A h \in Gens : h > g => idOf[h] = None
  BY <1>1 DEF IInv, Records, Gens
<1>6. Records'
  <2>1. \A h \in Gens : status'[h] = "none" <=> idOf'[h] = None BY <1>1, <1>3 DEF IInv, Records
  <2>2. \A h, k \in Gens : k < h /\ status'[k] = "none" => status'[h] = "none"
    BY <1>1, <1>3 DEF IInv, Records, Gens
  <2>3. ASSUME NEW j \in Ids, jobs'[j] # None
        PROVE  idOf'[jobs'[j]] = j /\ \A h \in Gens : idOf'[h] = j => h <= jobs'[j]
    BY <1>1, <1>3, <1>5, <2>3 DEF IInv, Records, Gens
  <2>4. \A h \in Gens : status'[h] = "running" => jobs'[idOf'[h]] = h
    BY <1>1, <1>2, <1>3 DEF IInv, Records
  <2> QED BY <2>1, <2>2, <2>3, <2>4 DEF Records
<1>7. Results' BY <1>1, <1>2, <1>3 DEF IInv, Results, UnderWay, TypeOK, ManagerTypeOK
<1>8. Attempts' BY <1>1, <1>2, <1>3 DEF IInv, Attempts, TypeOK, ManagerTypeOK
<1>9. Watches' BY <1>1, <1>2, <1>3 DEF IInv, Watches, TypeOK, ManagerTypeOK, PollRecord
<1>10. Polls'
  <2> SUFFICES ASSUME poll # None PROVE Polls'
    BY <1>2 DEF Polls
  <2>1. poll.over \subseteq Gens \ {g} /\ poll.tracked \subseteq Gens \ {g}
    BY <1>1, <1>5 DEF IInv, Polls, TypeOK, ManagerTypeOK, PollRecord
  <2>2. \A h \in poll.over : status'[h] \in {"done", "cancelled"} BY Zenon, <1>1, <1>3, <2>1 DEF IInv, Polls
  <2>3. ASSUME NEW t \in poll.tracked
        PROVE  /\ idOf'[t] # None
               /\ \A h \in poll.over : idOf'[h] = idOf'[t] => h <= t
               /\ jobs'[idOf'[t]] = None => \A h \in Gens : idOf'[h] = idOf'[t] => h <= t
    BY <1>1, <1>3, <2>1 DEF IInv, Polls
  <2> QED BY Zenon, <1>2, <2>2, <2>3 DEF Polls
<1>11. \A h \in Gens : idOf[h] # None /\ Reused(h) => Reused(h)' BY <1>1, <1>3, <1>5 DEF Reused
<1>12. Excused' BY <1>2, <1>11 DEF IInv, Excused, Results, TypeOK, ManagerTypeOK
<1>13. Shown' BY <1>1, <1>2, <1>3, <1>5 DEF IInv, Shown, Results, Current, TypeOK, ManagerTypeOK
<1>15. Accounted'
  <2> SUFFICES ASSUME NEW h \in Gens, status'[h] = "done", ~Reused(h)'
               PROVE  h \in UnderWay' \cup got' \cup shown' \cup dropped'
    BY DEF Accounted, Done
  <2>1. status[h] = "done" /\ idOf[h] # None BY <1>1, <1>3 DEF IInv, Records
  <2>2. ~Reused(h) BY <1>11, <2>1
  <2> QED BY <1>2, <2>1, <2>2 DEF IInv, Accounted, Done, UnderWay
<1> QED BY <1>4, <1>6, <1>7, <1>8, <1>9, <1>10, <1>12, <1>13, <1>15 DEF IInv

(* An evicted record was over when the poll began: it is not one the poll  *)
(* watches, and if the poll shows its id it is the tracked one itself.     *)
LEMMA EvictStep ==
  ASSUME IInv, NEW i \in Ids, Evict(i), UNCHANGED sessionVars
  PROVE  IInv'
<1> USE ManagerAssumption DEF sessionVars
<1>1. /\ jobs[i] # None /\ status[jobs[i]] \in {"done", "cancelled"}
      /\ poll # None => jobs[i] \in poll.over
      /\ jobs' = [jobs EXCEPT ![i] = None]
      /\ watched' = watched \ {i}
      /\ UNCHANGED <<idOf, status, acked, queue, ahead, attempt, loop, flight, poll, shown, dropped>>
  BY DEF Evict
<1>2. /\ jobs \in [Ids -> Gens \cup {None}]
      /\ idOf \in [Gens -> Ids \cup {None}]
      /\ poll # None => poll.tracked \subseteq Gens /\ poll.over \subseteq Gens /\ poll.ids \subseteq Ids
  BY DEF IInv, TypeOK, ManagerTypeOK, PollRecord
<1>3. idOf[jobs[i]] = i /\ \A g \in Gens : idOf[g] = i => g <= jobs[i] BY <1>1 DEF IInv, Records
<1>4. TypeOK' BY <1>1, <1>2 DEF IInv, TypeOK, ManagerTypeOK
<1>5. Records' BY <1>1, <1>2 DEF IInv, Records
<1>6. Results' BY <1>1 DEF IInv, Results, UnderWay
<1>7. Attempts' BY <1>1 DEF IInv, Attempts
<1>8. Watches' BY <1>1, <1>2 DEF IInv, Watches
<1>9. Polls'
  <2> SUFFICES ASSUME poll # None PROVE Polls'
    BY <1>1 DEF Polls
  <2>1. ASSUME NEW t \in poll.tracked, jobs'[idOf[t]] = None, NEW g \in Gens, idOf[g] = idOf[t]
        PROVE  g <= t
    <3>1. CASE idOf[t] = i
      <4>1. jobs[i] <= t BY <1>1, <1>3, <3>1 DEF IInv, Polls
      <4>2. g <= jobs[i] BY <1>3, <2>1, <3>1
      <4> QED BY <1>1, <1>2, <4>1, <4>2 DEF Gens
    <3>2. CASE idOf[t] # i
      <4>1. jobs[idOf[t]] = None BY <1>1, <1>2, <2>1, <3>2 DEF IInv, Polls
      <4> QED BY <2>1, <4>1 DEF IInv, Polls
    <3> QED BY <3>1, <3>2
  <2> QED BY <1>1, <2>1 DEF IInv, Polls
<1>10. Excused' BY <1>1 DEF IInv, Excused, Reused
<1>11. Shown' BY <1>1, <1>2 DEF IInv, Shown, Results, Current, TypeOK, ManagerTypeOK
<1>13. Accounted' BY <1>1 DEF IInv, Accounted, Done, Reused, UnderWay
<1> QED BY <1>4, <1>5, <1>6, <1>7, <1>8, <1>9, <1>10, <1>11, <1>13 DEF IInv

(* A cancelled job has no result.                                          *)
LEMMA CancelStep ==
  ASSUME IInv, NEW g \in Gens, Cancel(g), UNCHANGED sessionVars
  PROVE  IInv'
<1> USE DEF sessionVars, Cancel
<1>1. status \in [Gens -> {"none", "running", "done", "cancelled"}] BY DEF IInv, TypeOK, ManagerTypeOK
<1>2. TypeOK' BY <1>1 DEF IInv, TypeOK, ManagerTypeOK
<1>3. Records' BY <1>1 DEF IInv, Records
<1>4. Results' BY <1>1 DEF IInv, Results, UnderWay, TypeOK, ManagerTypeOK
<1>5. Attempts' BY Zenon, <1>1 DEF IInv, Attempts
<1>6. Watches' BY Zenon DEF IInv, Watches
<1>7. Polls' BY <1>1 DEF IInv, Polls, TypeOK, ManagerTypeOK
<1>8. Excused' /\ Shown' BY Zenon DEF IInv, Excused, Shown, Reused, Current
<1>10. Accounted' BY <1>1 DEF IInv, Accounted, Done, Reused, UnderWay
<1> QED BY <1>2, <1>3, <1>4, <1>5, <1>6, <1>7, <1>8, <1>10 DEF IInv

(* The loop takes what is not suppressed, and discards it only when its id *)
(* has gone to another job.                                                *)
LEMMA PickStep ==
  ASSUME IInv, Pick, UNCHANGED sessionVars
  PROVE  IInv'
<1> USE ManagerAssumption DEF sessionVars
<1>1. UNCHANGED <<jobs, idOf, status, watched, acked, attempt, poll, shown, dropped>> /\ flight = None
  BY DEF Pick
<1>2. CASE loop' = "off" /\ UNCHANGED <<queue, ahead, flight>>
  <2>1. TypeOK' BY <1>1, <1>2 DEF IInv, TypeOK, ManagerTypeOK
  <2>2. Records' /\ Results' BY <1>1, <1>2 DEF IInv, Records, Results, UnderWay
  <2>3. Attempts' /\ Watches' /\ Polls' BY <1>1, <1>2 DEF IInv, Attempts, Watches, Polls
  <2>4. Excused' /\ Shown' BY <1>1, <1>2 DEF IInv, Excused, Shown, Reused, Current
  <2>5. Accounted' BY <1>1, <1>2 DEF IInv, Accounted, Done, Reused, UnderWay
  <2> QED BY <2>1, <2>2, <2>3, <2>4, <2>5 DEF IInv
<1>3. ASSUME NEW g \in queue, ~Suppressed(g), queue' = queue \ {g}, ahead' = Only(queue', ahead),
             flight' = (IF Superseded(g) THEN None ELSE g), UNCHANGED loop
      PROVE  IInv'
  <2>1. g \in Gens /\ status[g] = "done" /\ idOf[g] \in Ids
    BY DEF IInv, TypeOK, ManagerTypeOK, Results, UnderWay, Records
  <2>2. TypeOK'
    <3>1. ahead' \in [Gens -> SUBSET Gens] BY <1>3 DEF IInv, TypeOK, ManagerTypeOK, Only
    <3> QED BY Zenon, <1>1, <1>3, <2>1, <3>1 DEF IInv, TypeOK, ManagerTypeOK
  <2>3. Records' BY <1>1 DEF IInv, Records
  <2>4. Results' BY Zenon, <1>1, <1>3, <2>1 DEF IInv, Results, UnderWay
  <2>5. Attempts' BY <1>1, <1>3, <2>1 DEF IInv, Attempts, TypeOK, ManagerTypeOK
  <2>6. Watches'
    <3> SUFFICES ASSUME poll # None, NEW i \in poll.ids
                 PROVE  jobs[i] \notin ({flight'} \cup entries \cup injecting)
      BY Zenon, <1>1 DEF IInv, Watches
    <3>1. jobs[i] \in Gens /\ i \in Ids /\ i \in watched
      BY DEF IInv, Watches, TypeOK, ManagerTypeOK, PollRecord
    <3>2. jobs[i] # g BY <1>3, <3>1 DEF IInv, Records, Suppressed
    <3> QED BY Zenon, <1>3, <3>1, <3>2 DEF IInv, Watches
  <2>7. Polls' BY <1>1 DEF IInv, Polls
  <2>8. Excused' /\ Shown' BY <1>1 DEF IInv, Excused, Shown, Reused, Current
  <2>10. Superseded(g) => Reused(g)
    <3> SUFFICES ASSUME Superseded(g) PROVE Reused(g)
      OBVIOUS
    <3>1. jobs[idOf[g]] \in Gens /\ jobs[idOf[g]] # g BY <2>1 DEF Superseded, IInv, TypeOK, ManagerTypeOK
    <3>2. idOf[jobs[idOf[g]]] = idOf[g] /\ g <= jobs[idOf[g]] BY <2>1, <3>1 DEF IInv, Records
    <3> QED BY <2>1, <3>1, <3>2 DEF Reused, Gens
  <2>11. Accounted'
    <3> SUFFICES ASSUME NEW h \in Gens, status[h] = "done", ~Reused(h)
                 PROVE  h \in UnderWay' \cup got' \cup shown' \cup dropped'
      BY <1>1 DEF Accounted, Done, Reused
    <3>1. h \in UnderWay \cup got \cup shown \cup dropped BY DEF IInv, Accounted, Done
    <3>2. CASE h = g BY <1>3, <2>1, <2>10, <3>2 DEF UnderWay
    <3>3. CASE h # g BY Zenon, <1>1, <1>3, <3>1, <3>3 DEF UnderWay
    <3> QED BY <3>2, <3>3
  <2> QED BY <2>2, <2>3, <2>4, <2>5, <2>6, <2>7, <2>8, <2>11 DEF IInv
<1> QED BY <1>2, <1>3 DEF Pick, First

-----------------------------------------------------------------------------
(* What an acknowledgement takes out of the queue it records, and it       *)
(* reaches registered jobs only.                                           *)
LEMMA Acknowledged ==
  ASSUME IInv, NEW ids \in SUBSET Ids, Acknowledge(ids)
  PROVE  /\ acked \subseteq acked' /\ acked' \subseteq Gens
         /\ \A g \in acked' \ acked : idOf[g] \in ids
         /\ \A g \in Gens : idOf[g] \in ids /\ Current(g) => g \in acked'
         /\ queue' \subseteq queue /\ queue \subseteq queue' \cup acked'
         /\ ahead' \in [Gens -> SUBSET Gens]
<1>1. acked \subseteq Gens /\ queue \subseteq Gens /\ ahead \in [Gens -> SUBSET Gens]
  BY DEF IInv, TypeOK, ManagerTypeOK
<1> QED BY <1>1 DEF Acknowledge, ByAcknowledging, Only

(* A tool result shows the last job of each id it acknowledges: the one    *)
(* that has the record, or else the tracked one.                           *)
LEMMA Built ==
  ASSUME IInv, NEW T \in SUBSET Gens, BuildResult(T), UNCHANGED <<jobs, idOf, dropped>>,
         \A t \in T : /\ idOf[t] # None
                      /\ jobs[idOf[t]] = None => \A g \in Gens : idOf[g] = idOf[t] => g <= t
  PROVE  /\ acked \subseteq acked' /\ acked' \subseteq Gens
         /\ shown \subseteq shown' /\ shown' \subseteq Gens
         /\ \A g \in shown' \cup acked' : idOf[g] # None
         /\ queue' \subseteq queue /\ queue \subseteq queue' \cup acked'
         /\ ahead' \in [Gens -> SUBSET Gens]
         /\ Excused' /\ Shown'
<1> USE ManagerAssumption
<1> DEFINE over == {g \in Snapshot(T) : status[g] # "running"}
           ids == {idOf[g] : g \in over}
<1>1. jobs \in [Ids -> Gens \cup {None}] /\ idOf \in [Gens -> Ids \cup {None}]
  BY DEF IInv, TypeOK, ManagerTypeOK
<1>2. ASSUME NEW o \in over
      PROVE  o \in Gens /\ idOf[o] \in Ids /\ \A g \in Gens : idOf[g] = idOf[o] => g <= o
  <2>1. PICK t \in T : o = IF jobs[idOf[t]] = None THEN t ELSE jobs[idOf[t]] BY DEF Snapshot
  <2>2. idOf[t] \in Ids BY <1>1
  <2>3. CASE jobs[idOf[t]] = None BY <2>1, <2>2, <2>3
  <2>4. CASE jobs[idOf[t]] # None BY <1>1, <2>1, <2>2, <2>4 DEF IInv, Records
  <2> QED BY <2>3, <2>4
<1>3. Acknowledge(ids) /\ shown' = shown \cup over BY DEF BuildResult
<1>4. ids \in SUBSET Ids BY <1>2
<1> HIDE DEF over
<1>5. /\ acked \subseteq acked' /\ acked' \subseteq Gens
      /\ \A g \in acked' \ acked : idOf[g] \in ids
      /\ \A g \in Gens : idOf[g] \in ids /\ Current(g) => g \in acked'
      /\ queue' \subseteq queue /\ queue \subseteq queue' \cup acked'
      /\ ahead' \in [Gens -> SUBSET Gens]
  BY Zenon, <1>3, <1>4, Acknowledged
<1>6. shown \subseteq shown' /\ shown' \subseteq Gens BY <1>2, <1>3 DEF IInv, TypeOK, ManagerTypeOK
<1>7. \A g \in shown' \cup acked' : idOf[g] # None
  BY Zenon, <1>2, <1>3, <1>4, <1>5 DEF IInv, Results
<1>8. Excused'
  <2> SUFFICES ASSUME NEW g \in acked' PROVE g \in shown' \cup dropped \/ Reused(g)
    BY DEF Excused, Reused
  <2>1. CASE g \in acked BY <1>6, <2>1 DEF IInv, Excused
  <2>2. CASE g \notin acked
    <3>1. PICK o \in over : idOf[g] = idOf[o] BY <1>5, <2>2
    <3>2. g \in Gens /\ o \in Gens /\ g <= o BY <1>2, <1>5, <3>1
    <3>3. CASE g = o BY <1>3, <3>3
    <3>4. CASE g # o BY <3>1, <3>2, <3>4 DEF Reused, Gens
    <3> QED BY <3>3, <3>4
  <2> QED BY <2>1, <2>2
<1>9. Shown'
  <2> SUFFICES ASSUME NEW g \in shown', Current(g) PROVE g \in acked'
    BY DEF Shown, Current
  <2>1. CASE g \in shown BY <1>5, <2>1 DEF IInv, Shown
  <2>2. CASE g \in over BY <1>2, <1>5, <2>2
  <2> QED BY <1>3, <2>1, <2>2
<1> QED BY <1>5, <1>6, <1>7, <1>8, <1>9

(* The rest of the argument for a step that builds a tool result.          *)
LEMMA BuiltStep ==
  ASSUME IInv, NEW T \in SUBSET Gens, BuildResult(T),
         UNCHANGED <<jobs, idOf, status, attempt, flight, dropped>>, UNCHANGED sessionVars,
         \A t \in T : /\ idOf[t] # None
                      /\ jobs[idOf[t]] = None => \A g \in Gens : idOf[g] = idOf[t] => g <= t,
         watched' \subseteq Ids, loop' \in {"off", "on"}, poll' = poll \/ poll' = None,
         Watches', Polls'
  PROVE  IInv'
<1> USE DEF sessionVars
<1>1. /\ acked \subseteq acked' /\ acked' \subseteq Gens
      /\ shown \subseteq shown' /\ shown' \subseteq Gens
      /\ \A g \in shown' \cup acked' : idOf[g] # None
      /\ queue' \subseteq queue /\ queue \subseteq queue' \cup acked'
      /\ ahead' \in [Gens -> SUBSET Gens]
      /\ Excused' /\ Shown'
  BY Zenon, Built
<1>2. TypeOK' BY <1>1 DEF IInv, TypeOK, ManagerTypeOK
<1>3. Records' BY DEF IInv, Records
<1>4. Results' BY Zenon, <1>1 DEF IInv, Results, UnderWay
<1>5. Attempts' BY Zenon, <1>1 DEF IInv, Attempts
<1>7. Accounted'
  <2> SUFFICES ASSUME NEW g \in Gens, status[g] = "done", ~Reused(g)
               PROVE  g \in UnderWay' \cup got' \cup shown' \cup dropped'
    BY Zenon DEF Accounted, Done, Reused
  <2>1. g \in UnderWay \cup got \cup shown \cup dropped BY Zenon DEF IInv, Accounted, Done
  <2>2. CASE g \in queue \ queue'
    <3>1. g \in shown' \cup dropped' \/ Reused(g)' BY Zenon, <1>1, <2>2 DEF Excused
    <3> QED BY Zenon, <3>1 DEF Reused
  <2>3. CASE g \notin queue \ queue' BY <1>1, <2>1, <2>3 DEF UnderWay
  <2> QED BY Zenon, <2>2, <2>3
<1> QED BY Zenon, <1>1, <1>2, <1>3, <1>4, <1>5, <1>7 DEF IInv

(* A poll tracks the last jobs of their ids: it shows them at once, or     *)
(* watches those that run.                                                 *)
LEMMA PollStartsStep ==
  ASSUME IInv, NEW T \in SUBSET Gens, PollStarts(T), UNCHANGED sessionVars
  PROVE  IInv'
<1> USE ManagerAssumption DEF sessionVars
<1>1. /\ poll = None /\ \A t \in T : idOf[t] # None /\ Current(t)
      /\ UNCHANGED <<jobs, idOf, status, attempt, loop, flight, dropped>>
  BY Zenon DEF PollStarts
<1>2. jobs \in [Ids -> Gens \cup {None}] /\ idOf \in [Gens -> Ids \cup {None}]
  BY DEF IInv, TypeOK, ManagerTypeOK
<1>3. watched = {} BY Zenon, <1>1 DEF IInv, Watches
<1>4. ASSUME NEW t \in T
      PROVE  /\ idOf[t] \in Ids /\ jobs[idOf[t]] = t
             /\ \A g \in Gens : idOf[g] = idOf[t] => g <= t
  <2>1. idOf[t] \in Ids /\ jobs[idOf[t]] = t BY <1>1, <1>2 DEF Current
  <2>2. jobs[idOf[t]] # None BY <2>1
  <2> QED BY <2>1, <2>2 DEF IInv, Records
<1>5. CASE BuildResult(T) /\ UNCHANGED <<watched, poll>>
  <2>1. Watches' /\ Polls' BY Zenon, <1>1, <1>3, <1>5 DEF Watches, Polls
  <2>2. watched' \subseteq Ids /\ loop' \in {"off", "on"} BY <1>1, <1>5 DEF IInv, TypeOK, ManagerTypeOK
  <2>3. \A t \in T : /\ idOf[t] # None
                     /\ jobs[idOf[t]] = None => \A g \in Gens : idOf[g] = idOf[t] => g <= t
    BY <1>4
  <2> QED BY <1>1, <1>5, <2>1, <2>2, <2>3, BuiltStep
<1>6. CASE /\ watched' = watched \cup {idOf[g] : g \in Watch(T)}
           /\ poll' = [tracked |-> T, ids |-> {idOf[g] : g \in Watch(T)},
                       over |-> {g \in Gens : status[g] \in {"done", "cancelled"}}]
           /\ UNCHANGED <<acked, queue, ahead, shown>>
  <2> DEFINE ids == {idOf[g] : g \in Watch(T)}
             over == {g \in Gens : status[g] \in {"done", "cancelled"}}
  <2>1. ids \subseteq Ids BY Zenon, <1>4 DEF Watch
  <2>2. poll'.tracked = T /\ poll'.ids = ids /\ poll'.over = over /\ watched' = ids
    BY <1>3, <1>6
  <2>3. poll' \in PollRecord BY <1>6, <2>1 DEF PollRecord
  <2>4. TypeOK' BY <1>1, <1>6, <2>1, <2>2, <2>3 DEF IInv, TypeOK, ManagerTypeOK
  <2>5. Records' /\ Results' BY Zenon, <1>1, <1>6 DEF IInv, Records, Results, UnderWay
  <2>6. Attempts' BY Zenon, <1>1, <1>6 DEF IInv, Attempts
  <2>7. Watches'
    <3>1. ASSUME NEW i \in ids
          PROVE  jobs[i] \in T \ over /\ jobs[i] \notin ({flight} \cup entries \cup injecting)
      <4>1. PICK g \in Watch(T) : i = idOf[g] OBVIOUS
      <4>2. g \in T /\ status[g] = "running" /\ jobs[i] = g BY <1>4, <4>1 DEF Watch
      <4>3. g \in Gens /\ g \notin UnderWay BY <4>2 DEF IInv, Results
      <4> QED BY Zenon, <4>2, <4>3 DEF UnderWay
    <3>2. poll' # None => /\ watched' = poll'.ids
                          /\ \A i \in poll'.ids : /\ jobs'[i] \in poll'.tracked \ poll'.over
                                                  /\ jobs'[i] \notin ({flight'} \cup entries' \cup injecting')
      BY Zenon, <1>1, <2>2, <3>1
    <3>3. poll' # None BY <2>3
    <3> QED BY Zenon, <3>2, <3>3 DEF Watches
  <2>8. Polls' BY Zenon, <1>1, <1>4, <2>2 DEF Polls
  <2>9. Excused' /\ Shown' BY Zenon, <1>1, <1>6 DEF IInv, Excused, Shown, Reused, Current
  <2>11. Accounted' BY Zenon, <1>1, <1>6 DEF IInv, Accounted, Done, Reused, UnderWay
  <2> QED BY <2>4, <2>5, <2>6, <2>7, <2>8, <2>9, <2>11 DEF IInv
<1> QED BY <1>5, <1>6 DEF PollStarts

(* A poll ends: nothing is watched, and its tracked jobs are shown.        *)
LEMMA PollEndsStep ==
  ASSUME IInv, PollEnds, UNCHANGED sessionVars
  PROVE  IInv'
<1>1. /\ poll # None /\ poll' = None /\ watched' = watched \ poll.ids
      /\ BuildResult(poll.tracked)
      /\ UNCHANGED <<jobs, idOf, status, attempt, flight, dropped>>
  BY DEF PollEnds
<1>2. poll.tracked \in SUBSET Gens BY <1>1 DEF IInv, TypeOK, ManagerTypeOK, PollRecord
<1>3. Watches' /\ Polls' BY Zenon, <1>1 DEF IInv, Watches, Polls
<1>4. watched' \subseteq Ids /\ loop' \in {"off", "on"} BY Zenon, <1>1 DEF PollEnds, IInv, TypeOK, ManagerTypeOK
<1>5. \A t \in poll.tracked : /\ idOf[t] # None
                              /\ jobs[idOf[t]] = None => \A g \in Gens : idOf[g] = idOf[t] => g <= t
  BY Zenon, <1>1 DEF IInv, Polls
<1> QED BY Zenon, <1>1, <1>2, <1>3, <1>4, <1>5, BuiltStep

-----------------------------------------------------------------------------
(* A job that finishes is queued, unless it is acknowledged; what the      *)
(* queue cannot hold goes to the dead letters.                             *)
LEMMA FinishStep == ASSUME IInv, JobFinishes PROVE IInv'
<1> USE ManagerAssumption
<1>1. PICK g \in Gens : Finish(g) BY Zenon DEF JobFinishes
<1>2. /\ status[g] = "running" /\ status' = [status EXCEPT ![g] = "done"]
      /\ UNCHANGED <<jobs, idOf, watched, acked, attempt, flight, poll, shown>>
      /\ UNCHANGED <<entries, pending, scheduled, injecting, run, handoff, era, got, ended, missed, faults>>
  BY Zenon, <1>1 DEF Finish, JobFinishes
<1>3. status \in [Gens -> {"none", "running", "done", "cancelled"}]
  BY DEF IInv, TypeOK, ManagerTypeOK
<1>4. g # flight /\ g \notin UnderWay \cup got BY Zenon, <1>2 DEF IInv, Results, UnderWay
<1>5. /\ queue' \subseteq queue \cup {g} /\ dropped \subseteq dropped' /\ dropped' \subseteq Gens
      /\ queue \subseteq queue' \cup dropped' /\ ahead' \in [Gens -> SUBSET Gens] /\ loop' \in {"off", "on"}
      /\ g \in acked \cup queue' \cup dropped'
  <2>1. queue \subseteq Gens /\ dropped \subseteq Gens /\ ahead \in [Gens -> SUBSET Gens] /\ loop \in {"off", "on"}
    BY DEF IInv, TypeOK, ManagerTypeOK
  <2>2. CASE g \in acked BY <1>1, <2>1, <2>2 DEF Finish
  <2>3. CASE g \notin acked
    <3> DEFINE q == queue \cup {g}
    <3>1. /\ queue' = Kept(q, Push(g)) /\ ahead' = Only(queue', Push(g))
          /\ dropped' = dropped \cup (q \ Kept(q, Push(g))) /\ loop' = "on"
      BY <1>1, <2>3 DEF Finish
    <3>2. Kept(q, Push(g)) \subseteq q BY DEF Kept
    <3>3. Push(g) \in [Gens -> SUBSET Gens] BY <2>1 DEF Push
    <3>4. ahead' \in [Gens -> SUBSET Gens] BY <3>1, <3>3 DEF Only
    <3> HIDE DEF q
    <3>5. queue' \subseteq q /\ q \subseteq queue' \cup dropped' /\ dropped' \subseteq dropped \cup q
      BY <3>1, <3>2
    <3> QED BY Zenon, <2>1, <3>1, <3>4, <3>5 DEF q
  <2> QED BY <2>2, <2>3
<1>6. TypeOK'
  <2>1. queue' \subseteq Gens BY <1>5 DEF IInv, TypeOK, ManagerTypeOK
  <2>2. status' \in [Gens -> {"none", "running", "done", "cancelled"}]
    BY <1>1, <1>2, <1>3
  <2> QED BY <1>2, <1>5, <2>1, <2>2 DEF IInv, TypeOK, ManagerTypeOK
<1>7. Records' BY <1>2, <1>3 DEF IInv, Records
<1>8. Results'
  <2>1. UnderWay' \cup got' \subseteq UnderWay \cup got \cup {g} BY Zenon, <1>2, <1>5 DEF UnderWay
  <2>2. UnderWay \cup got \subseteq Gens
    BY DEF UnderWay, IInv, TypeOK, ManagerTypeOK
  <2>3. \A h \in Gens : h = g \/ status[h] = "done" => status'[h] = "done" BY <1>2, <1>3
  <2>4. Results BY Zenon DEF IInv
  <2> QED BY Zenon, <1>2, <2>1, <2>2, <2>3, <2>4 DEF Results
<1>9. Attempts'
  <2>1. \A h \in queue \cup {g} \cup ({flight} \ {None}) : attempt[h] < MaxAttempts
    BY <1>2 DEF IInv, Attempts
  <2> QED BY Zenon, <1>2, <1>3, <1>4, <1>5, <2>1 DEF IInv, Attempts
<1>10. Watches' BY <1>2 DEF IInv, Watches
<1>11. Polls' BY <1>2, <1>3 DEF IInv, Polls, TypeOK, ManagerTypeOK, PollRecord
<1>12. Excused' BY Zenon, <1>2, <1>5 DEF IInv, Excused, Reused
<1>13. Shown' BY Zenon, <1>2 DEF IInv, Shown, Current
<1>15. Accounted'
  <2> SUFFICES ASSUME NEW h \in Gens, status'[h] = "done", ~Reused(h)
               PROVE  h \in UnderWay' \cup got' \cup shown' \cup dropped'
    BY <1>2 DEF Accounted, Done, Reused
  <2>1. CASE h = g
    <3>1. g \in acked => g \in shown \cup dropped BY <2>1 DEF IInv, Excused
    <3> QED BY <1>2, <1>5, <2>1, <3>1 DEF UnderWay
  <2>2. CASE h # g
    <3>1. h \in UnderWay \cup got \cup shown \cup dropped BY <1>2, <1>3, <2>2 DEF IInv, Accounted, Done
    <3> QED BY Zenon, <1>2, <1>5, <3>1 DEF UnderWay
  <2> QED BY <2>1, <2>2
<1> QED BY <1>6, <1>7, <1>8, <1>9, <1>10, <1>11, <1>12, <1>13, <1>15 DEF IInv

(* A delivery that fails is queued again, given up, or was acknowledged.   *)
LEMMA DeliveryFailsStep == ASSUME IInv, DeliveryFails PROVE IInv'
<1> USE ManagerAssumption
<1>1. /\ flight # None /\ flight' = None
      /\ attempt' = [attempt EXCEPT ![flight] = @ + 1]
      /\ UNCHANGED <<jobs, idOf, status, watched, acked, loop, poll, shown>>
      /\ UNCHANGED <<entries, pending, scheduled, injecting, run, handoff, era, got, ended, missed>>
  BY DEF DeliveryFails, FlightFails
<1>2. /\ flight \in Gens /\ attempt \in [Gens -> 0 .. MaxAttempts] /\ queue \subseteq Gens
      /\ dropped \subseteq Gens /\ ahead \in [Gens -> SUBSET Gens]
  BY <1>1 DEF IInv, TypeOK, ManagerTypeOK
<1>3. attempt[flight] < MaxAttempts /\ flight \notin queue /\ status[flight] = "done"
  BY Zenon, <1>1, <1>2 DEF IInv, Attempts, Results, UnderWay
<1>4. /\ queue \subseteq queue' /\ queue' \subseteq queue \cup {flight}
      /\ flight \in queue' => attempt'[flight] < MaxAttempts /\ flight \notin acked
      /\ dropped \subseteq dropped' /\ dropped' \subseteq dropped \cup {flight}
      /\ flight \in queue' \cup dropped' \cup acked
      /\ ahead' \in [Gens -> SUBSET Gens]
  <2> DEFINE again == attempt'[flight] < MaxAttempts /\ Current(flight)
  <2>1. /\ IF again /\ flight \notin acked
           THEN queue' = queue \cup {flight} /\ ahead' = Push(flight)
           ELSE UNCHANGED <<queue, ahead>>
        /\ dropped' = IF again THEN dropped ELSE dropped \cup {flight}
    BY DEF DeliveryFails, FlightFails
  <2>2. Push(flight) \in [Gens -> SUBSET Gens] BY <1>2 DEF Push
  <2>3. again => attempt'[flight] < MaxAttempts OBVIOUS
  <2> HIDE DEF again
  <2> QED BY Zenon, <1>2, <1>3, <2>1, <2>2, <2>3
<1>5. TypeOK'
  <2>1. attempt' \in [Gens -> 0 .. MaxAttempts]
    <3>1. attempt[flight] + 1 \in 0 .. MaxAttempts BY <1>2, <1>3
    <3> QED BY <1>1, <1>2, <3>1
  <2>2. faults' \in 0 .. MaxFaults BY SessionAssumption DEF DeliveryFails, Fault, IInv, TypeOK
  <2>3. queue' \subseteq Gens /\ dropped' \subseteq Gens BY <1>2, <1>4
  <2> QED BY <1>1, <1>4, <2>1, <2>2, <2>3 DEF IInv, TypeOK, ManagerTypeOK
<1>6. Records' BY <1>1 DEF IInv, Records
<1>7. Results' BY Zenon, <1>1, <1>3, <1>4 DEF IInv, Results, UnderWay
<1>8. Attempts'
  <2>1. \A h \in Gens : h # flight => attempt'[h] = attempt[h] BY <1>1, <1>2
  <2>2. None \notin queue' BY <1>2, <1>4
  <2>3. \A h \in queue' : attempt'[h] < MaxAttempts BY <1>2, <1>4, <2>1 DEF IInv, Attempts
  <2>4. \A h \in Gens : status[h] \in {"none", "running"} => attempt'[h] = 0 BY <1>3, <2>1 DEF IInv, Attempts
  <2> QED BY Zenon, <1>1, <2>2, <2>3, <2>4 DEF Attempts
<1>9. Watches' BY <1>1 DEF IInv, Watches, TypeOK, ManagerTypeOK, PollRecord
<1>10. Polls' BY <1>1 DEF IInv, Polls
<1>11. Excused' /\ Shown' BY <1>1, <1>4 DEF IInv, Excused, Shown, Reused, Current
<1>13. Accounted'
  <2> SUFFICES ASSUME NEW h \in Gens, status[h] = "done", ~Reused(h)
               PROVE  h \in UnderWay' \cup got' \cup shown' \cup dropped'
    BY <1>1 DEF Accounted, Done, Reused
  <2>1. h \in UnderWay \cup got \cup shown \cup dropped BY DEF IInv, Accounted, Done
  <2>2. CASE h = flight
    <3>1. h \in acked => h \in shown \cup dropped BY DEF IInv, Excused
    <3> QED BY <1>1, <1>4, <2>2, <3>1 DEF UnderWay
  <2>3. CASE h # flight BY Zenon, <1>1, <1>4, <2>1, <2>3 DEF UnderWay
  <2> QED BY <2>2, <2>3
<1> QED BY <1>5, <1>6, <1>7, <1>8, <1>9, <1>10, <1>11, <1>13 DEF IInv

(* onJobComplete passes its result on, or discards it as stale.            *)
LEMMA DeliverStep == ASSUME IInv, Deliver PROVE IInv'
<1> USE ManagerAssumption
<1>1. /\ flight # None /\ flight' = None
      /\ UNCHANGED <<jobs, idOf, status, watched, acked, queue, ahead, attempt, loop, poll, shown, dropped>>
      /\ UNCHANGED <<injecting, run, handoff, era, got, ended, faults>>
  BY DEF Deliver
<1>2. flight \in Gens /\ status[flight] = "done" BY <1>1 DEF IInv, TypeOK, ManagerTypeOK, Results, UnderWay
<1>3. \/ Suppressed(flight) /\ entries' = entries
      \/ ~Suppressed(flight) /\ entries' = entries \cup {flight}
  BY DEF Deliver
<1>4. TypeOK'
  <2>1. pending' \in BOOLEAN /\ scheduled' \in BOOLEAN /\ missed' \in BOOLEAN
    BY Zenon DEF Deliver, ScheduleIdleFlush, IInv, TypeOK
  <2> QED BY <1>1, <1>2, <1>3, <2>1 DEF IInv, TypeOK, ManagerTypeOK
<1>5. Records' BY <1>1 DEF IInv, Records
<1>6. Results' BY Zenon, <1>1, <1>2, <1>3 DEF IInv, Results, UnderWay
<1>7. Attempts' BY <1>1 DEF IInv, Attempts, TypeOK, ManagerTypeOK
<1>8. Watches'
  <2>1. Watches BY Zenon DEF IInv
  <2>2. poll \in PollRecord \cup {None} BY Zenon DEF IInv, TypeOK, ManagerTypeOK
  <2>3. poll # None => poll.tracked \subseteq Gens BY <2>2 DEF PollRecord
  <2>4. None \notin Gens BY ManagerAssumption
  <2>5. entries' \subseteq entries \cup {flight} BY <1>3
  <2> QED BY Zenon, <1>1, <2>1, <2>3, <2>4, <2>5 DEF Watches
<1>9. Polls' BY Zenon, <1>1 DEF IInv, Polls
<1>10. Excused' /\ Shown' BY <1>1 DEF IInv, Excused, Shown, Reused, Current
<1>12. Accounted'
  <2> SUFFICES ASSUME NEW h \in Gens, status[h] = "done", ~Reused(h)
               PROVE  h \in UnderWay' \cup got' \cup shown' \cup dropped'
    BY <1>1 DEF Accounted, Done, Reused
  <2>1. h \in UnderWay \cup got \cup shown \cup dropped BY DEF IInv, Accounted, Done
  <2>2. CASE h = flight
    <3>1. Suppressed(h) => h \in shown \cup dropped BY <2>2, Discarded
    <3> QED BY <1>1, <1>3, <2>2, <3>1 DEF UnderWay
  <2>3. CASE h # flight BY Zenon, <1>1, <1>3, <2>1, <2>3 DEF UnderWay
  <2> QED BY <2>2, <2>3
<1> QED BY <1>4, <1>5, <1>6, <1>7, <1>8, <1>9, <1>10, <1>12 DEF IInv

(* A change of the context acknowledges what is queued or in flight and    *)
(* not watched, and some changes give up what waits for a flush; the end   *)
(* of a handoff does the same without cancelling the jobs again.           *)
LEMMA ForgetStep ==
  ASSUME IInv, ClearContext \/ NewSession \/ Fork \/ HandoffCommits \/ HandoffForgets
  PROVE  IInv'
<1> USE ManagerAssumption
<1>1. /\ status' = status \/ CancelOwnAsyncJobs
      /\ Acknowledge(PendingIds)
      /\ UNCHANGED <<jobs, idOf, watched, attempt, loop, flight, poll, shown>>
      /\ UNCHANGED <<injecting, run, got, faults>>
  BY Zenon DEF ClearContext, NewSession, Fork, HandoffCommits, HandoffForgets, SettleOwnAsyncJobs
<1>a. \/ dropped' = dropped \cup acked' \cup entries /\ entries' = {}
      \/ dropped' = dropped \cup acked' /\ entries' = entries
  BY Zenon DEF ClearContext, NewSession, Fork, HandoffCommits, HandoffForgets
<1>2. /\ queue \subseteq Gens /\ flight \in Gens \cup {None} /\ entries \subseteq Gens
      /\ dropped \subseteq Gens /\ status \in [Gens -> {"none", "running", "done", "cancelled"}]
  BY DEF IInv, TypeOK, ManagerTypeOK
<1>b. /\ dropped \subseteq dropped' /\ acked' \subseteq dropped' /\ entries' \subseteq entries
      /\ entries \subseteq entries' \cup dropped'
      /\ dropped' \subseteq dropped \cup acked' \cup entries
  BY <1>a
<1>3. \A g \in queue \cup ({flight} \ {None}) : g \in Gens /\ idOf[g] \in Ids
  BY <1>2 DEF IInv, Results, UnderWay, Records, TypeOK, ManagerTypeOK
<1>4. PendingIds \in SUBSET Ids BY <1>3 DEF PendingIds
<1>5. /\ acked \subseteq acked' /\ acked' \subseteq Gens
      /\ \A g \in acked' \ acked : idOf[g] \in PendingIds
      /\ queue' \subseteq queue /\ ahead' \in [Gens -> SUBSET Gens]
  BY Zenon, <1>1, <1>4, Acknowledged
<1>6. queue \subseteq queue' \cup acked' BY <1>1 DEF Acknowledge
<1>7. TypeOK'
  <2>1. era' \in Eras
    <3>1. era' = era \/ (era < MaxEras /\ era' = era + 1)
      BY Zenon DEF ClearContext, NewSession, Fork, HandoffCommits, HandoffForgets, NewContext
    <3> QED BY <3>1, SessionAssumption DEF IInv, TypeOK, Eras
  <2>2. pending' \in BOOLEAN /\ scheduled' \in BOOLEAN /\ missed' \in BOOLEAN
    BY Zenon DEF ClearContext, NewSession, Fork, HandoffCommits, HandoffForgets, IInv, TypeOK
  <2>3. handoff' \in {"none", "open", "committed"}
    BY Zenon DEF ClearContext, NewSession, Fork, HandoffCommits, HandoffForgets, IInv, TypeOK
  <2>4. status' \in [Gens -> {"none", "running", "done", "cancelled"}] BY <1>1, <1>2 DEF CancelOwnAsyncJobs
  <2>5. dropped' \subseteq Gens /\ entries' \subseteq Gens /\ queue' \subseteq Gens BY Zenon, <1>2, <1>b, <1>5
  <2>6. ended' \subseteq Gens
    <3>1. UnderWay \cup {g \in Gens : status[g] = "running"} \subseteq Gens
      BY DEF UnderWay, IInv, TypeOK, ManagerTypeOK
    <3>2. ended' \subseteq ended \cup UnderWay \cup {g \in Gens : status[g] = "running"}
      BY Zenon DEF ClearContext, NewSession, Fork, HandoffCommits, HandoffForgets, NewContext
    <3>3. ended \subseteq Gens BY DEF IInv, TypeOK
    <3> QED BY Zenon, <3>1, <3>2, <3>3
  <2> QED BY Zenon, <1>1, <1>5, <2>1, <2>2, <2>3, <2>4, <2>5, <2>6 DEF IInv, TypeOK, ManagerTypeOK
<1>8. \A g \in Gens : /\ \A s \in {"none", "done", "cancelled"} : status[g] = s => status'[g] = s
                      /\ \A s \in {"none", "running", "done"} : status'[g] = s => status[g] = s
  BY <1>1, <1>2 DEF CancelOwnAsyncJobs
<1>9. Records' BY <1>1, <1>8 DEF IInv, Records
<1>10. Results'
  <2>1. UnderWay' \cup got' \subseteq UnderWay \cup got BY Zenon, <1>1, <1>5, <1>b DEF UnderWay
  <2>2. UnderWay \cup got \subseteq Gens
    BY DEF UnderWay, IInv, TypeOK, ManagerTypeOK
  <2>3. \A g \in acked' : idOf[g] # None BY Zenon, <1>4, <1>5 DEF IInv, Results
  <2> QED BY Zenon, <1>1, <1>8, <2>1, <2>2, <2>3 DEF IInv, Results
<1>11. Attempts' BY Zenon, <1>1, <1>5, <1>8 DEF IInv, Attempts
<1>12. Watches' BY Zenon, <1>1, <1>b DEF IInv, Watches
<1>13. Polls' BY Zenon, <1>1, <1>8 DEF IInv, Polls, TypeOK, ManagerTypeOK, PollRecord
<1>14. Excused' BY Zenon, <1>b DEF Excused
<1>15. Shown' BY Zenon, <1>1, <1>5 DEF IInv, Shown, Current
<1>17. Accounted'
  <2> SUFFICES ASSUME NEW h \in Gens, status[h] = "done", ~Reused(h)
               PROVE  h \in UnderWay' \cup got' \cup shown' \cup dropped'
    BY <1>1, <1>8 DEF Accounted, Done, Reused
  <2>1. h \in UnderWay \cup got \cup shown \cup dropped BY DEF IInv, Accounted, Done
  <2> QED BY Zenon, <1>1, <1>6, <1>b, <2>1 DEF UnderWay
<1> QED BY <1>7, <1>9, <1>10, <1>11, <1>12, <1>13, <1>14, <1>15, <1>17 DEF IInv

-----------------------------------------------------------------------------
(* Every step preserves the invariant.                                     *)
LEMMA NextIInv == IInv /\ [Next]_vars => IInv'
<1> SUFFICES ASSUME IInv, [Next]_vars PROVE IInv'
  OBVIOUS
<1>1. CASE Manage
  BY <1>1, RegisterStep, EvictStep, CancelStep, PickStep, PollStartsStep, PollEndsStep DEF Manage
<1>2. CASE JobFinishes BY <1>2, FinishStep
<1>3. CASE DeliveryFails BY <1>3, DeliveryFailsStep
<1>4. CASE Deliver BY <1>4, DeliverStep
<1>5. CASE Prompt \/ TurnFails \/ Settle \/ Abort \/ HandoffStarts \/ HandoffFails \/ HandoffDegrades
  BY <1>5, TurnStep
<1>6. CASE Yield BY <1>6, YieldStep
<1>7. CASE IdleFlush BY <1>7, IdleFlushStep
<1>8. CASE InjectIdle BY <1>8, InjectIdleStep
<1>9. CASE ClearContext \/ NewSession \/ Fork \/ HandoffCommits \/ HandoffForgets BY <1>9, ForgetStep
<1>10. CASE UNCHANGED vars
  <2> USE <1>10 DEF vars, managerVars, sessionVars
  <2>1. TypeOK' BY Zenon DEF IInv, TypeOK, ManagerTypeOK
  <2> QED BY <2>1, SessionStep
<1> QED BY <1>1, <1>2, <1>3, <1>4, <1>5, <1>6, <1>7, <1>8, <1>9, <1>10 DEF Next

(* The invariant holds throughout.                                         *)
THEOREM Invariance == Spec => []IInv
BY InitIInv, NextIInv, PTL DEF Spec

-----------------------------------------------------------------------------
(* The delivery loop is on while there is anything to deliver.             *)
LoopOn == flight # None \/ (\E g \in queue : ~Suppressed(g)) => loop = "on"

(* While the session is idle a flush is scheduled for what is queued; one  *)
(* that is pending is scheduled, and a turn past its flush leaves nothing, *)
(* unless it was missed.                                                   *)
Armed ==
  /\ pending => scheduled \/ missed
  /\ run = "ending" /\ entries # {} => missed
  /\ entries # {} /\ ~Streaming => scheduled \/ missed

(* What is queued and held back stays so, unless the loop is turned on.    *)
LEMMA LoopKept ==
  ASSUME LoopOn, loop' \in {loop, "on"}, queue' \subseteq queue, flight' \in {None, flight},
         \A g \in queue' : Suppressed(g) => Suppressed(g)'
  PROVE  LoopOn'
BY Zenon DEF LoopOn

(* Acknowledging discards deliveries and frees none.                       *)
LEMMA StillHeld ==
  ASSUME NEW ids, Acknowledge(ids), UNCHANGED idOf, watched \subseteq watched'
  PROVE  queue' \subseteq queue /\ \A g \in queue' : Suppressed(g) => Suppressed(g)'
BY Zenon DEF Acknowledge, Suppressed

(* Every step that frees a queued delivery, or queues one, turns the       *)
(* delivery loop on.  The end of a poll does, and an eviction frees        *)
(* nothing: a poll's watches are of records it keeps.                      *)
LEMMA NextLoopOn == ASSUME IInv, LoopOn, [Next]_vars PROVE LoopOn'
<1>1. CASE \E i \in Ids : Register(i)
  <2>1. PICK i \in Ids, g \in Gens : status[g] = "none" /\ idOf' = [idOf EXCEPT ![g] = i]
    BY Zenon, <1>1 DEF Register
  <2>2. UNCHANGED <<watched, acked, queue, loop, flight>> BY Zenon, <1>1 DEF Register
  <2>3. \A h \in queue : h \in Gens /\ h # g BY <2>1 DEF IInv, Results, UnderWay, TypeOK, ManagerTypeOK
  <2>4. \A h \in queue : idOf'[h] = idOf[h] BY <2>1, <2>3 DEF IInv, TypeOK, ManagerTypeOK
  <2> QED BY Zenon, <2>2, <2>4, LoopKept DEF Suppressed
<1>2. CASE \E i \in Ids : Evict(i)
  <2>1. PICK i \in Ids : Evict(i) BY <1>2
  <2>2. i \notin watched BY <2>1 DEF Evict, IInv, Watches
  <2>3. watched' = watched /\ UNCHANGED <<idOf, acked, queue, loop, flight>> BY <2>1, <2>2 DEF Evict
  <2> QED BY Zenon, <2>3, LoopKept DEF Suppressed
<1>3. CASE \E g \in Gens : Cancel(g)
  <2>1. UNCHANGED <<idOf, watched, acked, queue, loop, flight>> BY Zenon, <1>3 DEF Cancel
  <2> QED BY Zenon, <2>1, LoopKept DEF Suppressed
<1>4. CASE Pick
  <2>1. loop = "on" /\ flight = None /\ UNCHANGED <<idOf, watched, acked>> BY Zenon, <1>4 DEF Pick
  <2>2. CASE loop' = "on" BY <2>2 DEF LoopOn
  <2>3. CASE loop' # "on"
    <3>1. {g \in queue : ~Suppressed(g)} = {} /\ UNCHANGED <<queue, flight>> BY Zenon, <1>4, <2>1, <2>3 DEF Pick
    <3> QED BY Zenon, <2>1, <3>1 DEF LoopOn, Suppressed
  <2> QED BY <2>2, <2>3
<1>5. CASE \E tracked \in SUBSET Gens : PollStarts(tracked)
  <2>1. UNCHANGED <<idOf, loop, flight>> BY Zenon, <1>5 DEF PollStarts
  <2>2. \/ UNCHANGED <<acked, queue>> /\ watched \subseteq watched'
        \/ UNCHANGED watched /\ \E ids : Acknowledge(ids)
    BY Zenon, <1>5 DEF PollStarts, BuildResult
  <2>3. CASE UNCHANGED <<acked, queue>> /\ watched \subseteq watched' BY Zenon, <2>1, <2>3, LoopKept DEF Suppressed
  <2>4. CASE UNCHANGED watched /\ \E ids : Acknowledge(ids) BY Zenon, <2>1, <2>4, StillHeld, LoopKept
  <2> QED BY <2>2, <2>3, <2>4
<1>6. CASE PollEnds
  <2>1. UNCHANGED <<idOf, flight>> /\ \E ids : Acknowledge(ids) BY Zenon, <1>6 DEF PollEnds, BuildResult
  <2>2. CASE watched \cap poll.ids = {}
    <3>1. watched' = watched /\ loop' = loop BY <1>6, <2>2 DEF PollEnds
    <3> QED BY Zenon, <2>1, <3>1, StillHeld, LoopKept
  <2>3. CASE watched \cap poll.ids # {} BY Zenon, <1>6, <2>3 DEF PollEnds, LoopOn
  <2> QED BY <2>2, <2>3
<1>7. CASE JobFinishes
  <2>1. PICK g \in Gens : Finish(g) BY Zenon, <1>7 DEF JobFinishes
  <2>2. UNCHANGED <<idOf, watched, acked, flight>> BY Zenon, <2>1 DEF Finish
  <2>3. loop' = "on" \/ UNCHANGED <<queue, loop>> BY Zenon, <2>1 DEF Finish
  <2> QED BY Zenon, <2>2, <2>3 DEF LoopOn, Suppressed
<1>8. CASE DeliveryFails BY Zenon, <1>8 DEF DeliveryFails, FlightFails, LoopOn
<1>9. CASE Deliver
  <2>1. flight' = None /\ UNCHANGED <<idOf, watched, acked, queue, loop>> BY Zenon, <1>9 DEF Deliver
  <2> QED BY Zenon, <2>1, LoopKept DEF Suppressed
<1>10. CASE ClearContext \/ NewSession \/ Fork \/ HandoffCommits \/ HandoffForgets
  <2>1. UNCHANGED <<idOf, watched, loop, flight>> /\ Acknowledge(PendingIds)
    BY Zenon, <1>10 DEF ClearContext, NewSession, Fork, HandoffCommits, HandoffForgets, SettleOwnAsyncJobs
  <2> QED BY Zenon, <2>1, StillHeld, LoopKept
<1>11. CASE \/ Prompt \/ Yield \/ TurnFails \/ Settle \/ Abort \/ IdleFlush \/ InjectIdle
            \/ HandoffStarts \/ HandoffFails \/ HandoffDegrades \/ UNCHANGED vars
  <2>1. UNCHANGED <<idOf, watched, acked, queue, loop, flight>>
    BY Zenon, <1>11 DEF Prompt, Yield, TurnFails, Settle, Abort, IdleFlush, InjectIdle, HandoffStarts, HandoffFails,
       HandoffDegrades, vars, managerVars
  <2> QED BY Zenon, <2>1, LoopKept DEF Suppressed
<1> QED BY Zenon, <1>1, <1>2, <1>3, <1>4, <1>5, <1>6, <1>7, <1>8, <1>9, <1>10, <1>11 DEF Next, Manage

(* A result that is queued for an idle session has its flush scheduled: by *)
(* the queue, or by a handoff that fails; and the turn that takes what     *)
(* came while the session was streaming has not had its flush.             *)
LEMMA NextArmed == ASSUME IInv, Armed, [Next]_vars PROVE Armed'
<1>1. pending \in BOOLEAN /\ scheduled \in BOOLEAN /\ missed \in BOOLEAN BY Zenon DEF IInv, TypeOK
<1>2. CASE Manage \/ JobFinishes \/ DeliveryFails \/ UNCHANGED vars
  <2>1. UNCHANGED <<entries, pending, scheduled, run, handoff, missed>>
    BY Zenon, <1>2 DEF Manage, JobFinishes, DeliveryFails, vars, sessionVars
  <2> QED BY Zenon, <2>1 DEF Armed, Streaming
<1>3. CASE Deliver
  <2>1. UNCHANGED <<run, handoff>> BY Zenon, <1>3 DEF Deliver
  <2>2. CASE Suppressed(flight)
    <3>1. UNCHANGED <<entries, pending, scheduled, missed>> BY Zenon, <1>3, <2>2 DEF Deliver
    <3> QED BY Zenon, <2>1, <3>1 DEF Armed, Streaming
  <2>3. CASE ~Suppressed(flight)
    <3>1. missed' = (missed \/ run = "ending") BY Zenon, <1>3, <2>3 DEF Deliver
    <3>2. CASE Streaming
      <4>1. UNCHANGED <<pending, scheduled>> BY Zenon, <1>3, <2>3, <3>2 DEF Deliver
      <4> QED BY Zenon, <2>1, <3>1, <3>2, <4>1 DEF Armed, Streaming
    <3>3. CASE ~Streaming
      <4>1. pending' /\ (scheduled' <=> scheduled \/ ~pending)
        BY Zenon, <1>1, <1>3, <2>3, <3>3 DEF Deliver, ScheduleIdleFlush
      <4>2. run # "ending" BY <3>3 DEF Streaming
      <4> QED BY Zenon, <2>1, <3>1, <4>1, <4>2 DEF Armed
    <3> QED BY <3>2, <3>3
  <2> QED BY <2>2, <2>3
<1>4. CASE Prompt
  <2>1. run' = "running" /\ UNCHANGED <<pending, scheduled, missed>> BY Zenon, <1>4 DEF Prompt
  <2>2. run' # "ending" /\ run' # "idle" BY <2>1
  <2> QED BY Zenon, <2>1, <2>2 DEF Armed, Streaming
<1>5. CASE Yield
  <2>1. entries' = {} /\ UNCHANGED <<pending, scheduled>> BY Zenon, <1>5 DEF Yield
  <2>2. missed' <=> missed /\ pending /\ ~scheduled BY Zenon, <1>1, <1>5 DEF Yield
  <2> QED BY Zenon, <2>1, <2>2 DEF Armed
<1>6. CASE TurnFails \/ Abort
  <2>1. UNCHANGED <<entries, pending>> /\ (missed => missed') /\ (entries # {} => missed')
    BY Zenon, <1>1, <1>6 DEF TurnFails, Abort
  <2>2. scheduled => scheduled' \/ missed' BY Zenon, <1>1, <1>6 DEF TurnFails, Abort
  <2> QED BY Zenon, <2>1, <2>2 DEF Armed
<1>7. CASE Settle
  <2>1. run = "ending" /\ run' = "idle" /\ UNCHANGED <<entries, pending, scheduled, handoff, missed>>
    BY Zenon, <1>7 DEF Settle
  <2> QED BY Zenon, <2>1 DEF Armed, Streaming
<1>8. CASE IdleFlush
  <2>1. pending' = FALSE /\ UNCHANGED <<run, handoff>> BY Zenon, <1>8 DEF IdleFlush
  <2>2. CASE Streaming
    <3>1. UNCHANGED <<entries, missed>> BY Zenon, <1>8, <2>2 DEF IdleFlush
    <3> QED BY Zenon, <2>1, <2>2, <3>1 DEF Armed, Streaming
  <2>3. CASE ~Streaming
    <3>1. entries' = {} BY Zenon, <1>8, <2>3 DEF IdleFlush
    <3> QED BY Zenon, <2>1, <3>1 DEF Armed
  <2> QED BY <2>2, <2>3
<1>9. CASE InjectIdle
  <2>1. UNCHANGED <<entries, pending, scheduled, handoff, missed>> BY Zenon, <1>9 DEF InjectIdle
  <2>2. run' = "running" \/ run' = run BY Zenon, <1>9 DEF InjectIdle
  <2>3. run' = "running" => run' # "ending" /\ run' # "idle" OBVIOUS
  <2> QED BY Zenon, <2>1, <2>2, <2>3 DEF Armed, Streaming
<1>10. CASE ClearContext \/ HandoffForgets
  <2>1. entries' = {} /\ (pending' = FALSE \/ UNCHANGED <<pending, scheduled, missed>>)
    BY Zenon, <1>10 DEF ClearContext, HandoffForgets
  <2>2. (run' = "ending" /\ entries' # {} => missed') /\ (entries' # {} /\ ~Streaming' => scheduled' \/ missed')
    BY Zenon, <2>1
  <2>3. CASE pending' = FALSE BY Zenon, <2>2, <2>3 DEF Armed
  <2>4. CASE UNCHANGED <<pending, scheduled, missed>> BY Zenon, <2>2, <2>4 DEF Armed
  <2> QED BY Zenon, <2>1, <2>3, <2>4
<1>11. CASE NewSession
  <2>1. UNCHANGED <<entries, pending, run, handoff>> BY Zenon, <1>11 DEF NewSession
  <2>2. \/ missed' <=> missed \/ entries # {} \/ scheduled
        \/ UNCHANGED <<scheduled, missed>>
    BY Zenon, <1>1, <1>11 DEF NewSession
  <2> QED BY Zenon, <2>1, <2>2 DEF Armed, Streaming
<1>12. CASE Fork
  <2>1. UNCHANGED <<entries, pending, scheduled, run, handoff, missed>> BY Zenon, <1>12 DEF Fork
  <2> QED BY Zenon, <2>1 DEF Armed, Streaming
<1>13. CASE HandoffStarts \/ HandoffCommits
  <2>1. handoff' \in {"open", "committed"} /\ UNCHANGED <<entries, pending, scheduled, run, missed>>
    BY Zenon, <1>13 DEF HandoffStarts, HandoffCommits
  <2>2. handoff' # "none" BY <2>1
  <2> QED BY Zenon, <2>1, <2>2 DEF Armed, Streaming
<1>14. CASE HandoffFails \/ HandoffDegrades
  <2>1. RearmIdle /\ UNCHANGED <<entries, run, missed>> BY Zenon, <1>14 DEF HandoffFails, HandoffDegrades
  <2>2. CASE run # "idle" \/ entries = {}
    <3>1. UNCHANGED <<pending, scheduled>> BY Zenon, <2>1, <2>2 DEF RearmIdle
    <3> QED BY Zenon, <2>1, <2>2, <3>1 DEF Armed, Streaming
  <2>3. CASE ~(run # "idle" \/ entries = {})
    <3>1. pending' /\ (scheduled' <=> scheduled \/ ~pending)
      BY Zenon, <1>1, <2>1, <2>3 DEF RearmIdle, ScheduleIdleFlush
    <3>2. run # "ending" BY <2>3
    <3> QED BY Zenon, <2>1, <3>1, <3>2 DEF Armed
  <2> QED BY <2>2, <2>3
<1> QED BY Zenon, <1>2, <1>3, <1>4, <1>5, <1>6, <1>7, <1>8, <1>9, <1>10, <1>11, <1>12,
             <1>13, <1>14 DEF Next

(* No finished job's result disappears: the watch of a poll and an         *)
(* acknowledgement discard only what was shown, given up by name, or the   *)
(* result of an older job of a reused id (isDeliverySuppressed and         *)
(* acknowledgeDeliveries in job-manager.ts, #build in yield-queue.ts).     *)
(* And none is left without a carrier: whenever something can be delivered *)
(* the loop is on (#ensureDeliveryLoop), and whenever something is queued  *)
(* for an idle session a flush is scheduled, unless a turn missed it.      *)
THEOREM NothingLost == Spec => []NoResultLost
<1>1. Init => LoopOn /\ Armed BY Zenon DEF Init, ManagerInit, LoopOn, Armed
<1>2. IInv /\ LoopOn /\ Armed /\ [Next]_vars => LoopOn' /\ Armed' BY NextLoopOn, NextArmed
<1>3. IInv /\ LoopOn /\ Armed => NoResultLost BY Zenon DEF IInv, LoopOn, Armed, NoResultLost, Carried
<1> QED BY <1>1, <1>2, <1>3, Invariance, PTL DEF Spec

-----------------------------------------------------------------------------
(* A result is in one place only: queued, being formatted, waiting for the *)
(* agent to yield, in injectIdle, or in a turn.                            *)
Places ==
  /\ flight \notin entries \cup injecting \cup got
  /\ queue \cap (entries \cup injecting \cup got) = {}
  /\ entries \cap (injecting \cup got) = {}
  /\ injecting \cap got = {}

(* A step of the job manager brings nothing into its queue that has left   *)
(* it, and takes its next delivery from there.                             *)
LEMMA ManagerPlaces ==
  ASSUME Places, None \notin Gens, entries \cup injecting \cup got \subseteq Gens,
         UNCHANGED <<entries, injecting, got>>,
         NEW S, S \cap (entries \cup injecting \cup got) = {},
         queue' \subseteq queue \cup S, flight' \in {None, flight} \cup queue
  PROVE  Places'
BY DEF Places

(* Every step leaves each result in one place: a failed delivery goes back *)
(* to the queue from the formatting, and a job that finishes is new.       *)
LEMMA NextPlaces == ASSUME IInv, Places, [Next]_vars PROVE Places'
<1>1. /\ None \notin Gens /\ entries \cup injecting \cup got \subseteq Gens
      /\ \A g \in entries \cup injecting \cup got : status[g] = "done"
  BY ManagerAssumption DEF IInv, TypeOK, ManagerTypeOK, Results, UnderWay
<1>2. CASE Manage
  <2>1. UNCHANGED <<entries, injecting, got>> BY Zenon, <1>2 DEF Manage, sessionVars
  <2>2. queue' \subseteq queue \cup {} /\ flight' \in {None, flight} \cup queue
    BY Zenon, <1>2 DEF Manage, Register, Evict, Cancel, Pick, First, PollStarts, PollEnds, BuildResult, Acknowledge
  <2>3. {} \cap (entries \cup injecting \cup got) = {} OBVIOUS
  <2> QED BY Zenon, <1>1, <2>1, <2>2, <2>3, ManagerPlaces
<1>3. CASE JobFinishes
  <2>1. PICK g \in Gens : Finish(g) BY Zenon, <1>3 DEF JobFinishes
  <2>2. UNCHANGED <<entries, injecting, got, flight>> BY Zenon, <1>3 DEF JobFinishes, Finish
  <2>3. queue' \subseteq queue \cup {g} /\ status[g] = "running" BY Zenon, <2>1 DEF Finish, Kept
  <2> QED BY Zenon, <1>1, <2>2, <2>3, ManagerPlaces
<1>4. CASE DeliveryFails
  <2>1. UNCHANGED <<entries, injecting, got>> /\ flight' = None BY Zenon, <1>4 DEF DeliveryFails, FlightFails
  <2>2. queue' \subseteq queue \cup {flight} BY Zenon, <1>4 DEF DeliveryFails, FlightFails
  <2>3. {flight} \cap (entries \cup injecting \cup got) = {} BY DEF Places
  <2> QED BY Zenon, <1>1, <2>1, <2>2, <2>3, ManagerPlaces
<1>5. CASE Deliver
  <2>1. UNCHANGED <<queue, injecting, got>> /\ flight' = None /\ entries' \subseteq entries \cup {flight}
    BY Zenon, <1>5 DEF Deliver
  <2>2. flight \notin queue BY DEF IInv, Attempts
  <2>3. None \notin Gens /\ flight # None BY <1>1, <1>5 DEF Deliver
  <2>4. entries' \subseteq Gens BY <1>5, DeliverStep DEF IInv, TypeOK
  <2> QED BY <1>1, <2>1, <2>2, <2>3, <2>4 DEF Places
<1>6. CASE \/ Prompt \/ TurnFails \/ Settle \/ Abort
           \/ HandoffStarts \/ HandoffFails \/ HandoffDegrades \/ UNCHANGED vars
  <2>1. UNCHANGED <<queue, flight, entries, injecting, got>>
    BY Zenon, <1>6 DEF Prompt, TurnFails, Settle, Abort, HandoffStarts, HandoffFails, HandoffDegrades, vars,
       managerVars, sessionVars
  <2> QED BY <2>1 DEF Places
<1>7. CASE Yield
  <2>1. UNCHANGED <<queue, flight, injecting>> /\ entries' = {} BY Zenon, <1>7 DEF Yield, managerVars
  <2>2. got' = got \cup Survivors BY Zenon, <1>7 DEF Yield
  <2> QED BY <2>1, <2>2 DEF Places, Survivors
<1>8. CASE IdleFlush
  <2>1. UNCHANGED <<queue, flight, got>> BY Zenon, <1>8 DEF IdleFlush, managerVars
  <2>2. \/ UNCHANGED <<entries, injecting>>
        \/ entries' = {} /\ injecting' \subseteq injecting \cup entries
    BY <1>8 DEF IdleFlush, Survivors
  <2> QED BY <2>1, <2>2 DEF Places
<1>9. CASE InjectIdle
  <2>1. UNCHANGED <<queue, flight, entries>> /\ injecting' = {} BY Zenon, <1>9 DEF InjectIdle
  <2>2. got' \subseteq got \cup injecting BY <1>9 DEF InjectIdle
  <2> QED BY <2>1, <2>2 DEF Places
<1>10. CASE ClearContext \/ NewSession \/ Fork \/ HandoffCommits \/ HandoffForgets
  <2>1. UNCHANGED <<flight, injecting, got>> /\ entries' \in {entries, {}} /\ queue' \subseteq queue
    BY Zenon, <1>10 DEF ClearContext, NewSession, Fork, HandoffCommits, HandoffForgets, SettleOwnAsyncJobs, Acknowledge
  <2> QED BY <2>1 DEF Places
<1> QED BY <1>2, <1>3, <1>4, <1>5, <1>6, <1>7, <1>8, <1>9, <1>10 DEF Next

(* Only the two flushes put results into a turn.                           *)
LEMMA TurnsGet == ASSUME Next, ~Yield, ~InjectIdle PROVE got' = got
BY Zenon DEF Next, Manage, sessionVars, JobFinishes, DeliveryFails, Deliver, Prompt, TurnFails, Settle, Abort,
   IdleFlush, ClearContext, NewSession, Fork, HandoffStarts, HandoffCommits, HandoffForgets, HandoffFails,
   HandoffDegrades

(* A result that a tool result has shown does not come again as a message, *)
(* unless it was past the flush already or its record is gone; and one     *)
(* that a turn has got does not come again at all, whatever deliveries     *)
(* were retried on its way.                                                *)
THEOREM Unrepeated == Spec => NoEcho
<1> DEFINE Quiet == \A g \in (got' \ got) \cap shown : g \in injecting \/ ~Current(g)
<1> DEFINE Once == got' \cap UnderWay' = {}
<1>1. IInv /\ [Next]_vars => [Quiet]_vars
  <2> SUFFICES ASSUME IInv, Next, NEW g \in (got' \ got) \cap shown, g \notin injecting, Current(g)
               PROVE  FALSE
    OBVIOUS
  <2>1. CASE Yield
    <3>1. g \in Survivors BY Zenon, <2>1 DEF Yield
    <3>2. g \notin acked BY <3>1 DEF Survivors, Suppressed
    <3> QED BY <3>2 DEF IInv, Shown
  <2>2. CASE InjectIdle BY Zenon, <2>2 DEF InjectIdle
  <2>3. got' # got OBVIOUS
  <2> QED BY Zenon, <2>1, <2>2, <2>3, TurnsGet
<1>2. Init => Places BY ManagerAssumption DEF Init, ManagerInit, Places
<1>3. IInv /\ Places /\ [Next]_vars => Places' BY NextPlaces
<1>4. IInv' /\ Places' => Once BY ManagerAssumption DEF Places, UnderWay
<1>5. IInv /\ IInv' /\ Places /\ [Next]_vars => [Quiet /\ Once]_vars BY <1>1, <1>3, <1>4
<1> QED BY <1>2, <1>3, <1>5, Invariance, PTL DEF Spec, NoEcho

-----------------------------------------------------------------------------
Ceased(g) == status[g] \in {"done", "cancelled"}

(* A poll watches the id of a delivery for a job that is over: at its end  *)
(* it will show that job, and acknowledge the delivery with it.            *)
Held(g) == idOf[g] \in watched /\ Ceased(jobs[idOf[g]])

(* What a context took to its end is not in a flush, nor in the queue once *)
(* the handoff is over, and what the manager has of it is acknowledged or  *)
(* held until it is.                                                       *)
Over ==
  \A g \in ended :
    /\ Ceased(g)
    /\ g \notin injecting
    /\ g \in entries => handoff = "committed"
    /\ g \in queue \cup {flight} => g \in acked \/ Held(g)

(* The delivery loop and onJobComplete take nothing of it.                 *)
LEMMA HeldBack ==
  ASSUME Over, NEW g \in ended, g \in queue \cup {flight}
  PROVE  Suppressed(g)
BY Zenon DEF Over, Held, Suppressed

(* A step that ends no context keeps Over when it frees nothing, and hands *)
(* on nothing, of what has ended.                                          *)
LEMMA OverKept ==
  ASSUME Over, ended' \subseteq ended,
         \A g \in ended' : Ceased(g) => Ceased(g)',
         \A g \in ended' : g \in injecting' => g \in injecting,
         \A g \in ended' : g \in entries' => g \in entries /\ (handoff = "committed" => handoff' = "committed"),
         \A g \in ended' : g \in queue' \cup {flight'} =>
           g \in queue \cup {flight} /\ (g \in acked \/ Held(g) => g \in acked' \/ Held(g)')
  PROVE  Over'
BY Zenon DEF Over

(* The job of a watched id: its record is there, tracked by the poll.      *)
LEMMA WatchedRecord ==
  ASSUME IInv, NEW i \in watched
  PROVE  /\ poll # None /\ i \in Ids /\ i \in poll.ids
         /\ jobs[i] \in Gens /\ jobs[i] \in poll.tracked \ poll.over
         /\ idOf[jobs[i]] = i
<1>1. poll # None /\ i \in poll.ids /\ i \in Ids BY DEF IInv, Watches, TypeOK, ManagerTypeOK
<1>2. jobs[i] \in poll.tracked \ poll.over BY Zenon, <1>1 DEF IInv, Watches
<1>3. poll.tracked \subseteq Gens BY <1>1 DEF IInv, TypeOK, ManagerTypeOK, PollRecord
<1>4. jobs[i] # None BY <1>2, <1>3, ManagerAssumption
<1> QED BY Zenon, <1>1, <1>2, <1>3, <1>4 DEF IInv, Records

(* The same when the manager's records stay as they are.                   *)
LEMMA OverUntouched ==
  ASSUME IInv, Over, UNCHANGED <<jobs, idOf, status>>, ended' \subseteq ended,
         acked \subseteq acked',
         \A g \in ended' : g \in injecting' => g \in injecting,
         \A g \in ended' : g \in entries' => g \in entries /\ (handoff = "committed" => handoff' = "committed"),
         \A g \in ended' : g \in queue' \cup {flight'} =>
           g \in queue \cup {flight} /\ (idOf[g] \in watched => idOf[g] \in watched' \/ g \in acked')
  PROVE  Over'
BY Zenon, OverKept DEF Held, Ceased

(* A new context: its jobs have ceased, and what of the old one is in the  *)
(* manager is acknowledged or watched.                                     *)
LEMMA ContextOver ==
  ASSUME IInv, Over, ClearContext \/ NewSession \/ Fork \/ HandoffCommits
  PROVE  Over'
<1>1. /\ None \notin Gens /\ ended \subseteq Gens /\ queue \subseteq Gens /\ entries \cup injecting \subseteq Gens
      /\ flight \in Gens \cup {None}
      /\ status \in [Gens -> {"none", "running", "done", "cancelled"}]
  BY ManagerAssumption DEF IInv, TypeOK, ManagerTypeOK
<1>2. /\ SettleOwnAsyncJobs /\ UNCHANGED injecting
      /\ \/ NewContext(injecting) /\ (entries' = {} \/ handoff' = "committed")
         \/ NewContext(injecting \cup entries) /\ handoff = "none"
      /\ entries' \subseteq entries
  BY Zenon DEF ClearContext, NewSession, Fork, HandoffCommits
<1>3. /\ UNCHANGED <<jobs, idOf, watched, flight>> /\ Acknowledge(PendingIds)
      /\ status' = [g \in Gens |-> IF status[g] = "running" THEN "cancelled" ELSE status[g]]
  BY Zenon, <1>2 DEF SettleOwnAsyncJobs, CancelOwnAsyncJobs
<1>4. \A g \in Gens : status[g] # "none" => Ceased(g)' BY <1>1, <1>3 DEF Ceased
<1>5. \A g \in Gens : Ceased(g) \/ status[g] = "running" \/ g \in UnderWay => status[g] # "none"
  BY DEF IInv, Results, Ceased
<1>6. UnderWay \subseteq Gens BY Zenon, <1>1 DEF UnderWay
<1>7. \A g \in ended' : g \in Gens /\ Ceased(g)'
  <2>1. \A g \in ended' : g \in ended \/ g \in UnderWay \/ (g \in Gens /\ status[g] = "running")
    BY Zenon, <1>2 DEF NewContext
  <2>2. \A g \in ended : Ceased(g) BY Zenon DEF Over
  <2> QED BY Zenon, <1>1, <1>4, <1>5, <1>6, <2>1, <2>2
<1>8. \A g \in ended' : g \notin injecting' BY Zenon, <1>2 DEF NewContext, Over
<1>9. ASSUME NEW g \in ended', g \in entries' PROVE handoff' = "committed"
  <2>1. CASE entries' = {} \/ handoff' = "committed" BY Zenon, <1>9, <2>1
  <2>2. CASE NewContext(injecting \cup entries) /\ handoff = "none"
    <3>1. handoff # "committed" BY <2>2
    <3>2. g \in ended BY Zenon, <1>2, <1>9, <2>2 DEF NewContext
    <3> QED BY Zenon, <1>2, <1>9, <3>1, <3>2 DEF Over
  <2> QED BY Zenon, <1>2, <2>1, <2>2
<1>10. ASSUME NEW g \in ended', g \in queue' \cup {flight'} PROVE g \in acked' \/ Held(g)'
  <2>1. g \in queue \cup ({flight} \ {None}) /\ g \in Gens /\ acked \subseteq acked'
    BY Zenon, <1>1, <1>3, <1>7, <1>10 DEF Acknowledge
  <2>2. CASE ~Suppressed(g)
    <3>1. idOf[g] \in PendingIds BY Zenon, <2>1, <2>2 DEF PendingIds
    <3> QED BY Zenon, <1>3, <2>1, <3>1 DEF Acknowledge, ByAcknowledging
  <2>3. CASE g \in acked BY Zenon, <2>1, <2>3
  <2>4. CASE idOf[g] \in watched
    <3> DEFINE h == jobs[idOf[g]]
    <3>1. h \in Gens /\ idOf[h] = idOf[g] /\ idOf[g] \in Ids BY Zenon, <2>4, WatchedRecord
    <3>2. status[h] # "none"
      <4>1. idOf[h] # None BY <3>1, ManagerAssumption
      <4> QED BY Zenon, <3>1, <4>1 DEF IInv, Records
    <3> QED BY Zenon, <1>3, <1>4, <2>4, <3>1, <3>2 DEF Held, Ceased
  <2> QED BY Zenon, <2>2, <2>3, <2>4 DEF Suppressed
<1> QED BY Zenon, <1>7, <1>8, <1>9, <1>10 DEF Over

(* No step brings back what has ended: no job is registered under a        *)
(* watched id and no watched record is evicted, a poll that ends           *)
(* acknowledges what it held, and a new context leaves nothing of the old  *)
(* one that is neither acknowledged nor held.                              *)
LEMMA NextOver == ASSUME IInv, Over, [Next]_vars PROVE Over'
<1>1. /\ None \notin Gens /\ ended \subseteq Gens /\ queue \subseteq Gens /\ entries \cup injecting \subseteq Gens
      /\ idOf \in [Gens -> Ids \cup {None}] /\ jobs \in [Ids -> Gens \cup {None}]
      /\ status \in [Gens -> {"none", "running", "done", "cancelled"}]
  BY ManagerAssumption DEF IInv, TypeOK, ManagerTypeOK
<1>2. \A i \in watched : i \in Ids /\ jobs[i] \in Gens /\ idOf[jobs[i]] = i BY Zenon, WatchedRecord
<1>3. CASE \E i \in Ids : Register(i) /\ UNCHANGED sessionVars
  <2>1. PICK i \in Ids : Register(i) /\ UNCHANGED sessionVars BY <1>3
  <2>2. PICK g \in Gens : /\ status[g] = "none"
                          /\ jobs' = [jobs EXCEPT ![i] = g]
                          /\ idOf' = [idOf EXCEPT ![g] = i]
                          /\ status' = [status EXCEPT ![g] = "running"]
    BY Zenon, <2>1 DEF Register
  <2>3. /\ jobs[i] = None /\ UNCHANGED <<watched, acked, queue, flight>>
        /\ UNCHANGED <<ended, injecting, entries, handoff>>
    BY Zenon, <2>1 DEF Register, sessionVars
  <2>4. \A h \in Gens : Ceased(h) => h # g /\ idOf'[h] = idOf[h] /\ Ceased(h)' BY <1>1, <2>2 DEF Ceased
  <2>5. \A j \in Ids : j # i => jobs'[j] = jobs[j] BY <1>1, <2>2
  <2>6. \A j \in watched : jobs'[j] = jobs[j] BY Zenon, <1>1, <1>2, <2>3, <2>5
  <2>7. \A h \in ended : Ceased(h) BY Zenon DEF Over
  <2>8. \A h \in ended : Held(h) => Held(h)' BY Zenon, <1>1, <1>2, <2>3, <2>4, <2>6, <2>7 DEF Held
  <2> QED BY Zenon, <1>1, <2>3, <2>4, <2>8, OverKept
<1>4. CASE \E i \in Ids : Evict(i) /\ UNCHANGED sessionVars
  <2>1. PICK i \in Ids : Evict(i) /\ UNCHANGED sessionVars BY <1>4
  <2>2. i \notin watched BY <2>1 DEF Evict, IInv, Watches
  <2>3. watched' = watched /\ jobs' = [jobs EXCEPT ![i] = None] BY <2>1, <2>2 DEF Evict
  <2>4. UNCHANGED <<idOf, status, acked, queue, flight, ended, injecting, entries, handoff>>
    BY Zenon, <2>1 DEF Evict, sessionVars
  <2>5. \A j \in watched : jobs'[j] = jobs[j] BY <1>1, <1>2, <2>2, <2>3
  <2>6. \A h \in ended : Held(h) => Held(h)' BY Zenon, <2>3, <2>4, <2>5 DEF Held, Ceased
  <2>7. \A h \in ended : Ceased(h) => Ceased(h)' BY Zenon, <2>4 DEF Ceased
  <2> QED BY Zenon, <2>4, <2>6, <2>7, OverKept
<1>5. CASE (\E g \in Gens : Cancel(g)) /\ UNCHANGED sessionVars
  <2>1. PICK g \in Gens : Cancel(g) BY <1>5
  <2>2. UNCHANGED <<jobs, idOf, watched, acked, queue, flight, ended, injecting, entries, handoff>>
    BY Zenon, <1>5, <2>1 DEF Cancel, sessionVars
  <2>3. \A h \in Gens : Ceased(h) => Ceased(h)' BY <1>1, <2>1 DEF Cancel, Ceased
  <2>4. \A h \in ended : Held(h) => Held(h)' BY Zenon, <1>2, <2>2, <2>3 DEF Held
  <2> QED BY Zenon, <1>1, <2>2, <2>3, <2>4, OverKept
<1>6. CASE Pick /\ UNCHANGED sessionVars
  <2>1. UNCHANGED <<jobs, idOf, status, watched, acked, ended, injecting, entries, handoff>>
    BY Zenon, <1>6 DEF Pick, sessionVars
  <2>2. queue' \subseteq queue /\ flight' \in {None, flight} \cup {g \in queue : ~Suppressed(g)}
    BY Zenon, <1>6 DEF Pick, First
  <2>3. \A g \in ended : g \in queue' \cup {flight'} => g \in queue \cup {flight}
    BY Zenon, <1>1, <2>2
  <2> QED BY Zenon, <2>1, <2>3, OverUntouched
<1>7. CASE (\E tracked \in SUBSET Gens : PollStarts(tracked)) /\ UNCHANGED sessionVars
  <2>1. UNCHANGED <<jobs, idOf, status, flight, ended, injecting, entries, handoff>>
    BY Zenon, <1>7 DEF PollStarts, sessionVars
  <2>2. watched \subseteq watched' /\ acked \subseteq acked' /\ queue' \subseteq queue
    BY Zenon, <1>7 DEF PollStarts, BuildResult, Acknowledge
  <2> QED BY Zenon, <2>1, <2>2, OverUntouched
<1>8. CASE PollEnds /\ UNCHANGED sessionVars
  <2>1. UNCHANGED <<jobs, idOf, status, flight, ended, injecting, entries, handoff>>
    BY Zenon, <1>8 DEF PollEnds, sessionVars
  <2>2. BuildResult(poll.tracked) /\ poll # None BY Zenon, <1>8 DEF PollEnds
  <2>3. acked \subseteq acked' /\ queue' \subseteq queue BY Zenon, <2>2 DEF BuildResult, Acknowledge
  <2>4. ASSUME NEW g \in ended, g \in queue \cup {flight}, Held(g) PROVE g \in acked'
    <3> DEFINE h == jobs[idOf[g]]
    <3>1. idOf[g] \in watched /\ Ceased(h) BY Zenon, <2>4 DEF Held
    <3>2. h \in Gens /\ h \in poll.tracked /\ idOf[h] = idOf[g] BY Zenon, <3>1, WatchedRecord
    <3>3. jobs[idOf[h]] = h /\ h # None BY <1>1, <3>2
    <3>4. status[h] # "running" BY <3>1 DEF Ceased
    <3> HIDE DEF h
    <3>5. h \in Snapshot(poll.tracked) BY Zenon, <3>2, <3>3 DEF Snapshot
    <3>6. idOf[g] \in {idOf[k] : k \in {m \in Snapshot(poll.tracked) : status[m] # "running"}}
      BY Zenon, <3>2, <3>4, <3>5
    <3>7. g \in Gens BY <1>1
    <3> QED BY Zenon, <2>2, <2>4, <3>6, <3>7 DEF BuildResult, Acknowledge, ByAcknowledging
  <2>5. \A g \in ended : Ceased(g) => Ceased(g)' BY Zenon, <2>1 DEF Ceased
  <2> QED BY Zenon, <2>1, <2>3, <2>4, <2>5, OverKept
<1>9. CASE JobFinishes
  <2>1. PICK g \in Gens : Finish(g) BY Zenon, <1>9 DEF JobFinishes
  <2>2. UNCHANGED <<jobs, idOf, watched, acked, flight, ended, injecting, entries, handoff>>
    BY Zenon, <1>9, <2>1 DEF JobFinishes, Finish
  <2>3. status[g] = "running" /\ status' = [status EXCEPT ![g] = "done"] BY Zenon, <2>1 DEF Finish
  <2>4. \A h \in Gens : Ceased(h) => h # g /\ Ceased(h)' BY <1>1, <2>3 DEF Ceased
  <2>5. queue' \subseteq queue \cup {g} BY Zenon, <2>1 DEF Finish, Kept
  <2>6. \A h \in ended : h # g BY Zenon, <1>1, <2>4 DEF Over
  <2>7. \A h \in ended : Held(h) => Held(h)' BY Zenon, <1>2, <2>2, <2>4 DEF Held
  <2> QED BY Zenon, <1>1, <2>2, <2>4, <2>5, <2>6, <2>7, OverKept
<1>10. CASE DeliveryFails
  <2>1. /\ flight' = None /\ queue' \subseteq queue \cup {flight}
        /\ UNCHANGED <<jobs, idOf, status, watched, acked, ended, injecting, entries, handoff>>
    BY Zenon, <1>10 DEF DeliveryFails, FlightFails
  <2> QED BY Zenon, <1>1, <2>1, OverUntouched
<1>11. CASE Deliver
  <2>1. /\ flight' = None /\ UNCHANGED <<jobs, idOf, status, watched, acked, queue, ended, injecting, handoff>>
        /\ entries' = entries \/ (entries' = entries \cup {flight} /\ ~Suppressed(flight))
    BY Zenon, <1>11 DEF Deliver
  <2>2. \A g \in ended : g \in entries' => g \in entries BY Zenon, <2>1, HeldBack
  <2> QED BY Zenon, <1>1, <2>1, <2>2, OverUntouched
<1>12. CASE Prompt \/ Yield \/ TurnFails \/ Settle \/ Abort \/ UNCHANGED vars
  <2>1. UNCHANGED <<jobs, idOf, status, watched, acked, queue, flight, ended, injecting, handoff>>
    BY Zenon, <1>12 DEF Prompt, Yield, TurnFails, Settle, Abort, vars, managerVars, sessionVars
  <2>2. entries' \in {entries, {}}
    BY Zenon, <1>12 DEF Prompt, Yield, TurnFails, Settle, Abort, vars, sessionVars
  <2> QED BY Zenon, <2>1, <2>2, OverUntouched
<1>13. CASE IdleFlush
  <2>1. UNCHANGED <<jobs, idOf, status, watched, acked, queue, flight, ended, handoff>>
    BY Zenon, <1>13 DEF IdleFlush, managerVars
  <2>2. \/ UNCHANGED <<entries, injecting>>
        \/ handoff = "none" /\ entries' = {} /\ injecting' \subseteq injecting \cup entries
    BY <1>13 DEF IdleFlush, Survivors, Streaming
  <2>3. handoff = "none" => handoff # "committed" OBVIOUS
  <2>4. \A g \in ended : g \in injecting' => g \in injecting BY Zenon, <2>2, <2>3 DEF Over
  <2>5. \A g \in ended : g \in entries' => g \in entries BY Zenon, <2>2
  <2> QED BY Zenon, <2>1, <2>4, <2>5, OverUntouched
<1>14. CASE InjectIdle
  <2>1. UNCHANGED <<jobs, idOf, status, watched, acked, queue, flight, ended, entries, handoff>> /\ injecting' = {}
    BY Zenon, <1>14 DEF InjectIdle
  <2> QED BY Zenon, <2>1, OverUntouched
<1>15. CASE HandoffStarts \/ HandoffFails
  <2>1. /\ UNCHANGED <<jobs, idOf, status, watched, acked, queue, flight, ended, injecting, entries>>
        /\ handoff \in {"none", "open"}
    BY Zenon, <1>15 DEF HandoffStarts, HandoffFails, managerVars, Streaming
  <2>2. handoff # "committed" BY <2>1
  <2> QED BY Zenon, <2>1, <2>2, OverUntouched
<1>16. CASE HandoffForgets \/ HandoffDegrades
  <2>1. /\ UNCHANGED <<jobs, idOf, status, watched, flight, injecting>>
        /\ acked \subseteq acked' /\ queue' \subseteq queue
        /\ \/ entries' = {} /\ ended' = ended
           \/ entries' = entries /\ ended' = ended \ entries
    BY Zenon, <1>16 DEF HandoffForgets, HandoffDegrades, Acknowledge, managerVars
  <2> QED BY Zenon, <2>1, OverUntouched
<1>17. CASE ClearContext \/ NewSession \/ Fork \/ HandoffCommits
  BY <1>17, ContextOver
<1> QED BY Zenon, <1>3, <1>4, <1>5, <1>6, <1>7, <1>8, <1>9, <1>10, <1>11, <1>12, <1>13, <1>14, <1>15, <1>16, <1>17
        DEF Next, Manage

(* "never flush into the new session": a result that was still to come     *)
(* when its context ended (settleOwnAsyncJobsBeforeArtifactRetirement,     *)
(* #suppressOwnAsyncJobDeliveries, clearKind) is not put into a turn of    *)
(* another, except between the commit of a handoff and its clearing of the *)
(* queue.                                                                  *)
THEOREM InItsContext == Spec => StaysInItsContext
<1> DEFINE Stays == handoff = "committed" \/ (got' \ got) \cap ended = {}
<1>1. IInv /\ Over /\ [Next]_vars => [Stays]_vars
  <2> SUFFICES ASSUME IInv, Over, Next, handoff # "committed", NEW g \in got' \ got, g \in ended PROVE FALSE
    OBVIOUS
  <2>1. CASE Yield
    <3>1. g \in entries BY Zenon, <2>1 DEF Yield, Survivors
    <3> QED BY Zenon, <3>1 DEF Over
  <2>2. CASE InjectIdle
    <3>1. g \in injecting BY Zenon, <2>2 DEF InjectIdle
    <3> QED BY Zenon, <3>1 DEF Over
  <2>3. got' # got OBVIOUS
  <2> QED BY Zenon, <2>1, <2>2, <2>3, TurnsGet
<1>2. Init => Over BY Zenon DEF Init, Over
<1>3. IInv /\ Over /\ [Next]_vars => Over' BY NextOver
<1> QED BY <1>1, <1>2, <1>3, Invariance, PTL DEF Spec, StaysInItsContext
=============================================================================
