-------------------------- MODULE ChatDaemonProofs --------------------------
(***************************************************************************)
(* The safety of the chat daemon over its effect journal, for any number   *)
(* of effects and tasks, any bound on the journal and any number of        *)
(* deliveries and faults.                                                  *)
(***************************************************************************)
EXTENDS ChatDaemon, TLAPS

(* A task that is about an effect names one, a reservation is a handler's, and what *)
(* is to be recorded is an outcome.                                                 *)
Sound(r) == /\ r \in TaskStates
            /\ r.pc \in Working \cup {"reserve", "reject", "stale", "dispatch"} => r.ev \in Effects
            /\ r.pc = "reserve" => r.ev \in Inbound /\ r.kind = "handler"
            /\ r.pc = "record" => r.want \in {"accepted", "uncertain", "terminal"}

Shape == TypeOK /\ \A t \in Tasks : Sound(task[t])

(* In the first life of an effect no task is ahead of its epoch, and one at most is *)
(* in it: whoever claims it raises the epoch above everybody else's.                *)
Fence == /\ \A e \in Effects : Present(e) => life[e] >= 1
         /\ \A t \in Tasks : task[t].pc \in Working =>
               /\ life[task[t].ev] >= 1
               /\ life[task[t].ev] = 1 /\ Present(task[t].ev) => task[t].ep <= journal[task[t].ev].epoch
         /\ \A t, u \in Tasks :
               /\ task[t].pc \in Working /\ task[u].pc \in Working /\ task[t].ev = task[u].ev
               /\ life[task[t].ev] = 1 /\ Present(task[t].ev)
               /\ task[t].ep = journal[task[t].ev].epoch /\ task[u].ep = journal[task[t].ev].epoch
               => t = u

(* A receipt that was taken in time has its effect, and nobody is about to evict it. *)
Kept == \A e \in receipts \ raced : Present(e) /\ ~Doomed(e)

(* What is listed for eviction is terminal, as long as it lives. *)
Over == \A t \in Tasks : \A d \in task[t].doomed :
           /\ d[1] \in Effects /\ d[2] <= life[d[1]]
           /\ d[2] = life[d[1]] /\ Present(d[1]) => journal[d[1]].state = "terminal"

(* Somebody who will look at the journal before it is done. *)
Covers(t) == (task[t].kind \in {"recovery", "failing"} /\ task[t].pc # "idle") \/ task[t].pc = "set"

Watched == (\E e \in Effects : Recoverable(e)) /\ timer = "off" => \E t \in Tasks : Covers(t)

IInv == Shape /\ Fence /\ Kept /\ Over /\ Watched

-----------------------------------------------------------------------------
(* Most steps are calm: of one task, and of effects that go on with their lives. *)

Onward(e) == /\ Present(e)' <=> Present(e)
             /\ Present(e) => /\ journal'[e].epoch >= journal[e].epoch
                              /\ journal[e].state = "terminal" => journal'[e].state = "terminal"
             /\ Recoverable(e)' => Recoverable(e) \/ timer' = "set"

Alone(t) == \A u \in Tasks \ {t} : task'[u] = task[u]

Claimless(u) == task'[u].pc \in Working =>
                    task[u].pc \in Working /\ task'[u].ev = task[u].ev /\ task'[u].ep = task[u].ep

(* No receipt that counts is added. *)
Receding == receipts' \ raced' \subseteq receipts \ raced

(* The task claims nothing, dooms nothing, and goes on covering if it did. *)
Quiet(t) == /\ Alone(t)
            /\ task'[t].doomed \subseteq task[t].doomed
            /\ Claimless(t)
            /\ Covers(t) => Covers(t)'

Calm(t) == /\ Quiet(t)
           /\ \A e \in Effects : Onward(e)
           /\ life' = life
           /\ Receding
           /\ timer' \in {timer, "set"}

(* The initial state. *)
LEMMA InitIInv == Init => IInv
<1> SUFFICES ASSUME Init PROVE IInv OBVIOUS
<1>1. Idle \in TaskStates BY DEF Idle, TaskStates, Stages
<1>2. TypeOK BY Zenon, <1>1 DEF Init, TypeOK
<1>3. \A t \in Tasks : task[t] = Idle BY DEF Init
<1>4. Idle.pc = "idle" /\ Idle.doomed = {} /\ Idle.kind = "none" BY DEF Idle
<1>5. Shape BY <1>1, <1>2, <1>3, <1>4 DEF Shape, Sound, Working
<1>6. \A e \in Effects : ~Present(e) BY DEF Init, Present
<1>7. Fence BY <1>3, <1>4, <1>6 DEF Fence, Working
<1>8. Kept BY DEF Init, Kept
<1>9. Over BY <1>3, <1>4 DEF Over
<1>10. Watched BY <1>6 DEF Watched, Recoverable, IsOpen
<1> QED BY <1>5, <1>7, <1>8, <1>9, <1>10 DEF IInv

(* Calm steps keep everything but the shapes. *)
LEMMA CalmFence ==
    ASSUME IInv, Shape', \A u \in Tasks : Claimless(u), \A e \in Effects : Onward(e), life' = life PROVE Fence'
<1>1. \A u \in Tasks : task'[u].pc \in Working =>
         task[u].pc \in Working /\ task'[u].ev = task[u].ev /\ task'[u].ep = task[u].ep /\ task[u].ev \in Effects
  BY DEF Claimless, IInv, Shape, Sound
<1>2. \A e \in Effects : Present(e)' => Present(e) /\ journal'[e].epoch >= journal[e].epoch
  BY DEF Onward
<1>3. \A e \in Effects : Present(e) => journal[e].epoch \in Nat
  BY DEF IInv, Shape, TypeOK, Present, Records
<1>4. \A e \in Effects : Present(e)' => journal'[e].epoch \in Nat
  BY DEF Shape, TypeOK, Present, Records
<1>5. \A u \in Tasks : task[u].ep \in Nat BY DEF IInv, Shape, TypeOK, TaskStates
<1>6. (\A u \in Tasks : task[u].pc \in Working =>
         /\ life[task[u].ev] >= 1
         /\ life[task[u].ev] = 1 /\ Present(task[u].ev) => task[u].ep <= journal[task[u].ev].epoch)'
  <2> SUFFICES ASSUME NEW u \in Tasks, task'[u].pc \in Working
               PROVE  /\ life[task[u].ev] >= 1
                      /\ life[task[u].ev] = 1 /\ journal'[task[u].ev] # Absent => task[u].ep <= journal'[task[u].ev].epoch
    BY <1>1 DEF Present
  <2> DEFINE e == task[u].ev
  <2>1. e \in Effects /\ task[u].pc \in Working BY <1>1
  <2>2. life[e] >= 1 /\ (life[e] = 1 /\ Present(e) => task[u].ep <= journal[e].epoch) BY <2>1 DEF IInv, Fence
  <2>3. journal'[e] # Absent => /\ Present(e) /\ journal'[e].epoch >= journal[e].epoch
                                /\ journal[e].epoch \in Nat /\ journal'[e].epoch \in Nat
    BY <2>1, <1>2, <1>3, <1>4 DEF Present
  <2> QED BY <2>2, <2>3, <1>5
<1>7. (\A e \in Effects : Present(e) => life[e] >= 1)' BY <1>2 DEF IInv, Fence
<1>8. (\A v, u \in Tasks :
         /\ task[v].pc \in Working /\ task[u].pc \in Working /\ task[v].ev = task[u].ev
         /\ life[task[v].ev] = 1 /\ Present(task[v].ev)
         /\ task[v].ep = journal[task[v].ev].epoch /\ task[u].ep = journal[task[v].ev].epoch
         => v = u)'
  <2> SUFFICES ASSUME NEW v \in Tasks, NEW u \in Tasks, task'[v].pc \in Working, task'[u].pc \in Working,
                      task[v].ev = task[u].ev, life[task[v].ev] = 1, journal'[task[v].ev] # Absent,
                      task[v].ep = journal'[task[v].ev].epoch, task[u].ep = journal'[task[v].ev].epoch
               PROVE  v = u
    BY <1>1 DEF Present
  <2> DEFINE e == task[v].ev
  <2>1. e \in Effects /\ task[v].pc \in Working /\ task[u].pc \in Working BY <1>1
  <2>2. Present(e) /\ journal'[e].epoch >= journal[e].epoch /\ journal[e].epoch \in Nat
    BY <2>1, <1>2, <1>3 DEF Present
  <2>3. task[v].ep <= journal[e].epoch /\ task[u].ep <= journal[e].epoch BY <2>1, <2>2 DEF IInv, Fence
  <2>4. task[v].ep = journal[e].epoch /\ task[u].ep = journal[e].epoch BY <2>2, <2>3, <1>5
  <2> QED BY <2>1, <2>2, <2>4 DEF IInv, Fence
<1> QED BY <1>6, <1>7, <1>8 DEF Fence

(* Nothing goes and nothing new is listed: receipts keep their effects. *)
LEMMA CalmKept ==
    ASSUME IInv, \A e \in Effects : Present(e) => Present(e)', \A e \in Effects : Doomed(e)' => Doomed(e),
           Receding
    PROVE  Kept'
BY DEF Receding, IInv, Kept, Shape, TypeOK, Effects

(* What is listed stays terminal. *)
LEMMA CalmOver ==
    ASSUME IInv, Shape', \A u \in Tasks : task'[u].doomed \subseteq task[u].doomed, life' = life,
           \A e \in Effects : Onward(e)
    PROVE  Over'
BY DEF IInv, Over, Onward, Present

(* New work sets the timer, and whoever covers goes on. *)
LEMMA CalmWatched ==
    ASSUME IInv, Shape', \A u \in Tasks : Covers(u) => Covers(u)', \A e \in Effects : Onward(e),
           timer' \in {timer, "set"}
    PROVE  Watched'
BY DEF IInv, Shape, TypeOK, Watched, Onward

(* So a calm step keeps the invariant if it keeps the shapes. *)
LEMMA CalmIInv == ASSUME IInv, Shape', NEW t \in Tasks, Calm(t) PROVE IInv'
<1>0. \A u \in Tasks : Claimless(u) BY DEF Calm, Quiet, Alone, Claimless
<1>1. Fence' BY <1>0, CalmFence DEF Calm
<1>2. \A u \in Tasks : task'[u].doomed \subseteq task[u].doomed /\ (Covers(u) => Covers(u)')
  BY DEF Calm, Quiet, Alone, Covers
<1>3. \A e \in Effects : Doomed(e)' => Doomed(e) BY <1>2 DEF Doomed
<1>4. Kept' BY <1>3, CalmKept DEF Calm, Onward
<1>5. Over' BY <1>2, CalmOver DEF Calm
<1>6. Watched' BY <1>2, CalmWatched DEF Calm
<1> QED BY <1>1, <1>4, <1>5, <1>6 DEF IInv

-----------------------------------------------------------------------------
(* Receipts are completed, and forgotten where they were marked. *)
LEMMA CompleteIs ==
    ASSUME Shape, NEW E, Complete(E) \/ UNCHANGED <<receipts, seen, raced>>
    PROVE  /\ Receding
           /\ receipts' \subseteq Inbound /\ seen' \subseteq Inbound /\ raced' \subseteq Inbound
BY DEF Complete, Receding, Shape, TypeOK

(* Nothing is said of any receipt. *)
LEMMA SameReceipts == ASSUME receipts' = receipts, raced' = raced PROVE Receding
BY DEF Receding

(* The types of everything but the tasks. *)
Fields == /\ journal \in [Effects -> Records \cup {Absent}]
          /\ life \in [Effects -> Nat]
          /\ receipts \subseteq Inbound /\ seen \subseteq Inbound /\ inflight \subseteq Inbound
          /\ binding \in {"current", "no_endpoint", "no_record"}
          /\ inc \in Nat
          /\ timer \in {"set", "off", "lost"}
          /\ sent \in [Effects -> Nat] /\ expired \subseteq Effects /\ raced \subseteq Inbound
          /\ delivered \in Nat /\ faults \in Nat

(* A step of one task to a sound state. *)
LEMMA OneTask ==
    ASSUME Shape, NEW t \in Tasks, NEW r, task' = [task EXCEPT ![t] = r], Sound(r)
    PROVE  /\ Alone(t) /\ task'[t] = r
           /\ Fields' => Shape'
<1>1. task \in [Tasks -> TaskStates] BY DEF Shape, TypeOK
<1>2. Alone(t) /\ task'[t] = r BY <1>1 DEF Alone
<1>3. task' \in [Tasks -> TaskStates] BY <1>1 DEF Sound
<1>4. \A u \in Tasks : Sound(task'[u]) BY <1>2 DEF Alone, Shape
<1>5. Fields' => TypeOK' BY <1>3 DEF Fields, TypeOK
<1> QED BY <1>2, <1>4, <1>5 DEF Shape

(* An effect that is open goes on. *)
LEMMA OneEffect ==
    ASSUME Shape, NEW e \in Effects, NEW r \in Records, journal' = [journal EXCEPT ![e] = r], IsOpen(e),
           r.epoch >= journal[e].epoch, timer' = "set" \/ r.state = "terminal" \/ Recoverable(e)
    PROVE  /\ journal' \in [Effects -> Records \cup {Absent}]
           /\ \A x \in Effects : Onward(x)
<1>1. journal \in [Effects -> Records \cup {Absent}] BY DEF Shape, TypeOK
<1>2. journal' \in [Effects -> Records \cup {Absent}] BY <1>1
<1>3. Onward(e) BY <1>1, AbsentAssumption DEF Onward, Present, IsOpen, Recoverable
<1>4. \A x \in Effects \ {e} : Onward(x)
  <2> SUFFICES ASSUME NEW x \in Effects \ {e} PROVE Onward(x) OBVIOUS
  <2>1. journal'[x] = journal[x] BY <1>1
  <2>2. Present(x) => journal[x].epoch \in Nat BY <1>1 DEF Present, Records
  <2> QED BY <2>1, <2>2 DEF Onward, Present, IsOpen, Recoverable
<1> QED BY <1>2, <1>3, <1>4

(* A journal that is left alone. *)
LEMMA NoEffectChanged ==
    ASSUME Shape, journal' = journal PROVE \A x \in Effects : Onward(x)
<1>1. \A x \in Effects : Present(x) => journal[x].epoch \in Nat BY DEF Shape, TypeOK, Present, Records
<1> QED BY <1>1 DEF Onward, Present, IsOpen, Recoverable

(* A claim that is renewed. *)
LEMMA RenewIs ==
    ASSUME Shape, NEW e \in Effects, IsOpen(e), Renew(e), timer' = "set"
    PROVE  journal' \in [Effects -> Records \cup {Absent}] /\ \A x \in Effects : Onward(x)
<1> DEFINE r == [journal[e] EXCEPT !.state = "leased"]
<1>1. journal[e] \in Records BY DEF Shape, TypeOK, IsOpen, Present
<1>2. r \in Records /\ r.epoch >= journal[e].epoch BY <1>1 DEF Records
<1>3. journal' = [journal EXCEPT ![e] = r] BY DEF Renew
<1> HIDE DEF r
<1> QED BY Zenon, <1>2, <1>3, OneEffect

(* An outcome that is recorded. *)
LEMMA RecordIs ==
    ASSUME Shape, NEW e \in Effects, NEW state \in {"accepted", "uncertain", "terminal"}, IsOpen(e), Record(e, state),
           timer' = "set" \/ state = "terminal"
    PROVE  journal' \in [Effects -> Records \cup {Absent}] /\ \A x \in Effects : Onward(x)
<1> DEFINE r == [journal[e] EXCEPT !.state = state, !.owner = 0]
<1>1. journal[e] \in Records BY DEF Shape, TypeOK, IsOpen, Present
<1>2. r \in Records /\ r.epoch = journal[e].epoch /\ r.epoch \in Nat /\ r.state = state BY Zenon, <1>1 DEF Records
<1>3. journal' = [journal EXCEPT ![e] = r] BY Zenon DEF Record
<1> HIDE DEF r
<1>4. r.epoch >= journal[e].epoch BY <1>2
<1> QED BY Zenon, <1>2, <1>3, <1>4, OneEffect

(* A claim that has run out and is given up. *)
LEMMA AbandonIs ==
    ASSUME Shape, NEW e \in Effects, IsOpen(e), journal[e].state = "lapsed", Abandon(e)
    PROVE  journal' \in [Effects -> Records \cup {Absent}] /\ \A x \in Effects : Onward(x)
<1> DEFINE r == [state |-> "uncertain", owner |-> 0, epoch |-> journal[e].epoch + 1]
<1>1. journal[e] \in Records /\ journal[e].epoch \in Nat BY DEF Shape, TypeOK, IsOpen, Present, Records
<1>2. r \in Records /\ r.epoch >= journal[e].epoch BY <1>1 DEF Records
<1>3. journal' = [journal EXCEPT ![e] = r] BY DEF Abandon
<1>4. Recoverable(e) BY DEF Recoverable
<1> HIDE DEF r
<1> QED BY Zenon, <1>2, <1>3, <1>4, OneEffect

(* A claim. *)
LEMMA ClaimIs ==
    ASSUME Shape, NEW e \in Effects, CanClaim(e), Claim(e, inc)
    PROVE  /\ journal' \in [Effects -> Records \cup {Absent}] /\ \A x \in Effects : Onward(x)
           /\ journal'[e].epoch = journal[e].epoch + 1 /\ journal[e].epoch \in Nat
           /\ \A x \in Effects \ {e} : journal'[x] = journal[x]
<1> DEFINE r == [state |-> "leased", owner |-> inc, epoch |-> journal[e].epoch + 1]
<1>1. journal[e] \in Records /\ journal[e].epoch \in Nat /\ inc \in Nat
  BY DEF Shape, TypeOK, CanClaim, IsOpen, Present, Records
<1>2. r \in Records /\ r.epoch >= journal[e].epoch /\ r.epoch = journal[e].epoch + 1 BY <1>1 DEF Records
<1>3. journal' = [journal EXCEPT ![e] = r] BY DEF Claim
<1>4. Recoverable(e) /\ IsOpen(e) BY DEF Recoverable, CanClaim
<1> HIDE DEF r
<1>5. journal \in [Effects -> Records \cup {Absent}] BY DEF Shape, TypeOK
<1>6. journal'[e] = r /\ \A x \in Effects \ {e} : journal'[x] = journal[x] BY <1>3, <1>5
<1> QED BY Zenon, <1>1, <1>2, <1>3, <1>4, <1>6, OneEffect

(* The end of the work on an effect. *)
LEMMA IdleIs ==
    /\ Sound(Idle) /\ Idle.pc = "idle" /\ Idle.doomed = {} /\ Idle.kind = "none"
    /\ Idle.ev = NoEffect /\ Idle.ep = 0 /\ Idle.want = "none" /\ Idle.todo = {}
BY DEF Idle, Sound, TaskStates, Stages, Working

(* A post or a rejection ends. *)
LEMMA QuitIs ==
    ASSUME Shape, NEW t \in Tasks, Quit(t)
    PROVE  /\ task' = [task EXCEPT ![t] = task'[t]] /\ Sound(task'[t])
           /\ task'[t].pc \in {"idle", "sweep"} /\ task'[t].doomed \subseteq task[t].doomed
           /\ task[t].kind \in {"recovery", "failing"} => task'[t].kind = task[t].kind /\ task'[t].pc = "sweep"
<1>1. task \in [Tasks -> TaskStates] /\ task[t] \in TaskStates BY DEF Shape, TypeOK
<1>2. task'[t] = Left(t) /\ task' = [task EXCEPT ![t] = Left(t)] BY <1>1 DEF Quit
<1>3. CASE task[t].kind \in {"recovery", "failing"}
  <2> DEFINE r == [task[t] EXCEPT !.pc = "sweep", !.ev = NoEffect, !.ep = 0, !.want = "none"]
  <2>1. Left(t) = r BY <1>3 DEF Left
  <2>2. r \in TaskStates /\ r.pc = "sweep" /\ r.kind = task[t].kind /\ r.doomed = task[t].doomed
    BY Zenon, <1>1 DEF TaskStates, Stages
  <2>3. Sound(r) BY <2>2 DEF Sound, Working
  <2> HIDE DEF r
  <2> QED BY <1>2, <2>1, <2>2, <2>3
<1>4. CASE task[t].kind \notin {"recovery", "failing"}
  <2>1. Left(t) = Idle BY <1>4 DEF Left
  <2> QED BY <1>2, <1>4, <2>1, IdleIs
<1> QED BY <1>3, <1>4

(* A handler ends. *)
LEMMA DoneIs ==
    ASSUME Shape, NEW t \in Tasks, Done(t)
    PROVE  /\ task' = [task EXCEPT ![t] = task'[t]] /\ Sound(task'[t])
           /\ task'[t].pc \in {"idle", "sweep", "look"} /\ task'[t].doomed \subseteq task[t].doomed
           /\ task[t].kind \in {"recovery", "failing"} => task'[t].kind = task[t].kind /\ task'[t].pc = "sweep"
           /\ inflight' \subseteq inflight
<1>1. CASE task[t].kind = "handler"
  <2> DEFINE r == [Idle EXCEPT !.pc = "look", !.kind = "handler"]
  <2>1. Sound(r) /\ r.pc = "look" /\ r.doomed = {} BY Zenon, IdleIs DEF Sound, TaskStates, Stages, Working
  <2>2. task' = [task EXCEPT ![t] = r] /\ inflight' \subseteq inflight BY <1>1 DEF Done
  <2>3. task'[t] = r BY <2>2 DEF Shape, TypeOK
  <2> HIDE DEF r
  <2> QED BY Zenon, <1>1, <2>1, <2>2, <2>3
<1>2. CASE task[t].kind # "handler" BY <1>2, QuitIs DEF Done, Quit
<1> QED BY <1>1, <1>2

(* ... which is quiet. *)
LEMMA EndIsQuiet ==
    ASSUME Shape, NEW t \in Tasks, Done(t) \/ Quit(t), task[t].pc # "set"
    PROVE  Quiet(t) /\ (Fields' => Shape') /\ inflight' \subseteq inflight
<1>1. /\ task' = [task EXCEPT ![t] = task'[t]] /\ Sound(task'[t])
      /\ task'[t].pc \in {"idle", "sweep", "look"} /\ task'[t].doomed \subseteq task[t].doomed
      /\ task[t].kind \in {"recovery", "failing"} => task'[t].kind = task[t].kind /\ task'[t].pc = "sweep"
      /\ inflight' \subseteq inflight
  BY DoneIs, QuitIs DEF Quit
<1>2. Alone(t) /\ (Fields' => Shape') BY <1>1, OneTask
<1> QED BY <1>1, <1>2 DEF Quiet, Claimless, Covers, Working

(* A task goes on with its effect. *)
LEMMA GoesOn ==
    ASSUME Shape, NEW t \in Tasks, NEW s \in Stages \ {"idle", "reserve"}, NEW r \in TaskStates,
           task' = [task EXCEPT ![t] = r],
           r.pc = s, r.kind = task[t].kind, r.ev = task[t].ev, r.ep = task[t].ep, r.doomed \subseteq task[t].doomed,
           task[t].pc # "set", task[t].ev \in Effects, s \in Working => task[t].pc \in Working,
           s = "record" => r.want \in {"accepted", "uncertain", "terminal"}
    PROVE  Quiet(t) /\ (Fields' => Shape')
<1>1. Sound(r) BY DEF Sound
<1>2. Alone(t) /\ task'[t] = r /\ (Fields' => Shape') BY Zenon, <1>1, OneTask
<1> QED BY <1>2 DEF Quiet, Claimless, Covers

(* A task goes on to its next stage. *)
LEMMA GoIs ==
    ASSUME Shape, NEW t \in Tasks, NEW s \in Stages \ {"idle", "reserve", "record"}, Go(t, s),
           task[t].pc # "set", task[t].ev \in Effects, s \in Working => task[t].pc \in Working
    PROVE  Quiet(t) /\ (Fields' => Shape')
<1> DEFINE r == [task[t] EXCEPT !.pc = s]
<1>1. task[t] \in TaskStates BY DEF Shape, TypeOK
<1>2. r \in TaskStates /\ r.pc = s /\ r.kind = task[t].kind /\ r.ev = task[t].ev /\ r.ep = task[t].ep
      /\ r.doomed = task[t].doomed
  BY <1>1 DEF TaskStates
<1>3. task' = [task EXCEPT ![t] = r] BY DEF Go
<1> HIDE DEF r
<1> QED BY Zenon, <1>2, <1>3, GoesOn

(* A task goes on to record an outcome. *)
LEMMA OutcomeIs ==
    ASSUME Shape, NEW t \in Tasks, NEW w \in {"accepted", "uncertain", "terminal"}, Outcome(t, w),
           task[t].pc \in Working
    PROVE  Quiet(t) /\ (Fields' => Shape')
<1> DEFINE r == [task[t] EXCEPT !.pc = "record", !.want = w]
<1>1. task[t] \in TaskStates /\ task[t].ev \in Effects BY DEF Shape, TypeOK, Sound
<1>2. r \in TaskStates /\ r.pc = "record" /\ r.kind = task[t].kind /\ r.ev = task[t].ev /\ r.ep = task[t].ep
      /\ r.doomed = task[t].doomed /\ r.want = w
  BY Zenon, <1>1 DEF TaskStates, Stages, Working
<1>3. task' = [task EXCEPT ![t] = r] BY Zenon DEF Outcome
<1>4. task[t].pc # "set" BY DEF Working
<1>5. "record" \in Stages \ {"idle", "reserve"} /\ "record" \in Working BY DEF Stages, Working
<1> HIDE DEF r
<1> QED BY Zenon, <1>1, <1>2, <1>3, <1>4, <1>5, GoesOn

(* A task at work is about an effect. *)
LEMMA AboutAnEffect ==
    ASSUME Shape, NEW t \in Tasks, task[t].pc \in Working \cup {"reserve", "reject", "stale", "dispatch"}
    PROVE  task[t].ev \in Effects /\ task[t].pc \notin {"set", "idle"}
BY DEF Shape, Sound, Working

(* A handler leaves because there is no endpoint. *)
LEMMA NoEndpointStep == ASSUME IInv, NEW t \in Tasks, NoEndpoint(t) PROVE IInv'
<1>1. Shape /\ task[t].pc = "dispatch" /\ Done(t) BY DEF IInv, NoEndpoint, At
<1>2. Quiet(t) /\ (Fields' => Shape') /\ inflight' \subseteq inflight BY <1>1, EndIsQuiet
<1>3. Fields' BY <1>1, <1>2 DEF Shape, TypeOK, Fields, NoEndpoint, conversation, history
<1>4. Calm(t) BY <1>1, <1>2, NoEffectChanged, SameReceipts DEF Calm, NoEndpoint, conversation, history
<1> QED BY <1>2, <1>3, <1>4, CalmIInv

(* A task passes its fence, or leaves. *)
LEMMA EnsureStep == ASSUME IInv, NEW t \in Tasks, Ensure(t) PROVE IInv'
<1>1. Shape /\ task[t].pc \in {"claimed", "confirm"} BY DEF IInv, Ensure
<1>2. task[t].ev \in Effects /\ task[t].pc \notin {"set", "idle"} /\ task[t].pc \in Working
  BY <1>1, AboutAnEffect DEF Working
<1>3. Quiet(t) /\ (Fields' => Shape') /\ inflight' \subseteq inflight
  <2>1. CASE Done(t) BY <2>1, <1>1, <1>2, EndIsQuiet
  <2>2. ASSUME NEW s \in {"sending", "ready"}, Go(t, s), UNCHANGED inflight
        PROVE  Quiet(t) /\ (Fields' => Shape') /\ inflight' \subseteq inflight
    <3>1. s \in Stages \ {"idle", "reserve", "record"} BY DEF Stages, Working
    <3> QED BY <2>2, <3>1, <1>1, <1>2, GoIs
  <2> QED BY <2>1, <2>2 DEF Ensure
<1>4. /\ journal' \in [Effects -> Records \cup {Absent}] /\ \A x \in Effects : Onward(x)
      /\ timer' \in {timer, "set"}
  <2>1. CASE Holds(t)
    <3>1. IsOpen(task[t].ev) BY <2>1 DEF Holds, Fenced, IsOpen
    <3>2. Renew(task[t].ev) /\ timer' = "set" BY <2>1 DEF Ensure, Reschedule
    <3> QED BY <3>1, <3>2, <1>1, <1>2, RenewIs
  <2>2. CASE ~Holds(t)
    <3>1. journal' = journal /\ timer' = timer BY <2>2 DEF Ensure
    <3> QED BY <3>1, <1>1, NoEffectChanged DEF Shape, TypeOK
  <2> QED BY <2>1, <2>2
<1>5. Fields' BY <1>1, <1>3, <1>4 DEF Shape, TypeOK, Fields, Ensure, conversation, history
<1>6. Calm(t) BY <1>1, <1>3, <1>4, SameReceipts DEF Calm, Ensure, conversation, history
<1> QED BY <1>3, <1>5, <1>6, CalmIInv

(* A holder renews its claim. *)
LEMMA RenewTickStep == ASSUME IInv, NEW t \in Tasks, RenewTick(t) PROVE IInv'
<1>1. Shape /\ task[t].pc \in Working BY DEF IInv, RenewTick, Working
<1>2. task[t].ev \in Effects BY <1>1, AboutAnEffect
<1>3. IsOpen(task[t].ev) /\ Renew(task[t].ev) /\ timer' = "set" /\ task' = task
  BY DEF RenewTick, Holds, Fenced, IsOpen, Reschedule
<1>4. journal' \in [Effects -> Records \cup {Absent}] /\ \A x \in Effects : Onward(x)
  BY <1>1, <1>2, <1>3, RenewIs
<1>5. Quiet(t) BY <1>3 DEF Quiet, Claimless, Alone, Covers
<1>6. Shape' BY <1>1, <1>3, <1>4 DEF Shape, TypeOK, RenewTick, conversation, history
<1>7. Calm(t) BY <1>3, <1>4, <1>5, SameReceipts DEF Calm, RenewTick, conversation, history
<1> QED BY <1>6, <1>7, CalmIInv

(* The checks before a sending. *)
LEMMA CheckStep == ASSUME IInv, NEW t \in Tasks, Check(t) PROVE IInv'
<1>1. Shape /\ task[t].pc \in {"claimed", "ready"} BY DEF IInv, Check
<1>2. task[t].ev \in Effects /\ task[t].pc \notin {"set", "idle"} /\ task[t].pc \in Working
  BY <1>1, AboutAnEffect DEF Working
<1>3. Quiet(t) /\ (Fields' => Shape')
  <2>1. ASSUME NEW w \in {"accepted", "uncertain", "terminal"}, Outcome(t, w) PROVE Quiet(t) /\ (Fields' => Shape')
    BY <2>1, <1>1, <1>2, OutcomeIs
  <2>2. ASSUME NEW s \in {"sending", "confirm"}, Go(t, s) PROVE Quiet(t) /\ (Fields' => Shape')
    <3>1. s \in Stages \ {"idle", "reserve", "record"} BY DEF Stages, Working
    <3> QED BY <2>2, <3>1, <1>1, <1>2, GoIs
  <2> QED BY <2>1, <2>2 DEF Check
<1>4. Fields' BY <1>1 DEF Shape, TypeOK, Fields, Check, conversation, history
<1>5. Calm(t) BY <1>1, <1>3, NoEffectChanged, SameReceipts DEF Calm, Check, conversation, history
<1> QED BY <1>3, <1>4, <1>5, CalmIInv

(* A sending, which succeeds or fails. *)
LEMMA SendStep == ASSUME IInv, NEW t \in Tasks, Send(t) PROVE IInv'
<1>1. Shape /\ task[t].pc = "sending" BY DEF IInv, Send, At
<1>2. task[t].ev \in Effects /\ task[t].pc \in Working BY <1>1, AboutAnEffect DEF Working
<1>3. Quiet(t) /\ (Fields' => Shape')
  <2>1. ASSUME NEW w \in {"accepted", "uncertain", "terminal"}, Outcome(t, w) PROVE Quiet(t) /\ (Fields' => Shape')
    BY <2>1, <1>1, <1>2, OutcomeIs
  <2> QED BY <2>1 DEF Send
<1>4. sent' \in [Effects -> Nat] /\ faults' \in Nat BY <1>1, <1>2 DEF Send, Fault, Shape, TypeOK
<1>5. Fields' BY <1>1, <1>4 DEF Shape, TypeOK, Fields, Send, conversation
<1>6. Calm(t) BY <1>1, <1>3, NoEffectChanged, SameReceipts DEF Calm, Send, conversation
<1> QED BY <1>3, <1>5, <1>6, CalmIInv

(* An outcome is recorded behind the fence. *)
LEMMA RecordOutcomeStep == ASSUME IInv, NEW t \in Tasks, RecordOutcome(t) PROVE IInv'
<1> DEFINE e == task[t].ev
<1>1. Shape /\ task[t].pc = "record" BY DEF IInv, RecordOutcome, At
<1>2. /\ e \in Effects /\ task[t].pc \in Working /\ task[t].pc # "set"
      /\ task[t].want \in {"accepted", "uncertain", "terminal"}
  BY <1>1, AboutAnEffect DEF Working, Shape, Sound
<1>3. Quiet(t) /\ (Fields' => Shape') /\ inflight' \subseteq inflight
  <2>1. CASE Done(t) BY <2>1, <1>1, <1>2, EndIsQuiet
  <2>2. CASE Go(t, "prune") /\ UNCHANGED inflight
    <3>1. "prune" \in Stages \ {"idle", "reserve", "record"} /\ "prune" \notin Working BY DEF Stages, Working
    <3> QED BY <2>2, <3>1, <1>1, <1>2, GoIs
  <2> QED BY <2>1, <2>2 DEF RecordOutcome
<1>4. /\ journal' \in [Effects -> Records \cup {Absent}] /\ \A x \in Effects : Onward(x)
      /\ timer' \in {timer, "set"}
  <2>1. CASE Holds(t)
    <3>1. IsOpen(e) BY <2>1 DEF Holds, Fenced, IsOpen
    <3>2. \/ Renew(e) /\ timer' = "set"
          \/ Record(e, task[t].want) /\ timer' = "set"
          \/ Record(e, "terminal") /\ timer' = timer
      BY <2>1 DEF RecordOutcome, Reschedule
    <3> QED BY <3>1, <3>2, <1>1, <1>2, RenewIs, RecordIs
  <2>2. CASE ~Holds(t)
    <3>1. journal' = journal /\ timer' = timer BY <2>2 DEF RecordOutcome
    <3> QED BY <3>1, <1>1, NoEffectChanged DEF Shape, TypeOK
  <2> QED BY <2>1, <2>2
<1>5. Fields' BY <1>1, <1>3, <1>4 DEF Shape, TypeOK, Fields, RecordOutcome, conversation, history
<1>6. Calm(t) BY Zenon, <1>1, <1>3, <1>4, SameReceipts DEF Calm, RecordOutcome, conversation, history
<1> QED BY <1>3, <1>5, <1>6, CalmIInv

(* A rejected or stale effect is ended without a claim. *)
LEMMA TerminalizeStep == ASSUME IInv, NEW t \in Tasks, Terminalize(t) PROVE IInv'
<1> DEFINE e == task[t].ev
           w == IF At(t, "reject") THEN "rejected" ELSE "terminal"
           r(s) == [task[t] EXCEPT !.pc = s, !.want = w]
<1>1. Shape /\ task[t].pc \in {"reject", "stale"} BY DEF IInv, Terminalize
<1>2. e \in Effects /\ task[t].pc # "set" /\ task[t] \in TaskStates BY <1>1, AboutAnEffect DEF Shape, TypeOK
<1>3. Quiet(t) /\ (Fields' => Shape') /\ inflight' \subseteq inflight
  <2>1. CASE Quit(t) BY <2>1, <1>1, <1>2, EndIsQuiet
  <2>2. ASSUME NEW s \in {"finish", "prune"}, task' = [task EXCEPT ![t].pc = s, ![t].want = w], UNCHANGED inflight
        PROVE  Quiet(t) /\ (Fields' => Shape') /\ inflight' \subseteq inflight
    <3>1. s \in Stages \ {"idle", "reserve"} /\ s \notin Working /\ s # "record" BY DEF Stages, Working
    <3>2. /\ r(s) \in TaskStates /\ r(s).pc = s /\ r(s).kind = task[t].kind /\ r(s).ev = task[t].ev
          /\ r(s).ep = task[t].ep /\ r(s).doomed = task[t].doomed
      BY Zenon, <3>1, <1>2 DEF TaskStates
    <3>3. task' = [task EXCEPT ![t] = r(s)] BY Zenon, <2>2
    <3> HIDE DEF r
    <3> QED BY Zenon, <2>2, <3>1, <3>2, <3>3, <1>1, <1>2, GoesOn
  <2> QED BY <2>1, <2>2 DEF Terminalize
<1>4. journal' \in [Effects -> Records \cup {Absent}] /\ \A x \in Effects : Onward(x)
  <2>1. \/ journal' = journal
        \/ IsOpen(e) /\ journal[e].state = "lapsed" /\ Abandon(e)
        \/ IsOpen(e) /\ Record(e, "terminal")
    BY DEF Terminalize
  <2> QED BY <2>1, <1>1, <1>2, NoEffectChanged, AbandonIs, RecordIs DEF Shape, TypeOK
<1>5. Fields' BY <1>1, <1>3, <1>4 DEF Shape, TypeOK, Fields, Terminalize, conversation, history
<1>6. Calm(t) BY <1>1, <1>3, <1>4, SameReceipts DEF Calm, Terminalize, conversation, history
<1> QED BY <1>3, <1>5, <1>6, CalmIInv

(* The receipt of a terminal effect goes. *)
LEMMA FinishStep == ASSUME IInv, NEW t \in Tasks, Finish(t) PROVE IInv'
<1>1. Shape /\ task[t].pc = "finish" /\ (Done(t) \/ Quit(t)) BY DEF IInv, Finish, At
<1>2. Quiet(t) /\ (Fields' => Shape') /\ inflight' \subseteq inflight BY <1>1, EndIsQuiet
<1>3. /\ Receding
      /\ receipts' \subseteq Inbound /\ seen' \subseteq Inbound /\ raced' \subseteq Inbound
  <2>1. UNCHANGED <<receipts, seen, raced>> \/ Complete({task[t].ev}) BY DEF Finish
  <2> QED BY Zenon, <1>1, <2>1, CompleteIs
<1>4. Fields' BY <1>1, <1>2, <1>3 DEF Shape, TypeOK, Fields, Finish, history
<1>5. Calm(t) BY <1>1, <1>2, <1>3, NoEffectChanged DEF Calm, Finish, history
<1> QED BY <1>2, <1>4, <1>5, CalmIInv

(* A recovery passes an effect or takes it up. *)
LEMMA SweepIs ==
    ASSUME Shape, NEW t \in Tasks, task[t].pc = "sweep", NEW e \in Effects,
           \/ Pass(t, e)
           \/ task' = [task EXCEPT ![t].todo = @ \ {e}, ![t].kind = "failing"]
           \/ \E s \in {"reject", "stale", "dispatch"} : TakeUp(t, e, s)
    PROVE  Quiet(t) /\ (Fields' => Shape')
<1>1. task[t] \in TaskStates BY DEF Shape, TypeOK
<1>2. ASSUME NEW r \in TaskStates, task' = [task EXCEPT ![t] = r], r.pc \in {"sweep", "reject", "stale", "dispatch"},
             r.kind \in {task[t].kind, "failing"}, r.ev \in {task[t].ev, e}, r.pc # "sweep" => r.ev = e,
             r.doomed = task[t].doomed
      PROVE  Quiet(t) /\ (Fields' => Shape')
  <2>1. Sound(r) BY <1>2 DEF Sound, Working
  <2>2. Alone(t) /\ task'[t] = r /\ (Fields' => Shape') BY Zenon, <1>2, <2>1, OneTask
  <2> QED BY <1>2, <2>2 DEF Quiet, Claimless, Covers, Working
<1>3. CASE Pass(t, e)
  <2> DEFINE r == [task[t] EXCEPT !.todo = @ \ {e}]
  <2>1. r \in TaskStates /\ r.pc = "sweep" /\ r.kind = task[t].kind /\ r.ev = task[t].ev /\ r.doomed = task[t].doomed
    BY <1>1 DEF TaskStates
  <2>2. task' = [task EXCEPT ![t] = r] BY <1>3 DEF Pass
  <2> HIDE DEF r
  <2> QED BY Zenon, <2>1, <2>2, <1>2
<1>4. CASE task' = [task EXCEPT ![t].todo = @ \ {e}, ![t].kind = "failing"]
  <2> DEFINE r == [task[t] EXCEPT !.todo = @ \ {e}, !.kind = "failing"]
  <2>1. r \in TaskStates /\ r.pc = "sweep" /\ r.kind = "failing" /\ r.ev = task[t].ev /\ r.doomed = task[t].doomed
    BY Zenon, <1>1 DEF TaskStates
  <2>2. task' = [task EXCEPT ![t] = r] BY Zenon, <1>4
  <2> HIDE DEF r
  <2> QED BY Zenon, <2>1, <2>2, <1>2
<1>5. ASSUME NEW s \in {"reject", "stale", "dispatch"}, TakeUp(t, e, s) PROVE Quiet(t) /\ (Fields' => Shape')
  <2> DEFINE r == [task[t] EXCEPT !.todo = @ \ {e}, !.ev = e, !.pc = s]
  <2>1. r \in TaskStates /\ r.pc = s /\ r.kind = task[t].kind /\ r.ev = e /\ r.doomed = task[t].doomed
    BY Zenon, <1>1 DEF TaskStates, Stages
  <2>2. task' = [task EXCEPT ![t] = r] BY Zenon, <1>5 DEF TakeUp
  <2> HIDE DEF r
  <2> QED BY Zenon, <2>1, <2>2, <1>2
<1> QED BY <1>3, <1>4, <1>5

(* A recovery looks at a message. *)
LEMMA SweepOutboundStep == ASSUME IInv, NEW t \in Tasks, NEW e \in Effects, SweepOutbound(t, e) PROVE IInv'
<1>1. Shape /\ task[t].pc = "sweep" BY DEF IInv, SweepOutbound, At
<1>2. Pass(t, e) \/ \E s \in {"reject", "stale", "dispatch"} : TakeUp(t, e, s) BY DEF SweepOutbound
<1>3. Quiet(t) /\ (Fields' => Shape') BY Zenon, <1>1, <1>2, SweepIs
<1>4. Fields' BY <1>1 DEF Shape, TypeOK, Fields, SweepOutbound, conversation, history
<1>5. Calm(t) BY Zenon, <1>1, <1>3, NoEffectChanged, SameReceipts DEF Calm, SweepOutbound, conversation, history
<1> QED BY <1>3, <1>4, <1>5, CalmIInv

(* A recovery looks at a command with a receipt. *)
LEMMA SweepReceiptStep == ASSUME IInv, NEW t \in Tasks, NEW e \in Effects, SweepReceipt(t, e) PROVE IInv'
<1>1. Shape /\ task[t].pc = "sweep" BY DEF IInv, SweepReceipt, At
<1>2. \/ Pass(t, e)
      \/ task' = [task EXCEPT ![t].todo = @ \ {e}, ![t].kind = "failing"]
      \/ \E s \in {"reject", "stale", "dispatch"} : TakeUp(t, e, s)
  BY DEF SweepReceipt
<1>3. Quiet(t) /\ (Fields' => Shape') BY <1>1, <1>2, SweepIs
<1>4. /\ Receding
      /\ receipts' \subseteq Inbound /\ seen' \subseteq Inbound /\ raced' \subseteq Inbound
  <2>1. UNCHANGED <<receipts, seen, raced>> \/ Complete({e}) BY DEF SweepReceipt
  <2> QED BY Zenon, <1>1, <2>1, CompleteIs
<1>5. Fields' BY <1>1, <1>4 DEF Shape, TypeOK, Fields, SweepReceipt, history
<1>6. Calm(t) BY <1>1, <1>3, <1>4, NoEffectChanged DEF Calm, SweepReceipt, history
<1> QED BY <1>3, <1>5, <1>6, CalmIInv

-----------------------------------------------------------------------------
(* Steps of no task: a claim runs out, the binding changes. *)
LEMMA StillIInv ==
    ASSUME IInv, Fields', task' = task, \A e \in Effects : Onward(e), life' = life, raced' = raced,
           receipts' = receipts, timer' = timer
    PROVE  IInv'
<1>1. Shape'
  <2>1. TypeOK' BY DEF IInv, Shape, TypeOK, Fields
  <2>2. \A t \in Tasks : Sound(task'[t]) BY DEF IInv, Shape
  <2> QED BY <2>1, <2>2 DEF Shape
<1>2. \A u \in Tasks : Claimless(u) BY DEF Claimless
<1>3. Fence' BY <1>1, <1>2, CalmFence
<1>4. \A e \in Effects : Doomed(e)' => Doomed(e) BY DEF Doomed
<1>5. Kept' BY <1>4, CalmKept, SameReceipts DEF Onward
<1>6. Over' BY <1>1, CalmOver
<1>7. \A u \in Tasks : Covers(u) => Covers(u)' BY DEF Covers
<1>8. Watched' BY <1>1, <1>7, CalmWatched
<1> QED BY <1>1, <1>3, <1>5, <1>6, <1>8 DEF IInv

(* The binding changes. *)
LEMMA MoveStep == ASSUME IInv, Move PROVE IInv'
<1>1. Shape BY DEF IInv
<1>2. Fields' BY <1>1 DEF Shape, TypeOK, Fields, Move, Fault
<1> QED BY <1>1, <1>2, NoEffectChanged, StillIInv DEF Move

(* A claim runs out. *)
LEMMA ExpireStep == ASSUME IInv, NEW e \in Effects, Expire(e) PROVE IInv'
<1> DEFINE r == [journal[e] EXCEPT !.state = "lapsed"]
<1>1. Shape /\ IsOpen(e) /\ journal[e].state = "leased" BY DEF IInv, Expire
<1>2. journal[e] \in Records BY <1>1 DEF Shape, TypeOK, IsOpen, Present
<1>3. r \in Records /\ r.epoch = journal[e].epoch /\ r.epoch \in Nat BY <1>2 DEF Records
<1>4. journal' = [journal EXCEPT ![e] = r] BY DEF Expire
<1>5. Recoverable(e) BY <1>1 DEF Recoverable
<1> HIDE DEF r
<1>6. r.epoch >= journal[e].epoch BY <1>3
<1>7. journal' \in [Effects -> Records \cup {Absent}] /\ \A x \in Effects : Onward(x)
  BY Zenon, <1>1, <1>3, <1>4, <1>5, <1>6, OneEffect
<1>8. faults' \in Nat BY <1>1 DEF Expire, Fault, Shape, TypeOK
<1>9. Fields' BY <1>1, <1>7, <1>8 DEF Shape, TypeOK, Fields, Expire, conversation
<1> QED BY <1>7, <1>9, StillIInv DEF Expire, conversation

(* A task that is quiet while receipts are taken. *)
LEMMA QuietIInv ==
    ASSUME IInv, Shape', Kept', NEW t \in Tasks, Quiet(t), \A e \in Effects : Onward(e), life' = life,
           timer' \in {timer, "set"}
    PROVE  IInv'
<1>1. \A u \in Tasks : Claimless(u) BY DEF Quiet, Alone, Claimless
<1>2. \A u \in Tasks : task'[u].doomed \subseteq task[u].doomed /\ (Covers(u) => Covers(u)')
  BY DEF Quiet, Alone, Covers
<1>3. Fence' BY <1>1, CalmFence
<1>4. Over' BY <1>2, CalmOver
<1>5. Watched' BY <1>2, CalmWatched
<1> QED BY <1>3, <1>4, <1>5 DEF IInv

(* A receipt is taken of an effect that is there and listed by nobody, or it is marked. *)
LEMMA TakeReceiptIs ==
    ASSUME IInv, NEW e \in Inbound, TakeReceipt(e), \A x \in Effects : Present(x) => Present(x)',
           NEW t \in Tasks, Quiet(t)
    PROVE  Kept' /\ receipts' \subseteq Inbound /\ raced' \subseteq Inbound
<1>1. \A u \in Tasks : task'[u].doomed \subseteq task[u].doomed BY DEF Quiet, Alone
<1>2. \A x \in Effects : Doomed(x)' => Doomed(x) BY <1>1 DEF Doomed
<1>3. receipts' \subseteq Inbound /\ raced' \subseteq Inbound BY DEF TakeReceipt, IInv, Shape, TypeOK
<1>4. \A x \in receipts' \ raced' : Present(x) /\ ~Doomed(x) BY DEF TakeReceipt, IInv, Kept
<1> QED BY <1>2, <1>3, <1>4 DEF Kept, Effects

(* The reservation of an inbound effect. *)
LEMMA ReserveStep == ASSUME IInv, NEW t \in Tasks, Reserve(t) PROVE IInv'
<1> DEFINE e == task[t].ev
<1>1. Shape /\ task[t].pc = "reserve" BY DEF IInv, Reserve, At
<1>2. e \in Inbound /\ e \in Effects /\ task[t].kind = "handler" BY <1>1 DEF Shape, Sound, Effects
<1>3. CASE binding = "no_record"
  <2>1. Go(t, "reject") /\ receipts' = receipts /\ raced' = raced /\ inflight' = inflight BY <1>3 DEF Reserve
  <2>2. "reject" \in Stages \ {"idle", "reserve", "record"} /\ "reject" \notin Working BY DEF Stages, Working
  <2>3. Quiet(t) /\ (Fields' => Shape') BY <2>1, <2>2, <1>1, <1>2, GoIs
  <2>4. Fields' BY <1>1, <2>1 DEF Shape, TypeOK, Fields, Reserve
  <2>5. Calm(t) BY <1>1, <2>1, <2>3, NoEffectChanged, SameReceipts DEF Calm, Reserve
  <2> QED BY <2>3, <2>4, <2>5, CalmIInv
<1>4. CASE binding # "no_record"
  <2> DEFINE r == IF e \in inflight THEN Idle ELSE [task[t] EXCEPT !.pc = "dispatch"]
  <2>1. task' = [task EXCEPT ![t] = r] /\ TakeReceipt(e) /\ inflight' = inflight \cup {e} BY <1>4 DEF Reserve
  <2>2. Sound(r) /\ r.pc \in {"idle", "dispatch"} /\ r.doomed \subseteq task[t].doomed
    <3>1. CASE e \in inflight BY <3>1, IdleIs
    <3>2. CASE e \notin inflight
      <4>1. r = [task[t] EXCEPT !.pc = "dispatch"] BY <3>2
      <4>2. r \in TaskStates /\ r.pc = "dispatch" /\ r.ev = e /\ r.doomed = task[t].doomed
        BY <1>1, <4>1 DEF Shape, TypeOK, TaskStates, Stages
      <4> HIDE DEF r
      <4> QED BY <4>2, <1>2 DEF Sound, Working
    <3> QED BY <3>1, <3>2
  <2> HIDE DEF r
  <2>3. Alone(t) /\ task'[t] = r /\ (Fields' => Shape') BY Zenon, <1>1, <2>1, <2>2, OneTask
  <2>4. Quiet(t) BY <1>1, <1>2, <2>2, <2>3 DEF Quiet, Claimless, Covers, Working
  <2>5. \A x \in Effects : Onward(x) BY <1>1, NoEffectChanged DEF Reserve
  <2>6. Kept' /\ receipts' \subseteq Inbound /\ raced' \subseteq Inbound
    BY <1>2, <2>1, <2>4, <2>5, TakeReceiptIs DEF Onward
  <2>7. Fields' BY <1>1, <1>2, <2>1, <2>6 DEF Shape, TypeOK, Fields, Reserve
  <2> QED BY <2>3, <2>4, <2>5, <2>6, <2>7, QuietIInv DEF Reserve
<1> QED BY <1>3, <1>4

(* The adoption of an effect without a receipt. *)
LEMMA SweepOrphanStep == ASSUME IInv, NEW t \in Tasks, NEW e \in Effects, SweepOrphan(t, e) PROVE IInv'
<1>1. Shape /\ task[t].pc = "sweep" /\ e \in Inbound BY DEF IInv, SweepOrphan, At, Effects
<1>2. Pass(t, e) \/ \E s \in {"reject", "stale", "dispatch"} : TakeUp(t, e, s) BY DEF SweepOrphan
<1>3. Quiet(t) /\ (Fields' => Shape') BY Zenon, <1>1, <1>2, SweepIs
<1>4. \A x \in Effects : Onward(x) BY <1>1, NoEffectChanged DEF SweepOrphan
<1>5. CASE TakeReceipt(e)
  <2>1. Kept' /\ receipts' \subseteq Inbound /\ raced' \subseteq Inbound
    BY <1>1, <1>3, <1>4, <1>5, TakeReceiptIs DEF Onward
  <2>2. Fields' BY <1>1, <2>1 DEF Shape, TypeOK, Fields, SweepOrphan
  <2> QED BY <1>3, <1>4, <2>1, <2>2, QuietIInv DEF SweepOrphan
<1>6. CASE receipts' = receipts /\ raced' = raced
  <2>1. Fields' BY Zenon, <1>1, <1>6 DEF Shape, TypeOK, Fields, SweepOrphan
  <2>2. Calm(t) BY Zenon, <1>1, <1>3, <1>4, <1>6, SameReceipts DEF Calm, SweepOrphan
  <2> QED BY <1>3, <2>1, <2>2, CalmIInv
<1> QED BY <1>5, <1>6 DEF SweepOrphan

-----------------------------------------------------------------------------
(* An effect is created, in a life that nobody works on yet. *)
LEMMA CreateIs ==
    ASSUME Shape, NEW e \in Effects, NEW state \in {"pending", "leased"}, NEW owner \in Nat, NEW epoch \in Nat,
           Create(e, state, owner, epoch)
    PROVE  /\ journal' \in [Effects -> Records \cup {Absent}] /\ life' \in [Effects -> Nat]
           /\ journal'[e] \in Records /\ journal'[e].epoch = epoch /\ life'[e] = life[e] + 1
           /\ \A x \in Effects \ {e} : journal'[x] = journal[x] /\ life'[x] = life[x]
<1> DEFINE r == [state |-> state, owner |-> owner, epoch |-> epoch]
<1>1. r \in Records /\ r.epoch = epoch BY DEF Records
<1>2. journal' = [journal EXCEPT ![e] = r] /\ life' = [life EXCEPT ![e] = life[e] + 1] BY DEF Create
<1> HIDE DEF r
<1>3. journal \in [Effects -> Records \cup {Absent}] /\ life \in [Effects -> Nat] BY DEF Shape, TypeOK
<1> QED BY <1>1, <1>2, <1>3

(* A life that follows another is not the first, nor one that was listed. *)
LEMMA Later == ASSUME NEW n \in Nat
               PROVE  /\ n >= 1 => n + 1 # 1
                      /\ \A m \in Nat : m <= n => m <= n + 1 /\ m # n + 1
OBVIOUS

(* Creation keeps the invariant. *)
LEMMA CreateIInv ==
    ASSUME IInv, Shape', NEW t \in Tasks, NEW e \in Effects, ~Present(e), task[t].pc = "idle", Alone(t),
           journal'[e] \in Records, life'[e] = life[e] + 1, NEW epoch \in Nat, journal'[e].epoch = epoch,
           \A x \in Effects \ {e} : journal'[x] = journal[x] /\ life'[x] = life[x],
           task'[t].doomed = {}, task'[t].pc \in Working => task'[t].ev = e /\ task'[t].ep = epoch,
           Receding, timer' = "set"
    PROVE  IInv'
<1>1. Shape /\ Fence /\ Kept /\ Over BY DEF IInv
<1>2. \A x \in Effects \ {e} : journal'[x] = journal[x] /\ life'[x] = life[x] OBVIOUS
<1>3. life \in [Effects -> Nat] /\ life' \in [Effects -> Nat] BY Zenon, <1>1 DEF Shape, TypeOK
<1>4. life[e] \in Nat /\ life'[e] = life[e] + 1 /\ journal'[e].epoch = epoch BY Zenon, <1>2, <1>3
<1>5. \A x \in Effects : Present(x) => Present(x)' BY Zenon, <1>2, AbsentAssumption DEF Present
<1>6. \A u \in Tasks : u # t => task'[u] = task[u] BY Zenon DEF Alone
<1>7. \A u \in Tasks : task'[u].pc \in Working => task'[u].ev \in Effects BY Zenon DEF Shape, Sound
<1>8. \A u \in Tasks : u # t /\ task'[u].pc \in Working /\ task'[u].ev = e => life'[e] # 1
  <2> SUFFICES ASSUME NEW u \in Tasks, u # t, task'[u].pc \in Working, task'[u].ev = e PROVE life'[e] # 1
    BY Zenon
  <2>1. task[u].pc \in Working /\ task[u].ev = e BY Zenon, <1>6
  <2>2. life[e] >= 1 BY Zenon, <1>1, <2>1 DEF Fence
  <2> QED BY Zenon, <2>2, <1>4, Later
<1>9. Fence'
  <2>1. (\A x \in Effects : Present(x) => life[x] >= 1)'
    <3> SUFFICES ASSUME NEW x \in Effects, journal'[x] # Absent PROVE life'[x] >= 1 BY Zenon DEF Present
    <3>1. CASE x = e BY <3>1, <1>4
    <3>2. CASE x # e BY Zenon, <3>2, <1>1, <1>2 DEF Fence, Present
    <3> QED BY Zenon, <3>1, <3>2
  <2>2. ASSUME NEW u \in Tasks, task'[u].pc \in Working
        PROVE  /\ life'[task'[u].ev] >= 1
               /\ life'[task'[u].ev] = 1 /\ journal'[task'[u].ev] # Absent => task'[u].ep <= journal'[task'[u].ev].epoch
    <3>1. CASE task'[u].ev = e
      <4>1. life'[e] >= 1 BY <1>4
      <4>2. u # t => life'[e] # 1 BY <1>8, <2>2, <3>1
      <4>3. u = t => task'[u].ep = epoch BY <2>2
      <4> QED BY <3>1, <4>1, <4>2, <4>3, <1>4
    <3>2. CASE task'[u].ev # e
      <4>1. u # t BY Zenon, <2>2, <3>2
      <4>2. task'[u] = task[u] /\ task[u].ev \in Effects \ {e} BY <4>1, <2>2, <3>2, <1>6, <1>7
      <4>3. journal'[task[u].ev] = journal[task[u].ev] /\ life'[task[u].ev] = life[task[u].ev] BY <4>2, <1>2
      <4> QED BY Zenon, <4>2, <4>3, <2>2, <1>1 DEF Fence, Present
    <3> QED BY Zenon, <3>1, <3>2
  <2>3. ASSUME NEW v \in Tasks, NEW u \in Tasks, task'[v].pc \in Working, task'[u].pc \in Working,
               task'[v].ev = task'[u].ev, life'[task'[v].ev] = 1, journal'[task'[v].ev] # Absent,
               task'[v].ep = journal'[task'[v].ev].epoch, task'[u].ep = journal'[task'[v].ev].epoch
        PROVE  v = u
    <3>1. CASE task'[v].ev = e BY Zenon, <3>1, <2>3, <1>8
    <3>2. CASE task'[v].ev # e
      <4>1. v # t /\ u # t BY Zenon, <2>3, <3>2
      <4>2. task'[v] = task[v] /\ task'[u] = task[u] /\ task[v].ev \in Effects \ {e} BY <4>1, <2>3, <3>2, <1>6, <1>7
      <4>3. journal'[task[v].ev] = journal[task[v].ev] /\ life'[task[v].ev] = life[task[v].ev] BY Zenon, <4>2, <1>2
      <4>4. /\ task[v].pc \in Working /\ task[u].pc \in Working /\ task[v].ev = task[u].ev
            /\ life[task[v].ev] = 1 /\ Present(task[v].ev)
            /\ task[v].ep = journal[task[v].ev].epoch /\ task[u].ep = journal[task[v].ev].epoch
        BY <4>2, <4>3, <2>3 DEF Present
      <4> QED BY Zenon, <4>4, <1>1 DEF Fence
    <3> QED BY <3>1, <3>2
  <2> QED BY Zenon, <2>1, <2>2, <2>3 DEF Fence, Present
<1>10. \A u \in Tasks : task'[u].doomed \subseteq task[u].doomed BY <1>6
<1>11. \A x \in Effects : Doomed(x)' => Doomed(x) BY <1>10 DEF Doomed
<1>12. Kept' BY <1>5, <1>11, CalmKept
<1>13. Over'
  <2> SUFFICES ASSUME NEW u \in Tasks, NEW d \in task[u].doomed
               PROVE  /\ d[1] \in Effects /\ d[2] <= life'[d[1]]
                      /\ d[2] = life'[d[1]] /\ journal'[d[1]] # Absent => journal'[d[1]].state = "terminal"
    BY Zenon, <1>10 DEF Over, Present
  <2>1. /\ d[1] \in Effects /\ d[2] <= life[d[1]]
        /\ d[2] = life[d[1]] /\ Present(d[1]) => journal[d[1]].state = "terminal"
    BY Zenon, <1>1 DEF Over
  <2>2. d[2] \in Nat BY <1>1 DEF Shape, TypeOK, TaskStates
  <2>3. CASE d[1] = e
    <3>1. d[2] <= life[e] BY Zenon, <2>1, <2>3
    <3>2. d[2] <= life'[e] /\ d[2] # life'[e] BY Zenon, <3>1, <2>2, <1>4, Later
    <3> QED BY Zenon, <2>3, <3>2
  <2>4. CASE d[1] # e BY Zenon, <2>1, <2>4, <1>2 DEF Present
  <2> QED BY <2>3, <2>4
<1>14. Watched' BY Zenon DEF Watched
<1> QED BY Zenon, <1>9, <1>12, <1>13, <1>14 DEF IInv

(* A command arrives. *)
LEMMA HandleInboundStep == ASSUME IInv, NEW t \in Tasks, NEW e \in Effects, HandleInbound(t, e) PROVE IInv'
<1> DEFINE r == [Idle EXCEPT !.pc = "reserve", !.kind = "handler", !.ev = e]
<1>1. Shape /\ task[t].pc = "idle" /\ e \in Inbound BY DEF IInv, HandleInbound, At
<1>2. task' = [task EXCEPT ![t] = r] BY DEF HandleInbound
<1>3. Sound(r) /\ r.pc = "reserve" /\ r.doomed = {} BY Zenon, <1>1 DEF Idle, Sound, TaskStates, Stages, Working
<1> HIDE DEF r
<1>4. Alone(t) /\ task'[t] = r /\ (Fields' => Shape') BY Zenon, <1>1, <1>2, <1>3, OneTask
<1>5. /\ Receding
      /\ receipts' \subseteq Inbound /\ seen' \subseteq Inbound /\ raced' \subseteq Inbound
      /\ delivered' \in Nat
  <2>1. Complete(Terminated) BY DEF HandleInbound
  <2>2. delivered' \in Nat BY <1>1 DEF HandleInbound, Shape, TypeOK
  <2> QED BY Zenon, <1>1, <2>1, <2>2, CompleteIs
<1>6. CASE Present(e)
  <2>1. journal' = journal /\ life' = life /\ timer' \in {timer, "set"} BY <1>6 DEF HandleInbound, Reschedule
  <2>2. Fields' BY <1>1, <1>5, <2>1 DEF Shape, TypeOK, Fields, HandleInbound
  <2>3. Quiet(t) BY Zenon, <1>1, <1>3, <1>4 DEF Quiet, Claimless, Covers, Working
  <2>4. Calm(t) BY <1>1, <1>5, <2>1, <2>3, NoEffectChanged DEF Calm, HandleInbound
  <2> QED BY <1>4, <2>2, <2>4, CalmIInv
<1>7. CASE ~Present(e)
  <2>1. Create(e, "pending", 0, 0) /\ timer' = "set" BY <1>7 DEF HandleInbound, IsTerminal, Reschedule
  <2>2. /\ journal' \in [Effects -> Records \cup {Absent}] /\ life' \in [Effects -> Nat]
        /\ journal'[e] \in Records /\ life'[e] = life[e] + 1 /\ journal'[e].epoch = 0
        /\ \A x \in Effects \ {e} : journal'[x] = journal[x] /\ life'[x] = life[x]
    BY <1>1, <2>1, CreateIs
  <2>3. Fields' BY <1>1, <1>5, <2>1, <2>2 DEF Shape, TypeOK, Fields, HandleInbound
  <2>4. "reserve" \notin Working BY DEF Working
  <2>5. 0 \in Nat OBVIOUS
  <2> QED BY Zenon, <1>1, <1>3, <1>4, <1>5, <1>7, <2>1, <2>2, <2>3, <2>4, <2>5, CreateIInv
<1> QED BY <1>6, <1>7

(* A message is to be posted. *)
LEMMA PostStep == ASSUME IInv, NEW t \in Tasks, NEW e \in Effects, Post(t, e) PROVE IInv'
<1> DEFINE r(stage, epoch) == [Idle EXCEPT !.pc = stage, !.kind = "post", !.ev = e, !.ep = epoch]
<1>1. Shape /\ task[t].pc = "idle" /\ delivered' \in Nat BY DEF IInv, Post, At, Shape, TypeOK
<1>2. CASE Present(e)
  <2>1. task' = [task EXCEPT ![t] = r("dispatch", 0)] /\ journal' = journal /\ life' = life /\ timer' = timer
    BY <1>2 DEF Post
  <2>2. /\ Sound(r("dispatch", 0)) /\ r("dispatch", 0).pc = "dispatch" /\ r("dispatch", 0).doomed = {}
    BY Zenon DEF Idle, Sound, TaskStates, Stages, Working
  <2> HIDE DEF r
  <2>3. Alone(t) /\ task'[t] = r("dispatch", 0) /\ (Fields' => Shape') BY Zenon, <1>1, <2>1, <2>2, OneTask
  <2>4. Fields' BY <1>1, <2>1 DEF Shape, TypeOK, Fields, Post, conversation
  <2>5. Quiet(t) BY Zenon, <1>1, <2>2, <2>3 DEF Quiet, Claimless, Covers, Working
  <2>6. Calm(t) BY <1>1, <2>1, <2>5, NoEffectChanged, SameReceipts DEF Calm, Post, conversation
  <2> QED BY <2>3, <2>4, <2>6, CalmIInv
<1>3. CASE ~Present(e)
  <2>1. task' = [task EXCEPT ![t] = r("claimed", 1)] /\ Create(e, "leased", inc, 1) /\ timer' = "set"
    BY <1>3 DEF Post, Reschedule
  <2>2. /\ Sound(r("claimed", 1)) /\ r("claimed", 1).doomed = {}
        /\ r("claimed", 1).ev = e /\ r("claimed", 1).ep = 1
    BY Zenon DEF Idle, Sound, TaskStates, Stages, Working
  <2> HIDE DEF r
  <2>3. Alone(t) /\ task'[t] = r("claimed", 1) /\ (Fields' => Shape') BY Zenon, <1>1, <2>1, <2>2, OneTask
  <2>4. inc \in Nat BY <1>1 DEF Shape, TypeOK
  <2>5. /\ journal' \in [Effects -> Records \cup {Absent}] /\ life' \in [Effects -> Nat]
        /\ journal'[e] \in Records /\ life'[e] = life[e] + 1 /\ journal'[e].epoch = 1
        /\ \A x \in Effects \ {e} : journal'[x] = journal[x] /\ life'[x] = life[x]
    BY <1>1, <2>1, <2>4, CreateIs
  <2>6. Fields' BY <1>1, <2>1, <2>5 DEF Shape, TypeOK, Fields, Post, conversation
  <2>7. Receding /\ 1 \in Nat BY SameReceipts DEF Post, conversation
  <2> QED BY Zenon, <1>1, <1>3, <2>1, <2>2, <2>3, <2>5, <2>6, <2>7, CreateIInv
<1> QED BY <1>2, <1>3

-----------------------------------------------------------------------------
(* A claim raises the epoch above those of everybody at work on the effect. *)
LEMMA ClaimFence ==
    ASSUME IInv, Shape', NEW t \in Tasks, NEW e \in Effects, CanClaim(e), Claim(e, inc), life' = life, Alone(t),
           task'[t].ev = e, task'[t].ep = journal[e].epoch + 1
    PROVE  Fence'
<1>1. Shape /\ Fence BY DEF IInv
<1>2. /\ journal'[e].epoch = journal[e].epoch + 1 /\ journal[e].epoch \in Nat
      /\ \A x \in Effects \ {e} : journal'[x] = journal[x]
  BY Zenon, <1>1, ClaimIs
<1>3. Present(e) /\ life[e] >= 1 BY Zenon, <1>1 DEF CanClaim, IsOpen, Fence
<1>4. \A u \in Tasks : u # t => task'[u] = task[u] BY DEF Alone
<1>5. \A u \in Tasks : task'[u].pc \in Working => task'[u].ev \in Effects /\ task'[u].ep \in Nat
  BY DEF Shape, TypeOK, TaskStates, Sound
<1>6. ASSUME NEW u \in Tasks, u # t, task'[u].pc \in Working, task'[u].ev = e, life[e] = 1
      PROVE  task'[u].ep <= journal[e].epoch
  BY Zenon, <1>6, <1>1, <1>3, <1>4 DEF Fence
<1>7. \A x \in Effects : Present(x)' => Present(x) BY <1>2, <1>3 DEF Present
<1>8. (\A x \in Effects : Present(x) => life[x] >= 1)' BY <1>1, <1>7 DEF Fence
<1>9. ASSUME NEW u \in Tasks, task'[u].pc \in Working
      PROVE  /\ life'[task'[u].ev] >= 1
             /\ life'[task'[u].ev] = 1 /\ journal'[task'[u].ev] # Absent => task'[u].ep <= journal'[task'[u].ev].epoch
  <2>1. CASE task'[u].ev = e
    <3>1. u # t => (life[e] = 1 => task'[u].ep <= journal[e].epoch) BY <1>6, <1>9, <2>1
    <3>2. u = t => task'[u].ep = journal[e].epoch + 1 OBVIOUS
    <3>3. task'[u].ep \in Nat BY <1>5, <1>9
    <3> QED BY <2>1, <3>1, <3>2, <3>3, <1>2, <1>3
  <2>2. CASE task'[u].ev # e
    <3>1. u # t /\ task'[u] = task[u] /\ task[u].ev \in Effects \ {e} BY <2>2, <1>4, <1>5, <1>9
    <3>2. journal'[task[u].ev] = journal[task[u].ev] BY <3>1, <1>2
    <3> QED BY <3>1, <3>2, <1>9, <1>1 DEF Fence, Present
  <2> QED BY <2>1, <2>2
<1>10. ASSUME NEW v \in Tasks, NEW u \in Tasks, task'[v].pc \in Working, task'[u].pc \in Working,
              task'[v].ev = task'[u].ev, life'[task'[v].ev] = 1, journal'[task'[v].ev] # Absent,
              task'[v].ep = journal'[task'[v].ev].epoch, task'[u].ep = journal'[task'[v].ev].epoch
       PROVE  v = u
  <2>1. CASE task'[v].ev = e
    <3>1. v # t => task'[v].ep <= journal[e].epoch BY <1>6, <1>10, <2>1
    <3>2. u # t => task'[u].ep <= journal[e].epoch BY Zenon, <1>6, <1>10, <2>1
    <3> QED BY <3>1, <3>2, <2>1, <1>2, <1>10
  <2>2. CASE task'[v].ev # e
    <3>1. v # t /\ u # t BY Zenon, <2>2, <1>10
    <3>2. task'[v] = task[v] /\ task'[u] = task[u] /\ task[v].ev \in Effects \ {e} BY <3>1, <2>2, <1>4, <1>5, <1>10
    <3>3. journal'[task[v].ev] = journal[task[v].ev] BY <3>2, <1>2
    <3> QED BY Zenon, <3>2, <3>3, <1>10, <1>1 DEF Fence, Present
  <2> QED BY <2>1, <2>2
<1> QED BY Zenon, <1>8, <1>9, <1>10 DEF Fence, Present

(* A task claims its effect, or leaves. *)
LEMMA DispatchStep == ASSUME IInv, NEW t \in Tasks, Dispatch(t) PROVE IInv'
<1> DEFINE e == task[t].ev
           n == journal[e].epoch + 1
           r == [task[t] EXCEPT !.pc = "claimed", !.ep = n]
<1>1. Shape /\ task[t].pc = "dispatch" BY DEF IInv, Dispatch, At
<1>2. e \in Effects BY <1>1 DEF Shape, Sound
<1>3. CASE CanClaim(e)
  <2>1. Claim(e, inc) /\ task' = [task EXCEPT ![t] = r] /\ timer' = "set" /\ inflight' = inflight
    BY Zenon, <1>3 DEF Dispatch, Reschedule
  <2>2. /\ journal' \in [Effects -> Records \cup {Absent}] /\ \A x \in Effects : Onward(x)
        /\ journal[e].epoch \in Nat
    BY <1>1, <1>2, <1>3, <2>1, ClaimIs
  <2>3. /\ r \in TaskStates /\ r.pc = "claimed" /\ r.ev = e /\ r.ep = journal[e].epoch + 1
        /\ r.kind = task[t].kind /\ r.doomed = task[t].doomed
    <3>1. n \in Nat /\ task[t] \in TaskStates BY <1>1, <2>2 DEF Shape, TypeOK
    <3>2. n = journal[e].epoch + 1 OBVIOUS
    <3> HIDE DEF n
    <3>3. /\ r \in TaskStates /\ r.pc = "claimed" /\ r.ev = task[t].ev /\ r.ep = n
          /\ r.kind = task[t].kind /\ r.doomed = task[t].doomed
      BY Zenon, <3>1 DEF TaskStates, Stages, Working
    <3> QED BY <3>2, <3>3
  <2> HIDE DEF r
  <2>4. Sound(r) BY <1>2, <2>3 DEF Sound
  <2>5. Alone(t) /\ task'[t] = r /\ (Fields' => Shape') BY Zenon, <1>1, <2>1, <2>4, OneTask
  <2>6. Fields' BY <1>1, <2>1, <2>2 DEF Shape, TypeOK, Fields, Dispatch, conversation, history
  <2>7. life' = life /\ raced' = raced /\ receipts' = receipts
    BY DEF Dispatch, conversation, history
  <2>8. Fence' BY <1>2, <1>3, <2>1, <2>3, <2>5, <2>6, <2>7, ClaimFence
  <2>9. \A u \in Tasks : task'[u].doomed \subseteq task[u].doomed /\ (Covers(u) => Covers(u)')
    BY <1>1, <2>3, <2>5 DEF Alone, Covers
  <2>10. \A x \in Effects : Doomed(x)' => Doomed(x) BY <2>9 DEF Doomed
  <2>11. Kept' BY <2>2, <2>7, <2>10, CalmKept, SameReceipts DEF Onward
  <2>12. Over' BY Zenon, <2>2, <2>5, <2>6, <2>7, <2>9, CalmOver
  <2>13. Watched' BY <2>1 DEF Watched
  <2> QED BY <2>5, <2>6, <2>8, <2>11, <2>12, <2>13 DEF IInv
<1>4. CASE ~CanClaim(e)
  <2>1. Done(t) /\ journal' = journal /\ timer' = timer BY <1>4 DEF Dispatch
  <2>2. Quiet(t) /\ (Fields' => Shape') /\ inflight' \subseteq inflight BY <1>1, <2>1, EndIsQuiet
  <2>3. Fields' BY <1>1, <2>1, <2>2 DEF Shape, TypeOK, Fields, Dispatch, conversation, history
  <2>4. Calm(t) BY <1>1, <2>1, <2>2, NoEffectChanged, SameReceipts DEF Calm, Dispatch, conversation, history
  <2> QED BY <2>2, <2>3, <2>4, CalmIInv
<1> QED BY <1>3, <1>4

(* A pruning lists terminal effects without a receipt. *)
LEMMA PruneStep == ASSUME IInv, NEW t \in Tasks, Prune(t) PROVE IInv'
<1>1. Shape /\ Kept /\ Over /\ task[t].pc = "prune" BY DEF IInv, Prune, At
<1>2. PICK D \in SUBSET Effects : Oldest(D) /\ Listed(t, D \ receipts) BY DEF Prune
<1> DEFINE L == {<<x, life[x]>> : x \in D \ receipts}
           s == IF D \ receipts = {} THEN "finish" ELSE "evict"
           r == [task[t] EXCEPT !.pc = s, !.doomed = L]
<1>3. \A x \in D : IsTerminal(x) BY <1>2 DEF Oldest
<1>4. task' = [task EXCEPT ![t] = r] BY Zenon, <1>2 DEF Listed
<1>5. L \subseteq Effects \X Nat BY <1>1 DEF Shape, TypeOK
<1>6. \A d \in L : d[1] \in D \ receipts /\ d[1] \in Effects /\ d[2] = life[d[1]] OBVIOUS
<1>7. s \in {"finish", "evict"} OBVIOUS
<1> HIDE DEF L, s
<1>8. /\ r \in TaskStates /\ r.pc \in {"finish", "evict"} /\ r.kind = task[t].kind /\ r.doomed = L
  <2>1. task[t] \in TaskStates /\ L \in SUBSET (Effects \X Nat) BY <1>1, <1>5 DEF Shape, TypeOK
  <2> QED BY Zenon, <2>1, <1>7 DEF TaskStates, Stages
<1> HIDE DEF r
<1>9. Sound(r) BY <1>8 DEF Sound, Working
<1>10. Alone(t) /\ task'[t] = r /\ (Fields' => Shape') BY Zenon, <1>1, <1>4, <1>9, OneTask
<1>11. Fields' BY <1>1 DEF Shape, TypeOK, Fields, Prune, conversation, history
<1>12. \A x \in Effects : Onward(x) BY <1>1, NoEffectChanged DEF Prune
<1>13. \A u \in Tasks : Claimless(u) /\ (Covers(u) => Covers(u)')
  BY <1>1, <1>8, <1>10 DEF Alone, Claimless, Covers, Working
<1>14. Fence' BY <1>10, <1>11, <1>12, <1>13, CalmFence DEF Prune, history
<1>15. journal' = journal /\ life' = life /\ receipts' = receipts /\ raced' = raced /\ timer' = timer
  BY DEF Prune, conversation, history
<1>16. Kept'
  <2> SUFFICES ASSUME NEW x \in receipts \ raced PROVE Present(x)' /\ ~Doomed(x)' BY <1>15 DEF Kept
  <2>1. Present(x) /\ ~Doomed(x) BY <1>1 DEF Kept
  <2>2. \A u \in Tasks : \A d \in task'[u].doomed : d[1] # x
    BY Zenon, <2>1, <1>6, <1>8, <1>10 DEF Alone, Doomed
  <2> QED BY <2>1, <2>2, <1>15 DEF Doomed, Present
<1>17. Over'
  <2> SUFFICES ASSUME NEW u \in Tasks, NEW d \in task'[u].doomed
               PROVE  /\ d[1] \in Effects /\ d[2] <= life[d[1]]
                      /\ d[2] = life[d[1]] /\ journal[d[1]] # Absent => journal[d[1]].state = "terminal"
    BY <1>15 DEF Over, Present
  <2>1. CASE u = t
    <3>1. d[1] \in D \ receipts /\ d[1] \in Effects /\ d[2] = life[d[1]] BY <2>1, <1>6, <1>8, <1>10
    <3>2. life[d[1]] \in Nat BY <3>1, <1>1 DEF Shape, TypeOK
    <3> QED BY <3>1, <3>2, <1>3 DEF IsTerminal
  <2>2. CASE u # t BY <2>2, <1>1, <1>10 DEF Alone, Over, Present
  <2> QED BY <2>1, <2>2
<1>18. Watched' BY <1>10, <1>11, <1>12, <1>13, <1>15, CalmWatched
<1> QED BY <1>10, <1>11, <1>14, <1>16, <1>17, <1>18 DEF IInv

(* A listed effect is evicted, unless it has changed. *)
LEMMA EvictStep == ASSUME IInv, NEW t \in Tasks, Evict(t) PROVE IInv'
<1>1. Shape /\ Fence /\ Kept /\ Over /\ Watched /\ task[t].pc = "evict" BY DEF IInv, Evict, At
<1>2. PICK d \in task[t].doomed :
        /\ task' = [task EXCEPT ![t].doomed = @ \ {d}, ![t].pc = IF task[t].doomed = {d} THEN "finish" ELSE "evict"]
        /\ \/ SameGeneration(d) /\ journal' = [journal EXCEPT ![d[1]] = Absent]
           \/ UNCHANGED journal
  BY Zenon DEF Evict
<1> DEFINE s == IF task[t].doomed = {d} THEN "finish" ELSE "evict"
           r == [task[t] EXCEPT !.doomed = @ \ {d}, !.pc = s]
<1>3. s \in {"finish", "evict"} OBVIOUS
<1>4. task' = [task EXCEPT ![t] = r] BY Zenon, <1>2
<1> HIDE DEF s
<1>5. r \in TaskStates /\ r.pc \in {"finish", "evict"} /\ r.kind = task[t].kind /\ r.doomed \subseteq task[t].doomed
  <2>1. task[t] \in TaskStates BY <1>1 DEF Shape, TypeOK
  <2>2. s \in Stages BY <1>3 DEF Stages
  <2>3. task[t].doomed \ {d} \subseteq task[t].doomed /\ task[t].doomed \ {d} \in SUBSET (Effects \X Nat)
    BY <2>1 DEF TaskStates
  <2>4. r \in TaskStates BY Zenon, <2>1, <2>2, <2>3 DEF TaskStates
  <2>5. r.pc = s /\ r.kind = task[t].kind /\ r.doomed = task[t].doomed \ {d} BY <2>1 DEF TaskStates
  <2> QED BY <1>3, <2>3, <2>4, <2>5
<1> HIDE DEF r
<1>6. Sound(r) BY <1>5 DEF Sound, Working
<1>7. Alone(t) /\ task'[t] = r /\ (Fields' => Shape') BY Zenon, <1>1, <1>4, <1>6, OneTask
<1>8. Quiet(t) BY <1>1, <1>5, <1>7 DEF Quiet, Claimless, Covers, Working
<1>9. CASE journal' = journal
  <2>1. Fields' BY <1>1, <1>9 DEF Shape, TypeOK, Fields, Evict, conversation, history
  <2>2. Calm(t) BY <1>1, <1>8, <1>9, NoEffectChanged, SameReceipts DEF Calm, Evict, conversation, history
  <2> QED BY <1>7, <2>1, <2>2, CalmIInv
<1>10. CASE journal' = [journal EXCEPT ![d[1]] = Absent]
  <2>1. d[1] \in Effects /\ Doomed(d[1]) BY <1>1 DEF Over, Doomed
  <2>2. journal \in [Effects -> Records \cup {Absent}] BY <1>1 DEF Shape, TypeOK
  <2>3. /\ journal' \in [Effects -> Records \cup {Absent}] /\ journal'[d[1]] = Absent
        /\ \A x \in Effects : x # d[1] => journal'[x] = journal[x]
    BY <1>10, <2>1, <2>2
  <2>4. Fields' BY <1>1, <2>3 DEF Shape, TypeOK, Fields, Evict, conversation, history
  <2>5. life' = life /\ receipts' = receipts /\ raced' = raced /\ timer' = timer
    BY DEF Evict, conversation, history
  <2>6. \A x \in Effects : journal'[x] # Absent => journal'[x] = journal[x] BY <2>3
  <2>7. \A u \in Tasks : Claimless(u) /\ task'[u].doomed \subseteq task[u].doomed /\ (Covers(u) => Covers(u)')
    BY Zenon, <1>8 DEF Quiet, Alone, Claimless, Covers
  <2>8. \A u \in Tasks : task'[u].pc \in Working => task[u].ev \in Effects
    BY <2>7, <1>1 DEF Claimless, Shape, Sound
  <2>9. Fence'
    <3>1. (\A x \in Effects : Present(x) => life[x] >= 1)' BY <1>1, <2>5, <2>6 DEF Fence, Present
    <3>2. ASSUME NEW u \in Tasks, task'[u].pc \in Working
          PROVE  /\ life'[task'[u].ev] >= 1
                 /\ life'[task'[u].ev] = 1 /\ journal'[task'[u].ev] # Absent => task'[u].ep <= journal'[task'[u].ev].epoch
      <4>1. task[u].pc \in Working /\ task'[u].ev = task[u].ev /\ task'[u].ep = task[u].ep /\ task[u].ev \in Effects
        BY Zenon, <3>2, <2>7, <2>8 DEF Claimless
      <4> QED BY Zenon, <4>1, <2>5, <2>6, <1>1 DEF Fence, Present
    <3>3. ASSUME NEW v \in Tasks, NEW u \in Tasks, task'[v].pc \in Working, task'[u].pc \in Working,
                 task'[v].ev = task'[u].ev, life'[task'[v].ev] = 1, journal'[task'[v].ev] # Absent,
                 task'[v].ep = journal'[task'[v].ev].epoch, task'[u].ep = journal'[task'[v].ev].epoch
          PROVE  v = u
      <4>1. /\ task[v].pc \in Working /\ task'[v].ev = task[v].ev /\ task'[v].ep = task[v].ep /\ task[v].ev \in Effects
            /\ task[u].pc \in Working /\ task'[u].ev = task[u].ev /\ task'[u].ep = task[u].ep
        BY <3>3, <2>7, <2>8 DEF Claimless
      <4>2. journal'[task[v].ev] = journal[task[v].ev] /\ Present(task[v].ev) /\ life[task[v].ev] = 1
        BY Zenon, <4>1, <3>3, <2>5, <2>6 DEF Present
      <4>3. /\ task[v].ev = task[u].ev /\ task[v].ep = journal[task[v].ev].epoch
            /\ task[u].ep = journal[task[v].ev].epoch
        BY <4>1, <4>2, <3>3
      <4> QED BY Zenon, <4>1, <4>2, <4>3, <1>1 DEF Fence
    <3> QED BY Zenon, <3>1, <3>2, <3>3 DEF Fence, Present
  <2>10. Kept'
    <3> SUFFICES ASSUME NEW x \in receipts \ raced PROVE Present(x)' /\ ~Doomed(x)' BY <2>5 DEF Kept
    <3>1. Present(x) /\ ~Doomed(x) /\ x \in Effects BY <1>1 DEF Kept, Shape, TypeOK, Effects
    <3>2. Present(x)' BY <3>1, <2>1, <2>3 DEF Present
    <3>3. ~Doomed(x)' BY <3>1, <2>7 DEF Doomed
    <3> QED BY <3>2, <3>3
  <2>11. Over' BY <1>1, <2>5, <2>6, <2>7 DEF Over, Present
  <2>12. \A x \in Effects : Recoverable(x)' => Recoverable(x) BY <2>6 DEF Recoverable, IsOpen, Present
  <2>13. Watched' BY Zenon, <1>1, <2>5, <2>7, <2>12 DEF Watched
  <2> QED BY <1>7, <2>4, <2>9, <2>10, <2>11, <2>13 DEF IInv
<1> QED BY <1>2, <1>9, <1>10

-----------------------------------------------------------------------------
(* Whoever changes the timer or what covers it. *)
LEMMA CoverIInv ==
    ASSUME IInv, Shape', Watched', NEW t \in Tasks, Alone(t), task'[t].doomed \subseteq task[t].doomed,
           task'[t].pc \notin Working, journal' = journal, life' = life,
           Receding
    PROVE  IInv'
<1>1. \A e \in Effects : Onward(e) BY NoEffectChanged DEF IInv
<1>2. \A u \in Tasks : Claimless(u) /\ task'[u].doomed \subseteq task[u].doomed BY DEF Alone, Claimless
<1>3. Fence' BY <1>1, <1>2, CalmFence
<1>4. \A e \in Effects : Doomed(e)' => Doomed(e) BY <1>2 DEF Doomed
<1>5. Kept' BY <1>1, <1>4, CalmKept DEF Onward
<1>6. Over' BY <1>1, <1>2, CalmOver
<1> QED BY <1>3, <1>5, <1>6 DEF IInv

(* The timer goes off: its task covers the work. *)
LEMMA RecoverStep == ASSUME IInv, NEW t \in Tasks, Recover(t) PROVE IInv'
<1> DEFINE r == [Idle EXCEPT !.pc = "sweep", !.kind = "recovery", !.todo = Effects]
<1>1. Shape BY DEF IInv
<1>2. task' = [task EXCEPT ![t] = r] BY DEF Recover
<1>3. Sound(r) /\ r.pc = "sweep" /\ r.kind = "recovery" /\ r.doomed = {}
  BY Zenon DEF Idle, Sound, TaskStates, Stages, Working
<1> HIDE DEF r
<1>4. Alone(t) /\ task'[t] = r /\ (Fields' => Shape') BY Zenon, <1>1, <1>2, <1>3, OneTask
<1>5. /\ Receding
      /\ receipts' \subseteq Inbound /\ seen' \subseteq Inbound /\ raced' \subseteq Inbound
  <2>1. Complete(Terminated) BY DEF Recover
  <2> QED BY Zenon, <1>1, <2>1, CompleteIs
<1>6. Fields' BY <1>1, <1>5 DEF Shape, TypeOK, Fields, Recover, history
<1>7. Watched' BY <1>3, <1>4 DEF Watched, Covers
<1>8. task'[t].pc \notin Working BY <1>3, <1>4 DEF Working
<1> QED BY Zenon, <1>3, <1>4, <1>5, <1>6, <1>7, <1>8, CoverIInv DEF Recover, history

(* A look that finds work goes on to set the timer. *)
LEMMA LookStep == ASSUME IInv, NEW t \in Tasks, Look(t) PROVE IInv'
<1> DEFINE work == task[t].kind = "failing" \/ \E e \in Effects : Recoverable(e)
           s == IF work THEN "set" ELSE "clear"
           r == [Idle EXCEPT !.pc = s]
<1>1. Shape BY DEF IInv
<1>2. task' = [task EXCEPT ![t] = r] BY DEF Look
<1>3. s \in {"set", "clear"} /\ ((\E e \in Effects : Recoverable(e)) => s = "set") OBVIOUS
<1> HIDE DEF s
<1>4. Sound(r) /\ r.pc = s /\ r.doomed = {} BY <1>3 DEF Idle, Sound, TaskStates, Stages, Working
<1> HIDE DEF r
<1>5. Alone(t) /\ task'[t] = r /\ (Fields' => Shape') BY Zenon, <1>1, <1>2, <1>4, OneTask
<1>6. Fields' BY <1>1 DEF Shape, TypeOK, Fields, Look, conversation, history
<1>7. \A e \in Effects : Recoverable(e)' => Recoverable(e) BY DEF Look, Recoverable, IsOpen, Present
<1>8. Watched' BY <1>3, <1>4, <1>5, <1>7 DEF Watched, Covers
<1>9. task'[t].pc \notin Working BY <1>3, <1>4, <1>5 DEF Working
<1> QED BY Zenon, <1>4, <1>5, <1>6, <1>8, <1>9, CoverIInv, SameReceipts DEF Look, conversation, history

(* The timer is set, or cleared although there is work by now. *)
LEMMA ScheduleStep == ASSUME IInv, NEW t \in Tasks, Schedule(t) PROVE IInv'
<1>1. Shape BY DEF IInv
<1>2. task' = [task EXCEPT ![t] = Idle] BY DEF Schedule
<1>3. Alone(t) /\ task'[t] = Idle /\ (Fields' => Shape') BY Zenon, <1>1, <1>2, IdleIs, OneTask
<1>4. timer' \in {"set", "off", "lost"} BY DEF Schedule, LeftOff
<1>5. Fields' BY <1>1, <1>4 DEF Shape, TypeOK, Fields, Schedule, conversation
<1>6. \A e \in Effects : Recoverable(e)' => Recoverable(e) BY DEF Schedule, Recoverable, IsOpen, Present
<1>7. timer' = "off" => ~\E e \in Effects : Recoverable(e) BY DEF Schedule, LeftOff
<1>8. Watched' BY <1>6, <1>7 DEF Watched
<1>9. task'[t].pc \notin Working BY <1>3, IdleIs DEF Working
<1> QED BY <1>3, <1>5, <1>8, <1>9, IdleIs, CoverIInv, SameReceipts DEF Schedule, conversation

(* A call throws. *)
LEMMA ThrowStep == ASSUME IInv, NEW t \in Tasks, Throw(t) PROVE IInv'
<1>1. Shape /\ Watched /\ task[t].pc \notin {"idle", "set", "clear"} /\ faults' \in Nat
  BY DEF IInv, Throw, Fault, Shape, TypeOK
<1>2. /\ journal' = journal /\ life' = life /\ raced' = raced /\ receipts' = receipts
  BY DEF Throw, conversation
<1>3. \A e \in Effects : Recoverable(e)' => Recoverable(e) BY <1>2 DEF Recoverable, IsOpen, Present
<1>4. CASE /\ \/ Looking(t)
              \/ task[t].kind = "post"
              \/ task[t].kind = "handler"
           /\ task' = [task EXCEPT ![t] = Idle]
           /\ timer' = IF Looking(t) /\ timer # "set" THEN LeftOff ELSE timer
           /\ UNCHANGED inflight
  <2>1. Alone(t) /\ task'[t] = Idle /\ (Fields' => Shape') BY Zenon, <1>1, <1>4, IdleIs, OneTask
  <2>2. timer' \in {"set", "off", "lost"} BY <1>1, <1>4 DEF Shape, TypeOK, LeftOff
  <2>3. Fields' BY <1>1, <1>2, <1>4, <2>2 DEF Shape, TypeOK, Fields, Throw, conversation
  <2>4. Watched'
    <3>1. CASE Looking(t)
      <4>1. timer' = "off" => ~\E e \in Effects : Recoverable(e) BY <1>4, <3>1 DEF LeftOff
      <4> QED BY <4>1, <1>3 DEF Watched
    <3>2. CASE ~Looking(t)
      <4>1. ~Covers(t) BY <1>1, <1>4, <3>2 DEF Covers
      <4>2. \A u \in Tasks : Covers(u) => Covers(u)' BY <2>1, <4>1 DEF Alone, Covers
      <4>3. timer' = timer BY Zenon, <1>4, <3>2
      <4> QED BY <1>1, <1>3, <4>2, <4>3 DEF Watched
    <3> QED BY <3>1, <3>2
  <2>5. task'[t].pc \notin Working BY <2>1, IdleIs DEF Working
  <2> QED BY <1>2, <2>1, <2>3, <2>4, <2>5, IdleIs, CoverIInv, SameReceipts
<1>5. CASE Done(t) /\ UNCHANGED timer
  <2>1. Quiet(t) /\ (Fields' => Shape') /\ inflight' \subseteq inflight BY <1>1, <1>5, EndIsQuiet
  <2>2. Fields' BY <1>1, <1>2, <1>5, <2>1 DEF Shape, TypeOK, Fields, Throw, conversation
  <2>3. Calm(t) BY <1>1, <1>2, <1>5, <2>1, NoEffectChanged, SameReceipts DEF Calm
  <2> QED BY <2>1, <2>2, <2>3, CalmIInv
<1>6. CASE /\ task' = [task EXCEPT ![t] = [Idle EXCEPT !.pc = "look", !.kind = "failing"]]
           /\ UNCHANGED <<inflight, timer>>
  <2> DEFINE r == [Idle EXCEPT !.pc = "look", !.kind = "failing"]
  <2>1. Sound(r) /\ r.pc = "look" /\ r.kind = "failing" /\ r.doomed = {}
    BY Zenon DEF Idle, Sound, TaskStates, Stages, Working
  <2>2. task' = [task EXCEPT ![t] = r] BY <1>6
  <2> HIDE DEF r
  <2>3. Alone(t) /\ task'[t] = r /\ (Fields' => Shape') BY Zenon, <1>1, <2>1, <2>2, OneTask
  <2>4. Fields' BY <1>1, <1>2, <1>6 DEF Shape, TypeOK, Fields, Throw, conversation
  <2>5. Watched' BY <2>1, <2>3 DEF Watched, Covers
  <2>6. task'[t].pc \notin Working BY <2>1, <2>3 DEF Working
  <2> QED BY <1>2, <2>1, <2>3, <2>4, <2>5, <2>6, CoverIInv, SameReceipts
<1> QED BY <1>4, <1>5, <1>6 DEF Throw

(* The daemon dies and comes back. *)
LEMMA CrashStep == ASSUME IInv, Crash PROVE IInv'
<1>1. Shape BY DEF IInv
<1>2. \A t \in Tasks : task'[t] = Idle BY DEF Crash
<1>3. task' \in [Tasks -> TaskStates] BY IdleIs DEF Crash, Sound
<1>4. TypeOK' BY <1>1, <1>3 DEF Shape, TypeOK, Crash, Fault, conversation
<1>5. Shape' BY <1>2, <1>4, IdleIs DEF Shape
<1>6. \A e \in Effects : Onward(e) BY <1>1, NoEffectChanged DEF Crash
<1>7. \A u \in Tasks : Claimless(u) BY <1>2, IdleIs DEF Claimless, Working
<1>8. Fence' BY <1>5, <1>6, <1>7, CalmFence DEF Crash
<1>9. \A e \in Effects : Doomed(e)' => Doomed(e) BY <1>2, IdleIs DEF Doomed
<1>10. Kept' BY Zenon, <1>6, <1>9, CalmKept, SameReceipts DEF Onward, Crash, conversation
<1>11. Over' BY Zenon, <1>2, IdleIs DEF Over
<1>12. Watched' BY DEF Watched, Crash
<1> QED BY <1>5, <1>8, <1>10, <1>11, <1>12 DEF IInv

(* Every step keeps the invariant. *)
LEMMA NextIInv == ASSUME IInv, [Next]_vars PROVE IInv'
<1>1. CASE UNCHANGED vars
  <2>1. Fields' BY <1>1 DEF IInv, Shape, TypeOK, Fields, vars, conversation, history
  <2>2. \A e \in Effects : Onward(e) BY <1>1, NoEffectChanged DEF IInv, vars
  <2> QED BY <1>1, <2>1, <2>2, StillIInv DEF vars, conversation, history
<1>2. ASSUME NEW t \in Tasks, Step(t) PROVE IInv'
  BY <1>2, ReserveStep, NoEndpointStep, DispatchStep, EnsureStep, RenewTickStep, CheckStep, SendStep,
     RecordOutcomeStep, TerminalizeStep, PruneStep, EvictStep, FinishStep, RecoverStep, SweepOutboundStep,
     SweepReceiptStep, SweepOrphanStep, LookStep, ScheduleStep DEF Step
<1>3. ASSUME NEW t \in Tasks, Throw(t) PROVE IInv' BY <1>3, ThrowStep
<1>4. ASSUME NEW t \in Tasks, NEW e \in Effects, HandleInbound(t, e) \/ Post(t, e) PROVE IInv'
  BY <1>4, HandleInboundStep, PostStep
<1>5. ASSUME NEW e \in Effects, Expire(e) PROVE IInv' BY <1>5, ExpireStep
<1> QED BY <1>1, <1>2, <1>3, <1>4, <1>5, MoveStep, CrashStep DEF Next

-----------------------------------------------------------------------------
(* The inductive invariant: fences, receipts, listed effects and the timer, whatever *)
(* handlers, posts, recoveries, crashes and lapses of claims do.                     *)
THEOREM Invariance == Spec => []IInv
BY InitIInv, NextIInv, PTL DEF Spec

(* The daemon's state keeps its types. *)
THEOREM TypeCorrect == Spec => []TypeOK
<1>1. IInv => TypeOK BY DEF IInv, Shape
<1> QED BY <1>1, Invariance, PTL

(* The fence of an effect, owner and epoch, lets at most one task pass. *)
THEOREM FenceIsExclusive == Spec => []OneHolder
<1>1. IInv => OneHolder
  <2> SUFFICES ASSUME IInv, NEW e \in Effects, NEW t \in Tasks, NEW u \in Tasks, life[e] = 1, HeldBy(t, e), HeldBy(u, e)
               PROVE  t = u
    BY DEF OneHolder
  <2>1. /\ Present(e) /\ task[t].ev = e /\ task[u].ev = e /\ task[t].pc \in Working /\ task[u].pc \in Working
        /\ task[t].ep = journal[e].epoch /\ task[u].ep = journal[e].epoch
    BY DEF HeldBy, Holds, Fenced
  <2> QED BY Zenon, <2>1 DEF IInv, Fence
<1> QED BY <1>1, Invariance, PTL

(* A receipt that no pruning could miss has its effect in the journal. *)
THEOREM ReceiptsAreBacked == Spec => []ReceiptHasEffect
<1>1. IInv => ReceiptHasEffect BY DEF IInv, Kept, ReceiptHasEffect
<1> QED BY <1>1, Invariance, PTL

(* Work that nobody is at has the recovery timer set, but for late or failed looks. *)
THEOREM WorkIsWatched == Spec => []WorkIsScheduled
<1>1. IInv => WorkIsScheduled
  <2>1. \A t \in Tasks : At(t, "idle") => ~Covers(t) BY DEF At, Covers
  <2> QED BY <2>1 DEF IInv, Shape, TypeOK, Watched, WorkIsScheduled
<1> QED BY <1>1, Invariance, PTL

-----------------------------------------------------------------------------
Stay == \A x \in Effects : Present(x) => Present(x)'

(* What writes one record of the journal removes none. *)
LEMMA WriteStays ==
    ASSUME Shape, NEW e \in Effects,
           \/ Present(e) /\ \/ Renew(e)
                            \/ Abandon(e)
                            \/ Claim(e, inc)
                            \/ \E s \in {"accepted", "uncertain", "terminal"} : Record(e, s)
                            \/ journal' = [journal EXCEPT ![e].state = "lapsed"]
           \/ \E s \in {"pending", "leased"}, o, n \in Nat : Create(e, s, o, n)
    PROVE  Stay
<1>1. journal \in [Effects -> Records \cup {Absent}] /\ inc \in Nat BY DEF Shape, TypeOK
<1>2. ASSUME NEW r \in Records, journal' = [journal EXCEPT ![e] = r] PROVE Stay
  BY <1>1, <1>2, AbsentAssumption DEF Stay, Present
<1>3. Present(e) => journal[e] \in Records BY <1>1 DEF Present
<1>4. ASSUME Present(e), NEW s \in {"leased", "lapsed"}, journal' = [journal EXCEPT ![e].state = s] PROVE Stay
  <2>1. [journal[e] EXCEPT !.state = s] \in Records BY <1>3, <1>4 DEF Records
  <2> QED BY Zenon, <1>2, <1>4, <2>1
<1>5. ASSUME Present(e), Abandon(e) PROVE Stay
  <2>1. [state |-> "uncertain", owner |-> 0, epoch |-> journal[e].epoch + 1] \in Records BY <1>3, <1>5 DEF Records
  <2> QED BY Zenon, <1>2, <1>5, <2>1 DEF Abandon
<1>6. ASSUME Present(e), Claim(e, inc) PROVE Stay
  <2>1. [state |-> "leased", owner |-> inc, epoch |-> journal[e].epoch + 1] \in Records BY <1>1, <1>3, <1>6 DEF Records
  <2> QED BY Zenon, <1>2, <1>6, <2>1 DEF Claim
<1>7. ASSUME Present(e), NEW s \in {"accepted", "uncertain", "terminal"}, Record(e, s) PROVE Stay
  <2>1. [journal[e] EXCEPT !.state = s, !.owner = 0] \in Records BY Zenon, <1>3, <1>7 DEF Records
  <2> QED BY Zenon, <1>2, <1>7, <2>1 DEF Record
<1>8. ASSUME NEW s \in {"pending", "leased"}, NEW o \in Nat, NEW n \in Nat, Create(e, s, o, n) PROVE Stay
  <2>1. [state |-> s, owner |-> o, epoch |-> n] \in Records BY DEF Records
  <2> QED BY Zenon, <1>2, <1>8, <2>1 DEF Create
<1> QED BY <1>4, <1>5, <1>6, <1>7, <1>8 DEF Renew

(* Only an eviction removes an effect. *)
LEMMA OnlyEvictRemoves == ASSUME IInv, [Next]_vars, \A t \in Tasks : ~Evict(t) PROVE Stay
<1>1. Shape BY DEF IInv
<1>2. CASE journal' = journal BY <1>2 DEF Stay, Present
<1>3. ASSUME NEW t \in Tasks, Step(t) PROVE Stay
  <2>1. CASE Dispatch(t) /\ journal' # journal
    <3>1. CanClaim(task[t].ev) /\ Claim(task[t].ev, inc) /\ task[t].pc = "dispatch" BY <2>1 DEF Dispatch, At
    <3>2. task[t].ev \in Effects BY Zenon, <1>1, <3>1 DEF Shape, Sound
    <3> QED BY <1>1, <3>1, <3>2, WriteStays DEF CanClaim, IsOpen
  <2>2. CASE (Ensure(t) \/ RenewTick(t)) /\ journal' # journal
    <3>1. Holds(t) /\ Renew(task[t].ev) /\ task[t].pc \in Working BY Zenon, <2>2 DEF Ensure, RenewTick, Working
    <3>2. task[t].ev \in Effects BY <1>1, <3>1 DEF Shape, Sound
    <3> QED BY <1>1, <3>1, <3>2, WriteStays DEF Holds, Fenced
  <2>3. CASE RecordOutcome(t) /\ journal' # journal
    <3>1. Holds(t) /\ (Renew(task[t].ev) \/ Record(task[t].ev, task[t].want)) /\ task[t].pc = "record"
      BY Zenon, <2>3 DEF RecordOutcome, At
    <3>2. task[t].ev \in Effects /\ task[t].want \in {"accepted", "uncertain", "terminal"}
      BY <1>1, <3>1 DEF Shape, Sound, Working
    <3> QED BY <1>1, <3>1, <3>2, WriteStays DEF Holds, Fenced
  <2>4. CASE Terminalize(t) /\ journal' # journal
    <3>1. IsOpen(task[t].ev) /\ (Abandon(task[t].ev) \/ Record(task[t].ev, "terminal")) /\ task[t].pc \in {"reject", "stale"}
      BY <2>4 DEF Terminalize
    <3>2. task[t].ev \in Effects BY <1>1, <3>1 DEF Shape, Sound
    <3> QED BY <1>1, <3>1, <3>2, WriteStays DEF IsOpen
  <2>5. CASE \/ Reserve(t) \/ NoEndpoint(t) \/ Check(t) \/ Send(t) \/ Prune(t) \/ Finish(t) \/ Recover(t)
             \/ \E e \in Effects : SweepOutbound(t, e) \/ SweepReceipt(t, e) \/ SweepOrphan(t, e)
             \/ Look(t) \/ Schedule(t)
    BY Zenon, <2>5, <1>2 DEF Reserve, NoEndpoint, Check, Send, Prune, Finish, Recover, SweepOutbound, SweepReceipt,
                      SweepOrphan, Look, Schedule
  <2> QED BY <1>2, <1>3, <2>1, <2>2, <2>3, <2>4, <2>5 DEF Step
<1>4. ASSUME NEW t \in Tasks, Throw(t) PROVE Stay BY <1>2, <1>4 DEF Throw
<1>5. ASSUME NEW t \in Tasks, NEW e \in Effects, HandleInbound(t, e) \/ Post(t, e) PROVE Stay
  <2>1. inc \in Nat BY <1>1 DEF Shape, TypeOK
  <2>2. journal' = journal \/ Create(e, "pending", 0, 0) \/ Create(e, "leased", inc, 1)
    BY <1>5 DEF HandleInbound, Post
  <2> QED BY <1>1, <1>2, <2>1, <2>2, WriteStays
<1>6. ASSUME NEW e \in Effects, Expire(e) PROVE Stay BY Zenon, <1>1, <1>6, WriteStays DEF Expire, IsOpen
<1>7. CASE UNCHANGED vars BY <1>2, <1>7 DEF vars
<1>8. CASE Move \/ Crash BY <1>2, <1>8 DEF Move, Crash
<1> QED BY <1>3, <1>4, <1>5, <1>6, <1>7, <1>8 DEF Next

(* The journal evicts no effect that is open, but for one that was evicted and *)
(* created anew after a pruning had listed it.                                 *)
THEOREM OpenEffectsAreKept == Spec => OpenIsKept
<1> DEFINE A == \A e \in Effects : IsOpen(e) /\ ~Present(e)' =>
                   \E t \in Tasks : \E d \in task[t].doomed : d[1] = e /\ d[2] < life[e]
<1>1. IInv /\ [Next]_vars => A
  <2> SUFFICES ASSUME IInv, [Next]_vars, NEW e \in Effects, IsOpen(e), ~Present(e)'
               PROVE  \E t \in Tasks : \E d \in task[t].doomed : d[1] = e /\ d[2] < life[e]
    OBVIOUS
  <2>1. Shape /\ Over BY DEF IInv
  <2>2. PICK t \in Tasks : Evict(t) BY OnlyEvictRemoves DEF Stay, IsOpen
  <2>3. PICK d \in task[t].doomed : journal' = [journal EXCEPT ![d[1]] = Absent] \/ UNCHANGED journal
    BY <2>2 DEF Evict
  <2>4. d[1] = e BY <2>1, <2>3 DEF Shape, TypeOK, Present, IsOpen
  <2>5. d[2] <= life[e] /\ d[2] # life[e] BY Zenon, <2>1, <2>4 DEF Over, IsOpen
  <2>6. d[2] \in Nat /\ life[e] \in Nat BY <2>1 DEF Shape, TypeOK, TaskStates
  <2> QED BY <2>4, <2>5, <2>6
<1>2. IInv /\ [Next]_vars => [A]_vars BY <1>1
<1>3. [][A]_vars <=> OpenIsKept BY DEF OpenIsKept
<1> QED BY <1>2, <1>3, Invariance, PTL DEF Spec
=============================================================================
