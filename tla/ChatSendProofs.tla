--------------------------- MODULE ChatSendProofs ---------------------------
(***************************************************************************)
(* The chat daemon sends a command once for each time the journal took it  *)
(* in, and posts a message once, unless a claim on it ran out in use.      *)
(***************************************************************************)
EXTENDS ChatDaemonProofs, FiniteSetTheorems

(* That an effect is sent once, as long as no claim on it has run out in use.    *)
(*                                                                               *)
(* A command: each life of it is good for one sending, which is still in the     *)
(* journal to be claimed, or owed by a task, or done, or forgone.  A claim that  *)
(* was not used and that nobody holds any more is there to be claimed again,     *)
(* from the moment its holder leaves it.                                         *)

Owes(t) == \/ task[t].pc \in {"claimed", "ready", "confirm", "sending"}
           \/ task[t].pc = "record" /\ task[t].want = "accepted"

Debtors(e) == {t \in Tasks : task[t].ev = e /\ Owes(t)}
Due(t, e) == IF task[t].ev = e /\ Owes(t) THEN 1 ELSE 0
Unused(e) == journal[e].state = "leased" /\ sent[e] = 0 /\ \A t \in Debtors(e) : ~Holds(t)
ToClaim(e) == Present(e) /\ (journal[e].state \in {"pending", "accepted", "lapsed"} \/ Unused(e))
Claimable(e) == IF ToClaim(e) THEN 1 ELSE 0

Honest(e) == /\ IsFiniteSet(Debtors(e))
             /\ sent[e] + Cardinality(Debtors(e)) + Claimable(e) <= life[e]

(* A message: it is terminal, or listed for eviction, only after it was sent; until *)
(* then whoever works on it holds it, alone.                                        *)
Posted(e) == /\ Present(e) => /\ journal[e].state \notin {"pending", "accepted"}
                              /\ journal[e].state = "terminal" => sent[e] = 1
             /\ Doomed(e) => sent[e] = 1
             /\ sent[e] \in {0, 1}
             /\ \A t \in Tasks : task[t].ev = e /\ task[t].pc \in Working =>
                   /\ task[t].pc = "record" => task[t].want # "accepted" /\ (task[t].want = "terminal" => sent[e] = 1)
                   /\ task[t].pc \in {"confirm", "sending"} => sent[e] = 0
                   /\ sent[e] = 0 => Holds(t)
             /\ \A t, u \in Tasks : /\ sent[e] = 0 /\ task[t].ev = e /\ task[u].ev = e
                                    /\ task[t].pc \in Working /\ task[u].pc \in Working
                                    => t = u

(* What has run out was not in use. *)
Dropped(e) == Present(e) /\ journal[e].state = "lapsed" => \A t \in Tasks : ~HeldBy(t, e)

Once == /\ \A e \in Effects \ expired : Dropped(e)
        /\ \A e \in Inbound \ expired : Honest(e)
        /\ \A e \in Outbound \ expired : Posted(e)

(* What a step of t changes for the account of a command. *)
Balance(t, e) == sent'[e] + Due(t, e)' + Claimable(e)' + life[e] <= sent[e] + Due(t, e) + Claimable(e) + life'[e]

(* The tasks that owe a sending change by t only. *)
LEMMA DebtorsMove ==
    ASSUME NEW t \in Tasks, NEW e, Alone(t), IsFiniteSet(Debtors(e))
    PROVE  /\ IsFiniteSet(Debtors(e))' /\ Cardinality(Debtors(e)) \in Nat /\ Cardinality(Debtors(e))' \in Nat
           /\ Cardinality(Debtors(e))' + Due(t, e) = Cardinality(Debtors(e)) + Due(t, e)'
<1> DEFINE D == Debtors(e)
           E == Debtors(e)'
<1>1. \A u \in Tasks : u # t => (u \in D <=> u \in E) BY DEF Alone, Debtors, Owes
<1>2. D \subseteq Tasks /\ E \subseteq Tasks BY DEF Debtors
<1>3. Due(t, e) = (IF t \in D THEN 1 ELSE 0) /\ Due(t, e)' = (IF t \in E THEN 1 ELSE 0) BY DEF Due, Debtors
<1>4. Cardinality(D) \in Nat BY FS_CardinalityType
<1>5. CASE (t \in D) <=> (t \in E)
  <2>1. E = D BY <1>1, <1>2, <1>5
  <2> HIDE DEF D, E
  <2>2. IsFiniteSet(E) /\ Cardinality(E) = Cardinality(D) BY <2>1 DEF D
  <2>3. Due(t, e) = Due(t, e)' /\ Due(t, e) \in {0, 1} BY <1>3, <1>5
  <2> QED BY <2>2, <2>3, <1>4 DEF D, E
<1>6. CASE t \in D /\ t \notin E
  <2>1. E = D \ {t} BY <1>1, <1>2, <1>6
  <2>2. IsFiniteSet(D \ {t}) /\ Cardinality(D \ {t}) = Cardinality(D) - 1 BY <1>6, FS_RemoveElement
  <2>3. Cardinality(D \ {t}) \in Nat BY <2>2, FS_CardinalityType
  <2>4. Due(t, e) = 1 /\ Due(t, e)' = 0 BY <1>3, <1>6
  <2> HIDE DEF D, E
  <2> QED BY <1>4, <2>1, <2>2, <2>3, <2>4 DEF D, E
<1>7. CASE t \notin D /\ t \in E
  <2>1. E = D \cup {t} BY <1>1, <1>2, <1>7
  <2>2. IsFiniteSet(D \cup {t}) /\ Cardinality(D \cup {t}) = Cardinality(D) + 1 BY <1>7, FS_AddElement
  <2>3. Due(t, e) = 0 /\ Due(t, e)' = 1 BY <1>3, <1>7
  <2> HIDE DEF D, E
  <2> QED BY <1>4, <2>1, <2>2, <2>3 DEF D, E
<1> QED BY <1>5, <1>6, <1>7

(* The account of a command stays balanced. *)
LEMMA BalanceKeeps ==
    ASSUME Shape, Shape', NEW t \in Tasks, NEW e \in Effects, Alone(t), Honest(e), Balance(t, e)
    PROVE  Honest(e)'
<1>1. sent[e] \in Nat /\ sent'[e] \in Nat /\ life[e] \in Nat /\ life'[e] \in Nat BY DEF Shape, TypeOK
<1>2. Due(t, e) \in Nat /\ Due(t, e)' \in Nat /\ Claimable(e) \in Nat /\ Claimable(e)' \in Nat BY Zenon DEF Due, Claimable
<1>3. /\ IsFiniteSet(Debtors(e))' /\ Cardinality(Debtors(e)) \in Nat /\ Cardinality(Debtors(e))' \in Nat
      /\ Cardinality(Debtors(e))' + Due(t, e) = Cardinality(Debtors(e)) + Due(t, e)'
  BY Zenon, DebtorsMove DEF Honest
<1>4. sent[e] + Cardinality(Debtors(e)) + Claimable(e) <= life[e] BY Zenon DEF Honest
<1>5. sent'[e] + Cardinality(Debtors(e))' + Claimable(e)' <= life'[e]
  BY <1>1, <1>2, <1>3, <1>4 DEF Balance
<1> QED BY <1>3, <1>5 DEF Honest

(* A step that leaves the record of a command alone moves its sending from t to the *)
(* journal at most.                                                                 *)
LEMMA SameRecord ==
    ASSUME NEW t \in Tasks, NEW e, Alone(t), journal'[e] = journal[e], inc' = inc, sent'[e] = sent[e],
           task'[t].ev = e /\ Owes(t)' => task[t].ev = e /\ Owes(t) /\ task'[t].ep = task[t].ep
    PROVE  Due(t, e)' + Claimable(e)' <= Due(t, e) + Claimable(e)
<1>1. \A u \in Tasks : u # t => task'[u] = task[u] BY Zenon DEF Alone
<1>2. \A u \in Tasks : task'[u] = task[u] /\ task[u].ev = e => (Holds(u)' <=> Holds(u)) /\ (Owes(u)' <=> Owes(u))
  BY Zenon DEF Holds, Fenced, Present, Owes
<1>3. CASE t \in Debtors(e) /\ t \notin Debtors(e)'
  <2>1. Due(t, e) = 1 /\ Due(t, e)' = 0 BY Zenon, <1>3 DEF Due, Debtors
  <2>2. Claimable(e) \in {0, 1} /\ Claimable(e)' \in {0, 1} BY Zenon DEF Claimable
  <2> QED BY <2>1, <2>2
<1>4. CASE t \in Debtors(e) /\ t \in Debtors(e)'
  <2>1. task[t].ev = e /\ task'[t].ev = e /\ task'[t].ep = task[t].ep /\ Owes(t) /\ Owes(t)' BY Zenon, <1>4 DEF Debtors
  <2>2. Holds(t)' <=> Holds(t) BY Zenon, <2>1 DEF Holds, Fenced, Present
  <2>3. ASSUME NEW u \in Tasks PROVE u \in Debtors(e)' /\ Holds(u)' <=> u \in Debtors(e) /\ Holds(u)
    <3>1. CASE u = t BY Zenon, <3>1, <1>4, <2>2
    <3>2. CASE u # t BY Zenon, <3>2, <1>1, <1>2 DEF Debtors
    <3> QED BY Zenon, <3>1, <3>2
  <2>4. (\A u \in Debtors(e) : ~Holds(u))' <=> \A u \in Debtors(e) : ~Holds(u) BY Zenon, <2>3 DEF Debtors
  <2>5. Claimable(e)' = Claimable(e) BY Zenon, <2>4 DEF Claimable, ToClaim, Unused, Present
  <2>6. Due(t, e) = 1 /\ Due(t, e)' = 1 /\ Claimable(e) \in {0, 1} BY Zenon, <2>1 DEF Due, Claimable
  <2> QED BY <2>5, <2>6
<1>5. CASE t \notin Debtors(e)
  <2>1. t \notin Debtors(e)' BY Zenon, <1>5 DEF Debtors
  <2>2. \A u \in Tasks : u \in Debtors(e)' /\ Holds(u)' <=> u \in Debtors(e) /\ Holds(u)
    BY Zenon, <1>1, <1>2, <1>5, <2>1 DEF Debtors
  <2>3. (\A u \in Debtors(e) : ~Holds(u))' <=> \A u \in Debtors(e) : ~Holds(u) BY Zenon, <2>2 DEF Debtors
  <2>4. Claimable(e)' = Claimable(e) BY Zenon, <2>3 DEF Claimable, ToClaim, Unused, Present
  <2>5. Due(t, e) = 0 /\ Due(t, e)' = 0 /\ Claimable(e) \in {0, 1} BY Zenon, <1>5, <2>1 DEF Due, Debtors, Claimable
  <2> QED BY <2>4, <2>5
<1> QED BY Zenon, <1>3, <1>4, <1>5

(* A step of t leaves what has run out to nobody. *)
LEMMA DroppedStep ==
    ASSUME NEW t \in Tasks, NEW e, Alone(t), Dropped(e), inc' = inc,
           journal'[e] = journal[e] \/ journal'[e] = Absent \/ journal'[e].state # "lapsed",
           journal'[e] = journal[e] /\ task'[t].ev = e /\ task'[t].pc \in Working =>
              task[t].ev = e /\ task[t].pc \in Working /\ task'[t].ep = task[t].ep
    PROVE  Dropped(e)'
<1>1. \A u \in Tasks : u # t => task'[u] = task[u] BY Zenon DEF Alone
<1> SUFFICES ASSUME Present(e)', journal'[e].state = "lapsed", NEW u \in Tasks, HeldBy(u, e)' PROVE FALSE
  BY Zenon DEF Dropped
<1>2. journal'[e] = journal[e] BY Zenon DEF Present
<1>3. task'[u].ev = e /\ task'[u].pc \in Working /\ Holds(u)' BY Zenon DEF HeldBy
<1>4. task[u].ev = e /\ task[u].pc \in Working /\ task'[u].ep = task[u].ep BY Zenon, <1>1, <1>2, <1>3
<1>5. Holds(u) BY Zenon, <1>2, <1>3, <1>4 DEF Holds, Fenced, Present
<1> QED BY Zenon, <1>2, <1>4, <1>5 DEF Dropped, HeldBy, Present

(* A step of t leaves what holds of a message, if it leaves it to t alone. *)
LEMMA MessageStep ==
    ASSUME Shape, Shape', NEW t \in Tasks, NEW e \in Outbound, Posted(e), Alone(t), inc' = inc, sent'[e] = sent[e],
           Present(e)' => /\ journal'[e].state \notin {"pending", "accepted"}
                          /\ journal'[e].state = "terminal" => sent[e] = 1,
           \A d \in task'[t].doomed : d[1] = e => sent[e] = 1,
           task'[t].ev = e /\ task'[t].pc \in Working =>
              /\ task'[t].pc = "record" => task'[t].want # "accepted" /\ (task'[t].want = "terminal" => sent[e] = 1)
              /\ task'[t].pc \in {"confirm", "sending"} => sent[e] = 0
              /\ sent[e] = 0 => /\ Holds(t)'
                                /\ \A u \in Tasks \ {t} : ~(task[u].ev = e /\ task[u].pc \in Working),
           sent[e] = 0 => \A u \in Tasks \ {t} : task[u].ev = e /\ task[u].pc \in Working => journal'[e] = journal[e]
    PROVE  Posted(e)'
<1>1. \A u \in Tasks : u # t => task'[u] = task[u] BY Zenon DEF Alone
<1>2. Doomed(e)' => sent[e] = 1
  <2> SUFFICES ASSUME NEW u \in Tasks, NEW d \in task'[u].doomed, d[1] = e PROVE sent[e] = 1 BY DEF Doomed
  <2>1. CASE u = t BY Zenon, <2>1
  <2>2. CASE u # t BY Zenon, <2>2, <1>1 DEF Posted, Doomed
  <2> QED BY <2>1, <2>2
<1>3. ASSUME NEW u \in Tasks, task'[u].ev = e, task'[u].pc \in Working
      PROVE  /\ task'[u].pc = "record" => task'[u].want # "accepted" /\ (task'[u].want = "terminal" => sent[e] = 1)
             /\ task'[u].pc \in {"confirm", "sending"} => sent[e] = 0
             /\ sent[e] = 0 => Holds(u)'
  <2>1. CASE u = t BY <2>1, <1>3
  <2>2. CASE u # t
    <3>1. task'[u] = task[u] BY Zenon, <2>2, <1>1
    <3>2. sent[e] = 0 => Holds(u) /\ journal'[e] = journal[e] BY Zenon, <3>1, <2>2, <1>3 DEF Posted
    <3>3. sent[e] = 0 => Holds(u)' BY Zenon, <3>1, <3>2, <1>3 DEF Holds, Fenced, Present
    <3> QED BY Zenon, <3>1, <3>3, <1>3 DEF Posted
  <2> QED BY Zenon, <2>1, <2>2
<1>4. ASSUME NEW v \in Tasks, NEW u \in Tasks, sent[e] = 0, task'[v].ev = e, task'[u].ev = e,
             task'[v].pc \in Working, task'[u].pc \in Working
      PROVE  v = u
  <2>1. CASE v # t /\ u # t BY Zenon, <2>1, <1>1, <1>4 DEF Posted
  <2>2. CASE v = t /\ u # t BY Zenon, <2>2, <1>1, <1>4
  <2>3. CASE v # t /\ u = t BY Zenon, <2>3, <1>1, <1>4
  <2> QED BY Zenon, <2>1, <2>2, <2>3
<1>5. sent'[e] \in {0, 1} BY Zenon DEF Posted
<1> QED BY Zenon, <1>2, <1>3, <1>4, <1>5 DEF Posted

(* The task is no longer at work. *)
Leaves(t) == /\ Alone(t)
             /\ task'[t].pc \notin Working
             /\ \A d \in task'[t].doomed : d \in task[t].doomed \/ IsTerminal(d[1])

(* What it may do to an effect when it leaves. *)
Mild(t, e) == \/ journal'[e] = journal[e]
              \/ journal'[e] = Absent /\ Doomed(e)
              \/ /\ journal'[e] # Absent
                 /\ journal'[e].state \in {"leased", "uncertain", "terminal", "accepted"}
                 /\ journal'[e].state = "leased" => e \in Outbound
                 /\ e \in Outbound => /\ \/ task[t].ev = e /\ task[t].pc \in Working
                                         \/ Present(e) /\ journal[e].state = "lapsed"
                                      /\ journal'[e].state # "accepted"
                                      /\ journal'[e].state = "terminal" => sent[e] = 1
                 /\ journal'[e].state = "accepted" => task[t].ev = e /\ Owes(t)

(* Leaving keeps the accounts. *)
LEMMA LeavesOnce ==
    ASSUME IInv, Shape', Once, NEW t \in Tasks, Leaves(t), \A e \in Effects \ expired : Mild(t, e),
           inc' = inc, sent' = sent, expired' = expired, life' = life
    PROVE  Once'
<1>1. Shape BY DEF IInv
<1>2. ASSUME NEW e \in Effects \ expired PROVE Dropped(e)'
  <2>1. Dropped(e) /\ Mild(t, e) BY Zenon DEF Once
  <2>2. journal'[e] = journal[e] \/ journal'[e] = Absent \/ journal'[e].state # "lapsed" BY Zenon, <2>1 DEF Mild
  <2> QED BY Zenon, <2>1, <2>2, DroppedStep DEF Leaves
<1>3. ASSUME NEW e \in Inbound \ expired PROVE Honest(e)'
  <2>1. Honest(e) /\ e \in Effects /\ Mild(t, e) BY Zenon, <1>3 DEF Once, Effects
  <2>2. ~Owes(t)' /\ Due(t, e)' = 0 BY Zenon DEF Leaves, Due, Owes, Working
  <2>3. Due(t, e) \in Nat /\ Claimable(e) \in Nat /\ Claimable(e)' \in Nat BY Zenon DEF Due, Claimable
  <2>4. Claimable(e)' <= Due(t, e) + Claimable(e)
    <3>1. CASE journal'[e] = journal[e]
      <4>1. Due(t, e)' + Claimable(e)' <= Due(t, e) + Claimable(e) BY Zenon, <3>1, <2>2, SameRecord DEF Leaves
      <4> QED BY <4>1, <2>2, <2>3
    <3>2. CASE journal'[e] # journal[e]
      <4>1. CASE task[t].ev = e /\ Owes(t)
        <5>1. Due(t, e) = 1 /\ Claimable(e)' \in {0, 1} BY Zenon, <4>1 DEF Due, Claimable
        <5> QED BY <5>1, <2>3
      <4>2. CASE ~(task[t].ev = e /\ Owes(t))
        <5>1. journal'[e] = Absent \/ journal'[e].state \in {"uncertain", "terminal"}
          BY Zenon, <3>2, <4>2, <2>1, <1>3, KindsAssumption DEF Mild
        <5>2. Claimable(e)' = 0 BY Zenon, <5>1 DEF Claimable, ToClaim, Unused, Present
        <5> QED BY <5>2, <2>3
      <4> QED BY <4>1, <4>2
    <3> QED BY <3>1, <3>2
  <2>5. sent[e] \in Nat /\ life[e] \in Nat BY <1>1, <2>1 DEF Shape, TypeOK
  <2>6. Balance(t, e) BY <2>2, <2>3, <2>4, <2>5 DEF Balance
  <2> QED BY Zenon, <1>1, <2>1, <2>6, BalanceKeeps DEF Leaves
<1>4. ASSUME NEW e \in Outbound \ expired PROVE Posted(e)'
  <2>1. Posted(e) /\ e \in Effects /\ Mild(t, e) BY Zenon, <1>4 DEF Once, Effects
  <2>2. Present(e)' => /\ journal'[e].state \notin {"pending", "accepted"}
                       /\ journal'[e].state = "terminal" => sent[e] = 1
    BY Zenon, <2>1, <1>4 DEF Mild, Posted, Present
  <2>3. \A d \in task'[t].doomed : d[1] = e => sent[e] = 1 BY Zenon, <2>1 DEF Leaves, Posted, Doomed, IsTerminal
  <2>4. sent[e] = 0 => \A u \in Tasks \ {t} : task[u].ev = e /\ task[u].pc \in Working => journal'[e] = journal[e]
    <3> SUFFICES ASSUME sent[e] = 0, NEW u \in Tasks \ {t}, task[u].ev = e, task[u].pc \in Working
                 PROVE  journal'[e] = journal[e]
      OBVIOUS
    <3>1. HeldBy(u, e) BY Zenon, <2>1 DEF Posted, HeldBy
    <3>2. ~(Present(e) /\ journal[e].state = "lapsed") BY Zenon, <3>1, <2>1 DEF Once, Dropped
    <3>3. ~(task[t].ev = e /\ task[t].pc \in Working) BY Zenon, <2>1 DEF Posted
    <3>4. ~Doomed(e) BY <2>1 DEF Posted
    <3> QED BY Zenon, <3>2, <3>3, <3>4, <2>1 DEF Mild
  <2> QED BY Zenon, <1>1, <2>1, <2>2, <2>3, <2>4, MessageStep DEF Leaves
<1> QED BY Zenon, <1>2, <1>3, <1>4 DEF Once

(* The end of the work on an effect. *)
LEMMA EndLeaves == ASSUME Shape, NEW t \in Tasks, Done(t) \/ Quit(t) PROVE Leaves(t)
<1>1. /\ task' = [task EXCEPT ![t] = task'[t]] /\ Sound(task'[t])
      /\ task'[t].pc \in {"idle", "sweep", "look"} /\ task'[t].doomed \subseteq task[t].doomed
  BY DoneIs, QuitIs
<1>2. Alone(t) BY <1>1, OneTask
<1> QED BY Zenon, <1>1, <1>2 DEF Leaves, Working

(* A task that starts over, or has stopped, leaves. *)
LEMMA FreshLeaves ==
    ASSUME Shape, NEW t \in Tasks, NEW r, task' = [task EXCEPT ![t] = r], r.pc \notin Working,
           \A d \in r.doomed : d \in task[t].doomed \/ IsTerminal(d[1])
    PROVE  Leaves(t)
BY Zenon DEF Shape, TypeOK, Leaves, Alone

(* The steps that leave the journal alone and do not go on with the work. *)
LEMMA IdleStepsLeave ==
    ASSUME IInv, NEW t \in Tasks,
           \/ Reserve(t) \/ NoEndpoint(t) \/ Prune(t) \/ Finish(t) \/ Recover(t) \/ Look(t) \/ Schedule(t) \/ Throw(t)
           \/ \E e \in Effects : SweepOutbound(t, e) \/ SweepReceipt(t, e) \/ SweepOrphan(t, e)
    PROVE  Leaves(t) /\ journal' = journal /\ inc' = inc /\ sent' = sent /\ expired' = expired /\ life' = life
<1>1. Shape /\ task[t] \in TaskStates BY DEF IInv, Shape, TypeOK
<1> USE DEF conversation, history
<1>2. CASE Reserve(t)
  <2> DEFINE r == [task[t] EXCEPT !.pc = "reject"]
             q == [task[t] EXCEPT !.pc = "dispatch"]
  <2>1. r.pc = "reject" /\ r.doomed = task[t].doomed /\ q.pc = "dispatch" /\ q.doomed = task[t].doomed
    BY <1>1 DEF TaskStates
  <2>2. \/ task' = [task EXCEPT ![t] = r] \/ task' = [task EXCEPT ![t] = q] \/ task' = [task EXCEPT ![t] = Idle]
    BY <1>2 DEF Reserve, Go
  <2> HIDE DEF r, q
  <2>3. Leaves(t) BY Zenon, <1>1, <2>1, <2>2, IdleIs, FreshLeaves DEF Working
  <2> QED BY <1>2, <2>3 DEF Reserve
<1>3. CASE NoEndpoint(t) BY Zenon, <1>1, <1>3, EndLeaves DEF NoEndpoint
<1>4. CASE Prune(t)
  <2>1. PICK D \in SUBSET Effects : Oldest(D) /\ Listed(t, D \ receipts) BY <1>4 DEF Prune
  <2> DEFINE L == {<<x, life[x]>> : x \in D \ receipts}
             s == IF D \ receipts = {} THEN "finish" ELSE "evict"
             r == [task[t] EXCEPT !.pc = s, !.doomed = L]
  <2>2. task' = [task EXCEPT ![t] = r] BY Zenon, <2>1 DEF Listed
  <2>3. s \in {"finish", "evict"} OBVIOUS
  <2>4. \A d \in L : IsTerminal(d[1]) BY <2>1 DEF Oldest
  <2> HIDE DEF L, s
  <2>5. r.pc = s /\ r.doomed = L BY <1>1 DEF TaskStates
  <2> HIDE DEF r
  <2>6. Leaves(t) BY Zenon, <1>1, <2>2, <2>3, <2>4, <2>5, FreshLeaves DEF Working
  <2> QED BY <1>4, <2>6 DEF Prune
<1>5. CASE Finish(t) BY Zenon, <1>1, <1>5, EndLeaves DEF Finish
<1>6. CASE Recover(t)
  <2> DEFINE r == [Idle EXCEPT !.pc = "sweep", !.kind = "recovery", !.todo = Effects]
  <2>1. task' = [task EXCEPT ![t] = r] /\ r.pc = "sweep" /\ r.doomed = {} BY <1>6 DEF Recover, Idle
  <2> HIDE DEF r
  <2>2. Leaves(t) BY Zenon, <1>1, <2>1, FreshLeaves DEF Working
  <2> QED BY <1>6, <2>2 DEF Recover
<1>7. CASE Look(t)
  <2> DEFINE work == task[t].kind = "failing" \/ \E e \in Effects : Recoverable(e)
             s == IF work THEN "set" ELSE "clear"
             r == [Idle EXCEPT !.pc = s]
  <2>1. task' = [task EXCEPT ![t] = r] /\ s \in {"set", "clear"} BY <1>7 DEF Look
  <2> HIDE DEF s
  <2>2. r.pc = s /\ r.doomed = {} BY DEF Idle
  <2> HIDE DEF r
  <2>3. Leaves(t) BY Zenon, <1>1, <2>1, <2>2, FreshLeaves DEF Working
  <2> QED BY <1>7, <2>3 DEF Look
<1>8. CASE Schedule(t)
  <2>1. Leaves(t) BY Zenon, <1>1, <1>8, IdleIs, FreshLeaves DEF Schedule, Working
  <2> QED BY <1>8, <2>1 DEF Schedule
<1>9. CASE Throw(t)
  <2> DEFINE r == [Idle EXCEPT !.pc = "look", !.kind = "failing"]
  <2>1. r.pc = "look" /\ r.doomed = {} BY DEF Idle
  <2>2. task' = [task EXCEPT ![t] = Idle] \/ Done(t) \/ task' = [task EXCEPT ![t] = r] BY <1>9 DEF Throw
  <2> HIDE DEF r
  <2>3. Leaves(t) BY Zenon, <1>1, <2>1, <2>2, IdleIs, EndLeaves, FreshLeaves DEF Working
  <2> QED BY <1>9, <2>3 DEF Throw
<1>10. ASSUME NEW e \in Effects, SweepOutbound(t, e) \/ SweepReceipt(t, e) \/ SweepOrphan(t, e)
       PROVE  Leaves(t) /\ journal' = journal /\ inc' = inc /\ sent' = sent /\ expired' = expired /\ life' = life
  <2>1. Quiet(t)
    <3>1. \/ Pass(t, e)
          \/ task' = [task EXCEPT ![t].todo = @ \ {e}, ![t].kind = "failing"]
          \/ \E s \in {"reject", "stale", "dispatch"} : TakeUp(t, e, s)
      BY <1>10 DEF SweepOutbound, SweepReceipt, SweepOrphan
    <3>2. task[t].pc = "sweep" BY <1>10 DEF SweepOutbound, SweepReceipt, SweepOrphan, At
    <3> QED BY <1>1, <3>1, <3>2, SweepIs
  <2>2. task[t].pc \notin Working BY <1>10 DEF SweepOutbound, SweepReceipt, SweepOrphan, At, Working
  <2>3. Leaves(t) BY Zenon, <2>1, <2>2 DEF Quiet, Claimless, Leaves
  <2> QED BY <1>10, <2>3 DEF SweepOutbound, SweepReceipt, SweepOrphan
<1> QED BY <1>2, <1>3, <1>4, <1>5, <1>6, <1>7, <1>8, <1>9, <1>10

(* What a change of a record writes. *)
LEMMA Writes ==
    ASSUME Shape, NEW e \in Effects, Present(e), NEW s \in {"leased", "accepted", "uncertain", "terminal"},
           (Renew(e) /\ s = "leased") \/ Record(e, s)
    PROVE  /\ \A x \in Effects : x # e => journal'[x] = journal[x]
           /\ journal'[e] # Absent /\ journal'[e].state = s /\ journal'[e].epoch = journal[e].epoch
           /\ Renew(e) => journal'[e].owner = journal[e].owner
<1>1. journal \in [Effects -> Records \cup {Absent}] /\ journal[e] \in Records BY DEF Shape, TypeOK, Present
<1>2. CASE Renew(e) /\ s = "leased"
  <2> DEFINE r == [journal[e] EXCEPT !.state = "leased"]
  <2>1. r \in Records /\ r.state = s /\ r.epoch = journal[e].epoch /\ r.owner = journal[e].owner BY <1>1, <1>2 DEF Records
  <2>2. journal' = [journal EXCEPT ![e] = r] BY <1>2 DEF Renew
  <2> HIDE DEF r
  <2>3. journal'[e] = r /\ \A x \in Effects : x # e => journal'[x] = journal[x] BY <1>1, <2>2
  <2> QED BY <2>1, <2>3, AbsentAssumption
<1>3. CASE Record(e, s) /\ ~Renew(e)
  <2> DEFINE r == [journal[e] EXCEPT !.state = s, !.owner = 0]
  <2>1. r \in Records /\ r.state = s /\ r.epoch = journal[e].epoch BY Zenon, <1>1 DEF Records
  <2>2. journal' = [journal EXCEPT ![e] = r] BY Zenon, <1>3 DEF Record
  <2> HIDE DEF r
  <2>3. journal'[e] = r /\ \A x \in Effects : x # e => journal'[x] = journal[x] BY <1>1, <2>2
  <2> QED BY <1>3, <2>1, <2>3, AbsentAssumption
<1>4. CASE Record(e, s) /\ Renew(e)
  <2> DEFINE r == [journal[e] EXCEPT !.state = s, !.owner = 0]
             q == [journal[e] EXCEPT !.state = "leased"]
  <2>1. r \in Records /\ r.state = s /\ r.epoch = journal[e].epoch /\ q.owner = journal[e].owner BY Zenon, <1>1 DEF Records
  <2>2. journal' = [journal EXCEPT ![e] = r] /\ journal' = [journal EXCEPT ![e] = q] BY Zenon, <1>4 DEF Record, Renew
  <2> HIDE DEF r, q
  <2>3. journal'[e] = r /\ journal'[e] = q /\ \A x \in Effects : x # e => journal'[x] = journal[x] BY <1>1, <2>2
  <2> QED BY <2>1, <2>3, AbsentAssumption
<1> QED BY Zenon, <1>2, <1>3, <1>4

(* Whoever holds a claim on it finds the effect in the journal. *)
LEMMA HolderFinds == ASSUME Shape, NEW t \in Tasks, task[t].pc \in Working, Holds(t)
                     PROVE  /\ task[t].ev \in Effects /\ Present(task[t].ev)
                            /\ journal[task[t].ev].state \in {"leased", "lapsed"}
                            /\ journal[task[t].ev].owner = inc /\ journal[task[t].ev].epoch = task[t].ep
BY DEF Shape, Sound, Holds, Fenced

(* The steps that leave the journal alone. *)
LEMMA IdleOnce ==
    ASSUME IInv, Shape', Once, NEW t \in Tasks,
           \/ Reserve(t) \/ NoEndpoint(t) \/ Prune(t) \/ Finish(t) \/ Recover(t) \/ Look(t) \/ Schedule(t) \/ Throw(t)
           \/ \E e \in Effects : SweepOutbound(t, e) \/ SweepReceipt(t, e) \/ SweepOrphan(t, e)
    PROVE  Once'
<1>1. Leaves(t) /\ journal' = journal /\ inc' = inc /\ sent' = sent /\ expired' = expired /\ life' = life
  BY IdleStepsLeave
<1>2. \A e \in Effects \ expired : Mild(t, e) BY Zenon, <1>1 DEF Mild
<1> QED BY <1>1, <1>2, LeavesOnce

(* An outcome is recorded. *)
LEMMA RecordOutcomeOnce == ASSUME IInv, Shape', Once, NEW t \in Tasks, RecordOutcome(t) PROVE Once'
<1> DEFINE e == task[t].ev
<1>1. Shape /\ task[t] \in TaskStates /\ task[t].pc = "record" /\ task[t].pc \in Working
      /\ task[t].want \in {"accepted", "uncertain", "terminal"}
  BY Zenon DEF IInv, Shape, TypeOK, RecordOutcome, At, Working, Sound
<1>2. Leaves(t)
  <2> DEFINE r == [task[t] EXCEPT !.pc = "prune"]
  <2>1. r.pc = "prune" /\ r.doomed = task[t].doomed BY <1>1 DEF TaskStates
  <2>2. task' = [task EXCEPT ![t] = r] \/ Done(t) BY DEF RecordOutcome, Go
  <2> HIDE DEF r
  <2> QED BY Zenon, <1>1, <2>1, <2>2, EndLeaves, FreshLeaves DEF Working
<1>3. inc' = inc /\ sent' = sent /\ expired' = expired /\ life' = life BY Zenon DEF RecordOutcome, conversation, history
<1>4. CASE journal' = journal BY Zenon, <1>2, <1>3, <1>4, LeavesOnce DEF Mild
<1>5. CASE journal' # journal
  <2>1. Holds(t) BY Zenon, <1>5 DEF RecordOutcome
  <2>2. e \in Effects /\ Present(e) BY <1>1, <2>1, HolderFinds
  <2>3. PICK s \in {"leased", "accepted", "uncertain", "terminal"} :
          (Renew(e) /\ s = "leased" /\ e \in Outbound) \/ (Record(e, s) /\ s = task[t].want)
    <3>1. CASE Renew(e) /\ e \in Outbound BY <3>1
    <3>2. CASE Record(e, task[t].want) BY <1>1, <3>2
    <3> QED BY Zenon, <1>5, <3>1, <3>2 DEF RecordOutcome
  <2>4. /\ \A x \in Effects : x # e => journal'[x] = journal[x]
        /\ journal'[e] # Absent /\ journal'[e].state = s
    BY Zenon, <1>1, <2>2, <2>3, Writes
  <2>5. (s # "leased" => s = task[t].want) /\ (s = "leased" => e \in Outbound) BY <1>1, <2>3
  <2>6. s = "accepted" => Owes(t) BY <1>1, <2>5 DEF Owes
  <2>7. e \in Outbound \ expired => s # "accepted" /\ (s = "terminal" => sent[e] = 1)
    BY Zenon, <1>1, <2>5 DEF Once, Posted
  <2>8. \A x \in Effects \ expired : Mild(t, x) BY Zenon, <1>1, <2>4, <2>5, <2>6, <2>7 DEF Mild
  <2> QED BY <1>2, <1>3, <2>8, LeavesOnce
<1> QED BY <1>4, <1>5

(* A rejected or stale effect is made terminal; a message is only once it has been sent. *)
LEMMA TerminalizeOnce == ASSUME IInv, Shape', Once, NEW t \in Tasks, Terminalize(t) PROVE Once'
<1> DEFINE e == task[t].ev
           w == IF At(t, "reject") THEN "rejected" ELSE "terminal"
           r(s) == [task[t] EXCEPT !.pc = s, !.want = w]
<1>1. Shape /\ task[t] \in TaskStates /\ task[t].pc \in {"reject", "stale"} BY DEF IInv, Shape, TypeOK, Terminalize
<1>2. e \in Effects BY Zenon, <1>1 DEF Shape, Sound
<1>3. Leaves(t)
  <2>1. \A s \in {"finish", "prune"} : r(s).pc = s /\ r(s).doomed = task[t].doomed BY <1>1 DEF TaskStates
  <2>2. (\E s \in {"finish", "prune"} : task' = [task EXCEPT ![t] = r(s)]) \/ Quit(t) BY Zenon DEF Terminalize
  <2> HIDE DEF r
  <2> QED BY <1>1, <2>1, <2>2, EndLeaves, FreshLeaves DEF Working
<1>4. inc' = inc /\ sent' = sent /\ expired' = expired /\ life' = life BY DEF Terminalize, conversation, history
<1>5. CASE journal' = journal BY <1>3, <1>4, <1>5, LeavesOnce DEF Mild
<1>6. CASE journal' # journal
  <2>1. /\ Present(e)
        /\ \/ journal[e].state = "lapsed" /\ Abandon(e)
           \/ journal[e].state \in {"pending", "accepted"} /\ Record(e, "terminal")
    BY <1>6 DEF Terminalize, IsOpen
  <2>2. journal \in [Effects -> Records \cup {Absent}] BY <1>1 DEF Shape, TypeOK
  <2>3. \A x \in Effects : x # e => journal'[x] = journal[x] BY <2>1, <2>2 DEF Abandon, Record
  <2>4. e \in Outbound \ expired => journal[e].state = "lapsed" /\ Abandon(e)
    BY Zenon, <2>1 DEF Once, Posted
  <2>5. /\ journal'[e] # Absent /\ journal'[e].state \in {"uncertain", "terminal"}
        /\ Abandon(e) => journal'[e].state = "uncertain"
    <3> DEFINE q == [state |-> "uncertain", owner |-> 0, epoch |-> journal[e].epoch + 1]
    <3>1. CASE Abandon(e)
      <4>1. journal[e] \in Records BY <1>2, <2>1, <2>2 DEF Present
      <4>2. q \in Records /\ q.state = "uncertain" BY <4>1 DEF Records
      <4>3. journal' = [journal EXCEPT ![e] = q] BY <3>1 DEF Abandon
      <4> HIDE DEF q
      <4>4. journal'[e] = q BY <1>2, <2>2, <4>3
      <4> QED BY Zenon, <4>2, <4>4, AbsentAssumption
    <3>2. CASE ~Abandon(e)
      <4>1. journal'[e] # Absent /\ journal'[e].state = "terminal" BY Zenon, <3>2, <1>1, <1>2, <2>1, Writes
      <4> QED BY Zenon, <3>2, <4>1
    <3> QED BY <3>1, <3>2
  <2>6. \A x \in Effects \ expired : Mild(t, x) BY Zenon, <2>1, <2>3, <2>4, <2>5 DEF Mild
  <2> QED BY <1>3, <1>4, <2>6, LeavesOnce
<1> QED BY <1>5, <1>6

(* A listed effect is evicted. *)
LEMMA EvictOnce == ASSUME IInv, Shape', Once, NEW t \in Tasks, Evict(t) PROVE Once'
<1>1. Shape /\ Over /\ task[t] \in TaskStates BY DEF IInv, Shape, TypeOK
<1>2. PICK d \in task[t].doomed :
        /\ task' = [task EXCEPT ![t].doomed = @ \ {d}, ![t].pc = IF task[t].doomed = {d} THEN "finish" ELSE "evict"]
        /\ journal' = [journal EXCEPT ![d[1]] = Absent] \/ UNCHANGED journal
  BY Zenon DEF Evict
<1> DEFINE s == IF task[t].doomed = {d} THEN "finish" ELSE "evict"
           r == [task[t] EXCEPT !.doomed = @ \ {d}, !.pc = s]
<1>3. s \in {"finish", "evict"} /\ task' = [task EXCEPT ![t] = r] BY Zenon, <1>2
<1> HIDE DEF s
<1>4. r.pc = s /\ r.doomed \subseteq task[t].doomed BY <1>1 DEF TaskStates
<1> HIDE DEF r
<1>5. Leaves(t) BY Zenon, <1>1, <1>3, <1>4, FreshLeaves DEF Working
<1>6. inc' = inc /\ sent' = sent /\ expired' = expired /\ life' = life BY DEF Evict, conversation, history
<1>7. d[1] \in Effects /\ Doomed(d[1]) /\ journal \in [Effects -> Records \cup {Absent}]
  BY Zenon, <1>1 DEF Over, Doomed, Shape, TypeOK
<1>8. \A x \in Effects \ expired : Mild(t, x) BY <1>2, <1>7 DEF Mild
<1> QED BY <1>5, <1>6, <1>8, LeavesOnce

(* Nothing is done about an effect. *)
LEMMA SameEffect ==
    ASSUME task' = task, inc' = inc, NEW e, journal'[e] = journal[e], sent'[e] = sent[e], life'[e] = life[e]
    PROVE  /\ Dropped(e) => Dropped(e)'
           /\ Honest(e) => Honest(e)'
           /\ Posted(e) => Posted(e)'
<1>1. \A t \in Tasks : task[t].ev = e => (Holds(t)' <=> Holds(t)) BY Zenon DEF Holds, Fenced, Present
<1>2. (Present(e)' <=> Present(e)) /\ (Doomed(e)' <=> Doomed(e)) BY Zenon DEF Present, Doomed
<1>3. Dropped(e) => Dropped(e)' BY Zenon, <1>1, <1>2 DEF Dropped, HeldBy
<1>4. Honest(e) => Honest(e)'
  <2>1. Debtors(e)' = Debtors(e) BY DEF Debtors, Owes
  <2>2. \A t \in Debtors(e) : Holds(t)' <=> Holds(t) BY Zenon, <1>1 DEF Debtors
  <2>3. Claimable(e)' = Claimable(e) BY Zenon, <1>2, <2>1, <2>2 DEF Claimable, ToClaim, Unused
  <2> QED BY Zenon, <2>1, <2>3 DEF Honest
<1>5. Posted(e) => Posted(e)' BY Zenon, <1>1, <1>2 DEF Posted
<1> QED BY <1>3, <1>4, <1>5

(* A step of nobody's, or of a holder whose claim had run out before. *)
LEMMA SameOnce ==
    ASSUME Once, task' = task, inc' = inc, sent' = sent, life' = life, expired \subseteq expired',
           \A e \in Effects \ expired' : journal'[e] = journal[e]
    PROVE  Once'
<1>1. \A e \in Effects \ expired' : /\ Dropped(e) => Dropped(e)'
                                    /\ Honest(e) => Honest(e)'
                                    /\ Posted(e) => Posted(e)'
  BY Zenon, SameEffect
<1>2. \A e \in Effects \ expired' : e \in Effects \ expired OBVIOUS
<1>3. \A e \in Inbound \ expired' : e \in Effects \ expired' /\ e \in Inbound \ expired BY DEF Effects
<1>4. \A e \in Outbound \ expired' : e \in Effects \ expired' /\ e \in Outbound \ expired BY DEF Effects
<1> QED BY Zenon, <1>1, <1>2, <1>3, <1>4 DEF Once

(* A claim runs out that nobody uses: it can be claimed as before. *)
LEMMA ExpireOnce == ASSUME IInv, Once, NEW e \in Effects, Expire(e) PROVE Once'
<1>1. Shape /\ journal \in [Effects -> Records \cup {Absent}] BY DEF IInv, Shape, TypeOK
<1>2. task' = task /\ inc' = inc /\ sent' = sent /\ life' = life /\ expired \subseteq expired' BY DEF Expire
<1>3. \A x \in Effects : x # e => journal'[x] = journal[x] BY <1>1 DEF Expire
<1>4. CASE e \in expired'
  <2>1. \A x \in Effects \ expired' : journal'[x] = journal[x] BY Zenon, <1>3, <1>4
  <2> QED BY Zenon, <1>2, <2>1, SameOnce
<1>5. CASE e \notin expired'
  <2>1. ~InUse(e) /\ Present(e) /\ journal[e].state = "leased" BY Zenon, <1>5 DEF Expire, IsOpen
  <2>2. \A t \in Tasks : ~HeldBy(t, e) BY Zenon, <2>1 DEF InUse
  <2> DEFINE q == [journal[e] EXCEPT !.state = "lapsed"]
  <2>3. journal[e] \in Records BY <1>1, <2>1 DEF Present
  <2>4. /\ q \in Records /\ q.state = "lapsed" /\ q.owner = journal[e].owner /\ q.epoch = journal[e].epoch
    BY Zenon, <2>3 DEF Records
  <2>5. journal' = [journal EXCEPT ![e] = q] BY DEF Expire
  <2> HIDE DEF q
  <2>6. journal'[e] = q /\ journal'[e] # Absent BY <1>1, <2>4, <2>5, AbsentAssumption
  <2>7. \A t \in Tasks : task[t].ev = e => (Holds(t)' <=> Holds(t))
    BY Zenon, <1>2, <2>1, <2>4, <2>6 DEF Holds, Fenced, Present
  <2>8. Dropped(e)' BY Zenon, <1>2, <2>2, <2>7 DEF Dropped, HeldBy
  <2>9. e \in Inbound \ expired => Honest(e)'
    <3> SUFFICES ASSUME e \in Inbound \ expired PROVE Honest(e)' OBVIOUS
    <3>1. Honest(e) /\ sent[e] \in Nat BY <1>1 DEF Once, Shape, TypeOK
    <3>2. sent[e] = 0 BY <2>1, <3>1 DEF InUse
    <3>3. \A t \in Debtors(e) : ~Holds(t) BY Zenon, <2>2 DEF Debtors, HeldBy, Owes, Working
    <3>4. Claimable(e) = 1 BY Zenon, <2>1, <3>2, <3>3 DEF Claimable, ToClaim, Unused
    <3>5. Claimable(e)' = 1 BY Zenon, <2>4, <2>6 DEF Claimable, ToClaim, Present
    <3>6. Debtors(e)' = Debtors(e) BY <1>2 DEF Debtors, Owes
    <3> QED BY Zenon, <1>2, <3>1, <3>4, <3>5, <3>6 DEF Honest
  <2>10. e \in Outbound \ expired => Posted(e)'
    <3> SUFFICES ASSUME e \in Outbound \ expired PROVE Posted(e)' OBVIOUS
    <3>1. Posted(e) BY DEF Once
    <3>2. sent[e] = 0 => \A t \in Tasks : ~(task[t].ev = e /\ task[t].pc \in Working)
      BY Zenon, <2>2, <3>1 DEF Posted, HeldBy
    <3>3. journal'[e].state = "lapsed" /\ (Doomed(e)' <=> Doomed(e)) BY Zenon, <1>2, <2>4, <2>6 DEF Doomed
    <3> QED BY Zenon, <1>2, <3>1, <3>2, <3>3 DEF Posted
  <2>11. \A x \in Effects : x # e => /\ Dropped(x) => Dropped(x)'
                                     /\ Honest(x) => Honest(x)'
                                     /\ Posted(x) => Posted(x)'
    BY Zenon, <1>2, <1>3, SameEffect
  <2> QED BY Zenon, <1>2, <2>8, <2>9, <2>10, <2>11 DEF Once, Effects
<1> QED BY <1>4, <1>5

(* Claims run out, the binding changes, and a holder renews a claim that had run out. *)
LEMMA WorldOnce ==
    ASSUME IInv, Once, \/ \E e \in Effects : Expire(e)
                       \/ \E t \in Tasks : RenewTick(t)
                       \/ Move
                       \/ UNCHANGED vars
    PROVE  Once'
<1>1. Shape /\ journal \in [Effects -> Records \cup {Absent}] BY DEF IInv, Shape, TypeOK
<1>2. ASSUME NEW t \in Tasks, RenewTick(t) PROVE Once'
  <2>1. Holds(t) /\ task[t].pc \in Working /\ Renew(task[t].ev) /\ journal[task[t].ev].state = "lapsed"
    BY <1>2 DEF RenewTick, Working
  <2>2. task[t].ev \in expired BY Zenon, <1>1, <2>1, HolderFinds DEF Once, Dropped, HeldBy
  <2>3. \A x \in Effects \ expired : journal'[x] = journal[x] BY <1>1, <2>1, <2>2 DEF Renew
  <2> QED BY Zenon, <1>2, <2>3, SameOnce DEF RenewTick, conversation, history
<1>3. CASE Move BY <1>3, SameOnce DEF Move
<1>4. CASE UNCHANGED vars BY <1>4, SameOnce DEF vars, conversation, history
<1> QED BY <1>2, <1>3, <1>4, ExpireOnce

(* A fact of arithmetic. *)
LEMMA ZeroNotOne == 0 # 1
OBVIOUS

(* A crash forgives what the tasks owe, or leaves it to be claimed again. *)
LEMMA CrashOnce == ASSUME IInv, Once, Crash PROVE Once'
<1>1. Shape BY DEF IInv
<1>2. \A t \in Tasks : task'[t].pc = "idle" /\ task'[t].doomed = {} BY IdleIs DEF Crash
<1>3. journal' = journal /\ sent' = sent /\ life' = life /\ expired' = expired BY DEF Crash
<1>4. ASSUME NEW e \in Inbound \ expired PROVE Honest(e)'
  <2>1. Honest(e) /\ e \in Effects BY <1>4 DEF Once, Effects
  <2>2. Debtors(e)' = {} BY <1>2 DEF Debtors, Owes
  <2>3. IsFiniteSet(Debtors(e))' /\ Cardinality(Debtors(e))' = 0 BY <2>2, FS_EmptySet
  <2>4. Claimable(e) \in {0, 1} /\ Claimable(e)' \in {0, 1} BY Zenon DEF Claimable
  <2>5. Cardinality(Debtors(e)) \in Nat BY <2>1, FS_CardinalityType DEF Honest
  <2>6. sent[e] \in Nat /\ life[e] \in Nat BY <1>1, <2>1 DEF Shape, TypeOK
  <2>7. sent[e] + Cardinality(Debtors(e)) + Claimable(e) <= life[e] BY <2>1 DEF Honest
  <2>8. Claimable(e)' <= Claimable(e) + Cardinality(Debtors(e))
    <3>1. CASE Debtors(e) = {}
      <4>1. ToClaim(e)' => ToClaim(e) BY Zenon, <1>3, <3>1 DEF ToClaim, Unused, Present
      <4>2. Claimable(e)' = 1 => Claimable(e) = 1 BY Zenon, <4>1, ZeroNotOne DEF Claimable
      <4> QED BY <4>2, <2>4, <2>5
    <3>2. CASE Debtors(e) # {}
      <4>1. Cardinality(Debtors(e)) # 0 BY Zenon, <3>2, <2>1, FS_EmptySet DEF Honest
      <4> QED BY <4>1, <2>4, <2>5
    <3> QED BY <3>1, <3>2
  <2>9. sent'[e] + Cardinality(Debtors(e))' + Claimable(e)' <= life'[e] BY <1>3, <2>3, <2>4, <2>5, <2>6, <2>7, <2>8
  <2> QED BY <2>3, <2>9 DEF Honest
<1>5. ASSUME NEW e \in Outbound \ expired PROVE Posted(e)'
  <2>1. Posted(e) BY <1>5 DEF Once
  <2>2. ~Doomed(e)' BY <1>2 DEF Doomed
  <2>3. \A t \in Tasks : task'[t].pc \notin Working BY <1>2 DEF Working
  <2> QED BY Zenon, <1>3, <2>1, <2>2, <2>3 DEF Posted, Present
<1>6. ASSUME NEW e \in Effects \ expired PROVE Dropped(e)'
  <2>1. \A t \in Tasks : task'[t].pc \notin Working BY <1>2 DEF Working
  <2> QED BY Zenon, <2>1 DEF Dropped, HeldBy
<1> QED BY Zenon, <1>3, <1>4, <1>5, <1>6 DEF Once

(* A claim that has not run out is renewed. *)
LEMMA RenewSame == ASSUME Shape, NEW e \in Effects, Present(e), journal[e].state = "leased", Renew(e)
                   PROVE  journal'[e] = journal[e]
<1>1. journal \in [Effects -> Records \cup {Absent}] /\ journal[e] \in Records BY DEF Shape, TypeOK, Present
<1>2. [journal[e] EXCEPT !.state = "leased"] = journal[e] BY Zenon, <1>1 DEF Records
<1>3. journal'[e] = [journal[e] EXCEPT !.state = "leased"] BY Zenon, <1>1 DEF Renew
<1> QED BY Zenon, <1>2, <1>3

(* A task goes on with its effect, and renews its claim or leaves the journal alone. *)
LEMMA GoesOnOnce ==
    ASSUME IInv, Shape', Once, NEW t \in Tasks, Alone(t), task[t].pc \in Working,
           task'[t].ev = task[t].ev, task'[t].ep = task[t].ep, task'[t].doomed = task[t].doomed,
           task'[t].pc \in Working, Owes(t)' => Owes(t),
           journal' = journal \/ (Holds(t) /\ Renew(task[t].ev)),
           task[t].ev \in Outbound \ expired =>
              /\ task'[t].pc = "record" =>
                    task'[t].want # "accepted" /\ (task'[t].want = "terminal" => sent[task[t].ev] = 1)
              /\ task'[t].pc \in {"confirm", "sending"} => sent[task[t].ev] = 0,
           inc' = inc, sent' = sent, expired' = expired, life' = life
    PROVE  Once'
<1> DEFINE e == task[t].ev
<1>1. Shape /\ e \in Effects BY Zenon DEF IInv, Shape, Sound
<1>2. /\ \A x \in Effects : x # e => journal'[x] = journal[x]
      /\ journal' = journal \/ (journal'[e] # Absent /\ journal'[e].state = "leased")
      /\ Holds(t) => Holds(t)'
  <2>1. CASE journal' = journal BY Zenon, <2>1 DEF Holds, Fenced, Present
  <2>2. CASE Holds(t) /\ Renew(e)
    <3>1. Present(e) /\ journal[e].owner = inc /\ journal[e].epoch = task[t].ep BY Zenon, <1>1, <2>2, HolderFinds
    <3>2. /\ \A x \in Effects : x # e => journal'[x] = journal[x]
          /\ journal'[e] # Absent /\ journal'[e].state = "leased" /\ journal'[e].epoch = journal[e].epoch
          /\ journal'[e].owner = journal[e].owner
      BY Zenon, <1>1, <2>2, <3>1, Writes
    <3> QED BY Zenon, <3>1, <3>2 DEF Holds, Fenced, Present
  <2> QED BY Zenon, <2>1, <2>2
<1>3. ASSUME NEW x \in Effects \ expired PROVE Dropped(x)'
  <2>1. journal'[x] = journal[x] \/ journal'[x].state # "lapsed" BY Zenon, <1>2
  <2>2. Dropped(x) BY Zenon DEF Once
  <2> QED BY Zenon, <2>1, <2>2, DroppedStep
<1>4. ASSUME NEW x \in Inbound \ expired PROVE Honest(x)'
  <2>1. Honest(x) /\ x \in Effects BY Zenon, <1>4 DEF Once, Effects
  <2>2. Due(t, x) \in Nat /\ Due(t, x)' \in Nat /\ Claimable(x) \in Nat /\ Claimable(x)' \in Nat BY Zenon DEF Due, Claimable
  <2>3. journal'[x] = journal[x]
    <3>1. CASE journal' = journal BY Zenon, <3>1
    <3>2. CASE x # e BY Zenon, <3>2, <1>2, <2>1
    <3>3. CASE x = e /\ Holds(t) /\ Renew(e)
      <4>1. Present(e) /\ journal[e].state \in {"leased", "lapsed"} BY Zenon, <1>1, <3>3, HolderFinds
      <4>2. journal[e].state = "leased" BY Zenon, <3>3, <4>1, <2>1, <1>4 DEF Once, Dropped, HeldBy
      <4> QED BY Zenon, <1>1, <3>3, <4>1, <4>2, RenewSame
    <3> QED BY Zenon, <3>1, <3>2, <3>3
  <2>4. Due(t, x)' + Claimable(x)' <= Due(t, x) + Claimable(x) BY Zenon, <2>3, SameRecord
  <2>5. sent[x] \in Nat /\ life[x] \in Nat BY <1>1, <2>1 DEF Shape, TypeOK
  <2>6. Balance(t, x) BY <2>2, <2>4, <2>5 DEF Balance
  <2> QED BY Zenon, <1>1, <2>1, <2>6, BalanceKeeps
<1>5. ASSUME NEW x \in Outbound \ expired PROVE Posted(x)'
  <2>1. Posted(x) /\ x \in Effects BY Zenon, <1>5 DEF Once, Effects
  <2>2. Present(x)' => /\ journal'[x].state \notin {"pending", "accepted"}
                       /\ journal'[x].state = "terminal" => sent[x] = 1
    BY Zenon, <1>2, <2>1 DEF Posted, Present
  <2>3. \A d \in task'[t].doomed : d[1] = x => sent[x] = 1 BY Zenon, <2>1 DEF Posted, Doomed
  <2>4. sent[x] = 0 /\ x = e => Holds(t)' /\ \A u \in Tasks \ {t} : ~(task[u].ev = e /\ task[u].pc \in Working)
    BY Zenon, <1>2, <2>1 DEF Posted
  <2>5. sent[x] = 0 => \A u \in Tasks \ {t} : task[u].ev = x /\ task[u].pc \in Working => journal'[x] = journal[x]
    BY Zenon, <1>2, <2>1, <2>4
  <2> QED BY Zenon, <1>1, <1>5, <2>1, <2>2, <2>3, <2>4, <2>5, MessageStep
<1> QED BY Zenon, <1>3, <1>4, <1>5 DEF Once

(* The fence, passed or not. *)
LEMMA EnsureOnce == ASSUME IInv, Shape', Once, NEW t \in Tasks, Ensure(t) PROVE Once'
<1> DEFINE e == task[t].ev
           s == IF At(t, "confirm") THEN "sending" ELSE "ready"
           r == [task[t] EXCEPT !.pc = s]
<1>1. Shape /\ task[t] \in TaskStates /\ task[t].pc \in {"claimed", "confirm"} /\ task[t].pc \in Working /\ e \in Effects
  BY Zenon DEF IInv, Shape, TypeOK, Ensure, Working, Sound
<1>2. inc' = inc /\ sent' = sent /\ expired' = expired /\ life' = life BY Zenon DEF Ensure, conversation, history
<1>3. journal' = journal \/ (Holds(t) /\ Renew(e)) BY Zenon DEF Ensure
<1>4. CASE Done(t) /\ (journal' = journal \/ (Holds(t) /\ Renew(e) /\ e \in Outbound))
  <2>1. Leaves(t) BY <1>1, <1>4, EndLeaves
  <2>2. \A x \in Effects : Mild(t, x)
    <3>1. CASE journal' = journal BY <3>1 DEF Mild
    <3>2. CASE Holds(t) /\ Renew(e) /\ e \in Outbound
      <4>1. Present(e) BY Zenon, <1>1, <3>2, HolderFinds
      <4>2. /\ \A x \in Effects : x # e => journal'[x] = journal[x]
            /\ journal'[e] # Absent /\ journal'[e].state = "leased"
        BY Zenon, <1>1, <3>2, <4>1, Writes
      <4> QED BY Zenon, <1>1, <3>2, <4>2 DEF Mild
    <3> QED BY Zenon, <1>4, <3>1, <3>2
  <2> QED BY <1>2, <2>1, <2>2, LeavesOnce
<1>5. CASE Go(t, s)
  <2>1. task' = [task EXCEPT ![t] = r] BY <1>5 DEF Go
  <2>2. s \in {"ready", "sending"} /\ (s = "sending" => task[t].pc = "confirm") BY DEF At
  <2> HIDE DEF s
  <2>3. r.pc = s /\ r.ev = e /\ r.ep = task[t].ep /\ r.doomed = task[t].doomed BY <1>1 DEF TaskStates
  <2> HIDE DEF r
  <2>4. Alone(t) /\ task'[t] = r BY <1>1, <2>1 DEF Shape, TypeOK, Alone
  <2>5. Owes(t) BY <1>1 DEF Owes
  <2>6. s \in Working /\ s # "record" BY <2>2 DEF Working
  <2>7. e \in Outbound \ expired /\ s = "sending" => sent[e] = 0 BY Zenon, <1>1, <2>2 DEF Once, Posted
  <2> QED BY Zenon, <1>1, <1>2, <1>3, <2>2, <2>3, <2>4, <2>5, <2>6, <2>7, GoesOnOnce
<1> QED BY Zenon, <1>4, <1>5 DEF Ensure

(* The checks before a sending. *)
LEMMA CheckOnce == ASSUME IInv, Shape', Once, NEW t \in Tasks, Check(t) PROVE Once'
<1> DEFINE e == task[t].ev
<1>1. Shape /\ task[t] \in TaskStates /\ task[t].pc \in {"claimed", "ready"} /\ task[t].pc \in Working /\ e \in Effects
  BY Zenon DEF IInv, Shape, TypeOK, Check, Working, Sound
<1>2. journal' = journal /\ inc' = inc /\ sent' = sent /\ expired' = expired /\ life' = life
  BY Zenon DEF Check, conversation, history
<1>3. e \in Outbound \ expired => sent[e] \in {0, 1} BY Zenon DEF Once, Posted
<1>4. \E w \in {"accepted", "terminal"} :
         \/ Outcome(t, w) /\ (e \in Outbound => w = "terminal" /\ sent[e] > 0)
         \/ Go(t, "sending") /\ e \notin Outbound
         \/ Go(t, "confirm") /\ e \in Outbound /\ ~(sent[e] > 0)
  BY Zenon, KindsAssumption DEF Check
<1>5. PICK s \in {"record", "sending", "confirm"}, w \in {"accepted", "terminal", task[t].want} :
         /\ task' = [task EXCEPT ![t] = [task[t] EXCEPT !.pc = s, !.want = w]]
         /\ e \in Outbound => \/ s = "record" /\ w = "terminal" /\ sent[e] > 0
                              \/ s = "confirm" /\ ~(sent[e] > 0)
  <2>1. ASSUME NEW w \in {"accepted", "terminal"}, Outcome(t, w)
        PROVE task' = [task EXCEPT ![t] = [task[t] EXCEPT !.pc = "record", !.want = w]]
    BY Zenon, <2>1 DEF Outcome
  <2>2. ASSUME NEW s \in {"sending", "confirm"}, Go(t, s)
        PROVE task' = [task EXCEPT ![t] = [task[t] EXCEPT !.pc = s, !.want = task[t].want]]
    <3>1. [task[t] EXCEPT !.pc = s] = [task[t] EXCEPT !.pc = s, !.want = task[t].want] BY Zenon, <1>1 DEF TaskStates
    <3>2. task' = [task EXCEPT ![t] = [task[t] EXCEPT !.pc = s]] BY <2>2 DEF Go
    <3> QED BY Zenon, <3>1, <3>2
  <2> QED BY <1>4, <2>1, <2>2
<1> DEFINE r == [task[t] EXCEPT !.pc = s, !.want = w]
<1>6. r.pc = s /\ r.want = w /\ r.ev = e /\ r.ep = task[t].ep /\ r.doomed = task[t].doomed BY <1>1 DEF TaskStates
<1>7. Alone(t) /\ task'[t] = r BY <1>1, <1>5 DEF Shape, TypeOK, Alone
<1> HIDE DEF r
<1>8. Owes(t) BY <1>1 DEF Owes
<1>9. s \in Working BY DEF Working
<1> QED BY <1>1, <1>2, <1>3, <1>5, <1>6, <1>7, <1>8, <1>9, GoesOnOnce

(* A claim turns what can be claimed into a debt; of a message nobody is at work on. *)
LEMMA DispatchOnce == ASSUME IInv, Shape', Once, NEW t \in Tasks, Dispatch(t) PROVE Once'
<1> DEFINE e == task[t].ev
           n == journal[e].epoch + 1
           r == [task[t] EXCEPT !.pc = "claimed", !.ep = n]
<1>1. Shape /\ task[t] \in TaskStates /\ task[t].pc = "dispatch" /\ e \in Effects
  BY DEF IInv, Shape, TypeOK, Dispatch, At, Sound
<1>2. inc' = inc /\ sent' = sent /\ expired' = expired /\ life' = life BY DEF Dispatch, conversation, history
<1>3. CASE ~CanClaim(e)
  <2>1. Done(t) /\ journal' = journal BY <1>3 DEF Dispatch
  <2>2. Leaves(t) BY Zenon, <1>1, <2>1, EndLeaves
  <2> QED BY Zenon, <1>2, <2>1, <2>2, LeavesOnce DEF Mild
<1>4. CASE CanClaim(e)
  <2>1. /\ Claim(e, inc) /\ task' = [task EXCEPT ![t] = r] /\ Present(e)
        /\ journal[e].state \notin {"terminal", "leased"}
        /\ journal[e].state = "uncertain" => e \in Outbound
    BY Zenon, <1>4 DEF Dispatch, CanClaim, IsOpen
  <2>2. r.pc = "claimed" /\ r.ev = e /\ r.ep = n /\ r.doomed = task[t].doomed BY <1>1 DEF TaskStates
  <2> DEFINE q == [state |-> "leased", owner |-> inc, epoch |-> n]
  <2>3. journal[e] \in Records /\ inc \in Nat BY <1>1, <2>1 DEF Shape, TypeOK, Present
  <2>4. q \in Records /\ q.state = "leased" /\ q.owner = inc /\ q.epoch = n BY <2>3 DEF Records
  <2>5. journal' = [journal EXCEPT ![e] = q] BY <2>1 DEF Claim
  <2> HIDE DEF q, n, r
  <2>6. journal'[e] = q /\ \A x \in Effects : x # e => journal'[x] = journal[x] BY <1>1, <2>5 DEF Shape, TypeOK
  <2>7. Alone(t) /\ task'[t] = r BY <1>1, <2>1 DEF Shape, TypeOK, Alone
  <2>8. q # Absent BY <2>4, AbsentAssumption
  <2>9. Owes(t)' /\ ~Owes(t) BY Zenon, <1>1, <2>2, <2>7 DEF Owes
  <2>10. Holds(t)' BY Zenon, <1>2, <2>2, <2>4, <2>6, <2>7, <2>8 DEF Holds, Fenced, Present
  <2>11. ASSUME NEW x \in Effects \ expired PROVE Dropped(x)'
    <3>1. CASE x = e BY <3>1, <2>4, <2>6 DEF Dropped
    <3>2. CASE x # e
      <4>1. Dropped(x) /\ journal'[x] = journal[x] /\ task'[t].ev # x BY Zenon, <3>2, <2>2, <2>6, <2>7 DEF Once
      <4> QED BY Zenon, <1>2, <2>7, <4>1, DroppedStep
    <3> QED BY <3>1, <3>2
  <2>12. ASSUME NEW x \in Inbound \ expired PROVE Honest(x)'
    <3>1. Honest(x) /\ x \in Effects BY Zenon, <2>12 DEF Once, Effects
    <3>2. sent[x] \in Nat /\ life[x] \in Nat BY <1>1, <3>1 DEF Shape, TypeOK
    <3>3. Due(t, x)' + Claimable(x)' <= Due(t, x) + Claimable(x)
      <4>1. CASE x = e
        <5>1. journal[e].state \in {"pending", "accepted", "lapsed"}
          BY Zenon, <4>1, <2>1, <2>3, <2>12, KindsAssumption DEF Records
        <5>2. Claimable(x) = 1 BY Zenon, <4>1, <5>1, <2>1 DEF Claimable, ToClaim
        <5>3. Claimable(x)' = 0
          <6>1. t \in Debtors(x)' /\ Holds(t)' BY Zenon, <4>1, <2>2, <2>7, <2>9, <2>10 DEF Debtors
          <6>2. journal'[x].state = "leased" BY Zenon, <4>1, <2>4, <2>6
          <6> QED BY Zenon, <6>1, <6>2 DEF Claimable, ToClaim, Unused
        <5>4. Due(t, x) = 0 /\ Due(t, x)' = 1 BY <4>1, <2>2, <2>7, <2>9 DEF Due
        <5> QED BY <5>2, <5>3, <5>4
      <4>2. CASE x # e
        <5>1. journal'[x] = journal[x] /\ task'[t].ev # x BY Zenon, <4>2, <2>2, <2>6, <2>7, <3>1
        <5> QED BY Zenon, <1>2, <2>7, <5>1, SameRecord
      <4> QED BY <4>1, <4>2
    <3>4. Due(t, x) \in Nat /\ Due(t, x)' \in Nat /\ Claimable(x) \in Nat /\ Claimable(x)' \in Nat BY DEF Due, Claimable
    <3>5. Balance(t, x) BY <1>2, <3>2, <3>3, <3>4 DEF Balance
    <3> QED BY Zenon, <1>1, <2>7, <3>1, <3>5, BalanceKeeps
  <2>13. ASSUME NEW x \in Outbound \ expired PROVE Posted(x)'
    <3>1. Posted(x) /\ x \in Effects BY <2>13 DEF Once, Effects
    <3>2. Present(x)' => /\ journal'[x].state \notin {"pending", "accepted"}
                         /\ journal'[x].state = "terminal" => sent[x] = 1
      BY Zenon, <2>4, <2>6, <3>1 DEF Posted, Present
    <3>3. \A d \in task'[t].doomed : d[1] = x => sent[x] = 1 BY Zenon, <2>2, <2>7, <3>1 DEF Posted, Doomed
    <3>4. x = e /\ sent[x] = 0 => \A u \in Tasks : ~(task[u].ev = e /\ task[u].pc \in Working)
      BY Zenon, <1>1, <2>1, <2>13, <3>1, HolderFinds DEF Posted, Once, Dropped, HeldBy
    <3>5. sent[x] = 0 => \A u \in Tasks \ {t} : task[u].ev = x /\ task[u].pc \in Working => journal'[x] = journal[x]
      BY Zenon, <2>6, <3>1, <3>4
    <3>6. sent'[x] = sent[x] BY <1>2
    <3> QED BY Zenon, <1>1, <1>2, <2>2, <2>7, <2>10, <3>1, <3>2, <3>3, <3>4, <3>5, <3>6, MessageStep
  <2> QED BY Zenon, <1>2, <2>11, <2>12, <2>13 DEF Once
<1> QED BY <1>3, <1>4

(* The sending pays the debt; of a message it is the first and nobody else is at it. *)
LEMMA SendOnce == ASSUME IInv, Shape', Once, NEW t \in Tasks, Send(t) PROVE Once'
<1> DEFINE e == task[t].ev
           r(w) == [task[t] EXCEPT !.pc = "record", !.want = w]
<1>1. Shape /\ task[t] \in TaskStates /\ task[t].pc = "sending" /\ task[t].pc \in Working /\ e \in Effects /\ Owes(t)
  BY Zenon DEF IInv, Shape, TypeOK, Send, At, Working, Sound, Owes
<1>2. journal' = journal /\ inc' = inc /\ expired' = expired /\ life' = life BY DEF Send, conversation
<1>3. PICK w \in {"terminal", "uncertain", "accepted"} :
         /\ Outcome(t, w)
         /\ \/ sent' = [sent EXCEPT ![e] = @ + 1] /\ w # "accepted"
            \/ sent' = sent /\ (w = "accepted" => e \in Inbound) /\ w # "terminal"
  BY DEF Send
<1>4. task' = [task EXCEPT ![t] = r(w)] BY Zenon, <1>3 DEF Outcome
<1>5. r(w).pc = "record" /\ r(w).want = w /\ r(w).ev = e /\ r(w).ep = task[t].ep /\ r(w).doomed = task[t].doomed
  BY <1>1 DEF TaskStates
<1> HIDE DEF r
<1>6. Alone(t) /\ task'[t] = r(w) BY <1>1, <1>4 DEF Shape, TypeOK, Alone
<1>7. sent \in [Effects -> Nat] BY <1>1 DEF Shape, TypeOK
<1>8. CASE sent' = sent /\ (w = "accepted" => e \in Inbound) /\ w # "terminal"
  <2>1. task'[t].pc \in Working BY <1>5, <1>6 DEF Working
  <2>2. e \in Outbound => w # "accepted" BY <1>8, KindsAssumption
  <2> QED BY Zenon, <1>1, <1>2, <1>5, <1>6, <1>8, <2>1, <2>2, GoesOnOnce
<1>9. CASE sent' = [sent EXCEPT ![e] = @ + 1] /\ w # "accepted"
  <2>1. sent'[e] = sent[e] + 1 /\ \A x \in Effects : x # e => sent'[x] = sent[x] BY Zenon, <1>1, <1>7, <1>9
  <2>2. ~Owes(t)' BY <1>5, <1>6, <1>9 DEF Owes
  <2>3. ASSUME NEW x \in Inbound \ expired PROVE Honest(x)'
    <3>1. Honest(x) /\ x \in Effects BY <2>3 DEF Once, Effects
    <3>2. sent[x] \in Nat /\ life[x] \in Nat BY <1>1, <3>1 DEF Shape, TypeOK
    <3>3. Claimable(x) \in {0, 1} /\ Claimable(x)' \in {0, 1} BY Zenon DEF Claimable
    <3>4. Due(t, x)' = 0 /\ Due(t, x) = (IF x = e THEN 1 ELSE 0) BY Zenon, <1>1, <1>5, <1>6, <2>2 DEF Due
    <3>5. sent'[x] = sent[x] + (IF x = e THEN 1 ELSE 0) BY <2>1, <3>1, <3>2
    <3>6. Claimable(x)' <= Claimable(x)
      <4>1. CASE x = e
        <5>1. sent'[x] # 0 BY <4>1, <3>2, <3>5
        <5>2. ToClaim(x)' => ToClaim(x) BY Zenon, <1>2, <5>1 DEF ToClaim, Unused, Present
        <5>3. Claimable(x)' = 1 => Claimable(x) = 1 BY Zenon, <5>2, ZeroNotOne DEF Claimable
        <5> QED BY <5>3, <3>3
      <4>2. CASE x # e
        <5>1. task'[t].ev # x /\ sent'[x] = sent[x] BY Zenon, <4>2, <1>5, <1>6, <2>1, <3>1
        <5>2. Due(t, x)' + Claimable(x)' <= Due(t, x) + Claimable(x) BY Zenon, <1>2, <1>6, <5>1, SameRecord
        <5> QED BY <4>2, <5>2, <3>3, <3>4
      <4> QED BY <4>1, <4>2
    <3>7. Balance(t, x) BY <1>2, <3>2, <3>3, <3>4, <3>5, <3>6 DEF Balance
    <3> QED BY Zenon, <1>1, <1>6, <3>1, <3>7, BalanceKeeps
  <2>4. ASSUME NEW x \in Outbound \ expired PROVE Posted(x)'
    <3>1. Posted(x) /\ x \in Effects BY <2>4 DEF Once, Effects
    <3>2. \A u \in Tasks : u # t => task'[u] = task[u] BY <1>6 DEF Alone
    <3>3. CASE x # e
      <4>1. sent'[x] = sent[x] BY <2>1, <3>1, <3>3
      <4>2. task'[t].ev # x /\ task'[t].doomed = task[t].doomed BY Zenon, <1>5, <1>6, <3>3
      <4>3. Present(x)' => /\ journal'[x].state \notin {"pending", "accepted"}
                           /\ journal'[x].state = "terminal" => sent[x] = 1
        BY <1>2, <3>1 DEF Posted, Present
      <4>4. \A d \in task'[t].doomed : d[1] = x => sent[x] = 1 BY Zenon, <4>2, <3>1 DEF Posted, Doomed
      <4> QED BY Zenon, <1>1, <1>2, <1>6, <3>1, <4>1, <4>2, <4>3, <4>4, MessageStep
    <3>4. CASE x = e
      <4>1. sent[e] = 0 /\ sent'[e] = 1 BY <1>1, <2>1, <3>1, <3>4 DEF Posted
      <4>2. \A u \in Tasks \ {t} : ~(task[u].ev = e /\ task[u].pc \in Working) BY Zenon, <1>1, <3>1, <3>4, <4>1 DEF Posted
      <4>3. \A u \in Tasks : task'[u].ev = e /\ task'[u].pc \in Working => u = t BY Zenon, <3>2, <4>2
      <4>4. Present(x)' => journal'[x].state \notin {"pending", "accepted"} BY Zenon, <1>2, <3>1 DEF Posted, Present
      <4>5. \A u \in Tasks : task'[u].ev = x /\ task'[u].pc \in Working => task'[u].pc = "record" /\ task'[u].want # "accepted"
        BY Zenon, <1>5, <1>6, <1>9, <3>4, <4>3
      <4>6. sent'[x] = 1 BY Zenon, <3>4, <4>1
      <4> QED BY <4>3, <4>4, <4>5, <4>6 DEF Posted
    <3> QED BY <3>3, <3>4
  <2>5. ASSUME NEW x \in Effects \ expired PROVE Dropped(x)'
    <3>1. Dropped(x) BY Zenon DEF Once
    <3> QED BY Zenon, <1>1, <1>2, <1>5, <1>6, <3>1, DroppedStep
  <2> QED BY Zenon, <1>2, <2>3, <2>4, <2>5 DEF Once
<1> QED BY <1>3, <1>8, <1>9

(* An effect comes into the journal: a command to be claimed, a message with its claim. *)
LEMMA CreateOnce ==
    ASSUME IInv, Shape', Once, NEW t \in Tasks, NEW e \in Effects, HandleInbound(t, e) \/ Post(t, e) PROVE Once'
<1> DEFINE h == [Idle EXCEPT !.pc = "reserve", !.kind = "handler", !.ev = e]
           p(stage, epoch) == [Idle EXCEPT !.pc = stage, !.kind = "post", !.ev = e, !.ep = epoch]
<1>1. Shape /\ task[t].pc = "idle" BY DEF IInv, HandleInbound, Post, At
<1>2. inc' = inc /\ sent' = sent /\ expired' = expired BY DEF HandleInbound, Post, conversation
<1>3. h.pc = "reserve" /\ h.doomed = {} BY DEF Idle
<1>4. /\ p("dispatch", 0).pc = "dispatch" /\ p("dispatch", 0).doomed = {}
      /\ p("claimed", 1).pc = "claimed" /\ p("claimed", 1).doomed = {} /\ p("claimed", 1).ev = e /\ p("claimed", 1).ep = 1
  BY DEF Idle
<1>5. CASE Present(e)
  <2>1. (task' = [task EXCEPT ![t] = h] \/ task' = [task EXCEPT ![t] = p("dispatch", 0)]) /\ journal' = journal /\ life' = life
    BY <1>5 DEF HandleInbound, Post
  <2> HIDE DEF h, p
  <2>2. Leaves(t) BY Zenon, <1>1, <1>3, <1>4, <2>1, FreshLeaves DEF Working
  <2> QED BY Zenon, <1>2, <2>1, <2>2, LeavesOnce DEF Mild
<1>6. CASE ~Present(e)
  <2>1. PICK s \in {"pending", "leased"}, o \in Nat, n \in Nat, r \in {h, p("claimed", 1)} :
          /\ Create(e, s, o, n) /\ task' = [task EXCEPT ![t] = r]
          /\ \/ s = "pending" /\ r = h /\ e \in Inbound
             \/ s = "leased" /\ o = inc /\ n = 1 /\ r = p("claimed", 1) /\ e \in Outbound
    <3>1. inc \in Nat BY Zenon, <1>1 DEF Shape, TypeOK
    <3>2. CASE HandleInbound(t, e)
      <4>1. Create(e, "pending", 0, 0) /\ task' = [task EXCEPT ![t] = h] /\ e \in Inbound BY <1>6, <3>2 DEF HandleInbound
      <4> QED BY <4>1
    <3>3. CASE Post(t, e)
      <4>1. Create(e, "leased", inc, 1) /\ task' = [task EXCEPT ![t] = p("claimed", 1)] /\ e \in Outbound BY <1>6, <3>3 DEF Post
      <4> QED BY <3>1, <4>1
    <3> QED BY <3>2, <3>3
  <2>2. h.pc = "reserve" /\ r.doomed = {} BY Zenon, <1>3, <1>4
  <2> HIDE DEF h, p
  <2> DEFINE q == [state |-> s, owner |-> o, epoch |-> n]
  <2>3. q \in Records /\ q.state = s /\ q.owner = o /\ q.epoch = n BY Zenon DEF Records
  <2>4. journal' = [journal EXCEPT ![e] = q] /\ life' = [life EXCEPT ![e] = life[e] + 1] BY Zenon, <2>1 DEF Create
  <2> HIDE DEF q
  <2>5. /\ journal'[e] = q /\ life'[e] = life[e] + 1
        /\ \A x \in Effects : x # e => journal'[x] = journal[x] /\ life'[x] = life[x]
    BY Zenon, <1>1, <2>4 DEF Shape, TypeOK
  <2>6. Alone(t) /\ task'[t] = r BY Zenon, <1>1, <2>1 DEF Shape, TypeOK, Alone
  <2>7. q # Absent BY <2>3, AbsentAssumption
  <2>8. ASSUME NEW x \in Effects \ expired PROVE Dropped(x)'
    <3>1. CASE x = e BY <3>1, <2>3, <2>5 DEF Dropped
    <3>2. CASE x # e
      <4>1. Dropped(x) /\ journal'[x] = journal[x] BY Zenon, <3>2, <2>5 DEF Once
      <4>2. task'[t].pc \in Working => task'[t].ev # x BY Zenon, <3>2, <1>4, <2>1, <2>2, <2>6 DEF Working
      <4> QED BY Zenon, <1>2, <2>6, <4>1, <4>2, DroppedStep
    <3> QED BY <3>1, <3>2
  <2>9. ~Owes(t) /\ (r = h => ~Owes(t)') BY Zenon, <1>1, <2>2, <2>6 DEF Owes
  <2>10. ASSUME NEW x \in Inbound \ expired PROVE Honest(x)'
    <3>1. Honest(x) /\ x \in Effects BY Zenon, <2>10 DEF Once, Effects
    <3>2. sent[x] \in Nat /\ life[x] \in Nat BY Zenon, <1>1, <3>1 DEF Shape, TypeOK
    <3>3. Due(t, x) = 0 BY <2>9 DEF Due
    <3>4. Due(t, x)' = 0
      <4>1. CASE r = h BY <4>1, <2>9 DEF Due
      <4>2. CASE r = p("claimed", 1) /\ e \in Outbound
        <5>1. task'[t].ev # x BY Zenon, <4>2, <1>4, <2>6, <2>10, KindsAssumption
        <5> QED BY <5>1 DEF Due
      <4> QED BY <2>1, <4>1, <4>2
    <3>5. Claimable(x)' + life[x] <= Claimable(x) + life'[x]
      <4>1. CASE x = e
        <5>1. Claimable(x) = 0 /\ Claimable(x)' \in {0, 1} BY Zenon, <1>6, <4>1 DEF Claimable, ToClaim
        <5> QED BY <4>1, <5>1, <2>5, <3>2
      <4>2. CASE x # e
        <5>1. journal'[x] = journal[x] /\ life'[x] = life[x] /\ sent'[x] = sent[x] BY Zenon, <4>2, <1>2, <2>5, <3>1
        <5>2. ~(task'[t].ev = x /\ Owes(t)') BY Zenon, <3>4, ZeroNotOne DEF Due
        <5>3. Due(t, x)' + Claimable(x)' <= Due(t, x) + Claimable(x) BY Zenon, <1>2, <2>6, <5>1, <5>2, SameRecord
        <5>4. Claimable(x) \in {0, 1} /\ Claimable(x)' \in {0, 1} BY Zenon DEF Claimable
        <5> QED BY <5>1, <5>3, <5>4, <3>2, <3>3, <3>4
      <4> QED BY <4>1, <4>2
    <3>6. life'[x] \in Nat /\ Claimable(x) \in Nat /\ Claimable(x)' \in Nat BY Zenon, <3>1 DEF Claimable, Shape, TypeOK
    <3>7. Balance(t, x) BY <1>2, <3>2, <3>3, <3>4, <3>5, <3>6 DEF Balance
    <3> QED BY Zenon, <1>1, <2>6, <3>1, <3>7, BalanceKeeps
  <2>11. ASSUME NEW x \in Outbound \ expired PROVE Posted(x)'
    <3>1. Posted(x) /\ x \in Effects /\ sent'[x] = sent[x] BY Zenon, <1>2, <2>11 DEF Once, Effects
    <3>2. Present(x)' => /\ journal'[x].state \notin {"pending", "accepted"}
                         /\ journal'[x].state = "terminal" => sent[x] = 1
      BY Zenon, <2>1, <2>3, <2>5, <2>11, <3>1, KindsAssumption DEF Posted, Present
    <3>3. \A d \in task'[t].doomed : d[1] = x => sent[x] = 1 BY Zenon, <2>2, <2>6
    <3>4. x = e /\ sent[x] = 0 => \A u \in Tasks : ~(task[u].ev = e /\ task[u].pc \in Working)
      BY Zenon, <1>1, <1>6, <3>1, HolderFinds DEF Posted
    <3>5. sent[x] = 0 => \A u \in Tasks \ {t} : task[u].ev = x /\ task[u].pc \in Working => journal'[x] = journal[x]
      BY Zenon, <2>5, <3>1, <3>4
    <3>6. task'[t].pc \in Working => /\ r = p("claimed", 1) /\ task'[t].pc = "claimed" /\ task'[t].ev = e
                                     /\ Holds(t)'
      <4>1. task'[t].pc \in Working => r = p("claimed", 1) /\ s = "leased" /\ o = inc /\ n = 1
        BY Zenon, <2>1, <2>2, <2>6 DEF Working
      <4> QED BY Zenon, <1>2, <1>4, <2>3, <2>5, <2>6, <2>7, <4>1 DEF Holds, Fenced, Present
    <3> QED BY Zenon, <1>1, <1>2, <2>6, <3>1, <3>2, <3>3, <3>4, <3>5, <3>6, MessageStep
  <2> QED BY Zenon, <1>2, <2>8, <2>10, <2>11 DEF Once
<1> QED BY <1>5, <1>6

(* Every step keeps the accounts. *)
LEMMA NextOnce == ASSUME IInv, IInv', Once, [Next]_vars PROVE Once'
<1>1. Shape' BY DEF IInv
<1>2. ASSUME NEW t \in Tasks, Step(t) PROVE Once'
  BY <1>1, <1>2, IdleOnce, DispatchOnce, EnsureOnce, WorldOnce, CheckOnce, SendOnce, RecordOutcomeOnce,
     TerminalizeOnce, EvictOnce DEF Step
<1>3. ASSUME NEW t \in Tasks, Throw(t) PROVE Once' BY <1>1, <1>3, IdleOnce
<1>4. ASSUME NEW t \in Tasks, NEW e \in Effects, HandleInbound(t, e) \/ Post(t, e) PROVE Once'
  BY <1>1, <1>4, CreateOnce
<1>5. CASE (\E e \in Effects : Expire(e)) \/ Move \/ UNCHANGED vars BY <1>5, WorldOnce
<1>6. CASE Crash BY <1>6, CrashOnce
<1> QED BY <1>2, <1>3, <1>4, <1>5, <1>6 DEF Next

(* The empty journal. *)
LEMMA InitOnce == Init => Once
<1> SUFFICES ASSUME Init PROVE Once OBVIOUS
<1>1. \A e \in Effects : ~Present(e) BY DEF Init, Present
<1>2. \A t \in Tasks : task[t].pc = "idle" /\ task[t].doomed = {} BY IdleIs DEF Init
<1>3. ASSUME NEW e \in Inbound PROVE Honest(e)
  <2>1. Debtors(e) = {} BY <1>2 DEF Debtors, Owes
  <2>2. Claimable(e) = 0 /\ sent[e] = 0 /\ life[e] = 0 BY <1>1 DEF Claimable, ToClaim, Init, Effects
  <2> QED BY <2>1, <2>2, FS_EmptySet DEF Honest
<1>4. ASSUME NEW e \in Outbound PROVE Posted(e)
  <2>1. sent[e] = 0 /\ ~Present(e) BY <1>1 DEF Init, Effects
  <2> QED BY <1>2, <2>1 DEF Posted, Doomed, Working
<1> QED BY <1>1, <1>3, <1>4 DEF Once, Dropped

(* As long as no claim on it runs out in use, a message is posted at most once and a   *)
(* command reaches the session at most once in each life, however handlers, posts,     *)
(* recoveries, crashes, failing calls and redeliveries interleave.  A claim that a     *)
(* crash or a failing call left behind unused may run out and be taken over.           *)
THEOREM SentOnce == Spec => []SentOnceUnlessExpired
<1>1. IInv /\ Once => SentOnceUnlessExpired
  <2> SUFFICES ASSUME IInv, Once, NEW e \in Effects \ expired
               PROVE  sent[e] <= IF e \in Outbound THEN 1 ELSE life[e]
    BY DEF SentOnceUnlessExpired
  <2>1. CASE e \in Outbound BY <2>1 DEF Once, Posted
  <2>2. CASE e \notin Outbound
    <3>1. Honest(e) BY <2>2 DEF Once, Effects
    <3>2. Cardinality(Debtors(e)) \in Nat BY <3>1, FS_CardinalityType DEF Honest
    <3>3. Claimable(e) \in Nat /\ sent[e] \in Nat /\ life[e] \in Nat BY DEF Claimable, IInv, Shape, TypeOK
    <3>4. sent[e] + Cardinality(Debtors(e)) + Claimable(e) <= life[e] BY <3>1 DEF Honest
    <3>5. sent[e] <= life[e] BY <3>2, <3>3, <3>4
    <3> QED BY <2>2, <3>5
  <2> QED BY <2>1, <2>2
<1> QED BY <1>1, InitOnce, NextOnce, Invariance, PTL DEF Spec
=============================================================================
