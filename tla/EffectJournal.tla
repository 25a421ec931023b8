---------------------------- MODULE EffectJournal ----------------------------
(***************************************************************************)
(* The journal of chat effects: what a chat daemon has to do once (a       *)
(* message to post, a command received) is a record of a file that is      *)
(* replaced under a lock, so every operation here is one step.  A worker   *)
(* claims an effect for a while, as an epoch of it; only the holder of the *)
(* epoch renews the claim or records an outcome, and a claim that has run  *)
(* out may be taken over.  Old terminal effects are evicted.               *)
(*                                                                         *)
(* The clock is abstracted: an effect is "leased" until its claim runs out *)
(* and it is "lapsed".  The owner of a claim is an incarnation of the      *)
(* daemon, which names itself by a fresh UUID.                             *)
(***************************************************************************)
EXTENDS Naturals, FiniteSets

CONSTANTS Inbound,      \* effects of the kinds ".inbound."
          Outbound,     \* the others
          MaxTerminal,  \* terminal effects the journal keeps
          Absent

VARIABLES journal,  \* the file
          life      \* history: how often an effect has been created

Effects == Inbound \cup Outbound

ASSUME KindsAssumption == Inbound \cap Outbound = {}
ASSUME MaxTerminalAssumption == MaxTerminal \in Nat

Records == [state : {"pending", "leased", "lapsed", "accepted", "uncertain", "terminal"},
            owner : Nat, epoch : Nat]

ASSUME AbsentAssumption == Absent \notin Records

Present(e) == journal[e] # Absent
IsTerminal(e) == Present(e) /\ journal[e].state = "terminal"
IsOpen(e) == Present(e) /\ journal[e].state # "terminal"

CanClaimUncertain(e) == IsOpen(e) /\ journal[e].state # "leased"

(* An inbound effect of unknown outcome is not tried again. *)
CanClaim(e) == /\ IsOpen(e)
               /\ journal[e].state # "leased"
               /\ journal[e].state = "uncertain" => e \in Outbound

FencedByOwner(e, owner, epoch) == /\ Present(e)
                                  /\ journal[e].state \in {"leased", "lapsed"}
                                  /\ journal[e].owner = owner

(* The fence: what the holder of an epoch asks for is done only in that epoch, *)
(* whether its claim has run out or not.                                       *)
Fenced(e, owner, epoch) == /\ Present(e)
                           /\ journal[e].state \in {"leased", "lapsed"}
                           /\ journal[e].owner = owner
                           /\ journal[e].epoch = epoch

Create(e, state, owner, epoch) ==
    /\ journal' = [journal EXCEPT ![e] = [state |-> state, owner |-> owner, epoch |-> epoch]]
    /\ life' = [life EXCEPT ![e] = @ + 1]

Claim(e, owner) ==
    journal' = [journal EXCEPT ![e] = [state |-> "leased", owner |-> owner, epoch |-> @.epoch + 1]]

Renew(e) == journal' = [journal EXCEPT ![e].state = "leased"]

Record(e, state) == journal' = [journal EXCEPT ![e].state = state, ![e].owner = 0]

(* A claim that has run out is taken over, to be given up as uncertain. *)
Abandon(e) == journal' = [journal EXCEPT ![e] = [state |-> "uncertain", owner |-> 0, epoch |-> @.epoch + 1]]

OldestAny(D) == D \subseteq {e \in Effects : Present(e)}

(* Which terminal effects are the oldest is left open: they are ordered by clocks *)
(* that are read before the file is locked.                                       *)
Oldest(D) == LET T == {e \in Effects : IsTerminal(e)}
             IN  /\ D \subseteq T
                 /\ IF Cardinality(T) <= MaxTerminal THEN D = {} ELSE Cardinality(D) = Cardinality(T) - MaxTerminal

(* An effect is evicted only in the generation that was listed.  Generations *)
(* count the changes of one life, so that of a later life may coincide with  *)
(* the listed one, once the effect has been changed at all.                  *)
SameGeneration(d) == /\ Present(d[1])
                     /\ d[2] # life[d[1]] => journal[d[1]].state # "pending"
=============================================================================
