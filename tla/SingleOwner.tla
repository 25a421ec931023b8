----------------------------- MODULE SingleOwner -----------------------------
(* What the lease of a harness session promises its clients, without the     *)
(* files, timers and processes that keep the promise: at most one owner at a *)
(* time, which is left alone by the others that can see it.                  *)
CONSTANT Owners

VARIABLES
  holders,  \* the owners that act on the session and have not been deposed
  blind     \* the owners that the rest cannot see, and that cannot see the rest

Init == holders = {} /\ blind \in SUBSET Owners

Unseen(o) == IF o \in blind THEN Owners \ blind ELSE blind

\* An owner starts only when it sees none.
Take(o) == holders \subseteq Unseen(o) /\ holders' = {o}

\* It stops, it dies, or it is deposed.
GiveUp == holders' = {}

Next == (GiveUp \/ \E o \in Owners : Take(o)) /\ UNCHANGED blind

Spec == Init /\ [][Next]_<<holders, blind>>
=============================================================================
