--------------------------- MODULE MCRuntimeOwner ---------------------------
(* A small instance of RuntimeOwner for TLC: two owners, one of which may    *)
(* run where neither can see the pid of the other.                           *)
EXTENDS RuntimeOwner, TLC

CONSTANTS o1, o2

TwoOwners == {o1, o2}
OneBlind == {o1}
=============================================================================
