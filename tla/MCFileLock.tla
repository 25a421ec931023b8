----------------------------- MODULE MCFileLock -----------------------------
(* Small instances of FileLock for TLC: three contenders and a dead or       *)
(* slow owner are the fewest with which a removal can hit a third party.     *)
EXTENDS FileLock, TLC

CONSTANTS c1, c2, c3, p1, p2, p3, h1, h2

\* One machine: c1 and c2 are two calls of one process, c3 runs in another.
MCPidOf == (c1 :> p1) @@ (c2 :> p1) @@ (c3 :> p2)
MCOneHost == (p1 :> h1) @@ (p2 :> h1)

\* A shared volume: c1 and c2 are processes of one machine, c3 runs on another.
MCPidOfShared == (c1 :> p1) @@ (c2 :> p2) @@ (c3 :> p3)
MCTwoHosts == (p1 :> h1) @@ (p2 :> h1) @@ (p3 :> h2)

\* What holds until the first escape is explored up to it.
NoEscapeYet == window = {}
=============================================================================
