--------------------------- MODULE MCSessionHost ---------------------------
(* One capability, two connections and a slot for a request, over two starts of the host. *)
EXTENDS SessionHost

CONSTANTS fs, n1, n2, d1, d2, r1
=============================================================================
