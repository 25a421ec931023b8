--------------------------- MODULE MCReceiptSpool ---------------------------
(* Small instances of ReceiptSpool for TLC. *)
EXTENDS ReceiptSpool, TLC

CONSTANTS p1, p2, p3

ThreeProcs == {p1, p2, p3}

Symmetry == Permutations(ThreeProcs)

=============================================================================
