-------------------------- MODULE MCSessionControl --------------------------
(* Small instances of SessionControl for TLC. *)
EXTENDS SessionControl

CONSTANT c1

OneCall == {c1}

CleanOrDirty == {"clean", "dirty"}

=============================================================================
