---------------------------- MODULE MCJobResults ----------------------------
(* The instances of JobResults that are model-checked.                     *)
EXTENDS JobResults

CONSTANTS i1, i2
=============================================================================
