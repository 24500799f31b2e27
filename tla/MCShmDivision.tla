--------------------------- MODULE MCShmDivision ---------------------------
(* Instances of ShmDivision: the bounds are given in the configurations. *)
EXTENDS ShmDivision
=============================================================================
