---------------------------- MODULE MCStrictLease ----------------------------
(* Instances of StrictLease for TLC.                                       *)
EXTENDS StrictLease, TLC
CONSTANTS s1, s2, l1, l2
\* Liveness is checked too, so there is no symmetry.
=============================================================================
