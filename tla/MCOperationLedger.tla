-------------------------- MODULE MCOperationLedger --------------------------
(* Instances of OperationLedger for TLC. *)
EXTENDS OperationLedger, TLC

CONSTANTS s1, s2, i1, i2, i3

Symmetry == Permutations(Scopes) \cup Permutations(Ids)
=============================================================================
