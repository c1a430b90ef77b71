-------------------------- MODULE MCLegacyFileLock --------------------------
(* Instances of LegacyFileLock for TLC. *)
EXTENDS LegacyFileLock, TLC

CONSTANTS a, b, c, d

Symmetry == Permutations(Pids)
=============================================================================
