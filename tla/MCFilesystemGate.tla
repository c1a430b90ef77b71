-------------------------- MODULE MCFilesystemGate --------------------------
(* Instances of FilesystemGate for TLC.                               *)
EXTENDS FilesystemGate, TLC

CONSTANTS a, b, c

OneHost == [p \in Procs |-> "host"]
\* c shares the directory (a network file system) but not the PID domain.
TwoHosts == [p \in Procs |-> IF p = c THEN "other" ELSE "host"]

Symmetry == Permutations(Procs)
=============================================================================
