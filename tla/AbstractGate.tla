---------------------------- MODULE AbstractGate ----------------------------
(***************************************************************************)
(* What the filesystem gate of packages/core/src/file-lock-gate.ts         *)
(* promises its callers, without saying how: a mutual-exclusion token that *)
(* a live process loses only by giving it up, and that a dead process      *)
(* loses to recovery.                                                      *)
(***************************************************************************)
CONSTANTS Procs,   \* processes (operating-system processes, never reused)
          Nobody   \* the gate is free; not a process

VARIABLES holder,  \* the process whose gate is published, or Nobody
          alive    \* alive[p]: p has not exited or crashed

vars == <<holder, alive>>

Init ==
  /\ holder = Nobody
  /\ alive = [p \in Procs |-> TRUE]

\* takeFilesystemGate returned a release function to p.
Acquire(p) ==
  /\ alive[p] /\ holder = Nobody
  /\ holder' = p
  /\ UNCHANGED alive

\* The holder's own release succeeded.
Release(p) ==
  /\ alive[p] /\ holder = p
  /\ holder' = Nobody
  /\ UNCHANGED alive

\* Some other process retired the gate of a holder that is dead.
Recover ==
  /\ holder # Nobody /\ ~alive[holder]
  /\ holder' = Nobody
  /\ UNCHANGED alive

\* p exits or crashes, wherever it is; a gate it published stays published.
Crash(p) ==
  /\ alive[p]
  /\ alive' = [alive EXCEPT ![p] = FALSE]
  /\ UNCHANGED holder

Next ==
  \/ \E p \in Procs : Acquire(p) \/ Release(p) \/ Crash(p)
  \/ Recover

Spec == Init /\ [][Next]_vars
=============================================================================
