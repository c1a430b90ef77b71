--------------------------- MODULE FilesystemGate ---------------------------
(***************************************************************************)
(* The filesystem gate of packages/core/src/file-lock-gate.ts, one action  *)
(* per file-system call.  A process that wants the gate of a lock path     *)
(* publishes an initialized, nonempty directory "<path>.lease-gate" by     *)
(* renaming a private staging directory to it; the directory's owner.json  *)
(* names the process and a nonce that is fresh for every attempt.  A gate  *)
(* whose owner is provably dead is renamed to a tombstone whose name is    *)
(* the dead owner's nonce and that stays nonempty forever; the owner's own *)
(* release renames its gate to a private name.                             *)
(*                                                                         *)
(* All the calls of one takeGate or retire are synchronous, so the calls   *)
(* of one process never interleave with each other, only with those of     *)
(* other processes.  A process may stop for good between any two calls.    *)
(***************************************************************************)
EXTENDS Naturals

CONSTANTS
  Procs,        \* processes; a pid is never reused within the model
  Domain,       \* Domain[p]: p's host, boot and PID namespace (localDomain)
  NoDir,        \* nothing at a pathname
  MaxMints,     \* bound: attempts per process that reach the staging step
  RetryBudget,  \* Len(delays): automatic retries of a failed release
  MaxFaults     \* bound: EPERM/EBUSY/EACCES results of renames, in total

Nonce == Procs \X (1..MaxMints)

ASSUME BoundsAssumption ==
  /\ MaxMints \in Nat /\ RetryBudget \in Nat /\ MaxFaults \in Nat
ASSUME NoDirAssumption == NoDir \notin Nonce /\ NoDir \notin Procs

\* Where a process is in takeGate (look .. publish), in the section the gate
\* protects, or in releasing (retire, rename, and pending: the release was
\* requested and its last attempt failed).
PC == {"idle", "read", "probe", "recheck", "bury", "stage", "check", "publish",
       "critical", "retire", "rename", "pending"}

VARIABLES
  gate,       \* the directory at the canonical path: the nonce in its owner.json
  tomb,       \* tomb[n]: the directory at "<gate>.dead-n"
  alive,      \* alive[p]: p's pid exists
  pc,
  seen,       \* seen[p]: the owner record p has read and is judging
  minted,     \* minted[p]: nonces p has made; the last one is its current one
  automatic,  \* automatic[p]: timer retries of p's current release
  faults      \* sharing faults so far

vars == <<gate, tomb, alive, pc, seen, minted, automatic, faults>>

Dirs == Nonce \cup {NoDir}
OwnerOf(n) == n[1]
Mine(p) == <<p, minted[p]>>

Init ==
  /\ gate = NoDir
  /\ tomb = [n \in Nonce |-> NoDir]
  /\ alive = [p \in Procs |-> TRUE]
  /\ pc = [p \in Procs |-> "idle"]
  /\ seen = [p \in Procs |-> NoDir]
  /\ minted = [p \in Procs |-> 0]
  /\ automatic = [p \in Procs |-> 0]
  /\ faults = 0

\* Process p takes a step from one place to another.
Goto(p, from, to) ==
  /\ alive[p] /\ pc[p] = from
  /\ pc' = [pc EXCEPT ![p] = to]

-----------------------------------------------------------------------------
(* takeGate: judging the gate that is there                                *)

\* lstat of the gate decides between recovering and publishing.
Look(p) ==
  /\ minted[p] < MaxMints
  /\ Goto(p, "idle", IF gate = NoDir THEN "stage" ELSE "read")
  /\ UNCHANGED <<gate, tomb, alive, seen, minted, automatic, faults>>

\* readOwner: no record (the gate has gone) is contention, not a free gate.
ReadOwner(p) ==
  /\ Goto(p, "read", IF gate = NoDir THEN "idle" ELSE "probe")
  /\ seen' = [seen EXCEPT ![p] = gate]
  /\ UNCHANGED <<gate, tomb, alive, minted, automatic, faults>>

\* Mutants of ProvablyDead: a pid judged in another host's or namespace's
\* table; the domain comparison inverted.
DeadInAnyDomain(p, q) == ~alive[q]
DeadInOtherDomain(p, q) == Domain[p] # Domain[q] /\ ~alive[q]

\* ownerState: dead only if the pid is gone and belongs to p's own domain.
ProvablyDead(p, q) == Domain[p] = Domain[q] /\ ~alive[q]

Probe(p) ==
  /\ Goto(p, "probe",
          IF ProvablyDead(p, OwnerOf(seen[p])) THEN "recheck" ELSE "idle")
  /\ UNCHANGED <<gate, tomb, alive, seen, minted, automatic, faults>>

\* The authoritative reread after the proof of death.
Recheck(p) ==
  /\ Goto(p, "recheck", IF gate = seen[p] THEN "bury" ELSE "idle")
  /\ UNCHANGED <<gate, tomb, alive, seen, minted, automatic, faults>>

\* MUTANT of Bury: the tombstone's directory was removed, so nothing refuses
\* the delayed rename.
BuryOverTombstone(p) ==
  /\ Goto(p, "bury", IF gate = NoDir THEN "idle" ELSE "stage")
  /\ tomb' = IF gate = NoDir THEN tomb ELSE [tomb EXCEPT ![seen[p]] = gate]
  /\ gate' = NoDir
  /\ UNCHANGED <<alive, seen, minted, automatic, faults>>

\* rename(gate, tombstone of the nonce that was read): it moves whatever is
\* at the gate by now, fails if nothing is, and never replaces a tombstone.
Bury(p) ==
  /\ pc[p] = "bury"
  /\ LET moves == gate # NoDir /\ tomb[seen[p]] = NoDir IN
     /\ Goto(p, "bury", IF moves THEN "stage" ELSE "idle")
     /\ tomb' = IF moves THEN [tomb EXCEPT ![seen[p]] = gate] ELSE tomb
     /\ gate' = IF moves THEN NoDir ELSE gate
  /\ UNCHANGED <<alive, seen, minted, automatic, faults>>

-----------------------------------------------------------------------------
(* takeGate: publishing                                                    *)

\* A private directory with a fresh owner record, invisible to the others.
Stage(p) ==
  /\ minted[p] < MaxMints
  /\ Goto(p, "stage", "check")
  /\ minted' = [minted EXCEPT ![p] = @ + 1]
  /\ UNCHANGED <<gate, tomb, alive, seen, automatic, faults>>

CheckAbsent(p) ==
  /\ Goto(p, "check", IF gate = NoDir THEN "publish" ELSE "idle")
  /\ UNCHANGED <<gate, tomb, alive, seen, minted, automatic, faults>>

\* MUTANT of Publish: the published directory is empty, so rename replaces it.
PublishOver(p) ==
  /\ Goto(p, "publish", "critical")
  /\ gate' = Mine(p)
  /\ UNCHANGED <<tomb, alive, seen, minted, automatic, faults>>

\* rename(staging, gate) fails on the nonempty directory of another process.
Publish(p) ==
  /\ Goto(p, "publish", IF gate = NoDir THEN "critical" ELSE "idle")
  /\ gate' = IF gate = NoDir THEN Mine(p) ELSE gate
  /\ UNCHANGED <<tomb, alive, seen, minted, automatic, faults>>

\* A sharing error of either rename ends the attempt and changes nothing.
RenameFault(p) ==
  /\ faults < MaxFaults
  /\ \/ Goto(p, "bury", "idle")
     \/ Goto(p, "publish", "idle")
  /\ faults' = faults + 1
  /\ UNCHANGED <<gate, tomb, alive, seen, minted, automatic>>

-----------------------------------------------------------------------------
(* Releasing                                                               *)

\* The returned release function: the one inline attempt.
Unlock(p) ==
  /\ Goto(p, "critical", "retire")
  /\ automatic' = [automatic EXCEPT ![p] = 0]
  /\ UNCHANGED <<gate, tomb, alive, seen, minted, faults>>

\* attempt: only the exact directory p published is still p's to move.
VerifyOwned(p) ==
  /\ Goto(p, "retire", IF gate = Mine(p) THEN "rename" ELSE "idle")
  /\ UNCHANGED <<gate, tomb, alive, seen, minted, automatic, faults>>

\* rename(gate, private name); the private directory is of no more interest.
RenameAway(p) ==
  /\ Goto(p, "rename", "idle")
  /\ gate' = NoDir
  /\ UNCHANGED <<tomb, alive, seen, minted, automatic, faults>>

\* A sharing error: the release stays requested.
RetireFault(p) ==
  /\ faults < MaxFaults
  /\ \/ Goto(p, "retire", "pending")
     \/ Goto(p, "rename", "pending")
  /\ faults' = faults + 1
  /\ UNCHANGED <<gate, tomb, alive, seen, minted, automatic>>

\* Mutants of TimerRetire: no budget; a budget one retry short.
TimerRetireForever(p) ==
  /\ Goto(p, "pending", "retire")
  /\ automatic' = [automatic EXCEPT ![p] = @ + 1]
  /\ UNCHANGED <<gate, tomb, alive, seen, minted, faults>>
TimerRetireShort(p) ==
  /\ automatic[p] + 1 < RetryBudget
  /\ Goto(p, "pending", "retire")
  /\ automatic' = [automatic EXCEPT ![p] = @ + 1]
  /\ UNCHANGED <<gate, tomb, alive, seen, minted, faults>>

\* The unref'ed timer of a failed release, while its budget lasts.
TimerRetire(p) ==
  /\ automatic[p] < RetryBudget
  /\ Goto(p, "pending", "retire")
  /\ automatic' = [automatic EXCEPT ![p] = @ + 1]
  /\ UNCHANGED <<gate, tomb, alive, seen, minted, faults>>

\* The next takeGate of the same process retries first, with no new budget.
CallRetire(p) ==
  /\ Goto(p, "pending", "retire")
  /\ UNCHANGED <<gate, tomb, alive, seen, minted, automatic, faults>>

-----------------------------------------------------------------------------
Crash(p) ==
  /\ alive[p]
  /\ alive' = [alive EXCEPT ![p] = FALSE]
  /\ UNCHANGED <<gate, tomb, pc, seen, minted, automatic, faults>>

\* The calls of takeGate after the first, and of one release attempt.
Take(p) ==
  \/ ReadOwner(p) \/ Probe(p) \/ Recheck(p) \/ Bury(p)
  \/ Stage(p) \/ CheckAbsent(p) \/ Publish(p)
Retire(p) == VerifyOwned(p) \/ RenameAway(p)
Fault(p) == RenameFault(p) \/ RetireFault(p)

Next == \E p \in Procs :
  \/ Look(p) \/ Take(p) \/ Unlock(p) \/ Retire(p)
  \/ TimerRetire(p) \/ CallRetire(p) \/ Fault(p) \/ Crash(p)

Spec == Init /\ [][Next]_vars

\* A live process runs its synchronous calls to the end, the section the gate
\* protects is synchronous too, and timers fire.  Nothing makes a process call
\* takeGate again: that is assumed only where a property is about callers that
\* keep trying.
StepFairness == \A p \in Procs :
  /\ WF_vars(Take(p)) /\ WF_vars(Unlock(p))
  /\ WF_vars(Retire(p)) /\ WF_vars(TimerRetire(p))
FairSpec == Spec /\ StepFairness
PollingSpec == FairSpec /\ \A p \in Procs : WF_vars(Look(p))

-----------------------------------------------------------------------------
(* Properties                                                              *)

TypeOK ==
  /\ gate \in Dirs
  /\ tomb \in [Nonce -> Dirs]
  /\ alive \in [Procs -> BOOLEAN]
  /\ pc \in [Procs -> PC]
  /\ seen \in [Procs -> Dirs]
  /\ minted \in [Procs -> 0..MaxMints]
  /\ automatic \in [Procs -> 0..RetryBudget]
  /\ faults \in 0..MaxFaults

InSection(p) == alive[p] /\ pc[p] = "critical"

\* Two live processes are never inside the sections the gate of one lock path
\* protects (a lease's proof, publication and removal), whatever crashes,
\* recoveries and failed renames came before.
MutualExclusion ==
  \A p, q \in Procs : InSection(p) /\ InSection(q) => p = q

\* The gate of a live process inside its section is the one on disk: no
\* reclaimer, however long it paused between two calls, has moved it away.
AuthorityOnDisk == \A p \in Procs : InSection(p) => gate = Mine(p)

\* A tombstone holds the directory of the dead owner it is named after, never
\* the replacement that a delayed reclaimer found at the gate.
TombstonesAreDeadOwners ==
  \A n \in Nonce : tomb[n] # NoDir => tomb[n] = n /\ ~alive[OwnerOf(n)]

\* A published gate goes away in two ways only: its live owner renames it, or
\* a process of the owner's own host, boot and PID namespace buries it after
\* the owner died.  A gate from another domain is never judged.
GateLeavesByRight == [][
  gate # NoDir /\ gate' # gate =>
    LET q == OwnerOf(gate) IN
    \/ alive[q] /\ pc[q] = "rename"
    \/ ~alive[q] /\ \E p \in Procs : Domain[p] = Domain[q] /\ alive[p] /\ pc[p] = "bury"]_vars

\* The protocol implements the mutual-exclusion token of AbstractGate, its
\* holder being the owner of the directory at the gate.
Holder == IF gate = NoDir THEN NoDir ELSE OwnerOf(gate)
Abstract == INSTANCE AbstractGate WITH Nobody <- NoDir, holder <- Holder
ImplementsAbstractGate == Abstract!Spec

\* A requested release ends although its renames fail at first: the gate goes,
\* or its owner does.  It needs faults to be fewer than the timer budget.
ReleaseEnds == \A p \in Procs :
  alive[p] /\ pc[p] \in {"retire", "rename", "pending"}
    ~> ~alive[p] \/ gate # Mine(p)

\* A gate left by a dead process does not block a live one of the same domain
\* that keeps trying (and has attempts left in the model).
AbandonedBy(q) == gate # NoDir /\ OwnerOf(gate) = q /\ ~alive[q]
AbandonedIsRecovered == \A p, q \in Procs :
  Domain[p] = Domain[q] =>
    []<>(~AbandonedBy(q) \/ ~alive[p] \/ minted[p] = MaxMints)
=============================================================================
