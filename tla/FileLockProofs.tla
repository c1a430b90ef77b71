-------------------------- MODULE FileLockProofs ---------------------------
(***************************************************************************)
(* Proofs about the locks of processes on the file system, FilesystemGate  *)
(* and LegacyFileLock, for any number of processes, any assignment of      *)
(* domains and any bounds.                                                 *)
(*                                                                         *)
(* The argument for the gate: a nonce names one directory for ever.        *)
(* Before it is published nothing on disk carries it; a published          *)
(* directory of a live owner stays at the gate until the owner moves it;   *)
(* and once a dead owner's directory has left the gate, its tombstone      *)
(* exists.  So a reclaimer that pauses before its rename either still      *)
(* finds the dead owner's directory, or fails on the tombstone.            *)
(***************************************************************************)
EXTENDS FilesystemGate, LegacyFileLock, TLAPS

Releasing == {"critical", "retire", "rename", "pending"}

\* A nonce that was not made, or is still private, is nowhere on disk.
PrivateNonce == \A p \in Procs, k \in 1..MaxMints :
  k > minted[p] \/ (k = minted[p] /\ pc[p] \in {"check", "publish"})
    => gate # <<p, k>> /\ tomb[<<p, k>>] = NoDir

\* Past the staging step a process has made a nonce.
HasNonce == \A p \in Procs :
  pc[p] \in {"check", "publish"} \cup Releasing => minted[p] >= 1

\* A live process that published is still the owner of the gate.
Published == \A p \in Procs :
  alive[p] /\ pc[p] \in Releasing => gate = Mine(p)

\* What a process has established about the owner it is judging.
Judged == \A p \in Procs :
  /\ pc[p] \in {"probe", "recheck", "bury"} => seen[p] \in Nonce
  /\ pc[p] \in {"recheck", "bury"} => ProvablyDead(p, OwnerOf(seen[p]))
  /\ pc[p] = "bury" => gate = seen[p] \/ tomb[seen[p]] # NoDir

\* The directory at the gate has not been buried.
GateNotBuried == gate # NoDir => tomb[gate] = NoDir

IInv ==
  /\ TypeOK /\ PrivateNonce /\ HasNonce /\ Published /\ Judged
  /\ GateNotBuried /\ TombstonesAreDeadOwners

-----------------------------------------------------------------------------
\* A nonce is a pair of its owner and a number, and is determined by them.
LEMMA NonceFacts ==
  /\ \A p \in Procs, k \in 1..MaxMints : <<p, k>> \in Nonce /\ OwnerOf(<<p, k>>) = p
  /\ \A n \in Nonce : OwnerOf(n) \in Procs /\ n # NoDir
  /\ \A n \in Nonce : \E k \in 1..MaxMints : n = <<OwnerOf(n), k>>
  BY NoDirAssumption DEF Nonce, OwnerOf

\* Types are kept by every step; publishing needs a nonce to have been made.
LEMMA TypeStep == TypeOK /\ HasNonce /\ [Next]_vars => TypeOK'
<1> SUFFICES ASSUME TypeOK, HasNonce, [Next]_vars PROVE TypeOK'
  OBVIOUS
<1> USE BoundsAssumption, NonceFacts DEF TypeOK, Dirs, PC, Goto
<1>1. ASSUME NEW p \in Procs, Look(p) PROVE TypeOK'
  BY <1>1 DEF Look
<1>2. ASSUME NEW p \in Procs, Take(p) PROVE TypeOK'
  <2>1. CASE ReadOwner(p)  BY <2>1 DEF ReadOwner
  <2>2. CASE Probe(p)  BY <2>2 DEF Probe
  <2>3. CASE Recheck(p)  BY <2>3 DEF Recheck
  <2>4. CASE Bury(p)  BY <2>4 DEF Bury
  <2>5. CASE Stage(p)  BY <2>5 DEF Stage
  <2>6. CASE CheckAbsent(p)  BY <2>6 DEF CheckAbsent
  <2>7. CASE Publish(p)
    <3>1. minted[p] \in 1..MaxMints
      BY <2>7 DEF Publish, HasNonce
    <3>2. gate' \in Dirs
      BY <2>7, <3>1 DEF Publish, Mine
    <3>3. QED  BY <2>7, <3>2 DEF Publish
  <2>8. QED  BY <1>2, <2>1, <2>2, <2>3, <2>4, <2>5, <2>6, <2>7 DEF Take
<1>3. ASSUME NEW p \in Procs, Unlock(p) PROVE TypeOK'
  BY <1>3 DEF Unlock
<1>4. ASSUME NEW p \in Procs, Retire(p) PROVE TypeOK'
  BY <1>4 DEF Retire, VerifyOwned, RenameAway
<1>5. ASSUME NEW p \in Procs, TimerRetire(p) \/ CallRetire(p) PROVE TypeOK'
  BY <1>5 DEF TimerRetire, CallRetire
<1>6. ASSUME NEW p \in Procs, Fault(p) PROVE TypeOK'
  BY <1>6 DEF Fault, RenameFault, RetireFault
<1>7. ASSUME NEW p \in Procs, Crash(p) PROVE TypeOK'
  BY <1>7 DEF Crash
<1>8. CASE UNCHANGED vars
  BY <1>8 DEF vars
<1>9. QED
  BY <1>1, <1>2, <1>3, <1>4, <1>5, <1>6, <1>7, <1>8 DEF Next

\* The initial state satisfies the invariant.
LEMMA InitInv == Init => IInv
  BY BoundsAssumption, NonceFacts
  DEF Init, IInv, TypeOK, Dirs, PC, PrivateNonce, HasNonce, Published, Releasing,
      Judged, GateNotBuried, TombstonesAreDeadOwners

\* A step that changes nothing on disk, kills nobody, makes no nonce and moves p
\* only between places that need no more than p had keeps the invariant.
LEMMA QuietStep ==
  ASSUME IInv, TypeOK', NEW p \in Procs, NEW to \in PC, alive[p],
         pc' = [pc EXCEPT ![p] = to], UNCHANGED <<gate, tomb, alive, minted>>,
         \A q \in Procs \ {p} : seen'[q] = seen[q],
         to # "critical",
         to \in {"retire", "rename", "pending"} => pc[p] \in Releasing,
         to \in {"check", "publish"} => pc[p] \in {"check", "publish"},
         to \in {"probe", "recheck", "bury"} => seen'[p] \in Nonce,
         to \in {"recheck", "bury"} => ProvablyDead(p, OwnerOf(seen'[p])),
         to = "bury" => gate = seen'[p]
  PROVE IInv'
<1> USE DEF IInv, TypeOK
<1>1. PrivateNonce'
  BY DEF PrivateNonce
<1>2. HasNonce'
  BY DEF HasNonce, Releasing
<1>3. Published'
  BY DEF Published, Releasing, Mine
<1>4. Judged'
  BY DEF Judged, ProvablyDead
<1>5. GateNotBuried' /\ TombstonesAreDeadOwners'
  BY DEF GateNotBuried, TombstonesAreDeadOwners
<1>6. QED  BY <1>1, <1>2, <1>3, <1>4, <1>5

\* Every step of the protocol keeps the invariant.
LEMMA StepInv == IInv /\ [Next]_vars => IInv'
<1> SUFFICES ASSUME IInv, [Next]_vars PROVE IInv'
  OBVIOUS
<1>0. TypeOK'
  BY TypeStep DEF IInv
<1> USE <1>0, NonceFacts, BoundsAssumption
<1>1. ASSUME NEW p \in Procs, Look(p) PROVE IInv'
  BY <1>1, QuietStep DEF Look, Goto, PC
<1>2. ASSUME NEW p \in Procs, ReadOwner(p) PROVE IInv'
  BY <1>2, QuietStep DEF ReadOwner, Goto, PC, IInv, TypeOK, Dirs
<1>3. ASSUME NEW p \in Procs, Probe(p) PROVE IInv'
  BY <1>3, QuietStep DEF Probe, Goto, PC, IInv, Judged
<1>4. ASSUME NEW p \in Procs, Recheck(p) PROVE IInv'
  BY <1>4, QuietStep DEF Recheck, Goto, PC, IInv, Judged
<1>5. ASSUME NEW p \in Procs, Bury(p) PROVE IInv'
  <2> USE <1>5 DEF Bury, Goto, IInv, TypeOK, Dirs
  <2>0. CASE gate = NoDir \/ tomb[seen[p]] # NoDir
    <3>1. UNCHANGED <<gate, tomb, alive, seen, minted>> /\ pc' = [pc EXCEPT ![p] = "idle"]
      BY <2>0
    <3>2. QED  BY <3>1, QuietStep DEF PC
  <2>1. CASE gate # NoDir /\ tomb[seen[p]] = NoDir
    <3> DEFINE n == seen[p]
    <3>1. gate = n /\ n \in Nonce /\ ~alive[OwnerOf(n)]
      BY <2>1 DEF Judged, ProvablyDead
    <3>2. /\ pc' = [pc EXCEPT ![p] = "stage"] /\ tomb' = [tomb EXCEPT ![n] = n]
          /\ gate' = NoDir /\ UNCHANGED <<alive, seen, minted>>
      BY <2>1, <3>1
    <3>3. PrivateNonce'
      <4> SUFFICES ASSUME NEW q \in Procs, NEW k \in 1..MaxMints,
                          k > minted[q] \/ (k = minted[q] /\ pc'[q] \in {"check", "publish"})
                   PROVE  gate' # <<q, k>> /\ tomb'[<<q, k>>] = NoDir
        BY <3>2 DEF PrivateNonce
      <4>1. pc'[q] \in {"check", "publish"} => pc[q] \in {"check", "publish"}
        BY <3>2
      <4>2. gate # <<q, k>> /\ tomb[<<q, k>>] = NoDir
        BY <4>1 DEF PrivateNonce
      <4>3. <<q, k>> \in Nonce /\ <<q, k>> # n
        BY <4>2, <3>1
      <4>4. QED  BY <4>2, <4>3, <3>2
    <3>4. HasNonce'
      BY <3>2 DEF HasNonce, Releasing
    <3>5. Published'
      BY <3>1, <3>2 DEF Published, Releasing, Mine
    <3>6. Judged'
      BY <3>1, <3>2 DEF Judged, ProvablyDead
    <3>7. GateNotBuried' /\ TombstonesAreDeadOwners'
      BY <3>1, <3>2 DEF GateNotBuried, TombstonesAreDeadOwners
    <3>8. QED  BY <3>3, <3>4, <3>5, <3>6, <3>7
  <2>2. QED  BY <2>0, <2>1
<1>6. ASSUME NEW p \in Procs, Stage(p) PROVE IInv'
  <2> USE <1>6 DEF Stage, Goto, IInv, TypeOK
  <2>1. PrivateNonce'
    <3> SUFFICES ASSUME NEW q \in Procs, NEW k \in 1..MaxMints,
                        k > minted'[q] \/ (k = minted'[q] /\ pc'[q] \in {"check", "publish"})
                 PROVE  gate # <<q, k>> /\ tomb[<<q, k>>] = NoDir
      BY DEF PrivateNonce
    <3>1. CASE q = p
      <4>1. minted'[p] = minted[p] + 1 /\ k > minted[p]
        BY <3>1
      <4>2. QED  BY <3>1, <4>1 DEF PrivateNonce
    <3>2. CASE q # p
      <4>1. minted'[q] = minted[q] /\ pc'[q] = pc[q]
        BY <3>2
      <4>2. QED  BY <4>1 DEF PrivateNonce
    <3>3. QED  BY <3>1, <3>2
  <2>2. HasNonce'
    BY DEF HasNonce, Releasing
  <2>3. Published'
    BY DEF Published, Releasing, Mine
  <2>4. Judged'
    BY DEF Judged, ProvablyDead
  <2>5. GateNotBuried' /\ TombstonesAreDeadOwners'
    BY DEF GateNotBuried, TombstonesAreDeadOwners
  <2>6. QED  BY <2>1, <2>2, <2>3, <2>4, <2>5
<1>7. ASSUME NEW p \in Procs, CheckAbsent(p) PROVE IInv'
  BY <1>7, QuietStep DEF CheckAbsent, Goto, PC
<1>8. ASSUME NEW p \in Procs, Publish(p) PROVE IInv'
  <2> USE <1>8 DEF Publish, Goto
  <2>1. CASE gate # NoDir
    BY <2>1, QuietStep DEF PC
  <2>2. CASE gate = NoDir
    <3> USE <2>2 DEF IInv, TypeOK
    <3>1. /\ minted[p] \in 1..MaxMints /\ Mine(p) = <<p, minted[p]>>
          /\ tomb[Mine(p)] = NoDir
      BY DEF HasNonce, PrivateNonce, Mine
    <3>2. PrivateNonce'
      BY <3>1 DEF PrivateNonce
    <3>3. HasNonce'
      BY DEF HasNonce, Releasing
    <3>4. Published'
      <4>1. ASSUME NEW q \in Procs, q # p, alive[q], pc[q] \in Releasing PROVE FALSE
        <5>1. minted[q] \in 1..MaxMints /\ Mine(q) \in Nonce
          BY <4>1 DEF HasNonce, Mine
        <5>2. QED  BY <4>1, <5>1 DEF Published
      <4>2. QED  BY <4>1 DEF Published, Mine
    <3>5. Judged'
      BY DEF Judged, ProvablyDead
    <3>6. GateNotBuried' /\ TombstonesAreDeadOwners'
      BY <3>1 DEF GateNotBuried, TombstonesAreDeadOwners
    <3>7. QED  BY <3>2, <3>3, <3>4, <3>5, <3>6
  <2>3. QED  BY <2>1, <2>2
<1>9. ASSUME NEW p \in Procs, Unlock(p) \/ TimerRetire(p) \/ CallRetire(p) PROVE IInv'
  BY <1>9, QuietStep DEF Unlock, TimerRetire, CallRetire, Goto, PC, Releasing
<1>10. ASSUME NEW p \in Procs, VerifyOwned(p) PROVE IInv'
  BY <1>10, QuietStep DEF VerifyOwned, Goto, PC, Releasing
<1>11. ASSUME NEW p \in Procs, RenameAway(p) PROVE IInv'
  <2> USE <1>11 DEF RenameAway, Goto, IInv, TypeOK
  <2>1. gate = Mine(p) /\ alive[p] /\ OwnerOf(gate) = p
    BY DEF Published, Releasing, Mine, OwnerOf
  <2>2. PrivateNonce'
    BY DEF PrivateNonce
  <2>3. HasNonce'
    BY DEF HasNonce, Releasing
  <2>4. Published'
    <3> SUFFICES ASSUME NEW q \in Procs, alive[q], pc'[q] \in Releasing PROVE FALSE
      BY DEF Published
    <3>1. pc'[p] = "idle" /\ q # p
      BY DEF Releasing
    <3>2. pc[q] \in Releasing
      BY <3>1
    <3>3. gate = Mine(q)
      BY <3>2 DEF Published
    <3>4. QED  BY <2>1, <3>1, <3>3 DEF Mine, OwnerOf
  <2>5. Judged'
    BY <2>1 DEF Judged, ProvablyDead
  <2>6. GateNotBuried' /\ TombstonesAreDeadOwners'
    BY DEF GateNotBuried, TombstonesAreDeadOwners
  <2>7. QED  BY <2>2, <2>3, <2>4, <2>5, <2>6
<1>12. ASSUME NEW p \in Procs, Fault(p) PROVE IInv'
  BY <1>12, QuietStep DEF Fault, RenameFault, RetireFault, Goto, PC, Releasing
<1>13. ASSUME NEW p \in Procs, Crash(p) PROVE IInv'
  <2> USE <1>13 DEF Crash, IInv, TypeOK
  <2>1. PrivateNonce' /\ HasNonce' /\ GateNotBuried'
    BY DEF PrivateNonce, HasNonce, GateNotBuried
  <2>2. Published'
    BY DEF Published, Mine
  <2>3. Judged' /\ TombstonesAreDeadOwners'
    BY DEF Judged, ProvablyDead, TombstonesAreDeadOwners
  <2>4. QED  BY <2>1, <2>2, <2>3
<1>14. CASE UNCHANGED vars
  BY <1>14 DEF vars, IInv, TypeOK, PrivateNonce, HasNonce, Published, Judged, ProvablyDead,
     GateNotBuried, TombstonesAreDeadOwners, Mine
<1>15. QED
  BY <1>1, <1>2, <1>3, <1>4, <1>5, <1>6, <1>7, <1>8, <1>9, <1>10, <1>11, <1>12, <1>13, <1>14
  DEF Next, Take, Retire

-----------------------------------------------------------------------------
\* The invariant holds in every reachable state.
THEOREM Invariant == Spec => []IInv
  BY InitInv, StepInv, PTL DEF Spec

\* takeGate and retire keep every variable in its type.
THEOREM TypeCorrect == Spec => []TypeOK
<1>1. IInv => TypeOK
  BY DEF IInv
<1>2. QED  BY <1>1, Invariant, PTL

\* The directory of a live process inside its section is the one at the gate.
THEOREM AuthorityOnDiskThm == Spec => []AuthorityOnDisk
<1>1. IInv => AuthorityOnDisk
  BY DEF IInv, AuthorityOnDisk, InSection, Published, Releasing
<1>2. QED  BY <1>1, Invariant, PTL

\* At most one live process is between takeGate's success and its release.
THEOREM MutualExclusionThm == Spec => []MutualExclusion
<1>1. IInv => MutualExclusion
  BY DEF IInv, MutualExclusion, InSection, Published, Releasing, Mine
<1>2. QED  BY <1>1, Invariant, PTL

\* A reclaimer's rename never moved anything but the dead owner's directory.
THEOREM TombstonesThm == Spec => []TombstonesAreDeadOwners
<1>1. IInv => TombstonesAreDeadOwners
  BY DEF IInv
<1>2. QED  BY <1>1, Invariant, PTL

-----------------------------------------------------------------------------
\* The two ways a directory leaves the gate.
LeavesByRight ==
  gate # NoDir /\ gate' # gate =>
    LET q == OwnerOf(gate) IN
    \/ alive[q] /\ pc[q] = "rename"
    \/ ~alive[q] /\ \E p \in Procs : Domain[p] = Domain[q] /\ alive[p] /\ pc[p] = "bury"

\* A published gate goes by its live owner's rename, or to a tombstone by a
\* process of the dead owner's domain.
THEOREM GateLeavesByRightThm == Spec => GateLeavesByRight
<1>1. IInv /\ [Next]_vars => [LeavesByRight]_vars
  <2> SUFFICES ASSUME IInv, Next, gate # NoDir, gate' # gate PROVE LeavesByRight
    BY DEF LeavesByRight
  <2>1. PICK p \in Procs : Bury(p) \/ Publish(p) \/ RenameAway(p)
    BY DEF Next, Take, Retire, Fault, Look, ReadOwner, Probe, Recheck, Stage, CheckAbsent,
       Unlock, VerifyOwned, TimerRetire, CallRetire, RenameFault, RetireFault, Crash
  <2>2. CASE Bury(p)
    <3>1. gate = seen[p] /\ ProvablyDead(p, OwnerOf(seen[p]))
      BY <2>2 DEF Bury, IInv, Judged
    <3>2. QED  BY <2>2, <3>1 DEF Bury, Goto, ProvablyDead, LeavesByRight
  <2>3. CASE RenameAway(p)
    <3>1. gate = Mine(p) /\ alive[p] /\ pc[p] = "rename"
      BY <2>3 DEF RenameAway, Goto, IInv, Published, Releasing
    <3>2. QED  BY <3>1 DEF Mine, OwnerOf, LeavesByRight
  <2>4. QED  BY <2>1, <2>2, <2>3 DEF Publish
<1>2. QED  BY <1>1, Invariant, PTL DEF Spec, GateLeavesByRight, LeavesByRight

\* A step of the protocol is a step of the abstract token or leaves it alone.
LEMMA StepRefines == IInv /\ [Next]_vars => [Abstract!Next]_(Abstract!vars)
<1> SUFFICES ASSUME IInv, [Next]_vars PROVE Abstract!Next \/ UNCHANGED <<Holder, alive>>
  BY DEF Abstract!vars
<1> USE NoDirAssumption, NonceFacts
<1>1. ASSUME NEW p \in Procs, Publish(p) PROVE Abstract!Acquire(p) \/ UNCHANGED <<Holder, alive>>
  <2>1. CASE gate # NoDir
    BY <1>1, <2>1 DEF Publish, Holder
  <2>2. CASE gate = NoDir
    <3>1. gate' = Mine(p) /\ Mine(p) \in Nonce /\ OwnerOf(Mine(p)) = p
      BY <1>1, <2>2 DEF Publish, Goto, Mine, IInv, TypeOK, HasNonce
    <3>2. QED  BY <1>1, <2>2, <3>1 DEF Publish, Goto, Holder, Abstract!Acquire
  <2>3. QED  BY <2>1, <2>2
<1>2. ASSUME NEW p \in Procs, Bury(p) PROVE Abstract!Recover \/ UNCHANGED <<Holder, alive>>
  <2>1. CASE gate' = gate
    BY <1>2, <2>1 DEF Bury, Holder
  <2>2. CASE gate' # gate
    <3>1. gate # NoDir /\ gate' = NoDir /\ UNCHANGED alive
      BY <1>2, <2>2 DEF Bury
    <3>2. gate = seen[p] /\ gate \in Nonce /\ ~alive[OwnerOf(gate)]
      BY <1>2, <2>2 DEF Bury, Goto, IInv, Judged, ProvablyDead
    <3>3. QED  BY <3>1, <3>2 DEF Holder, Abstract!Recover
  <2>3. QED  BY <2>1, <2>2
<1>3. ASSUME NEW p \in Procs, RenameAway(p) PROVE Abstract!Release(p)
  <2>1. gate = Mine(p) /\ alive[p] /\ gate \in Nonce /\ OwnerOf(gate) = p
    BY <1>3 DEF RenameAway, Goto, IInv, TypeOK, HasNonce, Published, Releasing, Mine
  <2>2. QED  BY <1>3, <2>1 DEF RenameAway, Holder, Abstract!Release
<1>4. ASSUME NEW p \in Procs, Crash(p) PROVE Abstract!Crash(p)
  BY <1>4 DEF Crash, Abstract!Crash, Holder
<1>5. CASE UNCHANGED <<gate, alive>>
  BY <1>5 DEF Holder
<1>6. QED
  <2>1. \/ \E p \in Procs : Publish(p) \/ Bury(p) \/ RenameAway(p) \/ Crash(p)
        \/ UNCHANGED <<gate, alive>>
    BY DEF Next, vars, Take, Retire, Fault, Look, ReadOwner, Probe, Recheck, Stage, CheckAbsent,
       Unlock, VerifyOwned, TimerRetire, CallRetire, RenameFault, RetireFault
  <2>2. QED  BY <2>1, <1>1, <1>2, <1>3, <1>4, <1>5 DEF Abstract!Next

\* The protocol implements the mutual-exclusion token it promises its callers.
THEOREM Refines == Spec => ImplementsAbstractGate
<1>1. Init => Abstract!Init
  BY DEF Init, Abstract!Init, Holder
<1>2. QED
  BY <1>1, StepRefines, Invariant, PTL DEF Spec, ImplementsAbstractGate, Abstract!Spec

-----------------------------------------------------------------------------
(* The older lock files.  As long as no process has stopped, nobody's file *)
(* gets old while its creator needs it, so nobody ever judges a file       *)
(* stale, nothing is moved aside, and the file at lockPath is that of the  *)
(* one process between its create and its release.                         *)

\* Places a process reaches only after it judged a file stale.
TakingOver == {"rename", "compare", "putback"}

\* Nobody has stopped and nobody has judged a file stale.
Undisturbed ==
  /\ \A p \in Pids : living[p] /\ at[p] \notin TakingOver /\ ~aged[p]
  /\ old = {}

\* The lock file is that of the process that has created and not released it.
LockIsHolders ==
  /\ \A p \in Pids : at[p] \in {"write", "held"} => lock # NoFile /\ lock = Newest(p)
  /\ lock # NoFile => at[Creator(lock)] \in {"write", "held"} /\ lock = Newest(Creator(lock))

LegacyInv == LegacyTypeOK /\ (crashes = 0 => Undisturbed /\ LockIsHolders)

-----------------------------------------------------------------------------
\* A file is a pair of its creator and a number.
LEMMA FileFacts ==
  /\ NoFile \notin File
  /\ \A p \in Pids, k \in 1..MaxOpens : <<p, k>> \in File /\ Creator(<<p, k>>) = p
  /\ \A f \in File : Creator(f) \in Pids
  BY ValuesAssumption DEF File, Creator

\* Types are kept by every step.
LEMMA LegacyTypeStep == LegacyTypeOK /\ [LegacyNext]_legacyVars => LegacyTypeOK'
<1> SUFFICES ASSUME LegacyTypeOK, [LegacyNext]_legacyVars PROVE LegacyTypeOK'
  OBVIOUS
<1> USE ValuesAssumption, FileFacts DEF LegacyTypeOK, Places, Moves
<1>1. ASSUME NEW p \in Pids, Try(p) PROVE LegacyTypeOK'
  <2>1. CASE Create(p)  BY <2>1 DEF Create
  <2>2. CASE Exists(p)  BY <2>2 DEF Exists
  <2>3. CASE WritePid(p)
    <3>1. PICK t \in Pids \cup {Empty} : text' = [text EXCEPT ![Newest(p)] = t]
      BY <2>3 DEF WritePid
    <3>2. text' \in [File -> Pids \cup {Empty}]
      BY <3>1
    <3>3. QED  BY <2>3, <3>2 DEF WritePid
  <2>4. CASE Gone(p)  BY <2>4 DEF Gone
  <2>5. CASE StatAge(p)  BY <2>5 DEF StatAge
  <2>6. CASE ReadPid(p)  BY <2>6 DEF ReadPid
  <2>7. CASE RenameAside(p)  BY <2>7 DEF RenameAside
  <2>8. CASE Compare(p)  BY <2>8 DEF Compare
  <2>9. CASE PutBack(p)
    <3>1. lock' \in File \cup {NoFile} /\ aside' = [aside EXCEPT ![p] = NoFile]
      BY <2>9 DEF PutBack
    <3>2. QED  BY <2>9, <3>1 DEF PutBack
  <2>10. QED  BY <1>1, <2>1, <2>2, <2>3, <2>4, <2>5, <2>6, <2>7, <2>8, <2>9 DEF Try
<1>2. ASSUME NEW p \in Pids, Beat(p) PROVE LegacyTypeOK'
  BY <1>2 DEF Beat
<1>3. ASSUME NEW p \in Pids, Release(p) PROVE LegacyTypeOK'
  BY <1>3 DEF Release
<1>4. ASSUME NEW p \in Pids, Die(p) PROVE LegacyTypeOK'
  BY <1>4 DEF Die
<1>5. ASSUME NEW f \in File, Expire(f) PROVE LegacyTypeOK'
  BY <1>5 DEF Expire
<1>6. CASE UNCHANGED legacyVars
  BY <1>6 DEF legacyVars
<1>7. QED  BY <1>1, <1>2, <1>3, <1>4, <1>5, <1>6 DEF LegacyNext

\* Every step keeps the invariant.  Only Create and Release touch the lock, and
\* a lock that its creator needs does not expire.
LEMMA LegacyStep == LegacyInv /\ [LegacyNext]_legacyVars => LegacyInv'
<1> SUFFICES ASSUME LegacyInv, [LegacyNext]_legacyVars PROVE LegacyInv'
  OBVIOUS
<1>0. LegacyTypeOK /\ LegacyTypeOK'
  BY LegacyTypeStep DEF LegacyInv
<1> SUFFICES ASSUME crashes' = 0 PROVE Undisturbed' /\ LockIsHolders'
  BY <1>0 DEF LegacyInv
<1>1. ASSUME NEW p \in Pids, Die(p) PROVE FALSE
  BY <1>0, <1>1 DEF Die, LegacyTypeOK
<1>2. crashes = 0
  <2>1. ASSUME NEW p \in Pids, Try(p) \/ Beat(p) \/ Release(p) PROVE crashes' = crashes
    BY <2>1 DEF Try, Create, Exists, WritePid, Gone, StatAge, ReadPid, RenameAside, Compare,
                PutBack, Beat, Release
  <2>2. ASSUME NEW f \in File, Expire(f) PROVE crashes' = crashes
    BY <2>2 DEF Expire
  <2>3. QED  BY <1>1, <2>1, <2>2 DEF LegacyNext, legacyVars
<1>3. Undisturbed /\ LockIsHolders
  BY <1>2 DEF LegacyInv
<1> USE <1>0, <1>3, ValuesAssumption, FileFacts
    DEF Undisturbed, LockIsHolders, TakingOver, Moves, Newest
<1>4. ASSUME NEW p \in Pids, Create(p) PROVE Undisturbed' /\ LockIsHolders'
  <2>1. /\ at' = [at EXCEPT ![p] = "write"] /\ opened' = [opened EXCEPT ![p] = @ + 1]
        /\ UNCHANGED <<old, living, aged>> /\ lock' = <<p, opened'[p]>> /\ lock = NoFile
    BY <1>4 DEF Create
  <2>2. lock' = Newest(p)' /\ Creator(lock') = p
    BY <2>1 DEF Creator
  <2>3. \A q \in Pids \ {p} : at[q] \notin {"write", "held"}
    BY <2>1 DEF LegacyTypeOK
  <2>4. Undisturbed'
    BY <2>1 DEF LegacyTypeOK
  <2>5. LockIsHolders'
    <3>1. lock' # NoFile
      BY <1>0, <2>1, <2>2 DEF LegacyTypeOK
    <3>2. QED  BY <2>1, <2>2, <2>3, <3>1 DEF LegacyTypeOK
  <2>6. QED  BY <2>4, <2>5
<1>5. ASSUME NEW p \in Pids, Release(p) PROVE Undisturbed' /\ LockIsHolders'
  BY <1>5 DEF Release, LegacyTypeOK
<1>6. ASSUME NEW p \in Pids, Exists(p) \/ WritePid(p) \/ Gone(p)
      PROVE  Undisturbed' /\ LockIsHolders'
  BY <1>6 DEF Exists, WritePid, Gone, LegacyTypeOK
<1>7. ASSUME NEW p \in Pids, StatAge(p) PROVE Undisturbed' /\ LockIsHolders'
  BY <1>7 DEF StatAge, LegacyTypeOK
<1>8. ASSUME NEW p \in Pids, ReadPid(p) PROVE Undisturbed' /\ LockIsHolders'
  BY <1>8 DEF ReadPid, Stale, HolderGone, LegacyTypeOK
<1>9. ASSUME NEW p \in Pids, RenameAside(p) \/ Compare(p) \/ PutBack(p) PROVE FALSE
  BY <1>9 DEF RenameAside, Compare, PutBack
<1>10. ASSUME NEW p \in Pids, Beat(p) PROVE Undisturbed' /\ LockIsHolders'
  BY <1>10 DEF Beat, LegacyTypeOK
<1>11. ASSUME NEW f \in File, Expire(f) PROVE FALSE
  BY <1>11 DEF Expire, LegacyTypeOK
<1>12. CASE UNCHANGED legacyVars
  BY <1>12 DEF legacyVars
<1>13. QED
  BY <1>1, <1>4, <1>5, <1>6, <1>7, <1>8, <1>9, <1>10, <1>11, <1>12 DEF LegacyNext, Try

\* The initial state satisfies the invariant.
LEMMA LegacyStart == LegacyInit => LegacyInv
  BY ValuesAssumption, FileFacts
  DEF LegacyInit, LegacyInv, LegacyTypeOK, Places, Undisturbed, LockIsHolders, TakingOver

\* tryFileLock excludes as long as no process has stopped, whatever is
\* interleaved and even while a holder's pid is not in its file yet.
THEOREM ExcludesUntilCrash == LegacySpec => []OneHolderUntilCrash
<1>1. LegacyInv => OneHolderUntilCrash
  <2> SUFFICES ASSUME LegacyInv, crashes = 0, NEW p \in Pids, NEW q \in Pids, Holds(p), Holds(q)
               PROVE  p = q
    BY DEF LegacyInv, OneHolderUntilCrash, OneHolder
  <2>1. Newest(p) = lock /\ Newest(q) = lock
    BY DEF LegacyInv, LockIsHolders, Holds
  <2>2. QED  BY <2>1 DEF Newest
<1>2. QED  BY LegacyStart, LegacyStep, <1>1, PTL DEF LegacySpec
=============================================================================
