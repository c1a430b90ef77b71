------------------------- MODULE StrictLeaseProofs -------------------------
(***************************************************************************)
(* Proofs about StrictLease for any processes of both kinds and any bounds.*)
(* The argument: whatever a current build does to the lease it does as the *)
(* holder of the gate, so what one of them has established about other     *)
(* current builds stays true until it leaves the gate.  Older builds can   *)
(* change the lease at any moment; until one of them takes away a file that*)
(* somebody relies on, what they take and what they put back is nobody's,  *)
(* and a file that was judged is not used again.                           *)
(***************************************************************************)
EXTENDS StrictLease, TLAPS

\* Where p is under the gate; an append under a lease needs none.
UnderGate(p) == pc[p] \in Cleaning \cup (Gated \ {"append"}) \/ WritesUnclaimed(p)

HasGate == \A p \in Strict : UnderGate(p) => holder = p

\* Nothing of a dead process is left but its files.
DeadHaveNothing ==
  /\ \A p \in Procs : ~alive[p] => mine[p] = NoFile
  /\ \A p \in Strict : ~alive[p] => owed[p] = NoFile /\ pc[p] = "idle"

\* A process has its own file, and one that nobody takes for old.
OwnFiles ==
  /\ \A p \in Procs : mine[p] # NoFile => Creator(mine[p]) = p /\ mine[p] \notin old
  /\ \A p \in Strict : owed[p] # NoFile => Creator(owed[p]) = p /\ mine[p] = NoFile

\* Whoever has a lease finds its file at one of the two names.
AllVisible ==
  /\ \A p \in Strict : alive[p] => {mine[p], owed[p]} \subseteq {NoFile, lock}
  /\ \A l \in Legacy : Has(l) => mine[l] \in {lock, aside}

\* p has a lease, or one whose release is not done.
Holds(p) == mine[p] # NoFile \/ owed[p] # NoFile

\* A current build that holds a lease is alone.
HoldersAreAlone ==
  \A p \in Strict : Holds(p) => \A l \in Legacy : mine[l] = NoFile

\* A current build past its judgement is the only one: no other one holds a lease.
HasJudged(p) ==
  \/ pc[p] \in {"match", "retire", "move", "verify", "putback", "unback", "again", "validate"}
  \/ WritesUnclaimed(p)

JudgesAreAlone == \A p \in Strict : HasJudged(p) => \A q \in Strict : ~Holds(q)

\* The recovery name is clear from the restore to the move.
NeedsClear == {"create", "judge", "match", "retire", "move", "again", "validate"}

AsideIsClear == \A p \in Strict : pc[p] \in NeedsClear => aside = NoFile

\* Once a moved file is back, its second name is nobody's only one.
RestoredFirst == \A p \in Strict :
  pc[p] \in {"unlink", "unback"} => \A l \in Legacy : mine[l] \in {NoFile, lock}

\* What was judged stays abandoned, and a record that is about to go stays put.
Abandoned(f) == f \in File /\ (IF IsRecord(f) THEN Dead(f) ELSE f \in old)

ProofHolds == \A p \in Strict :
  /\ pc[p] \in {"match", "retire", "move", "verify"} => Abandoned(proof[p])
  /\ pc[p] = "retire" => IsRecord(proof[p]) /\ lock = proof[p]
  /\ pc[p] \in {"move", "verify"} => ~IsRecord(proof[p])

\* All of it ends with the first file that an older build takes from somebody.
Kept ==
  /\ TypeOK /\ HasGate /\ DeadHaveNothing /\ OwnFiles /\ AllVisible
  /\ HoldersAreAlone /\ JudgesAreAlone /\ AsideIsClear /\ RestoredFirst /\ ProofHolds
  /\ ValidatedStays

IInv == TypeOK /\ (~robbed => Kept)

-----------------------------------------------------------------------------
\* A file is a pair of its creator, of one kind or the other, and a number.
LEMMA FileFacts ==
  /\ Strict \subseteq Procs /\ Legacy \subseteq Procs /\ Strict \cap Legacy = {}
  /\ Nobody \notin Strict /\ NoFile \notin File
  /\ \A p \in Procs : \A f \in {p} \X (1..MaxFiles) : f \in File /\ Creator(f) = p
  /\ \A f \in File : Creator(f) \in Procs /\ (IsRecord(f) <=> Creator(f) \notin Legacy)
  /\ \A f \in File : f \in Legacy \X (1..MaxFiles) <=> ~IsRecord(f)
  BY LeaseAssumption DEF Procs, File, Creator, IsRecord

\* Types are kept by the steps of a current build.
LEMMA TypeStrict ==
  ASSUME TypeOK, NEW p \in Strict,
         \/ Claim(p) \/ Retry(p) \/ DeadlinePasses(p) \/ GiveUp(p) \/ Write(p)
         \/ HeldWrite(p) \/ Release(p) \/ TimerFires(p) \/ LateRelease(p)
         \/ Step(p) \/ CrashStrict(p)
  PROVE  TypeOK'
<1> USE LeaseAssumption, FileFacts
    DEF TypeOK, Optional, Outside, Cleaning, Gated, Goto, Enter, gate, path, lease, claim,
        Trouble, FailsIn, Dismiss, older, G!Acquire, G!Release, G!Crash
<1>1. CASE Claim(p)  BY <1>1 DEF Claim
<1>2. CASE Retry(p)  BY <1>2 DEF Retry
<1>3. CASE DeadlinePasses(p)  BY <1>3 DEF DeadlinePasses
<1>4. CASE GiveUp(p)  BY <1>4 DEF GiveUp
<1>5. CASE Write(p)  BY <1>5 DEF Write
<1>6. CASE HeldWrite(p)  BY <1>6 DEF HeldWrite
<1>7. CASE Release(p)  BY <1>7 DEF Release
<1>8. CASE TimerFires(p)  BY <1>8 DEF TimerFires
<1>9. CASE LateRelease(p)  BY <1>9 DEF LateRelease
<1>10. CASE CrashStrict(p)  BY <1>10 DEF CrashStrict
<1>11. CASE OwnGate(p)  BY <1>11 DEF OwnGate
<1>12. CASE OwnBusy(p)  BY <1>12 DEF OwnBusy, Back
<1>13. CASE RemoveOwn(p)  BY <1>13 DEF RemoveOwn
<1>14. CASE RemoveOwnFails(p)  BY <1>14 DEF RemoveOwnFails
<1>15. CASE Leave(p)  BY <1>15 DEF Leave, Back
<1>16. CASE EnterGate(p)  BY <1>16 DEF EnterGate
<1>17. CASE GateBusy(p)  BY <1>17 DEF GateBusy
<1>18. CASE NothingAside(p)  BY <1>18 DEF NothingAside, Restored
<1>19. CASE Link(p)  BY <1>19 DEF Link
<1>20. CASE Unlink(p)  BY <1>20 DEF Unlink, Restored
<1>21. CASE Publish(p)
  <2>1. PICK f \in File : lock' = f /\ mine' = [mine EXCEPT ![p] = f]
    BY <1>21 DEF Publish
  <2>2. QED  BY <1>21, <2>1 DEF Publish
<1>22. CASE Exists(p)  BY <1>22 DEF Exists
<1>23. CASE Judge(p)  BY <1>23 DEF Judge, Proven
<1>24. CASE Match(p)  BY <1>24 DEF Match, Proven
<1>25. CASE Retire(p)  BY <1>25 DEF Retire, Proven
<1>26. CASE MoveAside(p)  BY <1>26 DEF MoveAside
<1>27. CASE Verify(p)  BY <1>27 DEF Verify, Proven
<1>28. CASE Validate(p)  BY <1>28 DEF Validate
<1>29. CASE Append(p)  BY <1>29 DEF Append
<1>30. CASE Unlock(p)  BY <1>30 DEF Unlock
<1>31. CASE CreateFails(p)  BY <1>31 DEF CreateFails
<1>32. QED
  BY <1>1, <1>2, <1>3, <1>4, <1>5, <1>6, <1>7, <1>8, <1>9, <1>10, <1>11, <1>12, <1>13, <1>14,
     <1>15, <1>16, <1>17, <1>18, <1>19, <1>20, <1>21, <1>22, <1>23, <1>24, <1>25, <1>26, <1>27,
     <1>28, <1>29, <1>30, <1>31 DEF Step

\* Types are kept by every step.
LEMMA TypeStep == TypeOK /\ [Next]_vars => TypeOK'
<1> SUFFICES ASSUME TypeOK, [Next]_vars PROVE TypeOK'
  OBVIOUS
<1> USE LeaseAssumption, FileFacts
    DEF TypeOK, Optional, Looking, gate, path, older, lease, claim, LegacyOnly, Attempts, Trouble
<1>1. ASSUME NEW l \in Legacy, LegacyCreates(l) PROVE TypeOK'
  <2>1. PICK f \in {l} \X (1..MaxFiles) :
          /\ lock' = f /\ mine' = [mine EXCEPT ![l] = f]
          /\ written' = written \ {f} /\ old' = old \ {f}
    BY <1>1 DEF LegacyCreates
  <2>2. QED  BY <1>1, <2>1 DEF LegacyCreates
<1>2. ASSUME NEW l \in Legacy, LegacyWritesPid(l) PROVE TypeOK'
  BY <1>2 DEF LegacyWritesPid
<1>3. ASSUME NEW l \in Legacy, LegacyReleases(l) PROVE TypeOK'
  BY <1>3 DEF LegacyReleases
<1>4. ASSUME NEW l \in Legacy, CrashLegacy(l) PROVE TypeOK'
  BY <1>4 DEF CrashLegacy
<1>5. ASSUME NEW f \in File, Expire(f) PROVE TypeOK'
  BY <1>5 DEF Expire
<1>6. CASE GateRecovered
  BY <1>6 DEF GateRecovered, G!Recover
<1>7. CASE UNCHANGED vars
  BY <1>7 DEF vars
<1>8. ASSUME NEW l \in Legacy, LegacyStats(l) PROVE TypeOK'
  BY <1>8 DEF LegacyStats
<1>9. ASSUME NEW l \in Legacy, LegacyReads(l) PROVE TypeOK'
  <2>1. lock \in File => Text(lock) \in Procs \cup {Nobody}
    BY DEF Text
  <2>2. QED  BY <1>9, <2>1 DEF LegacyReads
<1>10. ASSUME NEW l \in Legacy, LegacyMoves(l) PROVE TypeOK'
  BY <1>10 DEF LegacyMoves
<1>11. ASSUME NEW l \in Legacy, LegacyCompares(l) PROVE TypeOK'
  BY <1>11 DEF LegacyCompares
<1>12. ASSUME NEW l \in Legacy, LegacyPutsBack(l) PROVE TypeOK'
  BY <1>12 DEF LegacyPutsBack
<1>13. QED
  BY <1>1, <1>2, <1>3, <1>4, <1>5, <1>6, <1>7, <1>8, <1>9, <1>10, <1>11, <1>12, TypeStrict
     DEF Next

\* The initial state satisfies the invariant.
LEMMA InitInv == Init => IInv
<1> SUFFICES ASSUME Init PROVE Kept
  BY DEF IInv, Kept
<1> USE LeaseAssumption, FileFacts DEF Init
<1>1. TypeOK
  <2>1. 0 \in 0..MaxRetries /\ 0 \in 0..MaxTroubles
    OBVIOUS
  <2>2. /\ mine \in [Procs -> Optional(File)] /\ alive \in [Procs -> BOOLEAN]
        /\ owed \in [Strict -> Optional(File)] /\ proof \in [Strict -> Optional(File)]
        /\ retries \in [Strict -> 0..MaxRetries]
        /\ \A p \in Procs : mine[p] = NoFile
    BY <2>1 DEF Optional
  <2>3. QED  BY <2>1, <2>2 DEF TypeOK, Optional, Outside, Cleaning, Gated, Looking
<1>2. HasGate /\ JudgesAreAlone
  BY DEF HasGate, UnderGate, Cleaning, Gated, JudgesAreAlone, HasJudged, WritesUnclaimed
<1>3. DeadHaveNothing /\ OwnFiles /\ AllVisible /\ HoldersAreAlone
  BY DEF DeadHaveNothing, OwnFiles, AllVisible, HoldersAreAlone, Holds, Has
<1>4. AsideIsClear /\ RestoredFirst /\ ProofHolds /\ ValidatedStays
  BY DEF AsideIsClear, NeedsClear, RestoredFirst, ProofHolds, ValidatedStays
<1>5. QED  BY <1>1, <1>2, <1>3, <1>4 DEF Kept

\* A step of p that moves it within an attempt but touches no file, lease or
\* process keeps the invariant if p has what its next place needs.
LEMMA QuietStep ==
  ASSUME Kept, TypeOK', NEW p \in Strict, NEW to \in Outside \cup Cleaning \cup Gated,
         alive[p], pc' = [pc EXCEPT ![p] = to], UNCHANGED <<alive, lock, aside, old, mine, owed>>,
         \A q \in Strict \ {p} : (holder = q => holder' = q) /\ proof'[q] = proof[q],
         stale' \subseteq stale,
         to \in Cleaning \cup (Gated \ {"append"}) \/ (to = "append" /\ mine[p] = NoFile)
           => holder' = p,
         to \in {"match", "retire", "move", "verify", "putback", "unback", "again", "validate"}
           \/ (to = "append" /\ mine[p] = NoFile) => \A q \in Strict : ~Holds(q),
         to \in NeedsClear => aside = NoFile,
         to \in {"unlink", "unback"} => to = pc[p],
         to \in {"match", "retire", "move", "verify"} => Abandoned(proof'[p]),
         to = "retire" => IsRecord(proof'[p]) /\ lock = proof'[p],
         to \in {"move", "verify"} => ~IsRecord(proof'[p]),
         to = "append" => p \notin stale'
  PROVE Kept'
<1> USE DEF Kept, TypeOK
<1>1. HasGate'
  BY DEF HasGate, UnderGate, WritesUnclaimed, Cleaning, Gated
<1>2. DeadHaveNothing' /\ OwnFiles' /\ HoldersAreAlone'
  BY DEF DeadHaveNothing, OwnFiles, HoldersAreAlone, Holds
<1>3. AllVisible'
  BY DEF AllVisible, Has
<1>4. JudgesAreAlone'
  <2> SUFFICES ASSUME NEW q \in Strict, HasJudged(q)', NEW r \in Strict PROVE ~Holds(r)
    BY DEF JudgesAreAlone, Holds
  <2>1. CASE q = p  BY <2>1 DEF HasJudged, WritesUnclaimed
  <2>2. CASE q # p  BY <2>2 DEF JudgesAreAlone, HasJudged, WritesUnclaimed
  <2>3. QED  BY <2>1, <2>2
<1>5. AsideIsClear' /\ RestoredFirst' /\ ValidatedStays'
  BY DEF AsideIsClear, NeedsClear, RestoredFirst, ValidatedStays
<1>6. ProofHolds'
  BY DEF ProofHolds, Abandoned, Dead
<1>7. QED  BY <1>1, <1>2, <1>3, <1>4, <1>5, <1>6

\* Two current builds are not under the gate at once.
LEMMA OneUnderGate ==
  ASSUME Kept, NEW p \in Strict, NEW q \in Strict, UnderGate(p), UnderGate(q)
  PROVE  p = q
  BY DEF Kept, HasGate

\* With neither a lease nor a moved file there, nobody holds anything.
LEMMA NobodyHolds ==
  ASSUME Kept, lock = NoFile
  PROVE  /\ \A q \in Strict : ~Holds(q)
         /\ aside = NoFile => \A q \in Procs : mine[q] = NoFile
  BY FileFacts DEF Kept, DeadHaveNothing, AllVisible, Holds, Has, Procs, TypeOK

\* The steps of a current build between attempts.
LEMMA OutsideStep ==
  ASSUME Kept, TypeOK', NEW p \in Strict,
         \/ Claim(p) \/ Retry(p) \/ DeadlinePasses(p) \/ GiveUp(p) \/ Write(p)
         \/ HeldWrite(p) \/ TimerFires(p) \/ LateRelease(p)
  PROVE  Kept'
<1> USE FileFacts DEF Outside, Cleaning, Gated, NeedsClear, gate, path, lease, claim, Goto, Enter
<1>0. TypeOK
  BY DEF Kept
<1>1. CASE Claim(p)  BY <1>0, <1>1, QuietStep DEF Claim
<1>2. CASE Retry(p)  BY <1>0, <1>2, QuietStep DEF Retry
<1>3. CASE Write(p)  BY <1>0, <1>3, QuietStep DEF Write
<1>4. CASE HeldWrite(p)  BY <1>0, <1>4, QuietStep DEF HeldWrite
<1>5. CASE TimerFires(p)  BY <1>0, <1>5, QuietStep DEF TimerFires
<1>6. CASE GiveUp(p)  BY <1>0, <1>6, QuietStep DEF GiveUp
<1>7. CASE LateRelease(p)
  <2>1. /\ alive[p] /\ holder = p /\ pc[p] \in Outside /\ pc' = [pc EXCEPT ![p] = pc[p]]
        /\ UNCHANGED <<alive, lock, aside, old, mine, owed, proof, stale>>
    BY <1>0, <1>7 DEF LateRelease, G!Release, TypeOK
  <2>2. QED  BY <2>1, QuietStep
<1>8. CASE DeadlinePasses(p)  BY <1>0, <1>8, QuietStep DEF DeadlinePasses
<1>9. QED  BY <1>1, <1>2, <1>3, <1>4, <1>5, <1>6, <1>7, <1>8

\* The steps under the gate that only look, and those that take and leave it.
LEMMA LookingStep ==
  ASSUME Kept, TypeOK', NEW p \in Strict,
         \/ OwnGate(p) \/ OwnBusy(p) \/ RemoveOwnFails(p) \/ Leave(p) \/ EnterGate(p)
         \/ GateBusy(p) \/ NothingAside(p) \/ CreateFails(p) \/ Exists(p) \/ Judge(p) \/ Match(p)
         \/ Validate(p) \/ Unlock(p)
  PROVE  Kept'
<1> USE LeaseAssumption, FileFacts
    DEF Outside, Cleaning, Gated, NeedsClear, gate, path, lease, claim, Goto,
        Restored, Proven, Back, G!Acquire, G!Release
<1>0. TypeOK
  BY DEF Kept
<1>1. CASE OwnGate(p)  BY ZenonT(30), <1>0, <1>1, QuietStep DEF OwnGate
<1>2. CASE OwnBusy(p)  BY <1>0, <1>2, QuietStep DEF OwnBusy
<1>3. CASE RemoveOwnFails(p)
  <2>1. holder = p
    BY <1>3 DEF RemoveOwnFails, Kept, HasGate, UnderGate
  <2>2. QED  BY <1>0, <1>3, <2>1, QuietStep DEF RemoveOwnFails
<1>4. CASE Leave(p)
  <2>1. holder = p
    BY <1>4 DEF Leave, Kept, HasGate, UnderGate
  <2>2. /\ alive[p] /\ pc' = [pc EXCEPT ![p] = Back(p)] /\ Back(p) \in {"idle", "gate"}
        /\ UNCHANGED <<alive, lock, aside, old, mine, owed, proof, stale>>
    BY <1>4 DEF Leave
  <2>3. QED  BY <2>1, <2>2, QuietStep
<1>5. CASE EnterGate(p)  BY ZenonT(30), <1>0, <1>5, QuietStep DEF EnterGate
<1>6. CASE GateBusy(p)  BY <1>0, <1>6, QuietStep DEF GateBusy
<1>7. CASE NothingAside(p)
  <2>1. holder = p
    BY <1>7 DEF NothingAside, Kept, HasGate, UnderGate
  <2>2. QED  BY <1>0, <1>7, <2>1, QuietStep DEF NothingAside
<1>8. CASE Exists(p)
  <2>1. holder = p /\ aside = NoFile
    BY <1>8 DEF Exists, Kept, HasGate, UnderGate, AsideIsClear
  <2>2. QED  BY <1>0, <1>8, <2>1, QuietStep DEF Exists
<1>9. CASE Judge(p)
  <2>1. holder = p /\ aside = NoFile
    BY <1>9 DEF Judge, Kept, HasGate, UnderGate, AsideIsClear
  <2>2. CASE lock = NoFile
    BY <1>0, <1>9, <2>1, <2>2, NobodyHolds, QuietStep DEF Judge
  <2>3. CASE lock # NoFile /\ ~Recoverable(lock)
    BY <1>0, <1>9, <2>1, <2>3, QuietStep DEF Judge
  <2>4. CASE lock # NoFile /\ Recoverable(lock)
    <3>1. Abandoned(lock)
      BY <1>0, <2>4 DEF TypeOK, Optional, Recoverable, Abandoned
    <3>2. \A q \in Strict : ~Holds(q)
      BY <1>0, <2>4, <3>1 DEF Kept, TypeOK, DeadHaveNothing, OwnFiles, AllVisible,
         Holds, Abandoned, Dead, IsRecord
    <3>3. QED  BY <1>0, <1>9, <2>1, <2>4, <3>1, <3>2, QuietStep DEF Judge, TypeOK
  <2>5. QED  BY <2>2, <2>3, <2>4
<1>10. CASE Match(p)
  <2>1. holder = p /\ aside = NoFile /\ Abandoned(proof[p]) /\ \A q \in Strict : ~Holds(q)
    BY <1>10 DEF Match, Kept, HasGate, UnderGate, AsideIsClear, ProofHolds, JudgesAreAlone,
       HasJudged
  <2>2. PICK to \in {"unlock", "retire", "move", "validate", "again"} :
          /\ alive[p] /\ pc' = [pc EXCEPT ![p] = to]
          /\ to \in {"retire", "move"} => proof' = proof /\ lock = proof[p]
          /\ to = "retire" => IsRecord(lock)
          /\ to = "move" => ~IsRecord(lock)
    BY <1>10 DEF Match
  <2>3. /\ UNCHANGED <<holder, alive, lock, aside, old, mine, owed, stale>>
        /\ \A q \in Strict \ {p} : proof'[q] = proof[q]
    BY <1>0, <1>10 DEF Match, Dismiss, TypeOK
  <2>4. to = "append" => p \notin stale'
    OBVIOUS
  <2>5. CASE to \in {"retire", "move"}
    <3>1. Abandoned(proof'[p]) /\ (to = "retire" <=> IsRecord(proof'[p])) /\ lock = proof'[p]
      BY <2>1, <2>2, <2>5
    <3>2. QED  BY <2>1, <2>2, <2>3, <2>5, <3>1, QuietStep
  <2>6. CASE to \in {"unlock", "validate", "again"}
    BY <2>1, <2>2, <2>3, <2>6, QuietStep
  <2>7. QED  BY <2>5, <2>6
<1>11. CASE Validate(p)
  <2>1. holder = p /\ \A q \in Strict : ~Holds(q)
    BY <1>11 DEF Validate, Kept, HasGate, UnderGate, JudgesAreAlone, HasJudged
  <2>2. CASE p \in stale
    BY <1>0, <1>11, <2>1, <2>2, QuietStep DEF Validate
  <2>3. CASE p \notin stale
    <3>1. alive[p] /\ pc' = [pc EXCEPT ![p] = "append"]
      BY <1>11, <2>3 DEF Validate
    <3>2. UNCHANGED <<holder, alive, lock, aside, old, mine, owed, proof, stale>>
      BY <1>11 DEF Validate
    <3>3. QED  BY <2>1, <2>3, <3>1, <3>2, QuietStep
  <2>4. QED  BY <2>2, <2>3
<1>12. CASE Unlock(p)
  <2>1. holder = p
    BY <1>12 DEF Unlock, Kept, HasGate, UnderGate
  <2>2. QED  BY <1>0, <1>12, <2>1, QuietStep DEF Unlock, TypeOK
<1>13. CASE CreateFails(p)
  <2>1. holder = p
    BY <1>13 DEF CreateFails, Kept, HasGate, UnderGate
  <2>2. QED  BY <1>0, <1>13, <2>1, QuietStep DEF CreateFails
<1>14. QED
  BY <1>1, <1>2, <1>3, <1>4, <1>5, <1>6, <1>7, <1>8, <1>9, <1>10, <1>11, <1>12, <1>13

\* While one current build is under the gate, the others are not.
LEMMA OthersOutside ==
  ASSUME Kept, NEW p \in Strict, UnderGate(p)
  PROVE  \A q \in Strict \ {p} : ~UnderGate(q) /\ ~HasJudged(q) /\ pc[q] \in Outside \cup {"append"}
  BY DEF Kept, TypeOK, HasGate, UnderGate, HasJudged, WritesUnclaimed, Outside, Cleaning, Gated

\* Only one process holds a lease at lockPath.
LEMMA OneHolder ==
  ASSUME Kept, NEW p \in Strict, Holds(p)
  PROVE  /\ lock # NoFile /\ lock \in {mine[p], owed[p]} /\ Creator(lock) = p
         /\ \A q \in Procs \ {p} : mine[q] = NoFile
         /\ \A q \in Strict \ {p} : owed[q] = NoFile
<1>1. alive[p] /\ lock # NoFile /\ lock \in {mine[p], owed[p]} /\ Creator(lock) = p
  BY FileFacts DEF Kept, TypeOK, DeadHaveNothing, OwnFiles, AllVisible, Holds
<1>2. \A q \in Strict \ {p} : mine[q] = NoFile /\ owed[q] = NoFile
  BY <1>1, FileFacts DEF Kept, TypeOK, DeadHaveNothing, OwnFiles, AllVisible
<1>3. \A q \in Legacy : mine[q] = NoFile
  BY DEF Kept, HoldersAreAlone
<1>4. QED  BY <1>1, <1>2, <1>3 DEF Procs

\* A release first notes the debt.
LEMMA ReleaseStep ==
  ASSUME Kept, TypeOK', NEW p \in Strict, Release(p)
  PROVE  Kept'
<1> USE FileFacts DEF Kept, TypeOK, Goto, Release, path, gate, claim
<1>1. Holds(p) /\ alive[p] /\ owed[p] = NoFile /\ lock = mine[p]
  BY OneHolder DEF Holds, OwnFiles
<1>2. HasGate'
  BY DEF HasGate, UnderGate, WritesUnclaimed, Cleaning, Gated
<1>3. DeadHaveNothing' /\ OwnFiles' /\ AllVisible'
  BY <1>1 DEF DeadHaveNothing, OwnFiles, AllVisible, Has
<1>4. HoldersAreAlone'
  BY <1>1 DEF HoldersAreAlone, Holds
<1>5. JudgesAreAlone'
  BY <1>1 DEF JudgesAreAlone, HasJudged, WritesUnclaimed, Holds
<1>6. AsideIsClear' /\ RestoredFirst' /\ ValidatedStays'
  BY DEF AsideIsClear, NeedsClear, RestoredFirst, ValidatedStays
<1>7. ProofHolds'
  BY DEF ProofHolds, Abandoned, Dead
<1>8. QED  BY <1>2, <1>3, <1>4, <1>5, <1>6, <1>7

\* A step of the holder of the gate that moves it to a place which asks nothing of
\* it but the gate, or nothing at all, keeps the invariant if the files do.
LEMMA GatedStep ==
  ASSUME Kept, TypeOK', NEW p \in Strict, UnderGate(p), alive[p],
         NEW to \in {"leave", "unlock", "create", "judge", "again", "verify",
                     "unlink", "unback", "validate"},
         pc' = [pc EXCEPT ![p] = to], UNCHANGED <<holder, alive, old, stale>>,
         \A q \in Strict \ {p} : proof'[q] = proof[q],
         OwnFiles', AllVisible', HoldersAreAlone',
         \A q \in Procs : ~alive[q] => mine'[q] = NoFile,
         \A q \in Strict : ~alive[q] => owed'[q] = NoFile,
         \A q \in Strict \ {p} : mine'[q] = mine[q],
         to \in {"unback", "again", "verify", "validate"} => \A q \in Strict : ~Holds(q)',
         to \in NeedsClear => aside' = NoFile,
         to \in {"unlink", "unback"} => \A l \in Legacy : mine'[l] \in {NoFile, lock'},
         to = "verify" => Abandoned(proof'[p]) /\ ~IsRecord(proof'[p])
  PROVE  Kept'
<1> USE FileFacts DEF Kept, TypeOK
<1>0. /\ \A q \in Strict \ {p} : /\ ~UnderGate(q) /\ ~HasJudged(q) /\ pc'[q] = pc[q]
                                 /\ pc[q] \in {"idle", "own", "gate", "append"}
      /\ pc'[p] = to
  BY OthersOutside DEF Outside
<1>1. HasGate'
  BY <1>0 DEF HasGate, UnderGate, WritesUnclaimed, Cleaning, Gated
<1>2. DeadHaveNothing'
  BY <1>0 DEF DeadHaveNothing
<1>3. JudgesAreAlone'
  <2> SUFFICES ASSUME NEW q \in Strict, HasJudged(q)', NEW r \in Strict PROVE ~Holds(r)'
    BY DEF JudgesAreAlone, Holds
  <2>1. q = p
    BY <1>0 DEF HasJudged, WritesUnclaimed
  <2>2. QED  BY <1>0, <2>1 DEF HasJudged, WritesUnclaimed
<1>4. AsideIsClear' /\ RestoredFirst'
  BY <1>0 DEF AsideIsClear, NeedsClear, RestoredFirst
<1>5. ProofHolds'
  BY <1>0 DEF ProofHolds, Abandoned, Dead
<1>6. ValidatedStays'
  BY <1>0 DEF ValidatedStays
<1>7. QED  BY <1>1, <1>2, <1>3, <1>4, <1>5, <1>6

\* The steps of a current build that change what is at the two names.
LEMMA ChangingStep ==
  ASSUME Kept, TypeOK', NEW p \in Strict,
         \/ RemoveOwn(p) \/ Link(p) \/ Unlink(p) \/ Publish(p) \/ Retire(p)
         \/ MoveAside(p) \/ Verify(p)
  PROVE  Kept'
<1> USE FileFacts DEF TypeOK, gate, path, lease, claim, Goto, FailsIn, Dismiss
<1>0. /\ TypeOK /\ OwnFiles /\ AllVisible /\ HoldersAreAlone /\ alive[p]
      /\ UnderGate(p) /\ UNCHANGED <<holder, alive>>
      /\ \A q \in Procs : ~alive[q] => mine[q] = NoFile
      /\ \A q \in Strict : ~alive[q] => owed[q] = NoFile
  BY DEF Kept, DeadHaveNothing, UnderGate, Cleaning, Gated, RemoveOwn, Link, Unlink, Publish,
         Retire, MoveAside, Verify
<1>1. CASE RemoveOwn(p)
  <2> USE DEF RemoveOwn
  <2>1. CASE owed[p] = NoFile
    <3>1. lock' = lock /\ owed' = owed /\ mine' = mine /\ aside' = aside /\ old' = old
      BY <1>0, <1>1, <2>1
    <3>2. OwnFiles' /\ AllVisible' /\ HoldersAreAlone'
      BY <1>0, <3>1 DEF OwnFiles, AllVisible, Has, HoldersAreAlone, Holds
    <3>3. pc' = [pc EXCEPT ![p] = "leave"] /\ UNCHANGED <<stale, proof>>
      BY <1>1
    <3>4. QED  BY <1>0, <3>1, <3>2, <3>3, GatedStep DEF NeedsClear
  <2>2. CASE owed[p] # NoFile
    <3>1. /\ lock = owed[p] /\ mine[p] = NoFile
          /\ \A q \in Procs : mine[q] = NoFile
          /\ \A q \in Strict \ {p} : owed[q] = NoFile
      BY <1>0, <2>2, OneHolder DEF Holds, OwnFiles
    <3>2. OwnFiles' /\ AllVisible' /\ HoldersAreAlone'
      BY <1>0, <1>1, <3>1 DEF OwnFiles, AllVisible, Has, HoldersAreAlone, Holds
    <3>3. /\ pc' = [pc EXCEPT ![p] = "leave"] /\ UNCHANGED <<old, stale, proof, mine>>
          /\ \A q \in Strict : ~alive[q] => owed'[q] = NoFile
      BY <1>0, <1>1
    <3>4. QED  BY <1>0, <3>2, <3>3, GatedStep DEF NeedsClear
  <2>3. QED  BY <2>1, <2>2
<1>2. CASE Link(p)
  <2> USE <1>0, <1>2 DEF Link
  <2>1. pc[p] = "putback" => \A q \in Strict : ~Holds(q)
    BY DEF Kept, JudgesAreAlone, HasJudged
  <2>2. CASE lock \in {NoFile, aside}
    <3>1. lock' = aside /\ aside' = aside /\ mine' = mine /\ owed' = owed /\ old' = old
      BY <2>2
    <3>2. \A l \in Legacy : mine[l] \in {NoFile, aside}
      BY <2>2 DEF AllVisible, Has
    <3>3. OwnFiles' /\ AllVisible' /\ HoldersAreAlone'
      BY <2>2, <3>1, <3>2 DEF OwnFiles, AllVisible, Has, HoldersAreAlone, Holds
    <3>4. CASE pc[p] = "restore"
      BY <2>2, <3>1, <3>2, <3>3, <3>4, GatedStep DEF NeedsClear
    <3>5. CASE pc[p] = "putback"
      BY <2>1, <2>2, <3>1, <3>2, <3>3, <3>5, GatedStep DEF NeedsClear, Holds
    <3>6. QED  BY <3>4, <3>5
  <2>3. CASE lock \notin {NoFile, aside}
    <3>1. UNCHANGED <<lock, aside, mine, owed, old>>
      BY <2>3
    <3>2. OwnFiles' /\ AllVisible' /\ HoldersAreAlone'
      BY <3>1 DEF OwnFiles, AllVisible, Has, HoldersAreAlone, Holds
    <3>3. QED  BY <2>3, <3>1, <3>2, GatedStep DEF NeedsClear
  <2>4. QED  BY <2>2, <2>3
<1>3. CASE Unlink(p)
  <2> USE <1>0, <1>3 DEF Unlink, Restored
  <2>1. \A l \in Legacy : mine[l] \in {NoFile, lock}
    BY DEF Kept, RestoredFirst
  <2>2. UNCHANGED <<lock, mine, owed, old, proof, stale>>
    OBVIOUS
  <2>3. OwnFiles' /\ AllVisible' /\ HoldersAreAlone'
    BY <2>1, <2>2 DEF OwnFiles, AllVisible, Has, HoldersAreAlone, Holds
  <2>4. PICK to \in {"unlock", "create", "judge"} :
          pc' = [pc EXCEPT ![p] = to] /\ (to # "unlock" => aside' = NoFile)
    OBVIOUS
  <2> HIDE <1>3 DEF Unlink, Restored
  <2>5. QED  BY <2>2, <2>3, <2>4, GatedStep DEF NeedsClear
<1>4. CASE Publish(p)
  <2>1. PICK f \in File : /\ lock' = f /\ mine' = [mine EXCEPT ![p] = f]
                          /\ Creator(f) = p
    BY <1>4 DEF Publish
  <2>2. aside = NoFile /\ lock = NoFile
    BY <1>4 DEF Publish, Kept, AsideIsClear, NeedsClear
  <2>3. (\A q \in Strict : ~Holds(q)) /\ (\A q \in Procs : mine[q] = NoFile)
    BY <2>2, NobodyHolds
  <2>4. UNCHANGED <<aside, owed, old, proof, stale>> /\ pc' = [pc EXCEPT ![p] = "unlock"]
    BY <1>4 DEF Publish
  <2>5. f \notin old
    BY <1>0, <2>1
  <2>6. OwnFiles' /\ AllVisible' /\ HoldersAreAlone'
    BY <1>0, <2>1, <2>3, <2>4, <2>5
       DEF OwnFiles, AllVisible, Has, HoldersAreAlone, Holds
  <2>7. UNCHANGED <<holder, alive, old, proof, stale>>
    BY <1>4 DEF Publish, gate
  <2>8. /\ \A q \in Procs : ~alive[q] => mine'[q] = NoFile
        /\ \A q \in Strict : ~alive[q] => owed'[q] = NoFile
        /\ \A q \in Strict \ {p} : mine'[q] = mine[q]
    BY <1>0, <2>1, <2>3, <2>4
  <2>9. QED  BY <1>0, <2>4, <2>6, <2>7, <2>8, GatedStep DEF NeedsClear
<1>5. CASE Retire(p)
  <2>1. aside = NoFile /\ IsRecord(lock) /\ Dead(lock) /\ lock \in File
    BY <1>5 DEF Retire, Kept, AsideIsClear, NeedsClear, ProofHolds, Abandoned
  <2>2. \A q \in Procs : mine[q] = NoFile
    BY <1>0, <2>1 DEF AllVisible, Has, OwnFiles, Dead, Procs
  <2>3. \A q \in Strict : ~Holds(q)
    BY <1>5 DEF Retire, Kept, JudgesAreAlone, HasJudged
  <2>4. /\ lock' \in {lock, NoFile} /\ UNCHANGED <<aside, mine, owed, old, stale>>
        /\ \A q \in Strict \ {p} : proof'[q] = proof[q]
    BY <1>5 DEF Retire
  <2>5. OwnFiles' /\ AllVisible' /\ HoldersAreAlone'
    BY <1>0, <2>2, <2>3, <2>4 DEF OwnFiles, AllVisible, Has, HoldersAreAlone, Holds
  <2>6. PICK to \in {"unlock", "validate", "again"} : pc' = [pc EXCEPT ![p] = to]
    BY <1>5, <2>1 DEF Retire, Proven
  <2>7. \A q \in Strict : ~Holds(q)'
    BY <2>3, <2>4 DEF Holds
  <2>8. QED  BY <1>0, <2>1, <2>4, <2>5, <2>6, <2>7, GatedStep DEF NeedsClear
<1>6. CASE MoveAside(p)
  <2> USE <1>0, <1>6 DEF MoveAside
  <2>1. aside = NoFile /\ Abandoned(proof[p]) /\ ~IsRecord(proof[p])
    BY DEF Kept, AsideIsClear, NeedsClear, ProofHolds
  <2>2. \A q \in Strict : ~Holds(q)
    BY DEF Kept, JudgesAreAlone, HasJudged
  <2>3. /\ UNCHANGED <<mine, owed, old, stale>>
        /\ \A q \in Strict \ {p} : proof'[q] = proof[q]
        /\ (lock' = NoFile /\ aside' = lock) \/ (lock' = lock /\ aside' = aside)
    OBVIOUS
  <2>4. OwnFiles' /\ AllVisible' /\ HoldersAreAlone'
    BY <2>1, <2>2, <2>3 DEF OwnFiles, AllVisible, Has, HoldersAreAlone, Holds
  <2>5. \A q \in Strict : ~Holds(q)'
    BY <2>2, <2>3 DEF Holds
  <2>6. PICK to \in {"unlock", "verify"} :
          pc' = [pc EXCEPT ![p] = to] /\ (to = "verify" => proof' = proof)
    OBVIOUS
  <2>7. to = "verify" => Abandoned(proof'[p]) /\ ~IsRecord(proof'[p])
    BY <2>1, <2>3, <2>6 DEF Abandoned, Dead
  <2> HIDE <1>6 DEF MoveAside
  <2>8. QED  BY <2>3, <2>4, <2>5, <2>6, <2>7, GatedStep DEF NeedsClear
<1>7. CASE Verify(p)
  <2> USE <1>0, <1>7 DEF Verify
  <2>1. Abandoned(proof[p]) /\ ~IsRecord(proof[p]) /\ \A q \in Strict : ~Holds(q)
    BY DEF Kept, ProofHolds, JudgesAreAlone, HasJudged
  <2>2. /\ UNCHANGED <<lock, mine, owed, old, stale>>
        /\ \A q \in Strict \ {p} : proof'[q] = proof[q]
    OBVIOUS
  <2>3. CASE aside = proof[p]
    <3>1. PICK to \in {"unlock", "validate", "again"} :
            /\ pc' = [pc EXCEPT ![p] = to]
            /\ aside' \in {aside, NoFile} /\ (to # "unlock" => aside' = NoFile)
      BY <2>3 DEF Proven
    <3>2. \A l \in Legacy : mine[l] # aside
      BY <2>1, <2>3 DEF Abandoned, OwnFiles
    <3>3. OwnFiles' /\ AllVisible' /\ HoldersAreAlone'
      BY <2>2, <3>1, <3>2 DEF OwnFiles, AllVisible, Has, HoldersAreAlone, Holds
    <3>4. \A q \in Strict : ~Holds(q)'
      BY <2>1, <2>2 DEF Holds
    <3> HIDE <1>7 DEF Verify
    <3>5. QED  BY <2>2, <3>1, <3>3, <3>4, GatedStep DEF NeedsClear
  <2>4. CASE aside # proof[p]
    <3>1. aside' = aside /\ pc' = [pc EXCEPT ![p] = "putback"] /\ holder = p
      BY <2>4 DEF Kept, HasGate
    <3>2. QED  BY <2>1, <2>2, <3>1, QuietStep DEF Gated, NeedsClear
  <2>5. QED  BY <2>3, <2>4
<1>8. QED  BY <1>1, <1>2, <1>3, <1>4, <1>5, <1>6, <1>7

\* An append leaves nobody else with a validated view.
LEMMA AppendStep ==
  ASSUME Kept, TypeOK', NEW p \in Strict, Append(p)
  PROVE  Kept'
<1> USE FileFacts DEF TypeOK, Goto, Append, gate, path, lease, claim
<1>1. alive[p] /\ pc[p] = "append" /\ TypeOK
  BY DEF Kept
<1>2. ASSUME NEW q \in Strict, q # p, alive[q], pc[q] = "append" PROVE FALSE
  <2>1. CASE mine[p] = NoFile
    <3>1. UnderGate(p) /\ HasJudged(p)
      BY <1>1, <2>1 DEF UnderGate, HasJudged, WritesUnclaimed
    <3>2. CASE mine[q] = NoFile
      BY <1>2, <3>1, <3>2, OthersOutside DEF UnderGate, WritesUnclaimed
    <3>3. CASE mine[q] # NoFile
      BY <3>1, <3>3 DEF Kept, JudgesAreAlone, Holds
    <3>4. QED  BY <3>2, <3>3
  <2>2. CASE mine[p] # NoFile
    <3>1. mine[q] = NoFile
      BY <1>2, <2>2, OneHolder DEF Holds
    <3>2. HasJudged(q)
      BY <1>2, <3>1 DEF HasJudged, WritesUnclaimed
    <3>3. QED  BY <2>2, <3>2 DEF Kept, JudgesAreAlone, Holds
  <2>3. QED  BY <2>1, <2>2
<1>3. /\ pc' = [pc EXCEPT ![p] = IF mine[p] = NoFile THEN "unlock" ELSE "idle"]
      /\ UNCHANGED <<holder, alive, lock, aside, old, mine, owed, proof>>
  OBVIOUS
<1>4. HasGate'
  BY <1>1, <1>3 DEF Kept, HasGate, UnderGate, WritesUnclaimed, Cleaning, Gated
<1>5. DeadHaveNothing' /\ OwnFiles' /\ AllVisible' /\ HoldersAreAlone'
  BY <1>1, <1>3 DEF Kept, DeadHaveNothing, OwnFiles, AllVisible, Has,
                    HoldersAreAlone, Holds
<1>6. JudgesAreAlone' /\ AsideIsClear' /\ RestoredFirst' /\ ProofHolds'
  BY <1>1, <1>3 DEF Kept, JudgesAreAlone, HasJudged, WritesUnclaimed, Holds, AsideIsClear,
                    NeedsClear, RestoredFirst, ProofHolds, Abandoned, Dead
<1>7. ValidatedStays'
  BY <1>1, <1>2, <1>3 DEF ValidatedStays
<1>8. QED  BY <1>4, <1>5, <1>6, <1>7 DEF Kept

\* An older build creates a file only where none is, and not one that anybody knows.
LEMMA LegacyCreatesStep ==
  ASSUME Kept, TypeOK', NEW l \in Legacy, LegacyCreates(l)
  PROVE  Kept'
<1> USE FileFacts DEF LegacyOnly, Attempts, gate, claim
<1>1. PICK f \in {l} \X (1..MaxFiles) :
        /\ Unknown(f) /\ lock' = f /\ mine' = [mine EXCEPT ![l] = f] /\ old' = old \ {f}
  BY DEF LegacyCreates
<1>2. /\ alive[l] /\ f \in File /\ Creator(f) = l /\ TypeOK /\ lock = NoFile
      /\ UNCHANGED <<holder, alive, aside, owed, pc, proof, stale>>
  BY <1>1 DEF LegacyCreates, Kept
<1>4. \A q \in Strict : ~Holds(q)
  BY <1>2, NobodyHolds
<1>5. \A q \in Strict : ~Holds(q)'
  BY <1>1, <1>2, <1>4 DEF Holds, TypeOK
<1>6. \A k \in Legacy : mine[k] \in {NoFile, aside}
  BY <1>2 DEF Kept, DeadHaveNothing, AllVisible, Has
<1>7. HasGate'
  BY <1>1, <1>2 DEF Kept, TypeOK, HasGate, UnderGate, WritesUnclaimed
<1>8. DeadHaveNothing'
  BY <1>1, <1>2 DEF Kept, TypeOK, DeadHaveNothing
<1>9. OwnFiles'
  BY <1>1, <1>2, <1>4 DEF Kept, TypeOK, OwnFiles, Holds
<1>10. AllVisible'
  BY <1>1, <1>2, <1>5, <1>6 DEF TypeOK, AllVisible, Has, Holds
<1>11. HoldersAreAlone' /\ JudgesAreAlone'
  BY <1>5 DEF HoldersAreAlone, JudgesAreAlone, Holds
<1>12. AsideIsClear' /\ ValidatedStays'
  BY <1>2 DEF Kept, AsideIsClear, ValidatedStays
<1>13. RestoredFirst'
  <2> SUFFICES ASSUME NEW p \in Strict, pc[p] \in {"unlink", "unback"}, NEW k \in Legacy
               PROVE  mine'[k] \in {NoFile, lock'}
    BY <1>2 DEF RestoredFirst
  <2>1. mine[k] = NoFile
    BY <1>2 DEF Kept, RestoredFirst
  <2>2. QED  BY <1>1, <1>2, <2>1 DEF TypeOK
<1>14. ProofHolds'
  <2> SUFFICES ASSUME NEW p \in Strict,
                      pc[p] \in {"match", "retire", "move", "verify"}
               PROVE  /\ Abandoned(proof[p])'
                      /\ pc[p] # "retire"
                      /\ pc[p] \in {"move", "verify"} => ~IsRecord(proof[p])
    BY <1>2 DEF ProofHolds, IsRecord
  <2>1. proof[p] # f /\ pc[p] # "retire"
    BY <1>1, <1>2 DEF Unknown, Kept, ProofHolds, Abandoned
  <2>2. Abandoned(proof[p])'
    BY <1>1, <1>2, <2>1 DEF Kept, ProofHolds, Abandoned, Dead
  <2>3. QED  BY <2>1, <2>2 DEF Kept, ProofHolds
<1>15. QED
  BY <1>7, <1>8, <1>9, <1>10, <1>11, <1>12, <1>13, <1>14 DEF Kept

\* A file that nobody relies on may go, and one that nobody relies on may come back
\* where there is none.
LEMMA LooseFileStep ==
  ASSUME Kept, TypeOK', UNCHANGED <<holder, alive, aside, old, mine, owed, pc, proof, stale>>,
         \/ lock' = lock
         \/ lock' = NoFile /\ \E l \in Legacy : mine[l] = NoFile /\ ~Relied(lock, l)
         \/ lock = NoFile
  PROVE  Kept'
<1> USE FileFacts DEF Kept
<1>1. CASE lock' = lock
  BY <1>1 DEF HasGate, UnderGate, WritesUnclaimed, DeadHaveNothing, OwnFiles, AllVisible, Has,
     HoldersAreAlone, Holds, JudgesAreAlone, HasJudged, AsideIsClear, RestoredFirst, ProofHolds,
     Abandoned, Dead, ValidatedStays
<1>2. CASE lock' # lock
  <2>1. /\ \A q \in Procs : lock # NoFile => mine[q] # lock
        /\ \A q \in Strict : lock # NoFile => owed[q] # lock
        /\ \A q \in Strict : pc[q] # "retire"
    BY <1>2 DEF Relied, ProofHolds, Abandoned, TypeOK
  <2>2. /\ \A q \in Strict : ~Holds(q)
        /\ \A l \in Legacy : mine[l] \in {NoFile, aside}
    BY <2>1 DEF DeadHaveNothing, AllVisible, Has, Holds, Procs
  <2>3. HasGate' /\ DeadHaveNothing' /\ OwnFiles'
    BY DEF HasGate, UnderGate, WritesUnclaimed, DeadHaveNothing, OwnFiles
  <2>4. AllVisible' /\ HoldersAreAlone' /\ JudgesAreAlone'
    BY <2>2 DEF AllVisible, Has, Holds, HoldersAreAlone, JudgesAreAlone
  <2>5. AsideIsClear' /\ ValidatedStays'
    BY DEF AsideIsClear, ValidatedStays
  <2>6. RestoredFirst'
    BY <2>1 DEF RestoredFirst, Procs
  <2>7. ProofHolds'
    BY <2>1 DEF ProofHolds, Abandoned, Dead
  <2>8. QED  BY <2>3, <2>4, <2>5, <2>6, <2>7
<1>3. QED  BY <1>1, <1>2

\* What an older build moves is nobody's, or somebody is robbed; what it puts back
\* comes to where no file is.
LEMMA LegacyTakeoverStep ==
  ASSUME Kept, TypeOK', NEW l \in Legacy, ~robbed',
         \/ LegacyStats(l) \/ LegacyReads(l) \/ LegacyMoves(l)
         \/ LegacyCompares(l) \/ LegacyPutsBack(l)
  PROVE  Kept'
<1> USE DEF LegacyOnly, Attempts, gate, lease, claim
<1>1. CASE LegacyStats(l)  BY <1>1, LooseFileStep DEF LegacyStats
<1>2. CASE LegacyReads(l)  BY <1>2, LooseFileStep DEF LegacyReads
<1>3. CASE LegacyMoves(l)
  <2>1. /\ UNCHANGED <<holder, alive, aside, old, mine, owed, pc, proof, stale>>
        /\ lock' = NoFile /\ mine[l] = NoFile /\ ~Relied(lock, l)
    BY <1>3 DEF LegacyMoves
  <2>2. QED  BY <2>1, LooseFileStep
<1>4. CASE LegacyCompares(l)  BY <1>4, LooseFileStep DEF LegacyCompares
<1>5. CASE LegacyPutsBack(l)  BY <1>5, LooseFileStep DEF LegacyPutsBack
<1>6. QED  BY <1>1, <1>2, <1>3, <1>4, <1>5

\* An older build releases by name, but only while nobody else's file is there.
LEMMA LegacyReleasesStep ==
  ASSUME Kept, TypeOK', NEW l \in Legacy, LegacyReleases(l), ~robbed'
  PROVE  Kept'
<1> USE FileFacts DEF LegacyReleases, LegacyOnly, gate, claim
<1>1. /\ alive[l] /\ mine[l] \in written /\ lock' = NoFile /\ mine' = [mine EXCEPT ![l] = NoFile]
      /\ UNCHANGED <<holder, alive, aside, old, owed, pc, proof, stale>> /\ TypeOK
  BY DEF Kept
<1>2. mine[l] # NoFile /\ Creator(mine[l]) = l /\ mine[l] \in {lock, aside}
  BY <1>1 DEF Kept, TypeOK, OwnFiles, AllVisible, Has
<1>3. \A q \in Strict : ~Holds(q)
  BY <1>2 DEF Kept, HoldersAreAlone
<1>4. \A q \in Strict : ~Holds(q)'
  BY <1>1, <1>3 DEF Holds, TypeOK
<1>5. HasGate'
  BY <1>1 DEF Kept, TypeOK, HasGate, UnderGate, WritesUnclaimed
<1>6. DeadHaveNothing' /\ OwnFiles'
  BY <1>1 DEF Kept, TypeOK, DeadHaveNothing, OwnFiles
<1>7. HoldersAreAlone' /\ JudgesAreAlone'
  BY <1>4 DEF HoldersAreAlone, JudgesAreAlone, Holds
<1>8. AllVisible'
  <2>1. \A k \in Legacy \ {l} : mine[k] # NoFile => mine[k] # lock
    BY DEF Relied
  <2>2. QED  BY <1>1, <1>2, <1>4, <2>1 DEF Kept, TypeOK, AllVisible, Has, Holds
<1>9. AsideIsClear' /\ ValidatedStays'
  BY <1>1 DEF Kept, AsideIsClear, ValidatedStays
<1>10. RestoredFirst'
  BY <1>1, <1>2 DEF Kept, TypeOK, RestoredFirst, OwnFiles
<1>11. ProofHolds'
  <2>1. \A p \in Strict : pc[p] # "retire"
    BY <1>2 DEF Kept, ProofHolds, AsideIsClear, NeedsClear, Abandoned
  <2>2. QED  BY <1>1, <2>1 DEF Kept, ProofHolds, Abandoned, Dead
<1>12. QED
  BY <1>5, <1>6, <1>7, <1>8, <1>9, <1>10, <1>11 DEF Kept

\* The remaining steps of the older builds and of time touch no current build's state.
LEMMA LegacyOtherStep ==
  ASSUME Kept, TypeOK',
         \/ \E l \in Legacy : LegacyWritesPid(l) \/ CrashLegacy(l)
         \/ \E f \in File : Expire(f)
  PROVE  Kept'
<1> USE FileFacts DEF gate, claim, lease, path, LegacyOnly
<1>0. TypeOK
  BY DEF Kept
<1>1. ASSUME NEW l \in Legacy, LegacyWritesPid(l) PROVE Kept'
  <2>1. UNCHANGED <<holder, alive, lock, aside, old, mine, owed, pc, proof, stale>>
    BY <1>1 DEF LegacyWritesPid
  <2>2. QED
    BY <2>1 DEF Kept, HasGate, UnderGate, WritesUnclaimed, DeadHaveNothing, OwnFiles,
       AllVisible, Has, HoldersAreAlone, Holds, JudgesAreAlone, HasJudged, AsideIsClear,
       RestoredFirst, ProofHolds, Abandoned, Dead, ValidatedStays
<1>2. ASSUME NEW l \in Legacy, CrashLegacy(l) PROVE Kept'
  <2>1. /\ UNCHANGED <<holder, lock, aside, old, owed, pc, proof, stale>>
        /\ alive' = [alive EXCEPT ![l] = FALSE] /\ mine' = [mine EXCEPT ![l] = NoFile]
    BY <1>2 DEF CrashLegacy
  <2>2. HasGate' /\ DeadHaveNothing' /\ OwnFiles'
    BY <1>0, <2>1 DEF Kept, TypeOK, HasGate, UnderGate, WritesUnclaimed, DeadHaveNothing,
       OwnFiles
  <2>3. AllVisible' /\ HoldersAreAlone' /\ JudgesAreAlone'
    BY <1>0, <2>1 DEF Kept, TypeOK, AllVisible, Has, HoldersAreAlone, Holds, JudgesAreAlone,
       HasJudged, WritesUnclaimed
  <2>4. AsideIsClear' /\ RestoredFirst' /\ ValidatedStays'
    BY <1>0, <2>1 DEF Kept, TypeOK, AsideIsClear, RestoredFirst, ValidatedStays
  <2>5. ProofHolds'
    BY <1>0, <2>1 DEF Kept, TypeOK, ProofHolds, Abandoned, Dead
  <2>6. QED  BY <2>2, <2>3, <2>4, <2>5 DEF Kept
<1>3. ASSUME NEW f \in File, Expire(f) PROVE Kept'
  <2>1. /\ UNCHANGED <<holder, alive, lock, aside, owed, mine, pc, proof, stale>>
        /\ old' = old \cup {f} /\ ~IsRecord(f) /\ ~(alive[Creator(f)] /\ mine[Creator(f)] = f)
    BY <1>3 DEF Expire
  <2>2. \A q \in Procs : mine[q] # f
    BY <1>0, <2>1 DEF Kept, DeadHaveNothing, OwnFiles
  <2>3. OwnFiles'
    BY <2>1, <2>2 DEF Kept, OwnFiles
  <2>4. ProofHolds'
    BY <2>1 DEF Kept, ProofHolds, Abandoned, Dead
  <2>5. QED
    BY <2>1, <2>3, <2>4 DEF Kept, HasGate, UnderGate, WritesUnclaimed, DeadHaveNothing,
       AllVisible, Has, HoldersAreAlone, Holds, JudgesAreAlone, HasJudged, AsideIsClear,
       RestoredFirst, ValidatedStays
<1>4. QED  BY <1>1, <1>2, <1>3

\* A crash leaves a current build with nothing, and its file as it is.
LEMMA CrashStrictStep ==
  ASSUME Kept, TypeOK', NEW p \in Strict, CrashStrict(p)
  PROVE  Kept'
<1> USE FileFacts
<1>1. /\ TypeOK /\ UNCHANGED <<holder, lock, aside, old>>
      /\ alive' = [alive EXCEPT ![p] = FALSE] /\ mine' = [mine EXCEPT ![p] = NoFile]
      /\ owed' = [owed EXCEPT ![p] = NoFile] /\ pc' = [pc EXCEPT ![p] = "idle"]
      /\ proof' = [proof EXCEPT ![p] = NoFile] /\ stale' = stale \ {p}
  BY DEF CrashStrict, Kept, path, G!Crash
<1>2. HasGate' /\ DeadHaveNothing' /\ OwnFiles'
  BY <1>1 DEF Kept, TypeOK, HasGate, UnderGate, WritesUnclaimed, Cleaning, Gated,
     DeadHaveNothing, OwnFiles
<1>3. AllVisible' /\ HoldersAreAlone' /\ JudgesAreAlone'
  BY <1>1 DEF Kept, TypeOK, AllVisible, Has, HoldersAreAlone, Holds, JudgesAreAlone,
     HasJudged, WritesUnclaimed
<1>4. AsideIsClear' /\ RestoredFirst' /\ ValidatedStays'
  BY <1>1 DEF Kept, TypeOK, AsideIsClear, NeedsClear, RestoredFirst, ValidatedStays
<1>5. ProofHolds'
  BY <1>1 DEF Kept, TypeOK, ProofHolds, Abandoned, Dead
<1>6. QED  BY <1>1, <1>2, <1>3, <1>4, <1>5 DEF Kept

\* A dead process's gate is nobody's place, so another one may take it over.
LEMMA GateRecoveredStep ==
  ASSUME Kept, TypeOK', GateRecovered
  PROVE  Kept'
<1>1. /\ holder \notin {q \in Strict : alive[q]}
      /\ UNCHANGED <<alive, lock, aside, old, mine, owed, pc, proof, stale>>
  BY DEF GateRecovered, G!Recover, path, lease
<1>2. HasGate'
  BY <1>1 DEF Kept, HasGate, UnderGate, WritesUnclaimed, DeadHaveNothing, Cleaning, Gated
<1>3. QED
  BY <1>1, <1>2 DEF Kept, DeadHaveNothing, OwnFiles, AllVisible, Has, HoldersAreAlone, Holds,
     JudgesAreAlone, HasJudged, WritesUnclaimed, AsideIsClear, RestoredFirst, ProofHolds,
     Abandoned, Dead, ValidatedStays

\* Nothing gives back what a robbery took.
LEMMA RobbedForGood == TypeOK /\ [Next]_vars => (robbed => robbed')
<1> SUFFICES ASSUME TypeOK, [Next]_vars PROVE robbed => robbed'
  OBVIOUS
<1>1. CASE \E l \in Legacy : LegacyReleases(l) \/ LegacyMoves(l)
  BY <1>1 DEF LegacyReleases, LegacyMoves, TypeOK
<1>2. CASE ~\E l \in Legacy : LegacyReleases(l) \/ LegacyMoves(l)
  BY ZenonT(60), <1>2 DEF Next, Step, vars, path, older, Claim, Retry, DeadlinePasses, GiveUp,
     Write, HeldWrite, Release, TimerFires, LateRelease, CrashStrict, OwnGate, OwnBusy,
     RemoveOwn, RemoveOwnFails, Leave, EnterGate, GateBusy, NothingAside, Link, Unlink, Publish,
     CreateFails, Exists, Judge, Match, Retire, MoveAside, Verify, Validate, Append, Unlock,
     GateRecovered, LegacyCreates, LegacyWritesPid, LegacyStats, LegacyReads, LegacyCompares,
     LegacyPutsBack, CrashLegacy, Expire
<1>3. QED  BY <1>1, <1>2

\* Every step keeps the invariant.
LEMMA StepInv == IInv /\ [Next]_vars => IInv'
<1> SUFFICES ASSUME IInv, [Next]_vars PROVE IInv'
  OBVIOUS
<1>1. TypeOK /\ TypeOK'
  BY TypeStep DEF IInv
<1> SUFFICES ASSUME ~robbed' PROVE Kept'
  BY <1>1 DEF IInv
<1>2. Kept
  BY <1>1, RobbedForGood DEF IInv
<1>3. ASSUME NEW p \in Strict,
             \/ Claim(p) \/ Retry(p) \/ DeadlinePasses(p) \/ GiveUp(p) \/ Write(p)
             \/ HeldWrite(p) \/ Release(p) \/ TimerFires(p) \/ LateRelease(p)
             \/ Step(p) \/ CrashStrict(p)
      PROVE  Kept'
  BY <1>1, <1>2, <1>3, OutsideStep, ReleaseStep, LookingStep, ChangingStep, AppendStep,
     CrashStrictStep DEF Step
<1>4. CASE GateRecovered
  BY <1>1, <1>2, <1>4, GateRecoveredStep
<1>5. ASSUME NEW l \in Legacy,
             \/ LegacyCreates(l) \/ LegacyWritesPid(l) \/ LegacyReleases(l) \/ LegacyStats(l)
             \/ LegacyReads(l) \/ LegacyMoves(l) \/ LegacyCompares(l) \/ LegacyPutsBack(l)
             \/ CrashLegacy(l)
      PROVE  Kept'
  BY <1>1, <1>2, <1>5, LegacyCreatesStep, LegacyReleasesStep, LegacyTakeoverStep, LegacyOtherStep
<1>6. ASSUME NEW f \in File, Expire(f) PROVE Kept'
  BY <1>1, <1>2, <1>6, LegacyOtherStep
<1>7. CASE UNCHANGED vars
  BY <1>2, <1>7 DEF vars, gate, path, older, lease, claim, Kept, TypeOK, HasGate, UnderGate,
     WritesUnclaimed, DeadHaveNothing, OwnFiles, AllVisible, Has, HoldersAreAlone, Holds,
     JudgesAreAlone, HasJudged, AsideIsClear, RestoredFirst, ProofHolds, Abandoned, Dead,
     ValidatedStays
<1>8. QED  BY <1>3, <1>4, <1>5, <1>6, <1>7 DEF Next

\* The invariant holds in every behaviour, whatever older builds there are.
THEOREM Invariant == Spec => []IInv
<1>1. IInv /\ [Next]_vars => IInv'
  BY StepInv
<1>2. QED  BY <1>1, InitInv, PTL DEF Spec

\* What the invariant says of the exclusion.
LEMMA LeaseHolds == IInv => StrictExcludes
<1> SUFFICES ASSUME IInv, ~robbed PROVE Excludes
  BY DEF IInv, StrictExcludes, NobodyRobbed
<1> USE FileFacts DEF IInv, Kept
<1>1. ASSUME NEW p \in Strict, NEW q \in Procs, Has(p), Has(q) PROVE p = q
  BY <1>1, OneHolder DEF HoldersAreAlone, Has, Holds, Procs
<1>2. ASSUME NEW p \in Strict, NEW q \in Strict, WritesUnclaimed(p) PROVE ~Has(q)
  BY <1>2 DEF JudgesAreAlone, HasJudged, Holds, Has
<1>3. QED  BY <1>1, <1>2 DEF Excludes

\* As long as nobody was robbed: a live lease of a current build excludes every live
\* process, older builds included, an unclaimed writer runs while no current build has
\* the lease, and the view it or the holder has validated is still that of the file.
THEOREM LeaseExcludes == Spec => []StrictExcludes
  BY LeaseHolds, Invariant, PTL

\* The file a live process holds a lease with is where the others look for it,
\* through every recovery and whatever crashed in the middle of one: no current
\* build moves it away as long as no older build has.
THEOREM AuthorityVisible == Spec => []AuthorityStaysVisible
<1>1. IInv => AuthorityStaysVisible
  BY DEF IInv, Kept, AllVisible, AuthorityStaysVisible, NobodyRobbed
<1>2. QED  BY <1>1, Invariant, PTL

-----------------------------------------------------------------------------
\* Where no older build takes leases over, its own lease is at lockPath, and what a
\* current build has judged stays there until it has moved it.
Untaken ==
  /\ ~robbed
  /\ \A l \in Legacy : at[l] = "idle" /\ mine[l] \in {NoFile, lock}
  /\ \A p \in Strict : pc[p] \in {"match", "move"} => lock = proof[p]

\* The steps of a current build that leave lockPath and what they have judged alone.
LEMMA UntakenQuiet ==
  ASSUME TypeOK, Untaken, NEW p \in Strict,
         \/ Claim(p) \/ Retry(p) \/ DeadlinePasses(p) \/ GiveUp(p) \/ Write(p)
         \/ HeldWrite(p) \/ Release(p) \/ TimerFires(p) \/ LateRelease(p) \/ CrashStrict(p)
         \/ OwnGate(p) \/ OwnBusy(p) \/ RemoveOwnFails(p) \/ Leave(p) \/ EnterGate(p)
         \/ GateBusy(p) \/ NothingAside(p) \/ Unlink(p) \/ CreateFails(p) \/ Exists(p)
         \/ Judge(p) \/ Match(p) \/ Verify(p) \/ Validate(p) \/ Append(p) \/ Unlock(p)
  PROVE  Untaken'
<1> USE FileFacts DEF TypeOK, Untaken, Goto, Enter, path, older, lease, claim, Dismiss, FailsIn
<1>1. CASE Claim(p)  BY <1>1 DEF Claim
<1>2. CASE Retry(p)  BY <1>2 DEF Retry
<1>3. CASE DeadlinePasses(p)  BY <1>3 DEF DeadlinePasses
<1>4. CASE GiveUp(p)  BY <1>4 DEF GiveUp
<1>5. CASE Write(p)  BY <1>5 DEF Write
<1>6. CASE HeldWrite(p)  BY <1>6 DEF HeldWrite
<1>7. CASE Release(p)  BY <1>7 DEF Release
<1>8. CASE TimerFires(p)  BY <1>8 DEF TimerFires
<1>9. CASE LateRelease(p)  BY <1>9 DEF LateRelease
<1>10. CASE CrashStrict(p)  BY <1>10 DEF CrashStrict
<1>11. CASE OwnGate(p)  BY <1>11 DEF OwnGate
<1>12. CASE OwnBusy(p)  BY <1>12 DEF OwnBusy, Back
<1>13. CASE RemoveOwnFails(p)  BY <1>13 DEF RemoveOwnFails
<1>14. CASE Leave(p)  BY <1>14 DEF Leave, Back
<1>15. CASE EnterGate(p)  BY <1>15 DEF EnterGate
<1>16. CASE GateBusy(p)  BY <1>16 DEF GateBusy
<1>17. CASE NothingAside(p)  BY <1>17 DEF NothingAside, Restored
<1>18. CASE Unlink(p)  BY <1>18 DEF Unlink, Restored
<1>19. CASE CreateFails(p)  BY <1>19 DEF CreateFails
<1>20. CASE Exists(p)  BY <1>20 DEF Exists
<1>21. CASE Judge(p)  BY <1>21 DEF Judge, Proven
<1>22. CASE Match(p)  BY <1>22 DEF Match, Proven
<1>23. CASE Verify(p)  BY <1>23 DEF Verify, Proven
<1>24. CASE Validate(p)  BY <1>24 DEF Validate
<1>25. CASE Append(p)  BY <1>25 DEF Append
<1>26. CASE Unlock(p)  BY <1>26 DEF Unlock
<1>27. QED
  BY <1>1, <1>2, <1>3, <1>4, <1>5, <1>6, <1>7, <1>8, <1>9, <1>10, <1>11, <1>12, <1>13, <1>14,
     <1>15, <1>16, <1>17, <1>18, <1>19, <1>20, <1>21, <1>22, <1>23, <1>24, <1>25, <1>26

\* Those that change it find no older build's lease there, and no other one judging.
LEMMA UntakenChange ==
  ASSUME Kept, Untaken, NEW p \in Strict,
         RemoveOwn(p) \/ Link(p) \/ Publish(p) \/ Retire(p) \/ MoveAside(p)
  PROVE  Untaken'
<1> USE FileFacts DEF TypeOK, Goto, FailsIn, Dismiss, path, older, lease
<1>1. /\ TypeOK /\ UnderGate(p) /\ UNCHANGED <<at, robbed>>
      /\ pc'[p] \notin {"match", "move"}
      /\ \A q \in Strict \ {p} : pc'[q] = pc[q] /\ proof'[q] = proof[q]
      /\ \A l \in Legacy : mine'[l] = mine[l]
  BY DEF Kept, UnderGate, Cleaning, Gated, RemoveOwn, Link, Publish, Retire, MoveAside, Back,
         Proven
<1>2. \A q \in Strict \ {p} : pc'[q] \notin {"match", "move"}
  BY <1>1, OthersOutside DEF Outside
<1>3. \A l \in Legacy : mine[l] \in {NoFile, lock'}
  <2>1. CASE RemoveOwn(p)
    BY <1>1, <2>1 DEF RemoveOwn, Untaken, Kept, HoldersAreAlone, Holds
  <2>2. CASE Link(p)
    BY <2>2 DEF Link, Untaken
  <2>3. CASE Publish(p)
    BY <2>3 DEF Publish, Untaken
  <2>4. CASE Retire(p)
    BY <1>1, <2>4 DEF Retire, Untaken, Kept, ProofHolds, OwnFiles, IsRecord
  <2>5. CASE MoveAside(p)
    BY <1>1, <2>5 DEF MoveAside, Untaken, Kept, ProofHolds, OwnFiles, Abandoned
  <2>6. QED  BY <2>1, <2>2, <2>3, <2>4, <2>5
<1>4. QED  BY <1>1, <1>2, <1>3 DEF Untaken

\* An older build that takes nothing over creates where nothing is, and removes its own.
LEMMA UntakenLegacy ==
  ASSUME Takers = {}, Kept, Untaken, NEW l \in Legacy,
         \/ LegacyCreates(l) \/ LegacyWritesPid(l) \/ LegacyReleases(l) \/ LegacyStats(l)
         \/ LegacyReads(l) \/ LegacyMoves(l) \/ LegacyCompares(l) \/ LegacyPutsBack(l)
         \/ CrashLegacy(l)
  PROVE  Untaken'
<1> USE FileFacts DEF TypeOK, LegacyOnly, Attempts
<1>0. TypeOK /\ at[l] = "idle"
  BY DEF Kept, Untaken
<1>1. CASE LegacyCreates(l)
  <2>1. PICK f \in {l} \X (1..MaxFiles) :
          Unknown(f) /\ lock' = f /\ mine' = [mine EXCEPT ![l] = f]
    BY <1>1 DEF LegacyCreates
  <2>2. lock = NoFile /\ UNCHANGED <<at, pc, proof, robbed>> /\ at' = at
    BY <1>0, <1>1 DEF LegacyCreates
  <2>3. \A p \in Strict : pc[p] \notin {"match", "move"}
    BY <2>2 DEF Untaken, Kept, ProofHolds, Abandoned
  <2>4. QED  BY <1>0, <2>1, <2>2, <2>3 DEF Untaken
<1>2. CASE LegacyWritesPid(l)
  BY <1>2 DEF LegacyWritesPid, Untaken
<1>3. CASE LegacyReleases(l)
  <2>1. mine[l] # NoFile /\ lock = mine[l] /\ Creator(lock) = l /\ ~IsRecord(lock) /\ lock \notin old
    BY <1>0, <1>3 DEF LegacyReleases, Untaken, Kept, OwnFiles, IsRecord
  <2>2. ~Relied(lock, l)
    BY <1>0, <2>1 DEF Relied, Kept, OwnFiles, ProofHolds, IsRecord
  <2>3. \A p \in Strict : pc[p] \notin {"match", "move"}
    BY <2>1 DEF Untaken, Kept, ProofHolds, Abandoned
  <2>4. \A k \in Legacy \ {l} : mine[k] = NoFile
    BY <2>1 DEF Untaken, Kept, OwnFiles
  <2>5. QED  BY <1>0, <1>3, <2>2, <2>3, <2>4 DEF LegacyReleases, Untaken
<1>4. CASE CrashLegacy(l)
  BY <1>0, <1>4 DEF CrashLegacy, Untaken
<1>5. CASE LegacyStats(l)
  BY <1>5 DEF LegacyStats
<1>6. CASE LegacyReads(l) \/ LegacyMoves(l) \/ LegacyCompares(l) \/ LegacyPutsBack(l)
  BY <1>0, <1>6 DEF LegacyReads, LegacyMoves, LegacyCompares, LegacyPutsBack
<1>7. QED  BY <1>1, <1>2, <1>3, <1>4, <1>5, <1>6

\* Where no older build takes leases over, nobody is ever robbed of one, and so all
\* that a session lease promises holds without a condition.
THEOREM NobodyIsRobbed == ASSUME Takers = {} PROVE Spec => [](NobodyRobbed /\ Excludes)
<1>1. Init => Untaken
  BY DEF Init, Untaken, Procs
<1>2. IInv /\ Untaken /\ [Next]_vars => Untaken'
  <2> SUFFICES ASSUME IInv, Untaken, [Next]_vars PROVE Untaken'
    OBVIOUS
  <2>1. Kept /\ TypeOK
    BY DEF IInv, Untaken
  <2>2. ASSUME NEW p \in Strict,
               \/ Claim(p) \/ Retry(p) \/ DeadlinePasses(p) \/ GiveUp(p) \/ Write(p)
               \/ HeldWrite(p) \/ Release(p) \/ TimerFires(p) \/ LateRelease(p)
               \/ Step(p) \/ CrashStrict(p)
        PROVE  Untaken'
    BY <2>1, <2>2, UntakenQuiet, UntakenChange DEF Step
  <2>3. CASE GateRecovered \/ (\E f \in File : Expire(f)) \/ UNCHANGED vars
    BY <2>3 DEF GateRecovered, Expire, vars, path, older, lease, Untaken
  <2>4. QED  BY <2>1, <2>2, <2>3, UntakenLegacy DEF Next
<1>3. IInv /\ Untaken => NobodyRobbed /\ Excludes
  BY LeaseHolds DEF Untaken, NobodyRobbed, StrictExcludes
<1>4. QED  BY <1>1, <1>2, <1>3, Invariant, PTL DEF Spec
=============================================================================
