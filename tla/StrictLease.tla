---------------------------- MODULE StrictLease ----------------------------
(***************************************************************************)
(* The session leases of packages/core/src/file-lock.ts (tryFileLock with  *)
(* livePidWins, withTransientFileLock), taken by session-store.ts and      *)
(* retried by session-acquisition.ts, one action per file-system call.  A  *)
(* lease is a file that appears at lockPath with its owner record in it.   *)
(* Everything a current build does to it happens under the filesystem      *)
(* gate, used here as AbstractGate promises it.  Older builds take no gate:*)
(* they create and remove files with a bare pid at lockPath at any moment, *)
(* and take over what they judge stale, a record included, in the calls of *)
(* removeIfStale that LegacyFileLock has in full.                          *)
(*                                                                         *)
(* pids are not reused; all processes share one host and PID domain; a     *)
(* live process of either kind keeps the file it holds fresh, and no other *)
(* one (an older build's heartbeat goes by name); an older build writes its*)
(* pid within staleMs.                                                     *)
(***************************************************************************)
EXTENDS Naturals

CONSTANTS
  Strict, Legacy,  \* processes of current and of older builds
  Nobody, NoFile,
  Waiters,         \* those of Strict that wait for a lease: withSessionClaim
  MaxFiles,        \* files of a process that exist at once
  MaxRetries,      \* automatic retries of a release (10 in the code)
  Takers,          \* the older builds that take stale leases over
  MaxTroubles      \* bound: stops, EPERM/EBUSY/EACCES results and looks at a
                   \* lease to take over, in total

Procs == Strict \cup Legacy
File == Procs \X (1..MaxFiles)

ASSUME LeaseAssumption ==
  /\ Strict \cap Legacy = {} /\ Nobody \notin Procs /\ NoFile \notin File
  /\ {MaxFiles, MaxRetries, MaxTroubles} \subseteq Nat
  /\ Takers \subseteq Legacy /\ Waiters \subseteq Strict

VARIABLES
  holder, alive,  \* of AbstractGate
  lock,    \* the file at lockPath
  aside,   \* the file at "<lockPath>.legacy-stale"
  written, \* the older builds' files that have their pid
  old,     \* those not touched for staleMs
  mine,    \* mine[p]: the file p holds the lease with
  owed,    \* owed[p]: p's file whose requested release is not done
  retries, \* retries[p]: timers that may still fire for it
  pc, goal,
  proof,   \* proof[p]: the file p has judged, until that one is retired
  want,    \* want[p]: a claim is awaited
  late,    \* late[p]: its deadline has passed
  stale,   \* the processes past whose view of the session another one appended
  troubles,
  at,      \* at[l]: where the older build l is in removeIfStale
  judged,  \* judged[l]: the pid it read in the file it judged, or Nobody
  taken,   \* taken[l]: the file at its private ".stale-" name
  \* Read by the properties only:
  robbed   \* an older build took away a file that somebody relied on

gate == <<holder, alive>>
older == <<written, at, judged, taken, robbed>>
path == <<lock, aside, old, older>>
lease == <<mine, owed, retries>>
claim == <<want, late>>
vars == <<gate, path, lease, pc, goal, proof, claim, stale, troubles>>

G == INSTANCE AbstractGate WITH Procs <- Strict

Creator(f) == f[1]
IsRecord(f) == Creator(f) \in Strict
Dead(f) == ~alive[Creator(f)]

\* The places of withFilesystemGateAttempt's synchronous body.
Outside == {"idle", "own", "gate"}
Cleaning == {"unown", "leave"}
Gated == {"restore", "unlink", "create", "judge", "match", "retire", "move",
          "verify", "putback", "unback", "again", "validate", "append", "unlock"}
\* Those of removeIfStale: what it looks at was "fresh" or "aged" at its stat.
Looking == {"idle", "fresh", "aged", "move", "compare", "putback"}

Init ==
  /\ holder = Nobody /\ alive = [p \in Procs |-> TRUE]
  /\ lock = NoFile /\ aside = NoFile
  /\ written = {} /\ old = {} /\ robbed = FALSE
  /\ at = [l \in Legacy |-> "idle"]
  /\ judged = [l \in Legacy |-> Nobody]
  /\ taken = [l \in Legacy |-> NoFile]
  /\ mine = [p \in Procs |-> NoFile]
  /\ owed = [p \in Strict |-> NoFile]
  /\ retries = [p \in Strict |-> 0]
  /\ pc = [p \in Strict |-> "idle"]
  /\ goal = [p \in Strict |-> "lease"]
  /\ proof = [p \in Strict |-> NoFile]
  /\ want = [p \in Strict |-> FALSE]
  /\ late = [p \in Strict |-> FALSE]
  /\ stale = {}
  /\ troubles = 0

Goto(p, from, to) ==
  /\ alive[p] /\ pc[p] = from
  /\ pc' = [pc EXCEPT ![p] = to]

\* p starts an attempt: its own pending cleanup comes first.
Enter(p, for) ==
  /\ Goto(p, "idle", IF owed[p] = NoFile THEN "gate" ELSE "own")
  /\ goal' = [goal EXCEPT ![p] = for]

Free(p) == mine[p] = NoFile /\ ~want[p]

\* A stop, a failing call, or a look: bounded in number.
Trouble == troubles < MaxTroubles /\ troubles' = troubles + 1

\* A file of p no pathname, holder or judge knows.
Unknown(f) ==
  /\ f \notin {lock, aside}
  /\ \A q \in Procs : mine[q] # f
  /\ \A q \in Strict : f \notin {owed[q], proof[q]}
  /\ \A l \in Legacy : f # taken[l]

-----------------------------------------------------------------------------
(* The session store's operations                                          *)

\* withSessionClaim's first attempt, or the only one (takeDeletionLock).
Claim(p) ==
  /\ Free(p)
  /\ Enter(p, "lease")
  /\ want' = [want EXCEPT ![p] = p \in Waiters]
  /\ UNCHANGED <<gate, path, lease, proof, late, stale, troubles>>

\* MUTANT of Retry: the deadline is only looked at by the caller.
Retry_Always(p) ==
  /\ want[p]
  /\ Enter(p, "lease")
  /\ UNCHANGED <<gate, path, lease, proof, claim, stale, troubles>>

\* 10 ms later, unless the deadline has passed.
Retry(p) ==
  /\ want[p] /\ ~late[p]
  /\ Enter(p, "lease")
  /\ UNCHANGED <<gate, path, lease, proof, claim, stale, troubles>>

\* Noticed between attempts only, each of which is synchronous.
DeadlinePasses(p) ==
  /\ want[p] /\ ~late[p] /\ Goto(p, "idle", "idle")
  /\ late' = [late EXCEPT ![p] = TRUE]
  /\ UNCHANGED <<gate, path, lease, goal, proof, want, stale, troubles>>

\* The original error is thrown (or the caller's signal aborted).
GiveUp(p) ==
  /\ want[p] /\ late[p]
  /\ Goto(p, "idle", "idle")
  /\ want' = [want EXCEPT ![p] = FALSE]
  /\ late' = [late EXCEPT ![p] = @ /\ want'[p]]
  /\ UNCHANGED <<gate, path, lease, goal, proof, stale, troubles>>

\* An append by a store that has no lease: withTransientFileLock.
Write(p) ==
  /\ Free(p)
  /\ Enter(p, "write")
  /\ UNCHANGED <<gate, path, lease, proof, claim, stale, troubles>>

\* An append under the store's own lease: validated, then written, no gate.
HeldWrite(p) ==
  /\ mine[p] # NoFile /\ p \notin stale
  /\ Goto(p, "idle", "append")
  /\ UNCHANGED <<gate, path, lease, goal, proof, claim, stale, troubles>>

Release(p) ==
  /\ mine[p] # NoFile
  /\ Goto(p, "idle", "own")
  /\ goal' = [goal EXCEPT ![p] = "release"]
  /\ owed' = [owed EXCEPT ![p] = mine[p]]
  /\ mine' = [mine EXCEPT ![p] = NoFile]
  /\ retries' = [retries EXCEPT ![p] = MaxRetries]
  /\ UNCHANGED <<gate, path, proof, claim, stale, troubles>>

TimerFires(p) ==
  /\ owed[p] # NoFile /\ retries[p] > 0
  /\ Enter(p, "release")
  /\ retries' = [retries EXCEPT ![p] = @ - 1]
  /\ UNCHANGED <<gate, path, mine, owed, proof, claim, stale, troubles>>

-----------------------------------------------------------------------------
(* ownedCleanup of a requested release                                     *)

Back(p) == IF goal[p] = "release" THEN "idle" ELSE "gate"

OwnGate(p) ==
  /\ Goto(p, "own", "unown")
  /\ G!Acquire(p)
  /\ UNCHANGED <<path, lease, goal, proof, claim, stale, troubles>>

OwnBusy(p) ==
  /\ holder # Nobody /\ alive[holder]
  /\ Goto(p, "own", Back(p))
  /\ goal' = [goal EXCEPT ![p] = IF @ = "release" THEN "lease" ELSE @]
  /\ UNCHANGED <<gate, path, lease, proof, claim, stale, troubles>>

\* rmSync of the very file; a foreign one grants no authority and ends the debt.
RemoveOwn(p) ==
  /\ Goto(p, "unown", "leave")
  /\ lock' = IF lock = owed[p] THEN NoFile ELSE lock
  /\ owed' = [owed EXCEPT ![p] = NoFile]
  /\ retries' = [retries EXCEPT ![p] = 0]
  /\ UNCHANGED <<gate, aside, old, older, mine, goal, proof, claim, stale,
                 troubles>>

RemoveOwnFails(p) ==
  /\ Trouble
  /\ Goto(p, "unown", "leave")
  /\ UNCHANGED <<gate, path, lease, goal, proof, claim, stale>>

\* The gate is given back; if that fails it stays, for LateRelease.
Leave(p) ==
  /\ Goto(p, "leave", Back(p))
  /\ \/ G!Release(p) /\ UNCHANGED troubles
     \/ Trouble /\ UNCHANGED gate
  /\ goal' = [goal EXCEPT ![p] = IF @ = "release" THEN "lease" ELSE @]
  /\ UNCHANGED <<path, lease, proof, claim, stale>>

\* The gate's own retry, by timer or by p's next attempt.
LateRelease(p) ==
  /\ pc[p] \in Outside
  /\ G!Release(p)
  /\ UNCHANGED <<path, lease, pc, goal, proof, claim, stale, troubles>>

\* The next attempt of any process retires a dead one's gate.
GateRecovered ==
  /\ \E p \in Strict : alive[p] /\ pc[p] \in {"own", "gate"}
  /\ G!Recover
  /\ UNCHANGED <<path, lease, pc, goal, proof, claim, stale, troubles>>

-----------------------------------------------------------------------------
(* tryFileLock and withTransientFileLock under the gate                    *)

EnterGate(p) ==
  /\ Goto(p, "gate", "restore")
  /\ G!Acquire(p)
  /\ UNCHANGED <<path, lease, goal, proof, claim, stale, troubles>>

\* SessionWriteGuardError: worth waiting only if the gate is p's own debt.
GateBusy(p) ==
  /\ holder # Nobody /\ alive[holder]
  /\ Goto(p, "gate", "idle")
  /\ want' = [want EXCEPT ![p] = @ /\ holder = p]
  /\ goal' = [goal EXCEPT ![p] = "lease"]
  /\ late' = [late EXCEPT ![p] = @ /\ want'[p]]
  /\ UNCHANGED <<gate, path, lease, proof, stale, troubles>>

Restored(p) == IF goal[p] = "write" THEN "judge" ELSE "create"
Proven(p) == IF goal[p] = "write" THEN "validate" ELSE "again"

NothingAside(p) ==
  /\ aside = NoFile
  /\ Goto(p, "restore", Restored(p))
  /\ UNCHANGED <<gate, path, lease, goal, proof, claim, stale, troubles>>

\* MUTANT of Link: a failed link is ignored, and so nothing is restored.
Link_Ignored(p) ==
  /\ aside # NoFile
  /\ Goto(p, "restore", "unlink") \/ Goto(p, "putback", "unback")
  /\ UNCHANGED <<gate, path, lease, goal, proof, claim, stale, troubles>>

\* restoreLegacyLease: the link fails on any other file than the moved one.
Link(p) ==
  /\ aside # NoFile
  /\ IF lock \in {NoFile, aside}
     THEN /\ Goto(p, "restore", "unlink") \/ Goto(p, "putback", "unback")
          /\ lock' = aside
     ELSE /\ Goto(p, "restore", "unlock") \/ Goto(p, "putback", "unlock")
          /\ UNCHANGED lock
  /\ UNCHANGED <<gate, aside, old, older, lease, goal, proof, claim, stale, troubles>>

\* rmSync of the second name; only a restored lease lets the attempt go on.
Unlink(p) ==
  /\ \/ /\ Goto(p, "unlink", Restored(p)) \/ Goto(p, "unback", "unlock")
        /\ aside' = NoFile
        /\ UNCHANGED troubles
     \/ /\ Goto(p, "unlink", "unlock") \/ Goto(p, "unback", "unlock")
        /\ Trouble
        /\ UNCHANGED aside
  /\ UNCHANGED <<gate, lock, old, older, lease, goal, proof, claim, stale>>

\* createStrict: one exclusive link of an initialized file.
Publish(p) ==
  /\ lock = NoFile
  /\ Goto(p, "create", "unlock") \/ Goto(p, "again", "unlock")
  /\ \E f \in {p} \X (1..MaxFiles) :
       /\ Unknown(f)
       /\ lock' = f
       /\ mine' = [mine EXCEPT ![p] = f]
  /\ UNCHANGED <<gate, aside, old, older, owed, retries, goal, proof, claim, stale,
                 troubles>>

\* Any other error than EEXIST is thrown; at the bound, it always is.
CreateFails(p) ==
  /\ lock = NoFile
  /\ Goto(p, "create", "unlock") \/ Goto(p, "again", "unlock")
  /\ \/ Trouble
     \/ (\A f \in {p} \X (1..MaxFiles) : ~Unknown(f)) /\ UNCHANGED troubles
  /\ UNCHANGED <<gate, path, lease, goal, proof, claim, stale>>

Exists(p) ==
  /\ lock # NoFile
  /\ Goto(p, "create", "judge") \/ Goto(p, "again", "unlock")
  /\ UNCHANGED <<gate, path, lease, goal, proof, claim, stale, troubles>>

\* MUTANT of Recoverable: a file without a pid is nobody's to judge.
Recoverable_ByPid(f) ==
  \/ IsRecord(f) /\ Dead(f)
  \/ ~IsRecord(f) /\ f \in old /\ f \in written /\ Dead(f)

\* strictOwnerState for records, age and pid for the older builds' files.
Recoverable(f) ==
  \/ IsRecord(f) /\ Dead(f)
  \/ ~IsRecord(f) /\ f \in old /\ (f \notin written \/ Dead(f))

\* The judged file is of no further interest.
Dismiss(p) == proof' = [proof EXCEPT ![p] = NoFile]

Judge(p) ==
  /\ \/ lock = NoFile /\ Goto(p, "judge", Proven(p)) /\ UNCHANGED proof
     \/ /\ lock # NoFile /\ Recoverable(lock)
        /\ Goto(p, "judge", "match")
        /\ proof' = [proof EXCEPT ![p] = lock]
     \/ /\ lock # NoFile /\ ~Recoverable(lock)
        /\ Goto(p, "judge", "unlock")
        /\ UNCHANGED proof
  /\ UNCHANGED <<gate, path, lease, goal, claim, stale, troubles>>

\* matchesProof(lockPath): the same inode, times and contents, or nothing at all.
Match(p) ==
  /\ \/ /\ lock # NoFile /\ lock = proof[p]
        /\ Goto(p, "match", IF IsRecord(lock) THEN "retire" ELSE "move")
        /\ UNCHANGED proof
     \/ /\ lock # proof[p]
        /\ Goto(p, "match", IF lock = NoFile THEN Proven(p) ELSE "unlock")
        /\ Dismiss(p)
  /\ UNCHANGED <<gate, path, lease, goal, claim, stale, troubles>>

\* A rename or a removal that fails throws out of the attempt.
FailsIn(p, place) == Trouble /\ Goto(p, place, "unlock")

\* A record goes to a private name and away; whatever is there by now moves.
Retire(p) ==
  /\ \/ /\ Goto(p, "retire", IF lock = NoFile THEN "unlock" ELSE Proven(p))
        /\ lock' = NoFile /\ UNCHANGED troubles
     \/ FailsIn(p, "retire") /\ lock' \in {lock, NoFile}
  /\ Dismiss(p)
  /\ UNCHANGED <<gate, aside, old, older, lease, goal, claim, stale>>

\* An older build's file goes to the fixed name that every attempt looks at.
MoveAside(p) ==
  /\ \/ /\ lock # NoFile /\ Goto(p, "move", "verify")
        /\ aside' = lock /\ lock' = NoFile
        /\ UNCHANGED <<proof, troubles>>
     \/ /\ lock = NoFile /\ Goto(p, "move", "unlock") /\ UNCHANGED troubles
        /\ Dismiss(p) /\ UNCHANGED <<lock, aside>>
     \/ FailsIn(p, "move") /\ Dismiss(p) /\ UNCHANGED <<lock, aside>>
  /\ UNCHANGED <<gate, old, older, lease, goal, claim, stale>>

\* MUTANT of Verify: the moved file is not compared with the proof.
Verify_Trusting(p) ==
  /\ Goto(p, "verify", Proven(p))
  /\ aside' = NoFile
  /\ Dismiss(p)
  /\ UNCHANGED <<gate, lock, old, older, lease, goal, claim, stale, troubles>>

\* matchesProof(aside) binds the proof to what was moved.
Verify(p) ==
  /\ \/ aside = proof[p] /\ Goto(p, "verify", Proven(p)) /\ aside' = NoFile /\ UNCHANGED troubles
     \/ aside = proof[p] /\ FailsIn(p, "verify") /\ UNCHANGED aside
     \/ aside # proof[p] /\ Goto(p, "verify", "putback") /\ UNCHANGED <<aside, troubles>>
  /\ Dismiss(p)
  /\ UNCHANGED <<gate, lock, old, older, lease, goal, claim, stale>>

\* #validate: a view that others have appended past is a conflict.
Validate(p) ==
  /\ Goto(p, "validate", IF p \notin stale THEN "append" ELSE "unlock")
  /\ UNCHANGED <<gate, path, lease, goal, proof, claim, stale, troubles>>

Append(p) ==
  /\ Goto(p, "append", IF mine[p] = NoFile THEN "unlock" ELSE "idle")
  /\ stale' = stale \cup {q \in Strict \ {p} : alive[q]}
  /\ UNCHANGED <<gate, path, lease, goal, proof, claim, troubles>>

\* The attempt's finally.  A new lease's view is refreshed; a failed claim is
\* still wanted only if it met p's own unfinished release.
Unlock(p) ==
  /\ Goto(p, "unlock", "idle")
  /\ \/ G!Release(p) /\ UNCHANGED troubles
     \/ Trouble /\ UNCHANGED gate
  /\ want' = [want EXCEPT ![p] = @ /\ mine[p] = NoFile /\ owed[p] # NoFile /\ lock = owed[p]]
  /\ stale' = IF mine[p] = NoFile THEN stale ELSE stale \ {p}
  /\ goal' = [goal EXCEPT ![p] = "lease"]
  /\ late' = [late EXCEPT ![p] = @ /\ want'[p]]
  /\ UNCHANGED <<path, lease, proof>>

-----------------------------------------------------------------------------
(* Older builds and the environment                                        *)

LegacyOnly == UNCHANGED <<gate, owed, retries, pc, goal, proof, claim, stale, troubles>>

\* l, which holds no lease, goes on in its attempt.
Attempts(l, from, to) ==
  /\ alive[l] /\ mine[l] = NoFile /\ at[l] = from
  /\ at' = [at EXCEPT ![l] = to]

\* Somebody but l counts on f: it is a live process's lease, or one whose release is
\* not done, or the record that a current build is about to retire.
Relied(f, l) ==
  \/ \E q \in Procs \ {l} : f # NoFile /\ mine[q] = f
  \/ \E q \in Strict : f # NoFile /\ owed[q] = f
  \/ \E q \in Strict : f # NoFile /\ pc[q] = "retire" /\ proof[q] = f

\* create: openSync(lockPath, "wx").
LegacyCreates(l) ==
  /\ lock = NoFile
  /\ Attempts(l, "idle", "idle")
  /\ \E f \in {l} \X (1..MaxFiles) :
       /\ Unknown(f)
       /\ lock' = f
       /\ mine' = [mine EXCEPT ![l] = f]
       /\ written' = written \ {f}
       /\ old' = old \ {f}
  /\ LegacyOnly /\ UNCHANGED <<aside, judged, taken, robbed>>

LegacyWritesPid(l) ==
  /\ alive[l] /\ mine[l] # NoFile /\ mine[l] \notin written
  /\ written' = written \cup {mine[l]}
  /\ LegacyOnly /\ UNCHANGED <<lock, aside, old, mine, at, judged, taken, robbed>>

\* By name, once the pid is written.
LegacyReleases(l) ==
  /\ alive[l] /\ mine[l] \in written
  /\ lock' = NoFile
  /\ mine' = [mine EXCEPT ![l] = NoFile]
  /\ robbed' = (robbed \/ Relied(lock, l))
  /\ LegacyOnly /\ UNCHANGED <<aside, written, old, at, judged, taken>>

\* f is a record that may be of any age: its creator is dead or releasing it.
Unkept(f) == IsRecord(f) /\ ~(alive[Creator(f)] /\ mine[Creator(f)] = f)

\* EEXIST, and the stat of removeIfStale.
LegacyStats(l) ==
  /\ l \in Takers /\ lock # NoFile /\ Trouble
  /\ \/ (lock \in old \/ Unkept(lock)) /\ Attempts(l, "idle", "aged")
     \/ lock \notin old /\ Attempts(l, "idle", "fresh")
  /\ UNCHANGED <<gate, lock, aside, old, written, judged, taken, robbed, lease, pc, goal, proof,
                 claim, stale>>

\* parseInt of the contents: a record starts with its owner's pid.
Text(f) == IF IsRecord(f) \/ f \in written THEN Creator(f) ELSE Nobody

\* The pid of the file that is there now, and the age of the one that was.
LegacyReads(l) ==
  /\ LET gone == lock # NoFile /\ Text(lock) # Nobody /\ Dead(lock) IN
     \/ /\ lock # NoFile
        /\ Attempts(l, "aged", "move") \/ (gone /\ Attempts(l, "fresh", "move"))
        /\ judged' = [judged EXCEPT ![l] = Text(lock)]
     \/ /\ (lock = NoFile /\ Attempts(l, "aged", "idle")) \/ (~gone /\ Attempts(l, "fresh", "idle"))
        /\ UNCHANGED judged
  /\ LegacyOnly /\ UNCHANGED <<lock, aside, old, mine, written, taken, robbed>>

\* renameSync(lockPath, aside): whatever is there by now, or nothing.
LegacyMoves(l) ==
  /\ \/ /\ lock # NoFile
        /\ Attempts(l, "move", "compare")
        /\ taken' = [taken EXCEPT ![l] = lock]
        /\ UNCHANGED judged
     \/ /\ lock = NoFile
        /\ Attempts(l, "move", "idle")
        /\ judged' = [judged EXCEPT ![l] = Nobody]
        /\ UNCHANGED taken
  /\ lock' = NoFile
  /\ robbed' = (robbed \/ Relied(lock, l))
  /\ LegacyOnly /\ UNCHANGED <<aside, old, mine, written>>

\* A file with the pid that was judged is removed.
LegacyCompares(l) ==
  /\ \/ /\ Attempts(l, "compare", "idle")
        /\ Text(taken[l]) = judged[l]
        /\ taken' = [taken EXCEPT ![l] = NoFile]
     \/ /\ Attempts(l, "compare", "putback")
        /\ Text(taken[l]) # judged[l]
        /\ UNCHANGED taken
  /\ judged' = [judged EXCEPT ![l] = Nobody]
  /\ LegacyOnly /\ UNCHANGED <<lock, aside, old, mine, written, robbed>>

\* linkSync(aside, lockPath), whose failure is ignored, and rmSync(aside).
LegacyPutsBack(l) ==
  /\ Attempts(l, "putback", "idle")
  /\ \/ lock = NoFile /\ lock' = taken[l]
     \/ UNCHANGED lock
  /\ taken' = [taken EXCEPT ![l] = NoFile]
  /\ LegacyOnly /\ UNCHANGED <<aside, old, mine, written, judged, robbed>>

\* staleMs passes for an older build's file its creator does not hold.
Expire(f) ==
  /\ f = lock /\ ~IsRecord(f) /\ f \notin old
  /\ ~(alive[Creator(f)] /\ mine[Creator(f)] = f)
  /\ old' = old \cup {f}
  /\ UNCHANGED <<gate, lock, aside, older, lease, pc, goal, proof, claim, stale, troubles>>

CrashStrict(p) ==
  /\ Trouble
  /\ G!Crash(p)
  /\ mine' = [mine EXCEPT ![p] = NoFile]
  /\ owed' = [owed EXCEPT ![p] = NoFile]
  /\ retries' = [retries EXCEPT ![p] = 0]
  /\ pc' = [pc EXCEPT ![p] = "idle"]
  /\ goal' = [goal EXCEPT ![p] = "lease"]
  /\ proof' = [proof EXCEPT ![p] = NoFile]
  /\ want' = [want EXCEPT ![p] = FALSE]
  /\ late' = [late EXCEPT ![p] = FALSE]
  /\ stale' = stale \ {p}
  /\ UNCHANGED path

CrashLegacy(l) ==
  /\ Trouble
  /\ alive[l]
  /\ alive' = [alive EXCEPT ![l] = FALSE]
  /\ mine' = [mine EXCEPT ![l] = NoFile]
  /\ at' = [at EXCEPT ![l] = "idle"]
  /\ judged' = [judged EXCEPT ![l] = Nobody]
  /\ taken' = [taken EXCEPT ![l] = NoFile]
  /\ UNCHANGED <<holder, lock, aside, old, written, robbed, owed, retries, pc, goal, proof, claim,
                 stale>>

\* What p's own synchronous code does once an attempt has begun.
Step(p) ==
  \/ OwnGate(p) \/ OwnBusy(p) \/ RemoveOwn(p) \/ RemoveOwnFails(p) \/ Leave(p)
  \/ EnterGate(p) \/ GateBusy(p) \/ NothingAside(p) \/ Link(p) \/ Unlink(p)
  \/ Publish(p) \/ CreateFails(p) \/ Exists(p) \/ Judge(p) \/ Match(p) \/ Retire(p) \/ MoveAside(p)
  \/ Verify(p) \/ Validate(p) \/ Append(p) \/ Unlock(p)

Next ==
  \/ \E p \in Strict :
       \/ Claim(p) \/ Retry(p) \/ DeadlinePasses(p) \/ GiveUp(p) \/ Write(p)
       \/ HeldWrite(p) \/ Release(p) \/ TimerFires(p) \/ LateRelease(p)
       \/ Step(p) \/ CrashStrict(p)
  \/ GateRecovered
  \/ \E l \in Legacy :
       \/ LegacyCreates(l) \/ LegacyWritesPid(l) \/ LegacyReleases(l) \/ LegacyStats(l)
       \/ LegacyReads(l) \/ LegacyMoves(l) \/ LegacyCompares(l) \/ LegacyPutsBack(l)
       \/ CrashLegacy(l)
  \/ \E f \in File : Expire(f)

Spec == Init /\ [][Next]_vars

\* Synchronous code runs to its end, a waiting claim goes on, time passes, and
\* a process whose claim failed asks again.  The gate has one holder: it gives the gate
\* back if it lives, and is recovered from if it is dead.
FairSpec ==
  /\ Spec
  /\ WF_vars(GateRecovered \/ \E p \in Strict : LateRelease(p))
  /\ WF_vars(\E f \in File : Expire(f))
  /\ \A p \in Strict : WF_vars(Step(p) \/ Retry(p) \/ GiveUp(p)) /\ WF_vars(Claim(p))
  /\ \A p \in Waiters : SF_vars(DeadlinePasses(p))

-----------------------------------------------------------------------------
(* Properties                                                              *)

Optional(files) == files \cup {NoFile}

TypeOK ==
  /\ holder \in Strict \cup {Nobody} /\ alive \in [Procs -> BOOLEAN]
  /\ {lock, aside} \subseteq Optional(File)
  /\ written \cup old \subseteq Legacy \X (1..MaxFiles)
  /\ at \in [Legacy -> Looking] /\ judged \in [Legacy -> Procs \cup {Nobody}]
  /\ taken \in [Legacy -> Optional(File)]
  /\ mine \in [Procs -> Optional(File)]
  /\ \A p \in Procs : mine[p] # NoFile => Creator(mine[p]) = p
  /\ owed \in [Strict -> Optional(File)] /\ proof \in [Strict -> Optional(File)]
  /\ retries \in [Strict -> 0..MaxRetries]
  /\ pc \in [Strict -> Outside \cup Cleaning \cup Gated]
  /\ goal \in [Strict -> {"lease", "write", "release"}]
  /\ want \in [Strict -> BOOLEAN] /\ late \in [Strict -> BOOLEAN]
  /\ stale \subseteq Strict
  /\ troubles \in 0..MaxTroubles /\ robbed \in BOOLEAN

Has(p) == alive[p] /\ mine[p] # NoFile
WritesUnclaimed(p) == alive[p] /\ mine[p] = NoFile /\ pc[p] \in {"validate", "append"}

\* No current build appends between another one's validation of its view and
\* its append, be that under a lease or under the gate alone.
ValidatedStays == \A p \in Strict : alive[p] /\ pc[p] = "append" => p \notin stale

\* A session lease of a current build excludes every other live process, older
\* builds included, and an unclaimed writer of a current build runs while no
\* current build has the lease (file-lock.ts, "none can overlap"); and the view it
\* validated is still that of the file when it appends.
Excludes ==
  /\ \A p \in Strict, q \in Procs : Has(p) /\ Has(q) => p = q
  /\ \A p, q \in Strict : WritesUnclaimed(p) => ~Has(q)
  /\ ValidatedStays

\* An older build has taken nothing away that somebody relied on.  It may: see Relied,
\* LegacyMoves, which moves whatever is at lockPath by then, and LegacyReleases.
NobodyRobbed == ~robbed

\* All the current builds do themselves, whatever crashes in between and with
\* whatever older builds create, release and take over in time, keeps the exclusion.
StrictExcludes == TypeOK /\ (NobodyRobbed => Excludes)

\* The file a live process holds a lease with is where others look for it: a
\* current build's at lockPath, also while its release is unfinished, and an
\* older build's at lockPath or at the fixed recovery name, whatever crashed
\* in between (restoreLegacyLease, "remains authority"): no current build moves a
\* live lease to where it is not seen, unless an older one has interfered.
AuthorityStaysVisible ==
  NobodyRobbed =>
    /\ \A p \in Strict : alive[p] => {mine[p], owed[p]} \subseteq {NoFile, lock}
    /\ \A l \in Legacy : Has(l) => mine[l] \in {lock, aside}

\* An awaited claim ends: with the lease, with an error, or at its deadline.
ClaimEnds == \A p \in Waiters : []<>(~want[p] \/ robbed)

\* The lease of a dead process does not keep current builds out, as long as one
\* of them lives and asks, unless a file at the recovery name fails closed.
DeadLease == \E f \in File : lock = f /\ Dead(f)
DeadLeaseGoes == []<>(~DeadLease \/ aside # NoFile \/ robbed \/ \A p \in Strict : ~alive[p])
=============================================================================
