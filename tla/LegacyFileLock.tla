--------------------------- MODULE LegacyFileLock ---------------------------
(***************************************************************************)
(* The lock files that tryFileLock of packages/core/src/file-lock.ts takes *)
(* without livePidWins (settings, provider caches, git clones), one action *)
(* per file-system call.  A lock is a file created exclusively that holds  *)
(* its creator's pid.  A process that finds one judges it by its age and   *)
(* its pid, renames it aside, looks at what it moved, and either removes   *)
(* that and creates its own, or links it back.  A release removes whatever *)
(* is at the pathname.                                                     *)
(*                                                                         *)
(* The calls of one tryFileLock are synchronous in their process.  pids    *)
(* are not reused, and a live holder keeps its file fresh (heartbeatMs, or *)
(* a section much shorter than staleMs).                                   *)
(***************************************************************************)
EXTENDS Naturals

CONSTANTS
  Pids,       \* processes; a process is its pid
  NoFile,     \* nothing at a pathname
  Empty,      \* the contents of a file nothing was written to
  MaxOpens,   \* bound: files a process creates
  MaxCrashes  \* bound: processes that stop, in total

File == Pids \X (1..MaxOpens)

ASSUME ValuesAssumption ==
  NoFile \notin File /\ Empty \notin Pids /\ MaxOpens \in Nat /\ MaxCrashes \in Nat

\* In create ("idle" the first, "again" the second one of an attempt), in
\* removeIfStale (stat .. putback), or holding the lock.
Places == {"idle", "again", "write", "held", "stat", "read", "rename", "compare", "putback"}

VARIABLES
  lock,     \* the file at lockPath
  aside,    \* aside[p]: the file at p's private ".stale-" pathname
  text,     \* text[f]: the pid in f, or Empty
  old,      \* the files not touched for staleMs
  living, at,
  judged,   \* judged[p]: the pid p read, of the file it takes for stale
  aged,     \* aged[p]: the file p looked at was older than staleMs
  opened,   \* opened[p]: files p has created
  crashes

legacyVars == <<lock, aside, text, old, living, at, judged, aged, opened, crashes>>

Creator(f) == f[1]
Newest(p) == <<p, opened[p]>>

LegacyInit ==
  /\ lock = NoFile
  /\ aside = [p \in Pids |-> NoFile]
  /\ text = [f \in File |-> Empty]
  /\ old = {}
  /\ living = [p \in Pids |-> TRUE]
  /\ at = [p \in Pids |-> "idle"]
  /\ judged = [p \in Pids |-> Empty]
  /\ aged = [p \in Pids |-> FALSE]
  /\ opened = [p \in Pids |-> 0]
  /\ crashes = 0

Moves(p, from, to) ==
  /\ living[p] /\ at[p] = from
  /\ at' = [at EXCEPT ![p] = to]

-----------------------------------------------------------------------------
(* create and release                                                      *)

\* openSync(lockPath, "wx"): one of the two tries of an attempt.
Create(p) ==
  /\ opened[p] < MaxOpens
  /\ lock = NoFile
  /\ Moves(p, "idle", "write") \/ Moves(p, "again", "write")
  /\ opened' = [opened EXCEPT ![p] = @ + 1]
  /\ lock' = <<p, opened'[p]>>
  /\ UNCHANGED <<aside, text, old, living, judged, aged, crashes>>

\* EEXIST: the first try goes on to removeIfStale, the second one gives up.
Exists(p) ==
  /\ opened[p] < MaxOpens
  /\ lock # NoFile
  /\ Moves(p, "idle", "stat") \/ Moves(p, "again", "idle")
  /\ UNCHANGED <<lock, aside, text, old, living, judged, aged, opened, crashes>>

\* writeSync to the open file, wherever it has been moved; errors are ignored.
WritePid(p) ==
  /\ Moves(p, "write", "held")
  /\ \E t \in {p, Empty} : text' = [text EXCEPT ![Newest(p)] = t]
  /\ UNCHANGED <<lock, aside, old, living, judged, aged, opened, crashes>>

\* The heartbeat's utimes, by name.
Beat(p) ==
  /\ living[p] /\ at[p] = "held"
  /\ lock \in old
  /\ old' = old \ {lock}
  /\ UNCHANGED <<lock, aside, text, living, at, judged, aged, opened, crashes>>

\* rmSync(lockPath, force): by name, whoever's file is there.
Release(p) ==
  /\ Moves(p, "held", "idle")
  /\ lock' = NoFile
  /\ UNCHANGED <<aside, text, old, living, judged, aged, opened, crashes>>

-----------------------------------------------------------------------------
(* removeIfStale                                                           *)

\* The file has gone: the attempt goes on to its second create.
Gone(p) ==
  /\ lock = NoFile
  /\ \/ Moves(p, "stat", "again")
     \/ Moves(p, "read", "again")
     \/ Moves(p, "rename", "again")
  /\ UNCHANGED <<lock, aside, text, old, living, judged, aged, opened, crashes>>

StatAge(p) ==
  /\ lock # NoFile
  /\ Moves(p, "stat", "read")
  /\ aged' = [aged EXCEPT ![p] = lock \in old]
  /\ UNCHANGED <<lock, aside, text, old, living, judged, opened, crashes>>

HolderGone(pid) == pid \in Pids /\ ~living[pid]

\* Mutants of Stale: age does not count; no pid counts as a dead one.
StaleByPid(p, pid) == HolderGone(pid)
StaleEmpty(p, pid) == HolderGone(pid) \/ aged[p] \/ pid = Empty

Stale(p, pid) == HolderGone(pid) \/ aged[p]

\* Reading the pid and probing it: a dead pid stays dead, so one step.
ReadPid(p) ==
  /\ lock # NoFile
  /\ Moves(p, "read", IF Stale(p, text[lock]) THEN "rename" ELSE "idle")
  /\ judged' = [judged EXCEPT ![p] = text[lock]]
  /\ UNCHANGED <<lock, aside, text, old, living, aged, opened, crashes>>

\* MUTANT of RenameAside: the error of a rename that moved nothing is ignored.
RenameIgnored(p) ==
  /\ Moves(p, "rename", "compare")
  /\ aside' = [aside EXCEPT ![p] = lock]
  /\ lock' = NoFile
  /\ UNCHANGED <<text, old, living, judged, aged, opened, crashes>>

\* renameSync(lockPath, aside): moves whatever is there by now.
RenameAside(p) ==
  /\ lock # NoFile
  /\ Moves(p, "rename", "compare")
  /\ aside' = [aside EXCEPT ![p] = lock]
  /\ lock' = NoFile
  /\ UNCHANGED <<text, old, living, judged, aged, opened, crashes>>

\* The file that was judged is removed; any other one goes back.  Two empty
\* files compare equal.
Compare(p) ==
  /\ at[p] = "compare"
  /\ LET same == text[aside[p]] = judged[p] IN
     /\ Moves(p, "compare", IF same THEN "again" ELSE "putback")
     /\ aside' = IF same THEN [aside EXCEPT ![p] = NoFile] ELSE aside
  /\ UNCHANGED <<lock, text, old, living, judged, aged, opened, crashes>>

\* linkSync(aside, lockPath), which fails on a newer lock, and rmSync(aside).
PutBack(p) ==
  /\ Moves(p, "putback", "idle")
  /\ lock' = IF lock = NoFile THEN aside[p] ELSE lock
  /\ aside' = [aside EXCEPT ![p] = NoFile]
  /\ UNCHANGED <<text, old, living, judged, aged, opened, crashes>>

-----------------------------------------------------------------------------
Die(p) ==
  /\ crashes < MaxCrashes
  /\ living[p]
  /\ living' = [living EXCEPT ![p] = FALSE]
  /\ crashes' = crashes + 1
  /\ UNCHANGED <<lock, aside, text, old, at, judged, aged, opened>>

\* A live process that has the lock, as far as it knows.
Holds(p) == living[p] /\ at[p] = "held"

\* staleMs passes for a file whose creator does not hold the lock with it.
Expire(f) ==
  /\ f \in {lock} \ (old \cup {NoFile})
  /\ ~(living[Creator(f)] /\ at[Creator(f)] \in {"write", "held"} /\ f = Newest(Creator(f)))
  /\ old' = old \cup {f}
  /\ UNCHANGED <<lock, aside, text, living, at, judged, aged, opened, crashes>>

Try(p) ==
  \/ Create(p) \/ Exists(p) \/ WritePid(p) \/ Gone(p) \/ StatAge(p)
  \/ ReadPid(p) \/ RenameAside(p) \/ Compare(p) \/ PutBack(p)

LegacyNext ==
  \/ \E p \in Pids : Try(p) \/ Beat(p) \/ Release(p) \/ Die(p)
  \/ \E f \in File : Expire(f)

LegacySpec == LegacyInit /\ [][LegacyNext]_legacyVars

\* Callers that keep trying, holders that let go, and time that passes.
LegacyFairSpec ==
  /\ LegacySpec
  /\ \A p \in Pids : WF_legacyVars(Try(p)) /\ WF_legacyVars(Release(p))
  /\ \A f \in File : WF_legacyVars(Expire(f))

-----------------------------------------------------------------------------
(* Properties                                                              *)

LegacyTypeOK ==
  /\ lock \in File \cup {NoFile}
  /\ aside \in [Pids -> File \cup {NoFile}]
  /\ \A p \in Pids : at[p] \in {"compare", "putback"} <=> aside[p] # NoFile
  /\ text \in [File -> Pids \cup {Empty}]
  /\ old \subseteq File
  /\ living \in [Pids -> BOOLEAN]
  /\ at \in [Pids -> Places]
  /\ judged \in [Pids -> Pids \cup {Empty}]
  /\ aged \in [Pids -> BOOLEAN]
  /\ opened \in [Pids -> 0..MaxOpens]
  /\ crashes \in 0..MaxCrashes

\* tryFileLock "takes lockPath if no other process holds it": at most one live
\* process has been given the lock.  Holders are fresh by assumption, so age
\* is no excuse.
OneHolder == \A p, q \in Pids : Holds(p) /\ Holds(q) => p = q

\* While no process has stopped, the lock excludes: nobody judges a file stale
\* that its creator still needs, not even one whose pid is not written yet, and
\* so no release, which removes by name, meets another's file.
OneHolderUntilCrash ==
  /\ LegacyTypeOK
  /\ crashes = 0 => OneHolder

\* A file at lockPath that nobody holds the lock with, be it a dead process's
\* or one a process linked back after its holder released, does not block a
\* live caller that keeps trying.
Orphan(f) == lock = f /\ ~(Holds(Creator(f)) /\ f = Newest(Creator(f)))
OrphansGo == \A f \in File, p \in Pids :
  Orphan(f) /\ p # Creator(f) ~> lock # f \/ ~living[p] \/ opened[p] = MaxOpens
=============================================================================
