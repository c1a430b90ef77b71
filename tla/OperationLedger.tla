--------------------------- MODULE OperationLedger ---------------------------
(***************************************************************************)
(* The at-most-once ledger of the workspace daemon,                        *)
(* packages/cli/src/server/operation-ledger.ts.  A client names every      *)
(* mutation with an id and may send it again after a reconnect; the ledger *)
(* runs it once, keeps its result for a while, then only remembers the id, *)
(* and under its limits forgets ids, results and whole scopes.             *)
(*                                                                         *)
(* A scope is a client with its lease token.  Each loop of the code is a   *)
(* fold over the sequence it walks.  Time is abstract: how many of the     *)
(* oldest results have outlived retentionMs, and how many of the least     *)
(* recently active scopes idleScopeMs, is any number whenever the ledger   *)
(* prunes.  A call of run is one step (it is synchronous); its effect,     *)
(* the retention of its result and its settlement are steps of their own.  *)
(***************************************************************************)
EXTENDS Naturals, Sequences, FiniteSets, Collections

CONSTANTS
  Scopes, Ids,
  Sizes,         \* bytes of a payload or of a result
  MaxEntries, WindowIds, MaxIds, MaxForgotten, MaxBytes

ASSUME LimitsAssumption ==
  /\ IsFiniteSet(Scopes) /\ IsFiniteSet(Ids)
  /\ Sizes \subseteq Nat
  /\ {MaxEntries, WindowIds, MaxIds, MaxForgotten, MaxBytes} \subseteq Nat \ {0}

VARIABLES
  ledger,  \* the fields of the OperationLedger
  inUse,   \* scopes whose client is attached or in its reconnect grace
  recent   \* history: the last WindowIds + 1 ids each scope ran, oldest first

ledgerVars == <<ledger, inUse, recent>>

(* The fields: order[s] is the key order of s's window (admission order) and
   slot[s][i] its entries; settled and active are in settlement and activity
   order, forgotten in the order the scopes were forgotten; size holds the
   bytes of live entries; progress is where the promise of an entry is, which
   goes on whatever becomes of its slot; the rest are the counters.        *)

Slots == {"none", "tombstone", "live"}

\* execute has been called, and the promise has not settled.
Unsettled == {"running", "retained", "unretained"}

Keys == Scopes \X Ids

LedgerInit ==
  /\ ledger = [order |-> [s \in Scopes |-> <<>>],
               slot |-> [s \in Scopes |-> [i \in Ids |-> "none"]],
               size |-> [k \in Keys |-> 0],
               progress |-> [k \in Keys |-> "none"],
               settled |-> <<>>, active |-> <<>>, forgotten |-> <<>>,
               live |-> 0, ids |-> 0, bytes |-> 0, runningBytes |-> 0]
  /\ inUse = {}
  /\ recent = [s \in Scopes |-> <<>>]

\* state.running is not zero.
Running(l, s) == \E i \in Ids : l.progress[<<s, i>>] \in Unsettled

-----------------------------------------------------------------------------
(* What is given up, and when                                              *)

\* tombstone: the result goes, the id stays.
Tombstone(l, k) ==
  IF l.slot[k[1]][k[2]] # "live" THEN l ELSE
  [l EXCEPT !.slot[k[1]][k[2]] = "tombstone",
            !.settled = Without(@, {k}),
            !.live = @ - 1,
            !.bytes = @ - l.size[k],
            !.size[k] = 0]

\* forget: all the ids of a scope go; its name is refused from now on, until
\* maxForgotten later scopes push it out.
Forget(l, s) ==
  LET bare == FoldLeft(LAMBDA m, i : Tombstone(m, <<s, i>>), l, l.order[s])
      names == Append(l.forgotten, s)
      excess == IF Len(names) > MaxForgotten THEN Len(names) - MaxForgotten ELSE 0
  IN [bare EXCEPT !.ids = @ - Len(l.order[s]),
                  !.order[s] = <<>>,
                  !.slot[s] = [i \in Ids |-> "none"],
                  !.active = Without(@, {s}),
                  !.forgotten = SubSeq(names, excess + 1, Len(names))]

Forgettable(l, s) == ~Running(l, s) /\ s \notin inUse

\* prune: the e oldest results have expired, the d least active scopes idled.
Prune(l, e, d) ==
  LET bare == FoldLeft(Tombstone, l, SubSeq(l.settled, 1, e))
  IN FoldLeft(LAMBDA m, s : IF Forgettable(m, s) THEN Forget(m, s) ELSE m,
              bare, SubSeq(l.active, 1, d))

Prunings(l) == {Prune(l, e, d) : e \in 0..Len(l.settled), d \in 0..Len(l.active)}

\* MUTANT of Trim: the oldest id goes one admission early.
TrimEarly(l, s, n) ==
  LET excess == IF Len(l.order[s]) >= n THEN Len(l.order[s]) + 1 - n ELSE 0
      oldest == SubSeq(l.order[s], 1, excess)
      gone == {i \in ToSet(oldest) : l.slot[s][i] = "tombstone"}
  IN [l EXCEPT !.order[s] = Without(oldest, gone) \o SubSeq(@, excess + 1, Len(@)),
               !.slot[s] = [i \in Ids |-> IF i \in gone THEN "none" ELSE @[i]],
               !.ids = @ - Cardinality(gone)]

\* trim: tombstones with at least n newer ids in their scope; live ones stay.
Trim(l, s, n) ==
  LET excess == IF Len(l.order[s]) > n THEN Len(l.order[s]) - n ELSE 0
      oldest == SubSeq(l.order[s], 1, excess)
      gone == {i \in ToSet(oldest) : l.slot[s][i] = "tombstone"}
  IN [l EXCEPT !.order[s] = Without(oldest, gone) \o SubSeq(@, excess + 1, Len(@)),
               !.slot[s] = [i \in Ids |-> IF i \in gone THEN "none" ELSE @[i]],
               !.ids = @ - Cardinality(gone)]

\* forgetIdle: the least active scopes other than s, until an id fits.
ForgetIdle(l, s) ==
  FoldLeft(LAMBDA m, t : IF m.ids >= MaxIds /\ t # s /\ Forgettable(m, t)
                         THEN Forget(m, t) ELSE m,
           l, l.active)

Fits(l, entries, bytes) ==
  l.live + entries <= MaxEntries /\ l.bytes + bytes <= MaxBytes

\* reserve: the oldest results go until the entries and bytes fit.
Reserve(l, entries, bytes) ==
  FoldLeft(LAMBDA m, k : IF Fits(m, entries, bytes) THEN m ELSE Tombstone(m, k),
           l, l.settled)

\* touch: s is now the most recently active scope.
Touch(l, s) == [l EXCEPT !.active = Append(Without(@, {s}), s)]

-----------------------------------------------------------------------------
(* run                                                                     *)

\* A scope whose name has left the ledger altogether starts anew.
Remembered(l, s) == s \in ToSet(l.active) \cup ToSet(l.forgotten)

LastOf(seq, n) == SubSeq(seq, IF Len(seq) > n THEN Len(seq) - n + 1 ELSE 1, Len(seq))

Recalled(l, s) == IF Remembered(l, s) THEN recent[s] ELSE <<>>

\* The ledger becomes l, and no operation starts.
Becomes(l) ==
  /\ ledger' = l
  /\ recent' = [s \in Scopes |-> Recalled(l, s)]
  /\ UNCHANGED inUse

\* lookup: the id is known, or its scope is refused.
Known(l, s, i) == s \in ToSet(l.forgotten) \/ l.slot[s][i] # "none"

\* A resend gets the retained promise, operation_expired, operation_conflict
\* or permission_denied, and runs nothing.
Resend(s, i) == \E l \in Prunings(ledger) : Known(l, s, i) /\ Becomes(l)

Unsettleds(l) == l.live - Len(l.settled)
Overloaded(l, bytes) ==
  Unsettleds(l) >= MaxEntries \/ l.runningBytes + bytes > MaxBytes

\* What run gives up to make room for a new id of s with bytes of payload.
MakeRoom(l, s, bytes) ==
  LET trimmed == Trim(l, s, WindowIds - 1)
      roomy == IF trimmed.ids >= MaxIds THEN ForgetIdle(trimmed, s) ELSE trimmed
  IN IF roomy.ids >= MaxIds THEN roomy ELSE Reserve(roomy, 1, bytes)

HasRoom(l, bytes) == l.ids < MaxIds /\ Fits(l, 1, bytes)

\* MUTANT of Refuse: the running operations are counted after making room.
RefuseLate(s, i, bytes) == \E l \in Prunings(ledger) :
  /\ ~Known(l, s, i)
  /\ Overloaded(l, bytes) \/ ~HasRoom(MakeRoom(l, s, bytes), bytes)
  /\ Becomes(MakeRoom(l, s, bytes))

\* limit_exceeded, before or after some results and ids were given up.
Refuse(s, i, bytes) == \E l \in Prunings(ledger) :
  /\ ~Known(l, s, i)
  /\ \/ Overloaded(l, bytes) /\ Becomes(l)
     \/ /\ ~Overloaded(l, bytes)
        /\ ~HasRoom(MakeRoom(l, s, bytes), bytes)
        /\ Becomes(MakeRoom(l, s, bytes))

\* The entry is installed and execute is called.
Installed(l, s, i, bytes) ==
  [Touch(l, s) EXCEPT !.order[s] = Append(@, i),
                      !.slot[s][i] = "live",
                      !.progress[<<s, i>>] = "running",
                      !.size[<<s, i>>] = bytes,
                      !.live = @ + 1,
                      !.ids = @ + 1,
                      !.bytes = @ + bytes,
                      !.runningBytes = @ + bytes]

Admit(s, i, bytes) == \E l \in Prunings(ledger) :
  LET roomy == MakeRoom(l, s, bytes) IN
  /\ ~Known(l, s, i) /\ ~Overloaded(l, bytes) /\ HasRoom(roomy, bytes)
  /\ ledger' = Installed(roomy, s, i, bytes)
  /\ recent' = [t \in Scopes |->
       IF t = s THEN LastOf(Append(Recalled(roomy, s), i), WindowIds + 1)
       ELSE Recalled(roomy, t)]
  /\ UNCHANGED inUse

-----------------------------------------------------------------------------
(* The end of an operation                                                 *)

\* MUTANT of RetainTerminal: the reserved bytes of the result are forgotten.
RetainTerminalUncounted(s, i, bytes) ==
  /\ ledger.progress[<<s, i>>] = "running"
  /\ LET roomy == Reserve(ledger, 0, bytes) IN
     Becomes(IF Fits(roomy, 0, bytes)
             THEN [roomy EXCEPT !.progress[<<s, i>>] = "retained",
                                !.size[<<s, i>>] = @ + bytes,
                                !.bytes = @ + bytes]
             ELSE [roomy EXCEPT !.progress[<<s, i>>] = "unretained"])

\* retainTerminal: the result or error is kept if its bytes can be reserved.
RetainTerminal(s, i, bytes) ==
  /\ ledger.progress[<<s, i>>] = "running"
  /\ LET roomy == Reserve(ledger, 0, bytes) IN
     Becomes(IF Fits(roomy, 0, bytes)
             THEN [roomy EXCEPT !.progress[<<s, i>>] = "retained",
                                !.size[<<s, i>>] = @ + bytes,
                                !.bytes = @ + bytes,
                                !.runningBytes = @ + bytes]
             ELSE [roomy EXCEPT !.progress[<<s, i>>] = "unretained"])

\* An exception graph, or a value that is not JSON, is not retained.
RetainNothing(s, i) ==
  /\ ledger.progress[<<s, i>>] = "running"
  /\ Becomes([ledger EXCEPT !.progress[<<s, i>>] = "unretained"])

\* settle, a microtask later; a scope that is gone is not touched.
Settle(s, i) ==
  LET was == ledger.progress[<<s, i>>]
      touched == IF s \in ToSet(ledger.active) THEN Touch(ledger, s) ELSE ledger
      l == [touched EXCEPT !.progress[<<s, i>>] = "none",
                           !.runningBytes = @ - ledger.size[<<s, i>>]]
  IN /\ was \in {"retained", "unretained"}
     /\ Becomes(IF was = "unretained" THEN Tombstone(l, <<s, i>>)
                ELSE [l EXCEPT !.settled = Append(@, <<s, i>>)])

\* isForgotten, for the hello of a reconnecting client, prunes too.
IsForgotten == \E l \in Prunings(ledger) : Becomes(l)

\* Clients attach, detach and run out of their reconnect grace.
Attachment(s) ==
  /\ inUse' = IF s \in inUse THEN inUse \ {s} ELSE inUse \cup {s}
  /\ UNCHANGED <<ledger, recent>>

LedgerNext ==
  \/ \E s \in Scopes, i \in Ids, bytes \in Sizes :
       Admit(s, i, bytes) \/ Refuse(s, i, bytes) \/ RetainTerminal(s, i, bytes)
  \/ \E s \in Scopes, i \in Ids : Resend(s, i) \/ RetainNothing(s, i) \/ Settle(s, i)
  \/ IsForgotten
  \/ \E s \in Scopes : Attachment(s)

LedgerSpec == LedgerInit /\ [][LedgerNext]_ledgerVars

-----------------------------------------------------------------------------
(* Properties                                                              *)

LedgerTypeOK ==
  /\ ledger.order \in [Scopes -> Seq(Ids)]
  /\ ledger.slot \in [Scopes -> [Ids -> Slots]]
  /\ ledger.size \in [Keys -> Nat]
  /\ ledger.progress \in [Keys -> {"none"} \cup Unsettled]
  /\ ledger.settled \in Seq(Keys)
  /\ {ledger.active, ledger.forgotten} \subseteq Seq(Scopes)
  /\ {ledger.live, ledger.ids, ledger.bytes, ledger.runningBytes} \subseteq Nat
  /\ inUse \subseteq Scopes
  /\ recent \in [Scopes -> Seq(Ids)]

\* An id never runs again while it is one of the last windowIds ids its scope
\* ran, however many results were dropped, scopes idled and admissions were
\* refused in between (short of maxForgotten scopes forgotten since).
AtMostOnce == \A s \in Scopes : \A m, n \in 1..Len(recent[s]) :
  m < n => recent[s][m] # recent[s][n]

\* An operation that has not settled keeps its entry, so that a resend waits
\* for it: it is in the window of an active scope, whatever was evicted.
RunningIsKnown == \A s \in Scopes : \A i \in Ids :
  ledger.progress[<<s, i>>] \in Unsettled =>
    /\ s \in ToSet(ledger.active) \ ToSet(ledger.forgotten)
    /\ ledger.slot[s][i] = "live" /\ i \in ToSet(ledger.order[s])
    /\ <<s, i>> \notin ToSet(ledger.settled)

\* The counters the limits are checked against count what the maps hold.
SlotIn(kinds) == {k \in Keys : ledger.slot[k[1]][k[2]] \in kinds}
CountersExact ==
  /\ ledger.live = Cardinality(SlotIn({"live"}))
  /\ ledger.ids = Cardinality(Keys \ SlotIn({"none"}))
  /\ ledger.bytes = Total(ledger.size, Keys)
  /\ ledger.runningBytes = Total(ledger.size, {k \in Keys : ledger.progress[k] \in Unsettled})

\* Every structure stays within its limit, running operations included.
WithinLimits ==
  /\ ledger.live <= MaxEntries
  /\ ledger.ids <= MaxIds
  /\ ledger.bytes <= MaxBytes
  /\ Len(ledger.forgotten) <= MaxForgotten

\* No resend runs an operation again: the id is in the window, and what still runs
\* can be waited for.
ResendsAreKnown == AtMostOnce /\ RunningIsKnown

\* The accounts the admission of an operation relies on are exact, and no limit is
\* exceeded.
AccountsAreKept == LedgerTypeOK /\ CountersExact /\ WithinLimits

\* A request refused for capacity gave up only what its admission would have:
\* no id of its own scope was forgotten for an operation that never ran.
RefusalKeepsIds == [][\A s \in Scopes :
  Remembered(ledger', s) /\ s \in ToSet(ledger'.active) /\ recent'[s] = recent[s]
    => ToSet(ledger.order[s]) \subseteq ToSet(ledger'.order[s])]_ledgerVars
=============================================================================
