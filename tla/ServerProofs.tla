---------------------------- MODULE ServerProofs ----------------------------
(***************************************************************************)
(* Proofs about three parts that share no state: who is attached to a      *)
(* session (Attachments), which operations have run (OperationLedger), and *)
(* who may call a model in a tree of sub-agents (Admission).               *)
(*                                                                         *)
(* Attachments, for any clients, connections and limits: a generation      *)
(* belongs to one connection for good, the lease in use always bears the   *)
(* last generation, and whatever moves the lease closes the connection     *)
(* that acted for it, or leaves one behind whose end will tell the others. *)
(*                                                                         *)
(* OperationLedger, for any scopes, ids, sizes and limits: a ledger whose  *)
(* three views of an entry (its slot, its place in the orders, its         *)
(* progress) agree, and whose counters count them, stays so under each of  *)
(* the folds that give something up, because each of their steps keeps it; *)
(* and a refused request gave up no id of its scope, because what has not  *)
(* settled was found to fit before anything was given up.                  *)
(*                                                                         *)
(* Admission, for any tree, groups and limits: those who call a model hold *)
(* a place they did not lend, those who hold one are bounded, and a pass   *)
(* of the scheduler keeps the bounds, because the last entry it granted    *)
(* against a limit was measured against everything granted before.         *)
(***************************************************************************)
EXTENDS Attachments, OperationLedger, Admission,
        FiniteSetTheorems, FunctionTheorems, WellFoundedInduction, TLAPS

-----------------------------------------------------------------------------
(* Attachments: the invariant and what makes it inductive.                 *)

\* A connection's generation is one of the past, and its own.
GenerationsAreOwn ==
  /\ \A c \in Conns : conn[c].generation <= generation
  /\ \A c, d \in Conns : conn[c].generation = conn[d].generation /\ conn[c].generation # 0 => c = d

\* A free slot carries nothing of its last connection.
FreeIsBlank == \A c \in Conns :
  conn[c].state = "free" =>
    conn[c].generation = 0 /\ conn[c].client = NoClient /\ ~conn[c].loading

\* The lease is the last one that was given, to the client that presence names.
LeaseIsLast ==
  \/ held = NoLease
  \/ /\ held.client \in Clients /\ holder = held.client
     /\ held.generation = generation /\ generation # 0

\* The live entry of a client is a connection of that client.
LiveIsOwn == \A k \in Clients :
  live[k] # NoConn => conn[live[k]].client = k /\ conn[live[k]].state # "free"

\* Its end is still to be handled, and changes presence.
EndWillTell(c) == conn[c].state \notin {"free", "open"} /\ conn[c].generation # 0

\* c shows its client whether there is an attached controller, and who it is.
ShowsController(c) ==
  /\ (conn[c].seen.state = "attached") = held.attached
  /\ held.attached => conn[c].seen.client = held.client

\* Whoever understands roles sees the controller, or will after an end.
ShownOrPending ==
  \/ \E c \in Conns : EndWillTell(c)
  \/ \A c \in Conns : conn[c].client \in Roles /\ live[conn[c].client] = c => ShowsController(c)

Others == GenerationsAreOwn /\ FreeIsBlank /\ LeaseIsLast /\ OpenIsActive /\ LeaseHasConnection
          /\ LiveIsOwn /\ ShownOrPending

IInv == TypeOK /\ Others

-----------------------------------------------------------------------------
Leases == [client : Clients \cup {NoClient}, token : 0..MaxGeneration,
           generation : 0..MaxGeneration, attached : BOOLEAN, roles : BOOLEAN,
           servesModels : BOOLEAN, tokenLeft : 0..TokenLifetime, graceLeft : 0..Grace,
           age : 0..TakeInterval]

Connection == [state : {"free", "open", "rejecting", "closing"},
               client : Clients \cup {NoClient}, generation : 0..MaxGeneration,
               welcomed : BOOLEAN, reached : BOOLEAN, loading : BOOLEAN,
               taken : BOOLEAN, farewell : {"untold", "told", "late"}, seen : Presences]

\* s is a later state of the same connection as r: it may have begun to end.
Later(r, s) ==
  /\ s.client = r.client /\ s.generation = r.generation /\ (s.loading => r.loading)
  /\ s.state \in {"free", "open"} => s.state = r.state
  /\ r.state = "free" => s.state = "free"

LEMMA ConstantFacts ==
  /\ NoClient \notin Clients /\ NoConn \notin Conns /\ Roles \subseteq Clients
  /\ Grace \in Nat /\ TakeInterval \in Nat /\ ViewerSnapshots \in Nat
  /\ TokenLifetime \in Nat /\ TokenLifetime # 0 /\ MaxGeneration \in Nat /\ MaxGeneration # 0
  /\ NoLease \in Leases /\ NoPresence \in Presences /\ Free \in Connection
  BY ConstantsAssumption DEF NoLease, NoPresence, Free, Leases, Presences, Connection

\* The lease in use is the one that is kept, unless that is an expired reservation.
LEMMA LeaseFacts ==
  ASSUME TypeOK
  PROVE  /\ Lease \in Leases /\ held \in Leases /\ Lease.attached = held.attached
         /\ Lease = held \/ (Lease = NoLease /\ ~held.attached)
  BY ConstantFacts DEF TypeOK, Lease, Leases, NoLease

\* To close or to reject a connection moves it to its end and keeps the rest.
LEMMA ClosingFacts ==
  ASSUME NEW r \in Connection
  PROVE  /\ Closing(r) \in Connection /\ Rejecting(r) \in Connection
         /\ Later(r, Closing(r)) /\ Later(r, Rejecting(r))
         /\ Closing(r).seen = r.seen /\ Rejecting(r).seen = r.seen
         /\ Closing(r).state # "open" /\ Rejecting(r).state # "open"
  BY DEF Closing, Rejecting, Connection, Later

\* A broadcast shows the presence to every live connection that understands it.
LEMMA BroadcastFacts ==
  ASSUME NEW conns \in [Conns -> Connection], NEW lives \in [Clients -> Conns \cup {NoConn}],
         NEW lease \in Leases, NEW named \in Clients \cup {NoClient},
         Broadcast(conns, lives, lease, named)
  PROVE  /\ conn' \in [Conns -> Connection] /\ timer' \in 0..(Grace + 2)
         /\ \A c \in Conns :
              /\ conn'[c].state = conns[c].state /\ conn'[c].client = conns[c].client
              /\ conn'[c].generation = conns[c].generation
              /\ conn'[c].loading = conns[c].loading
              /\ conns[c].client \in Roles /\ lives[conns[c].client] = c
                   => conn'[c].seen = Presence(lease, named)
<1> USE ConstantFacts
<1>1. Presence(lease, named) \in Presences
  BY DEF Presence, Presences, Leases
<1>2. timer' \in 0..(Grace + 2)
  BY DEF Broadcast, TimerDue, TimerOff, Leases
<1>3. conn' = [c \in Conns |->
                 IF conns[c].client \in Roles /\ lives[conns[c].client] = c
                 THEN [conns[c] EXCEPT !.seen = Presence(lease, named)] ELSE conns[c]]
  BY DEF Broadcast, Notified
<1>4. ASSUME NEW c \in Conns
      PROVE  /\ conn'[c] \in Connection
             /\ conn'[c].state = conns[c].state /\ conn'[c].client = conns[c].client
             /\ conn'[c].generation = conns[c].generation
             /\ conn'[c].loading = conns[c].loading
             /\ conns[c].client \in Roles /\ lives[conns[c].client] = c
                  => conn'[c].seen = Presence(lease, named)
  BY <1>1, <1>3 DEF Connection
<1>5. QED  BY <1>2, <1>3, <1>4

\* The first snapshots on their way stay within their limit if none is added.
LEMMA LoadingKept ==
  ASSUME TypeOK, \A c \in Conns : conn'[c].loading => conn[c].loading
  PROVE  Cardinality(Loading)' <= ViewerSnapshots
<1>1. Loading \subseteq Conns /\ Loading' \subseteq Loading
  BY DEF Loading
<1>2. IsFiniteSet(Loading)
  BY <1>1, ConstantsAssumption, FS_Subset
<1>3. Cardinality(Loading') <= Cardinality(Loading) /\ Cardinality(Loading) \in Nat
      /\ Cardinality(Loading') \in Nat
  BY <1>1, <1>2, FS_Subset, FS_CardinalityType
<1>4. QED  BY <1>3, ConstantFacts DEF TypeOK

\* One more is added only below the limit.
LEMMA LoadingAdded ==
  ASSUME TypeOK, NEW c \in Conns, Cardinality(Loading) < ViewerSnapshots,
         \A d \in Conns \ {c} : conn'[d].loading => conn[d].loading
  PROVE  Cardinality(Loading)' <= ViewerSnapshots
<1>1. Loading \subseteq Conns /\ Loading' \subseteq Loading \cup {c}
  BY DEF Loading
<1>2. IsFiniteSet(Loading)
  BY <1>1, ConstantsAssumption, FS_Subset
<1>3. /\ IsFiniteSet(Loading \cup {c}) /\ Cardinality(Loading) \in Nat
      /\ Cardinality(Loading \cup {c}) <= Cardinality(Loading) + 1
  <2>1. Cardinality(Loading) \in Nat
    BY <1>2, FS_CardinalityType
  <2>2. /\ IsFiniteSet(Loading \cup {c})
        /\ Cardinality(Loading \cup {c}) \in {Cardinality(Loading), Cardinality(Loading) + 1}
    BY <1>2, FS_AddElement
  <2>3. QED  BY <2>1, <2>2
<1>4. Cardinality(Loading') <= Cardinality(Loading \cup {c}) /\ Cardinality(Loading') \in Nat
      /\ Cardinality(Loading \cup {c}) \in Nat
  BY <1>1, <1>3, FS_Subset, FS_CardinalityType
<1>5. QED  BY <1>3, <1>4, ConstantFacts

\* The initial state satisfies the invariant.
LEMMA InitInv == Init => IInv
<1> SUFFICES ASSUME Init PROVE IInv
  OBVIOUS
<1> USE ConstantFacts DEF Init
<1>1. TypeOK
  <2>1. Loading = {}
    BY DEF Loading, Free
  <2>2. Cardinality(Loading) = 0
    BY <2>1, FS_EmptySet
  <2>3. held.generation <= generation
    BY DEF NoLease
  <2>4. QED
    BY <2>2, <2>3 DEF TypeOK, Leases, Connection, TimerOff, NoToken, Powerless
<1>2. GenerationsAreOwn /\ FreeIsBlank /\ LeaseIsLast /\ OpenIsActive
  BY DEF GenerationsAreOwn, FreeIsBlank, LeaseIsLast, OpenIsActive, Free
<1>3. LeaseHasConnection /\ ShownOrPending
  BY DEF LeaseHasConnection, ShownOrPending, NoLease
<1>5. LiveIsOwn
  BY DEF LiveIsOwn
<1>4. QED  BY <1>1, <1>2, <1>3, <1>5 DEF IInv, Others

\* What it is to be current, before and after a step.
LEMMA CurrentMeans ==
  ASSUME TypeOK, TypeOK'
  PROVE  /\ \A c \in Conns : Current(c) <=>
              held.attached /\ held.client = conn[c].client /\ held.generation = conn[c].generation
         /\ \A c \in Conns : Current(c)' <=>
              held'.attached /\ held'.client = conn'[c].client
                /\ held'.generation = conn'[c].generation
  BY DEF TypeOK, Current, Lease, NoLease

\* The lease is kept or given up, and stays attached if it was.
LeaseStays ==
  /\ held'.attached = held.attached
  /\ \/ held' = NoLease
     \/ held # NoLease /\ held'.client = held.client /\ held'.generation = held.generation

\* A step that gives nobody the lease and begins no connection keeps the rest.
LEMMA QuietStep ==
  ASSUME IInv, TypeOK', \A c \in Conns : Later(conn[c], conn'[c]), LeaseStays,
         UNCHANGED <<generation, holder, active, live>>,
         \/ \A c \in Conns : /\ conn'[c].seen.state = conn[c].seen.state
                             /\ conn'[c].seen.client = conn[c].seen.client
         \/ \A c \in Conns : conn'[c].client \in Roles /\ live'[conn'[c].client] = c
                               => ShowsController(c)'
  PROVE  IInv'
<1> USE DEF IInv, Others, Later, LeaseStays
<1>1. held'.attached => held'.client = held.client /\ held'.generation = held.generation
  BY DEF NoLease
<1>2. GenerationsAreOwn' /\ FreeIsBlank' /\ LeaseIsLast'
  BY DEF GenerationsAreOwn, FreeIsBlank, LeaseIsLast
<1>3. OpenIsActive' /\ LeaseHasConnection'
  BY <1>1, CurrentMeans DEF OpenIsActive, LeaseHasConnection
<1>4. ShownOrPending'
  BY <1>1 DEF ShownOrPending, EndWillTell, ShowsController
<1>5. LiveIsOwn'
  BY DEF LiveIsOwn, TypeOK
<1>6. QED  BY <1>2, <1>3, <1>4, <1>5

\* The steps of a connection between its hello and its end.
LEMMA ConnectionStep ==
  ASSUME IInv, NEW c \in Conns,
         Welcome(c) \/ Loaded(c) \/ StaleFrame(c) \/ Farewell(c) \/ Disconnect(c)
  PROVE  IInv'
<1> USE ConstantFacts
<1>1. TypeOK /\ conn[c] \in Connection /\ conn \in [Conns -> Connection]
  BY DEF IInv, TypeOK, Connection
<1>2. PICK r \in Connection :
        /\ conn' = [conn EXCEPT ![c] = r] /\ Later(conn[c], r) /\ r.seen = conn[c].seen
  <2>1. CASE Welcome(c)
    <3> DEFINE r == [conn[c] EXCEPT !.welcomed = TRUE]
    <3>1. r \in Connection /\ Later(conn[c], r) /\ r.seen = conn[c].seen
      BY <1>1 DEF Connection, Later
    <3>2. conn' = [conn EXCEPT ![c] = r]
      BY <2>1 DEF Welcome
    <3> HIDE DEF r
    <3>3. QED  BY <3>1, <3>2
  <2>2. CASE Loaded(c)
    <3> DEFINE r == [conn[c] EXCEPT !.loading = FALSE]
    <3>1. r \in Connection /\ Later(conn[c], r) /\ r.seen = conn[c].seen
      BY <1>1 DEF Connection, Later
    <3>2. conn' = [conn EXCEPT ![c] = r]
      BY <2>2 DEF Loaded
    <3> HIDE DEF r
    <3>3. QED  BY <3>1, <3>2
  <2>3. CASE StaleFrame(c)
    BY <1>1, <2>3, ClosingFacts DEF StaleFrame
  <2>4. CASE Farewell(c)
    <3>1. PICK how \in {"told", "late"} :
            conn' = [conn EXCEPT ![c] = Closing([@ EXCEPT !.farewell = how])]
      BY <2>4 DEF Farewell
    <3> DEFINE q == [conn[c] EXCEPT !.farewell = how]
               r == Closing(q)
    <3>2. q \in Connection /\ Later(conn[c], q) /\ q.seen = conn[c].seen
      BY <1>1 DEF Connection, Later
    <3>3. conn' = [conn EXCEPT ![c] = r]
      BY <3>1
    <3> HIDE DEF q
    <3>4. r \in Connection /\ Later(conn[c], r) /\ r.seen = conn[c].seen
      BY <3>2, ClosingFacts DEF Later
    <3> HIDE DEF r
    <3>5. QED  BY <3>3, <3>4
  <2>5. CASE Disconnect(c)
    <3> DEFINE q == [conn[c] EXCEPT !.reached = FALSE]
               r == Closing(q)
    <3>1. q \in Connection /\ Later(conn[c], q) /\ q.seen = conn[c].seen
      BY <1>1 DEF Connection, Later
    <3>2. conn' = [conn EXCEPT ![c] = r]
      BY <2>5 DEF Disconnect
    <3> HIDE DEF q
    <3>3. r \in Connection /\ Later(conn[c], r) /\ r.seen = conn[c].seen
      BY <3>1, ClosingFacts DEF Later
    <3> HIDE DEF r
    <3>4. QED  BY <3>2, <3>3
  <2>6. QED  BY <2>1, <2>2, <2>3, <2>4, <2>5
<1>3. /\ held' \in {held, Lease} /\ UNCHANGED <<generation, holder, active, live, timer>>
      /\ token' \in [Clients -> 0..Powerless]
  <2>1. held.token \in 0..Powerless /\ Powerless \in 0..Powerless
    BY <1>1 DEF TypeOK, Powerless
  <2>2. token \in [Clients -> 0..Powerless]
    BY <1>1 DEF TypeOK
  <2>3. QED
    BY <2>1, <2>2 DEF Welcome, Loaded, StaleFrame, Farewell, Disconnect
<1>4. conn' \in [Conns -> Connection] /\ \A d \in Conns : Later(conn[d], conn'[d])
  BY <1>1, <1>2 DEF Later
<1>5. held' \in Leases /\ LeaseStays /\ held'.generation <= generation
  <2>1. held'.generation <= generation
    BY <1>1, <1>3 DEF TypeOK, Lease, NoLease
  <2>2. QED  BY <1>1, <1>3, <2>1, LeaseFacts DEF LeaseStays
<1>6. TypeOK'
  <2>1. Cardinality(Loading)' <= ViewerSnapshots
    BY <1>1, <1>4, LoadingKept DEF Later
  <2>2. QED  BY <1>1, <1>3, <1>4, <1>5, <2>1 DEF TypeOK, Leases, Connection
<1>7. \A d \in Conns : conn'[d].seen = conn[d].seen
  BY <1>1, <1>2
<1>8. QED  BY <1>3, <1>4, <1>5, <1>6, <1>7, QuietStep

\* Time passes.
LEMMA TickStep == ASSUME IInv, Tick PROVE IInv'
<1> USE ConstantFacts
<1>1. TypeOK /\ held \in Leases /\ conn \in [Conns -> Connection]
  BY DEF IInv, TypeOK, Leases, Connection
<1>2. held' \in Leases /\ LeaseStays /\ held'.generation = held.generation
  <2>1. CASE held = NoLease
    BY <2>1 DEF Tick, LeaseStays
  <2>2. CASE held # NoLease
    <3>1. held' = [held EXCEPT !.tokenLeft = Less(@), !.graceLeft = Less(@),
                               !.age = Smaller(@ + 1, TakeInterval)]
      BY <2>2 DEF Tick, Aged
    <3>2. /\ Less(held.tokenLeft) \in 0..TokenLifetime /\ Less(held.graceLeft) \in 0..Grace
          /\ Smaller(held.age + 1, TakeInterval) \in 0..TakeInterval
      BY <1>1 DEF Leases, Less, Smaller
    <3>3. QED  BY <1>1, <2>2, <3>1, <3>2 DEF Leases, LeaseStays
  <2>3. QED  BY <2>1, <2>2
<1>3. ASSUME NEW c \in Conns
      PROVE  /\ conn'[c] \in Connection /\ Later(conn[c], conn'[c])
             /\ conn'[c].seen.state = conn[c].seen.state
             /\ conn'[c].seen.client = conn[c].seen.client
  <2>1. conn'[c] = [conn[c] EXCEPT !.seen.left = Less(@)]
    BY DEF Tick
  <2>2. conn[c] \in Connection /\ conn[c].seen \in Presences
    BY <1>1 DEF Connection
  <2>3. [conn[c].seen EXCEPT !.left = Less(@)] \in Presences
    BY <2>2 DEF Presences, Less
  <2>4. QED  BY <2>1, <2>2, <2>3 DEF Connection, Presences, Later
<1>4. conn' \in [Conns -> Connection] /\ timer' \in 0..(Grace + 2)
  <2>1. conn' = [c \in Conns |-> conn'[c]]
    BY DEF Tick
  <2>2. timer' \in 0..(Grace + 2)
    BY <1>1 DEF Tick, TypeOK, TimerDue
  <2>3. QED  BY <1>3, <2>1, <2>2
<1>5. UNCHANGED <<generation, holder, active, live, token>>
  BY DEF Tick
<1>6. TypeOK'
  <2>1. Cardinality(Loading)' <= ViewerSnapshots
    BY <1>1, <1>3, LoadingKept DEF Later
  <2>2. QED  BY <1>1, <1>2, <1>4, <1>5, <2>1 DEF TypeOK, Leases, Connection
<1>7. QED  BY <1>2, <1>3, <1>5, <1>6, QuietStep

\* A presence that was just broadcast shows the controller.
LEMMA BroadcastShows ==
  ASSUME NEW conns \in [Conns -> Connection], NEW lives \in [Clients -> Conns \cup {NoConn}],
         NEW lease \in Leases, NEW named \in Clients \cup {NoClient},
         Broadcast(conns, lives, lease, named), live' = lives,
         held'.attached = lease.attached,
         lease.attached => held'.client = named
  PROVE  \A c \in Conns : conn'[c].client \in Roles /\ live'[conn'[c].client] = c
                            => ShowsController(c)'
<1> SUFFICES ASSUME NEW c \in Conns, conn'[c].client \in Roles, live'[conn'[c].client] = c
             PROVE  ShowsController(c)'
  OBVIOUS
<1>1. conn'[c].seen = Presence(lease, named)
  BY BroadcastFacts
<1>2. QED  BY <1>1 DEF ShowsController, Presence, NoPresence, NoLease, Leases

\* The timer of a reservation's end.
LEMMA GraceEndsStep == ASSUME IInv, GraceEnds PROVE IInv'
<1> USE ConstantFacts
<1>1. /\ TypeOK /\ conn \in [Conns -> Connection] /\ LeaseIsLast
      /\ live \in [Clients -> Conns \cup {NoConn}] /\ holder \in Clients \cup {NoClient}
  BY DEF IInv, TypeOK, Others, Connection
<1>2. Broadcast(conn, live, Lease, holder) /\ held' = Lease
      /\ UNCHANGED <<generation, holder, active, live, token>>
  BY DEF GraceEnds
<1>3. /\ conn' \in [Conns -> Connection] /\ timer' \in 0..(Grace + 2)
      /\ \A c \in Conns : Later(conn[c], conn'[c])
  BY <1>1, <1>2, LeaseFacts, BroadcastFacts DEF Later
<1>4. held' \in Leases /\ LeaseStays /\ held'.generation <= generation
  <2>1. held'.generation <= generation
    BY <1>1, <1>2 DEF TypeOK, Lease, NoLease
  <2>2. QED  BY <1>1, <1>2, <2>1, LeaseFacts DEF LeaseStays
<1>5. TypeOK'
  <2>1. Cardinality(Loading)' <= ViewerSnapshots
    BY <1>1, <1>3, LoadingKept DEF Later
  <2>2. QED  BY <1>1, <1>2, <1>3, <1>4, <2>1 DEF TypeOK, Leases, Connection
<1>6. \A c \in Conns : conn'[c].client \in Roles /\ live'[conn'[c].client] = c
                         => ShowsController(c)'
  BY <1>1, <1>2, LeaseFacts, BroadcastShows DEF LeaseIsLast, NoLease
<1>7. QED  BY <1>2, <1>3, <1>4, <1>5, <1>6, QuietStep

\* What begins to end goes on ending.
LEMMA LaterTransitive ==
  ASSUME NEW q \in Connection, NEW r \in Connection, NEW s \in Connection, Later(q, r), Later(r, s)
  PROVE  Later(q, s)
  BY DEF Later

\* A client that left, a fence and a close move connections to their end only.
LEMMA LeftFacts ==
  ASSUME conn \in [Conns -> Connection], NEW cl \in Clients
  PROVE  /\ Left(cl) \in [Conns -> Connection]
         /\ \A d \in Conns : Later(conn[d], Left(cl)[d])
  BY ZenonT(30) DEF Left, Later, Connection

LEMMA CloseIfFacts ==
  ASSUME NEW conns \in [Conns -> Connection], NEW closed
  PROVE  /\ CloseIf(conns, closed) \in [Conns -> Connection]
         /\ \A d \in Conns : /\ Later(conns[d], CloseIf(conns, closed)[d])
                             /\ d \in closed => CloseIf(conns, closed)[d].state # "open"
  <1>1. \A r \in Connection : Later(r, r)
    BY DEF Later
  <1>2. QED  BY <1>1, ClosingFacts DEF CloseIf

LEMMA FencedFacts ==
  ASSUME NEW conns \in [Conns -> Connection], NEW told \in BOOLEAN
  PROVE  /\ Fenced(conns, told) \in [Conns -> Connection]
         /\ \A d \in Conns : /\ Later(conns[d], Fenced(conns, told)[d])
                             /\ d = active => Fenced(conns, told)[d].state # "open"
  <1>1. \A r \in Connection : Later(r, r)
    BY DEF Later
  <1>2. QED  BY <1>1, ClosingFacts DEF Fenced

\* Live entries are dropped, but for that of a new connection.
LiveMoves(c) == \A k \in Clients :
  live'[k] \in {live[k], NoConn} \/ (k = conn'[c].client /\ live'[k] = c)

\* A step that gives the lease to a new connection closes the one that had it.
LEMMA HandOver ==
  ASSUME IInv, TypeOK', NEW c \in Conns, conn[c].state = "free",
         generation' = generation + 1, active' = c, held'.attached,
         held'.client \in Clients, holder' = held'.client, held'.client = conn'[c].client,
         held'.generation = generation', conn'[c].generation = generation',
         conn'[c].state \in {"open", "closing"}, LiveMoves(c),
         \A d \in Conns \ {c} : /\ Later(conn[d], conn'[d])
                                /\ d = active => conn'[d].state # "open",
         \/ conn'[c].state = "closing"
         \/ \A d \in Conns : conn'[d].client \in Roles /\ live'[conn'[d].client] = d
                               => ShowsController(d)'
  PROVE  IInv'
<1> USE DEF IInv, Others, Later
<1>1. generation \in Nat /\ \A d \in Conns : conn[d].generation \in Nat
  BY DEF TypeOK
<1>2. GenerationsAreOwn'
  BY <1>1 DEF GenerationsAreOwn
<1>3. FreeIsBlank' /\ LeaseIsLast'
  BY <1>1 DEF FreeIsBlank, LeaseIsLast
<1>4. OpenIsActive' /\ LeaseHasConnection'
  BY <1>1, CurrentMeans DEF OpenIsActive, LeaseHasConnection
<1>5. ShownOrPending'
  BY <1>1 DEF ShownOrPending, EndWillTell
<1>6. LiveIsOwn'
  BY ConstantFacts DEF LiveIsOwn, LiveMoves, TypeOK
<1>7. QED  BY <1>2, <1>3, <1>4, <1>5, <1>6

\* The end of accept for a new controller.
LEMMA ControlStep ==
  ASSUME IInv, NEW cl \in Clients, NEW c \in Conns, NEW lease \in Leases, NEW told \in BOOLEAN,
         Fresh(cl, c), lease.attached, lease.client = cl, lease.generation = generation + 1,
         Control(cl, c, lease, told)
  PROVE  IInv'
<1> USE ConstantFacts
<1> DEFINE fenced == Fenced(Left(cl), told)
           others == [k \in Clients |-> IF told /\ live[k] = active THEN NoConn ELSE live[k]]
           opened == Opened(cl, lease.generation, FALSE)
<1>1. /\ TypeOK /\ conn \in [Conns -> Connection] /\ others \in [Clients -> Conns \cup {NoConn}]
      /\ lease.generation \in 0..MaxGeneration
  BY DEF IInv, TypeOK, Connection, Leases
<1>0. /\ opened \in Connection /\ opened.state = "open" /\ opened.client = cl
      /\ opened.generation = lease.generation /\ ~opened.loading
      /\ Closing(opened) \in Connection /\ Closing(opened).state = "closing"
      /\ Closing(opened).client = cl /\ Closing(opened).generation = lease.generation
      /\ ~Closing(opened).loading
  BY <1>1 DEF Opened, Closing, Free, Connection
<1> HIDE DEF opened
<1>2. /\ fenced \in [Conns -> Connection]
      /\ \A d \in Conns : Later(conn[d], fenced[d]) /\ (d = active => fenced[d].state # "open")
  BY <1>1, LeftFacts, FencedFacts DEF Later
<1>3. /\ held' = lease /\ generation' = generation + 1 /\ holder' = cl /\ active' = c
      /\ token' = token /\ conn[c].state = "free" /\ generation + 1 \in 0..MaxGeneration
  BY <1>1 DEF Control, Fresh, TypeOK
<1>4. /\ conn' \in [Conns -> Connection] /\ timer' \in 0..(Grace + 2)
      /\ live' \in [Clients -> Conns \cup {NoConn}] /\ LiveMoves(c)
      /\ conn'[c].client = cl /\ conn'[c].generation = lease.generation /\ ~conn'[c].loading
      /\ conn'[c].state \in {"open", "closing"}
      /\ \A d \in Conns \ {c} : Later(conn[d], conn'[d]) /\ (d = active => conn'[d].state # "open")
      /\ \/ conn'[c].state = "closing"
         \/ \A d \in Conns : conn'[d].client \in Roles /\ live'[conn'[d].client] = d
                               => ShowsController(d)'
  <2>1. CASE /\ live' = [others EXCEPT ![cl] = c]
             /\ Broadcast([CloseIf(fenced, {live[cl]}) EXCEPT ![c] = opened], live', lease, cl)
    <3> DEFINE conns == [CloseIf(fenced, {live[cl]}) EXCEPT ![c] = opened]
    <3>1. /\ CloseIf(fenced, {live[cl]}) \in [Conns -> Connection]
          /\ \A d \in Conns : Later(fenced[d], CloseIf(fenced, {live[cl]})[d])
      BY <1>2, CloseIfFacts
    <3>2. /\ conns \in [Conns -> Connection] /\ conns[c] = opened
          /\ \A d \in Conns \ {c} : Later(fenced[d], conns[d])
      BY <1>0, <3>1
    <3>3. live' \in [Clients -> Conns \cup {NoConn}]
      BY <1>1, <2>1
    <3> HIDE DEF fenced, others, conns
    <3>4. Broadcast(conns, live', lease, cl)
      BY <2>1 DEF conns
    <3>5. /\ conn' \in [Conns -> Connection] /\ timer' \in 0..(Grace + 2)
          /\ \A d \in Conns :
               /\ conn'[d].state = conns[d].state /\ conn'[d].client = conns[d].client
               /\ conn'[d].generation = conns[d].generation
               /\ conn'[d].loading = conns[d].loading
      BY <3>2, <3>3, <3>4, BroadcastFacts
    <3>6. /\ conn'[c].client = cl /\ conn'[c].generation = lease.generation /\ ~conn'[c].loading
          /\ conn'[c].state = "open"
      BY <1>0, <3>2, <3>5
    <3>7. \A d \in Conns \ {c} : Later(conn[d], conn'[d]) /\ (d = active => conn'[d].state # "open")
      BY <1>2, <3>2, <3>5 DEF Later
    <3>8. \A d \in Conns : conn'[d].client \in Roles /\ live'[conn'[d].client] = d
                             => ShowsController(d)'
      BY <1>3, <3>2, <3>3, <3>4, BroadcastShows
    <3>9. LiveMoves(c)
      BY <2>1, <3>6 DEF others, LiveMoves
    <3>10. QED  BY <3>3, <3>5, <3>6, <3>7, <3>8, <3>9
  <2>2. CASE /\ live' = others /\ conn' = [fenced EXCEPT ![c] = Closing(opened)]
             /\ UNCHANGED timer
    <3> HIDE DEF fenced
    <3>1. timer \in 0..(Grace + 2) /\ conn'[c] = Closing(opened)
          /\ \A d \in Conns \ {c} : conn'[d] = fenced[d]
      BY <1>0, <1>1, <1>2, <2>2 DEF TypeOK
    <3>2. live' \in [Clients -> Conns \cup {NoConn}]
      BY <1>1, <2>2
    <3>3. LiveMoves(c)
      BY <2>2 DEF LiveMoves
    <3>4. QED  BY <1>0, <1>2, <2>2, <3>1, <3>2, <3>3
  <2>3. QED  BY <2>1, <2>2 DEF Control, opened
<1>5. TypeOK'
  <2>1. Cardinality(Loading)' <= ViewerSnapshots
    BY <1>1, <1>4, LoadingKept DEF Later
  <2>2. QED  BY <1>1, <1>3, <1>4, <2>1 DEF TypeOK, Leases, Connection
<1>6. QED  BY <1>3, <1>4, <1>5, HandOver

\* A hello that gets the lease, by its token, by being first or by taking it.
LEMMA ControllerStep ==
  ASSUME IInv, NEW cl \in Clients, NEW c \in Conns, Attach(cl, c) \/ Take(cl, c)
  PROVE  IInv'
<1> USE ConstantFacts
<1>1. TypeOK /\ generation + 1 \in 0..MaxGeneration /\ Lease \in Leases /\ Fresh(cl, c)
  <2>1. TypeOK /\ Lease \in Leases
    BY LeaseFacts DEF IInv
  <2>2. Fresh(cl, c)
    BY DEF Attach, Take
  <2>3. QED  BY <2>1, <2>2 DEF TypeOK, Fresh
<1>2. CASE Attach(cl, c)
  <2>1. /\ Attached(cl) \in Leases /\ Attached(cl).attached /\ Attached(cl).client = cl
        /\ Attached(cl).generation = generation + 1
    <3> DEFINE base == IF Lease = NoLease
                       THEN [NoLease EXCEPT !.token = generation + 1, !.tokenLeft = TokenLifetime]
                       ELSE Lease
    <3>1. base \in Leases
      <4>1. [NoLease EXCEPT !.token = generation + 1, !.tokenLeft = TokenLifetime] \in Leases
        <5>1. NoLease \in Leases /\ generation + 1 \in 0..MaxGeneration
              /\ TokenLifetime \in 0..TokenLifetime
          BY <1>1
        <5>2. \A r \in Leases, t \in 0..MaxGeneration, u \in 0..TokenLifetime :
                [r EXCEPT !.token = t, !.tokenLeft = u] \in Leases
          BY DEF Leases
        <5>3. QED  BY <5>1, <5>2
      <4>2. QED  BY <1>1, <4>1
    <3>2. Attached(cl) = [base EXCEPT !.client = cl, !.attached = TRUE, !.graceLeft = 0,
                                      !.generation = generation + 1, !.roles = cl \in Roles,
                                      !.servesModels = cl \in ModelServers]
      BY DEF Attached
    <3>3. /\ base.token \in 0..MaxGeneration /\ base.tokenLeft \in 0..TokenLifetime
          /\ base.age \in 0..TakeInterval
      BY <3>1 DEF Leases
    <3> HIDE DEF base
    <3>4. Attached(cl) = [client |-> cl, token |-> base.token, generation |-> generation + 1,
                          attached |-> TRUE, roles |-> cl \in Roles,
                          servesModels |-> cl \in ModelServers, tokenLeft |-> base.tokenLeft,
                          graceLeft |-> 0, age |-> base.age]
      BY <3>1, <3>2 DEF Leases
    <3>5. QED  BY <1>1, <3>3, <3>4 DEF Leases
  <2>2. QED  BY <1>1, <1>2, <2>1, ControlStep DEF Attach
<1>3. CASE Take(cl, c)
  <2>1. /\ Taken(cl) \in Leases /\ Taken(cl).attached /\ Taken(cl).client = cl
        /\ Taken(cl).generation = generation + 1
    BY <1>1 DEF Taken, Leases, NoLease
  <2>2. (Lease.attached /\ Lease.client # cl) \in BOOLEAN
    OBVIOUS
  <2>3. QED  BY <1>1, <1>3, <2>1, <2>2, ControlStep DEF Take
<1>4. QED  BY <1>2, <1>3

\* A new viewer's hello leaves the lease alone or hands it back.
LEMMA ViewerComes ==
  ASSUME IInv, TypeOK', NEW c \in Conns, conn[c].state = "free",
         UNCHANGED <<generation, holder>>,
         conn'[c].generation = 0, conn'[c].state \in {"open", "closing"}, LiveMoves(c),
         conn'[c].client \in Clients,
         \A d \in Conns \ {c} : Later(conn[d], conn'[d]),
         \/ (LeaseStays /\ active' = active)
         \/ (held' = NoLease /\ \A d \in Conns \ {c} : d = active => conn'[d].state # "open"),
         \/ live' = live /\ \A d \in Conns \ {c} : conn'[d].seen = conn[d].seen
         \/ \A d \in Conns : conn'[d].client \in Roles /\ live'[conn'[d].client] = d
                               => ShowsController(d)'
  PROVE  IInv'
<1> USE ConstantFacts DEF IInv, Others, Later
<1>1. /\ \A d \in Conns : conn[d].generation \in Nat
      /\ held'.attached => LeaseStays /\ active' = active /\ held.attached
           /\ held'.client = held.client /\ held'.generation = held.generation
  BY DEF TypeOK, LeaseStays, NoLease
<1>2. GenerationsAreOwn'
  BY <1>1 DEF GenerationsAreOwn, TypeOK
<1>3. FreeIsBlank' /\ LeaseIsLast' /\ LiveIsOwn'
  <2>1. FreeIsBlank'
    BY DEF FreeIsBlank
  <2>2. LeaseIsLast'
    BY DEF LeaseIsLast, LeaseStays
  <2>3. LiveIsOwn'
    BY DEF LiveIsOwn, LiveMoves, TypeOK
  <2>4. QED  BY <2>1, <2>2, <2>3
<1>4. OpenIsActive'
  BY <1>1, CurrentMeans DEF OpenIsActive, LeaseStays
<1>5. LeaseHasConnection'
  BY <1>1, CurrentMeans DEF LeaseHasConnection, FreeIsBlank
<1>6. ShownOrPending'
  <2>1. CASE \E d \in Conns : EndWillTell(d)
    <3>1. PICK d \in Conns : EndWillTell(d)
      BY <2>1
    <3>2. EndWillTell(d)'
      BY <3>1 DEF EndWillTell
    <3>3. QED  BY <3>2 DEF ShownOrPending
  <2>2. CASE \A d \in Conns : conn'[d].client \in Roles /\ live'[conn'[d].client] = d
                                => ShowsController(d)'
    BY <2>2 DEF ShownOrPending
  <2>3. CASE /\ ~\E d \in Conns : EndWillTell(d)
             /\ live' = live /\ \A d \in Conns \ {c} : conn'[d].seen = conn[d].seen
    <3>1. \A k \in Clients : live[k] # c
      BY DEF LiveIsOwn, TypeOK
    <3>2. CASE LeaseStays
      BY <1>1, <2>3, <3>1, <3>2 DEF ShownOrPending, ShowsController, LeaseStays
    <3>3. CASE ~LeaseStays
      <4>1. held.attached /\ held' = NoLease /\ \A d \in Conns \ {c} : d = active => conn'[d].state # "open"
        BY <3>3 DEF LeaseStays, NoLease, TypeOK, Leases
      <4>2. PICK d \in Conns : conn[d].state # "free" /\ Current(d)
        BY <4>1 DEF LeaseHasConnection
      <4>3. conn[d].generation # 0 /\ d # c
        BY <4>1, <4>2, CurrentMeans DEF LeaseIsLast, NoLease
      <4>4. EndWillTell(d)'
        BY <4>1, <4>2, <4>3 DEF OpenIsActive, EndWillTell
      <4>5. QED  BY <4>4 DEF ShownOrPending
    <3>4. QED  BY <3>2, <3>3
  <2>4. QED  BY <2>1, <2>2, <2>3
<1>7. QED  BY <1>2, <1>3, <1>4, <1>5, <1>6

\* The end of accept for a viewer.
LEMMA ViewStep ==
  ASSUME IInv, NEW cl \in Clients, NEW c \in Conns, NEW snapshot \in BOOLEAN,
         NEW released \in BOOLEAN, View(cl, c, snapshot, released)
  PROVE  IInv'
<1> USE ConstantFacts
<1> DEFINE lease == IF released THEN NoLease ELSE Lease
           rest == IF released THEN CloseIf(Left(cl), {active}) ELSE Left(cl)
           opened == Opened(cl, 0, snapshot)
           refused == Closing(Opened(cl, 0, FALSE))
<1>1. /\ TypeOK /\ conn \in [Conns -> Connection] /\ LeaseIsLast
      /\ live \in [Clients -> Conns \cup {NoConn}] /\ holder \in Clients \cup {NoClient}
      /\ lease \in Leases /\ timer \in 0..(Grace + 2)
  BY LeaseFacts DEF IInv, Others, TypeOK, Connection
<1>2. /\ rest \in [Conns -> Connection]
      /\ \A d \in Conns : /\ Later(conn[d], rest[d])
                          /\ released /\ d = active => rest[d].state # "open"
  BY <1>1, LeftFacts, CloseIfFacts DEF Later
<1>3. \A d \in Conns : rest[d].seen = conn[d].seen
  <2>1. \A d \in Conns : Left(cl)[d] \in Connection /\ Left(cl)[d].seen = conn[d].seen
    BY <1>1 DEF Left, Connection
  <2>2. QED  BY <2>1, ClosingFacts DEF CloseIf
<1>4. /\ opened \in Connection /\ opened.state = "open" /\ opened.client = cl
      /\ opened.generation = 0 /\ opened.loading = snapshot
      /\ refused \in Connection /\ refused.state = "closing" /\ refused.client = cl
      /\ refused.generation = 0 /\ ~refused.loading
  BY DEF Opened, Closing, Free, Connection
<1>5. /\ held' = lease /\ active' = (IF released THEN NoConn ELSE active)
      /\ UNCHANGED <<generation, holder, token>> /\ conn[c].state = "free"
  BY DEF View
<1>6. \/ /\ conn' = [rest EXCEPT ![c] = refused] /\ UNCHANGED <<live, timer>>
      \/ /\ ~TooManyLoading(snapshot) /\ live' = [live EXCEPT ![cl] = c]
         /\ Broadcast([CloseIf(rest, {live[cl]}) EXCEPT ![c] = opened], live', lease, holder)
  BY DEF View
<1>7. lease.attached => lease.client = holder
  BY <1>1, LeaseFacts DEF LeaseIsLast, NoLease
<1>8. IF released THEN held' = NoLease ELSE LeaseStays /\ active' = active
  BY <1>1, <1>5, LeaseFacts DEF LeaseStays
<1>9. held'.generation <= generation
  BY <1>1, <1>5, LeaseFacts DEF TypeOK, NoLease
<1> HIDE DEF rest, opened, refused, lease
<1>10. /\ conn' \in [Conns -> Connection] /\ timer' \in 0..(Grace + 2)
       /\ live' \in [Clients -> Conns \cup {NoConn}] /\ LiveMoves(c)
       /\ conn'[c].client = cl /\ conn'[c].generation = 0
       /\ conn'[c].state \in {"open", "closing"}
       /\ conn'[c].loading => ~TooManyLoading(snapshot) /\ snapshot
       /\ \A d \in Conns \ {c} : /\ Later(conn[d], conn'[d])
                                 /\ released /\ d = active => conn'[d].state # "open"
       /\ \/ live' = live /\ \A d \in Conns \ {c} : conn'[d].seen = conn[d].seen
          \/ \A d \in Conns : conn'[d].client \in Roles /\ live'[conn'[d].client] = d
                                => ShowsController(d)'
  <2>1. CASE conn' = [rest EXCEPT ![c] = refused] /\ UNCHANGED <<live, timer>>
    BY <1>1, <1>2, <1>3, <1>4, <2>1 DEF LiveMoves
  <2>2. CASE /\ ~TooManyLoading(snapshot) /\ live' = [live EXCEPT ![cl] = c]
             /\ Broadcast([CloseIf(rest, {live[cl]}) EXCEPT ![c] = opened], live', lease, holder)
    <3> DEFINE conns == [CloseIf(rest, {live[cl]}) EXCEPT ![c] = opened]
    <3>1. /\ CloseIf(rest, {live[cl]}) \in [Conns -> Connection]
          /\ \A d \in Conns : Later(rest[d], CloseIf(rest, {live[cl]})[d])
      BY <1>2, CloseIfFacts
    <3>2. /\ conns \in [Conns -> Connection] /\ conns[c] = opened
          /\ \A d \in Conns \ {c} : Later(rest[d], conns[d])
      BY <1>4, <3>1
    <3>3. live' \in [Clients -> Conns \cup {NoConn}]
      BY <1>1, <2>2
    <3> HIDE DEF conns
    <3>4. Broadcast(conns, live', lease, holder)
      BY <2>2 DEF conns
    <3>5. /\ conn' \in [Conns -> Connection] /\ timer' \in 0..(Grace + 2)
          /\ \A d \in Conns :
               /\ conn'[d].state = conns[d].state /\ conn'[d].client = conns[d].client
               /\ conn'[d].generation = conns[d].generation
               /\ conn'[d].loading = conns[d].loading
      BY <1>1, <3>2, <3>3, <3>4, BroadcastFacts
    <3>6. /\ conn'[c].client = cl /\ conn'[c].generation = 0 /\ conn'[c].state = "open"
          /\ conn'[c].loading = snapshot
      BY <1>4, <3>2, <3>5
    <3>7. \A d \in Conns \ {c} : /\ Later(conn[d], conn'[d])
                                 /\ released /\ d = active => conn'[d].state # "open"
      BY <1>2, <3>2, <3>5 DEF Later
    <3>8. \A d \in Conns : conn'[d].client \in Roles /\ live'[conn'[d].client] = d
                             => ShowsController(d)'
      BY <1>1, <1>5, <1>7, <3>2, <3>3, <3>4, BroadcastShows
    <3>9. LiveMoves(c)
      BY <1>1, <2>2, <3>6 DEF LiveMoves
    <3>10. QED  BY <2>2, <3>3, <3>5, <3>6, <3>7, <3>8, <3>9
  <2>3. QED  BY <1>6, <2>1, <2>2
<1>11. TypeOK'
  <2>1. CASE ~conn'[c].loading
    <3>1. Cardinality(Loading)' <= ViewerSnapshots
      BY <1>1, <1>10, <2>1, LoadingKept DEF Later
    <3>2. QED  BY <1>1, <1>5, <1>9, <1>10, <3>1 DEF TypeOK, Leases, Connection
  <2>2. CASE conn'[c].loading
    <3>1. Cardinality(Loading) \in Nat
      <4>1. IsFiniteSet(Loading)
        BY ConstantsAssumption, FS_Subset DEF Loading
      <4>2. QED  BY <4>1, FS_CardinalityType
    <3>2. Cardinality(Loading) < ViewerSnapshots
      BY <1>10, <2>2, <3>1 DEF TooManyLoading
    <3>3. Cardinality(Loading)' <= ViewerSnapshots
      BY <1>1, <1>10, <3>2, LoadingAdded DEF Later
    <3>4. QED  BY <1>1, <1>5, <1>9, <1>10, <3>3 DEF TypeOK, Leases, Connection
  <2>3. QED  BY <2>1, <2>2
<1>12. \A d \in Conns \ {c} : Later(conn[d], conn'[d])
  BY <1>10
<1>13. \/ LeaseStays /\ active' = active
       \/ held' = NoLease /\ \A d \in Conns \ {c} : d = active => conn'[d].state # "open"
  BY <1>5, <1>8, <1>10
<1>14. QED  BY <1>5, <1>10, <1>11, <1>12, <1>13, ViewerComes

\* The handler of the end of a connection.
LEMMA EndedStep == ASSUME IInv, NEW c \in Conns, Ended(c) PROVE IInv'
<1> USE ConstantFacts
<1> DEFINE freed == [conn EXCEPT ![c] = Free]
<1>1. /\ TypeOK /\ Others /\ conn \in [Conns -> Connection]
      /\ live \in [Clients -> Conns \cup {NoConn}] /\ holder \in Clients \cup {NoClient}
      /\ active \in Conns \cup {NoConn} /\ timer \in 0..(Grace + 2)
      /\ generation \in Nat /\ generation \in 0..MaxGeneration
  BY DEF IInv, TypeOK, Connection
<1>2. /\ conn[c].state = "closing" /\ active' = ActiveAfter(c)
      /\ live' = IF live[conn[c].client] = c THEN [live EXCEPT ![conn[c].client] = NoConn]
                 ELSE live
      /\ held' = (IF GivesBack(c) THEN Detached ELSE Lease)
      /\ IF Changes(c) THEN Broadcast(freed, live', held', holder)
         ELSE conn' = freed /\ UNCHANGED timer
      /\ UNCHANGED <<generation, holder, token>>
  BY DEF Ended
<1>3. live' \in [Clients -> Conns \cup {NoConn}] /\ active' \in Conns \cup {NoConn}
  BY <1>1, <1>2 DEF ActiveAfter
<1>4. freed \in [Conns -> Connection] /\ freed[c] = Free /\ \A d \in Conns \ {c} : freed[d] = conn[d]
  BY <1>1
<1> HIDE DEF freed
<1>5. /\ held' \in Leases /\ held'.generation <= generation
      /\ \/ held' = NoLease
         \/ held # NoLease /\ held'.client = held.client /\ held'.generation = held.generation
      /\ IF GivesBack(c) THEN ~held'.attached ELSE held'.attached = held.attached
  <2>1. CASE GivesBack(c)
    <3> DEFINE left == Smaller(Lease.tokenLeft, Grace)
    <3>1. Lease \in Leases /\ Lease = held /\ held # NoLease
      BY <1>1, <2>1, LeaseFacts DEF GivesBack, Current, NoLease
    <3>2. left \in 0..Grace
      BY <3>1 DEF Leases, Smaller
    <3>3. held' = IF left = 0 THEN NoLease
                  ELSE [held EXCEPT !.attached = FALSE, !.graceLeft = left]
      BY <1>2, <2>1, <3>1 DEF Detached
    <3> HIDE DEF left
    <3>4. CASE left = 0
      BY <1>1, <2>1, <3>3, <3>4 DEF NoLease
    <3>5. CASE left # 0
      BY <1>1, <2>1, <3>1, <3>2, <3>3, <3>5 DEF Leases, TypeOK
    <3>6. QED  BY <3>4, <3>5
  <2>2. CASE ~GivesBack(c)
    BY <1>1, <1>2, <2>2, LeaseFacts DEF TypeOK, NoLease
  <2>3. QED  BY <2>1, <2>2
<1>6. /\ conn' \in [Conns -> Connection] /\ timer' \in 0..(Grace + 2)
      /\ \A d \in Conns : /\ conn'[d].state = freed[d].state /\ conn'[d].client = freed[d].client
                          /\ conn'[d].generation = freed[d].generation
                          /\ conn'[d].loading = freed[d].loading
  <2>1. CASE Changes(c)
    <3>1. Broadcast(freed, live', held', holder)
      BY <1>2, <2>1
    <3>2. QED  BY <1>1, <1>3, <1>4, <1>5, <3>1, BroadcastFacts
  <2>2. CASE ~Changes(c)
    BY <1>1, <1>2, <1>4, <2>2
  <2>3. QED  BY <2>1, <2>2
<1>7. /\ conn'[c].state = "free" /\ conn'[c].client = NoClient /\ conn'[c].generation = 0
      /\ ~conn'[c].loading
      /\ \A d \in Conns \ {c} : Later(conn[d], conn'[d]) /\ conn'[d].state = conn[d].state
  BY <1>4, <1>6 DEF Free, Later
<1>8. TypeOK'
  <2>1. Cardinality(Loading)' <= ViewerSnapshots
    BY <1>1, <1>7, LoadingKept DEF Later
  <2>2. QED  BY <1>1, <1>2, <1>3, <1>5, <1>6, <2>1 DEF TypeOK, Leases, Connection
<1>9. GenerationsAreOwn' /\ FreeIsBlank'
  BY <1>1, <1>2, <1>7 DEF Others, GenerationsAreOwn, FreeIsBlank, Later
<1>10. LeaseIsLast'
  BY <1>1, <1>2, <1>5 DEF Others, LeaseIsLast
<1>11. LiveIsOwn'
  BY <1>1, <1>2, <1>7 DEF Others, LiveIsOwn, Later
<1>12. OpenIsActive'
  <2> SUFFICES ASSUME NEW d \in Conns, conn'[d].state = "open", conn'[d].generation # 0
               PROVE  Current(d)' /\ active' = d
    BY DEF OpenIsActive
  <2>1. d # c /\ conn[d].state = "open" /\ conn[d].generation # 0
    BY <1>7 DEF Later
  <2>2. Current(d) /\ active = d
    BY <1>1, <2>1 DEF Others, OpenIsActive
  <2>3. ~GivesBack(c)
    BY <1>1, <2>1, <2>2 DEF Others, GenerationsAreOwn, GivesBack, Current
  <2>4. held' = held
    BY <1>1, <1>2, <2>2, <2>3, <1>8, CurrentMeans, LeaseFacts
  <2>5. QED  BY <1>1, <1>2, <1>7, <1>8, <2>1, <2>2, <2>4, CurrentMeans DEF ActiveAfter, Later
<1>13. LeaseHasConnection'
  <2> SUFFICES ASSUME held'.attached PROVE \E d \in Conns : conn'[d].state # "free" /\ Current(d)'
    BY DEF LeaseHasConnection
  <2>1. ~GivesBack(c) /\ held.attached
    BY <1>5
  <2>2. PICK d \in Conns : conn[d].state # "free" /\ Current(d)
    BY <1>1, <2>1 DEF Others, LeaseHasConnection
  <2>3. d # c
    BY <1>1, <1>8, <2>1, <2>2, CurrentMeans DEF GivesBack, Others, LeaseIsLast, NoLease
  <2>4. held' = held
    BY <1>1, <1>2, <2>1, LeaseFacts
  <2>5. QED  BY <1>1, <1>7, <1>8, <2>2, <2>3, <2>4, CurrentMeans DEF Later
<1>14. ShownOrPending'
  <2>1. CASE Changes(c)
    <3>1. \A d \in Conns : conn'[d].client \in Roles /\ live'[conn'[d].client] = d
                             => ShowsController(d)'
      <4>1. held'.attached => held'.client = holder
        BY <1>1, <1>5 DEF Others, LeaseIsLast, NoLease
      <4>2. Broadcast(freed, live', held', holder)
        BY <1>2, <2>1
      <4>3. QED  BY <1>1, <1>3, <1>4, <1>5, <4>1, <4>2, BroadcastShows
    <3>2. QED  BY <3>1 DEF ShownOrPending
  <2>2. CASE ~Changes(c)
    <3>1. /\ conn[c].generation = 0 /\ live' = live
          /\ \A d \in Conns \ {c} : conn'[d] = conn[d]
      BY <1>2, <1>4, <2>2 DEF Changes
    <3>2. /\ held'.attached = held.attached
          /\ held'.attached => held'.client = held.client
      BY <1>5, <3>1 DEF GivesBack, NoLease
    <3>3. QED
      BY <1>1, <1>7, <3>1, <3>2 DEF Others, ShownOrPending, EndWillTell, ShowsController
  <2>3. QED  BY <2>1, <2>2
<1>15. QED
  BY <1>8, <1>9, <1>10, <1>11, <1>12, <1>13, <1>14 DEF IInv, Others

\* Every step keeps the invariant.
LEMMA StepInv == IInv /\ [Next]_vars => IInv'
<1> SUFFICES ASSUME IInv, [Next]_vars PROVE IInv'
  OBVIOUS
<1>1. ASSUME NEW cl \in Clients, NEW c \in Conns, Hello(cl, c) PROVE IInv'
  <2>1. CASE Attach(cl, c) \/ Take(cl, c)
    BY <2>1, ControllerStep
  <2>2. CASE \E snapshot \in BOOLEAN : AttachViewer(cl, c, snapshot) \/ FallBack(cl, c, snapshot)
    <3>1. PICK snapshot \in BOOLEAN, released \in BOOLEAN : View(cl, c, snapshot, released)
      <4>1. PICK snapshot \in BOOLEAN : AttachViewer(cl, c, snapshot) \/ FallBack(cl, c, snapshot)
        BY <2>2
      <4>2. CanRelease(cl) \in BOOLEAN
        BY DEF CanRelease
      <4>3. QED  BY <4>1, <4>2 DEF AttachViewer, FallBack
    <3>2. QED  BY <3>1, ViewStep
  <2>3. QED  BY <1>1, <2>1, <2>2 DEF Hello
<1>2. ASSUME NEW c \in Conns,
             \/ Welcome(c) \/ Loaded(c) \/ StaleFrame(c) \/ Farewell(c) \/ Disconnect(c) \/ Ended(c)
      PROVE  IInv'
  BY <1>2, ConnectionStep, EndedStep
<1>3. CASE UNCHANGED vars
  BY <1>3 DEF vars, IInv, TypeOK, Others, Loading, GenerationsAreOwn, FreeIsBlank, LeaseIsLast,
     LiveIsOwn, OpenIsActive, LeaseHasConnection, Current, Lease, ShownOrPending, EndWillTell,
     ShowsController
<1>4. QED  BY <1>1, <1>2, <1>3, GraceEndsStep, TickStep DEF Next

\* The invariant holds in every behaviour.
THEOREM Invariant == Spec => []IInv
<1>1. QED  BY InitInv, StepInv, PTL DEF Spec

\* The lease, the connection that stands for it and the live entry that acts for
\* it belong together, whatever was taken, refused or ended late.
THEOREM LeaseBacked == Spec => []LeaseIsBacked
<1>1. IInv => LeaseIsBacked
  BY DEF IInv, Others, LeaseIsBacked
<1>2. QED  BY <1>1, Invariant, PTL

\* Once all ends are handled, every client that understands roles sees who controls
\* the workspace.
THEOREM ControllerShown == Spec => []ControllerIsShown
<1>1. IInv => ControllerIsShown
  BY DEF IInv, Others, ShownOrPending, EndWillTell, ShowsController, ControllerIsShown
<1>2. QED  BY <1>1, Invariant, PTL

\* An attached lease changes hands only from a holder that can be told and has had
\* it for the interval, to one that serves the models if it served them.
THEOREM LeaseByRight == Spec => LeaseMovesByRight
<1> DEFINE Right == held.attached /\ held'.attached /\ held'.client # held.client =>
                      /\ held.roles /\ held.age >= TakeInterval
                      /\ held.servesModels => held'.servesModels
<1>1. IInv /\ [Next]_vars => [Right]_vars
  <2> SUFFICES ASSUME IInv, Next, held.attached, held'.attached, held'.client # held.client
               PROVE  /\ held.roles /\ held.age >= TakeInterval
                      /\ held.servesModels => held'.servesModels
    BY DEF vars
  <2>1. TypeOK /\ TypeOK' /\ Lease = held /\ held # NoLease /\ held \in Leases
    BY StepInv, LeaseFacts DEF IInv, NoLease
  <2>2. ASSUME NEW cl \in Clients, NEW c \in Conns, Attach(cl, c) PROVE FALSE
    <3>1. cl = held.client
      BY <2>1, <2>2 DEF Attach, CanAttach
    <3>2. held' = Attached(cl)
      BY <2>2 DEF Attach, Control
    <3>3. held'.client = cl
      BY <2>1, <3>2 DEF Attached, Leases
    <3>4. QED  BY <3>1, <3>3
  <2>3. ASSUME NEW cl \in Clients, NEW c \in Conns, Take(cl, c)
        PROVE  /\ held.roles /\ held.age >= TakeInterval
               /\ held.servesModels => held'.servesModels
    <3>1. held' = Taken(cl) /\ CanTake(cl)
      BY <2>3 DEF Take, Control
    <3>2. held'.client = cl /\ held'.servesModels = (cl \in ModelServers)
      BY <3>1 DEF Taken
    <3>3. QED  BY <2>1, <3>1, <3>2 DEF CanTake
  <2>4. ASSUME NEW cl \in Clients, NEW c \in Conns, NEW snapshot \in BOOLEAN,
               AttachViewer(cl, c, snapshot) \/ FallBack(cl, c, snapshot)
        PROVE  FALSE
    <3>1. held' \in {NoLease, Lease}
      BY <2>4 DEF AttachViewer, FallBack, View
    <3>2. QED  BY <2>1, <3>1 DEF NoLease
  <2>5. ASSUME NEW c \in Conns,
               \/ Welcome(c) \/ Loaded(c) \/ StaleFrame(c) \/ Farewell(c) \/ Disconnect(c)
        PROVE  FALSE
    <3>1. held' \in {held, Lease}
      BY <2>5 DEF Welcome, Loaded, StaleFrame, Farewell, Disconnect
    <3>2. QED  BY <2>1, <3>1
  <2>6. ASSUME NEW c \in Conns, Ended(c) PROVE FALSE
    <3>1. held' = Detached \/ held' = held
      BY <2>1, <2>6 DEF Ended
    <3>2. ~Detached.attached
      BY <2>1 DEF Detached, NoLease, Leases
    <3>3. QED  BY <3>1, <3>2
  <2>7. CASE GraceEnds
    BY <2>1, <2>7 DEF GraceEnds
  <2>8. CASE Tick
    BY <2>1, <2>8 DEF Tick, Aged, Leases
  <2>9. QED
    BY <2>2, <2>3, <2>4, <2>5, <2>6, <2>7, <2>8 DEF Next, Hello
<1>2. QED  BY <1>1, Invariant, PTL DEF Spec, LeaseMovesByRight

-----------------------------------------------------------------------------
(* Induction and folds.  The library's induction theorems take an operator *)
(* as a parameter; these take a set, which well-foundedness allows.        *)

\* A set of numbers has a least element.
LEMMA LeastNumber ==
  ASSUME NEW S \in SUBSET Nat, S # {}
  PROVE  \E n \in S : \A m \in S : n <= m
<1> DEFINE R == {ss \in Nat \X Nat : ss[1] < ss[2]}
<1>1. IsWellFoundedOn(R, Nat)
  BY NatLessThanWellFounded DEF OpToRel
<1>2. PICK n \in S : \A m \in S : ~ (<<m, n>> \in R)
  <2> HIDE DEF R
  <2>1. QED  BY <1>1, WFMin
<1>3. ASSUME NEW m \in S PROVE n <= m
  <2>1. ~ (m < n)
    BY <1>2
  <2>2. QED  BY <2>1
<1>4. QED  BY <1>3

\* Induction up to N.
LEMMA UpTo ==
  ASSUME NEW N \in Nat, NEW S, 0 \in S, \A n \in 1..N : n - 1 \in S => n \in S
  PROVE  0..N \subseteq S
<1> DEFINE T == {n \in 0..N : n \notin S}
<1> SUFFICES ASSUME T # {} PROVE FALSE
  OBVIOUS
<1>1. PICK n \in T : \A m \in T : n <= m
  <2>1. T \in SUBSET Nat
    OBVIOUS
  <2> HIDE DEF T
  <2>2. QED  BY <2>1, LeastNumber
<1>2. n # 0 /\ n - 1 \in 0..N /\ n - 1 \notin T
  BY <1>1
<1>3. QED  BY <1>2

\* Induction over the subsets of a finite set: what holds of the empty set, and of
\* a set when it holds of the set without any one element.
LEMMA OverSubsets ==
  ASSUME NEW U, IsFiniteSet(U), NEW S, {} \in S,
         \A t \in SUBSET U : t # {} /\ (\A x \in t : t \ {x} \in S) => t \in S
  PROVE  SUBSET U \subseteq S
<1> DEFINE C == {n \in Nat : \A t \in SUBSET U : Cardinality(t) = n => t \in S}
<1>1. Cardinality(U) \in Nat /\ \A t \in SUBSET U : IsFiniteSet(t) /\ Cardinality(t) \in 0..Cardinality(U)
  <2>1. Cardinality(U) \in Nat
    BY FS_CardinalityType
  <2>2. ASSUME NEW t \in SUBSET U PROVE IsFiniteSet(t) /\ Cardinality(t) \in 0..Cardinality(U)
    <3>1. IsFiniteSet(t) /\ Cardinality(t) <= Cardinality(U)
      BY FS_Subset
    <3>2. Cardinality(t) \in Nat
      BY <3>1, FS_CardinalityType
    <3>3. QED  BY <2>1, <3>1, <3>2
  <2>3. QED  BY <2>1, <2>2
<1>2. 0 \in C
  BY <1>1, FS_EmptySet
<1>3. ASSUME NEW n \in 1..Cardinality(U), n - 1 \in C PROVE n \in C
  <2> SUFFICES ASSUME NEW t \in SUBSET U, Cardinality(t) = n PROVE t \in S
    BY <1>1
  <2>1. t # {}
    BY FS_EmptySet
  <2>2. ASSUME NEW x \in t PROVE t \ {x} \in S
    <3>1. Cardinality(t \ {x}) = n - 1 /\ t \ {x} \in SUBSET U
      BY <1>1, FS_RemoveElement
    <3>2. QED  BY <1>3, <3>1
  <2>3. QED  BY <2>1, <2>2
<1>4. 0..Cardinality(U) \subseteq C
  <2> HIDE DEF C
  <2>1. QED  BY <1>1, <1>2, <1>3, UpTo
<1>5. QED  BY <1>1, <1>4

\* f recurses over the subsets of U, from base, one element after another.
Recurses(f, U, pick, base, step) ==
  f = [t \in SUBSET U |-> IF t = {} THEN base ELSE step[<<f[t \ {pick[t]}], pick[t]>>]]

\* A recursion over the subsets of a finite set, one element after another, defines
\* a function; it stays in D if its step does.
LEMMA FoldExists ==
  ASSUME NEW U, IsFiniteSet(U), NEW pick \in [(SUBSET U) \ {{}} -> U],
         \A t \in (SUBSET U) \ {{}} : pick[t] \in t,
         NEW D, NEW base \in D, NEW step \in [D \X U -> D]
  PROVE  \E f \in [SUBSET U -> D] : Recurses(f, U, pick, base, step)
<1> DEFINE Has(n) == \E f \in [{t \in SUBSET U : Cardinality(t) <= n} -> D] :
             \A t \in SUBSET U : Cardinality(t) <= n =>
               f[t] = IF t = {} THEN base ELSE step[<<f[t \ {pick[t]}], pick[t]>>]
           C == {n \in Nat : Has(n)}
<1>1. \A t \in SUBSET U : IsFiniteSet(t) /\ Cardinality(t) \in Nat /\ Cardinality(t) <= Cardinality(U)
  BY FS_Subset, FS_CardinalityType
<1>2. \A t \in SUBSET U : t # {} => /\ t \ {pick[t]} \in SUBSET U
                                    /\ Cardinality(t \ {pick[t]}) = Cardinality(t) - 1
                                    /\ Cardinality(t) # 0 /\ pick[t] \in U
  BY <1>1, FS_RemoveElement, FS_EmptySet
<1>3. Cardinality(U) \in Nat
  BY FS_CardinalityType
<1>4. 0 \in C
  <2> DEFINE V == {t \in SUBSET U : Cardinality(t) <= 0}
             f == [t \in V |-> base]
  <2>1. \A t \in V : t = {}
    BY <1>1, FS_EmptySet
  <2>2. f \in [V -> D] /\ \A t \in SUBSET U : Cardinality(t) <= 0 =>
          f[t] = IF t = {} THEN base ELSE step[<<f[t \ {pick[t]}], pick[t]>>]
    BY <2>1
  <2>3. Has(0)
    BY <2>2
  <2>4. QED  BY <2>3
<1>5. ASSUME NEW n \in 1..Cardinality(U), n - 1 \in C PROVE n \in C
  <2> DEFINE V == {t \in SUBSET U : Cardinality(t) <= n}
             W == {t \in SUBSET U : Cardinality(t) <= n - 1}
  <2>1. PICK f \in [W -> D] : \A t \in SUBSET U : Cardinality(t) <= n - 1 =>
          f[t] = IF t = {} THEN base ELSE step[<<f[t \ {pick[t]}], pick[t]>>]
    BY <1>5
  <2> DEFINE h == [t \in V |-> IF t \in W THEN f[t] ELSE step[<<f[t \ {pick[t]}], pick[t]>>]]
  <2>2. \A t \in V : t # {} => t \ {pick[t]} \in W
    BY <1>1, <1>2, <1>5
  <2>3. {} \in W
    BY <1>5, FS_EmptySet
  <2>4. h \in [V -> D]
    <3> SUFFICES ASSUME NEW t \in V PROVE h[t] \in D
      OBVIOUS
    <3>1. CASE t \in W
      BY <3>1
    <3>2. CASE t \notin W
      <4>1. t # {} /\ f[t \ {pick[t]}] \in D /\ pick[t] \in U
        BY <1>2, <2>2, <2>3, <3>2
      <4>2. QED  BY <3>2, <4>1
    <3>3. QED  BY <3>1, <3>2
  <2>5. ASSUME NEW t \in V PROVE h[t] = IF t = {} THEN base ELSE step[<<h[t \ {pick[t]}], pick[t]>>]
    <3>1. CASE t = {}
      BY <2>1, <2>3, <3>1, <1>5, FS_EmptySet
    <3>2. CASE t # {}
      <4>1. t \ {pick[t]} \in W /\ W \subseteq V
        BY <1>1, <1>5, <2>2, <3>2
      <4>2. h[t \ {pick[t]}] = f[t \ {pick[t]}]
        BY <4>1
      <4>3. h[t] = step[<<f[t \ {pick[t]}], pick[t]>>]
        BY <2>1, <3>2
      <4>4. QED  BY <3>2, <4>2, <4>3
    <3>3. QED  BY <3>1, <3>2
  <2>6. Has(n)
    BY <2>4, <2>5
  <2>7. n \in Nat
    BY <1>3
  <2> HIDE DEF Has
  <2>8. QED  BY <2>6, <2>7
<1>6. Cardinality(U) \in C
  <2> HIDE DEF C
  <2>1. 0..Cardinality(U) \subseteq C
    BY <1>3, <1>4, <1>5, UpTo
  <2>2. QED  BY <1>3, <2>1
<1>7. {t \in SUBSET U : Cardinality(t) <= Cardinality(U)} = SUBSET U
  BY <1>1
<1>8. PICK f \in [SUBSET U -> D] : \A t \in SUBSET U :
        f[t] = IF t = {} THEN base ELSE step[<<f[t \ {pick[t]}], pick[t]>>]
  BY <1>1, <1>6, <1>7
<1>9. Recurses(f, U, pick, base, step)
  BY <1>8 DEF Recurses
<1>10. QED  BY <1>9

\* The greatest of some numbers up to N, and of all of them.
LEMMA Greatest ==
  ASSUME NEW N \in Nat
  PROVE  /\ IsFiniteSet(1..N)
         /\ \A t \in (SUBSET (1..N)) \ {{}} : Max(t) \in t
         /\ \A n \in 1..N : Max(1..n) = n /\ (1..n) \ {n} = 1..(n - 1)
<1>1. IsFiniteSet(1..N)
  BY FS_Interval
<1>2. ASSUME NEW t \in (SUBSET (1..N)) \ {{}} PROVE Max(t) \in t
  <2> DEFINE S == {N - n : n \in t}
  <2>1. S \in SUBSET Nat /\ S # {}
    OBVIOUS
  <2>2. PICK k \in S : \A m \in S : k <= m
    <3> HIDE DEF S
    <3>1. QED  BY <2>1, LeastNumber
  <2>3. PICK x \in t : k = N - x
    BY <2>2
  <2>4. \A y \in t : x >= y
    BY <2>2, <2>3
  <2>5. QED  BY <2>4 DEF Max
<1>3. ASSUME NEW n \in 1..N PROVE Max(1..n) = n /\ (1..n) \ {n} = 1..(n - 1)
  <2>1. n \in 1..n /\ \A y \in 1..n : n >= y
    OBVIOUS
  <2>2. \A x \in 1..n : (\A y \in 1..n : x >= y) => x = n
    BY <2>1
  <2>3. QED  BY <2>1, <2>2 DEF Max
<1>4. QED  BY <1>1, <1>2, <1>3

\* f is the function that FoldLeft recurses with, over the first N numbers.
FoldsLeft(f, N, base, step) ==
  f = [t \in SUBSET (1..N) |-> IF t = {} THEN base ELSE step[<<f[t \ {Max(t)}], Max(t)>>]]

\* There is one, when the step keeps D.
LEMMA FoldLeftExists ==
  ASSUME NEW N \in Nat, NEW D, NEW base \in D, NEW step \in [D \X (1..N) -> D]
  PROVE  \E f \in [SUBSET (1..N) -> D] : FoldsLeft(f, N, base, step)
<1> DEFINE U == 1..N
           pick == [t \in (SUBSET U) \ {{}} |-> Max(t)]
<1>1. IsFiniteSet(U) /\ pick \in [(SUBSET U) \ {{}} -> U] /\ \A t \in (SUBSET U) \ {{}} : pick[t] \in t
  BY Greatest
<1>2. PICK f \in [SUBSET U -> D] : Recurses(f, U, pick, base, step)
  <2> HIDE DEF U, pick
  <2>1. step \in [D \X U -> D]
    BY DEF U
  <2>2. QED  BY <1>1, <2>1, FoldExists
<1>3. FoldsLeft(f, N, base, step)
  BY <1>2 DEF Recurses, FoldsLeft
<1>4. QED  BY <1>3

-----------------------------------------------------------------------------
(* Sequences.                                                              *)

NoDup(q) == \A i, j \in 1..Len(q) : q[i] = q[j] => i = j

\* Without keeps what is not gone, in its order.
LEMMA WithoutKeeps ==
  ASSUME NEW E, NEW q \in Seq(E), NEW gone
  PROVE  /\ Without(q, gone) \in Seq(E)
         /\ ToSet(Without(q, gone)) = ToSet(q) \ gone
         /\ NoDup(q) => NoDup(Without(q, gone))
         /\ ToSet(q) \cap gone = {} => Without(q, gone) = q
<1> DEFINE N == Len(q)
           D == Seq(E)
           Op(kept, x) == IF x \in gone THEN kept ELSE Append(kept, x)
           Is(f) == f = [t \in SUBSET (1..N) |->
                           IF t = {} THEN <<>> ELSE Op(f[t \ {Max(t)}], q[Max(t)])]
           F == CHOOSE f : Is(f)
<1>1. N \in Nat /\ DOMAIN q = 1..N /\ \A i \in 1..N : q[i] \in E
  OBVIOUS
<1>2. Without(q, gone) = F[1..N]
  BY <1>1 DEF Without, FoldLeft, MapThenFoldSet
<1>3. Is(F)
  <2> DEFINE step == [z \in D \X (1..N) |-> Op(z[1], q[z[2]])]
             base == <<>>
  <2>1. step \in [D \X (1..N) -> D] /\ base \in D
    BY <1>1
  <2>2. PICK f \in [SUBSET (1..N) -> D] : FoldsLeft(f, N, base, step)
    <3> HIDE DEF step, base, D, N
    <3>1. QED  BY <1>1, <2>1, FoldLeftExists
  <2>3. \A t \in SUBSET (1..N) : t # {} => f[t \ {Max(t)}] \in D /\ Max(t) \in 1..N
    <3> HIDE DEF D, N
    <3>1. QED  BY <1>1, Greatest
  <2>4. Is(f)
    <3> HIDE DEF D, N, Op
    <3>1. QED  BY <2>2, <2>3 DEF FoldsLeft
  <2> HIDE DEF Is
  <2>5. QED  BY <2>4
<1>4. F[{}] = <<>> /\ \A n \in 1..N : F[1..n] = Op(F[1..(n - 1)], q[n])
  <2>1. {} \in SUBSET (1..N) /\ \A n \in 1..N : 1..n \in (SUBSET (1..N)) \ {{}}
    BY <1>1
  <2>2. \A n \in 1..N : Max(1..n) = n /\ (1..n) \ {n} = 1..(n - 1)
    BY <1>1, Greatest
  <2>3. \A t \in SUBSET (1..N) : F[t] = IF t = {} THEN <<>> ELSE Op(F[t \ {Max(t)}], q[Max(t)])
    <3> HIDE DEF N, Op, F
    <3>1. QED  BY <1>3
  <2>4. ASSUME NEW n \in 1..N PROVE F[1..n] = Op(F[1..(n - 1)], q[n])
    <3> HIDE DEF N, Op, F
    <3>1. F[1..n] = Op(F[(1..n) \ {Max(1..n)}], q[Max(1..n)])
      BY <2>1, <2>3
    <3>2. QED  BY <2>2, <3>1
  <2>5. F[{}] = <<>>
    <3> HIDE DEF N, Op, F
    <3>1. QED  BY <2>1, <2>3
  <2>6. QED  BY <2>4, <2>5
<1> DEFINE Part(n) == /\ F[1..n] \in Seq(E)
                      /\ ToSet(F[1..n]) = {q[i] : i \in 1..n} \ gone
                      /\ NoDup(q) => NoDup(F[1..n])
                      /\ ToSet(q) \cap gone = {} => F[1..n] = SubSeq(q, 1, n)
           C == {n \in 0..N : Part(n)}
<1>5. 0 \in C
  <2>1. 1..0 = {} /\ F[1..0] = <<>>
    BY <1>4
  <2> HIDE DEF F
  <2>2. <<>> \in Seq(E) /\ ToSet(<<>>) = {} /\ NoDup(<<>>) /\ SubSeq(q, 1, 0) = <<>>
    BY <1>1 DEF ToSet, NoDup
  <2>3. {q[i] : i \in 1..0} = {}
    OBVIOUS
  <2>4. Part(0)
    BY <2>1, <2>2, <2>3
  <2> HIDE DEF Part
  <2>5. QED  BY <1>1, <2>4
<1>6. ASSUME NEW n \in 1..N, n - 1 \in C PROVE n \in C
  <2> DEFINE kept == F[1..(n - 1)]
  <2>1. Part(n - 1) /\ q[n] \in E
    BY <1>1, <1>6
  <2>2. F[1..n] = Op(kept, q[n])
    BY <1>4
  <2>3. {q[i] : i \in 1..n} = {q[i] : i \in 1..(n - 1)} \cup {q[n]}
    BY <1>1
  <2>4. CASE q[n] \in gone
    <3>1. F[1..n] = kept
      BY <2>2, <2>4
    <3>2. q[n] \in ToSet(q)
      BY <1>1 DEF ToSet
    <3>3. Part(n)
      <4> HIDE DEF F
      <4>1. {q[i] : i \in 1..n} \ gone = {q[i] : i \in 1..(n - 1)} \ gone
        BY <2>3, <2>4
      <4>2. ToSet(q) \cap gone # {}
        BY <2>4, <3>2
      <4>3. QED  BY <2>1, <3>1, <4>1, <4>2
    <3> HIDE DEF Part
    <3>4. QED  BY <1>1, <3>3
  <2>5. CASE q[n] \notin gone
    <3>1. F[1..n] = Append(kept, q[n])
      BY <2>2, <2>5
    <3> HIDE DEF F
    <3>2. kept \in Seq(E) /\ ToSet(kept) = {q[i] : i \in 1..(n - 1)} \ gone
      BY <2>1
    <3>3. ToSet(F[1..n]) = ToSet(kept) \cup {q[n]} /\ F[1..n] \in Seq(E)
      <4> HIDE DEF kept
      <4>1. ASSUME NEW k \in Seq(E), NEW x \in E
            PROVE  ToSet(Append(k, x)) = ToSet(k) \cup {x} /\ Append(k, x) \in Seq(E)
        <5>1. DOMAIN Append(k, x) = 1..(Len(k) + 1) /\ DOMAIN k = 1..Len(k) /\ Len(k) \in Nat
          OBVIOUS
        <5>2. \A i \in 1..Len(k) : Append(k, x)[i] = k[i]
          OBVIOUS
        <5>3. Append(k, x)[Len(k) + 1] = x
          OBVIOUS
        <5>4. QED  BY <5>1, <5>2, <5>3 DEF ToSet
      <4>2. QED  BY <2>1, <3>1, <3>2, <4>1
    <3>4. ASSUME NoDup(q) PROVE NoDup(F[1..n])
      <4>1. NoDup(kept) /\ q[n] \notin ToSet(kept)
        BY <1>1, <2>1, <3>2, <3>4 DEF NoDup
      <4>2. QED  BY <2>1, <3>1, <3>2, <4>1 DEF NoDup, ToSet
    <3>5. ASSUME ToSet(q) \cap gone = {} PROVE F[1..n] = SubSeq(q, 1, n)
      <4>1. kept = SubSeq(q, 1, n - 1)
        BY <2>1, <3>5
      <4>2. QED  BY <1>1, <3>1, <4>1
    <3>6. Part(n)
      BY <2>3, <2>5, <3>2, <3>3, <3>4, <3>5
    <3> HIDE DEF Part
    <3>7. QED  BY <1>1, <3>6
  <2>6. QED  BY <2>4, <2>5
<1>7. N \in C
  <2> HIDE DEF C, N
  <2>1. 0..N \subseteq C
    BY <1>1, <1>5, <1>6, UpTo
  <2>2. QED  BY <1>1, <2>1
<1>8. {q[i] : i \in 1..N} = ToSet(q) /\ SubSeq(q, 1, N) = q
  BY <1>1 DEF ToSet
<1>9. QED  BY <1>2, <1>7, <1>8

-----------------------------------------------------------------------------
(* Sums.                                                                   *)

\* F sums f over every subset of U.
Sums(F, f, U) ==
  /\ F \in [SUBSET U -> Nat]
  /\ F[{}] = 0
  /\ \A t \in SUBSET U : \A x \in t : F[t] = f[x] + F[t \ {x}]
  /\ F[U] = Total(f, U)

\* Total is a sum: the order of its elements does not matter.
LEMMA TotalSums ==
  ASSUME NEW U, IsFiniteSet(U), NEW f, \A x \in U : f[x] \in Nat
  PROVE  \E F : Sums(F, f, U)
<1> DEFINE Pick(t) == CHOOSE x \in t : TRUE
           Is(F) == F = [t \in SUBSET U |-> IF t = {} THEN 0 ELSE f[Pick(t)] + F[t \ {Pick(t)}]]
           F == CHOOSE g : Is(g)
<1>1. Total(f, U) = F[U]
  BY DEF Total, MapThenSumSet, MapThenFoldSet
<1>2. \A t \in SUBSET U : t # {} => Pick(t) \in t
  OBVIOUS
<1>3. Is(F)
  <2> DEFINE pick == [t \in (SUBSET U) \ {{}} |-> Pick(t)]
             step == [z \in Nat \X U |-> f[z[2]] + z[1]]
             D == Nat
             base == 0
  <2>1. pick \in [(SUBSET U) \ {{}} -> U] /\ \A t \in (SUBSET U) \ {{}} : pick[t] \in t
    <3> HIDE DEF Pick
    <3>1. QED  BY <1>2
  <2>2. step \in [D \X U -> D] /\ base \in D
    OBVIOUS
  <2>3. PICK g \in [SUBSET U -> D] : Recurses(g, U, pick, base, step)
    <3> HIDE DEF pick, step, D, base
    <3>1. QED  BY <2>1, <2>2, FoldExists
  <2>4. Is(g)
    <3> HIDE DEF Pick
    <3>1. \A t \in SUBSET U : g[t] = IF t = {} THEN base ELSE step[<<g[t \ {pick[t]}], pick[t]>>]
      BY <2>3 DEF Recurses
    <3>2. ASSUME NEW t \in SUBSET U, t # {} PROVE g[t] = f[Pick(t)] + g[t \ {Pick(t)}]
      <4>1. pick[t] = Pick(t) /\ Pick(t) \in U /\ t \ {Pick(t)} \in SUBSET U
        BY <1>2, <3>2
      <4>2. g[t \ {Pick(t)}] \in Nat
        BY <4>1
      <4>3. g[t] = step[<<g[t \ {Pick(t)}], Pick(t)>>]
        BY <3>1, <3>2, <4>1
      <4>4. QED  BY <4>1, <4>2, <4>3
    <3>3. QED  BY <2>3, <3>1, <3>2 DEF Recurses
  <2> HIDE DEF Is
  <2>5. QED  BY <2>4
<1>4. \A t \in SUBSET U : F[t] = IF t = {} THEN 0 ELSE f[Pick(t)] + F[t \ {Pick(t)}]
  <2> HIDE DEF F, Pick
  <2>1. QED  BY <1>3
<1> HIDE DEF F, Is
<1>5. SUBSET U \subseteq {t \in SUBSET U : F[t] \in Nat}
  <2> DEFINE S == {t \in SUBSET U : F[t] \in Nat}
  <2>1. {} \in S
    <3> HIDE DEF Pick
    <3>1. F[{}] = 0
      BY <1>4
    <3>2. QED  BY <3>1
  <2>2. ASSUME NEW t \in SUBSET U, t # {}, \A x \in t : t \ {x} \in S PROVE t \in S
    <3>1. Pick(t) \in t /\ F[t] = f[Pick(t)] + F[t \ {Pick(t)}]
      BY <1>2, <1>4, <2>2
    <3> HIDE DEF Pick
    <3>2. F[t \ {Pick(t)}] \in Nat /\ f[Pick(t)] \in Nat
      BY <2>2, <3>1
    <3>3. QED  BY <3>1, <3>2
  <2>3. SUBSET U \subseteq S
    <3> HIDE DEF S
    <3>1. QED  BY <2>1, <2>2, OverSubsets
  <2>4. QED  BY <2>3
<1>6. SUBSET U \subseteq {t \in SUBSET U : \A x \in t : F[t] = f[x] + F[t \ {x}]}
  <2> DEFINE S == {t \in SUBSET U : \A x \in t : F[t] = f[x] + F[t \ {x}]}
  <2>1. {} \in S
    OBVIOUS
  <2>2. ASSUME NEW t \in SUBSET U, t # {}, \A x \in t : t \ {x} \in S PROVE t \in S
    <3> SUFFICES ASSUME NEW x \in t PROVE F[t] = f[x] + F[t \ {x}]
      OBVIOUS
    <3>1. PICK y \in t : F[t] = f[y] + F[t \ {y}]
      <4>1. Pick(t) \in t /\ F[t] = f[Pick(t)] + F[t \ {Pick(t)}]
        BY <1>2, <1>4, <2>2
      <4> HIDE DEF Pick
      <4>2. QED  BY <4>1
    <3>2. CASE x = y
      BY <3>1, <3>2
    <3>3. CASE x # y
      <4>1. F[t \ {y}] = f[x] + F[(t \ {y}) \ {x}]
        BY <2>2, <3>3
      <4>2. F[t \ {x}] = f[y] + F[(t \ {x}) \ {y}]
        BY <2>2, <3>3
      <4>3. (t \ {x}) \ {y} = (t \ {y}) \ {x}
        OBVIOUS
      <4>4. f[x] \in Nat /\ f[y] \in Nat /\ (t \ {y}) \ {x} \in SUBSET U
        OBVIOUS
      <4>5. F[(t \ {y}) \ {x}] \in Nat
        BY <1>5, <4>4
      <4> HIDE DEF S
      <4>6. f[x] + F[t \ {x}] = f[x] + (f[y] + F[(t \ {y}) \ {x}])
        BY <4>2, <4>3
      <4>7. F[t] = f[y] + (f[x] + F[(t \ {y}) \ {x}])
        BY <3>1, <4>1
      <4>8. QED  BY <4>4, <4>5, <4>6, <4>7
    <3>4. QED  BY <3>2, <3>3
  <2>3. SUBSET U \subseteq S
    <3> HIDE DEF S
    <3>1. QED  BY <2>1, <2>2, OverSubsets
  <2>4. QED  BY <2>3
<1>7. F \in [SUBSET U -> Nat]
  <2>1. F = [t \in SUBSET U |-> F[t]]
    BY <1>3 DEF Is
  <2>2. \A t \in SUBSET U : F[t] \in Nat
    BY <1>5
  <2>3. QED  BY <2>1, <2>2
<1>8. F[{}] = 0
  BY <1>4
<1>9. QED  BY <1>1, <1>6, <1>7, <1>8 DEF Sums

\* Two sums over functions that agree on a set are equal on it.
LEMMA SumsAgree ==
  ASSUME NEW U, NEW V, IsFiniteSet(U), V \subseteq U, NEW f, NEW g,
         NEW F, Sums(F, f, U), NEW G, Sums(G, g, V),
         \A x \in V : f[x] = g[x]
  PROVE  F[V] = G[V]
<1> DEFINE S == {t \in SUBSET V : F[t] = G[t]}
<1>1. {} \in S
  BY DEF Sums
<1>2. ASSUME NEW t \in SUBSET V, t # {}, \A x \in t : t \ {x} \in S PROVE t \in S
  <2>1. PICK x \in t : TRUE
    BY <1>2
  <2>2. F[t] = f[x] + F[t \ {x}] /\ G[t] = g[x] + G[t \ {x}] /\ F[t \ {x}] = G[t \ {x}]
    BY <1>2, <2>1 DEF Sums
  <2>3. QED  BY <2>1, <2>2
<1>3. IsFiniteSet(V)
  BY FS_Subset
<1>4. SUBSET V \subseteq S
  <2> HIDE DEF S
  <2>1. QED  BY <1>1, <1>2, <1>3, OverSubsets
<1>5. QED  BY <1>4

\* The total over a finite set is a number, that over none is 0, and each element
\* adds its own; only the values on the set matter.
LEMMA TotalFacts ==
  ASSUME NEW U, IsFiniteSet(U), NEW f, \A x \in U : f[x] \in Nat
  PROVE  /\ Total(f, U) \in Nat
         /\ U = {} => Total(f, U) = 0
         /\ \A x \in U : Total(f, U) = f[x] + Total(f, U \ {x})
<1>1. PICK F : Sums(F, f, U)
  BY TotalSums
<1>2. Total(f, U) \in Nat /\ (U = {} => Total(f, U) = 0)
  BY <1>1 DEF Sums
<1>3. ASSUME NEW x \in U PROVE Total(f, U) = f[x] + Total(f, U \ {x})
  <2>1. IsFiniteSet(U \ {x}) /\ \A y \in U \ {x} : f[y] \in Nat
    BY FS_RemoveElement
  <2>2. PICK G : Sums(G, f, U \ {x})
    BY <2>1, TotalSums
  <2>3. F[U \ {x}] = G[U \ {x}]
    BY <1>1, <2>2, SumsAgree
  <2>4. F[U] = f[x] + F[U \ {x}] /\ F[U] = Total(f, U) /\ G[U \ {x}] = Total(f, U \ {x})
    BY <1>1, <2>2 DEF Sums
  <2>5. QED  BY <2>3, <2>4
<1>4. QED  BY <1>2, <1>3

LEMMA TotalSame ==
  ASSUME NEW U, IsFiniteSet(U), NEW f, NEW g, \A x \in U : f[x] \in Nat /\ f[x] = g[x]
  PROVE  Total(f, U) = Total(g, U)
<1>1. PICK F : Sums(F, f, U)
  BY TotalSums
<1>2. PICK G : Sums(G, g, U)
  BY TotalSums
<1>3. F[U] = G[U]
  BY <1>1, <1>2, SumsAgree
<1>4. QED  BY <1>1, <1>2, <1>3 DEF Sums

\* One value changes.
LEMMA TotalChanged ==
  ASSUME NEW U, IsFiniteSet(U), NEW f, NEW g, NEW k \in U,
         \A x \in U : f[x] \in Nat /\ g[x] \in Nat,
         \A x \in U \ {k} : g[x] = f[x]
  PROVE  Total(g, U) = Total(f, U) - f[k] + g[k]
<1>1. IsFiniteSet(U \ {k})
  BY FS_RemoveElement
<1>2. Total(f, U \ {k}) = Total(g, U \ {k}) /\ Total(f, U \ {k}) \in Nat
  BY <1>1, TotalSame, TotalFacts
<1>3. Total(f, U) = f[k] + Total(f, U \ {k}) /\ Total(g, U) = g[k] + Total(g, U \ {k})
  BY TotalFacts
<1>4. QED  BY <1>2, <1>3

\* Elements without value do not count.
LEMMA TotalWithout ==
  ASSUME NEW U, IsFiniteSet(U), NEW V, V \subseteq U, NEW f,
         \A x \in U : f[x] \in Nat, \A x \in U \ V : f[x] = 0
  PROVE  Total(f, U) = Total(f, V)
<1> DEFINE S == {t \in SUBSET U : Total(f, t) = Total(f, t \cap V)}
<1>1. {} \in S
  OBVIOUS
<1>2. ASSUME NEW t \in SUBSET U, t # {}, \A x \in t : t \ {x} \in S PROVE t \in S
  <2>1. PICK x \in t : TRUE
    BY <1>2
  <2>2. Total(f, t \ {x}) = Total(f, (t \ {x}) \cap V)
    BY <1>2, <2>1
  <2>3. IsFiniteSet(t) /\ IsFiniteSet(t \cap V)
    <3>1. t \cap V \in SUBSET U
      OBVIOUS
    <3>2. QED  BY <3>1, FS_Subset
  <2>4. Total(f, t) = f[x] + Total(f, t \ {x}) /\ Total(f, t \cap V) \in Nat
    BY <2>3, TotalFacts
  <2>5. CASE x \in V
    <3>1. (t \ {x}) \cap V = (t \cap V) \ {x} /\ x \in t \cap V
      BY <2>5
    <3>2. Total(f, t \cap V) = f[x] + Total(f, (t \cap V) \ {x})
      BY <2>3, <3>1, TotalFacts
    <3>3. QED  BY <2>2, <2>4, <3>1, <3>2
  <2>6. CASE x \notin V
    <3>1. (t \ {x}) \cap V = t \cap V /\ f[x] = 0
      BY <2>6
    <3>2. Total(f, t \ {x}) = Total(f, t \cap V)
      BY <2>2, <3>1
    <3>3. QED  BY <2>1, <2>4, <3>1, <3>2
  <2>7. QED  BY <2>5, <2>6
<1>3. SUBSET U \subseteq S
  <2> HIDE DEF S
  <2>1. QED  BY <1>1, <1>2, OverSubsets
<1>4. U \cap V = V
  OBVIOUS
<1>5. QED  BY <1>3, <1>4

-----------------------------------------------------------------------------
(* The invariant of a ledger.                                              *)

Ledgers ==
  [order : [Scopes -> Seq(Ids)], slot : [Scopes -> [Ids -> Slots]], size : [Keys -> Nat],
   progress : [Keys -> {"none"} \cup Unsettled], settled : Seq(Keys),
   active : Seq(Scopes), forgotten : Seq(Scopes),
   live : Nat, ids : Nat, bytes : Nat, runningBytes : Nat]

Live(l) == {k \in Keys : l.slot[k[1]][k[2]] = "live"}
Used(l) == {k \in Keys : l.slot[k[1]][k[2]] # "none"}
Open(l) == {k \in Keys : l.progress[k] \in Unsettled}

\* The window of a scope holds the ids with a slot, and only active scopes have one.
WindowsAgree(l) ==
  /\ \A s \in Scopes : NoDup(l.order[s]) /\ ToSet(l.order[s]) = {i \in Ids : l.slot[s][i] # "none"}
  /\ \A s \in Scopes : s \notin ToSet(l.active) => l.order[s] = <<>>
  /\ ToSet(l.active) \cap ToSet(l.forgotten) = {}
  /\ Len(l.forgotten) <= MaxForgotten

\* An entry is live while its operation is open, and then until its result goes.
SettledAgree(l) ==
  /\ NoDup(l.settled) /\ ToSet(l.settled) = Live(l) \ Open(l)
  /\ Open(l) \subseteq Live(l)

\* The counters count what the maps hold.
CountersAgree(l) ==
  /\ l.live = Cardinality(Live(l)) /\ l.ids = Cardinality(Used(l))
  /\ l.bytes = Total(l.size, Keys) /\ l.runningBytes = Total(l.size, Open(l))
  /\ \A k \in Keys : k \notin Live(l) => l.size[k] = 0

Sound(l) == l \in Ledgers /\ WindowsAgree(l) /\ SettledAgree(l) /\ CountersAgree(l)

\* m has given up results, and whole scopes, of l.
Lighter(m, l) ==
  /\ m.progress = l.progress /\ m.runningBytes = l.runningBytes
  /\ m.live <= l.live /\ m.ids <= l.ids /\ m.bytes <= l.bytes
  /\ ToSet(m.active) \subseteq ToSet(l.active)
  /\ \A s \in ToSet(m.active) : m.order[s] = l.order[s]
  /\ \A s \in Scopes, i \in Ids : l.slot[s][i] = "none" => m.slot[s][i] = "none"

\* What l may become by that.
Below(l) == {m \in Ledgers : Sound(m) /\ Lighter(m, l)}

-----------------------------------------------------------------------------
LEMMA KeysFinite ==
  /\ IsFiniteSet(Keys)
  /\ \A S \in SUBSET Keys : IsFiniteSet(S) /\ Cardinality(S) \in Nat
  /\ \A k \in Keys : k[1] \in Scopes /\ k[2] \in Ids /\ k = <<k[1], k[2]>>
  /\ \A s \in Scopes, i \in Ids : <<s, i>> \in Keys
<1>1. IsFiniteSet(Keys)
  BY LimitsAssumption, FS_Product DEF Keys
<1>2. ASSUME NEW S \in SUBSET Keys PROVE IsFiniteSet(S) /\ Cardinality(S) \in Nat
  BY <1>1, FS_Subset, FS_CardinalityType
<1>3. QED  BY <1>1, <1>2 DEF Keys

\* A sequence without duplicates is as long as its elements are many.
LEMMA LengthCounts ==
  ASSUME NEW E, NEW q \in Seq(E), NoDup(q)
  PROVE  IsFiniteSet(ToSet(q)) /\ Cardinality(ToSet(q)) = Len(q)
<1>1. q \in Bijection(1..Len(q), ToSet(q)) /\ Len(q) \in Nat
  <2>1. Len(q) \in Nat /\ DOMAIN q = 1..Len(q) /\ ToSet(q) = {q[i] : i \in 1..Len(q)}
    BY DEF ToSet
  <2>2. q \in [1..Len(q) -> E]
    BY <2>1
  <2>3. q \in [1..Len(q) -> ToSet(q)]
    BY <2>1, <2>2
  <2>4. q \in Injection(1..Len(q), ToSet(q))
    BY <2>3 DEF NoDup, Injection, IsInjective
  <2>5. q \in Surjection(1..Len(q), ToSet(q))
    BY <2>1, <2>3 DEF Surjection
  <2>6. QED  BY <2>1, <2>4, <2>5 DEF Bijection
<1>2. ExistsBijection(1..Len(q), ToSet(q))
  BY <1>1 DEF ExistsBijection
<1>3. Cardinality(ToSet(q)) = Len(q)
  BY <1>1, <1>2, FS_CountingElements
<1>4. IsFiniteSet(ToSet(q))
  BY <1>1, <1>2, FS_NatBijection
<1>5. QED  BY <1>3, <1>4

LEMMA LighterIsTransitive ==
  ASSUME NEW l \in Ledgers, NEW m \in Ledgers, NEW n \in Ledgers, Lighter(m, l), Lighter(n, m)
  PROVE  Lighter(n, l)
<1>1. l.live \in Nat /\ m.live \in Nat /\ n.live \in Nat /\ l.ids \in Nat /\ m.ids \in Nat
      /\ n.ids \in Nat /\ l.bytes \in Nat /\ m.bytes \in Nat /\ n.bytes \in Nat
  BY DEF Ledgers
<1>2. QED  BY <1>1 DEF Lighter

LEMMA LighterIsReflexive ==
  ASSUME NEW l \in Ledgers
  PROVE  Lighter(l, l)
  BY DEF Lighter, Ledgers

\* tombstone: a result that is given up leaves the counters exact.
LEMMA TombstoneSound ==
  ASSUME NEW l, Sound(l), NEW k \in Keys, k \notin Open(l)
  PROVE  LET m == Tombstone(l, k) IN
         /\ Sound(m) /\ Lighter(m, l)
         /\ m.order = l.order /\ m.active = l.active /\ m.forgotten = l.forgotten
         /\ m.settled = Without(l.settled, {k})
         /\ Live(m) = Live(l) \ {k} /\ Used(m) = Used(l)
<1> DEFINE m == Tombstone(l, k)
<1>0. l \in Ledgers /\ k[1] \in Scopes /\ k[2] \in Ids /\ k = <<k[1], k[2]>>
  BY KeysFinite DEF Sound
<1>1. CASE k \notin Live(l)
  <2>1. m = l
    BY <1>1 DEF Tombstone, Live
  <2>2. k \notin ToSet(l.settled) /\ l.settled \in Seq(Keys)
    BY <1>0, <1>1 DEF Sound, SettledAgree, Ledgers
  <2>3. Without(l.settled, {k}) = l.settled
    BY <2>2, WithoutKeeps
  <2>4. QED  BY <1>0, <1>1, <2>1, <2>3, LighterIsReflexive
<1>2. CASE k \in Live(l)
  <2>1. m = [l EXCEPT !.slot[k[1]][k[2]] = "tombstone", !.settled = Without(@, {k}),
                      !.live = @ - 1, !.bytes = @ - l.size[k], !.size[k] = 0]
    BY <1>2 DEF Tombstone, Live
  <2>2. /\ m.slot = [l.slot EXCEPT ![k[1]] = [@ EXCEPT ![k[2]] = "tombstone"]]
        /\ m.settled = Without(l.settled, {k}) /\ m.live = l.live - 1
        /\ m.bytes = l.bytes - l.size[k] /\ m.size = [l.size EXCEPT ![k] = 0]
        /\ m.order = l.order /\ m.active = l.active /\ m.forgotten = l.forgotten
        /\ m.progress = l.progress /\ m.ids = l.ids /\ m.runningBytes = l.runningBytes
        /\ DOMAIN m = DOMAIN l
    BY <1>0, <2>1 DEF Ledgers
  <2>3. \A s \in Scopes, i \in Ids :
          m.slot[s][i] = IF <<s, i>> = k THEN "tombstone" ELSE l.slot[s][i]
    BY <1>0, <2>2 DEF Ledgers
  <2>4. Live(m) = Live(l) \ {k} /\ Used(m) = Used(l) /\ Open(m) = Open(l)
    <3>1. \A j \in Keys : m.slot[j[1]][j[2]] = IF j = k THEN "tombstone" ELSE l.slot[j[1]][j[2]]
      BY <2>3, KeysFinite
    <3>2. QED  BY <1>2, <2>2, <3>1 DEF Live, Used, Open
  <2>5. /\ m.settled \in Seq(Keys) /\ NoDup(m.settled) /\ ToSet(m.settled) = Live(m) \ Open(m)
    <3>1. l.settled \in Seq(Keys) /\ NoDup(l.settled) /\ ToSet(l.settled) = Live(l) \ Open(l)
      BY <1>0 DEF Sound, SettledAgree, Ledgers
    <3>2. QED  BY <2>2, <2>4, <3>1, WithoutKeeps
  <2>6. /\ l.live \in Nat /\ l.live = Cardinality(Live(l)) /\ Live(l) \in SUBSET Keys
        /\ m.live = Cardinality(Live(m)) /\ m.live \in Nat
    <3>1. l.live \in Nat /\ l.live = Cardinality(Live(l)) /\ Live(l) \in SUBSET Keys
      BY <1>0 DEF Sound, CountersAgree, Ledgers, Live
    <3>2. Cardinality(Live(m)) = Cardinality(Live(l)) - 1 /\ Cardinality(Live(m)) \in Nat
      BY <1>2, <2>4, <3>1, KeysFinite, FS_RemoveElement
    <3>3. QED  BY <2>2, <3>1, <3>2
  <2>7. /\ m.size \in [Keys -> Nat] /\ l.size \in [Keys -> Nat] /\ m.size[k] = 0
        /\ \A j \in Keys : j # k => m.size[j] = l.size[j]
    BY <1>0, <2>2 DEF Ledgers
  <2>8. m.bytes = Total(m.size, Keys) /\ m.bytes \in Nat /\ l.bytes \in Nat /\ m.bytes <= l.bytes
    <3>1. l.bytes = Total(l.size, Keys) /\ l.bytes \in Nat
      BY <1>0 DEF Sound, CountersAgree, Ledgers
    <3>2. Total(m.size, Keys) = Total(l.size, Keys) - l.size[k] + 0
      BY <2>7, KeysFinite, TotalChanged
    <3>3. Total(m.size, Keys) \in Nat
      BY <2>7, KeysFinite, TotalFacts
    <3>4. QED  BY <2>2, <2>7, <3>1, <3>2, <3>3
  <2>9. m.runningBytes = Total(m.size, Open(m))
    <3>1. Open(l) \in SUBSET Keys
      BY DEF Open
    <3>2. Total(m.size, Open(l)) = Total(l.size, Open(l))
      BY <2>7, <3>1, KeysFinite, TotalSame
    <3>3. QED  BY <2>2, <2>4, <3>2 DEF Sound, CountersAgree
  <2>10. m.slot \in [Scopes -> [Ids -> Slots]]
    BY <1>0, <2>2 DEF Ledgers, Slots
  <2>11. m \in Ledgers
    <3>1. m = [l EXCEPT !.slot = m.slot, !.settled = m.settled, !.live = m.live,
                        !.bytes = m.bytes, !.size = m.size]
      BY <1>0, <2>1, <2>2 DEF Ledgers
    <3>2. QED  BY <1>0, <2>5, <2>6, <2>7, <2>8, <2>10, <3>1 DEF Ledgers
  <2>12. WindowsAgree(m)
    <3>1. \A s \in Scopes, i \in Ids : m.slot[s][i] # "none" <=> l.slot[s][i] # "none"
      BY <1>0, <1>2, <2>3 DEF Live
    <3>2. QED  BY <2>2, <3>1 DEF Sound, WindowsAgree
  <2>13. Lighter(m, l)
    <3>1. \A s \in Scopes, i \in Ids : l.slot[s][i] = "none" => m.slot[s][i] = "none"
      BY <1>0, <1>2, <2>3 DEF Live
    <3>2. m.live <= l.live /\ m.ids <= l.ids
      BY <1>0, <2>2, <2>6 DEF Ledgers
    <3>3. QED  BY <2>2, <2>8, <3>1, <3>2 DEF Lighter
  <2>14. CountersAgree(m)
    <3>1. m.ids = Cardinality(Used(m))
      BY <2>2, <2>4 DEF Sound, CountersAgree
    <3>2. \A j \in Keys : j \notin Live(m) => m.size[j] = 0
      BY <2>4, <2>7 DEF Sound, CountersAgree
    <3>3. QED  BY <2>6, <2>8, <2>9, <3>1, <3>2 DEF CountersAgree
  <2>15. SettledAgree(m)
    BY <2>4, <2>5 DEF Sound, SettledAgree
  <2>16. QED  BY <2>2, <2>4, <2>11, <2>12, <2>13, <2>14, <2>15 DEF Sound
<1>3. QED  BY <1>1, <1>2

\* F recurses like a fold from base, as long as it is in D.
FoldsIn(F, N, D, base, step) ==
  /\ F[{}] = base
  /\ \A t \in (SUBSET (1..N)) \ {{}} :
       F[t \ {Max(t)}] \in D => F[t] = step[<<F[t \ {Max(t)}], Max(t)>>]

\* F goes from base through D, one element after another.
Walks(F, N, D, base, step) ==
  /\ F[1..0] = base
  /\ \A n \in 0..N : F[1..n] \in D
  /\ \A n \in 1..N : F[1..n] = step[<<F[1..(n - 1)], n>>]

\* A fold whose step keeps D never leaves it.
LEMMA FoldIn ==
  ASSUME NEW N \in Nat, NEW D, NEW base \in D, NEW step \in [D \X (1..N) -> D], NEW F,
         FoldsIn(F, N, D, base, step)
  PROVE  Walks(F, N, D, base, step)
<1> DEFINE C == {n \in 0..N : F[1..n] \in D}
<1>1. F[1..0] = base
  <2>1. 1..0 = {}
    OBVIOUS
  <2>2. QED  BY <2>1 DEF FoldsIn
<1>2. ASSUME NEW n \in 1..N, F[1..(n - 1)] \in D
      PROVE  F[1..n] = step[<<F[1..(n - 1)], n>>] /\ F[1..n] \in D
  <2>1. Max(1..n) = n /\ (1..n) \ {n} = 1..(n - 1)
    BY Greatest
  <2>2. 1..n \in (SUBSET (1..N)) \ {{}}
    OBVIOUS
  <2>3. F[1..n] = step[<<F[1..(n - 1)], n>>]
    BY <1>2, <2>1, <2>2 DEF FoldsIn
  <2>4. QED  BY <1>2, <2>3
<1>3. 0 \in C /\ \A n \in 1..N : n - 1 \in C => n \in C
  <2>1. 0 \in C
    BY <1>1
  <2>2. ASSUME NEW n \in 1..N, n - 1 \in C PROVE n \in C
    <3>1. F[1..(n - 1)] \in D
      BY <2>2
    <3>2. F[1..n] \in D
      BY <1>2, <3>1
    <3>3. n \in 0..N
      OBVIOUS
    <3>4. QED  BY <3>2, <3>3
  <2>3. QED  BY <2>1, <2>2
<1>4. 0..N \subseteq C
  <2> HIDE DEF C
  <2>1. QED  BY <1>3, UpTo
<1>5. \A n \in 1..N : F[1..(n - 1)] \in D
  <2>1. \A n \in 1..N : n - 1 \in 0..N
    OBVIOUS
  <2>2. QED  BY <1>4, <2>1
<1>6. QED  BY <1>1, <1>2, <1>4, <1>5 DEF Walks

\* A ledger is below itself, and what is below what is below it.
LEMMA BelowFacts ==
  ASSUME NEW l, Sound(l)
  PROVE  /\ l \in Below(l)
         /\ \A m \in Below(l) : \A n : Sound(n) /\ Lighter(n, m) => n \in Below(l)
  BY LighterIsReflexive, LighterIsTransitive DEF Below, Sound

\* The results of a scope with nothing open are given up.
LEMMA BareSound ==
  ASSUME NEW l, Sound(l), NEW s \in Scopes, \A i \in Ids : <<s, i>> \notin Open(l)
  PROVE  LET m == FoldLeft(LAMBDA b, i : Tombstone(b, <<s, i>>), l, l.order[s]) IN
         /\ m \in Below(l)
         /\ m.order = l.order /\ m.active = l.active /\ m.forgotten = l.forgotten
         /\ Used(m) = Used(l)
         /\ \A i \in Ids : <<s, i>> \notin Live(m)
<1> DEFINE q == l.order[s]
           N == Len(q)
           D == {m \in Below(l) : /\ m.order = l.order /\ m.active = l.active
                                  /\ m.forgotten = l.forgotten /\ Used(m) = Used(l)
                                  /\ Live(m) \subseteq Live(l)}
           Op(m, i) == Tombstone(m, <<s, i>>)
           Is(f) == f = [t \in SUBSET (1..N) |->
                           IF t = {} THEN l ELSE Op(f[t \ {Max(t)}], q[Max(t)])]
           F == CHOOSE f : Is(f)
           step == [z \in D \X (1..N) |-> Op(z[1], q[z[2]])]
<1>1. N \in Nat /\ DOMAIN q = 1..N /\ \A n \in 1..N : q[n] \in Ids
  BY DEF Sound, Ledgers
<1>2. FoldLeft(LAMBDA b, i : Tombstone(b, <<s, i>>), l, q) = F[1..N]
  BY <1>1 DEF FoldLeft, MapThenFoldSet
<1>3. ASSUME NEW m \in D, NEW n \in 1..N
      PROVE  Op(m, q[n]) \in D /\ Live(Op(m, q[n])) = Live(m) \ {<<s, q[n]>>}
  <2>1. <<s, q[n]>> \in Keys /\ <<s, q[n]>> \notin Open(m) /\ Sound(m)
    BY <1>1, KeysFinite DEF Below, Lighter, Open
  <2>2. /\ Sound(Op(m, q[n])) /\ Lighter(Op(m, q[n]), m)
        /\ Op(m, q[n]).order = m.order /\ Op(m, q[n]).active = m.active
        /\ Op(m, q[n]).forgotten = m.forgotten /\ Used(Op(m, q[n])) = Used(m)
        /\ Live(Op(m, q[n])) = Live(m) \ {<<s, q[n]>>}
    BY <2>1, TombstoneSound
  <2> HIDE DEF Op
  <2>3. Op(m, q[n]) \in Below(l)
    BY <2>2, BelowFacts
  <2>4. QED  BY <2>2, <2>3
<1>4. l \in D /\ step \in [D \X (1..N) -> D]
  <2>1. l \in D
    BY BelowFacts
  <2>2. \A z \in D \X (1..N) : Op(z[1], q[z[2]]) \in D
    <3> HIDE DEF D, N, Op, q
    <3>1. QED  BY <1>3
  <2> HIDE DEF D, N, Op, q
  <2>3. QED  BY <2>1, <2>2
<1> HIDE DEF q, N, D, Op
<1>5. Is(F)
  <2>1. PICK f \in [SUBSET (1..N) -> D] : FoldsLeft(f, N, l, step)
    <3> HIDE DEF step
    <3>1. QED  BY <1>1, <1>4, FoldLeftExists
  <2>2. \A t \in SUBSET (1..N) : t # {} => f[t \ {Max(t)}] \in D /\ Max(t) \in 1..N
    BY <1>1, Greatest
  <2>3. Is(f)
    BY <2>1, <2>2 DEF FoldsLeft
  <2> HIDE DEF Is
  <2>4. QED  BY <2>3
<1>6. /\ F[1..0] = l
      /\ \A n \in 0..N : F[1..n] \in D
      /\ \A n \in 1..N : F[1..n] = step[<<F[1..(n - 1)], n>>]
  <2> HIDE DEF F
  <2>1. FoldsIn(F, N, D, l, step)
    <3>1. \A t \in (SUBSET (1..N)) \ {{}} : Max(t) \in 1..N
      BY <1>1, Greatest
    <3>2. QED  BY <1>5, <3>1 DEF FoldsIn
  <2> HIDE DEF step
  <2>2. Walks(F, N, D, l, step)
    BY <1>1, <1>4, <2>1, FoldIn
  <2>3. QED  BY <2>2 DEF Walks
<1> HIDE DEF F
<1> DEFINE C == {n \in 0..N : \A j \in 1..n : <<s, q[j]>> \notin Live(F[1..n])}
<1>7. 0 \in C
  BY <1>1
<1>8. ASSUME NEW n \in 1..N, n - 1 \in C PROVE n \in C
  <2>1. F[1..(n - 1)] \in D
    <3>1. n - 1 \in 0..N
      BY <1>1
    <3>2. QED  BY <1>6, <3>1
  <2>2. F[1..n] = Op(F[1..(n - 1)], q[n])
    BY <1>6, <2>1
  <2>3. Live(F[1..n]) = Live(F[1..(n - 1)]) \ {<<s, q[n]>>}
    BY <1>3, <2>1, <2>2
  <2>4. \A j \in 1..(n - 1) : <<s, q[j]>> \notin Live(F[1..(n - 1)])
    BY <1>8
  <2>5. \A j \in 1..n : <<s, q[j]>> \notin Live(F[1..n])
    BY <1>1, <2>3, <2>4
  <2>6. QED  BY <1>1, <2>5
<1>9. N \in C
  <2> HIDE DEF C
  <2>1. 0..N \subseteq C
    BY <1>1, <1>7, <1>8, UpTo
  <2>2. QED  BY <1>1, <2>1
<1>10. F[1..N] \in D
  BY <1>1, <1>6
<1>11. ASSUME NEW i \in Ids PROVE <<s, i>> \notin Live(F[1..N])
  <2> SUFFICES ASSUME <<s, i>> \in Live(F[1..N]) PROVE FALSE
    OBVIOUS
  <2>1. <<s, i>> \in Live(l)
    BY <1>10 DEF D
  <2>2. l.slot[s][i] # "none"
    BY <2>1, KeysFinite DEF Live
  <2>3. i \in ToSet(q)
    BY <2>2 DEF Sound, WindowsAgree, q
  <2>4. PICK j \in 1..N : q[j] = i
    BY <1>1, <2>3 DEF ToSet
  <2>5. QED  BY <1>9, <2>4
<1>12. QED  BY <1>2, <1>10, <1>11 DEF D, q

\* forget: a scope with nothing open goes with all its ids.
LEMMA ForgetSound ==
  ASSUME NEW l, Sound(l), NEW s \in Scopes, ~Running(l, s)
  PROVE  /\ Forget(l, s) \in Below(l)
         /\ ToSet(Forget(l, s).active) = ToSet(l.active) \ {s}
         /\ ToSet(Forget(l, s).forgotten) \subseteq ToSet(l.forgotten) \cup {s}
<1> DEFINE b == FoldLeft(LAMBDA c, i : Tombstone(c, <<s, i>>), l, l.order[s])
           names == Append(l.forgotten, s)
           excess == IF Len(names) > MaxForgotten THEN Len(names) - MaxForgotten ELSE 0
           m == Forget(l, s)
           gone == {<<s, i>> : i \in ToSet(l.order[s])}
<1>0. \A i \in Ids : <<s, i>> \notin Open(l)
  BY KeysFinite DEF Running, Open
<1>1. /\ b \in Below(l)
      /\ b.order = l.order /\ b.active = l.active /\ b.forgotten = l.forgotten
      /\ Used(b) = Used(l)
      /\ \A i \in Ids : <<s, i>> \notin Live(b)
  <2>1. \A i \in Ids : <<s, i>> \notin Open(l)
    BY <1>0
  <2>2. QED  BY <2>1, BareSound
<1>2. m = [b EXCEPT !.ids = @ - Len(l.order[s]), !.order[s] = <<>>,
                    !.slot[s] = [i \in Ids |-> "none"], !.active = Without(@, {s}),
                    !.forgotten = SubSeq(names, excess + 1, Len(names))]
  BY DEF Forget
<1> HIDE DEF b, m
<1>3. b \in Ledgers /\ Sound(b) /\ Lighter(b, l) /\ l \in Ledgers
  BY <1>1 DEF Below, Sound
<1>4. /\ m.ids = b.ids - Len(l.order[s]) /\ m.order = [l.order EXCEPT ![s] = <<>>]
      /\ m.slot = [b.slot EXCEPT ![s] = [i \in Ids |-> "none"]]
      /\ m.active = Without(l.active, {s})
      /\ m.forgotten = SubSeq(names, excess + 1, Len(names))
      /\ m.size = b.size /\ m.progress = b.progress /\ m.settled = b.settled
      /\ m.live = b.live /\ m.bytes = b.bytes /\ m.runningBytes = b.runningBytes
  <2> HIDE DEF names, excess
  <2>1. QED  BY <1>1, <1>2, <1>3 DEF Ledgers
<1>5. /\ l.active \in Seq(Scopes) /\ m.active \in Seq(Scopes)
      /\ ToSet(m.active) = ToSet(l.active) \ {s}
  <2>1. l.active \in Seq(Scopes)
    BY <1>3 DEF Ledgers
  <2>2. QED  BY <1>4, <2>1, WithoutKeeps
<1>6. /\ m.forgotten \in Seq(Scopes) /\ Len(m.forgotten) <= MaxForgotten
      /\ ToSet(m.forgotten) \subseteq ToSet(l.forgotten) \cup {s}
  <2>1. l.forgotten \in Seq(Scopes) /\ MaxForgotten \in Nat \ {0}
    BY <1>3, LimitsAssumption DEF Ledgers
  <2>2. names \in Seq(Scopes) /\ Len(names) \in Nat /\ excess \in Nat /\ excess <= Len(names)
    BY <2>1
  <2>3. ToSet(names) = ToSet(l.forgotten) \cup {s}
    <3>1. /\ DOMAIN names = 1..(Len(l.forgotten) + 1) /\ Len(l.forgotten) \in Nat
          /\ DOMAIN l.forgotten = 1..Len(l.forgotten)
          /\ \A j \in 1..Len(l.forgotten) : names[j] = l.forgotten[j]
          /\ names[Len(l.forgotten) + 1] = s
      BY <2>1
    <3>2. QED  BY <3>1 DEF ToSet
  <2>4. Len(names) - excess <= MaxForgotten
    BY <2>1, <2>2
  <2> HIDE DEF names, excess
  <2> DEFINE r == SubSeq(names, excess + 1, Len(names))
  <2>5. r \in Seq(Scopes) /\ Len(r) = Len(names) - excess
        /\ \A j \in 1..Len(r) : r[j] = names[j + excess] /\ j + excess \in 1..Len(names)
    BY <2>2
  <2>6. ToSet(r) \subseteq ToSet(names)
    BY <2>2, <2>5 DEF ToSet
  <2>7. QED  BY <1>4, <2>3, <2>4, <2>5, <2>6
<1>7. /\ l.order[s] \in Seq(Ids) /\ NoDup(l.order[s])
      /\ ToSet(l.order[s]) = {i \in Ids : l.slot[s][i] # "none"}
      /\ ToSet(l.order[s]) = {i \in Ids : b.slot[s][i] # "none"}
  <2>1. NoDup(l.order[s]) /\ ToSet(l.order[s]) = {i \in Ids : l.slot[s][i] # "none"}
    BY <1>1 DEF Sound, WindowsAgree
  <2>2. ToSet(b.order[s]) = {i \in Ids : b.slot[s][i] # "none"}
    BY <1>3 DEF Sound, WindowsAgree
  <2>3. QED  BY <1>1, <1>3, <2>1, <2>2 DEF Ledgers
<1>8. \A t \in Scopes, i \in Ids : m.slot[t][i] = IF t = s THEN "none" ELSE b.slot[t][i]
  <2>1. b.slot \in [Scopes -> [Ids -> Slots]]
    BY <1>3 DEF Ledgers
  <2>2. m.slot = [b.slot EXCEPT ![s] = [i \in Ids |-> "none"]]
    BY <1>4
  <2>3. QED  BY <2>1, <2>2
<1>9. Live(m) = Live(b) /\ Used(m) = Used(b) \ gone /\ Open(m) = Open(b)
  <2>1. \A k \in Keys : m.slot[k[1]][k[2]] = IF k[1] = s THEN "none" ELSE b.slot[k[1]][k[2]]
    BY <1>8, KeysFinite
  <2>2. \A k \in Keys : k[1] = s => k \notin Live(b)
    BY <1>1, KeysFinite
  <2>3. \A k \in Keys : k \in gone <=> k[1] = s /\ b.slot[s][k[2]] # "none"
    BY <1>7, KeysFinite
  <2> HIDE DEF gone
  <2>4. QED  BY <1>4, <2>1, <2>2, <2>3, KeysFinite DEF Live, Used, Open
<1>10. /\ gone \subseteq Used(b) /\ Cardinality(gone) = Len(l.order[s])
       /\ m.ids = Cardinality(Used(m)) /\ m.ids \in Nat /\ b.ids \in Nat /\ m.ids <= b.ids
  <2> DEFINE q == [j \in 1..Len(l.order[s]) |-> <<s, l.order[s][j]>>]
  <2>1. /\ Len(l.order[s]) \in Nat /\ DOMAIN l.order[s] = 1..Len(l.order[s])
        /\ \A j \in 1..Len(l.order[s]) : l.order[s][j] \in Ids
    BY <1>7
  <2>2. q \in Seq(Keys) /\ Len(q) = Len(l.order[s]) /\ DOMAIN q = 1..Len(l.order[s])
    BY <2>1 DEF Keys
  <2>3. NoDup(q)
    BY <1>7, <2>1, <2>2 DEF NoDup
  <2>4. ToSet(q) = gone
    BY <2>1, <2>2 DEF ToSet
  <2>5. Cardinality(gone) = Len(l.order[s])
    <3> HIDE DEF gone, q
    <3>1. QED  BY <2>2, <2>3, <2>4, LengthCounts
  <2>6. gone \subseteq Used(b)
    BY <1>7, KeysFinite DEF Used
  <2>7. b.ids = Cardinality(Used(b)) /\ b.ids \in Nat /\ Used(b) \in SUBSET Keys
    BY <1>3 DEF Sound, CountersAgree, Ledgers, Used
  <2> HIDE DEF gone
  <2>8. Cardinality(Used(b) \ gone) = Cardinality(Used(b)) - Cardinality(gone)
    <3>1. IsFiniteSet(Used(b)) /\ Used(b) \cap gone = gone
      BY <2>6, <2>7, KeysFinite
    <3>2. QED  BY <3>1, FS_Difference
  <2>9. Used(b) \ gone \in SUBSET Keys /\ Cardinality(Used(b) \ gone) \in Nat
    BY <2>7, KeysFinite
  <2>10. QED  BY <1>4, <1>9, <2>1, <2>5, <2>6, <2>7, <2>8, <2>9
<1>11. m \in Ledgers
  <2>1. m = [b EXCEPT !.ids = m.ids, !.order = m.order, !.slot = m.slot, !.active = m.active,
                      !.forgotten = m.forgotten]
    <3> HIDE DEF names, excess
    <3>1. QED  BY <1>1, <1>2, <1>3, <1>4 DEF Ledgers
  <2>2. m.order \in [Scopes -> Seq(Ids)] /\ m.slot \in [Scopes -> [Ids -> Slots]]
    BY <1>3, <1>4 DEF Ledgers, Slots
  <2>3. QED  BY <1>3, <1>5, <1>6, <1>10, <2>1, <2>2 DEF Ledgers
<1>12. WindowsAgree(m)
  <2>1. ASSUME NEW t \in Scopes
        PROVE  /\ NoDup(m.order[t]) /\ ToSet(m.order[t]) = {i \in Ids : m.slot[t][i] # "none"}
               /\ t \notin ToSet(m.active) => m.order[t] = <<>>
    <3>1. CASE t = s
      <4>1. m.order[t] = <<>> /\ \A i \in Ids : m.slot[t][i] = "none"
        BY <1>3, <1>4, <1>8, <3>1 DEF Ledgers
      <4>2. NoDup(<<>>) /\ ToSet(<<>>) = {}
        BY DEF NoDup, ToSet
      <4>3. QED  BY <4>1, <4>2
    <3>2. CASE t # s
      <4>1. m.order[t] = b.order[t] /\ \A i \in Ids : m.slot[t][i] = b.slot[t][i]
        BY <1>1, <1>3, <1>4, <1>8, <3>2 DEF Ledgers
      <4>2. /\ NoDup(b.order[t]) /\ ToSet(b.order[t]) = {i \in Ids : b.slot[t][i] # "none"}
            /\ t \notin ToSet(b.active) => b.order[t] = <<>>
        BY <1>3 DEF Sound, WindowsAgree
      <4>3. t \notin ToSet(m.active) => t \notin ToSet(b.active)
        BY <1>1, <1>5, <3>2
      <4>4. QED  BY <4>1, <4>2, <4>3
    <3>3. QED  BY <3>1, <3>2
  <2>2. ToSet(m.active) \cap ToSet(m.forgotten) = {}
    BY <1>5, <1>6 DEF Sound, WindowsAgree
  <2>3. QED  BY <1>6, <2>1, <2>2 DEF WindowsAgree
<1>13. SettledAgree(m) /\ CountersAgree(m)
  BY <1>3, <1>4, <1>9, <1>10 DEF Sound, SettledAgree, CountersAgree
<1>14. Lighter(m, b)
  <2>1. \A t \in ToSet(m.active) : m.order[t] = b.order[t]
    <3>1. ToSet(m.active) \subseteq Scopes
      BY <1>5 DEF ToSet
    <3>2. QED  BY <1>1, <1>3, <1>4, <1>5, <3>1 DEF Ledgers
  <2>2. \A t \in Scopes, i \in Ids : b.slot[t][i] = "none" => m.slot[t][i] = "none"
    BY <1>8
  <2>3. m.live <= b.live /\ m.bytes <= b.bytes
    BY <1>3, <1>4 DEF Ledgers
  <2>4. QED  BY <1>1, <1>4, <1>5, <1>10, <2>1, <2>2, <2>3 DEF Lighter
<1>15. m \in Below(l)
  BY <1>1, <1>11, <1>12, <1>13, <1>14, BelowFacts DEF Sound
<1>16. QED  BY <1>5, <1>6, <1>15 DEF m

\* Results that are not open may be given up, one after another.
LEMMA TombstonesSound ==
  ASSUME NEW l, Sound(l), NEW seq \in Seq(Keys), ToSet(seq) \cap Open(l) = {}
  PROVE  FoldLeft(Tombstone, l, seq) \in Below(l)
<1> DEFINE q == seq
           N == Len(q)
           base == l
           D == Below(l)
           Op(m, x) == Tombstone(m, x)
           Is(f) == f = [t \in SUBSET (1..N) |->
                           IF t = {} THEN base ELSE Op(f[t \ {Max(t)}], q[Max(t)])]
           F == CHOOSE f : Is(f)
           step == [z \in D \X (1..N) |-> Op(z[1], q[z[2]])]
<1>1. N \in Nat /\ DOMAIN q = 1..N /\ \A n \in 1..N : q[n] \in Keys /\ q[n] \notin Open(l)
  BY DEF ToSet
<1>2. FoldLeft(Tombstone, l, q) = F[1..N]
  BY <1>1 DEF FoldLeft, MapThenFoldSet
<1>3. ASSUME NEW m \in D, NEW n \in 1..N PROVE Op(m, q[n]) \in D
  <2>1. q[n] \in Keys /\ q[n] \notin Open(m) /\ Sound(m)
    BY <1>1 DEF Below, Lighter, Open
  <2>2. Sound(Op(m, q[n])) /\ Lighter(Op(m, q[n]), m)
    BY <2>1, TombstoneSound
  <2> HIDE DEF Op
  <2>3. QED  BY <2>2, BelowFacts
<1>4. base \in D /\ step \in [D \X (1..N) -> D]
  <2>1. \A z \in D \X (1..N) : Op(z[1], q[z[2]]) \in D
    <3> HIDE DEF D, N, Op, q
    <3>1. QED  BY <1>3
  <2>2. base \in D
    BY BelowFacts
  <2> HIDE DEF D, N, Op, q, base
  <2>3. QED  BY <2>1, <2>2
<1> HIDE DEF q, N, D, Op, base
<1>5. Is(F)
  <2>1. PICK f \in [SUBSET (1..N) -> D] : FoldsLeft(f, N, base, step)
    <3> HIDE DEF step
    <3>1. QED  BY <1>1, <1>4, FoldLeftExists
  <2>2. \A t \in SUBSET (1..N) : t # {} => f[t \ {Max(t)}] \in D /\ Max(t) \in 1..N
    BY <1>1, Greatest
  <2>3. Is(f)
    BY <2>1, <2>2 DEF FoldsLeft
  <2> HIDE DEF Is
  <2>4. QED  BY <2>3
<1>6. Walks(F, N, D, base, step)
  <2> HIDE DEF F
  <2>1. FoldsIn(F, N, D, base, step)
    <3>1. \A t \in (SUBSET (1..N)) \ {{}} : Max(t) \in 1..N
      BY <1>1, Greatest
    <3>2. QED  BY <1>5, <3>1 DEF FoldsIn
  <2> HIDE DEF step
  <2>2. QED  BY <1>1, <1>4, <2>1, FoldIn
<1>7. F[1..N] \in D
  <2> HIDE DEF F, step
  <2>1. QED  BY <1>1, <1>6 DEF Walks
<1>8. QED  BY <1>2, <1>7 DEF D, q

\* Scopes that may be forgotten are, one after another.
LEMMA ForgetsSound ==
  ASSUME NEW l, Sound(l), NEW seq \in Seq(Scopes)
  PROVE  FoldLeft(LAMBDA m, s : IF Forgettable(m, s) THEN Forget(m, s) ELSE m, l, seq) \in Below(l)
<1> DEFINE q == seq
           N == Len(q)
           base == l
           D == Below(l)
           Op(m, x) == IF Forgettable(m, x) THEN Forget(m, x) ELSE m
           Is(f) == f = [t \in SUBSET (1..N) |->
                           IF t = {} THEN base ELSE Op(f[t \ {Max(t)}], q[Max(t)])]
           F == CHOOSE f : Is(f)
           step == [z \in D \X (1..N) |-> Op(z[1], q[z[2]])]
<1>1. N \in Nat /\ DOMAIN q = 1..N /\ \A n \in 1..N : q[n] \in Scopes
  OBVIOUS
<1>2. FoldLeft(LAMBDA m, s : IF Forgettable(m, s) THEN Forget(m, s) ELSE m, l, q) = F[1..N]
  BY <1>1 DEF FoldLeft, MapThenFoldSet
<1>3. ASSUME NEW m \in D, NEW n \in 1..N PROVE Op(m, q[n]) \in D
  <2>1. CASE Forgettable(m, q[n])
    <3>1. q[n] \in Scopes /\ Sound(m) /\ ~Running(m, q[n])
      BY <1>1, <2>1 DEF Below, Forgettable
    <3>2. Forget(m, q[n]) \in Below(m)
      BY <3>1, ForgetSound
    <3>3. Op(m, q[n]) \in Below(m)
      BY <2>1, <3>2
    <3> HIDE DEF Op
    <3>4. QED  BY <3>3, BelowFacts DEF Below
  <2>2. CASE ~Forgettable(m, q[n])
    BY <2>2
  <2>3. QED  BY <2>1, <2>2
<1>4. base \in D /\ step \in [D \X (1..N) -> D]
  <2>1. \A z \in D \X (1..N) : Op(z[1], q[z[2]]) \in D
    <3> HIDE DEF D, N, Op, q
    <3>1. QED  BY <1>3
  <2>2. base \in D
    BY BelowFacts
  <2> HIDE DEF D, N, Op, q, base
  <2>3. QED  BY <2>1, <2>2
<1> HIDE DEF q, N, D, Op, base
<1>5. Is(F)
  <2>1. PICK f \in [SUBSET (1..N) -> D] : FoldsLeft(f, N, base, step)
    <3> HIDE DEF step
    <3>1. QED  BY <1>1, <1>4, FoldLeftExists
  <2>2. \A t \in SUBSET (1..N) : t # {} => f[t \ {Max(t)}] \in D /\ Max(t) \in 1..N
    BY <1>1, Greatest
  <2>3. Is(f)
    BY <2>1, <2>2 DEF FoldsLeft
  <2> HIDE DEF Is
  <2>4. QED  BY <2>3
<1>6. Walks(F, N, D, base, step)
  <2> HIDE DEF F
  <2>1. FoldsIn(F, N, D, base, step)
    <3>1. \A t \in (SUBSET (1..N)) \ {{}} : Max(t) \in 1..N
      BY <1>1, Greatest
    <3>2. QED  BY <1>5, <3>1 DEF FoldsIn
  <2> HIDE DEF step
  <2>2. QED  BY <1>1, <1>4, <2>1, FoldIn
<1>7. F[1..N] \in D
  <2> HIDE DEF F, step
  <2>1. QED  BY <1>1, <1>6 DEF Walks
<1>8. QED  BY <1>2, <1>7 DEF D, q

\* prune.
LEMMA PruneSound ==
  ASSUME NEW l, Sound(l), NEW m \in Prunings(l)
  PROVE  m \in Below(l)
<1>1. PICK e \in 0..Len(l.settled), d \in 0..Len(l.active) : m = Prune(l, e, d)
  BY DEF Prunings
<1> DEFINE q == SubSeq(l.settled, 1, e)
           r == SubSeq(l.active, 1, d)
           bare == FoldLeft(Tombstone, l, q)
<1>2. /\ l.settled \in Seq(Keys) /\ l.active \in Seq(Scopes)
      /\ ToSet(l.settled) \cap Open(l) = {}
  BY DEF Sound, Ledgers, SettledAgree
<1>3. q \in Seq(Keys) /\ ToSet(q) \subseteq ToSet(l.settled)
  <2>1. q \in Seq(Keys) /\ Len(q) = e /\ \A j \in 1..e : q[j] = l.settled[j] /\ j \in 1..Len(l.settled)
    BY <1>2
  <2>2. QED  BY <1>2, <2>1 DEF ToSet
<1>4. r \in Seq(Scopes)
  BY <1>2
<1>5. bare \in Below(l)
  <2> HIDE DEF q
  <2>1. QED  BY <1>2, <1>3, TombstonesSound
<1> HIDE DEF q, r
<1>6. FoldLeft(LAMBDA c, s : IF Forgettable(c, s) THEN Forget(c, s) ELSE c, bare, r) \in Below(bare)
  <2> HIDE DEF bare
  <2>1. Sound(bare)
    BY <1>5 DEF Below
  <2>2. QED  BY <1>4, <2>1, ForgetsSound
<1>7. m \in Below(bare)
  BY <1>1, <1>6 DEF Prune, q, r
<1> HIDE DEF bare
<1>8. QED  BY <1>5, <1>7, BelowFacts DEF Below

\* forgetIdle: s itself is not forgotten.
LEMMA ForgetIdleSound ==
  ASSUME NEW l, Sound(l), NEW s \in Scopes
  PROVE  /\ ForgetIdle(l, s) \in Below(l)
         /\ s \in ToSet(ForgetIdle(l, s).active) <=> s \in ToSet(l.active)
         /\ s \in ToSet(ForgetIdle(l, s).forgotten) => s \in ToSet(l.forgotten)
<1> DEFINE q == l.active
           N == Len(q)
           base == l
           D == {m \in Below(l) : /\ s \in ToSet(m.active) <=> s \in ToSet(l.active)
                                  /\ s \in ToSet(m.forgotten) => s \in ToSet(l.forgotten)}
           Op(m, x) == IF m.ids >= MaxIds /\ x # s /\ Forgettable(m, x)
                       THEN Forget(m, x) ELSE m
           Is(f) == f = [t \in SUBSET (1..N) |->
                           IF t = {} THEN base ELSE Op(f[t \ {Max(t)}], q[Max(t)])]
           F == CHOOSE f : Is(f)
           step == [z \in D \X (1..N) |-> Op(z[1], q[z[2]])]
<1>1. N \in Nat /\ DOMAIN q = 1..N /\ \A n \in 1..N : q[n] \in Scopes
  BY DEF Sound, Ledgers
<1>2. ForgetIdle(l, s) = F[1..N]
  BY <1>1 DEF ForgetIdle, FoldLeft, MapThenFoldSet
<1>3. ASSUME NEW m \in D, NEW n \in 1..N PROVE Op(m, q[n]) \in D
  <2>1. CASE m.ids >= MaxIds /\ q[n] # s /\ Forgettable(m, q[n])
    <3>1. q[n] \in Scopes /\ Sound(m) /\ ~Running(m, q[n])
      BY <1>1, <2>1 DEF Below, Forgettable
    <3>2. /\ Forget(m, q[n]) \in Below(m)
          /\ ToSet(Forget(m, q[n]).active) = ToSet(m.active) \ {q[n]}
          /\ ToSet(Forget(m, q[n]).forgotten) \subseteq ToSet(m.forgotten) \cup {q[n]}
      BY <3>1, ForgetSound
    <3>3. Op(m, q[n]) = Forget(m, q[n])
      BY <2>1
    <3> HIDE DEF Op
    <3>4. Op(m, q[n]) \in Below(l)
      BY <3>2, <3>3, BelowFacts DEF Below
    <3>5. QED  BY <2>1, <3>2, <3>3, <3>4
  <2>2. CASE ~(m.ids >= MaxIds /\ q[n] # s /\ Forgettable(m, q[n]))
    BY <2>2
  <2>3. QED  BY <2>1, <2>2
<1>4. base \in D /\ step \in [D \X (1..N) -> D]
  <2>1. \A z \in D \X (1..N) : Op(z[1], q[z[2]]) \in D
    <3> HIDE DEF D, N, Op, q
    <3>1. QED  BY <1>3
  <2>2. base \in D
    BY BelowFacts
  <2> HIDE DEF D, N, Op, q, base
  <2>3. QED  BY <2>1, <2>2
<1> HIDE DEF q, N, D, Op, base
<1>5. Is(F)
  <2>1. PICK f \in [SUBSET (1..N) -> D] : FoldsLeft(f, N, base, step)
    <3> HIDE DEF step
    <3>1. QED  BY <1>1, <1>4, FoldLeftExists
  <2>2. \A t \in SUBSET (1..N) : t # {} => f[t \ {Max(t)}] \in D /\ Max(t) \in 1..N
    BY <1>1, Greatest
  <2>3. Is(f)
    BY <2>1, <2>2 DEF FoldsLeft
  <2> HIDE DEF Is
  <2>4. QED  BY <2>3
<1>6. Walks(F, N, D, base, step)
  <2> HIDE DEF F
  <2>1. FoldsIn(F, N, D, base, step)
    <3>1. \A t \in (SUBSET (1..N)) \ {{}} : Max(t) \in 1..N
      BY <1>1, Greatest
    <3>2. QED  BY <1>5, <3>1 DEF FoldsIn
  <2> HIDE DEF step
  <2>2. QED  BY <1>1, <1>4, <2>1, FoldIn
<1>7. F[1..N] \in D
  <2> HIDE DEF F, step
  <2>1. QED  BY <1>1, <1>6 DEF Walks
<1>8. QED  BY <1>2, <1>7 DEF D

\* reserve: results go until the bytes and the entries fit, or none is left.
LEMMA ReserveSound ==
  ASSUME NEW l, Sound(l), NEW entries \in Nat, NEW bytes \in Nat
  PROVE  LET m == Reserve(l, entries, bytes) IN
         /\ m \in Below(l)
         /\ m.order = l.order /\ m.active = l.active /\ m.forgotten = l.forgotten
         /\ Fits(m, entries, bytes) \/ m.settled = <<>>
<1> DEFINE q == l.settled
           N == Len(q)
           base == l
           D == {m \in Below(l) : /\ m.order = l.order /\ m.active = l.active
                                  /\ m.forgotten = l.forgotten /\ Live(m) \subseteq Live(l)}
           Op(m, x) == IF Fits(m, entries, bytes) THEN m ELSE Tombstone(m, x)
           Is(f) == f = [t \in SUBSET (1..N) |->
                           IF t = {} THEN base ELSE Op(f[t \ {Max(t)}], q[Max(t)])]
           F == CHOOSE f : Is(f)
           step == [z \in D \X (1..N) |-> Op(z[1], q[z[2]])]
<1>1. /\ N \in Nat /\ DOMAIN q = 1..N
      /\ \A n \in 1..N : q[n] \in Keys /\ q[n] \notin Open(l)
      /\ ToSet(q) = Live(l) \ Open(l)
  <2>1. q \in Seq(Keys) /\ ToSet(q) = Live(l) \ Open(l)
    BY DEF Sound, Ledgers, SettledAgree
  <2>2. \A n \in 1..N : q[n] \in ToSet(q)
    BY <2>1 DEF ToSet
  <2> HIDE DEF q
  <2>3. QED  BY <2>1, <2>2
<1>2. Reserve(l, entries, bytes) = F[1..N]
  BY <1>1 DEF Reserve, FoldLeft, MapThenFoldSet
<1>3. ASSUME NEW m \in D, NEW n \in 1..N
      PROVE  /\ Op(m, q[n]) \in D
             /\ Fits(m, entries, bytes) => Op(m, q[n]) = m
             /\ ~Fits(m, entries, bytes) => Live(Op(m, q[n])) = Live(m) \ {q[n]}
  <2>1. CASE Fits(m, entries, bytes)
    BY <2>1
  <2>2. CASE ~Fits(m, entries, bytes)
    <3>1. q[n] \in Keys /\ q[n] \notin Open(m) /\ Sound(m)
      BY <1>1 DEF Below, Lighter, Open
    <3>2. /\ Sound(Tombstone(m, q[n])) /\ Lighter(Tombstone(m, q[n]), m)
          /\ Tombstone(m, q[n]).order = m.order /\ Tombstone(m, q[n]).active = m.active
          /\ Tombstone(m, q[n]).forgotten = m.forgotten
          /\ Live(Tombstone(m, q[n])) = Live(m) \ {q[n]}
      <4> HIDE DEF q, N, D, Op
      <4>1. QED  BY <3>1, TombstoneSound
    <3>3. Op(m, q[n]) = Tombstone(m, q[n])
      BY <2>2
    <3> HIDE DEF Op
    <3>4. Op(m, q[n]) \in Below(l)
      BY <3>2, <3>3, BelowFacts
    <3>5. QED  BY <2>2, <3>2, <3>3, <3>4
  <2>3. QED  BY <2>1, <2>2
<1>4. base \in D /\ step \in [D \X (1..N) -> D]
  <2>1. \A z \in D \X (1..N) : Op(z[1], q[z[2]]) \in D
    <3> HIDE DEF D, N, Op, q
    <3>1. QED  BY <1>3
  <2>2. base \in D
    BY BelowFacts
  <2> HIDE DEF D, N, Op, q, base
  <2>3. QED  BY <2>1, <2>2
<1> HIDE DEF q, N, D, Op, base
<1>5. Is(F)
  <2>1. PICK f \in [SUBSET (1..N) -> D] : FoldsLeft(f, N, base, step)
    <3> HIDE DEF step
    <3>1. QED  BY <1>1, <1>4, FoldLeftExists
  <2>2. \A t \in SUBSET (1..N) : t # {} => f[t \ {Max(t)}] \in D /\ Max(t) \in 1..N
    BY <1>1, Greatest
  <2>3. Is(f)
    BY <2>1, <2>2 DEF FoldsLeft
  <2> HIDE DEF Is
  <2>4. QED  BY <2>3
<1>6. Walks(F, N, D, base, step)
  <2> HIDE DEF F
  <2>1. FoldsIn(F, N, D, base, step)
    <3>1. \A t \in (SUBSET (1..N)) \ {{}} : Max(t) \in 1..N
      BY <1>1, Greatest
    <3>2. QED  BY <1>5, <3>1 DEF FoldsIn
  <2> HIDE DEF step
  <2>2. QED  BY <1>1, <1>4, <2>1, FoldIn
<1>7. F[1..N] \in D
  <2> HIDE DEF F, step
  <2>1. QED  BY <1>1, <1>6 DEF Walks
<1> HIDE DEF F
<1> DEFINE C == {n \in 0..N : \/ Fits(F[1..n], entries, bytes)
                           \/ \A j \in 1..n : q[j] \notin Live(F[1..n])}
<1>8. 0 \in C
  BY <1>1
<1>9. ASSUME NEW n \in 1..N, n - 1 \in C PROVE n \in C
  <2>1. F[1..(n - 1)] \in D
    <3>1. n - 1 \in 0..N
      BY <1>1
    <3>2. QED  BY <1>6, <3>1 DEF Walks
  <2>2. F[1..n] = Op(F[1..(n - 1)], q[n])
    BY <1>6, <2>1 DEF Walks, step
  <2>3. CASE Fits(F[1..(n - 1)], entries, bytes)
    <3>1. F[1..n] = F[1..(n - 1)]
      BY <1>3, <2>1, <2>2, <2>3
    <3>2. QED  BY <1>1, <2>3, <3>1
  <2>4. CASE ~Fits(F[1..(n - 1)], entries, bytes)
    <3>1. Live(F[1..n]) = Live(F[1..(n - 1)]) \ {q[n]}
      BY <1>3, <2>1, <2>2, <2>4
    <3>2. \A j \in 1..(n - 1) : q[j] \notin Live(F[1..(n - 1)])
      BY <1>9, <2>4
    <3>3. \A j \in 1..n : q[j] \notin Live(F[1..n])
      BY <1>1, <3>1, <3>2
    <3>4. QED  BY <1>1, <3>3
  <2>5. QED  BY <2>3, <2>4
<1>10. N \in C
  <2> HIDE DEF C
  <2>1. 0..N \subseteq C
    BY <1>1, <1>8, <1>9, UpTo
  <2>2. QED  BY <1>1, <2>1
<1>11. ASSUME ~Fits(F[1..N], entries, bytes) PROVE F[1..N].settled = <<>>
  <2>1. /\ F[1..N].settled \in Seq(Keys) /\ Open(F[1..N]) = Open(l)
        /\ ToSet(F[1..N].settled) = Live(F[1..N]) \ Open(F[1..N])
        /\ Live(F[1..N]) \subseteq Live(l)
    BY <1>7 DEF D, Below, Sound, SettledAgree, Ledgers, Lighter, Open
  <2>2. \A j \in 1..N : q[j] \notin Live(F[1..N])
    BY <1>10, <1>11
  <2>3. ToSet(F[1..N].settled) = {}
    <3> SUFFICES ASSUME NEW k \in ToSet(F[1..N].settled) PROVE FALSE
      OBVIOUS
    <3>1. k \in ToSet(q)
      BY <1>1, <2>1
    <3>2. PICK j \in 1..N : q[j] = k
      BY <1>1, <3>1 DEF ToSet
    <3>3. QED  BY <2>1, <2>2, <3>2
  <2>4. Len(F[1..N].settled) = 0
    <3>1. Len(F[1..N].settled) \in Nat /\ DOMAIN F[1..N].settled = 1..Len(F[1..N].settled)
      BY <2>1
    <3>2. ~(1 \in 1..Len(F[1..N].settled))
      BY <2>3, <3>1 DEF ToSet
    <3>3. QED  BY <3>1, <3>2
  <2>5. QED  BY <2>1, <2>4
<1>12. QED  BY <1>2, <1>7, <1>11 DEF D

\* What has not settled is what is open; without results to give up, only it counts.
LEMMA OpenCounts ==
  ASSUME NEW l, Sound(l)
  PROVE  /\ Unsettleds(l) = Cardinality(Open(l)) /\ Cardinality(Open(l)) \in Nat
         /\ l.settled = <<>> => l.live = Cardinality(Open(l)) /\ l.bytes = l.runningBytes
<1>1. /\ l \in Ledgers /\ l.settled \in Seq(Keys) /\ NoDup(l.settled) /\ l.live \in Nat
      /\ ToSet(l.settled) = Live(l) \ Open(l) /\ Open(l) \subseteq Live(l)
      /\ l.live = Cardinality(Live(l)) /\ l.bytes = Total(l.size, Keys)
      /\ l.runningBytes = Total(l.size, Open(l)) /\ l.size \in [Keys -> Nat]
      /\ \A k \in Keys : k \notin Live(l) => l.size[k] = 0
  BY DEF Sound, SettledAgree, CountersAgree, Ledgers
<1>2. Live(l) \in SUBSET Keys /\ Open(l) \in SUBSET Keys
  BY DEF Live, Open
<1>3. Cardinality(ToSet(l.settled)) = Len(l.settled) /\ Len(l.settled) \in Nat
  <2>1. l.settled \in Seq(Keys) /\ NoDup(l.settled) /\ Len(l.settled) \in Nat
    BY <1>1
  <2>2. QED  BY <2>1, LengthCounts
<1>4. Cardinality(Live(l) \ Open(l)) = Cardinality(Live(l)) - Cardinality(Open(l))
  <2>1. IsFiniteSet(Live(l)) /\ Live(l) \cap Open(l) = Open(l)
    BY <1>1, <1>2, KeysFinite
  <2>2. QED  BY <2>1, FS_Difference
<1>5. Cardinality(Open(l)) \in Nat
  BY <1>2, KeysFinite
<1>6. ASSUME l.settled = <<>> PROVE l.bytes = l.runningBytes /\ Len(l.settled) = 0
  <2>1. ToSet(l.settled) = {} /\ Len(l.settled) = 0
    BY <1>6 DEF ToSet
  <2>2. \A k \in Keys \ Open(l) : l.size[k] = 0
    BY <1>1, <2>1
  <2>3. Total(l.size, Keys) = Total(l.size, Open(l))
    BY <1>1, <1>2, <2>2, KeysFinite, TotalWithout
  <2>4. QED  BY <1>1, <2>1, <2>3
<1>7. QED  BY <1>1, <1>3, <1>4, <1>5, <1>6 DEF Unsettleds

\* p ends with the last n elements of q, and is q if q has no more of them.
EndsLike(p, q, n) ==
  /\ \A j \in 0..n : j < n /\ j < Len(q) => j < Len(p) /\ p[Len(p) - j] = q[Len(q) - j]
  /\ Len(q) <= n => p = q

\* m is l without some old ids of s.
Trimmed(m, l, s, n) ==
  /\ m.progress = l.progress /\ m.settled = l.settled /\ m.size = l.size
  /\ m.active = l.active /\ m.forgotten = l.forgotten
  /\ m.live = l.live /\ m.bytes = l.bytes /\ m.runningBytes = l.runningBytes
  /\ \A t \in Scopes \ {s} : m.order[t] = l.order[t]
  /\ EndsLike(m.order[s], l.order[s], n)
  /\ \A t \in Scopes, i \in Ids : l.slot[t][i] = "none" => m.slot[t][i] = "none"
  /\ m.ids <= l.ids /\ (m.ids = l.ids => m = l)

\* A sequence in two parts.
LEMMA TwoParts ==
  ASSUME NEW E, NEW a \in Seq(E), NEW b \in Seq(E)
  PROVE  LET q == a \o b IN
         /\ q \in Seq(E) /\ Len(q) = Len(a) + Len(b) /\ ToSet(q) = ToSet(a) \cup ToSet(b)
         /\ \A j \in 1..Len(a) : q[j] = a[j]
         /\ \A j \in 1..Len(b) : q[Len(a) + j] = b[j]
         /\ NoDup(q) <=> NoDup(a) /\ NoDup(b) /\ ToSet(a) \cap ToSet(b) = {}
<1> DEFINE q == a \o b
<1>1. /\ q \in Seq(E) /\ Len(q) = Len(a) + Len(b) /\ Len(a) \in Nat /\ Len(b) \in Nat
      /\ \A j \in 1..Len(a) : q[j] = a[j]
      /\ \A j \in 1..Len(b) : q[Len(a) + j] = b[j]
  OBVIOUS
<1> HIDE DEF q
<1>2. DOMAIN q = 1..(Len(a) + Len(b)) /\ DOMAIN a = 1..Len(a) /\ DOMAIN b = 1..Len(b)
  BY <1>1
<1>3. /\ \A j \in 1..(Len(a) + Len(b)) :
           \/ j \in 1..Len(a) /\ q[j] = a[j]
           \/ j - Len(a) \in 1..Len(b) /\ q[j] = b[j - Len(a)]
      /\ \A j \in 1..Len(a) : j \in 1..(Len(a) + Len(b))
      /\ \A j \in 1..Len(b) : Len(a) + j \in 1..(Len(a) + Len(b))
  <2>1. ASSUME NEW j \in 1..(Len(a) + Len(b)), j > Len(a)
        PROVE  j - Len(a) \in 1..Len(b) /\ q[j] = b[j - Len(a)]
    <3>1. j - Len(a) \in 1..Len(b) /\ j = Len(a) + (j - Len(a))
      BY <1>1, <2>1
    <3>2. QED  BY <1>1, <3>1
  <2>2. QED  BY <1>1, <2>1
<1>4. ToSet(q) = ToSet(a) \cup ToSet(b)
  <2>1. /\ ToSet(q) = {q[j] : j \in 1..(Len(a) + Len(b))}
        /\ ToSet(a) = {a[j] : j \in 1..Len(a)} /\ ToSet(b) = {b[j] : j \in 1..Len(b)}
    BY <1>2 DEF ToSet
  <2>2. ToSet(q) \subseteq ToSet(a) \cup ToSet(b)
    BY <1>3, <2>1
  <2>3. ToSet(a) \subseteq ToSet(q)
    BY <1>1, <1>3, <2>1
  <2>4. ToSet(b) \subseteq ToSet(q)
    BY <1>1, <1>3, <2>1
  <2>5. QED  BY <2>2, <2>3, <2>4
<1>5. ASSUME NoDup(q) PROVE NoDup(a) /\ NoDup(b) /\ ToSet(a) \cap ToSet(b) = {}
  <2>1. NoDup(a)
    BY <1>1, <1>3, <1>5 DEF NoDup
  <2>2. ASSUME NEW j \in 1..Len(b), NEW k \in 1..Len(b), b[j] = b[k] PROVE j = k
    <3>1. q[Len(a) + j] = q[Len(a) + k] /\ Len(a) + j \in 1..Len(q) /\ Len(a) + k \in 1..Len(q)
      BY <1>1, <1>3, <2>2
    <3>2. Len(a) + j = Len(a) + k
      BY <1>5, <3>1 DEF NoDup
    <3>3. QED  BY <1>1, <3>2
  <2>3. ASSUME NEW j \in 1..Len(a), NEW k \in 1..Len(b) PROVE a[j] # b[k]
    <3>1. /\ q[j] = a[j] /\ q[Len(a) + k] = b[k] /\ j # Len(a) + k
          /\ j \in 1..Len(q) /\ Len(a) + k \in 1..Len(q)
      BY <1>1, <1>3
    <3>2. QED  BY <1>5, <3>1 DEF NoDup
  <2>4. QED  BY <1>2, <2>1, <2>2, <2>3 DEF NoDup, ToSet
<1>6. ASSUME NoDup(a), NoDup(b), ToSet(a) \cap ToSet(b) = {} PROVE NoDup(q)
  <2> SUFFICES ASSUME NEW j \in 1..Len(q), NEW k \in 1..Len(q), q[j] = q[k] PROVE j = k
    BY DEF NoDup
  <2>1. \A x \in 1..Len(a) : \A y \in 1..Len(b) : a[x] # b[y]
    BY <1>2, <1>6 DEF ToSet
  <2>2. j \in 1..(Len(a) + Len(b)) /\ k \in 1..(Len(a) + Len(b))
    BY <1>1
  <2>3. CASE j - Len(a) \in 1..Len(b) /\ q[j] = b[j - Len(a)] /\ k - Len(a) \in 1..Len(b) /\ q[k] = b[k - Len(a)]
    <3>1. j - Len(a) = k - Len(a)
      BY <1>6, <2>3 DEF NoDup
    <3>2. QED  BY <1>1, <2>2, <3>1
  <2>4. CASE j \in 1..Len(a) /\ q[j] = a[j] /\ k \in 1..Len(a) /\ q[k] = a[k]
    BY <1>6, <2>4 DEF NoDup
  <2>5. QED  BY <1>3, <2>1, <2>2, <2>3, <2>4
<1>7. QED  BY <1>1, <1>4, <1>5, <1>6 DEF q

\* The part of a sequence that is trimmed loses some elements, the rest stays.
LEMMA EndsLikeCut ==
  ASSUME NEW E, NEW a \in Seq(E), NEW b \in Seq(E), NEW w \in Seq(E), NEW n \in Nat,
         Len(a) = 0 \/ Len(b) = n, Len(a) = 0 => w = a
  PROVE  EndsLike(w \o b, a \o b, n)
<1> DEFINE q == a \o b
           p == w \o b
<1>1. /\ q \in Seq(E) /\ Len(q) = Len(a) + Len(b) /\ Len(a) \in Nat /\ Len(b) \in Nat
      /\ \A j \in 1..Len(b) : q[Len(a) + j] = b[j]
  BY TwoParts
<1>2. /\ p \in Seq(E) /\ Len(p) = Len(w) + Len(b) /\ Len(w) \in Nat
      /\ \A j \in 1..Len(b) : p[Len(w) + j] = b[j]
  BY TwoParts
<1>3. ASSUME Len(a) = 0 PROVE p = q
  BY <1>3
<1> HIDE DEF p, q
<1>4. ASSUME NEW j \in 0..n, j < n, j < Len(q) PROVE j < Len(p) /\ p[Len(p) - j] = q[Len(q) - j]
  <2>1. CASE Len(a) = 0
    BY <1>3, <1>4, <2>1
  <2>2. CASE Len(b) = n
    <3>1. /\ Len(b) - j \in 1..Len(b) /\ Len(p) - j = Len(w) + (Len(b) - j)
          /\ Len(q) - j = Len(a) + (Len(b) - j) /\ j < Len(p)
      BY <1>1, <1>2, <1>4, <2>2
    <3>2. QED  BY <1>1, <1>2, <3>1
  <2>3. QED  BY <2>1, <2>2
<1>5. ASSUME Len(q) <= n PROVE p = q
  <2>1. Len(a) = 0
    BY <1>1, <1>5
  <2>2. QED  BY <1>3, <2>1
<1>6. QED  BY <1>4, <1>5 DEF EndsLike, p, q

\* Ledgers with the same fields are the same.
LEMMA SameLedger ==
  ASSUME NEW l \in Ledgers, NEW m \in Ledgers,
         m.order = l.order, m.slot = l.slot, m.size = l.size, m.progress = l.progress,
         m.settled = l.settled, m.active = l.active, m.forgotten = l.forgotten,
         m.live = l.live, m.ids = l.ids, m.bytes = l.bytes, m.runningBytes = l.runningBytes
  PROVE  m = l
<1>1. l = [order |-> l.order, slot |-> l.slot, size |-> l.size, progress |-> l.progress,
           settled |-> l.settled, active |-> l.active, forgotten |-> l.forgotten,
           live |-> l.live, ids |-> l.ids, bytes |-> l.bytes, runningBytes |-> l.runningBytes]
  BY DEF Ledgers
<1>2. m = [order |-> m.order, slot |-> m.slot, size |-> m.size, progress |-> m.progress,
           settled |-> m.settled, active |-> m.active, forgotten |-> m.forgotten,
           live |-> m.live, ids |-> m.ids, bytes |-> m.bytes, runningBytes |-> m.runningBytes]
  BY DEF Ledgers
<1>3. QED  BY <1>1, <1>2

\* trim: only old ids of s go, and their slots and the counter with them.
LEMMA TrimSound ==
  ASSUME NEW l, Sound(l), NEW s \in Scopes, NEW n \in Nat
  PROVE  Sound(Trim(l, s, n)) /\ Trimmed(Trim(l, s, n), l, s, n)
<1> DEFINE q == l.order[s]
           excess == IF Len(q) > n THEN Len(q) - n ELSE 0
           a == SubSeq(q, 1, excess)
           r == SubSeq(q, excess + 1, Len(q))
           gone == {i \in ToSet(a) : l.slot[s][i] = "tombstone"}
           w == Without(a, gone)
           pairs == {s} \X gone
           m == Trim(l, s, n)
<1>1. m = [l EXCEPT !.order[s] = w \o r,
                    !.slot[s] = [i \in Ids |-> IF i \in gone THEN "none" ELSE @[i]],
                    !.ids = @ - Cardinality(gone)]
  BY DEF Trim
<1>2. l \in Ledgers /\ q \in Seq(Ids) /\ l.order \in [Scopes -> Seq(Ids)]
  BY DEF Sound, Ledgers
<1>3. NoDup(q) /\ ToSet(q) = {i \in Ids : l.slot[s][i] # "none"}
  BY DEF Sound, WindowsAgree
<1> HIDE DEF q
<1>4. /\ a \in Seq(Ids) /\ r \in Seq(Ids) /\ q = a \o r
      /\ Len(a) = 0 \/ Len(r) = n
  <2>1. Len(q) \in Nat /\ excess \in Nat /\ excess <= Len(q) /\ (excess = 0 \/ Len(q) - excess = n)
    BY <1>2
  <2> HIDE DEF excess
  <2>2. a \in Seq(Ids) /\ r \in Seq(Ids) /\ Len(a) = excess /\ Len(r) = Len(q) - excess
    BY <1>2, <2>1
  <2>3. q = a \o r
    <3>1. \A j \in 1..excess : a[j] = q[j]
      BY <1>2, <2>1
    <3>2. \A j \in 1..(Len(q) - excess) : r[j] = q[excess + j]
      BY <1>2, <2>1
    <3> HIDE DEF a, r
    <3>3. /\ a \o r \in Seq(Ids) /\ Len(a \o r) = Len(q)
          /\ \A j \in 1..Len(a) : (a \o r)[j] = a[j]
          /\ \A j \in 1..Len(r) : (a \o r)[Len(a) + j] = r[j]
      <4>1. a \in Seq(Ids) /\ r \in Seq(Ids)
        BY <2>2
      <4>2. /\ a \o r \in Seq(Ids) /\ Len(a \o r) = Len(a) + Len(r)
            /\ \A j \in 1..Len(a) : (a \o r)[j] = a[j]
            /\ \A j \in 1..Len(r) : (a \o r)[Len(a) + j] = r[j]
        BY <4>1, TwoParts
      <4>3. QED  BY <2>1, <2>2, <4>2
    <3> DEFINE z == a \o r
    <3> HIDE DEF z
    <3>4. ASSUME NEW j \in 1..Len(q) PROVE z[j] = q[j]
      <4>1. CASE j <= excess
        BY <2>1, <2>2, <3>1, <3>3, <4>1 DEF z
      <4>2. CASE j > excess
        <5>1. j - excess \in 1..(Len(q) - excess) /\ j = excess + (j - excess)
          BY <2>1, <4>2
        <5>2. QED  BY <2>2, <3>2, <3>3, <5>1 DEF z
      <4>3. QED  BY <2>1, <4>1, <4>2
    <3>5. z \in Seq(Ids) /\ Len(z) = Len(q)
      BY <3>3 DEF z
    <3>6. z = q
      BY <1>2, <3>4, <3>5
    <3>7. QED  BY <3>6 DEF z
  <2>4. QED  BY <2>1, <2>2, <2>3
<1> HIDE DEF a, r, excess
<1>5. /\ w \in Seq(Ids) /\ ToSet(w) = ToSet(a) \ gone /\ (NoDup(a) => NoDup(w))
      /\ gone = {} => w = a
  <2> HIDE DEF gone
  <2>1. ToSet(a) \cap {} = {}
    OBVIOUS
  <2>2. QED  BY <1>4, <2>1, WithoutKeeps
<1>6. Len(a) = 0 => gone = {}
  BY <1>4 DEF ToSet
<1>7. /\ gone \subseteq ToSet(a) /\ gone \subseteq Ids
      /\ \A i \in gone : l.slot[s][i] = "tombstone"
  BY <1>4 DEF ToSet
<1>8. /\ w \o r \in Seq(Ids) /\ NoDup(w \o r) /\ ToSet(w \o r) = ToSet(q) \ gone
      /\ gone = {} => w \o r = q
  <2>1. /\ NoDup(a) /\ NoDup(r) /\ ToSet(a) \cap ToSet(r) = {} /\ ToSet(q) = ToSet(a) \cup ToSet(r)
    <3> HIDE DEF w, gone
    <3>1. NoDup(a \o r)
      BY <1>3, <1>4
    <3>2. QED  BY <1>4, <3>1, TwoParts
  <2> HIDE DEF w, gone
  <2>2. /\ w \o r \in Seq(Ids) /\ ToSet(w \o r) = ToSet(w) \cup ToSet(r)
        /\ NoDup(w \o r) <=> NoDup(w) /\ NoDup(r) /\ ToSet(w) \cap ToSet(r) = {}
    BY <1>4, <1>5, TwoParts
  <2>3. QED  BY <1>4, <1>5, <1>7, <2>1, <2>2
<1>9. EndsLike(w \o r, q, n)
  <2> HIDE DEF w, gone
  <2>1. EndsLike(w \o r, a \o r, n)
    BY <1>4, <1>5, <1>6, EndsLikeCut
  <2>2. QED  BY <1>4, <2>1
<1>10. /\ IsFiniteSet(gone) /\ Cardinality(gone) \in Nat /\ (Cardinality(gone) = 0 <=> gone = {})
       /\ Cardinality(pairs) = Cardinality(gone)
  <2>1. IsFiniteSet(gone)
    BY <1>7, LimitsAssumption, FS_Subset
  <2> HIDE DEF gone
  <2>2. Cardinality(gone) \in Nat /\ (Cardinality(gone) = 0 <=> gone = {})
    BY <2>1, FS_CardinalityType, FS_EmptySet
  <2>3. IsFiniteSet({s}) /\ Cardinality({s}) = 1
    BY FS_Singleton
  <2>4. Cardinality(pairs) = 1 * Cardinality(gone)
    BY <2>1, <2>3, FS_Product
  <2>5. QED  BY <2>1, <2>2, <2>4
<1> DEFINE slots == [i \in Ids |-> IF i \in gone THEN "none" ELSE l.slot[s][i]]
<1>11. /\ m.order = [l.order EXCEPT ![s] = w \o r] /\ m.slot = [l.slot EXCEPT ![s] = slots]
       /\ m.ids = l.ids - Cardinality(gone)
       /\ m.progress = l.progress /\ m.settled = l.settled /\ m.size = l.size
       /\ m.active = l.active /\ m.forgotten = l.forgotten
       /\ m.live = l.live /\ m.bytes = l.bytes /\ m.runningBytes = l.runningBytes
       /\ m = [l EXCEPT !.order = m.order, !.slot = m.slot, !.ids = m.ids]
  <2> HIDE DEF w, r, gone, m
  <2>1. QED  BY <1>1, <1>2 DEF Ledgers
<1> HIDE DEF m, pairs, slots, w
<1>12. /\ \A t \in Scopes, i \in Ids :
            m.slot[t][i] = IF t = s /\ i \in gone THEN "none" ELSE l.slot[t][i]
       /\ m.slot \in [Scopes -> [Ids -> Slots]]
  <2>1. l.slot \in [Scopes -> [Ids -> Slots]]
    BY <1>2 DEF Ledgers
  <2>2. slots \in [Ids -> Slots] /\ \A i \in Ids : slots[i] = IF i \in gone THEN "none" ELSE l.slot[s][i]
    BY <2>1 DEF slots, Slots
  <2>3. QED  BY <1>11, <2>1, <2>2
<1>13. Live(m) = Live(l) /\ Used(m) = Used(l) \ pairs /\ Open(m) = Open(l) /\ pairs \subseteq Used(l)
  <2>1. \A k \in Keys : m.slot[k[1]][k[2]] = IF k[1] = s /\ k[2] \in gone THEN "none" ELSE l.slot[k[1]][k[2]]
    BY <1>12, KeysFinite
  <2>2. \A k \in Keys : k \in pairs <=> k[1] = s /\ k[2] \in gone
    BY KeysFinite DEF pairs
  <2>3. \A k \in Keys : k[1] = s /\ k[2] \in gone => l.slot[k[1]][k[2]] = "tombstone"
    BY <1>7
  <2>4. pairs \subseteq Keys
    BY <1>7, KeysFinite DEF pairs, Keys
  <2> HIDE DEF gone
  <2>5. QED  BY <1>11, <2>1, <2>2, <2>3, <2>4 DEF Live, Used, Open
<1> HIDE DEF gone
<1>14. m.ids = Cardinality(Used(m)) /\ m.ids \in Nat /\ m.ids <= l.ids /\ l.ids \in Nat
  <2>1. l.ids = Cardinality(Used(l)) /\ l.ids \in Nat /\ Used(l) \in SUBSET Keys
    BY DEF Sound, CountersAgree, Ledgers, Used
  <2>2. Cardinality(Used(l) \ pairs) = Cardinality(Used(l)) - Cardinality(pairs)
    <3>1. IsFiniteSet(Used(l)) /\ Used(l) \cap pairs = pairs
      BY <1>13, <2>1, KeysFinite
    <3>2. QED  BY <3>1, FS_Difference
  <2>3. Used(l) \ pairs \in SUBSET Keys /\ Cardinality(Used(l) \ pairs) \in Nat
    BY <2>1, KeysFinite
  <2>4. QED  BY <1>10, <1>11, <1>13, <2>1, <2>2, <2>3
<1>15. m \in Ledgers
  <2>1. m.order \in [Scopes -> Seq(Ids)]
    BY <1>2, <1>8, <1>11
  <2>2. QED  BY <1>2, <1>11, <1>12, <1>14, <2>1 DEF Ledgers
<1>16. WindowsAgree(m)
  <2>1. ASSUME NEW t \in Scopes
        PROVE  /\ NoDup(m.order[t]) /\ ToSet(m.order[t]) = {i \in Ids : m.slot[t][i] # "none"}
               /\ t \notin ToSet(m.active) => m.order[t] = <<>>
    <3>1. CASE t = s
      <4>1. m.order[t] = w \o r /\ \A i \in Ids : m.slot[t][i] = IF i \in gone THEN "none" ELSE l.slot[s][i]
        BY <1>2, <1>11, <1>12, <3>1
      <4>2. ToSet(m.order[t]) = {i \in Ids : m.slot[t][i] # "none"}
        BY <1>3, <1>8, <4>1
      <4>3. ASSUME t \notin ToSet(m.active) PROVE m.order[t] = <<>>
        <5>1. q = <<>>
          BY <1>11, <3>1, <4>3 DEF Sound, WindowsAgree, q
        <5>2. Len(q) = 0
          BY <5>1
        <5>3. w \o r = q
          BY <1>9, <5>2 DEF EndsLike
        <5>4. QED  BY <4>1, <5>1, <5>3
      <4>4. QED  BY <1>8, <4>1, <4>2, <4>3
    <3>2. CASE t # s
      <4>1. m.order[t] = l.order[t] /\ \A i \in Ids : m.slot[t][i] = l.slot[t][i]
        BY <1>2, <1>11, <1>12, <3>2
      <4>2. /\ NoDup(l.order[t]) /\ ToSet(l.order[t]) = {i \in Ids : l.slot[t][i] # "none"}
            /\ t \notin ToSet(l.active) => l.order[t] = <<>>
        BY DEF Sound, WindowsAgree
      <4>3. m.active = l.active
        BY <1>11
      <4>4. QED  BY <4>1, <4>2, <4>3
    <3>3. QED  BY <3>1, <3>2
  <2>2. QED  BY <1>11, <2>1 DEF Sound, WindowsAgree
<1>17. SettledAgree(m) /\ CountersAgree(m)
  BY <1>11, <1>13, <1>14 DEF Sound, SettledAgree, CountersAgree
<1>18. ASSUME m.ids = l.ids PROVE m = l
  <2>1. gone = {}
    BY <1>10, <1>11, <1>14, <1>18
  <2>2. m.order = l.order
    BY <1>2, <1>8, <1>11, <2>1 DEF q
  <2>3. m.slot = l.slot
    <3>1. l.slot \in [Scopes -> [Ids -> Slots]]
      BY <1>2 DEF Ledgers
    <3>2. \A t \in Scopes, i \in Ids : m.slot[t][i] = l.slot[t][i]
      BY <1>12, <2>1
    <3>3. QED  BY <1>12, <3>1, <3>2
  <2>4. QED  BY <1>2, <1>11, <1>15, <1>18, <2>2, <2>3, SameLedger
<1>19. Trimmed(m, l, s, n)
  <2>1. \A t \in Scopes \ {s} : m.order[t] = l.order[t]
    BY <1>2, <1>11
  <2>2. EndsLike(m.order[s], l.order[s], n)
    BY <1>2, <1>9, <1>11 DEF q
  <2>3. \A t \in Scopes, i \in Ids : l.slot[t][i] = "none" => m.slot[t][i] = "none"
    BY <1>12
  <2>4. QED  BY <1>11, <1>14, <1>18, <2>1, <2>2, <2>3 DEF Trimmed
<1>20. QED  BY <1>15, <1>16, <1>17, <1>19 DEF Sound, m

\* r is l with room for an id of s: of s itself only old ids are gone.
Roomier(r, l, s) ==
  /\ r.progress = l.progress /\ r.runningBytes = l.runningBytes
  /\ r.live <= l.live /\ r.ids <= l.ids /\ r.bytes <= l.bytes
  /\ ToSet(r.active) \subseteq ToSet(l.active)
  /\ s \in ToSet(r.active) <=> s \in ToSet(l.active)
  /\ s \in ToSet(r.forgotten) => s \in ToSet(l.forgotten)
  /\ \A t \in ToSet(r.active) \ {s} : r.order[t] = l.order[t]
  /\ s \in ToSet(r.active) => EndsLike(r.order[s], l.order[s], WindowIds - 1)
  /\ \A t \in Scopes, i \in Ids : l.slot[t][i] = "none" => r.slot[t][i] = "none"

\* What run gives up keeps a ledger sound; and when that was not enough, nothing of
\* s was given up: what has not settled fits (it is checked first), so it is the ids
\* that do not.
LEMMA MakeRoomSound ==
  ASSUME NEW l, Sound(l), NEW s \in Scopes, NEW bytes \in Nat
  PROVE  LET r == MakeRoom(l, s, bytes) IN
         /\ Sound(r) /\ Roomier(r, l, s)
         /\ l.ids <= MaxIds /\ ~Overloaded(l, bytes) /\ ~HasRoom(r, bytes) => r \in Below(l)
<1> DEFINE n == WindowIds - 1
           trimmed == Trim(l, s, n)
           roomy == IF trimmed.ids >= MaxIds THEN ForgetIdle(trimmed, s) ELSE trimmed
           r == MakeRoom(l, s, bytes)
<1>1. n \in Nat /\ MaxIds \in Nat /\ MaxEntries \in Nat /\ MaxBytes \in Nat
  BY LimitsAssumption
<1>2. Sound(trimmed) /\ Trimmed(trimmed, l, s, n)
  <2> HIDE DEF n
  <2>1. QED  BY <1>1, TrimSound
<1>3. r = IF roomy.ids >= MaxIds THEN roomy ELSE Reserve(roomy, 1, bytes)
  BY DEF MakeRoom
<1> HIDE DEF trimmed, r
<1>4. /\ roomy \in Below(trimmed)
      /\ s \in ToSet(roomy.active) <=> s \in ToSet(trimmed.active)
      /\ s \in ToSet(roomy.forgotten) => s \in ToSet(trimmed.forgotten)
  <2>1. CASE trimmed.ids >= MaxIds
    BY <1>2, <2>1, ForgetIdleSound
  <2>2. CASE ~(trimmed.ids >= MaxIds)
    BY <1>2, <2>2, BelowFacts
  <2>3. QED  BY <2>1, <2>2
<1> HIDE DEF roomy, n
<1>5. ASSUME ~(roomy.ids >= MaxIds)
      PROVE  /\ r \in Below(roomy) /\ r.active = roomy.active /\ r.forgotten = roomy.forgotten
             /\ Fits(r, 1, bytes) \/ r.settled = <<>>
  <2>1. Sound(roomy) /\ 1 \in Nat
    BY <1>4 DEF Below
  <2>2. r = Reserve(roomy, 1, bytes)
    BY <1>3, <1>5
  <2>3. QED  BY <2>1, <2>2, ReserveSound
<1>6. /\ r \in Below(trimmed)
      /\ s \in ToSet(r.active) <=> s \in ToSet(trimmed.active)
      /\ s \in ToSet(r.forgotten) => s \in ToSet(trimmed.forgotten)
  <2>1. CASE roomy.ids >= MaxIds
    BY <1>3, <1>4, <2>1
  <2>2. CASE ~(roomy.ids >= MaxIds)
    <3>1. r \in Below(trimmed)
      BY <1>2, <1>4, <1>5, <2>2, BelowFacts DEF Below
    <3>2. QED  BY <1>4, <1>5, <2>2, <3>1
  <2>3. QED  BY <2>1, <2>2
<1>7. Sound(r) /\ Lighter(r, trimmed)
  BY <1>6 DEF Below
<1>8. /\ l.live \in Nat /\ l.ids \in Nat /\ l.bytes \in Nat /\ l.runningBytes \in Nat
      /\ r.live \in Nat /\ r.ids \in Nat /\ r.bytes \in Nat /\ r.runningBytes \in Nat
      /\ trimmed.ids \in Nat /\ roomy.ids \in Nat /\ r.active \in Seq(Scopes)
  BY <1>2, <1>4, <1>7 DEF Sound, Below, Ledgers
<1>9. Roomier(r, l, s)
  <2>1. /\ r.progress = l.progress /\ r.runningBytes = l.runningBytes
        /\ r.live <= l.live /\ r.ids <= l.ids /\ r.bytes <= l.bytes
        /\ ToSet(r.active) \subseteq ToSet(l.active)
    <3>1. r.ids <= trimmed.ids /\ trimmed.ids <= l.ids
      BY <1>2, <1>7 DEF Lighter, Trimmed
    <3>2. r.ids <= l.ids
      BY <1>8, <3>1
    <3>3. QED  BY <1>2, <1>7, <3>2 DEF Lighter, Trimmed
  <2>2. /\ s \in ToSet(r.active) <=> s \in ToSet(l.active)
        /\ s \in ToSet(r.forgotten) => s \in ToSet(l.forgotten)
    BY <1>2, <1>6 DEF Trimmed
  <2>3. \A t \in ToSet(r.active) \ {s} : r.order[t] = l.order[t]
    <3>1. ToSet(r.active) \subseteq Scopes
      BY <1>8 DEF ToSet
    <3>2. QED  BY <1>2, <1>7, <3>1 DEF Lighter, Trimmed
  <2>4. ASSUME s \in ToSet(r.active) PROVE EndsLike(r.order[s], l.order[s], n)
    <3>1. r.order[s] = trimmed.order[s]
      BY <1>7, <2>4 DEF Lighter
    <3>2. QED  BY <1>2, <3>1 DEF Trimmed
  <2>5. \A t \in Scopes, i \in Ids : l.slot[t][i] = "none" => r.slot[t][i] = "none"
    BY <1>2, <1>7 DEF Lighter, Trimmed
  <2>6. QED  BY <2>1, <2>2, <2>3, <2>4, <2>5 DEF Roomier, n
<1>10. ASSUME l.ids <= MaxIds, ~Overloaded(l, bytes), ~HasRoom(r, bytes) PROVE r \in Below(l)
  <2>1. CASE roomy.ids >= MaxIds
    <3>1. r = roomy /\ r.ids <= trimmed.ids /\ trimmed.ids <= l.ids
      BY <1>2, <1>3, <1>7, <2>1 DEF Lighter, Trimmed
    <3>2. trimmed.ids = l.ids
      BY <1>1, <1>8, <1>10, <2>1, <3>1
    <3>3. trimmed = l
      BY <1>2, <3>2 DEF Trimmed
    <3>4. QED  BY <1>6, <3>3
  <2>2. CASE ~(roomy.ids >= MaxIds)
    <3>1. r.ids < MaxIds
      <4>1. r.ids <= roomy.ids
        BY <1>5, <2>2 DEF Below, Lighter
      <4>2. QED  BY <1>1, <1>8, <2>2, <4>1
    <3>2. ~Fits(r, 1, bytes)
      BY <1>10, <3>1 DEF HasRoom
    <3>3. r.settled = <<>>
      BY <1>5, <2>2, <3>2
    <3>4. r.live = Cardinality(Open(r)) /\ r.bytes = r.runningBytes
      BY <1>7, <3>3, OpenCounts
    <3>5. Open(r) = Open(l) /\ r.runningBytes = l.runningBytes
      BY <1>9 DEF Roomier, Open
    <3>6. Cardinality(Open(l)) \in Nat /\ Unsettleds(l) = Cardinality(Open(l))
      BY OpenCounts
    <3>7. ~(Cardinality(Open(l)) >= MaxEntries) /\ ~(l.runningBytes + bytes > MaxBytes)
      BY <1>10, <3>6 DEF Overloaded
    <3>8. r.live + 1 <= MaxEntries /\ r.bytes + bytes <= MaxBytes
      BY <1>1, <1>8, <3>4, <3>5, <3>6, <3>7
    <3>9. QED  BY <3>2, <3>8 DEF Fits
  <2>3. QED  BY <2>1, <2>2
<1>11. QED  BY <1>7, <1>9, <1>10 DEF r

\* An element more at the end.
LEMMA AppendFacts ==
  ASSUME NEW E, NEW q \in Seq(E), NEW x \in E
  PROVE  /\ Append(q, x) \in Seq(E) /\ Len(Append(q, x)) = Len(q) + 1 /\ Len(q) \in Nat
         /\ ToSet(Append(q, x)) = ToSet(q) \cup {x}
         /\ \A j \in 1..Len(q) : Append(q, x)[j] = q[j]
         /\ Append(q, x)[Len(q) + 1] = x
         /\ NoDup(q) /\ x \notin ToSet(q) => NoDup(Append(q, x))
<1> DEFINE r == Append(q, x)
<1>1. /\ r \in Seq(E) /\ Len(r) = Len(q) + 1 /\ Len(q) \in Nat
      /\ DOMAIN r = 1..(Len(q) + 1) /\ DOMAIN q = 1..Len(q)
      /\ \A j \in 1..Len(q) : r[j] = q[j]
      /\ r[Len(q) + 1] = x
  OBVIOUS
<1> HIDE DEF r
<1>2. ToSet(r) = ToSet(q) \cup {x}
  BY <1>1 DEF ToSet
<1>3. ASSUME NoDup(q), x \notin ToSet(q) PROVE NoDup(r)
  <2>1. \A j \in 1..Len(q) : q[j] # x
    BY <1>1, <1>3 DEF ToSet
  <2>2. QED  BY <1>1, <1>3, <2>1 DEF NoDup
<1>4. QED  BY <1>1, <1>2, <1>3 DEF r

\* touch.
LEMMA TouchSound ==
  ASSUME NEW l, Sound(l), NEW s \in Scopes, s \notin ToSet(l.forgotten)
  PROVE  LET m == Touch(l, s) IN
         /\ Sound(m) /\ ToSet(m.active) = ToSet(l.active) \cup {s}
         /\ m.order = l.order /\ m.slot = l.slot /\ m.size = l.size /\ m.progress = l.progress
         /\ m.settled = l.settled /\ m.forgotten = l.forgotten /\ m.live = l.live
         /\ m.ids = l.ids /\ m.bytes = l.bytes /\ m.runningBytes = l.runningBytes
<1> DEFINE m == Touch(l, s)
           q == Append(Without(l.active, {s}), s)
<1>0. l \in Ledgers /\ l.active \in Seq(Scopes)
  BY DEF Sound, Ledgers
<1>1. q \in Seq(Scopes) /\ ToSet(q) = ToSet(l.active) \cup {s}
  <2>1. Without(l.active, {s}) \in Seq(Scopes) /\ ToSet(Without(l.active, {s})) = ToSet(l.active) \ {s}
    BY <1>0, WithoutKeeps
  <2> DEFINE c == Without(l.active, {s})
  <2>2. c \in Seq(Scopes) /\ ToSet(c) = ToSet(l.active) \ {s}
    BY <2>1
  <2> HIDE DEF c
  <2>3. Append(c, s) \in Seq(Scopes) /\ ToSet(Append(c, s)) = ToSet(c) \cup {s}
    BY <2>2, AppendFacts
  <2>4. ToSet(c) \cup {s} = ToSet(l.active) \cup {s}
    BY <2>2
  <2>5. QED  BY <2>3, <2>4 DEF c
<1>2. m = [l EXCEPT !.active = q]
  BY DEF Touch
<1> HIDE DEF m, q
<1>3. /\ m.order = l.order /\ m.slot = l.slot /\ m.size = l.size /\ m.progress = l.progress
      /\ m.settled = l.settled /\ m.forgotten = l.forgotten /\ m.live = l.live
      /\ m.ids = l.ids /\ m.bytes = l.bytes /\ m.runningBytes = l.runningBytes
      /\ m.active = q /\ m \in Ledgers
  BY <1>0, <1>1, <1>2 DEF Ledgers
<1>4. Live(m) = Live(l) /\ Used(m) = Used(l) /\ Open(m) = Open(l)
  BY <1>3 DEF Live, Used, Open
<1>5. SettledAgree(m) /\ CountersAgree(m)
  BY <1>3, <1>4 DEF Sound, SettledAgree, CountersAgree
<1>6. WindowsAgree(m)
  <2>1. WindowsAgree(l)
    BY DEF Sound
  <2>2. ToSet(m.active) \cap ToSet(m.forgotten) = {}
    BY <1>1, <1>3, <2>1 DEF WindowsAgree
  <2>3. \A t \in Scopes : t \notin ToSet(m.active) => t \notin ToSet(l.active)
    BY <1>1, <1>3
  <2>4. QED  BY <1>3, <2>1, <2>2, <2>3 DEF WindowsAgree
<1>7. QED  BY <1>1, <1>3, <1>5, <1>6 DEF Sound, m

\* The ledger m is l with an entry of id i, of these bytes, added to scope s.
Grown(l, m, s, i, bytes) ==
  /\ Sound(m) /\ ToSet(m.active) = ToSet(l.active) \cup {s}
  /\ m.forgotten = l.forgotten
  /\ m.order[s] = Append(l.order[s], i)
  /\ \A t \in Scopes \ {s} : m.order[t] = l.order[t]
  /\ m.live = l.live + 1 /\ m.ids = l.ids + 1 /\ m.bytes = l.bytes + bytes

\* The entry of a new id is installed.
LEMMA InstalledSound ==
  ASSUME NEW l, Sound(l), NEW s \in Scopes, NEW i \in Ids, NEW bytes \in Nat,
         s \notin ToSet(l.forgotten), l.slot[s][i] = "none"
  PROVE  Grown(l, Installed(l, s, i, bytes), s, i, bytes)
<1> DEFINE b == Touch(l, s)
           k == <<s, i>>
           m == Installed(l, s, i, bytes)
           slots == [b.slot[s] EXCEPT ![i] = "live"]
<1>1. /\ Sound(b) /\ ToSet(b.active) = ToSet(l.active) \cup {s}
      /\ b.order = l.order /\ b.slot = l.slot /\ b.size = l.size /\ b.progress = l.progress
      /\ b.settled = l.settled /\ b.forgotten = l.forgotten /\ b.live = l.live
      /\ b.ids = l.ids /\ b.bytes = l.bytes /\ b.runningBytes = l.runningBytes
  BY TouchSound
<1> HIDE DEF b
<1>2. b \in Ledgers /\ k \in Keys /\ k[1] = s /\ k[2] = i
  BY <1>1, KeysFinite DEF Sound
<1>3. m = [b EXCEPT !.order[s] = Append(@, i), !.slot[s][i] = "live",
                    !.progress[k] = "running", !.size[k] = bytes, !.live = @ + 1, !.ids = @ + 1,
                    !.bytes = @ + bytes, !.runningBytes = @ + bytes]
  BY DEF Installed, b
<1> HIDE DEF m, k
<1>4. /\ m.order = [b.order EXCEPT ![s] = Append(b.order[s], i)]
      /\ m.slot = [b.slot EXCEPT ![s] = slots]
      /\ m.progress = [b.progress EXCEPT ![k] = "running"] /\ m.size = [b.size EXCEPT ![k] = bytes]
      /\ m.live = b.live + 1 /\ m.ids = b.ids + 1 /\ m.bytes = b.bytes + bytes
      /\ m.runningBytes = b.runningBytes + bytes
      /\ m.settled = b.settled /\ m.active = b.active /\ m.forgotten = b.forgotten
      /\ m = [b EXCEPT !.order = m.order, !.slot = m.slot, !.progress = m.progress,
                       !.size = m.size, !.live = m.live, !.ids = m.ids, !.bytes = m.bytes,
                       !.runningBytes = m.runningBytes]
  BY <1>2, <1>3 DEF Ledgers
<1>5. /\ \A t \in Scopes, j \in Ids : m.slot[t][j] = IF t = s /\ j = i THEN "live" ELSE b.slot[t][j]
      /\ m.slot \in [Scopes -> [Ids -> Slots]]
  <2>1. b.slot \in [Scopes -> [Ids -> Slots]]
    BY <1>2 DEF Ledgers
  <2>2. slots \in [Ids -> Slots] /\ \A j \in Ids : slots[j] = IF j = i THEN "live" ELSE b.slot[s][j]
    BY <2>1 DEF Slots
  <2> HIDE DEF slots
  <2>3. m.slot = [b.slot EXCEPT ![s] = slots]
    BY <1>4
  <2>4. QED  BY <2>1, <2>2, <2>3
<1>6. k \notin Live(b) /\ k \notin Used(b) /\ k \notin Open(b)
  <2>1. b.slot[s][i] = "none"
    BY <1>1
  <2>2. Open(b) \subseteq Live(b)
    BY <1>1 DEF Sound, SettledAgree
  <2>3. QED  BY <1>2, <2>1, <2>2 DEF Live, Used
<1>7. Live(m) = Live(b) \cup {k} /\ Used(m) = Used(b) \cup {k} /\ Open(m) = Open(b) \cup {k}
  <2>1. \A j \in Keys : m.slot[j[1]][j[2]] = IF j = k THEN "live" ELSE b.slot[j[1]][j[2]]
    BY <1>2, <1>5, KeysFinite
  <2>2. \A j \in Keys : m.progress[j] = IF j = k THEN "running" ELSE b.progress[j]
    BY <1>2, <1>4 DEF Ledgers
  <2>3. Live(m) = Live(b) \cup {k} /\ Used(m) = Used(b) \cup {k}
    BY <1>2, <2>1 DEF Live, Used
  <2>4. Open(m) = Open(b) \cup {k}
    BY <1>2, <2>2 DEF Open, Unsettled
  <2>5. QED  BY <2>3, <2>4
<1>8. /\ b.live \in Nat /\ b.ids \in Nat /\ b.bytes \in Nat /\ b.runningBytes \in Nat
      /\ b.size \in [Keys -> Nat] /\ b.order \in [Scopes -> Seq(Ids)]
      /\ b.progress \in [Keys -> {"none"} \cup Unsettled]
  BY <1>2 DEF Ledgers
<1>9. m.live = Cardinality(Live(m)) /\ m.ids = Cardinality(Used(m))
  <2>1. Live(b) \in SUBSET Keys /\ Used(b) \in SUBSET Keys
    BY DEF Live, Used
  <2>2. IsFiniteSet(Live(b)) /\ IsFiniteSet(Used(b))
    BY <2>1, KeysFinite
  <2>3. b.live = Cardinality(Live(b)) /\ b.ids = Cardinality(Used(b))
    BY <1>1 DEF Sound, CountersAgree
  <2>4. Cardinality(Live(b) \cup {k}) = Cardinality(Live(b)) + 1
    BY <1>6, <2>2, FS_AddElement
  <2>5. Cardinality(Used(b) \cup {k}) = Cardinality(Used(b)) + 1
    BY <1>6, <2>2, FS_AddElement
  <2>6. QED  BY <1>4, <1>7, <2>3, <2>4, <2>5
<1>10. /\ m.size \in [Keys -> Nat] /\ m.size[k] = bytes /\ b.size[k] = 0
       /\ \A j \in Keys \ {k} : m.size[j] = b.size[j]
  <2>1. b.size[k] = 0
    BY <1>1, <1>2, <1>6 DEF Sound, CountersAgree
  <2>2. QED  BY <1>2, <1>4, <1>8, <2>1
<1>11. m.bytes = Total(m.size, Keys)
  <2>1. Total(m.size, Keys) = Total(b.size, Keys) - b.size[k] + m.size[k]
    <3> DEFINE f == b.size
               g == m.size
    <3>1. IsFiniteSet(Keys) /\ k \in Keys
      BY <1>2, KeysFinite
    <3>2. \A x \in Keys : f[x] \in Nat /\ g[x] \in Nat
      BY <1>8, <1>10
    <3>3. \A x \in Keys \ {k} : g[x] = f[x]
      BY <1>10
    <3> HIDE DEF f, g
    <3>4. Total(g, Keys) = Total(f, Keys) - f[k] + g[k]
      BY <3>1, <3>2, <3>3, TotalChanged
    <3>5. QED  BY <3>4 DEF f, g
  <2>2. b.bytes = Total(b.size, Keys)
    BY <1>1 DEF Sound, CountersAgree
  <2>3. QED  BY <1>4, <1>8, <1>10, <2>1, <2>2
<1>12. m.runningBytes = Total(m.size, Open(m))
  <2>1. Open(m) \in SUBSET Keys /\ Open(b) \in SUBSET Keys /\ k \in Open(m) /\ Open(m) \ {k} = Open(b)
    BY <1>6, <1>7 DEF Open
  <2>2. IsFiniteSet(Open(m)) /\ IsFiniteSet(Open(b))
    BY <2>1, KeysFinite
  <2>3. Total(m.size, Open(m)) = m.size[k] + Total(m.size, Open(b))
    BY <1>10, <2>1, <2>2, TotalFacts
  <2>4. Total(m.size, Open(b)) = Total(b.size, Open(b))
    <3>1. \A x \in Open(b) : m.size[x] \in Nat /\ m.size[x] = b.size[x]
      BY <1>6, <1>10, <2>1
    <3>2. QED  BY <2>2, <3>1, TotalSame
  <2>5. b.runningBytes = Total(b.size, Open(b))
    BY <1>1 DEF Sound, CountersAgree
  <2>6. QED  BY <1>4, <1>8, <1>10, <2>3, <2>4, <2>5
<1>13. CountersAgree(m)
  <2>0. \A j \in Keys : j \notin Live(b) => b.size[j] = 0
    BY <1>1 DEF Sound, CountersAgree
  <2>1. \A j \in Keys : j \notin Live(m) => m.size[j] = 0
    BY <1>7, <1>10, <2>0
  <2>2. QED  BY <1>9, <1>11, <1>12, <2>1 DEF CountersAgree
<1>14. SettledAgree(m)
  BY <1>1, <1>4, <1>6, <1>7 DEF Sound, SettledAgree
<1>15. /\ m.order[s] = Append(l.order[s], i) /\ m.order \in [Scopes -> Seq(Ids)]
       /\ \A t \in Scopes \ {s} : m.order[t] = l.order[t]
  BY <1>1, <1>4, <1>8
<1>16. m \in Ledgers
  <2>1. m.progress \in [Keys -> {"none"} \cup Unsettled]
    <3>1. "running" \in {"none"} \cup Unsettled
      BY DEF Unsettled
    <3>2. b.progress \in [Keys -> {"none"} \cup Unsettled]
      BY <1>8
    <3>3. m.progress = [b.progress EXCEPT ![k] = "running"]
      BY <1>4
    <3>4. QED  BY <3>1, <3>2, <3>3
  <2>2. m.live \in Nat /\ m.ids \in Nat /\ m.bytes \in Nat /\ m.runningBytes \in Nat
    BY <1>4, <1>8
  <2>3. QED  BY <1>2, <1>4, <1>5, <1>10, <1>15, <2>1, <2>2 DEF Ledgers
<1>17. WindowsAgree(m)
  <2>1. ASSUME NEW t \in Scopes
        PROVE  /\ NoDup(m.order[t]) /\ ToSet(m.order[t]) = {j \in Ids : m.slot[t][j] # "none"}
               /\ t \notin ToSet(m.active) => m.order[t] = <<>>
    <3>1. /\ NoDup(b.order[t]) /\ ToSet(b.order[t]) = {j \in Ids : b.slot[t][j] # "none"}
          /\ t \notin ToSet(b.active) => b.order[t] = <<>>
      BY <1>1 DEF Sound, WindowsAgree
    <3>2. m.active = b.active
      BY <1>4
    <3>3. CASE t = s
      <4>1. \A j \in Ids : m.slot[t][j] = IF j = i THEN "live" ELSE b.slot[t][j]
        BY <1>5, <3>3
      <4>2. i \notin ToSet(b.order[t]) /\ b.order[t] \in Seq(Ids) /\ m.order[t] = Append(b.order[t], i)
        BY <1>1, <1>8, <1>15, <3>1, <3>3
      <4>3. NoDup(m.order[t]) /\ ToSet(m.order[t]) = ToSet(b.order[t]) \cup {i}
        BY <3>1, <4>2, AppendFacts
      <4>4. t \in ToSet(m.active)
        BY <1>1, <3>2, <3>3
      <4>5. QED  BY <3>1, <4>1, <4>3, <4>4
    <3>4. CASE t # s
      <4>1. m.order[t] = b.order[t] /\ \A j \in Ids : m.slot[t][j] = b.slot[t][j]
        BY <1>1, <1>5, <1>15, <3>4
      <4>2. QED  BY <3>1, <3>2, <4>1
    <3>5. QED  BY <3>3, <3>4
  <2>2. ToSet(m.active) \cap ToSet(m.forgotten) = {} /\ Len(m.forgotten) <= MaxForgotten
    <3>1. ToSet(b.active) \cap ToSet(b.forgotten) = {} /\ Len(b.forgotten) <= MaxForgotten
      BY <1>1 DEF Sound, WindowsAgree
    <3>2. m.active = b.active /\ m.forgotten = b.forgotten
      BY <1>4
    <3>3. QED  BY <3>1, <3>2
  <2>3. QED  BY <2>1, <2>2 DEF WindowsAgree
<1>18. Sound(m)
  BY <1>13, <1>14, <1>15, <1>16, <1>17 DEF Sound
<1>19. Grown(l, m, s, i, bytes)
  BY <1>1, <1>4, <1>15, <1>18 DEF Grown
<1>20. QED  BY <1>19 DEF m

\* The fields that a settlement or a retention leaves alone.
SameMaps(m, l) ==
  /\ m.order = l.order /\ m.slot = l.slot /\ m.active = l.active /\ m.forgotten = l.forgotten
  /\ m.live = l.live /\ m.ids = l.ids

\* An operation goes on without a result to retain.
LEMMA ProgressSound ==
  ASSUME NEW l, Sound(l), NEW k \in Open(l), NEW p \in Unsettled
  PROVE  LET m == [l EXCEPT !.progress[k] = p] IN
         /\ Sound(m) /\ SameMaps(m, l) /\ m.bytes = l.bytes
<1> DEFINE m == [l EXCEPT !.progress[k] = p]
<1>1. l \in Ledgers /\ k \in Keys /\ l.progress \in [Keys -> {"none"} \cup Unsettled]
  BY DEF Sound, Ledgers, Open
<1>2. /\ m.progress = [l.progress EXCEPT ![k] = p] /\ m.size = l.size /\ m.settled = l.settled
      /\ m.bytes = l.bytes /\ m.runningBytes = l.runningBytes /\ SameMaps(m, l)
      /\ m = [l EXCEPT !.progress = m.progress]
  BY <1>1 DEF Ledgers, SameMaps
<1> HIDE DEF m
<1>3. m.progress \in [Keys -> {"none"} \cup Unsettled]
  BY <1>1, <1>2
<1>4. m \in Ledgers
  BY <1>1, <1>2, <1>3 DEF Ledgers
<1>5. Live(m) = Live(l) /\ Used(m) = Used(l) /\ Open(m) = Open(l)
  <2>1. \A j \in Keys : m.progress[j] = IF j = k THEN p ELSE l.progress[j]
    BY <1>1, <1>2
  <2>2. Open(m) = Open(l)
    BY <1>1, <2>1 DEF Open
  <2>3. QED  BY <1>2, <2>2 DEF SameMaps, Live, Used
<1>6. SettledAgree(m) /\ CountersAgree(m) /\ WindowsAgree(m)
  <2>1. SettledAgree(m)
    BY <1>2, <1>5 DEF Sound, SettledAgree
  <2>2. CountersAgree(m)
    BY <1>2, <1>5 DEF Sound, CountersAgree, SameMaps
  <2>3. WindowsAgree(m)
    BY <1>2 DEF Sound, WindowsAgree, SameMaps
  <2>4. QED  BY <2>1, <2>2, <2>3
<1>7. QED  BY <1>2, <1>4, <1>6 DEF Sound, m

\* The bytes of an operation that goes on are counted twice: among all, and among
\* those of the running ones.
LEMMA CountedSound ==
  ASSUME NEW l, Sound(l), NEW k \in Open(l), NEW b \in Nat
  PROVE  LET m == [l EXCEPT !.size[k] = @ + b, !.bytes = @ + b, !.runningBytes = @ + b] IN
         /\ Sound(m) /\ SameMaps(m, l) /\ m.bytes = l.bytes + b
<1> DEFINE m == [l EXCEPT !.size[k] = @ + b, !.bytes = @ + b, !.runningBytes = @ + b]
<1>1. /\ l \in Ledgers /\ k \in Keys /\ l.size \in [Keys -> Nat] /\ l.bytes \in Nat
      /\ l.runningBytes \in Nat
  BY DEF Sound, Ledgers, Open
<1>2. /\ m.size = [l.size EXCEPT ![k] = l.size[k] + b] /\ m.progress = l.progress
      /\ m.settled = l.settled /\ m.bytes = l.bytes + b /\ m.runningBytes = l.runningBytes + b
      /\ SameMaps(m, l)
      /\ m = [l EXCEPT !.size = m.size, !.bytes = m.bytes, !.runningBytes = m.runningBytes]
  BY <1>1 DEF Ledgers, SameMaps
<1> HIDE DEF m
<1>3. /\ m.size \in [Keys -> Nat] /\ m.bytes \in Nat /\ m.runningBytes \in Nat
      /\ m.size[k] = l.size[k] + b /\ \A j \in Keys \ {k} : m.size[j] = l.size[j]
  BY <1>1, <1>2
<1>4. m \in Ledgers
  BY <1>1, <1>2, <1>3 DEF Ledgers
<1>5. Live(m) = Live(l) /\ Used(m) = Used(l) /\ Open(m) = Open(l)
  BY <1>2 DEF SameMaps, Live, Used, Open
<1>6. /\ Open(l) \in SUBSET Keys /\ IsFiniteSet(Keys) /\ IsFiniteSet(Open(l))
      /\ Open(l) \subseteq Live(l)
  <2>1. Open(l) \in SUBSET Keys
    BY DEF Open
  <2>2. QED  BY <2>1, KeysFinite DEF Sound, SettledAgree
<1>7. ASSUME NEW U, IsFiniteSet(U), U \subseteq Keys, k \in U
      PROVE  Total(m.size, U) = Total(l.size, U) + b
  <2> DEFINE f == l.size
             g == m.size
  <2>1. \A x \in U : f[x] \in Nat /\ g[x] \in Nat
    BY <1>1, <1>3, <1>7
  <2>2. (\A x \in U \ {k} : g[x] = f[x]) /\ g[k] = f[k] + b /\ f[k] \in Nat
    BY <1>1, <1>3, <1>7
  <2> HIDE DEF f, g
  <2>3. Total(g, U) = Total(f, U) - f[k] + g[k]
    BY <1>7, <2>1, <2>2, TotalChanged
  <2>4. Total(f, U) \in Nat
    BY <1>7, <2>1, TotalFacts
  <2>5. Total(g, U) = Total(f, U) + b
    BY <2>2, <2>3, <2>4
  <2>6. QED  BY <2>5 DEF f, g
<1>8. Total(m.size, Keys) = Total(l.size, Keys) + b
  BY <1>1, <1>6, <1>7
<1>9. Total(m.size, Open(l)) = Total(l.size, Open(l)) + b
  BY <1>6, <1>7
<1>10. CountersAgree(m)
  <2>1. \A j \in Keys : j \notin Live(l) => l.size[j] = 0
    BY DEF Sound, CountersAgree
  <2>2. \A j \in Keys : j \notin Live(m) => m.size[j] = 0
    BY <1>3, <1>5, <1>6, <2>1
  <2>3. l.bytes = Total(l.size, Keys) /\ l.runningBytes = Total(l.size, Open(l))
    BY DEF Sound, CountersAgree
  <2>4. m.bytes = Total(m.size, Keys) /\ m.runningBytes = Total(m.size, Open(m))
    BY <1>2, <1>5, <1>8, <1>9, <2>3
  <2>5. m.live = Cardinality(Live(m)) /\ m.ids = Cardinality(Used(m))
    BY <1>2, <1>5 DEF Sound, CountersAgree, SameMaps
  <2>6. QED  BY <2>2, <2>4, <2>5 DEF CountersAgree
<1>11. SettledAgree(m) /\ WindowsAgree(m)
  <2>1. SettledAgree(m)
    BY <1>2, <1>5 DEF Sound, SettledAgree
  <2>2. WindowsAgree(m)
    BY <1>2 DEF Sound, WindowsAgree, SameMaps
  <2>3. QED  BY <2>1, <2>2
<1>12. QED  BY <1>2, <1>4, <1>10, <1>11 DEF Sound, m

\* settle: a retained result is now one that may be given up.
LEMMA SettledSound ==
  ASSUME NEW l, Sound(l), NEW k \in Open(l)
  PROVE  LET m == [l EXCEPT !.progress[k] = "none", !.runningBytes = @ - l.size[k],
                            !.settled = Append(@, k)] IN
         /\ Sound(m) /\ SameMaps(m, l) /\ m.bytes = l.bytes /\ k \notin Open(m)
         /\ m.size = l.size
<1> DEFINE m == [l EXCEPT !.progress[k] = "none", !.runningBytes = @ - l.size[k],
                          !.settled = Append(@, k)]
<1>1. /\ l \in Ledgers /\ k \in Keys /\ l.size \in [Keys -> Nat] /\ l.runningBytes \in Nat
      /\ l.progress \in [Keys -> {"none"} \cup Unsettled] /\ l.settled \in Seq(Keys)
  BY DEF Sound, Ledgers, Open
<1>2. /\ m.progress = [l.progress EXCEPT ![k] = "none"] /\ m.size = l.size
      /\ m.settled = Append(l.settled, k) /\ m.bytes = l.bytes
      /\ m.runningBytes = l.runningBytes - l.size[k] /\ SameMaps(m, l)
      /\ m = [l EXCEPT !.progress = m.progress, !.runningBytes = m.runningBytes,
                       !.settled = m.settled]
  BY <1>1 DEF Ledgers, SameMaps
<1> HIDE DEF m
<1>3. Live(m) = Live(l) /\ Used(m) = Used(l) /\ Open(m) = Open(l) \ {k}
  <2>1. \A j \in Keys : m.progress[j] = IF j = k THEN "none" ELSE l.progress[j]
    BY <1>1, <1>2
  <2>2. Open(m) = Open(l) \ {k}
    BY <1>1, <2>1 DEF Open, Unsettled
  <2>3. QED  BY <1>2, <2>2 DEF SameMaps, Live, Used
<1>4. /\ NoDup(l.settled) /\ ToSet(l.settled) = Live(l) \ Open(l) /\ Open(l) \subseteq Live(l)
      /\ k \in Open(l)
  BY DEF Sound, SettledAgree
<1>5. m.settled \in Seq(Keys) /\ NoDup(m.settled) /\ ToSet(m.settled) = ToSet(l.settled) \cup {k}
  <2> DEFINE q == l.settled
  <2>1. q \in Seq(Keys) /\ k \in Keys /\ NoDup(q) /\ k \notin ToSet(q) /\ m.settled = Append(q, k)
    BY <1>1, <1>2, <1>4
  <2> HIDE DEF q
  <2>2. m.settled \in Seq(Keys) /\ NoDup(m.settled) /\ ToSet(m.settled) = ToSet(q) \cup {k}
    BY <2>1, AppendFacts
  <2>3. QED  BY <2>2 DEF q
<1>6. SettledAgree(m)
  BY <1>3, <1>4, <1>5 DEF SettledAgree
<1>7. m.runningBytes = Total(m.size, Open(m)) /\ m.runningBytes \in Nat
  <2>1. Open(l) \in SUBSET Keys /\ IsFiniteSet(Open(l)) /\ Open(m) \in SUBSET Keys /\ IsFiniteSet(Open(m))
    <3>1. Open(l) \in SUBSET Keys /\ Open(m) \in SUBSET Keys
      BY DEF Open
    <3>2. QED  BY <3>1, KeysFinite
  <2> DEFINE f == l.size
  <2>2. \A x \in Keys : f[x] \in Nat
    BY <1>1
  <2>3. m.runningBytes = l.runningBytes - f[k] /\ m.size = f /\ l.runningBytes = Total(f, Open(l))
    BY <1>2 DEF Sound, CountersAgree
  <2> HIDE DEF f
  <2>4. Total(f, Open(l)) = f[k] + Total(f, Open(l) \ {k})
    <3>1. \A x \in Open(l) : f[x] \in Nat
      BY <2>1, <2>2
    <3>2. QED  BY <1>4, <2>1, <3>1, TotalFacts
  <2>5. Total(f, Open(m)) \in Nat
    <3>1. \A x \in Open(m) : f[x] \in Nat
      BY <2>1, <2>2
    <3>2. QED  BY <2>1, <3>1, TotalFacts
  <2>6. f[k] \in Nat
    BY <1>1, <2>2
  <2>7. QED  BY <1>3, <2>3, <2>4, <2>5, <2>6
<1>8. m.progress \in [Keys -> {"none"} \cup Unsettled]
  BY <1>1, <1>2
<1>9. m \in Ledgers
  BY <1>1, <1>2, <1>5, <1>7, <1>8 DEF Ledgers
<1>10. CountersAgree(m)
  <2>1. CountersAgree(l)
    BY DEF Sound
  <2>2. QED  BY <1>2, <1>3, <1>7, <2>1 DEF CountersAgree, SameMaps
<1>11. WindowsAgree(m)
  BY <1>2 DEF Sound, WindowsAgree, SameMaps
<1>12. QED  BY <1>2, <1>3, <1>6, <1>9, <1>10, <1>11 DEF Sound, m

\* settle: without a retained result only the id stays.
LEMMA GivenUpSound ==
  ASSUME NEW l, Sound(l), NEW k \in Open(l)
  PROVE  LET t == Tombstone([l EXCEPT !.progress[k] = "none", !.runningBytes = @ - l.size[k]], k) IN
         /\ Sound(t) /\ t.order = l.order /\ t.active = l.active /\ t.forgotten = l.forgotten
         /\ t.live <= l.live /\ t.ids = l.ids /\ t.bytes <= l.bytes
<1> DEFINE m == [l EXCEPT !.progress[k] = "none", !.runningBytes = @ - l.size[k],
                          !.settled = Append(@, k)]
           c == [l EXCEPT !.progress[k] = "none", !.runningBytes = @ - l.size[k]]
           u == Tombstone(m, k)
           t == Tombstone(c, k)
<1>1. /\ l \in Ledgers /\ k \in Keys /\ k[1] \in Scopes /\ k[2] \in Ids
      /\ l.slot[k[1]][k[2]] = "live" /\ l.settled \in Seq(Keys) /\ NoDup(l.settled)
      /\ ToSet(l.settled) = Live(l) \ Open(l)
  <2>1. k \in Live(l)
    BY DEF Sound, SettledAgree
  <2>2. QED  BY <2>1, KeysFinite DEF Sound, SettledAgree, Ledgers, Live
<1>2. /\ Sound(m) /\ SameMaps(m, l) /\ m.bytes = l.bytes /\ k \notin Open(m) /\ m.size = l.size
      /\ m.progress = c.progress
  BY <1>1, SettledSound DEF Ledgers
<1>3. /\ m.slot = l.slot /\ c.slot = l.slot /\ c.settled = l.settled /\ c.size = l.size
      /\ c.live = l.live /\ c.bytes = l.bytes /\ c.order = l.order /\ c.active = l.active
      /\ c.forgotten = l.forgotten /\ c.ids = l.ids /\ c.runningBytes = m.runningBytes
      /\ c.progress = m.progress
      /\ DOMAIN c = DOMAIN l /\ DOMAIN m = DOMAIN l
  BY <1>1 DEF Ledgers
<1>4. Open(m) = Open(l) \ {k}
  <2>1. m.progress = [l.progress EXCEPT ![k] = "none"] /\ l.progress \in [Keys -> {"none"} \cup Unsettled]
    BY <1>1 DEF Ledgers
  <2> HIDE DEF m
  <2>2. QED  BY <1>1, <2>1 DEF Open, Unsettled
<1>5. /\ Sound(u) /\ Lighter(u, m) /\ u.order = m.order /\ u.active = m.active
      /\ u.forgotten = m.forgotten /\ Live(u) = Live(m) \ {k}
  <2> HIDE DEF m
  <2>1. QED  BY <1>1, <1>2, TombstoneSound
<1>6. /\ u = [m EXCEPT !.slot[k[1]][k[2]] = "tombstone", !.settled = Without(@, {k}),
                       !.live = @ - 1, !.bytes = @ - m.size[k], !.size[k] = 0]
      /\ t = [c EXCEPT !.slot[k[1]][k[2]] = "tombstone", !.settled = Without(@, {k}),
                       !.live = @ - 1, !.bytes = @ - c.size[k], !.size[k] = 0]
  <2> HIDE DEF m, c
  <2>1. QED  BY <1>1, <1>3 DEF Tombstone
<1>7. m \in Ledgers /\ u \in Ledgers
  BY <1>2, <1>5 DEF Sound
<1>8. /\ t.order = u.order /\ t.slot = u.slot /\ t.size = u.size /\ t.progress = u.progress
      /\ t.active = u.active /\ t.forgotten = u.forgotten /\ t.live = u.live /\ t.ids = u.ids
      /\ t.bytes = u.bytes /\ t.runningBytes = u.runningBytes
      /\ t.settled = Without(l.settled, {k})
      /\ t = [order |-> t.order, slot |-> t.slot, size |-> t.size, progress |-> t.progress,
              settled |-> t.settled, active |-> t.active, forgotten |-> t.forgotten,
              live |-> t.live, ids |-> t.ids, bytes |-> t.bytes, runningBytes |-> t.runningBytes]
  <2>1. SameMaps(m, l)
    BY <1>2
  <2> HIDE DEF m, c, u, t
  <2>2. QED  BY <1>2, <1>3, <1>6, <1>7, <2>1 DEF Ledgers, SameMaps
<1>9. Without(l.settled, {k}) = l.settled
  <2>1. ToSet(l.settled) \cap {k} = {}
    BY <1>1
  <2>2. QED  BY <1>1, <2>1, WithoutKeeps
<1> HIDE DEF m, c, u, t
<1>10. t \in Ledgers
  BY <1>1, <1>7, <1>8, <1>9 DEF Ledgers
<1>11. Live(t) = Live(u) /\ Used(t) = Used(u) /\ Open(t) = Open(u)
  BY <1>8 DEF Live, Used, Open
<1>12. SettledAgree(t)
  <2>1. Live(u) = Live(l) \ {k} /\ Open(u) = Open(l) \ {k}
    BY <1>2, <1>4, <1>5 DEF SameMaps, Lighter, Live, Open
  <2>2. Live(u) \ Open(u) = Live(l) \ Open(l)
    BY <2>1
  <2>3. Open(u) \subseteq Live(u)
    BY <1>5 DEF Sound, SettledAgree
  <2>4. QED  BY <1>1, <1>8, <1>9, <1>11, <2>2, <2>3 DEF SettledAgree
<1>13. CountersAgree(t)
  <2>1. CountersAgree(u)
    BY <1>5 DEF Sound
  <2>2. QED  BY <1>8, <1>11, <2>1 DEF CountersAgree
<1>14. WindowsAgree(t)
  <2>1. WindowsAgree(u)
    BY <1>5 DEF Sound
  <2>2. QED  BY <1>8, <2>1 DEF WindowsAgree
<1>15. /\ t.order = l.order /\ t.active = l.active /\ t.forgotten = l.forgotten
       /\ t.live <= l.live /\ t.bytes <= l.bytes
  BY <1>2, <1>5, <1>8 DEF SameMaps, Lighter
<1>16. t.ids = l.ids
  BY <1>3, <1>6
<1>17. QED  BY <1>10, <1>12, <1>13, <1>14, <1>15, <1>16 DEF Sound, t, c

-----------------------------------------------------------------------------
(* The ids a scope ran lately.                                             *)

\* A scope that runs a new id: o was its window, p is the window after the trim, and
\* q the ids it ran lately.
LEMMA RecentKept ==
  ASSUME NEW o \in Seq(Ids), NEW p \in Seq(Ids), NEW q \in Seq(Ids), NEW i \in Ids,
         EndsLike(o, q, WindowIds), EndsLike(p, o, WindowIds - 1),
         NoDup(q), Len(q) <= WindowIds + 1, i \notin ToSet(o)
  PROVE  LET r == LastOf(Append(q, i), WindowIds + 1) IN
         /\ r \in Seq(Ids) /\ NoDup(r) /\ Len(r) <= WindowIds + 1 /\ r # q
         /\ EndsLike(Append(p, i), r, WindowIds)
         /\ q = <<>> => Len(r) = 1 /\ ToSet(r) = {i}
<1> DEFINE W == WindowIds
           L == Len(q)
           a == Append(q, i)
           off == IF L > W THEN L - W ELSE 0
           start == IF Len(a) > W + 1 THEN Len(a) - (W + 1) + 1 ELSE 1
           r == LastOf(a, W + 1)
           P == Append(p, i)
<1>1. W \in Nat /\ W >= 1 /\ L \in Nat /\ L <= W + 1 /\ Len(o) \in Nat /\ Len(p) \in Nat
  BY LimitsAssumption
<1>2. /\ a \in Seq(Ids) /\ Len(a) = L + 1 /\ a[L + 1] = i /\ \A x \in 1..L : a[x] = q[x]
  BY AppendFacts
<1>3. /\ P \in Seq(Ids) /\ Len(P) = Len(p) + 1 /\ P[Len(p) + 1] = i
      /\ \A x \in 1..Len(p) : P[x] = p[x]
  BY AppendFacts
<1>4. /\ off \in {0, 1} /\ off <= L /\ start = off + 1 /\ (off = 0 => L <= W) /\ (off = 1 => L = W + 1)
  BY <1>1, <1>2
<1> DEFINE z == SubSeq(a, off + 1, L + 1)
<1>5. r = z
  BY <1>2, <1>4 DEF LastOf
<1> HIDE DEF a, off, start, r, P
<1>6. /\ z \in Seq(Ids) /\ Len(z) = L + 1 - off /\ \A x \in 1..(L + 1 - off) : z[x] = a[x + off]
  BY <1>1, <1>2, <1>4
<1> HIDE DEF z
<1>7. /\ r \in Seq(Ids) /\ Len(r) = L + 1 - off /\ Len(r) \in Nat /\ Len(r) <= W + 1
      /\ r[Len(r)] = i /\ \A x \in 1..(Len(r) - 1) : r[x] = q[x + off] /\ x + off \in 1..L
  <2>1. \A x \in 1..(L - off) : z[x] = q[x + off] /\ x + off \in 1..L
    BY <1>1, <1>2, <1>4, <1>6
  <2>2. z[L + 1 - off] = a[L + 1]
    <3>1. L + 1 - off \in 1..(L + 1 - off) /\ (L + 1 - off) + off = L + 1
      BY <1>1, <1>4
    <3>2. QED  BY <1>6, <3>1
  <2>3. Len(z) - 1 = L - off /\ Len(z) \in Nat /\ Len(z) <= W + 1
    BY <1>1, <1>4, <1>6
  <2>4. QED  BY <1>2, <1>5, <1>6, <2>1, <2>2, <2>3
<1>8. \A j \in 0..W : j < W /\ j < L => j < Len(o) /\ o[Len(o) - j] = q[L - j]
  BY DEF EndsLike
<1>9. L <= W => o = q
  BY DEF EndsLike
<1>10. ASSUME NEW x \in 1..(Len(r) - 1) PROVE r[x] # i
  <2>1. L - (x + off) \in 0..W /\ L - (x + off) < W /\ L - (x + off) < L /\ L - (L - (x + off)) = x + off
    BY <1>1, <1>4, <1>7, <1>10
  <2>2. L - (x + off) < Len(o) /\ o[Len(o) - (L - (x + off))] = q[x + off]
    BY <1>8, <2>1
  <2>3. Len(o) - (L - (x + off)) \in 1..Len(o)
    <3>1. \A n, k \in Nat : k < n => n - k \in 1..n
      OBVIOUS
    <3>2. L - (x + off) \in Nat
      BY <1>1, <2>1
    <3>3. QED  BY <1>1, <2>2, <3>1, <3>2
  <2>4. q[x + off] \in ToSet(o)
    <3>1. DOMAIN o = 1..Len(o)
      BY <1>1
    <3>2. QED  BY <2>2, <2>3, <3>1 DEF ToSet
  <2>5. r[x] = q[x + off]
    BY <1>7
  <2>6. QED  BY <2>4, <2>5
<1>11. NoDup(r)
  <2> SUFFICES ASSUME NEW x \in 1..Len(r), NEW y \in 1..Len(r), r[x] = r[y] PROVE x = y
    BY DEF NoDup
  <2>1. CASE x = Len(r) \/ y = Len(r)
    <3>1. x = Len(r) => y \notin 1..(Len(r) - 1)
      BY <1>7, <1>10
    <3>2. y = Len(r) => x \notin 1..(Len(r) - 1)
      BY <1>7, <1>10
    <3>3. QED  BY <1>7, <2>1, <3>1, <3>2
  <2>2. CASE x # Len(r) /\ y # Len(r)
    <3>1. x \in 1..(Len(r) - 1) /\ y \in 1..(Len(r) - 1)
      BY <1>7, <2>2
    <3>2. q[x + off] = q[y + off] /\ x + off \in 1..L /\ y + off \in 1..L
      BY <1>7, <3>1
    <3>3. x + off = y + off
      BY <3>2 DEF NoDup
    <3>4. QED  BY <1>4, <3>1, <3>3
  <2>3. QED  BY <2>1, <2>2
<1>12. r # q
  <2>1. CASE L = 0
    BY <1>1, <1>4, <1>7, <2>1
  <2>2. CASE L # 0
    <3>1. 0 \in 0..W /\ 0 < W /\ 0 < L /\ L - 0 = L /\ Len(o) - 0 = Len(o)
      BY <1>1, <2>2
    <3>2. 0 < Len(o) /\ o[Len(o)] = q[L]
      BY <1>8, <3>1
    <3>3. q[L] \in ToSet(o)
      <4>1. DOMAIN o = 1..Len(o) /\ Len(o) \in 1..Len(o)
        BY <1>1, <3>2
      <4>2. QED  BY <3>2, <4>1 DEF ToSet
    <3>4. QED  BY <1>7, <3>3
  <2>3. QED  BY <2>1, <2>2
<1>13. EndsLike(P, r, W)
  <2>1. ASSUME NEW j \in 0..W, j < W, j < Len(r) PROVE j < Len(P) /\ P[Len(P) - j] = r[Len(r) - j]
    <3>1. CASE j = 0
      <4>1. Len(P) - j = Len(p) + 1 /\ Len(r) - j = Len(r) /\ j < Len(P)
        BY <1>1, <1>3, <1>7, <3>1
      <4>2. QED  BY <1>3, <1>7, <4>1
    <3>2. CASE j # 0
      <4>1. j - 1 \in 0..W /\ j - 1 < W /\ j - 1 < L
        BY <1>1, <1>4, <1>7, <2>1, <3>2
      <4>2. j - 1 < Len(o) /\ o[Len(o) - (j - 1)] = q[L - (j - 1)]
        BY <1>8, <4>1
      <4>3. j - 1 \in 0..(W - 1) /\ j - 1 < W - 1
        BY <1>1, <2>1, <3>2
      <4>4. j - 1 < Len(p) /\ p[Len(p) - (j - 1)] = o[Len(o) - (j - 1)]
        BY <4>2, <4>3 DEF EndsLike
      <4>5. /\ Len(p) - (j - 1) \in 1..Len(p) /\ Len(P) - j = Len(p) - (j - 1) /\ j < Len(P)
        BY <1>1, <1>3, <4>1, <4>4
      <4>6. /\ Len(r) - j \in 1..(Len(r) - 1) /\ (Len(r) - j) + off = L - (j - 1)
        BY <1>1, <1>4, <1>7, <2>1, <3>2
      <4>7. P[Len(P) - j] = p[Len(p) - (j - 1)]
        BY <1>3, <4>5
      <4>8. r[Len(r) - j] = q[L - (j - 1)]
        BY <1>7, <4>6
      <4>9. QED  BY <4>2, <4>4, <4>5, <4>7, <4>8
    <3>3. QED  BY <3>1, <3>2
  <2>2. ASSUME Len(r) <= W PROVE P = r
    <3>1. off = 0 /\ L <= W /\ L <= W - 1
      BY <1>1, <1>4, <1>7, <2>2
    <3>2. o = q /\ p = o
      BY <1>9, <3>1 DEF EndsLike
    <3>3. P = a
      BY <3>2 DEF P, a
    <3>4. r = a
      <4>1. Len(r) = Len(a) /\ \A x \in 1..Len(a) : r[x] = a[x]
        BY <1>1, <1>2, <1>5, <1>6, <3>1
      <4>2. QED  BY <1>2, <1>7, <4>1
    <3>5. QED  BY <3>3, <3>4
  <2>3. QED  BY <2>1, <2>2 DEF EndsLike
<1>14. ASSUME q = <<>> PROVE Len(r) = 1 /\ ToSet(r) = {i}
  <2>1. L = 0
    BY <1>14
  <2>2. Len(r) = 1
    BY <1>1, <1>4, <1>7, <2>1
  <2>3. DOMAIN r = 1..1 /\ r[1] = i
    <3>1. r \in Seq(Ids) /\ r[Len(r)] = i
      BY <1>7
    <3>2. QED  BY <2>2, <3>1
  <2>4. QED  BY <2>2, <2>3 DEF ToSet
<1>15. QED  BY <1>7, <1>11, <1>12, <1>13, <1>14 DEF r, P, a

-----------------------------------------------------------------------------
(* The invariant of the state.                                             *)

Within(l) == l.live <= MaxEntries /\ l.ids <= MaxIds /\ l.bytes <= MaxBytes

\* The window of an active scope ends with the ids it ran lately, and is no more
\* when it ran no more.
RecentsKnown ==
  /\ recent \in [Scopes -> Seq(Ids)]
  /\ \A s \in Scopes : NoDup(recent[s]) /\ Len(recent[s]) <= WindowIds + 1
  /\ \A s \in ToSet(ledger.active) : EndsLike(ledger.order[s], recent[s], WindowIds)

LedgerInv == Sound(ledger) /\ Within(ledger) /\ RecentsKnown /\ inUse \subseteq Scopes

\* A step forgets no id of a scope that ran none.
IdsKept == \A s \in Scopes :
  Remembered(ledger', s) /\ s \in ToSet(ledger'.active) /\ recent'[s] = recent[s]
    => ToSet(ledger.order[s]) \subseteq ToSet(ledger'.order[s])

LEMMA BelowWithin ==
  ASSUME NEW l, Sound(l), Within(l), NEW m \in Below(l)
  PROVE  /\ Sound(m) /\ Within(m) /\ ToSet(m.active) \subseteq ToSet(l.active)
         /\ \A s \in ToSet(m.active) : m.order[s] = l.order[s]
<1>1. /\ MaxEntries \in Nat /\ MaxIds \in Nat /\ MaxBytes \in Nat
      /\ l.live \in Nat /\ l.ids \in Nat /\ l.bytes \in Nat
      /\ m.live \in Nat /\ m.ids \in Nat /\ m.bytes \in Nat
  BY LimitsAssumption DEF Below, Sound, Ledgers
<1>2. Sound(m) /\ Lighter(m, l)
  BY DEF Below
<1>3. QED  BY <1>1, <1>2 DEF Lighter, Within

\* A step that starts no operation.
LEMMA BecomesKeeps ==
  ASSUME LedgerInv, NEW l, Becomes(l), Sound(l), Within(l),
         ToSet(l.active) \subseteq ToSet(ledger.active),
         \A s \in ToSet(l.active) : l.order[s] = ledger.order[s]
  PROVE  LedgerInv' /\ IdsKept
<1>1. ledger' = l /\ recent' = [s \in Scopes |-> Recalled(l, s)] /\ inUse' = inUse
  BY DEF Becomes
<1>2. ToSet(l.active) \subseteq Scopes
  <2>1. l.active \in Seq(Scopes)
    BY DEF Sound, Ledgers
  <2>2. QED  BY <2>1 DEF ToSet
<1>3. ASSUME NEW s \in Scopes
      PROVE  /\ recent'[s] \in Seq(Ids) /\ NoDup(recent'[s]) /\ Len(recent'[s]) <= WindowIds + 1
             /\ s \in ToSet(l.active) => recent'[s] = recent[s]
  <2>1. CASE Remembered(l, s)
    BY <1>1, <2>1 DEF Recalled, LedgerInv, RecentsKnown
  <2>2. CASE ~Remembered(l, s)
    <3>1. recent'[s] = <<>> /\ s \notin ToSet(l.active)
      BY <1>1, <2>2 DEF Recalled, Remembered
    <3>2. <<>> \in Seq(Ids) /\ NoDup(<<>>) /\ Len(<<>>) = 0 /\ WindowIds \in Nat
      BY LimitsAssumption DEF NoDup
    <3>3. QED  BY <3>1, <3>2
  <2>3. QED  BY <2>1, <2>2
<1>4. RecentsKnown'
  <2>1. recent' \in [Scopes -> Seq(Ids)]
    BY <1>1, <1>3
  <2>2. \A s \in ToSet(ledger'.active) : EndsLike(ledger'.order[s], recent'[s], WindowIds)
    BY <1>1, <1>2, <1>3 DEF LedgerInv, RecentsKnown
  <2>3. QED  BY <1>3, <2>1, <2>2 DEF RecentsKnown
<1>5. IdsKept
  BY <1>1 DEF IdsKept
<1>6. Sound(ledger') /\ Within(ledger') /\ inUse' \subseteq Scopes
  BY <1>1 DEF LedgerInv
<1>7. QED  BY <1>4, <1>5, <1>6 DEF LedgerInv

LEMMA GivesUp ==
  ASSUME LedgerInv, NEW l \in Below(ledger), Becomes(l)
  PROVE  LedgerInv' /\ IdsKept
<1>1. /\ Sound(l) /\ Within(l) /\ ToSet(l.active) \subseteq ToSet(ledger.active)
      /\ \A s \in ToSet(l.active) : l.order[s] = ledger.order[s]
  BY BelowWithin DEF LedgerInv
<1>2. QED  BY <1>1, BecomesKeeps

\* run, a new id.
LEMMA AdmitKeeps ==
  ASSUME LedgerInv, NEW s \in Scopes, NEW i \in Ids, NEW bytes \in Sizes, Admit(s, i, bytes)
  PROVE  LedgerInv' /\ IdsKept
<1>1. PICK l \in Prunings(ledger) :
        LET roomy == MakeRoom(l, s, bytes) IN
        /\ ~Known(l, s, i) /\ ~Overloaded(l, bytes) /\ HasRoom(roomy, bytes)
        /\ ledger' = Installed(roomy, s, i, bytes)
        /\ recent' = [t \in Scopes |->
             IF t = s THEN LastOf(Append(Recalled(roomy, s), i), WindowIds + 1)
             ELSE Recalled(roomy, t)]
        /\ inUse' = inUse
  BY DEF Admit
<1> DEFINE r == MakeRoom(l, s, bytes)
           m == Installed(r, s, i, bytes)
           q == Recalled(r, s)
<1>2. /\ ~Known(l, s, i) /\ HasRoom(r, bytes) /\ ledger' = m /\ inUse' = inUse
      /\ recent' = [t \in Scopes |-> IF t = s THEN LastOf(Append(q, i), WindowIds + 1)
                                     ELSE Recalled(r, t)]
  BY <1>1
<1>3. /\ Sound(l) /\ ToSet(l.active) \subseteq ToSet(ledger.active)
      /\ \A t \in ToSet(l.active) : l.order[t] = ledger.order[t]
  BY PruneSound, BelowWithin DEF LedgerInv
<1>4. bytes \in Nat
  BY LimitsAssumption
<1>5. Sound(r) /\ Roomier(r, l, s)
  BY <1>3, <1>4, MakeRoomSound
<1> HIDE DEF r, m, q
<1>6. s \notin ToSet(l.forgotten) /\ l.slot[s][i] = "none"
  BY <1>2 DEF Known
<1>7. s \notin ToSet(r.forgotten) /\ r.slot[s][i] = "none"
  BY <1>5, <1>6 DEF Roomier
<1>8. /\ Sound(m) /\ ToSet(m.active) = ToSet(r.active) \cup {s}
      /\ m.order[s] = Append(r.order[s], i) /\ m.forgotten = r.forgotten
      /\ \A t \in Scopes \ {s} : m.order[t] = r.order[t]
      /\ m.live = r.live + 1 /\ m.ids = r.ids + 1 /\ m.bytes = r.bytes + bytes
  <2>1. Grown(r, Installed(r, s, i, bytes), s, i, bytes)
    BY <1>4, <1>5, <1>7, InstalledSound
  <2>2. Grown(r, m, s, i, bytes)
    BY <2>1 DEF m
  <2>3. QED  BY <2>2 DEF Grown
<1>9. Within(m)
  <2>1. /\ MaxEntries \in Nat /\ MaxIds \in Nat /\ MaxBytes \in Nat
        /\ r.live \in Nat /\ r.ids \in Nat /\ r.bytes \in Nat
    BY <1>5, LimitsAssumption DEF Sound, Ledgers
  <2>2. r.ids < MaxIds /\ r.live + 1 <= MaxEntries /\ r.bytes + bytes <= MaxBytes
    BY <1>2 DEF HasRoom, Fits
  <2>3. QED  BY <1>4, <1>8, <2>1, <2>2 DEF Within
<1>10. /\ ToSet(r.active) \subseteq ToSet(ledger.active) /\ ToSet(r.active) \subseteq Scopes
       /\ \A t \in ToSet(r.active) \ {s} : m.order[t] = ledger.order[t]
  <2>1. r.active \in Seq(Scopes)
    BY <1>5 DEF Sound, Ledgers
  <2>2. ToSet(r.active) \subseteq Scopes
    BY <2>1 DEF ToSet
  <2>3. ToSet(r.active) \subseteq ToSet(l.active) /\ \A t \in ToSet(r.active) \ {s} : r.order[t] = l.order[t]
    BY <1>5 DEF Roomier
  <2>4. QED  BY <1>3, <1>8, <2>2, <2>3
<1>11. /\ recent \in [Scopes -> Seq(Ids)] /\ WindowIds \in Nat /\ WindowIds >= 1
       /\ \A t \in Scopes : NoDup(recent[t]) /\ Len(recent[t]) <= WindowIds + 1
       /\ \A t \in ToSet(ledger.active) : EndsLike(ledger.order[t], recent[t], WindowIds)
  BY LimitsAssumption DEF LedgerInv, RecentsKnown
<1>12. l.order[s] \in Seq(Ids) /\ r.order[s] \in Seq(Ids) /\ i \notin ToSet(l.order[s])
  BY <1>3, <1>5, <1>6 DEF Sound, Ledgers, WindowsAgree
<1>13. NoDup(<<>>) /\ Len(<<>>) = 0 /\ <<>> \in Seq(Ids) /\ \A n \in Nat : EndsLike(<<>>, <<>>, n)
  BY DEF NoDup, EndsLike
<1>14. /\ q \in Seq(Ids) /\ NoDup(q) /\ Len(q) <= WindowIds + 1
       /\ EndsLike(l.order[s], q, WindowIds) /\ EndsLike(r.order[s], l.order[s], WindowIds - 1)
       /\ s \in ToSet(r.active) => q = recent[s]
       /\ s \notin ToSet(r.active) => q = <<>>
  <2>1. CASE s \in ToSet(r.active)
    <3>1. q = recent[s]
      BY <2>1 DEF q, Recalled, Remembered
    <3>2. EndsLike(r.order[s], l.order[s], WindowIds - 1) /\ s \in ToSet(l.active)
      BY <1>5, <2>1 DEF Roomier
    <3>3. EndsLike(l.order[s], recent[s], WindowIds)
      <4>1. s \in ToSet(ledger.active) /\ l.order[s] = ledger.order[s]
        BY <1>3, <3>2
      <4>2. QED  BY <1>11, <4>1
    <3>4. QED  BY <1>11, <2>1, <3>1, <3>2, <3>3
  <2>2. CASE s \notin ToSet(r.active)
    <3>1. q = <<>>
      BY <1>7, <2>2 DEF q, Recalled, Remembered
    <3>2. s \notin ToSet(l.active)
      BY <1>5, <2>2 DEF Roomier
    <3>3. l.order[s] = <<>>
      BY <1>3, <3>2 DEF Sound, WindowsAgree
    <3>4. r.order[s] = <<>>
      BY <1>5, <2>2 DEF Sound, WindowsAgree
    <3>5. WindowIds - 1 \in Nat
      BY <1>11
    <3>6. QED  BY <1>11, <1>13, <2>2, <3>1, <3>3, <3>4, <3>5
  <2>3. QED  BY <2>1, <2>2
<1>15. /\ recent'[s] \in Seq(Ids) /\ NoDup(recent'[s]) /\ Len(recent'[s]) <= WindowIds + 1
       /\ recent'[s] # q /\ EndsLike(m.order[s], recent'[s], WindowIds)
       /\ q = <<>> => Len(recent'[s]) = 1 /\ ToSet(recent'[s]) = {i}
  <2> DEFINE n == LastOf(Append(q, i), WindowIds + 1)
  <2>1. recent'[s] = n
    BY <1>2
  <2>2. /\ n \in Seq(Ids) /\ NoDup(n) /\ Len(n) <= WindowIds + 1 /\ n # q
        /\ EndsLike(Append(r.order[s], i), n, WindowIds)
        /\ q = <<>> => Len(n) = 1 /\ ToSet(n) = {i}
    <3> DEFINE o == l.order[s]
               p == r.order[s]
    <3>1. /\ o \in Seq(Ids) /\ p \in Seq(Ids) /\ q \in Seq(Ids) /\ i \notin ToSet(o)
          /\ EndsLike(o, q, WindowIds) /\ EndsLike(p, o, WindowIds - 1)
          /\ NoDup(q) /\ Len(q) <= WindowIds + 1
      BY <1>12, <1>14
    <3> HIDE DEF o, p
    <3>2. QED  BY <3>1, RecentKept DEF p
  <2> HIDE DEF n
  <2>3. QED  BY <1>8, <2>1, <2>2
<1>16. ASSUME NEW t \in Scopes, t # s
       PROVE  /\ recent'[t] \in Seq(Ids) /\ NoDup(recent'[t]) /\ Len(recent'[t]) <= WindowIds + 1
              /\ t \in ToSet(r.active) => recent'[t] = recent[t]
  <2>1. recent'[t] = IF Remembered(r, t) THEN recent[t] ELSE <<>>
    BY <1>2, <1>16 DEF Recalled
  <2>2. CASE Remembered(r, t)
    BY <1>11, <2>1, <2>2
  <2>3. CASE ~Remembered(r, t)
    <3>1. recent'[t] = <<>> /\ t \notin ToSet(r.active)
      BY <2>1, <2>3 DEF Remembered
    <3>2. QED  BY <1>11, <1>13, <3>1
  <2>4. QED  BY <2>2, <2>3
<1>17. RecentsKnown'
  <2>1. recent' \in [Scopes -> Seq(Ids)]
    <3>1. \A t \in Scopes : recent'[t] \in Seq(Ids)
      BY <1>15, <1>16
    <3>2. recent' = [t \in Scopes |-> recent'[t]]
      BY <1>2
    <3>3. QED  BY <3>1, <3>2
  <2>2. \A t \in Scopes : NoDup(recent'[t]) /\ Len(recent'[t]) <= WindowIds + 1
    BY <1>15, <1>16
  <2>3. ASSUME NEW t \in ToSet(m.active) PROVE EndsLike(m.order[t], recent'[t], WindowIds)
    <3>1. CASE t = s
      BY <1>15, <3>1
    <3>2. CASE t # s
      <4>1. t \in ToSet(r.active) /\ t \in Scopes /\ t \in ToSet(ledger.active)
        BY <1>8, <1>10, <3>2
      <4>2. m.order[t] = ledger.order[t] /\ recent'[t] = recent[t]
        BY <1>10, <1>16, <3>2, <4>1
      <4>3. QED  BY <1>11, <4>1, <4>2
    <3>3. QED  BY <3>1, <3>2
  <2>4. QED  BY <1>2, <2>1, <2>2, <2>3 DEF RecentsKnown
<1>18. IdsKept
  <2> SUFFICES ASSUME NEW t \in Scopes, t \in ToSet(m.active), recent'[t] = recent[t]
               PROVE  ToSet(ledger.order[t]) \subseteq ToSet(m.order[t])
    BY <1>2 DEF IdsKept
  <2>1. CASE t # s
    BY <1>8, <1>10, <2>1
  <2>2. CASE t = s
    <3>1. s \notin ToSet(r.active) /\ q = <<>>
      BY <1>14, <1>15, <2>2
    <3>2. Len(recent[s]) = 1 /\ ToSet(recent[s]) = {i}
      BY <1>15, <2>2, <3>1
    <3>3. CASE s \in ToSet(ledger.active)
      <4>1. ledger.order[s] = recent[s]
        <5>1. EndsLike(ledger.order[s], recent[s], WindowIds)
          BY <1>11, <3>3
        <5>2. Len(recent[s]) <= WindowIds
          BY <1>11, <3>2
        <5>3. QED  BY <5>1, <5>2 DEF EndsLike
      <4>2. i \in ToSet(m.order[s])
        <5> DEFINE p == r.order[s]
        <5>1. p \in Seq(Ids) /\ m.order[s] = Append(p, i)
          BY <1>8, <1>12
        <5> HIDE DEF p
        <5>2. ToSet(Append(p, i)) = ToSet(p) \cup {i}
          BY <5>1, AppendFacts
        <5>3. QED  BY <5>1, <5>2
      <4>3. QED  BY <2>2, <3>2, <4>1, <4>2
    <3>4. CASE s \notin ToSet(ledger.active)
      <4>1. ledger.order[s] = <<>>
        BY <3>4 DEF LedgerInv, Sound, WindowsAgree
      <4>2. ToSet(<<>>) = {}
        BY DEF ToSet
      <4>3. QED  BY <2>2, <4>1, <4>2
    <3>5. QED  BY <3>3, <3>4
  <2>3. QED  BY <2>1, <2>2
<1>19. inUse' \subseteq Scopes
  BY <1>2 DEF LedgerInv
<1>20. QED  BY <1>2, <1>8, <1>9, <1>17, <1>18, <1>19 DEF LedgerInv

-----------------------------------------------------------------------------
(* The other steps.                                                        *)

LEMMA ResendKeeps ==
  ASSUME LedgerInv, NEW s \in Scopes, NEW i \in Ids, Resend(s, i)
  PROVE  LedgerInv' /\ IdsKept
<1>1. PICK l \in Prunings(ledger) : Becomes(l)
  BY DEF Resend
<1>2. l \in Below(ledger)
  BY PruneSound DEF LedgerInv
<1>3. QED  BY <1>1, <1>2, GivesUp

LEMMA IsForgottenKeeps ==
  ASSUME LedgerInv, IsForgotten
  PROVE  LedgerInv' /\ IdsKept
<1>1. PICK l \in Prunings(ledger) : Becomes(l)
  BY DEF IsForgotten
<1>2. l \in Below(ledger)
  BY PruneSound DEF LedgerInv
<1>3. QED  BY <1>1, <1>2, GivesUp

\* run, refused: after the limits that nothing can help, and then only for want of
\* ids, for which no id of s goes.
LEMMA RefuseKeeps ==
  ASSUME LedgerInv, NEW s \in Scopes, NEW i \in Ids, NEW bytes \in Sizes, Refuse(s, i, bytes)
  PROVE  LedgerInv' /\ IdsKept
<1>1. PICK l \in Prunings(ledger) :
        \/ Becomes(l)
        \/ /\ ~Overloaded(l, bytes) /\ ~HasRoom(MakeRoom(l, s, bytes), bytes)
           /\ Becomes(MakeRoom(l, s, bytes))
  BY DEF Refuse
<1>2. l \in Below(ledger) /\ Sound(l) /\ Within(l)
  BY PruneSound, BelowWithin DEF LedgerInv
<1>3. CASE Becomes(l)
  BY <1>2, <1>3, GivesUp
<1>4. CASE /\ ~Overloaded(l, bytes) /\ ~HasRoom(MakeRoom(l, s, bytes), bytes)
           /\ Becomes(MakeRoom(l, s, bytes))
  <2> DEFINE r == MakeRoom(l, s, bytes)
  <2>1. bytes \in Nat /\ l.ids <= MaxIds
    BY <1>2, LimitsAssumption DEF Within
  <2>2. r \in Below(l)
    BY <1>2, <1>4, <2>1, MakeRoomSound
  <2>3. Becomes(r)
    BY <1>4
  <2> HIDE DEF r
  <2>4. r \in Below(ledger)
    BY <1>2, <2>2, BelowFacts DEF LedgerInv, Below
  <2>5. QED  BY <2>3, <2>4, GivesUp
<1>5. QED  BY <1>1, <1>3, <1>4

LEMMA RetainTerminalKeeps ==
  ASSUME LedgerInv, NEW s \in Scopes, NEW i \in Ids, NEW bytes \in Sizes,
         RetainTerminal(s, i, bytes)
  PROVE  LedgerInv' /\ IdsKept
<1> DEFINE k == <<s, i>>
           r == Reserve(ledger, 0, bytes)
           kept == [r EXCEPT !.progress[k] = "retained", !.size[k] = @ + bytes,
                             !.bytes = @ + bytes, !.runningBytes = @ + bytes]
           lost == [r EXCEPT !.progress[k] = "unretained"]
<1>1. k \in Keys /\ ledger.progress[k] = "running" /\ Becomes(IF Fits(r, 0, bytes) THEN kept ELSE lost)
  BY KeysFinite DEF RetainTerminal
<1>2. bytes \in Nat /\ 0 \in Nat /\ Sound(ledger) /\ Within(ledger)
  BY LimitsAssumption DEF LedgerInv
<1>3. r \in Below(ledger) /\ r.order = ledger.order /\ r.active = ledger.active
  BY <1>2, ReserveSound
<1> HIDE DEF r
<1>4. Sound(r) /\ Within(r) /\ r \in Ledgers
  BY <1>2, <1>3, BelowWithin DEF Sound
<1>5. k \in Open(r)
  BY <1>1, <1>3 DEF Below, Lighter, Open, Unsettled
<1> HIDE DEF k
<1>6. CASE Fits(r, 0, bytes)
  <2> DEFINE b == [r EXCEPT !.progress[k] = "retained"]
             c == [b EXCEPT !.size[k] = @ + bytes, !.bytes = @ + bytes, !.runningBytes = @ + bytes]
  <2>1. "retained" \in Unsettled
    BY DEF Unsettled
  <2>2. Sound(b) /\ SameMaps(b, r) /\ b.bytes = r.bytes
    BY <1>4, <1>5, <2>1, ProgressSound
  <2>3. k \in Open(b)
    <3>1. r.progress \in [Keys -> {"none"} \cup Unsettled] /\ k \in Keys
      BY <1>4, <1>5 DEF Ledgers, Open
    <3>2. b.progress[k] = "retained"
      BY <1>4, <3>1 DEF Ledgers
    <3> HIDE DEF b
    <3>3. QED  BY <2>1, <3>1, <3>2 DEF Open
  <2>4. kept = c
    BY <1>4 DEF Ledgers
  <2> HIDE DEF b, kept
  <2>5. Sound(c) /\ SameMaps(c, b) /\ c.bytes = b.bytes + bytes
    BY <1>2, <2>2, <2>3, CountedSound
  <2> HIDE DEF c
  <2>6. Within(c)
    <3>1. /\ MaxEntries \in Nat /\ MaxIds \in Nat /\ MaxBytes \in Nat
          /\ r.live \in Nat /\ r.ids \in Nat /\ r.bytes \in Nat
      BY <1>4, LimitsAssumption DEF Ledgers
    <3>2. r.bytes + bytes <= MaxBytes
      BY <1>6 DEF Fits
    <3>3. c.live = r.live /\ c.ids = r.ids /\ c.bytes = r.bytes + bytes
      BY <2>2, <2>5 DEF SameMaps
    <3>4. QED  BY <1>4, <3>1, <3>2, <3>3 DEF Within
  <2>7. c.order = ledger.order /\ c.active = ledger.active
    BY <1>3, <2>2, <2>5 DEF SameMaps
  <2>8. Becomes(c)
    BY <1>1, <1>6, <2>4
  <2>9. QED  BY <2>5, <2>6, <2>7, <2>8, BecomesKeeps
<1>7. CASE ~Fits(r, 0, bytes)
  <2>1. "unretained" \in Unsettled
    BY DEF Unsettled
  <2>2. Sound(lost) /\ SameMaps(lost, r) /\ lost.bytes = r.bytes
    BY <1>4, <1>5, <2>1, ProgressSound
  <2>3. Becomes(lost)
    BY <1>1, <1>7
  <2> HIDE DEF lost
  <2>4. Within(lost) /\ lost.order = ledger.order /\ lost.active = ledger.active
    BY <1>3, <1>4, <2>2 DEF Within, SameMaps
  <2>5. QED  BY <2>2, <2>3, <2>4, BecomesKeeps
<1>8. QED  BY <1>6, <1>7

LEMMA RetainNothingKeeps ==
  ASSUME LedgerInv, NEW s \in Scopes, NEW i \in Ids, RetainNothing(s, i)
  PROVE  LedgerInv' /\ IdsKept
<1> DEFINE k == <<s, i>>
           lost == [ledger EXCEPT !.progress[k] = "unretained"]
<1>1. k \in Keys /\ ledger.progress[k] = "running" /\ Becomes(lost)
  BY KeysFinite DEF RetainNothing
<1>2. k \in Open(ledger) /\ "unretained" \in Unsettled /\ Sound(ledger) /\ Within(ledger)
  BY <1>1 DEF Open, Unsettled, LedgerInv
<1> HIDE DEF k
<1>3. Sound(lost) /\ SameMaps(lost, ledger) /\ lost.bytes = ledger.bytes
  BY <1>2, ProgressSound
<1> HIDE DEF lost
<1>4. Within(lost) /\ lost.order = ledger.order /\ lost.active = ledger.active
  BY <1>2, <1>3 DEF Within, SameMaps
<1>5. QED  BY <1>1, <1>3, <1>4, BecomesKeeps

LEMMA SettleKeeps ==
  ASSUME LedgerInv, NEW s \in Scopes, NEW i \in Ids, Settle(s, i)
  PROVE  LedgerInv' /\ IdsKept
<1> DEFINE k == <<s, i>>
           was == ledger.progress[k]
           b == IF s \in ToSet(ledger.active) THEN Touch(ledger, s) ELSE ledger
           c == [b EXCEPT !.progress[k] = "none", !.runningBytes = @ - ledger.size[k]]
           d == [b EXCEPT !.progress[k] = "none", !.runningBytes = @ - b.size[k]]
           t == Tombstone(d, k)
           m == [b EXCEPT !.progress[k] = "none", !.runningBytes = @ - b.size[k],
                          !.settled = Append(@, k)]
<1>1. /\ k \in Keys /\ was \in Unsettled
      /\ Becomes(IF was = "unretained" THEN Tombstone(c, k) ELSE [c EXCEPT !.settled = Append(@, k)])
  BY KeysFinite DEF Settle, Unsettled
<1>2. Sound(ledger) /\ Within(ledger)
  BY DEF LedgerInv
<1>3. /\ Sound(b) /\ ToSet(b.active) = ToSet(ledger.active)
      /\ b.order = ledger.order /\ b.progress = ledger.progress /\ b.size = ledger.size
      /\ b.live = ledger.live /\ b.ids = ledger.ids /\ b.bytes = ledger.bytes
  <2>1. CASE s \in ToSet(ledger.active)
    <3>1. s \notin ToSet(ledger.forgotten)
      BY <1>2, <2>1 DEF Sound, WindowsAgree
    <3>2. ToSet(ledger.active) \cup {s} = ToSet(ledger.active)
      BY <2>1
    <3>3. QED  BY <1>2, <2>1, <3>1, <3>2, TouchSound
  <2>2. CASE s \notin ToSet(ledger.active)
    BY <1>2, <2>2
  <2>3. QED  BY <2>1, <2>2
<1> HIDE DEF b, k
<1>4. k \in Open(b) /\ c = d /\ b \in Ledgers
  BY <1>1, <1>3 DEF Open, Sound
<1>5. CASE was = "unretained"
  <2>1. /\ Sound(t) /\ t.order = b.order /\ t.active = b.active
        /\ t.live <= b.live /\ t.ids = b.ids /\ t.bytes <= b.bytes
    BY <1>3, <1>4, GivenUpSound
  <2>2. Becomes(t)
    BY <1>1, <1>4, <1>5
  <2> HIDE DEF t
  <2>3. Within(t)
    <3>1. /\ MaxEntries \in Nat /\ MaxBytes \in Nat /\ t.live \in Nat /\ t.bytes \in Nat
          /\ b.live \in Nat /\ b.bytes \in Nat
      BY <1>4, <2>1, LimitsAssumption DEF Sound, Ledgers
    <3>2. QED  BY <1>2, <1>3, <2>1, <3>1 DEF Within
  <2>4. QED  BY <1>3, <2>1, <2>2, <2>3, BecomesKeeps
<1>6. CASE was # "unretained"
  <2>1. Sound(m) /\ SameMaps(m, b) /\ m.bytes = b.bytes
    BY <1>3, <1>4, SettledSound
  <2>2. m = [d EXCEPT !.settled = Append(@, k)]
    BY <1>4 DEF Ledgers
  <2>3. Becomes(m)
    BY <1>1, <1>4, <1>6, <2>2
  <2> HIDE DEF m
  <2>4. /\ Within(m) /\ m.order = ledger.order /\ ToSet(m.active) = ToSet(ledger.active)
    BY <1>2, <1>3, <2>1 DEF Within, SameMaps
  <2>5. QED  BY <2>1, <2>3, <2>4, BecomesKeeps
<1>7. QED  BY <1>5, <1>6

-----------------------------------------------------------------------------
(* The theorems.                                                           *)

LEMMA LedgerInitSound == LedgerInit => LedgerInv
<1> SUFFICES ASSUME LedgerInit PROVE LedgerInv
  OBVIOUS
<1> DEFINE zero == [k \in Keys |-> 0]
<1>1. /\ MaxEntries \in Nat /\ MaxIds \in Nat /\ MaxBytes \in Nat /\ MaxForgotten \in Nat
      /\ WindowIds \in Nat
  BY LimitsAssumption
<1>2. /\ <<>> \in Seq(Ids) /\ <<>> \in Seq(Keys) /\ <<>> \in Seq(Scopes) /\ Len(<<>>) = 0
      /\ NoDup(<<>>) /\ ToSet(<<>>) = {} /\ \A n \in Nat : EndsLike(<<>>, <<>>, n)
  BY DEF NoDup, ToSet, EndsLike
<1>3. /\ ledger.order = [s \in Scopes |-> <<>>] /\ ledger.settled = <<>>
      /\ ledger.slot = [s \in Scopes |-> [i \in Ids |-> "none"]] /\ ledger.size = zero
      /\ ledger.progress = [k \in Keys |-> "none"]
      /\ ledger.active = <<>> /\ ledger.forgotten = <<>>
      /\ ledger.live = 0 /\ ledger.ids = 0 /\ ledger.bytes = 0 /\ ledger.runningBytes = 0
      /\ inUse = {} /\ recent = [s \in Scopes |-> <<>>]
  BY DEF LedgerInit
<1>4. ledger \in Ledgers
  <2>1. /\ [s \in Scopes |-> <<>>] \in [Scopes -> Seq(Ids)]
        /\ [s \in Scopes |-> [i \in Ids |-> "none"]] \in [Scopes -> [Ids -> Slots]]
        /\ zero \in [Keys -> Nat]
        /\ [k \in Keys |-> "none"] \in [Keys -> {"none"} \cup Unsettled]
    BY <1>2 DEF Slots
  <2>2. QED  BY <1>2, <2>1 DEF LedgerInit, Ledgers
<1>5. Live(ledger) = {} /\ Used(ledger) = {} /\ Open(ledger) = {}
  <2>1. \A k \in Keys : ledger.slot[k[1]][k[2]] = "none"
    BY <1>3, KeysFinite
  <2>2. \A k \in Keys : ledger.progress[k] = "none"
    BY <1>3
  <2>3. QED  BY <2>1, <2>2 DEF Live, Used, Open, Unsettled
<1>6. Total(zero, Keys) = 0 /\ Total(zero, {}) = 0
  <2>1. IsFiniteSet({}) /\ IsFiniteSet(Keys) /\ {} \subseteq Keys
    BY KeysFinite, FS_EmptySet
  <2>2. (\A k \in Keys : zero[k] \in Nat) /\ (\A k \in Keys \ {} : zero[k] = 0) /\ (\A k \in {} : zero[k] \in Nat)
    OBVIOUS
  <2> HIDE DEF zero
  <2>3. Total(zero, {}) = 0
    BY <2>1, <2>2, TotalFacts
  <2>4. Total(zero, Keys) = Total(zero, {})
    BY <2>1, <2>2, TotalWithout
  <2>5. QED  BY <2>3, <2>4
<1>7. CountersAgree(ledger)
  <2>1. Cardinality({}) = 0
    BY FS_EmptySet
  <2>2. \A k \in Keys : ledger.size[k] = 0
    BY <1>3
  <2> HIDE DEF zero
  <2>3. QED  BY <1>3, <1>5, <1>6, <2>1, <2>2 DEF CountersAgree
<1>8. SettledAgree(ledger)
  BY <1>2, <1>3, <1>5 DEF SettledAgree
<1>9. WindowsAgree(ledger)
  BY <1>1, <1>2, <1>3 DEF WindowsAgree
<1>10. Within(ledger) /\ RecentsKnown
  BY <1>1, <1>2, <1>3 DEF Within, RecentsKnown
<1>11. QED  BY <1>3, <1>4, <1>7, <1>8, <1>9, <1>10 DEF LedgerInv, Sound

LEMMA LedgerStep == LedgerInv /\ [LedgerNext]_ledgerVars => LedgerInv' /\ (IdsKept \/ UNCHANGED ledgerVars)
<1> SUFFICES ASSUME LedgerInv, [LedgerNext]_ledgerVars PROVE LedgerInv' /\ (IdsKept \/ UNCHANGED ledgerVars)
  OBVIOUS
<1>1. ASSUME UNCHANGED <<ledger, recent>>, inUse' \subseteq Scopes PROVE LedgerInv' /\ IdsKept
  BY <1>1 DEF LedgerInv, RecentsKnown, IdsKept
<1>2. CASE UNCHANGED ledgerVars
  BY <1>1, <1>2 DEF ledgerVars, LedgerInv
<1>3. ASSUME NEW s \in Scopes, NEW i \in Ids, NEW bytes \in Sizes, Admit(s, i, bytes)
      PROVE  LedgerInv' /\ IdsKept
  BY <1>3, AdmitKeeps
<1>4. ASSUME NEW s \in Scopes, NEW i \in Ids, NEW bytes \in Sizes, Refuse(s, i, bytes)
      PROVE  LedgerInv' /\ IdsKept
  BY <1>4, RefuseKeeps
<1>5. ASSUME NEW s \in Scopes, NEW i \in Ids, NEW bytes \in Sizes, RetainTerminal(s, i, bytes)
      PROVE  LedgerInv' /\ IdsKept
  BY <1>5, RetainTerminalKeeps
<1>6. ASSUME NEW s \in Scopes, NEW i \in Ids, Resend(s, i) PROVE LedgerInv' /\ IdsKept
  BY <1>6, ResendKeeps
<1>7. ASSUME NEW s \in Scopes, NEW i \in Ids, RetainNothing(s, i) PROVE LedgerInv' /\ IdsKept
  BY <1>7, RetainNothingKeeps
<1>8. ASSUME NEW s \in Scopes, NEW i \in Ids, Settle(s, i) PROVE LedgerInv' /\ IdsKept
  BY <1>8, SettleKeeps
<1>9. ASSUME IsForgotten PROVE LedgerInv' /\ IdsKept
  BY <1>9, IsForgottenKeeps
<1>10. ASSUME NEW s \in Scopes, Attachment(s) PROVE LedgerInv' /\ IdsKept
  <2>1. UNCHANGED <<ledger, recent>> /\ inUse' \subseteq Scopes
    BY <1>10 DEF Attachment, LedgerInv
  <2>2. QED  BY <1>1, <2>1
<1>11. QED  BY <1>2, <1>3, <1>4, <1>5, <1>6, <1>7, <1>8, <1>9, <1>10 DEF LedgerNext

LEMMA LedgerInvariant == LedgerSpec => []LedgerInv
<1>1. LedgerInv /\ [LedgerNext]_ledgerVars => LedgerInv'
  BY LedgerStep
<1>2. QED  BY LedgerInitSound, <1>1, PTL DEF LedgerSpec

\* An id never runs again while its scope remembers it, and a running operation can
\* be waited for, whatever is evicted.
THEOREM RunsOnce == LedgerSpec => []ResendsAreKnown
<1>1. LedgerInv => ResendsAreKnown
  <2> SUFFICES ASSUME LedgerInv PROVE ResendsAreKnown
    OBVIOUS
  <2>1. AtMostOnce
    <3> SUFFICES ASSUME NEW s \in Scopes, NEW m \in 1..Len(recent[s]), NEW n \in 1..Len(recent[s]), m < n
                 PROVE  recent[s][m] # recent[s][n]
      BY DEF AtMostOnce
    <3>1. NoDup(recent[s]) /\ recent[s] \in Seq(Ids)
      BY DEF LedgerInv, RecentsKnown
    <3>2. m # n
      BY <3>1
    <3>3. QED  BY <3>1, <3>2 DEF NoDup
  <2>2. RunningIsKnown
    <3> SUFFICES ASSUME NEW s \in Scopes, NEW i \in Ids, ledger.progress[<<s, i>>] \in Unsettled
                 PROVE  /\ s \in ToSet(ledger.active) \ ToSet(ledger.forgotten)
                        /\ ledger.slot[s][i] = "live" /\ i \in ToSet(ledger.order[s])
                        /\ <<s, i>> \notin ToSet(ledger.settled)
      BY DEF RunningIsKnown
    <3>1. <<s, i>> \in Open(ledger) /\ <<s, i>>[1] = s /\ <<s, i>>[2] = i
      BY KeysFinite DEF Open
    <3>2. <<s, i>> \in Live(ledger) /\ <<s, i>> \notin ToSet(ledger.settled)
      BY <3>1 DEF LedgerInv, Sound, SettledAgree
    <3>3. ledger.slot[s][i] = "live"
      BY <3>1, <3>2 DEF Live
    <3>4. i \in ToSet(ledger.order[s])
      BY <3>3 DEF LedgerInv, Sound, WindowsAgree
    <3>5. ledger.order[s] # <<>>
      BY <3>4 DEF ToSet
    <3>6. s \in ToSet(ledger.active) /\ s \notin ToSet(ledger.forgotten)
      BY <3>5 DEF LedgerInv, Sound, WindowsAgree
    <3>7. QED  BY <3>2, <3>3, <3>4, <3>6
  <2>3. QED  BY <2>1, <2>2 DEF ResendsAreKnown
<1>2. QED  BY LedgerInvariant, <1>1, PTL

\* The counters are exact, and no limit is exceeded.
THEOREM AccountsKept == LedgerSpec => []AccountsAreKept
<1>1. LedgerInv => AccountsAreKept
  <2> SUFFICES ASSUME LedgerInv PROVE AccountsAreKept
    OBVIOUS
  <2>1. ledger \in Ledgers /\ WindowsAgree(ledger) /\ CountersAgree(ledger) /\ Within(ledger)
    BY DEF LedgerInv, Sound
  <2>2. LedgerTypeOK
    BY <2>1 DEF LedgerTypeOK, Ledgers, LedgerInv, RecentsKnown
  <2>3. SlotIn({"live"}) = Live(ledger) /\ Keys \ SlotIn({"none"}) = Used(ledger)
    BY DEF SlotIn, Live, Used
  <2>4. CountersExact
    BY <2>1, <2>3 DEF CountersExact, CountersAgree, Open
  <2>5. WithinLimits
    BY <2>1 DEF WithinLimits, Within, WindowsAgree
  <2>6. QED  BY <2>2, <2>4, <2>5 DEF AccountsAreKept
<1>2. QED  BY LedgerInvariant, <1>1, PTL

\* A request refused for want of room forgets no id of its scope.
THEOREM RefusalsKeepIds == LedgerSpec => RefusalKeepsIds
<1>1. LedgerInv /\ [LedgerNext]_ledgerVars => [IdsKept]_ledgerVars
  BY LedgerStep
<1>2. QED  BY LedgerInvariant, <1>1, PTL DEF LedgerSpec, RefusalKeepsIds, IdsKept

-----------------------------------------------------------------------------
(* Admission: the invariant.                                               *)

Schedulers ==
  [queue : Seq(Entries), running : SUBSET Children, consulting : SUBSET Children,
   toolWaits : SUBSET Children, yielded : SUBSET Children, parents : SUBSET Children,
   paused : SUBSET Children]

\* The entries of those who wait: each is in the queue once.
Wanted(w, q) == {e \in Entries :
  IF e.consultation THEN q[e.child] = "queued" ELSE w[e.child] \in DOMAIN Granted}

QueueAgrees(p, w, q) == NoDup(p.queue) /\ ToSet(p.queue) = Wanted(w, q)

\* Whoever calls a model, or will without asking for a place again, has one that it
\* did not lend; only tools, and what comes right after them, lend a place.
PlacesAgree(p, w, q, gone, over) ==
  /\ p.consulting = {c \in Children : q[c] = "streaming"}
  /\ \A c \in Children :
       /\ c \in p.toolWaits => w[c] = "tools"
       /\ c \in p.yielded => w[c] \in {"tools", "boundary"}
       /\ c \in p.parents => w[c] \notin {"unborn", "ghost", "ended"}
       /\ c \in p.running \/ q[c] # "none" => w[c] # "unborn"
       /\ w[c] \in {"starting", "resuming", "model"} => c \in p.running
       /\ w[c] \in {"tools", "boundary"} /\ c \notin gone => c \in p.running \cup p.yielded
       /\ w[c] = "waking" /\ c \notin gone \cup over => c \in p.running

\* Who counts against the limits, wherever it is: a place that was lent does not, nor
\* does that of a child which ended before it began.
Holders(p, w) == {c \in Children :
  c \in p.consulting \/ (c \in p.running \ p.yielded /\ c \in LiveChildren(w))}

Bounded(holders) ==
  /\ Cardinality(holders) <= MaxConcurrent
  /\ Cardinality(holders \ Ephemeral) <= OrdinaryLimit
  /\ \A g \in Groups : Cardinality(holders \cap Members[g]) <= GroupLimit[g]

Placed(p, w, q, gone, over) ==
  /\ p \in Schedulers /\ w \in [Children -> Works]
  /\ q \in [Children -> {"none", "queued", "streaming"}]
  /\ QueueAgrees(p, w, q) /\ PlacesAgree(p, w, q, gone, over) /\ Bounded(Holders(p, w))

\* What the tools that return only when their question is answered add: nobody
\* between turns has a place.
PlacesUsed(p, w, q, gone) == \A c \in Children :
  /\ c \in p.running =>
       w[c] \notin {"unborn", "queued", "reentering", "idle", "waiting", "ended"}
  /\ q[c] = "queued" => w[c] = "tools" /\ c \notin gone
  /\ q[c] = "streaming" => w[c] = "tools" \/ (c \in gone /\ w[c] \in {"boundary", "ended"})

\* The turns a child has left: none ran before it starts, and it rests only with one left.
SpentFits(used, w) ==
  /\ used \in [Children -> [batches : 0..MaxBatches, questions : 0..MaxQuestions,
                             turns : 0..MaxTurns, pauses : 0..MaxPauses]]
  /\ \A c \in Children :
       /\ w[c] \in {"unborn", "queued", "starting", "ghost"} => used[c].turns = 0
       /\ w[c] \in {"idle", "waiting", "waking"} => used[c].turns < MaxTurns

AdmissionInv ==
  /\ Placed(places, work, question, aborted, stopped)
  /\ aborted \subseteq Children /\ stopped \subseteq Persistent
  /\ SpentFits(spent, work)
  /\ ~UnawaitedQuestions => PlacesUsed(places, work, question, aborted)

-----------------------------------------------------------------------------
(* Admission: the pass that grants places.                                 *)

LEMMA TreeFacts ==
  /\ IsFiniteSet(Children) /\ MaxConcurrent \in Nat \ {0} /\ OrdinaryLimit \in Nat \ {0}
  /\ \A x \in Groups : GroupLimit[x] \in Nat \ {0} /\ Members[x] \subseteq Children
  /\ Ephemeral \subseteq Children /\ Persistent \subseteq Children
  /\ MaxTurns \in Nat \ {0} /\ {MaxBatches, MaxQuestions, MaxPauses} \subseteq Nat
<1>1. MaxConcurrent \in Nat \ {0} /\ MaxTurns \in Nat \ {0}
  BY TreeAssumption
<1>2. OrdinaryLimit \in Nat \ {0}
  BY <1>1 DEF OrdinaryLimit
<1>3. \A x \in Groups : GroupLimit[x] \in Nat \ {0} /\ Members[x] \subseteq Children
  BY TreeAssumption
<1>4. QED  BY <1>1, <1>2, <1>3, TreeAssumption

LEMMA EntryFacts ==
  /\ \A c \in Children :
       /\ Turn(c) \in Entries /\ Turn(c).child = c /\ Turn(c).consultation = FALSE
       /\ Consultation(c) \in Entries /\ Consultation(c).child = c /\ Consultation(c).consultation = TRUE
       /\ \A d \in Children : Turn(c) # Consultation(d)
  /\ \A e \in Entries :
       /\ e.child \in Children /\ e.consultation \in BOOLEAN
       /\ e = IF e.consultation THEN Consultation(e.child) ELSE Turn(e.child)
<1>1. ASSUME NEW c \in Children
      PROVE  /\ Turn(c) \in Entries /\ Turn(c).child = c /\ Turn(c).consultation = FALSE
             /\ Consultation(c) \in Entries /\ Consultation(c).child = c
             /\ Consultation(c).consultation = TRUE
  <2>1. Turn(c) \in Entries /\ Consultation(c) \in Entries
    BY DEF Entries
  <2>2. QED  BY <2>1 DEF Turn, Consultation
<1>2. ASSUME NEW e \in Entries
      PROVE  /\ e.child \in Children /\ e.consultation \in BOOLEAN
             /\ e = IF e.consultation THEN Consultation(e.child) ELSE Turn(e.child)
  <2>1. (\E c \in Children : e = Turn(c)) \/ (\E c \in Children : e = Consultation(c))
    BY DEF Entries
  <2>2. CASE \E c \in Children : e = Turn(c)
    BY <1>1, <2>2
  <2>3. CASE \E c \in Children : e = Consultation(c)
    BY <1>1, <2>3
  <2>4. QED  BY <2>1, <2>2, <2>3
<1>3. QED  BY <1>1, <1>2

\* Fewer children keep within the limits.
LEMMA FewerBounded ==
  ASSUME NEW h, NEW k \in SUBSET Children, h \subseteq k, Bounded(k)
  PROVE  Bounded(h)
<1>1. ASSUME NEW s, NEW t \in SUBSET Children, s \subseteq t, NEW n \in Nat, Cardinality(t) <= n
      PROVE  Cardinality(s) <= n
  <2>1. IsFiniteSet(t)
    BY TreeFacts, FS_Subset
  <2>2. Cardinality(s) <= Cardinality(t) /\ IsFiniteSet(s)
    BY <1>1, <2>1, FS_Subset
  <2>3. Cardinality(s) \in Nat /\ Cardinality(t) \in Nat
    BY <2>1, <2>2, FS_CardinalityType
  <2>4. QED  BY <1>1, <2>2, <2>3
<1>2. Cardinality(h) <= MaxConcurrent
  BY <1>1, TreeFacts DEF Bounded
<1>3. Cardinality(h \ Ephemeral) <= OrdinaryLimit
  BY <1>1, TreeFacts DEF Bounded
<1>4. ASSUME NEW x \in Groups PROVE Cardinality(h \cap Members[x]) <= GroupLimit[x]
  BY <1>1, TreeFacts DEF Bounded
<1>5. QED  BY <1>2, <1>3, <1>4 DEF Bounded

\* Of some entries of a queue one is the last, and the others are before it.
LEMMA LastInQueue ==
  ASSUME NEW E, NEW q \in Seq(E), NoDup(q), NEW S \in SUBSET ToSet(q), S # {}
  PROVE  \E i \in DOMAIN q : q[i] \in S /\ S \cap {q[j] : j \in 1..(i - 1)} = S \ {q[i]}
<1> DEFINE N == Len(q)
           T == {N - i : i \in {k \in 1..N : q[k] \in S}}
<1>1. N \in Nat /\ DOMAIN q = 1..N
  OBVIOUS
<1>2. \A e \in S : \E k \in 1..N : q[k] = e
  BY <1>1 DEF ToSet
<1>3. T \in SUBSET Nat /\ T # {}
  <2>1. PICK e \in S : TRUE
    OBVIOUS
  <2>2. PICK k \in 1..N : q[k] = e
    BY <1>2
  <2>3. N - k \in T
    BY <2>1, <2>2
  <2>4. QED  BY <1>1, <2>3
<1>4. PICK n \in T : \A m \in T : n <= m
  <2> HIDE DEF T
  <2>1. QED  BY <1>3, LeastNumber
<1>5. PICK i \in 1..N : n = N - i /\ q[i] \in S
  BY <1>4
<1>6. \A k \in 1..N : q[k] \in S => k <= i
  <2> TAKE k \in 1..N
  <2> HAVE q[k] \in S
  <2>1. N - k \in T
    OBVIOUS
  <2>2. N - i <= N - k
    BY <1>4, <1>5, <2>1
  <2>3. QED  BY <1>1, <2>2
<1>7. S \cap {q[j] : j \in 1..(i - 1)} = S \ {q[i]}
  <2>1. ASSUME NEW e \in S, e # q[i] PROVE e \in {q[j] : j \in 1..(i - 1)}
    <3>1. PICK k \in 1..N : q[k] = e
      BY <1>2
    <3>2. k <= i /\ k # i
      BY <1>6, <2>1, <3>1
    <3>3. k \in 1..(i - 1)
      BY <1>1, <3>2
    <3>4. QED  BY <3>1, <3>3
  <2>2. q[i] \notin {q[j] : j \in 1..(i - 1)}
    <3> SUFFICES ASSUME NEW j \in 1..(i - 1), q[i] = q[j] PROVE FALSE
      OBVIOUS
    <3>1. j \in 1..N /\ j # i
      BY <1>1
    <3>2. QED  BY <1>1, <3>1 DEF NoDup
  <2>3. QED  BY <2>1, <2>2
<1>8. QED  BY <1>1, <1>5, <1>7

\* The children of some entries are no more than these.
Kids(G) == {e.child : e \in G}

LEMMA KidsFewer ==
  ASSUME NEW G, IsFiniteSet(G)
  PROVE  IsFiniteSet(Kids(G)) /\ Cardinality(Kids(G)) <= Cardinality(G)
<1> DEFINE f == [e \in G |-> e.child]
<1>1. f \in Surjection(G, Kids(G))
  BY DEF Kids, Surjection
<1>2. QED  BY <1>1, FS_Surjection

LEMMA OneMore ==
  ASSUME NEW b, IsFiniteSet(b), NEW S, IsFiniteSet(S), NEW e \in S, NEW n \in Nat,
         Cardinality(b) + Cardinality(S \ {e}) < n
  PROVE  IsFiniteSet(b \cup Kids(S)) /\ Cardinality(b \cup Kids(S)) <= n
<1>1. IsFiniteSet(Kids(S)) /\ Cardinality(Kids(S)) <= Cardinality(S)
  BY KidsFewer
<1>2. Cardinality(S \ {e}) = Cardinality(S) - 1
  BY FS_RemoveElement
<1>3. /\ Cardinality(b) \in Nat /\ Cardinality(S) \in Nat /\ Cardinality(Kids(S)) \in Nat
      /\ Cardinality(b \cap Kids(S)) \in Nat
  BY <1>1, FS_CardinalityType, FS_Intersection
<1>4. /\ IsFiniteSet(b \cup Kids(S))
      /\ Cardinality(b \cup Kids(S)) = Cardinality(b) + Cardinality(Kids(S)) - Cardinality(b \cap Kids(S))
  BY <1>1, FS_Union
<1>5. QED  BY <1>1, <1>2, <1>3, <1>4

\* Fewer is not more.
LEMMA SmallerFits ==
  ASSUME NEW t, IsFiniteSet(t), NEW s, s \subseteq t, NEW n \in Nat, Cardinality(t) <= n
  PROVE  Cardinality(s) <= n
<1>1. Cardinality(s) <= Cardinality(t) /\ IsFiniteSet(s)
  BY FS_Subset
<1>2. Cardinality(s) \in Nat /\ Cardinality(t) \in Nat
  BY <1>1, FS_CardinalityType
<1>3. QED  BY <1>1, <1>2

\* The pass of admit() keeps within the limits: the last entry it grants of each kind
\* found room beside all the others.
LEMMA GrantsBounded ==
  ASSUME NEW p \in Schedulers, NoDup(p.queue), NEW w, NEW G \in SUBSET ToSet(p.queue),
         Grants(p, LiveChildren(w), G), Bounded(Holders(p, w)),
         \A e \in ToSet(p.queue) :
           e.consultation \/ (e.child \in LiveChildren(w) /\ e.child \notin p.yielded)
  PROVE  Bounded(Holders(p, w) \cup Kids(G))
<1> DEFINE H == Holders(p, w)
           q == p.queue
           lives == LiveChildren(w)
           occupants == p.running \cup p.consulting
           B(r, among) == {c \in among :
             c \in r.consulting \/ (c \in r.running /\ (c \in r.paused \/ c \notin r.yielded))}
           before(i) == G \cap {q[j] : j \in 1..(i - 1)}
<1>1. /\ q \in Seq(Entries) /\ p.running \subseteq Children /\ p.consulting \subseteq Children
      /\ G \subseteq Entries
  <2>1. q \in Seq(Entries) /\ p.running \subseteq Children /\ p.consulting \subseteq Children
    BY DEF Schedulers
  <2>2. ToSet(q) \subseteq Entries
    BY <2>1 DEF ToSet
  <2>3. QED  BY <2>1, <2>2
<1>2. IsFiniteSet(G)
  <2> DEFINE N == Len(q)
             f == [i \in 1..N |-> q[i]]
  <2>1. N \in Nat /\ DOMAIN q = 1..N
    BY <1>1
  <2>2. f \in Surjection(1..N, ToSet(q))
    BY <2>1 DEF ToSet, Surjection
  <2> HIDE DEF N, f
  <2>3. IsFiniteSet(1..N)
    BY <2>1, FS_Interval
  <2>4. IsFiniteSet(ToSet(q))
    BY <2>2, <2>3, FS_Surjection
  <2>5. QED  BY <2>4, FS_Subset
<1>3. \A i \in DOMAIN q : q[i] \in G => ~Full(p, lives, before(i), q[i])
  BY DEF Grants
<1>4. H \subseteq B(p, occupants) /\ H \ Ephemeral \subseteq B(p, occupants \ Ephemeral)
  BY DEF Holders
<1>5. \A r, among : Busy(r, among) = Cardinality(B(r, among))
  BY DEF Busy
<1>6. \A s \in SUBSET Children : IsFiniteSet(s)
  BY TreeFacts, FS_Subset
<1>7. H \subseteq Children /\ B(p, occupants) \subseteq Children
      /\ B(p, occupants \ Ephemeral) \subseteq Children
  BY <1>1 DEF Holders
<1> HIDE DEF H, B
<1>8. Cardinality(H \cup Kids(G)) <= MaxConcurrent
  <2>1. CASE G = {}
    <3>1. H \cup Kids(G) = H
      BY <2>1 DEF Kids
    <3>2. QED  BY <3>1 DEF Bounded, H
  <2>2. CASE G # {}
    <3>1. PICK i \in DOMAIN q : q[i] \in G /\ before(i) = G \ {q[i]}
      BY <1>1, <2>2, LastInQueue
    <3>2. ~(Cardinality(B(p, occupants)) + Cardinality(G \ {q[i]}) >= MaxConcurrent)
      BY <1>3, <1>5, <3>1 DEF Full
    <3>3. Cardinality(B(p, occupants)) \in Nat /\ Cardinality(G \ {q[i]}) \in Nat
      <4>1. IsFiniteSet(B(p, occupants)) /\ IsFiniteSet(G \ {q[i]})
        BY <1>2, <1>6, <1>7, FS_RemoveElement
      <4>2. QED  BY <4>1, FS_CardinalityType
    <3>4. Cardinality(B(p, occupants)) + Cardinality(G \ {q[i]}) < MaxConcurrent
      BY <3>2, <3>3, TreeFacts
    <3>5. /\ IsFiniteSet(B(p, occupants) \cup Kids(G))
          /\ Cardinality(B(p, occupants) \cup Kids(G)) <= MaxConcurrent
      BY <1>2, <1>6, <1>7, <3>1, <3>4, OneMore, TreeFacts
    <3>6. QED  BY <1>4, <3>5, SmallerFits, TreeFacts
  <2>3. QED  BY <2>1, <2>2
<1>9. Cardinality((H \cup Kids(G)) \ Ephemeral) <= OrdinaryLimit
  <2> DEFINE S == {e \in G : e.child \notin Ephemeral}
             b == B(p, occupants \ Ephemeral)
  <2>1. Kids(G) \ Ephemeral = Kids(S)
    BY DEF Kids
  <2>2. S \in SUBSET G /\ IsFiniteSet(S)
    BY <1>2, FS_Subset
  <2>3. CASE S = {}
    <3>1. (H \cup Kids(G)) \ Ephemeral = H \ Ephemeral
      BY <2>1, <2>3 DEF Kids
    <3>2. QED  BY <3>1 DEF Bounded, H
  <2>4. CASE S # {}
    <3>1. PICK i \in DOMAIN q : q[i] \in S /\ S \cap {q[j] : j \in 1..(i - 1)} = S \ {q[i]}
      <4> HIDE DEF S
      <4>1. QED  BY <1>1, <2>2, <2>4, LastInQueue
    <3>2. {e \in before(i) : e.child \notin Ephemeral} = S \ {q[i]} /\ q[i].child \notin Ephemeral
      BY <3>1
    <3>3. ~(Cardinality(b) + Cardinality(S \ {q[i]}) >= OrdinaryLimit)
      BY <1>3, <1>5, <3>1, <3>2 DEF Full
    <3> HIDE DEF S
    <3>4. Cardinality(b) \in Nat /\ Cardinality(S \ {q[i]}) \in Nat
      <4>1. IsFiniteSet(b) /\ IsFiniteSet(S \ {q[i]})
        BY <1>6, <1>7, <2>2, FS_RemoveElement
      <4>2. QED  BY <4>1, FS_CardinalityType
    <3>5. Cardinality(b) + Cardinality(S \ {q[i]}) < OrdinaryLimit
      BY <3>3, <3>4, TreeFacts
    <3>6. IsFiniteSet(b \cup Kids(S)) /\ Cardinality(b \cup Kids(S)) <= OrdinaryLimit
      BY <1>6, <1>7, <2>2, <3>1, <3>5, OneMore, TreeFacts
    <3>7. (H \cup Kids(G)) \ Ephemeral \subseteq b \cup Kids(S)
      BY <1>4, <2>1
    <3>8. QED  BY <3>6, <3>7, SmallerFits, TreeFacts
  <2>5. QED  BY <2>3, <2>4
<1>10. ASSUME NEW x \in Groups PROVE Cardinality((H \cup Kids(G)) \cap Members[x]) <= GroupLimit[x]
  <2> DEFINE S == {e \in G : e.child \in Members[x]}
  <2>1. Kids(G) \cap Members[x] = Kids(S)
    BY DEF Kids
  <2>2. S \in SUBSET G
    OBVIOUS
  <2>3. CASE S = {}
    <3>1. (H \cup Kids(G)) \cap Members[x] = H \cap Members[x]
      BY <2>1, <2>3 DEF Kids
    <3>2. QED  BY <3>1 DEF Bounded, H
  <2>4. CASE S # {}
    <3>1. PICK i \in DOMAIN q : q[i] \in S /\ S \cap {q[j] : j \in 1..(i - 1)} = S \ {q[i]}
      <4> HIDE DEF S
      <4>1. QED  BY <1>1, <2>2, <2>4, LastInQueue
    <3> DEFINE c == q[i].child
               r == Given(p, before(i))
               b == B(r, Members[x] \cap (lives \cup r.consulting))
    <3>2. c \in Members[x] /\ ~GroupFull(r, lives, c)
      BY <1>3, <3>1 DEF Full
    <3>3. ~(Cardinality(b) >= GroupLimit[x])
      BY <1>5, <3>2 DEF GroupFull
    <3>4. b \subseteq Children
      BY TreeFacts DEF B
    <3>5. (H \cup Kids(G)) \cap Members[x] \subseteq b \cup {c}
      <4>1. /\ r.running = p.running \cup {e.child : e \in {y \in before(i) : ~y.consultation}}
            /\ r.consulting = p.consulting \cup {e.child : e \in {y \in before(i) : y.consultation}}
            /\ r.paused = p.paused /\ r.yielded = p.yielded
        BY DEF Given, Schedulers
      <4> HIDE DEF r
      <4>2. ASSUME NEW d \in H \cap Members[x] PROVE d \in b
        BY <4>1, <4>2 DEF H, Holders, B
      <4>3. ASSUME NEW e \in S, e.child # c PROVE e.child \in b
        <5>1. e \in before(i) /\ e.child \in Members[x] /\ e \in ToSet(q)
          BY <3>1, <4>3
        <5>2. CASE e.consultation
          <6>1. e.child \in r.consulting
            BY <4>1, <5>1, <5>2
          <6>2. QED  BY <5>1, <6>1 DEF B
        <5>3. CASE ~e.consultation
          <6>1. e.child \in r.running
            BY <4>1, <5>1, <5>3
          <6>2. e.child \in lives /\ e.child \notin r.yielded
            BY <4>1, <5>1, <5>3
          <6>3. QED  BY <5>1, <6>1, <6>2 DEF B
        <5>4. QED  BY <5>2, <5>3
      <4>4. QED  BY <2>1, <4>2, <4>3 DEF Kids
    <3>6. IsFiniteSet(b) /\ Cardinality(b) \in Nat /\ Cardinality(b) < GroupLimit[x]
      <4> HIDE DEF b
      <4>1. IsFiniteSet(b) /\ Cardinality(b) \in Nat
        BY <1>6, <3>4, FS_CardinalityType
      <4>2. QED  BY <3>3, <4>1, TreeFacts
    <3>7. IsFiniteSet(b \cup {c}) /\ Cardinality(b \cup {c}) <= GroupLimit[x]
      <4> HIDE DEF b, c
      <4>1. /\ IsFiniteSet(b \cup {c})
            /\ Cardinality(b \cup {c}) = IF c \in b THEN Cardinality(b) ELSE Cardinality(b) + 1
        BY <3>6, FS_AddElement
      <4>2. QED  BY <3>6, <4>1, TreeFacts
    <3>8. QED  BY <3>5, <3>7, SmallerFits, TreeFacts
  <2>5. QED  BY <2>3, <2>4
<1>11. QED  BY <1>8, <1>9, <1>10 DEF Bounded, H

\* The scheduler admits whom it can.
LEMMA AdmittingKeeps ==
  ASSUME NEW p, NEW w, NEW q, NEW gone, NEW over,
         Placed(p, w, q, gone, over), Admitting(p, w, q)
  PROVE  /\ Placed(places', work', question', gone, over)
         /\ PlacesUsed(p, w, q, gone) => PlacesUsed(places', work', question', gone)
         /\ \A used : SpentFits(used, w) => SpentFits(used, work')
<1>1. PICK G \in SUBSET ToSet(p.queue) :
        /\ Grants(p, LiveChildren(w), G)
        /\ places' = [Given(p, G) EXCEPT !.queue = Without(@, G)]
        /\ work' = [c \in Children |-> IF Turn(c) \in G THEN Granted[w[c]] ELSE w[c]]
        /\ question' = [c \in Children |-> IF Consultation(c) \in G THEN "streaming" ELSE q[c]]
  BY DEF Admitting
<1>2. /\ p \in Schedulers /\ w \in [Children -> Works]
      /\ q \in [Children -> {"none", "queued", "streaming"}]
      /\ QueueAgrees(p, w, q) /\ PlacesAgree(p, w, q, gone, over) /\ Bounded(Holders(p, w))
  BY DEF Placed
<1>3. NoDup(p.queue) /\ ToSet(p.queue) = Wanted(w, q) /\ p.queue \in Seq(Entries)
  BY <1>2 DEF QueueAgrees, Schedulers
<1>4. \A c \in Children :
        /\ Turn(c) \in Wanted(w, q) <=> w[c] \in {"queued", "reentering", "waiting"}
        /\ Consultation(c) \in Wanted(w, q) <=> q[c] = "queued"
  BY EntryFacts DEF Wanted, Granted
<1>5. G \subseteq Entries
  BY <1>1, <1>3 DEF Wanted
<1>6. /\ places'.running = p.running \cup {c \in Children : Turn(c) \in G}
      /\ places'.consulting = p.consulting \cup {c \in Children : Consultation(c) \in G}
      /\ places'.queue = Without(p.queue, G) /\ places'.toolWaits = p.toolWaits
      /\ places'.yielded = p.yielded /\ places'.parents = p.parents /\ places'.paused = p.paused
  <2>1. /\ places'.running = p.running \cup {e.child : e \in {x \in G : ~x.consultation}}
        /\ places'.consulting = p.consulting \cup {e.child : e \in {x \in G : x.consultation}}
        /\ places'.queue = Without(p.queue, G) /\ places'.toolWaits = p.toolWaits
        /\ places'.yielded = p.yielded /\ places'.parents = p.parents /\ places'.paused = p.paused
    BY <1>1, <1>2 DEF Given, Schedulers
  <2>2. \A e \in G : /\ e.child \in Children
                     /\ e = IF e.consultation THEN Consultation(e.child) ELSE Turn(e.child)
    BY <1>5, EntryFacts
  <2>3. {e.child : e \in {x \in G : ~x.consultation}} = {c \in Children : Turn(c) \in G}
    BY <2>2, EntryFacts
  <2>4. {e.child : e \in {x \in G : x.consultation}} = {c \in Children : Consultation(c) \in G}
    BY <2>2, EntryFacts
  <2>5. QED  BY <2>1, <2>3, <2>4
<1>7. /\ Without(p.queue, G) \in Seq(Entries) /\ NoDup(Without(p.queue, G))
      /\ ToSet(Without(p.queue, G)) = Wanted(w, q) \ G
  BY <1>3, WithoutKeeps
<1>8. places' \in Schedulers
  <2>1. places' = [queue |-> places'.queue, running |-> places'.running,
                   consulting |-> places'.consulting, toolWaits |-> places'.toolWaits,
                   yielded |-> places'.yielded, parents |-> places'.parents,
                   paused |-> places'.paused]
    BY <1>1, <1>2 DEF Given, Schedulers
  <2>2. /\ p.running \subseteq Children /\ p.consulting \subseteq Children
        /\ p.toolWaits \subseteq Children /\ p.yielded \subseteq Children
        /\ p.parents \subseteq Children /\ p.paused \subseteq Children
    BY <1>2 DEF Schedulers
  <2>3. /\ places'.running \subseteq Children /\ places'.consulting \subseteq Children
        /\ places'.toolWaits \subseteq Children /\ places'.yielded \subseteq Children
        /\ places'.parents \subseteq Children /\ places'.paused \subseteq Children
        /\ places'.queue \in Seq(Entries)
    BY <1>6, <1>7, <2>2
  <2>4. QED  BY <2>1, <2>3 DEF Schedulers
<1>9. \A c \in Children :
        /\ Turn(c) \in G => \/ w[c] = "queued" /\ work'[c] = "starting"
                            \/ w[c] = "reentering" /\ work'[c] = "resuming"
                            \/ w[c] = "waiting" /\ work'[c] = "waking"
        /\ Turn(c) \notin G => work'[c] = w[c]
        /\ Consultation(c) \in G => q[c] = "queued" /\ question'[c] = "streaming"
        /\ Consultation(c) \notin G => question'[c] = q[c]
  BY <1>1, <1>3, <1>4 DEF Granted
<1>10. /\ work' \in [Children -> Works]
       /\ question' \in [Children -> {"none", "queued", "streaming"}]
  <2>1. \A c \in Children : work'[c] \in Works /\ question'[c] \in {"none", "queued", "streaming"}
    BY <1>2, <1>9 DEF Works
  <2>2. QED  BY <1>1, <2>1
<1>11. QueueAgrees(places', work', question')
  <2>1. \A c \in Children :
          /\ Turn(c) \in Wanted(work', question') <=> Turn(c) \in Wanted(w, q) /\ Turn(c) \notin G
          /\ Consultation(c) \in Wanted(work', question') <=>
               Consultation(c) \in Wanted(w, q) /\ Consultation(c) \notin G
    <3>1. \A c \in Children :
            /\ Turn(c) \in Wanted(work', question') <=> work'[c] \in {"queued", "reentering", "waiting"}
            /\ Consultation(c) \in Wanted(work', question') <=> question'[c] = "queued"
      BY EntryFacts DEF Wanted, Granted
    <3>2. QED  BY <1>4, <1>9, <3>1
  <2>2. Wanted(work', question') \subseteq Entries /\ Wanted(w, q) \subseteq Entries
    BY DEF Wanted
  <2>3. \A e \in Entries : \E c \in Children : e = Turn(c) \/ e = Consultation(c)
    BY EntryFacts
  <2>4. Wanted(work', question') = Wanted(w, q) \ G
    BY <2>1, <2>2, <2>3
  <2>5. QED  BY <1>6, <1>7, <2>4 DEF QueueAgrees
<1>12. PlacesAgree(places', work', question', gone, over)
  <2>1. places'.consulting = {c \in Children : question'[c] = "streaming"}
    BY <1>2, <1>6, <1>9 DEF PlacesAgree
  <2>2. ASSUME NEW c \in Children
        PROVE  /\ c \in places'.toolWaits => work'[c] = "tools"
               /\ c \in places'.yielded => work'[c] \in {"tools", "boundary"}
               /\ c \in places'.parents => work'[c] \notin {"unborn", "ghost", "ended"}
               /\ c \in places'.running \/ question'[c] # "none" => work'[c] # "unborn"
               /\ work'[c] \in {"starting", "resuming", "model"} => c \in places'.running
               /\ work'[c] \in {"tools", "boundary"} /\ c \notin gone
                    => c \in places'.running \cup places'.yielded
               /\ work'[c] = "waking" /\ c \notin gone \cup over => c \in places'.running
    BY <1>2, <1>6, <1>9 DEF PlacesAgree
  <2>3. QED  BY <2>1, <2>2 DEF PlacesAgree
<1>13. Bounded(Holders(places', work'))
  <2>1. \A e \in ToSet(p.queue) :
          e.consultation \/ (e.child \in LiveChildren(w) /\ e.child \notin p.yielded)
    BY <1>2, <1>3, EntryFacts DEF Wanted, Granted, PlacesAgree, LiveChildren
  <2>2. Bounded(Holders(p, w) \cup Kids(G))
    BY <1>1, <1>2, <1>3, <2>1, GrantsBounded
  <2>3. Holders(places', work') \subseteq Holders(p, w) \cup Kids(G)
    <3>1. \A c \in Children : Turn(c) \in G \/ Consultation(c) \in G => c \in Kids(G)
      BY EntryFacts DEF Kids
    <3>2. ASSUME NEW c \in Holders(places', work') PROVE c \in Holders(p, w) \cup Kids(G)
      <4>1. CASE Turn(c) \in G \/ Consultation(c) \in G
        BY <3>1, <3>2, <4>1 DEF Holders
      <4>2. CASE Turn(c) \notin G /\ Consultation(c) \notin G
        BY <1>6, <1>9, <3>2, <4>2 DEF Holders, LiveChildren
      <4>3. QED  BY <4>1, <4>2
    <3>3. QED  BY <3>2
  <2>4. Holders(p, w) \cup Kids(G) \subseteq Children
    BY <1>5, EntryFacts DEF Holders, Kids
  <2>5. QED  BY <2>2, <2>3, <2>4, FewerBounded
<1>14. ASSUME PlacesUsed(p, w, q, gone) PROVE PlacesUsed(places', work', question', gone)
  BY <1>6, <1>9, <1>14 DEF PlacesUsed
<1>15. ASSUME NEW used, SpentFits(used, w) PROVE SpentFits(used, work')
  BY <1>9, <1>15 DEF SpentFits
<1>16. QED  BY <1>8, <1>10, <1>11, <1>12, <1>13, <1>14, <1>15 DEF Placed

-----------------------------------------------------------------------------
(* Admission: what the steps share.                                        *)

LEMMA WantedMeans ==
  ASSUME NEW w, NEW q
  PROVE  /\ Wanted(w, q) \subseteq Entries
         /\ \A c \in Children :
              /\ Turn(c) \in Wanted(w, q) <=> w[c] \in {"queued", "reentering", "waiting"}
              /\ Consultation(c) \in Wanted(w, q) <=> q[c] = "queued"
         /\ \A S \in SUBSET Entries :
              (\A c \in Children :
                 /\ Turn(c) \in S <=> w[c] \in {"queued", "reentering", "waiting"}
                 /\ Consultation(c) \in S <=> q[c] = "queued") => S = Wanted(w, q)
<1>1. Wanted(w, q) \subseteq Entries
  BY DEF Wanted
<1>2. \A c \in Children :
        /\ Turn(c) \in Wanted(w, q) <=> w[c] \in {"queued", "reentering", "waiting"}
        /\ Consultation(c) \in Wanted(w, q) <=> q[c] = "queued"
  BY EntryFacts DEF Wanted, Granted
<1>3. \A e \in Entries : \E c \in Children : e = Turn(c) \/ e = Consultation(c)
  BY EntryFacts
<1>4. QED  BY <1>1, <1>2, <1>3

\* A step from one sound state of the scheduler that gives nobody a place.
LEMMA PlacedMoves ==
  ASSUME NEW p, NEW w, NEW q, NEW gone, NEW over, Placed(p, w, q, gone, over),
         NEW m \in Schedulers, NEW v \in [Children -> Works],
         NEW r \in [Children -> {"none", "queued", "streaming"}], NEW dead, NEW done,
         QueueAgrees(m, v, r), PlacesAgree(m, v, r, dead, done),
         Holders(m, v) \subseteq Holders(p, w)
  PROVE  Placed(m, v, r, dead, done)
<1>1. Holders(p, w) \in SUBSET Children
  BY DEF Holders
<1>2. Bounded(Holders(m, v))
  BY <1>1, FewerBounded DEF Placed
<1>3. QED  BY <1>2 DEF Placed

LEMMA AdmittedInv ==
  ASSUME NEW p, NEW w, NEW q, Placed(p, w, q, aborted', stopped'), Admitting(p, w, q),
         SpentFits(spent', w), aborted' \subseteq Children, stopped' \subseteq Persistent,
         ~UnawaitedQuestions => PlacesUsed(p, w, q, aborted')
  PROVE  AdmissionInv'
<1>1. /\ Placed(places', work', question', aborted', stopped')
      /\ PlacesUsed(p, w, q, aborted') => PlacesUsed(places', work', question', aborted')
      /\ SpentFits(spent', work')
  BY AdmittingKeeps
<1>2. ~UnawaitedQuestions => PlacesUsed(places', work', question', aborted')
  BY <1>1
<1>3. QED  BY <1>1, <1>2 DEF AdmissionInv, Placed, PlacesUsed, SpentFits, QueueAgrees, PlacesAgree, Holders

LEMMA EnqueueFacts ==
  ASSUME NEW p \in Schedulers, NEW e \in Entries, NoDup(p.queue), e \notin ToSet(p.queue)
  PROVE  LET m == Enqueue(p, e) IN
         /\ m \in Schedulers /\ NoDup(m.queue) /\ ToSet(m.queue) = ToSet(p.queue) \cup {e}
         /\ p.yielded \subseteq m.yielded /\ m.yielded \subseteq p.yielded \cup p.toolWaits
         /\ m.running = p.running /\ m.consulting = p.consulting
         /\ m.toolWaits = p.toolWaits /\ m.parents = p.parents /\ m.paused = p.paused
<1> DEFINE m == Enqueue(p, e)
<1>1. PICK lent : m = [[p EXCEPT !.queue = Append(@, e)] EXCEPT !.yielded = @ \cup (p.toolWaits \cap lent)]
  BY DEF Enqueue, YieldToolParents, Schedulers
<1>2. /\ Append(p.queue, e) \in Seq(Entries) /\ NoDup(Append(p.queue, e))
      /\ ToSet(Append(p.queue, e)) = ToSet(p.queue) \cup {e}
  BY AppendFacts DEF Schedulers
<1> HIDE DEF m
<1>3. /\ m.queue = Append(p.queue, e) /\ m.yielded = p.yielded \cup (p.toolWaits \cap lent)
      /\ m.running = p.running /\ m.consulting = p.consulting
      /\ m.toolWaits = p.toolWaits /\ m.parents = p.parents /\ m.paused = p.paused
  BY <1>1 DEF Schedulers
<1>4. m \in Schedulers
  BY <1>1, <1>2 DEF Schedulers
<1>5. m.yielded \subseteq p.yielded \cup p.toolWaits /\ p.yielded \subseteq m.yielded
  BY <1>3
<1>6. QED  BY <1>2, <1>3, <1>4, <1>5 DEF m

-----------------------------------------------------------------------------
(* Admission: the steps.                                                   *)

LEMMA InvFacts ==
  ASSUME AdmissionInv
  PROVE  /\ Placed(places, work, question, aborted, stopped)
         /\ places \in Schedulers /\ work \in [Children -> Works]
         /\ question \in [Children -> {"none", "queued", "streaming"}]
         /\ NoDup(places.queue) /\ ToSet(places.queue) = Wanted(work, question)
         /\ PlacesAgree(places, work, question, aborted, stopped)
         /\ aborted \subseteq Children /\ stopped \subseteq Persistent
         /\ SpentFits(spent, work)
         /\ ~UnawaitedQuestions => PlacesUsed(places, work, question, aborted)
BY DEF AdmissionInv, Placed, QueueAgrees

LEMMA SpawnStep ==
  ASSUME AdmissionInv, NEW c \in Children, Spawn(c)
  PROVE  AdmissionInv'
<1> DEFINE b == [places EXCEPT !.parents = @ \cup {c}]
           p == Enqueue(b, Turn(c))
           w == At(c, "queued")
<1>1. /\ work[c] = "unborn" /\ UNCHANGED <<aborted, stopped, spent>>
      /\ Admitting(p, w, question)
  BY DEF Spawn
<1>2. /\ b \in Schedulers /\ b.queue = places.queue /\ b.running = places.running
      /\ b.consulting = places.consulting /\ b.toolWaits = places.toolWaits
      /\ b.yielded = places.yielded /\ b.paused = places.paused
      /\ b.parents = places.parents \cup {c}
  BY InvFacts DEF Schedulers
<1>3. Turn(c) \in Entries /\ Turn(c) \notin ToSet(b.queue)
  BY <1>1, <1>2, InvFacts, EntryFacts, WantedMeans
<1> HIDE DEF b
<1>4. /\ p \in Schedulers /\ NoDup(p.queue) /\ ToSet(p.queue) = ToSet(places.queue) \cup {Turn(c)}
      /\ places.yielded \subseteq p.yielded /\ p.yielded \subseteq places.yielded \cup places.toolWaits
      /\ p.running = places.running /\ p.consulting = places.consulting
      /\ p.toolWaits = places.toolWaits /\ p.parents = places.parents \cup {c}
  BY <1>2, <1>3, InvFacts, EnqueueFacts
<1>5. /\ w \in [Children -> Works] /\ w[c] = "queued"
      /\ \A d \in Children \ {c} : w[d] = work[d]
  BY InvFacts DEF At, Works
<1> HIDE DEF p, w
<1>6. QueueAgrees(p, w, question)
  <2>1. ToSet(p.queue) \in SUBSET Entries
    BY <1>3, <1>4, InvFacts, WantedMeans
  <2>2. \A d \in Children :
          /\ Turn(d) \in ToSet(p.queue) <=> w[d] \in {"queued", "reentering", "waiting"}
          /\ Consultation(d) \in ToSet(p.queue) <=> question[d] = "queued"
    BY <1>4, <1>5, InvFacts, WantedMeans, EntryFacts
  <2>3. QED  BY <1>4, <2>1, <2>2, WantedMeans DEF QueueAgrees
<1>7. PlacesAgree(p, w, question, aborted, stopped)
  BY <1>1, <1>4, <1>5, InvFacts DEF PlacesAgree
<1>8. Holders(p, w) \subseteq Holders(places, work)
  BY <1>1, <1>4, <1>5, InvFacts DEF Holders, PlacesAgree, LiveChildren
<1>9. Placed(p, w, question, aborted, stopped)
  BY <1>4, <1>5, <1>6, <1>7, <1>8, InvFacts, PlacedMoves
<1>10. ~UnawaitedQuestions => PlacesUsed(p, w, question, aborted)
  BY <1>1, <1>4, <1>5, InvFacts DEF PlacesUsed, PlacesAgree
<1>11. SpentFits(spent, w)
  BY <1>1, <1>5, InvFacts DEF SpentFits
<1>12. QED  BY <1>1, <1>9, <1>10, <1>11, InvFacts, AdmittedInv

\* The invariant, when the scheduler is left as it is given here.
LEMMA LeftInv ==
  ASSUME Placed(places', work', question', aborted', stopped'), SpentFits(spent', work'),
         aborted' \subseteq Children, stopped' \subseteq Persistent,
         ~UnawaitedQuestions => PlacesUsed(places', work', question', aborted')
  PROVE  AdmissionInv'
BY DEF AdmissionInv, Placed, PlacesUsed, SpentFits, QueueAgrees, PlacesAgree, Holders

\* A child moves on without the scheduler.
LEMMA MovesInv ==
  ASSUME AdmissionInv, NEW c \in Children, NEW state \in Works, work' = At(c, state),
         UNCHANGED <<places, question, aborted, stopped>>,
         work[c] \in {"boundary", "starting", "resuming", "waking", "model"},
         state \in {"boundary", "model"},
         c \in places.running, work[c] = "boundary" => c \notin aborted \cup places.yielded,
         SpentFits(spent', work')
  PROVE  AdmissionInv'
<1>1. /\ work' \in [Children -> Works] /\ work'[c] = state
      /\ \A d \in Children \ {c} : work'[d] = work[d]
  BY InvFacts DEF At
<1>2. QueueAgrees(places, work', question)
  <2>1. \A d \in Children :
          /\ Turn(d) \in ToSet(places.queue) <=> work'[d] \in {"queued", "reentering", "waiting"}
          /\ Consultation(d) \in ToSet(places.queue) <=> question[d] = "queued"
    BY <1>1, InvFacts, WantedMeans
  <2>2. ToSet(places.queue) \in SUBSET Entries
    BY InvFacts, WantedMeans
  <2>3. QED  BY <2>1, <2>2, InvFacts, WantedMeans DEF QueueAgrees
<1>3. PlacesAgree(places, work', question, aborted, stopped)
  BY <1>1, InvFacts DEF PlacesAgree
<1>4. Holders(places, work') \subseteq Holders(places, work)
  BY <1>1, InvFacts DEF Holders, LiveChildren
<1>5. Placed(places, work', question, aborted, stopped)
  BY <1>1, <1>2, <1>3, <1>4, InvFacts, PlacedMoves
<1>6. ~UnawaitedQuestions => PlacesUsed(places, work', question, aborted)
  BY <1>1, InvFacts DEF PlacesUsed
<1>7. QED  BY <1>5, <1>6, InvFacts, LeftInv

LEMMA SpendFacts ==
  ASSUME AdmissionInv, NEW c \in Children
  PROVE  /\ Spend(c, "turns") /\ spent[c].turns < MaxTurns =>
              /\ spent' \in [Children -> [batches : 0..MaxBatches, questions : 0..MaxQuestions,
                                          turns : 0..MaxTurns, pauses : 0..MaxPauses]]
              /\ \A d \in Children \ {c} : spent'[d] = spent[d]
         /\ Spend(c, "batches") /\ spent[c].batches < MaxBatches =>
              /\ spent' \in [Children -> [batches : 0..MaxBatches, questions : 0..MaxQuestions,
                                          turns : 0..MaxTurns, pauses : 0..MaxPauses]]
              /\ \A d \in Children : spent'[d].turns = spent[d].turns
         /\ Spend(c, "questions") /\ spent[c].questions < MaxQuestions =>
              /\ spent' \in [Children -> [batches : 0..MaxBatches, questions : 0..MaxQuestions,
                                          turns : 0..MaxTurns, pauses : 0..MaxPauses]]
              /\ \A d \in Children : spent'[d].turns = spent[d].turns
         /\ Spend(c, "pauses") /\ spent[c].pauses < MaxPauses =>
              /\ spent' \in [Children -> [batches : 0..MaxBatches, questions : 0..MaxQuestions,
                                          turns : 0..MaxTurns, pauses : 0..MaxPauses]]
              /\ \A d \in Children : spent'[d].turns = spent[d].turns
<1> DEFINE R == [batches : 0..MaxBatches, questions : 0..MaxQuestions,
                 turns : 0..MaxTurns, pauses : 0..MaxPauses]
<1>1. spent \in [Children -> R]
  BY InvFacts DEF SpentFits
<1>2. MaxTurns \in Nat /\ MaxBatches \in Nat /\ MaxQuestions \in Nat /\ MaxPauses \in Nat
  BY TreeFacts
<1>3. ASSUME Spend(c, "turns"), spent[c].turns < MaxTurns
      PROVE  spent' \in [Children -> R] /\ \A d \in Children \ {c} : spent'[d] = spent[d]
  BY <1>1, <1>2, <1>3 DEF Spend
<1>4. ASSUME Spend(c, "batches"), spent[c].batches < MaxBatches
      PROVE  spent' \in [Children -> R] /\ \A d \in Children : spent'[d].turns = spent[d].turns
  BY <1>1, <1>2, <1>4 DEF Spend
<1>5. ASSUME Spend(c, "questions"), spent[c].questions < MaxQuestions
      PROVE  spent' \in [Children -> R] /\ \A d \in Children : spent'[d].turns = spent[d].turns
  BY <1>1, <1>2, <1>5 DEF Spend
<1>6. ASSUME Spend(c, "pauses"), spent[c].pauses < MaxPauses
      PROVE  spent' \in [Children -> R] /\ \A d \in Children : spent'[d].turns = spent[d].turns
  BY <1>1, <1>2, <1>6 DEF Spend
<1>7. QED  BY <1>3, <1>4, <1>5, <1>6

LEMMA StartStep ==
  ASSUME AdmissionInv, NEW c \in Children, Start(c)
  PROVE  AdmissionInv'
<1>1. /\ work[c] = "starting" /\ work' = At(c, "boundary") /\ Spend(c, "turns")
      /\ UNCHANGED <<places, question, aborted, stopped>>
  BY DEF Start
<1>2. c \in places.running /\ "boundary" \in Works
  BY <1>1, InvFacts DEF PlacesAgree, Works
<1>3. SpentFits(spent', work')
  <2>1. spent[c].turns = 0 /\ spent[c].turns < MaxTurns
    BY <1>1, InvFacts, TreeFacts DEF SpentFits
  <2>2. QED  BY <1>1, <2>1, SpendFacts, InvFacts DEF SpentFits, At
<1>4. QED  BY <1>1, <1>2, <1>3, MovesInv

LEMMA NextTurnStep ==
  ASSUME AdmissionInv, NEW c \in Children, NextTurn(c)
  PROVE  AdmissionInv'
<1>1. /\ work[c] = "model" /\ work' = At(c, "boundary") /\ Spend(c, "turns")
      /\ spent[c].turns < MaxTurns /\ UNCHANGED <<places, question, aborted, stopped>>
  BY DEF NextTurn, Staying
<1>2. c \in places.running /\ "boundary" \in Works
  BY <1>1, InvFacts DEF PlacesAgree, Works
<1>3. SpentFits(spent', work')
  BY <1>1, SpendFacts, InvFacts DEF SpentFits, At
<1>4. QED  BY <1>1, <1>2, <1>3, MovesInv

LEMMA BeginTurnStep ==
  ASSUME AdmissionInv, NEW c \in Children, BeginTurn(c)
  PROVE  AdmissionInv'
<1>1. /\ work[c] = "waking" /\ c \notin aborted \cup stopped /\ work' = At(c, "boundary")
      /\ Spend(c, "turns") /\ UNCHANGED <<places, question, aborted, stopped>>
  BY DEF BeginTurn
<1>2. c \in places.running /\ "boundary" \in Works
  BY <1>1, InvFacts DEF PlacesAgree, Works
<1>3. spent[c].turns < MaxTurns
  BY <1>1, InvFacts DEF SpentFits
<1>4. SpentFits(spent', work')
  BY <1>1, <1>3, SpendFacts, InvFacts DEF SpentFits, At
<1>5. QED  BY <1>1, <1>2, <1>4, MovesInv

LEMMA ResumeStep ==
  ASSUME AdmissionInv, NEW c \in Children, Resume(c)
  PROVE  AdmissionInv'
<1>1. PICK state \in {"boundary", "model"} :
        /\ work[c] = "resuming" /\ work' = At(c, state)
        /\ UNCHANGED <<places, question, aborted, stopped, spent>>
  BY DEF Resume
<1>2. c \in places.running /\ state \in Works
  BY <1>1, InvFacts DEF PlacesAgree, Works
<1>3. SpentFits(spent', work')
  BY <1>1, InvFacts DEF SpentFits, At
<1>4. QED  BY <1>1, <1>2, <1>3, MovesInv

\* A child gives its place up.
LEMMA ReleasedFacts ==
  ASSUME NEW p \in Schedulers, NEW c \in Children
  PROVE  LET m == Released(p, c) IN
         /\ m \in Schedulers /\ m.running = p.running \ {c} /\ m.toolWaits = p.toolWaits \ {c}
         /\ m.yielded = p.yielded \ {c} /\ m.queue = p.queue /\ m.consulting = p.consulting
         /\ m.parents = p.parents /\ m.paused = p.paused
BY DEF Released, Schedulers

LEMMA CallModelStep ==
  ASSUME AdmissionInv, NEW c \in Children, CallModel(c)
  PROVE  AdmissionInv'
<1>1. /\ work[c] = "boundary" /\ c \notin aborted
      /\ UNCHANGED <<aborted, stopped, spent>>
  BY DEF CallModel
<1>2. CASE c \notin places.yielded
  <2>1. work' = At(c, "model") /\ UNCHANGED <<places, question>>
    BY <1>2 DEF CallModel
  <2>2. c \in places.running /\ "model" \in Works
    BY <1>1, <1>2, InvFacts DEF PlacesAgree, Works
  <2>3. SpentFits(spent', work')
    BY <1>1, <2>1, InvFacts DEF SpentFits, At
  <2>4. QED  BY <1>1, <1>2, <2>1, <2>2, <2>3, MovesInv
<1>3. CASE c \in places.yielded
  <2> DEFINE b == Released(places, c)
             p == Enqueue(b, Turn(c))
             w == At(c, "reentering")
  <2>1. Admitting(p, w, question)
    BY <1>3 DEF CallModel
  <2>2. /\ b \in Schedulers /\ b.queue = places.queue /\ b.running = places.running \ {c}
        /\ b.consulting = places.consulting /\ b.toolWaits = places.toolWaits \ {c}
        /\ b.yielded = places.yielded \ {c} /\ b.parents = places.parents
    BY InvFacts, ReleasedFacts
  <2>3. Turn(c) \in Entries /\ Turn(c) \notin ToSet(b.queue)
    BY <1>1, <2>2, InvFacts, EntryFacts, WantedMeans
  <2> HIDE DEF b
  <2>4. /\ p \in Schedulers /\ NoDup(p.queue) /\ ToSet(p.queue) = ToSet(places.queue) \cup {Turn(c)}
        /\ b.yielded \subseteq p.yielded /\ p.yielded \subseteq b.yielded \cup b.toolWaits
        /\ p.running = b.running /\ p.consulting = places.consulting
        /\ p.toolWaits = b.toolWaits /\ p.parents = places.parents
    BY <2>2, <2>3, InvFacts, EnqueueFacts
  <2>5. /\ w \in [Children -> Works] /\ w[c] = "reentering"
        /\ \A d \in Children \ {c} : w[d] = work[d]
    BY InvFacts DEF At, Works
  <2> HIDE DEF p, w
  <2>6. QueueAgrees(p, w, question)
    <3>1. ToSet(p.queue) \in SUBSET Entries
      BY <2>3, <2>4, InvFacts, WantedMeans
    <3>2. \A d \in Children :
            /\ Turn(d) \in ToSet(p.queue) <=> w[d] \in {"queued", "reentering", "waiting"}
            /\ Consultation(d) \in ToSet(p.queue) <=> question[d] = "queued"
      BY <2>4, <2>5, InvFacts, WantedMeans, EntryFacts
    <3>3. QED  BY <2>4, <3>1, <3>2, WantedMeans DEF QueueAgrees
  <2>7. PlacesAgree(p, w, question, aborted, stopped)
    BY <1>1, <2>2, <2>4, <2>5, InvFacts DEF PlacesAgree
  <2>8. Holders(p, w) \subseteq Holders(places, work)
    BY <2>2, <2>4, <2>5, InvFacts DEF Holders, LiveChildren
  <2>9. Placed(p, w, question, aborted, stopped)
    BY <2>4, <2>5, <2>6, <2>7, <2>8, InvFacts, PlacedMoves
  <2>10. ~UnawaitedQuestions => PlacesUsed(p, w, question, aborted)
    BY <1>1, <2>2, <2>4, <2>5, InvFacts DEF PlacesUsed
  <2>11. SpentFits(spent, w)
    BY <2>5, InvFacts DEF SpentFits
  <2>12. QED  BY <1>1, <2>1, <2>9, <2>10, <2>11, InvFacts, AdmittedInv
<1>4. QED  BY <1>2, <1>3

LEMMA BeginToolsStep ==
  ASSUME AdmissionInv, NEW c \in Children, BeginTools(c)
  PROVE  AdmissionInv'
<1> DEFINE w == At(c, "tools")
<1>1. PICK lent \in SUBSET {c} :
        /\ work[c] = "model" /\ spent[c].batches < MaxBatches /\ Spend(c, "batches")
        /\ UNCHANGED <<aborted, stopped>>
        /\ Admitting([[places EXCEPT !.toolWaits = @ \cup {c}] EXCEPT !.yielded = @ \cup lent],
                     w, question)
  <2> DEFINE waits == [places EXCEPT !.toolWaits = @ \cup {c}]
  <2>1. waits = [waits EXCEPT !.yielded = @ \cup {}]
    BY InvFacts DEF Schedulers
  <2>2. /\ work[c] = "model" /\ spent[c].batches < MaxBatches /\ Spend(c, "batches")
        /\ UNCHANGED <<aborted, stopped>>
        /\ \/ Admitting(waits, w, question)
           \/ Admitting([waits EXCEPT !.yielded = @ \cup {c}], w, question)
    BY DEF BeginTools
  <2> HIDE DEF waits, w
  <2>3. CASE Admitting(waits, w, question)
    BY <2>1, <2>2, <2>3 DEF waits
  <2>4. CASE Admitting([waits EXCEPT !.yielded = @ \cup {c}], w, question)
    BY <2>2, <2>4 DEF waits
  <2>5. QED  BY <2>2, <2>3, <2>4
<1> DEFINE p == [[places EXCEPT !.toolWaits = @ \cup {c}] EXCEPT !.yielded = @ \cup lent]
<1>2. /\ p \in Schedulers /\ p.queue = places.queue /\ p.running = places.running
      /\ p.consulting = places.consulting /\ p.toolWaits = places.toolWaits \cup {c}
      /\ p.yielded = places.yielded \cup lent /\ p.parents = places.parents
  <2> DEFINE b == [places EXCEPT !.toolWaits = @ \cup {c}]
  <2>1. /\ b \in Schedulers /\ b.queue = places.queue /\ b.running = places.running
        /\ b.consulting = places.consulting /\ b.toolWaits = places.toolWaits \cup {c}
        /\ b.yielded = places.yielded /\ b.parents = places.parents
    BY InvFacts DEF Schedulers
  <2>2. p = [b EXCEPT !.yielded = @ \cup lent]
    OBVIOUS
  <2> HIDE DEF b, p
  <2>3. QED  BY <2>1, <2>2 DEF Schedulers
<1>3. Admitting(p, w, question)
  BY <1>1
<1>4. w \in [Children -> Works] /\ w[c] = "tools" /\ \A d \in Children \ {c} : w[d] = work[d]
  BY InvFacts DEF At, Works
<1> HIDE DEF p, w
<1>5. QueueAgrees(p, w, question)
  <2>1. \A d \in Children :
          /\ Turn(d) \in ToSet(p.queue) <=> w[d] \in {"queued", "reentering", "waiting"}
          /\ Consultation(d) \in ToSet(p.queue) <=> question[d] = "queued"
    BY <1>1, <1>2, <1>4, InvFacts, WantedMeans
  <2>2. QED  BY <1>2, <2>1, InvFacts, WantedMeans DEF QueueAgrees
<1>6. PlacesAgree(p, w, question, aborted, stopped)
  BY <1>1, <1>2, <1>4, InvFacts DEF PlacesAgree
<1>7. Holders(p, w) \subseteq Holders(places, work)
  BY <1>1, <1>2, <1>4, InvFacts DEF Holders, LiveChildren
<1>8. Placed(p, w, question, aborted, stopped)
  BY <1>2, <1>4, <1>5, <1>6, <1>7, InvFacts, PlacedMoves
<1>9. ~UnawaitedQuestions => PlacesUsed(p, w, question, aborted)
  BY <1>1, <1>2, <1>4, InvFacts DEF PlacesUsed
<1>10. SpentFits(spent', w)
  BY <1>1, <1>4, SpendFacts, InvFacts DEF SpentFits
<1>11. QED  BY <1>1, <1>3, <1>8, <1>9, <1>10, InvFacts, AdmittedInv

LEMMA EndToolsStep ==
  ASSUME AdmissionInv, NEW c \in Children, EndTools(c)
  PROVE  AdmissionInv'
<1>1. /\ work[c] = "tools"
      /\ c \in aborted \/ question[c] = "none" \/ UnawaitedQuestions
      /\ work' = At(c, "boundary") /\ UNCHANGED <<question, aborted, stopped, spent>>
      /\ places' = [places EXCEPT !.toolWaits = @ \ {c}]
  BY DEF EndTools
<1>2. /\ places' \in Schedulers /\ places'.queue = places.queue /\ places'.running = places.running
      /\ places'.consulting = places.consulting /\ places'.toolWaits = places.toolWaits \ {c}
      /\ places'.yielded = places.yielded /\ places'.parents = places.parents
  BY <1>1, InvFacts DEF Schedulers
<1>3. /\ work' \in [Children -> Works] /\ work'[c] = "boundary"
      /\ \A d \in Children \ {c} : work'[d] = work[d]
  BY <1>1, InvFacts DEF At, Works
<1>4. QueueAgrees(places', work', question)
  <2>1. \A d \in Children :
          /\ Turn(d) \in ToSet(places'.queue) <=> work'[d] \in {"queued", "reentering", "waiting"}
          /\ Consultation(d) \in ToSet(places'.queue) <=> question[d] = "queued"
    BY <1>1, <1>2, <1>3, InvFacts, WantedMeans
  <2>2. ToSet(places'.queue) \in SUBSET Entries
    BY <1>2, InvFacts, WantedMeans
  <2>3. ToSet(places'.queue) = Wanted(work', question)
    BY <2>1, <2>2, WantedMeans
  <2>4. NoDup(places'.queue)
    BY <1>2, InvFacts
  <2>5. QED  BY <2>3, <2>4 DEF QueueAgrees
<1>5. PlacesAgree(places', work', question, aborted, stopped)
  BY <1>1, <1>2, <1>3, InvFacts DEF PlacesAgree
<1>6. Holders(places', work') \subseteq Holders(places, work)
  BY <1>1, <1>2, <1>3, InvFacts DEF Holders, LiveChildren
<1>7. Placed(places', work', question, aborted, stopped)
  BY <1>2, <1>3, <1>4, <1>5, <1>6, InvFacts, PlacedMoves
<1>8. ~UnawaitedQuestions => PlacesUsed(places', work', question, aborted)
  BY <1>1, <1>2, <1>3, InvFacts DEF PlacesUsed, PlacesAgree
<1>9. SpentFits(spent, work')
  BY <1>1, <1>3, InvFacts DEF SpentFits
<1>10. QED  BY <1>1, <1>7, <1>8, <1>9, InvFacts, LeftInv

\* A question has the place its child has, or queues for one without it.
LEMMA AskStep ==
  ASSUME AdmissionInv, NEW c \in Children, Ask(c)
  PROVE  AdmissionInv'
<1>1. /\ work[c] = "tools" /\ c \notin aborted /\ question[c] = "none"
      /\ spent[c].questions < MaxQuestions /\ Spend(c, "questions")
      /\ UNCHANGED <<aborted, stopped>>
  BY DEF Ask
<1>2. SpentFits(spent', work)
  BY <1>1, SpendFacts, InvFacts DEF SpentFits
<1>3. CASE c \in places.running \ places.yielded
  <2>1. /\ places' = [places EXCEPT !.consulting = @ \cup {c}]
        /\ question' = [question EXCEPT ![c] = "streaming"] /\ work' = work
    BY <1>3 DEF Ask
  <2>2. /\ places' \in Schedulers /\ places'.queue = places.queue
        /\ places'.running = places.running /\ places'.consulting = places.consulting \cup {c}
        /\ places'.toolWaits = places.toolWaits /\ places'.yielded = places.yielded
        /\ places'.parents = places.parents
    BY <2>1, InvFacts DEF Schedulers
  <2>3. /\ question' \in [Children -> {"none", "queued", "streaming"}]
        /\ question'[c] = "streaming" /\ \A d \in Children \ {c} : question'[d] = question[d]
    BY <2>1, InvFacts
  <2>4. QueueAgrees(places', work, question')
    <3>1. \A d \in Children :
            /\ Turn(d) \in ToSet(places'.queue) <=> work[d] \in {"queued", "reentering", "waiting"}
            /\ Consultation(d) \in ToSet(places'.queue) <=> question'[d] = "queued"
      BY <1>1, <2>2, <2>3, InvFacts, WantedMeans
    <3>2. ToSet(places'.queue) \in SUBSET Entries
      BY <2>2, InvFacts, WantedMeans
    <3>3. ToSet(places'.queue) = Wanted(work, question')
      BY <3>1, <3>2, WantedMeans
    <3>4. NoDup(places'.queue)
      BY <2>2, InvFacts
    <3>5. QED  BY <3>3, <3>4 DEF QueueAgrees
  <2>5. PlacesAgree(places', work, question', aborted, stopped)
    BY <1>1, <2>2, <2>3, InvFacts DEF PlacesAgree
  <2>6. Holders(places', work) \subseteq Holders(places, work)
    BY <1>1, <1>3, <2>2, InvFacts DEF Holders, LiveChildren
  <2>7. Placed(places', work, question', aborted, stopped)
    BY <2>2, <2>3, <2>4, <2>5, <2>6, InvFacts, PlacedMoves
  <2>8. ~UnawaitedQuestions => PlacesUsed(places', work, question', aborted)
    BY <1>1, <2>2, <2>3, InvFacts DEF PlacesUsed
  <2>9. QED  BY <1>1, <1>2, <2>1, <2>7, <2>8, InvFacts, LeftInv
<1>4. CASE c \notin places.running \ places.yielded
  <2> DEFINE b == [places EXCEPT !.running = @ \ {c}]
             p == Enqueue(b, Consultation(c))
             q == [question EXCEPT ![c] = "queued"]
  <2>1. Admitting(p, work, q)
    BY <1>4 DEF Ask
  <2>2. /\ b \in Schedulers /\ b.queue = places.queue /\ b.running = places.running \ {c}
        /\ b.consulting = places.consulting /\ b.toolWaits = places.toolWaits
        /\ b.yielded = places.yielded /\ b.parents = places.parents
    BY InvFacts DEF Schedulers
  <2>3. Consultation(c) \in Entries /\ Consultation(c) \notin ToSet(b.queue)
    BY <1>1, <2>2, InvFacts, EntryFacts, WantedMeans
  <2> HIDE DEF b
  <2>4. /\ p \in Schedulers /\ NoDup(p.queue)
        /\ ToSet(p.queue) = ToSet(places.queue) \cup {Consultation(c)}
        /\ places.yielded \subseteq p.yielded /\ p.yielded \subseteq places.yielded \cup places.toolWaits
        /\ p.running = places.running \ {c} /\ p.consulting = places.consulting
        /\ p.toolWaits = places.toolWaits /\ p.parents = places.parents
    BY <2>2, <2>3, InvFacts, EnqueueFacts
  <2>5. /\ q \in [Children -> {"none", "queued", "streaming"}] /\ q[c] = "queued"
        /\ \A d \in Children \ {c} : q[d] = question[d]
    BY InvFacts
  <2> HIDE DEF p, q
  <2>6. QueueAgrees(p, work, q)
    <3>1. ToSet(p.queue) \in SUBSET Entries
      BY <2>3, <2>4, InvFacts, WantedMeans
    <3>2. \A d \in Children :
            /\ Turn(d) \in ToSet(p.queue) <=> work[d] \in {"queued", "reentering", "waiting"}
            /\ Consultation(d) \in ToSet(p.queue) <=> q[d] = "queued"
      BY <2>4, <2>5, InvFacts, WantedMeans, EntryFacts
    <3>3. QED  BY <2>4, <3>1, <3>2, WantedMeans DEF QueueAgrees
  <2>7. c \in p.yielded
    BY <1>1, <1>4, <2>4, InvFacts DEF PlacesAgree
  <2>8. PlacesAgree(p, work, q, aborted, stopped)
    BY <1>1, <2>4, <2>5, <2>7, InvFacts DEF PlacesAgree
  <2>9. Holders(p, work) \subseteq Holders(places, work)
    BY <2>4, InvFacts DEF Holders
  <2>10. Placed(p, work, q, aborted, stopped)
    BY <2>4, <2>5, <2>6, <2>8, <2>9, InvFacts, PlacedMoves
  <2>11. ~UnawaitedQuestions => PlacesUsed(p, work, q, aborted)
    BY <1>1, <2>4, <2>5, InvFacts DEF PlacesUsed
  <2>12. QED  BY <1>1, <1>2, <2>1, <2>10, <2>11, InvFacts, AdmittedInv
<1>5. QED  BY <1>3, <1>4

LEMMA DropQuestionStep ==
  ASSUME AdmissionInv, NEW c \in Children, DropQuestion(c)
  PROVE  AdmissionInv'
<1>1. /\ question[c] = "queued" /\ UNCHANGED <<work, aborted, stopped, spent>>
      /\ places' = [places EXCEPT !.queue = Without(@, {Consultation(c)})]
      /\ question' = [question EXCEPT ![c] = "none"]
  BY DEF DropQuestion
<1>2. /\ Without(places.queue, {Consultation(c)}) \in Seq(Entries)
      /\ NoDup(Without(places.queue, {Consultation(c)}))
      /\ ToSet(Without(places.queue, {Consultation(c)})) = Wanted(work, question) \ {Consultation(c)}
  <2>1. places.queue \in Seq(Entries)
    BY InvFacts DEF Schedulers
  <2>2. QED  BY <2>1, InvFacts, WithoutKeeps
<1>3. /\ places' \in Schedulers /\ NoDup(places'.queue)
      /\ ToSet(places'.queue) = Wanted(work, question) \ {Consultation(c)}
      /\ places'.running = places.running /\ places'.consulting = places.consulting
      /\ places'.toolWaits = places.toolWaits /\ places'.yielded = places.yielded
      /\ places'.parents = places.parents
  BY <1>1, <1>2, InvFacts DEF Schedulers
<1>4. /\ question' \in [Children -> {"none", "queued", "streaming"}]
      /\ question'[c] = "none" /\ \A d \in Children \ {c} : question'[d] = question[d]
  BY <1>1, InvFacts
<1>5. QueueAgrees(places', work, question')
  <2>1. \A d \in Children :
          /\ Turn(d) \in ToSet(places'.queue) <=> work[d] \in {"queued", "reentering", "waiting"}
          /\ Consultation(d) \in ToSet(places'.queue) <=> question'[d] = "queued"
    BY <1>3, <1>4, WantedMeans, EntryFacts
  <2>2. ToSet(places'.queue) \in SUBSET Entries
    BY <1>3, WantedMeans
  <2>3. ToSet(places'.queue) = Wanted(work, question')
    BY <2>1, <2>2, WantedMeans
  <2>4. QED  BY <1>3, <2>3 DEF QueueAgrees
<1>6. PlacesAgree(places', work, question', aborted, stopped)
  BY <1>1, <1>3, <1>4, InvFacts DEF PlacesAgree
<1>7. Holders(places', work) \subseteq Holders(places, work)
  BY <1>3 DEF Holders
<1>8. Placed(places', work, question', aborted, stopped)
  BY <1>3, <1>4, <1>5, <1>6, <1>7, InvFacts, PlacedMoves
<1>9. ~UnawaitedQuestions => PlacesUsed(places', work, question', aborted)
  BY <1>3, <1>4, InvFacts DEF PlacesUsed
<1>10. QED  BY <1>1, <1>8, <1>9, InvFacts, LeftInv

LEMMA EndStreamStep ==
  ASSUME AdmissionInv, NEW c \in Children, EndStream(c)
  PROVE  AdmissionInv'
<1> DEFINE p == Answered(places, c)
           q == [question EXCEPT ![c] = "none"]
<1>1. /\ question[c] = "streaming" /\ UNCHANGED <<aborted, stopped, spent>>
      /\ Admitting(p, work, q)
  BY DEF EndStream
<1>2. /\ p \in Schedulers /\ p.queue = places.queue /\ p.consulting = places.consulting \ {c}
      /\ p.running = places.running \/ (c \in places.parents /\ p.running = places.running \cup {c})
      /\ p.toolWaits = places.toolWaits /\ p.yielded = places.yielded /\ p.parents = places.parents
  <2>1. CASE c \in places.parents
    BY <2>1, InvFacts DEF Answered, Schedulers
  <2>2. CASE c \notin places.parents
    BY <2>2, InvFacts DEF Answered, Schedulers
  <2>3. QED  BY <2>1, <2>2
<1>3. /\ q \in [Children -> {"none", "queued", "streaming"}] /\ q[c] = "none"
      /\ \A d \in Children \ {c} : q[d] = question[d]
  BY InvFacts
<1> HIDE DEF p, q
<1>4. QueueAgrees(p, work, q)
  <2>1. \A d \in Children :
          /\ Turn(d) \in ToSet(p.queue) <=> work[d] \in {"queued", "reentering", "waiting"}
          /\ Consultation(d) \in ToSet(p.queue) <=> q[d] = "queued"
    BY <1>1, <1>2, <1>3, InvFacts, WantedMeans
  <2>2. ToSet(p.queue) \in SUBSET Entries
    BY <1>2, InvFacts, WantedMeans
  <2>3. ToSet(p.queue) = Wanted(work, q)
    BY <2>1, <2>2, WantedMeans
  <2>4. QED  BY <1>2, <2>3, InvFacts DEF QueueAgrees
<1>5. PlacesAgree(p, work, q, aborted, stopped)
  BY <1>1, <1>2, <1>3, InvFacts DEF PlacesAgree
<1>6. Holders(p, work) \subseteq Holders(places, work)
  <2>1. c \in places.consulting
    BY <1>1, InvFacts DEF PlacesAgree
  <2>2. QED  BY <1>2, <2>1 DEF Holders
<1>7. Placed(p, work, q, aborted, stopped)
  BY <1>2, <1>3, <1>4, <1>5, <1>6, InvFacts, PlacedMoves
<1>8. ~UnawaitedQuestions => PlacesUsed(p, work, q, aborted)
  BY <1>1, <1>2, <1>3, InvFacts DEF PlacesUsed, PlacesAgree
<1>9. QED  BY <1>1, <1>7, <1>8, InvFacts, AdmittedInv

\* A child gives its place up and goes on to a state in which it needs none.
LEMMA LeavesStep ==
  ASSUME AdmissionInv, NEW c \in Children, NEW state \in {"idle", "ended"},
         work[c] \in {"model", "ghost"}, UNCHANGED <<aborted, stopped, spent>>,
         state = "idle" => spent[c].turns < MaxTurns,
         work[c] = "ghost" => state = "ended" /\ c \notin places.parents,
         work[c] = "model" => state = "idle",
         Admitting(Released(places, c), At(c, state), question)
  PROVE  AdmissionInv'
<1> DEFINE p == Released(places, c)
           w == At(c, state)
<1>1. /\ p \in Schedulers /\ p.queue = places.queue /\ p.running = places.running \ {c}
      /\ p.consulting = places.consulting /\ p.toolWaits = places.toolWaits \ {c}
      /\ p.yielded = places.yielded \ {c} /\ p.parents = places.parents
  BY InvFacts, ReleasedFacts
<1>2. w \in [Children -> Works] /\ w[c] = state /\ \A d \in Children \ {c} : w[d] = work[d]
  BY InvFacts DEF At, Works
<1>3. Admitting(p, w, question)
  OBVIOUS
<1> HIDE DEF p, w
<1>4. QueueAgrees(p, w, question)
  <2>1. \A d \in Children :
          /\ Turn(d) \in ToSet(p.queue) <=> w[d] \in {"queued", "reentering", "waiting"}
          /\ Consultation(d) \in ToSet(p.queue) <=> question[d] = "queued"
    BY <1>1, <1>2, InvFacts, WantedMeans
  <2>2. ToSet(p.queue) \in SUBSET Entries
    BY <1>1, InvFacts, WantedMeans
  <2>3. ToSet(p.queue) = Wanted(w, question)
    <3>1. \A S \in SUBSET Entries :
            (\A d \in Children :
               /\ Turn(d) \in S <=> w[d] \in {"queued", "reentering", "waiting"}
               /\ Consultation(d) \in S <=> question[d] = "queued") => S = Wanted(w, question)
      BY WantedMeans
    <3>2. QED  BY <2>1, <2>2, <3>1
  <2>4. QED  BY <1>1, <2>3, InvFacts DEF QueueAgrees
<1>5. PlacesAgree(p, w, question, aborted, stopped)
  BY <1>1, <1>2, InvFacts DEF PlacesAgree
<1>6. Holders(p, w) \subseteq Holders(places, work)
  BY <1>1, <1>2 DEF Holders, LiveChildren
<1>7. Placed(p, w, question, aborted, stopped)
  BY <1>1, <1>2, <1>4, <1>5, <1>6, InvFacts, PlacedMoves
<1>8. ~UnawaitedQuestions => PlacesUsed(p, w, question, aborted)
  BY <1>1, <1>2, InvFacts DEF PlacesUsed
<1>9. SpentFits(spent, w)
  BY <1>2, InvFacts DEF SpentFits
<1>10. QED  BY <1>3, <1>7, <1>8, <1>9, InvFacts, AdmittedInv

LEMMA RestStep ==
  ASSUME AdmissionInv, NEW c \in Children, Rest(c)
  PROVE  AdmissionInv'
BY LeavesStep DEF Rest, Staying

LEMMA EndGhostStep ==
  ASSUME AdmissionInv, NEW c \in Children, EndGhost(c)
  PROVE  AdmissionInv'
<1>1. /\ work[c] = "ghost" /\ UNCHANGED <<aborted, stopped, spent>>
      /\ Admitting(Released(places, c), At(c, "ended"), question)
  BY DEF EndGhost
<1>2. c \notin places.parents
  BY <1>1, InvFacts DEF PlacesAgree
<1>3. QED  BY <1>1, <1>2, LeavesStep

LEMMA DeliverStep ==
  ASSUME AdmissionInv, NEW c \in Children, Deliver(c)
  PROVE  AdmissionInv'
<1> DEFINE p == Enqueue(places, Turn(c))
           w == At(c, "waiting")
<1>1. work[c] = "idle" /\ UNCHANGED <<aborted, stopped, spent>> /\ Admitting(p, w, question)
  BY DEF Deliver
<1>2. Turn(c) \in Entries /\ Turn(c) \notin ToSet(places.queue)
  BY <1>1, InvFacts, EntryFacts, WantedMeans
<1>3. /\ p \in Schedulers /\ NoDup(p.queue) /\ ToSet(p.queue) = ToSet(places.queue) \cup {Turn(c)}
      /\ places.yielded \subseteq p.yielded /\ p.yielded \subseteq places.yielded \cup places.toolWaits
      /\ p.running = places.running /\ p.consulting = places.consulting
      /\ p.toolWaits = places.toolWaits /\ p.parents = places.parents
  BY <1>2, InvFacts, EnqueueFacts
<1>4. /\ w \in [Children -> Works] /\ w[c] = "waiting"
      /\ \A d \in Children \ {c} : w[d] = work[d]
  BY InvFacts DEF At, Works
<1> HIDE DEF p, w
<1>5. QueueAgrees(p, w, question)
  <2>1. ToSet(p.queue) \in SUBSET Entries
    BY <1>2, <1>3, InvFacts, WantedMeans
  <2>2. \A d \in Children :
          /\ Turn(d) \in ToSet(p.queue) <=> w[d] \in {"queued", "reentering", "waiting"}
          /\ Consultation(d) \in ToSet(p.queue) <=> question[d] = "queued"
    BY <1>3, <1>4, <1>1, InvFacts, WantedMeans, EntryFacts
  <2>3. QED  BY <1>3, <2>1, <2>2, WantedMeans DEF QueueAgrees
<1>6. PlacesAgree(p, w, question, aborted, stopped)
  BY <1>1, <1>3, <1>4, InvFacts DEF PlacesAgree
<1>7. Holders(p, w) \subseteq Holders(places, work)
  BY <1>1, <1>3, <1>4 DEF Holders, LiveChildren
<1>8. Placed(p, w, question, aborted, stopped)
  BY <1>3, <1>4, <1>5, <1>6, <1>7, InvFacts, PlacedMoves
<1>9. ~UnawaitedQuestions => PlacesUsed(p, w, question, aborted)
  BY <1>1, <1>3, <1>4, InvFacts DEF PlacesUsed
<1>10. SpentFits(spent, w)
  BY <1>1, <1>4, InvFacts DEF SpentFits
<1>11. QED  BY <1>1, <1>8, <1>9, <1>10, InvFacts, AdmittedInv

-----------------------------------------------------------------------------
(* Admission: aborted children, the end of a child, and the user's hold.   *)

\* abortChild of a set of children: each gives up what it waits for.
LEMMA AbortedFacts ==
  ASSUME NEW p, NEW w, NEW q, NEW gone, NEW over, Placed(p, w, q, gone, over),
         NEW among \in SUBSET Children, NEW dead, NEW done,
         gone \subseteq dead, dead \subseteq gone \cup among, over \subseteq done,
         among \subseteq dead \cup done,
         \A c \in among : w[c] = "reentering" => c \in dead
  PROVE  LET r == Aborted(p, w, q, among) IN
         /\ Placed(r.places, r.work, r.question, dead, done)
         /\ PlacesUsed(p, w, q, gone) => PlacesUsed(r.places, r.work, r.question, dead)
         /\ \A used : SpentFits(used, w) => SpentFits(used, r.work)
<1> DEFINE r == Aborted(p, w, q, among)
           off == {e \in Entries : e.child \in among}
           young == {c \in among : w[c] \in {"queued", "starting"}}
<1>1. /\ p \in Schedulers /\ w \in [Children -> Works]
      /\ q \in [Children -> {"none", "queued", "streaming"}]
      /\ NoDup(p.queue) /\ ToSet(p.queue) = Wanted(w, q)
      /\ PlacesAgree(p, w, q, gone, over)
  BY DEF Placed, QueueAgrees
<1>2. /\ Without(p.queue, off) \in Seq(Entries) /\ NoDup(Without(p.queue, off))
      /\ ToSet(Without(p.queue, off)) = Wanted(w, q) \ off
  <2>1. p.queue \in Seq(Entries)
    BY <1>1 DEF Schedulers
  <2>2. QED  BY <1>1, <2>1, WithoutKeeps
<1>3. /\ r.places \in Schedulers /\ NoDup(r.places.queue)
      /\ ToSet(r.places.queue) = Wanted(w, q) \ off
      /\ r.places.running = p.running /\ r.places.consulting = p.consulting
      /\ r.places.toolWaits = p.toolWaits /\ r.places.yielded = p.yielded
      /\ r.places.parents = p.parents \ young
  <2>1. r.places = [[p EXCEPT !.queue = Without(@, off)] EXCEPT !.parents = @ \ young]
    BY DEF Aborted, Dequeued
  <2> HIDE DEF r, off, young
  <2>2. QED  BY <1>1, <1>2, <2>1 DEF Schedulers
<1>4. /\ r.work \in [Children -> Works]
      /\ \A c \in Children \ among : r.work[c] = w[c]
      /\ \A c \in among :
           \/ w[c] = "queued" /\ r.work[c] = "ended"
           \/ w[c] = "starting" /\ r.work[c] = "ghost"
           \/ w[c] = "reentering" /\ r.work[c] = "boundary"
           \/ w[c] \in {"idle", "waiting"} /\ r.work[c] = "waking"
           \/ /\ w[c] \notin {"queued", "starting", "reentering", "idle", "waiting"}
              /\ r.work[c] = w[c]
  <2>1. r.work = [c \in Children |->
          IF c \notin among THEN w[c]
          ELSE CASE w[c] = "queued" -> "ended"
                 [] w[c] = "starting" -> "ghost"
                 [] w[c] = "reentering" -> "boundary"
                 [] w[c] \in {"idle", "waiting"} -> "waking"
                 [] OTHER -> w[c]]
    BY DEF Aborted
  <2> HIDE DEF r
  <2>2. \A c \in Children \ among : r.work[c] = w[c]
    BY <2>1
  <2>3. \A c \in among :
           \/ w[c] = "queued" /\ r.work[c] = "ended"
           \/ w[c] = "starting" /\ r.work[c] = "ghost"
           \/ w[c] = "reentering" /\ r.work[c] = "boundary"
           \/ w[c] \in {"idle", "waiting"} /\ r.work[c] = "waking"
           \/ /\ w[c] \notin {"queued", "starting", "reentering", "idle", "waiting"}
              /\ r.work[c] = w[c]
    BY <2>1
  <2>4. \A c \in Children : r.work[c] \in Works
    BY <1>1, <2>2, <2>3 DEF Works
  <2>5. r.work \in [Children -> Works]
    BY <2>1, <2>4
  <2>6. QED  BY <2>2, <2>3, <2>5
<1>5. /\ r.question \in [Children -> {"none", "queued", "streaming"}]
      /\ \A c \in Children : r.question[c] = IF c \in among /\ q[c] = "queued" THEN "none" ELSE q[c]
  BY <1>1 DEF Aborted
<1> HIDE DEF r
<1>6. QueueAgrees(r.places, r.work, r.question)
  <2>1. \A d \in Children :
          /\ Turn(d) \in ToSet(r.places.queue) <=> r.work[d] \in {"queued", "reentering", "waiting"}
          /\ Consultation(d) \in ToSet(r.places.queue) <=> r.question[d] = "queued"
    <3>1. \A d \in Children : /\ Turn(d) \in off <=> d \in among
                              /\ Consultation(d) \in off <=> d \in among
      BY EntryFacts
    <3> HIDE DEF off
    <3>2. QED  BY <1>3, <1>4, <1>5, <3>1, WantedMeans
  <2>2. ToSet(r.places.queue) \in SUBSET Entries
    BY <1>3, WantedMeans
  <2>3. \A S \in SUBSET Entries :
          (\A d \in Children :
             /\ Turn(d) \in S <=> r.work[d] \in {"queued", "reentering", "waiting"}
             /\ Consultation(d) \in S <=> r.question[d] = "queued")
          => S = Wanted(r.work, r.question)
    BY WantedMeans
  <2>4. ToSet(r.places.queue) = Wanted(r.work, r.question)
    BY <2>1, <2>2, <2>3
  <2>5. QED  BY <1>3, <2>4 DEF QueueAgrees
<1>7. PlacesAgree(r.places, r.work, r.question, dead, done)
  <2>1. r.places.consulting = {c \in Children : r.question[c] = "streaming"}
    BY <1>1, <1>3, <1>5 DEF PlacesAgree
  <2>2. ASSUME NEW c \in Children
        PROVE  /\ c \in r.places.toolWaits => r.work[c] = "tools"
               /\ c \in r.places.yielded => r.work[c] \in {"tools", "boundary"}
               /\ c \in r.places.parents => r.work[c] \notin {"unborn", "ghost", "ended"}
               /\ c \in r.places.running \/ r.question[c] # "none" => r.work[c] # "unborn"
               /\ r.work[c] \in {"starting", "resuming", "model"} => c \in r.places.running
               /\ r.work[c] \in {"tools", "boundary"} /\ c \notin dead
                    => c \in r.places.running \cup r.places.yielded
               /\ r.work[c] = "waking" /\ c \notin dead \cup done => c \in r.places.running
    <3>1. /\ c \in p.toolWaits => w[c] = "tools"
          /\ c \in p.yielded => w[c] \in {"tools", "boundary"}
          /\ c \in p.parents => w[c] \notin {"unborn", "ghost", "ended"}
          /\ c \in p.running \/ q[c] # "none" => w[c] # "unborn"
          /\ w[c] \in {"starting", "resuming", "model"} => c \in p.running
          /\ w[c] \in {"tools", "boundary"} /\ c \notin gone => c \in p.running \cup p.yielded
          /\ w[c] = "waking" /\ c \notin gone \cup over => c \in p.running
      BY <1>1 DEF PlacesAgree
    <3>2. CASE c \in among
      BY <1>3, <1>4, <1>5, <3>1, <3>2
    <3>3. CASE c \notin among
      BY <1>3, <1>4, <1>5, <3>1, <3>3
    <3>4. QED  BY <3>2, <3>3
  <2>3. QED  BY <2>1, <2>2 DEF PlacesAgree
<1>8. Holders(r.places, r.work) \subseteq Holders(p, w)
  BY <1>3, <1>4 DEF Holders, LiveChildren
<1>9. Placed(r.places, r.work, r.question, dead, done)
  BY <1>3, <1>4, <1>5, <1>6, <1>7, <1>8, PlacedMoves
<1>10. ASSUME PlacesUsed(p, w, q, gone) PROVE PlacesUsed(r.places, r.work, r.question, dead)
  BY <1>3, <1>4, <1>5, <1>10 DEF PlacesUsed
<1>11. ASSUME NEW used, SpentFits(used, w) PROVE SpentFits(used, r.work)
  BY <1>4, <1>11 DEF SpentFits
<1>12. QED  BY <1>9, <1>10, <1>11 DEF r

LEMMA AbortStep ==
  ASSUME AdmissionInv, NEW c \in Children, Abort(c)
  PROVE  AdmissionInv'
<1> DEFINE r == Aborted(places, work, question, {c})
<1>1. /\ places' = r.places /\ work' = r.work /\ question' = r.question
      /\ aborted' = aborted \cup {c} /\ UNCHANGED <<stopped, spent>>
  BY DEF Abort
<1>2. /\ Placed(r.places, r.work, r.question, aborted \cup {c}, stopped)
      /\ PlacesUsed(places, work, question, aborted) => PlacesUsed(r.places, r.work, r.question, aborted \cup {c})
      /\ \A used : SpentFits(used, work) => SpentFits(used, r.work)
  BY InvFacts, AbortedFacts
<1> HIDE DEF r
<1>3. Placed(places', work', question', aborted', stopped') /\ SpentFits(spent', work')
  BY <1>1, <1>2, InvFacts
<1>4. ~UnawaitedQuestions => PlacesUsed(places', work', question', aborted')
  BY <1>1, <1>2, InvFacts
<1>5. aborted' \subseteq Children /\ stopped' \subseteq Persistent
  BY <1>1, InvFacts
<1>6. QED  BY <1>3, <1>4, <1>5, LeftInv

\* The hold of the user on a child changes no limit.
LEMMA HoldFacts ==
  ASSUME AdmissionInv, NEW chosen \in SUBSET Children, NEW done, stopped \subseteq done
  PROVE  LET p == [places EXCEPT !.paused = chosen] IN
         /\ Placed(p, work, question, aborted, done)
         /\ PlacesUsed(places, work, question, aborted) => PlacesUsed(p, work, question, aborted)
<1> DEFINE p == [places EXCEPT !.paused = chosen]
<1>1. /\ p \in Schedulers /\ p.queue = places.queue /\ p.running = places.running
      /\ p.consulting = places.consulting /\ p.toolWaits = places.toolWaits
      /\ p.yielded = places.yielded /\ p.parents = places.parents
  BY InvFacts DEF Schedulers
<1> HIDE DEF p
<1>2. QueueAgrees(p, work, question)
  BY <1>1, InvFacts DEF QueueAgrees
<1>3. PlacesAgree(p, work, question, aborted, done)
  BY <1>1, InvFacts DEF PlacesAgree
<1>4. Holders(p, work) \subseteq Holders(places, work)
  BY <1>1 DEF Holders
<1>5. Placed(p, work, question, aborted, done)
  BY <1>1, <1>2, <1>3, <1>4, InvFacts, PlacedMoves
<1>6. PlacesUsed(places, work, question, aborted) => PlacesUsed(p, work, question, aborted)
  BY <1>1 DEF PlacesUsed
<1>7. QED  BY <1>5, <1>6 DEF p

LEMMA StopStep ==
  ASSUME AdmissionInv, NEW c \in Children, Stop(c)
  PROVE  AdmissionInv'
<1>1. /\ c \in Persistent /\ c \notin aborted /\ stopped' = stopped \cup {c}
      /\ UNCHANGED <<aborted, spent>>
  BY DEF Stop
<1>2. aborted' \subseteq Children /\ stopped' \subseteq Persistent
  BY <1>1, InvFacts
<1>3. CASE c \in places.paused
  <2> DEFINE p == [places EXCEPT !.paused = places.paused \ {c}]
  <2>1. Admitting(p, work, question)
    BY <1>3 DEF Stop
  <2>2. /\ Placed(p, work, question, aborted, stopped \cup {c})
        /\ PlacesUsed(places, work, question, aborted) => PlacesUsed(p, work, question, aborted)
    <3>1. places.paused \ {c} \in SUBSET Children
      BY InvFacts DEF Schedulers
    <3>2. QED  BY <3>1, HoldFacts
  <2> HIDE DEF p
  <2>3. QED  BY <1>1, <1>2, <2>1, <2>2, InvFacts, AdmittedInv
<1>4. CASE c \notin places.paused /\ work[c] \in {"queued", "starting", "idle", "waiting"}
  <2> DEFINE r == Aborted(places, work, question, {c})
  <2>1. places' = r.places /\ work' = r.work /\ question' = r.question
    BY <1>4 DEF Stop
  <2>2. /\ Placed(r.places, r.work, r.question, aborted, stopped \cup {c})
        /\ PlacesUsed(places, work, question, aborted) => PlacesUsed(r.places, r.work, r.question, aborted)
        /\ \A used : SpentFits(used, work) => SpentFits(used, r.work)
    BY <1>4, InvFacts, AbortedFacts
  <2> HIDE DEF r
  <2>3. QED  BY <1>1, <1>2, <2>1, <2>2, InvFacts, LeftInv
<1>5. CASE c \notin places.paused /\ work[c] \notin {"queued", "starting", "idle", "waiting"}
  <2>1. UNCHANGED <<places, work, question>>
    BY <1>5 DEF Stop
  <2>2. Placed(places, work, question, aborted, stopped \cup {c})
    <3>1. PlacesAgree(places, work, question, aborted, stopped \cup {c})
      BY InvFacts DEF PlacesAgree
    <3>2. QED  BY <3>1, InvFacts DEF Placed
  <2>3. QED  BY <1>1, <1>2, <2>1, <2>2, InvFacts, LeftInv
<1>6. QED  BY <1>3, <1>4, <1>5

LEMMA PauseStep ==
  ASSUME AdmissionInv, NEW c \in Children, Pause(c)
  PROVE  AdmissionInv'
<1> DEFINE f == [k \in Children |-> spent[k].pauses]
           p == [places EXCEPT !.paused = places.paused \cup {c}]
<1>1. /\ Total(f, Children) < MaxPauses /\ Spend(c, "pauses")
      /\ places' = p /\ UNCHANGED <<work, question, aborted, stopped>>
  BY DEF Pause
<1>2. MaxPauses \in Nat /\ IsFiniteSet(Children)
  BY TreeFacts
<1>3. \A k \in Children : f[k] \in Nat
  BY <1>2, InvFacts DEF SpentFits
<1>4. spent[c].pauses < MaxPauses
  <2> HIDE DEF f
  <2>1. PICK F : Sums(F, f, Children)
    BY <1>2, <1>3, TotalSums
  <2>2. /\ F[Children] = f[c] + F[Children \ {c}] /\ F[Children \ {c}] \in Nat
        /\ F[Children] = Total(f, Children)
    BY <2>1 DEF Sums
  <2>3. f[c] < MaxPauses
    BY <1>1, <1>2, <1>3, <2>2
  <2>4. QED  BY <2>3 DEF f
<1>5. SpentFits(spent', work)
  BY <1>1, <1>4, SpendFacts, InvFacts DEF SpentFits
<1>6. /\ Placed(p, work, question, aborted, stopped)
      /\ PlacesUsed(places, work, question, aborted) => PlacesUsed(p, work, question, aborted)
  <2>1. places.paused \cup {c} \in SUBSET Children
    BY InvFacts DEF Schedulers
  <2>2. QED  BY <2>1, HoldFacts
<1> HIDE DEF p
<1>7. QED  BY <1>1, <1>5, <1>6, InvFacts, LeftInv

LEMMA UnpauseStep ==
  ASSUME AdmissionInv, NEW c \in Children, Unpause(c)
  PROVE  AdmissionInv'
<1> DEFINE p == [places EXCEPT !.paused = places.paused \ {c}]
<1>1. Admitting(p, work, question) /\ UNCHANGED <<aborted, stopped, spent>>
  BY DEF Unpause
<1>2. /\ Placed(p, work, question, aborted, stopped)
      /\ PlacesUsed(places, work, question, aborted) => PlacesUsed(p, work, question, aborted)
  <2>1. places.paused \ {c} \in SUBSET Children
    BY InvFacts DEF Schedulers
  <2>2. QED  BY <2>1, HoldFacts
<1> HIDE DEF p
<1>3. QED  BY <1>1, <1>2, InvFacts, AdmittedInv

\* A child that ends leaves its places, and aborts those it would leave behind.
LEMMA EndStep ==
  ASSUME AdmissionInv, NEW c \in Children, End(c)
  PROVE  AdmissionInv'
<1> DEFINE orphans == {k \in LiveChildren(work) \ aborted : Parent[k] = c}
           left == [Released(places, c) EXCEPT !.parents = @ \ {c}, !.paused = @ \ {c}]
           w == At(c, "ended")
           r == Aborted(left, w, question, orphans)
<1>1. /\ \/ work[c] = "model"
         \/ work[c] = "boundary" /\ c \in aborted
         \/ work[c] = "waking"
      /\ UNCHANGED <<stopped, spent>> /\ aborted' = aborted \cup orphans
      /\ Admitting(r.places, r.work, r.question)
  BY DEF End
<1>2. orphans \in SUBSET Children
  BY DEF LiveChildren
<1>3. /\ left \in Schedulers /\ left.queue = places.queue /\ left.running = places.running \ {c}
      /\ left.consulting = places.consulting /\ left.toolWaits = places.toolWaits \ {c}
      /\ left.yielded = places.yielded \ {c} /\ left.parents = places.parents \ {c}
  <2> DEFINE b == Released(places, c)
  <2>1. /\ b \in Schedulers /\ b.queue = places.queue /\ b.running = places.running \ {c}
        /\ b.consulting = places.consulting /\ b.toolWaits = places.toolWaits \ {c}
        /\ b.yielded = places.yielded \ {c} /\ b.parents = places.parents
    BY InvFacts, ReleasedFacts
  <2> DEFINE d == [b EXCEPT !.parents = @ \ {c}]
  <2> HIDE DEF b
  <2>2. /\ d \in Schedulers /\ d.queue = b.queue /\ d.running = b.running
        /\ d.consulting = b.consulting /\ d.toolWaits = b.toolWaits
        /\ d.yielded = b.yielded /\ d.parents = b.parents \ {c}
    BY <2>1 DEF Schedulers
  <2>3. left = [d EXCEPT !.paused = @ \ {c}]
    BY DEF b
  <2> HIDE DEF d, left
  <2>4. /\ left \in Schedulers /\ left.queue = d.queue /\ left.running = d.running
        /\ left.consulting = d.consulting /\ left.toolWaits = d.toolWaits
        /\ left.yielded = d.yielded /\ left.parents = d.parents
    BY <2>2, <2>3 DEF Schedulers
  <2>5. QED  BY <2>1, <2>2, <2>4
<1>4. w \in [Children -> Works] /\ w[c] = "ended" /\ \A d \in Children \ {c} : w[d] = work[d]
  BY InvFacts DEF At, Works
<1> HIDE DEF left, w, orphans, r
<1>5. QueueAgrees(left, w, question)
  <2>1. \A d \in Children :
          /\ Turn(d) \in ToSet(left.queue) <=> w[d] \in {"queued", "reentering", "waiting"}
          /\ Consultation(d) \in ToSet(left.queue) <=> question[d] = "queued"
    BY <1>1, <1>3, <1>4, InvFacts, WantedMeans
  <2>2. ToSet(left.queue) \in SUBSET Entries
    BY <1>3, InvFacts, WantedMeans
  <2>3. \A S \in SUBSET Entries :
          (\A d \in Children :
             /\ Turn(d) \in S <=> w[d] \in {"queued", "reentering", "waiting"}
             /\ Consultation(d) \in S <=> question[d] = "queued") => S = Wanted(w, question)
    BY WantedMeans
  <2>4. ToSet(left.queue) = Wanted(w, question)
    BY <2>1, <2>2, <2>3
  <2>5. QED  BY <1>3, <2>4, InvFacts DEF QueueAgrees
<1>6. PlacesAgree(left, w, question, aborted, stopped)
  BY <1>1, <1>3, <1>4, InvFacts DEF PlacesAgree
<1>7. Holders(left, w) \subseteq Holders(places, work)
  BY <1>3, <1>4 DEF Holders, LiveChildren
<1>8. Placed(left, w, question, aborted, stopped)
  BY <1>3, <1>4, <1>5, <1>6, <1>7, InvFacts, PlacedMoves
<1>9. ~UnawaitedQuestions => PlacesUsed(left, w, question, aborted)
  BY <1>1, <1>3, <1>4, InvFacts DEF PlacesUsed
<1>10. SpentFits(spent, w)
  BY <1>4, InvFacts DEF SpentFits
<1>11. /\ Placed(r.places, r.work, r.question, aborted \cup orphans, stopped)
       /\ PlacesUsed(left, w, question, aborted)
            => PlacesUsed(r.places, r.work, r.question, aborted \cup orphans)
       /\ \A used : SpentFits(used, w) => SpentFits(used, r.work)
  BY <1>2, <1>8, AbortedFacts DEF r
<1>12. aborted' \subseteq Children /\ stopped' \subseteq Persistent
  BY <1>1, <1>2, InvFacts
<1>13. QED  BY <1>1, <1>9, <1>10, <1>11, <1>12, AdmittedInv

-----------------------------------------------------------------------------
(* Admission: the theorems.                                                *)

LEMMA AdmissionInvInit ==
  ASSUME AdmissionInit
  PROVE  AdmissionInv
<1>1. /\ places \in Schedulers /\ places.queue = <<>> /\ places.running = {}
      /\ places.consulting = {} /\ places.toolWaits = {} /\ places.yielded = {}
      /\ places.parents = {}
  BY DEF AdmissionInit, Schedulers
<1>2. /\ work \in [Children -> Works] /\ \A c \in Children : work[c] = "unborn"
      /\ question \in [Children -> {"none", "queued", "streaming"}]
      /\ \A c \in Children : question[c] = "none"
      /\ aborted = {} /\ stopped = {}
  BY DEF AdmissionInit, Works
<1>3. QueueAgrees(places, work, question)
  <2>1. ToSet(places.queue) = {} /\ NoDup(places.queue)
    BY <1>1 DEF ToSet, NoDup
  <2>2. \A S \in SUBSET Entries :
          (\A d \in Children :
             /\ Turn(d) \in S <=> work[d] \in {"queued", "reentering", "waiting"}
             /\ Consultation(d) \in S <=> question[d] = "queued") => S = Wanted(work, question)
    BY WantedMeans
  <2>3. {} = Wanted(work, question)
    BY <1>2, <2>2
  <2>4. QED  BY <2>1, <2>3 DEF QueueAgrees
<1>4. PlacesAgree(places, work, question, aborted, stopped)
  BY <1>1, <1>2 DEF PlacesAgree
<1>5. Bounded(Holders(places, work))
  <2>1. Holders(places, work) = {}
    BY <1>1 DEF Holders
  <2>2. Cardinality({}) = 0
    BY FS_EmptySet
  <2>3. /\ {} \ Ephemeral = {} /\ \A x \in Groups : {} \cap Members[x] = {}
    OBVIOUS
  <2>4. QED  BY <2>1, <2>2, <2>3, TreeFacts DEF Bounded
<1>6. PlacesUsed(places, work, question, aborted)
  BY <1>1, <1>2 DEF PlacesUsed
<1>7. SpentFits(spent, work)
  BY <1>2, TreeFacts DEF AdmissionInit, SpentFits
<1>8. QED  BY <1>1, <1>2, <1>3, <1>4, <1>5, <1>6, <1>7 DEF AdmissionInv, Placed

LEMMA AdmissionInvStep ==
  ASSUME AdmissionInv, [AdmissionNext]_admissionVars
  PROVE  AdmissionInv'
<1>1. CASE UNCHANGED admissionVars
  BY <1>1, InvFacts, LeftInv DEF admissionVars
<1>2. ASSUME NEW c \in Children,
             \/ Spawn(c) \/ Progress(c) \/ BeginTools(c)
             \/ Ask(c) \/ DropQuestion(c)
             \/ NextTurn(c) \/ Rest(c) \/ Deliver(c)
             \/ Abort(c) \/ Stop(c) \/ Pause(c) \/ Unpause(c)
      PROVE  AdmissionInv'
  <2>1. CASE Progress(c)
    <3>1. \/ Start(c) \/ CallModel(c) \/ Resume(c) \/ EndTools(c) \/ EndStream(c)
          \/ BeginTurn(c) \/ End(c) \/ EndGhost(c)
      BY <2>1 DEF Progress
    <3>2. QED
      BY <3>1, StartStep, CallModelStep, ResumeStep, EndToolsStep, EndStreamStep,
         BeginTurnStep, EndStep, EndGhostStep
  <2>2. QED
    BY <1>2, <2>1, SpawnStep, BeginToolsStep, AskStep, DropQuestionStep, NextTurnStep,
       RestStep, DeliverStep, AbortStep, StopStep, PauseStep, UnpauseStep
<1>3. QED  BY <1>1, <1>2 DEF AdmissionNext

\* How often an entry is in the queue.
LEMMA EntryOnce ==
  ASSUME AdmissionInv, NEW e \in Entries
  PROVE  Cardinality({i \in DOMAIN places.queue : places.queue[i] = e})
           = IF e \in Wanted(work, question) THEN 1 ELSE 0
<1> DEFINE at == {i \in DOMAIN places.queue : places.queue[i] = e}
<1>1. /\ places.queue \in Seq(Entries) /\ NoDup(places.queue)
      /\ ToSet(places.queue) = Wanted(work, question)
  BY InvFacts DEF Schedulers
<1>2. DOMAIN places.queue = 1..Len(places.queue)
  BY <1>1
<1>3. CASE e \in Wanted(work, question)
  <2>1. PICK i \in DOMAIN places.queue : places.queue[i] = e
    BY <1>1, <1>3 DEF ToSet
  <2>2. at = {i}
    BY <1>1, <1>2, <2>1 DEF NoDup
  <2>3. Cardinality(at) = 1
    BY <2>2, FS_Singleton
  <2>4. QED  BY <1>3, <2>3
<1>4. CASE e \notin Wanted(work, question)
  <2>1. at = {}
    BY <1>1, <1>4 DEF ToSet
  <2>2. Cardinality(at) = 0
    BY <2>1, FS_EmptySet
  <2>3. QED  BY <1>4, <2>2
<1>5. QED  BY <1>3, <1>4

\* What the invariant says of the models.
LEMMA InvMeans ==
  ASSUME AdmissionInv
  PROVE  /\ AdmissionTypeOK /\ WithinPlaces /\ WithinGroups /\ RoomForPrivateTurns
         /\ ~UnawaitedQuestions => PlacesAreUsed
<1>1. AdmissionTypeOK
  <2>1. /\ places.queue \in Seq(Entries)
        /\ \A f \in {"running", "consulting", "toolWaits", "yielded", "parents", "paused"} :
             places[f] \subseteq Children
    BY InvFacts DEF Schedulers
  <2>2. ASSUME NEW c \in Children
        PROVE  /\ spent[c].batches \in 0..MaxBatches /\ spent[c].questions \in 0..MaxQuestions
               /\ spent[c].turns \in 0..MaxTurns /\ spent[c].pauses \in 0..MaxPauses
    BY InvFacts DEF SpentFits
  <2>3. ASSUME NEW c \in Children
        PROVE  /\ Cardinality({i \in DOMAIN places.queue : places.queue[i] = Turn(c)})
                    = IF work[c] \in DOMAIN Granted THEN 1 ELSE 0
               /\ Cardinality({i \in DOMAIN places.queue : places.queue[i] = Consultation(c)})
                    = IF question[c] = "queued" THEN 1 ELSE 0
    <3>1. /\ Turn(c) \in Entries /\ Consultation(c) \in Entries
          /\ Turn(c) \in Wanted(work, question) <=> work[c] \in DOMAIN Granted
          /\ Consultation(c) \in Wanted(work, question) <=> question[c] = "queued"
      BY EntryFacts DEF Wanted
    <3>2. QED  BY <3>1, EntryOnce
  <2>4. QED  BY <2>1, <2>2, <2>3, InvFacts DEF AdmissionTypeOK
<1>2. Streams \subseteq Holders(places, work) /\ Holders(places, work) \in SUBSET Children
  BY InvFacts DEF Streams, Holders, PlacesAgree, LiveChildren
<1>3. Bounded(Holders(places, work))
  BY InvFacts DEF Placed
<1>4. Bounded(Streams)
  BY <1>2, <1>3, FewerBounded
<1>5. WithinPlaces /\ WithinGroups
  BY <1>4 DEF Bounded, WithinPlaces, WithinGroups
<1>6. RoomForPrivateTurns
  BY <1>4 DEF Bounded, RoomForPrivateTurns, OrdinaryLimit
<1>7. ASSUME ~UnawaitedQuestions PROVE PlacesAreUsed
  <2>1. places.running \subseteq Children
    BY InvFacts DEF Schedulers
  <2>2. \A c \in Children : c \in places.running =>
          work[c] \notin {"unborn", "queued", "reentering", "idle", "waiting", "ended"}
    BY <1>7, InvFacts DEF PlacesUsed
  <2>3. places.consulting = {c \in Children : question[c] = "streaming"}
    BY InvFacts DEF PlacesAgree
  <2>4. QED  BY <2>1, <2>2, <2>3 DEF PlacesAreUsed
<1>8. QED  BY <1>1, <1>5, <1>6, <1>7

LEMMA AdmissionInvAlways == AdmissionSpec => []AdmissionInv
<1>1. AdmissionInit => AdmissionInv
  BY AdmissionInvInit
<1>2. AdmissionInv /\ [AdmissionNext]_admissionVars => AdmissionInv'
  BY AdmissionInvStep
<1>3. QED  BY <1>1, <1>2, PTL DEF AdmissionSpec

\* The limits of a tree hold whatever its children do: no more of them stream from a
\* model than there are places, in no group more than its own limit, and one place is
\* left to private turns.  Tools that leave a question of theirs open change nothing.
THEOREM LimitsKept ==
  AdmissionSpec => [](AdmissionTypeOK /\ WithinPlaces /\ WithinGroups /\ RoomForPrivateTurns)
<1>1. AdmissionInv => AdmissionTypeOK /\ WithinPlaces /\ WithinGroups /\ RoomForPrivateTurns
  BY InvMeans
<1>2. QED  BY <1>1, AdmissionInvAlways, PTL

\* Tools that wait for the answers to their questions let no place leak either: whoever
\* occupies one is in a turn or about to begin one, and consults while its stream runs.
THEOREM EveryLimitHolds ==
  ASSUME ~UnawaitedQuestions
  PROVE  AdmissionSpec => []LimitsHold
<1>1. AdmissionInv => LimitsHold
  BY InvMeans DEF LimitsHold
<1>2. QED  BY <1>1, AdmissionInvAlways, PTL
=============================================================================
