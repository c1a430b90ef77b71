----------------------------- MODULE Attachments -----------------------------
(***************************************************************************)
(* Who controls a remote workspace: the lease of one daemon                *)
(* (packages/cli/src/server/controller.ts) and the connections that hold,  *)
(* lose, take and hand it back (server/attachments.ts), with the final     *)
(* reject of a connection whose lease was taken (remote/connection.ts).    *)
(*                                                                         *)
(* Clients and daemon do not agree on when a connection ended: a client    *)
(* reconnects while its old connection still stands, a welcome may be lost *)
(* with the token in it, and what happens at the end of a connection runs  *)
(* some time after it was closed.  A token is named by the generation that *)
(* created it.  Deadlines are kept as the time that is left of them, which *)
(* makes the clock of the code monotone, as its now() does.                *)
(***************************************************************************)
EXTENDS Naturals, FiniteSets

CONSTANTS
  Clients,         \* clientIds: one frontend process each
  Conns,           \* connection slots, free again once a connection ended
  NoClient, NoConn,
  Roles,           \* clients that send a role string
  ModelServers,    \* clients that serve models for the daemon
  Grace,           \* graceMs
  TokenLifetime,   \* tokenLifetimeMs
  TakeInterval,    \* TAKE_INTERVAL_MS
  Viewers,         \* REMOTE_LIMITS.viewers
  ViewerSnapshots, \* VIEWER_SNAPSHOTS
  MaxGeneration    \* the last generation of the lease

ASSUME ConstantsAssumption ==
  /\ IsFiniteSet(Clients) /\ NoClient \notin Clients
  /\ IsFiniteSet(Conns) /\ NoConn \notin Conns
  /\ Roles \subseteq Clients /\ ModelServers \subseteq Clients
  /\ {Grace, TakeInterval, Viewers, ViewerSnapshots} \subseteq Nat
  /\ TokenLifetime \in Nat \ {0} /\ MaxGeneration \in Nat \ {0}

VARIABLES
  held,        \* the lease
  generation,
  holder,      \* #holder: the client that presence names
  active,      \* #active: the connection whose attachment acts
  conn,        \* the connections
  live,        \* #live: the connection of each client
  timer,       \* #graceTimer
  token        \* what each client was last welcomed with

vars == <<held, generation, holder, active, conn, live, timer, token>>

NoToken == 0
Powerless == MaxGeneration + 1  \* the token of a viewer's welcome

NoLease == [client |-> NoClient, token |-> 0, generation |-> 0, attached |-> FALSE,
            roles |-> FALSE, servesModels |-> FALSE,
            tokenLeft |-> 0, graceLeft |-> 0, age |-> 0]

NoPresence == [state |-> "none", client |-> NoClient, left |-> 0]

\* loading: its first snapshot is on its way.  taken: its lease was taken while
\* it stood.  farewell: whether its client was told.  reached: the client is
\* still at the other end.
Free == [state |-> "free", client |-> NoClient, generation |-> 0, welcomed |-> FALSE,
         reached |-> FALSE, loading |-> FALSE, taken |-> FALSE, farewell |-> "untold",
         seen |-> NoPresence]

TimerOff == 0
TimerDue == 1

Init ==
  /\ held = NoLease /\ generation = 0
  /\ holder = NoClient /\ active = NoConn
  /\ conn = [c \in Conns |-> Free]
  /\ live = [cl \in Clients |-> NoConn]
  /\ timer = TimerOff
  /\ token = [cl \in Clients |-> NoToken]

-----------------------------------------------------------------------------
(* The lease                                                               *)

\* expireDetached runs before every use of the lease: a reservation whose grace
\* is over is no lease.
Lease == IF held # NoLease /\ ~held.attached /\ held.graceLeft = 0 THEN NoLease ELSE held

Current(c) ==
  /\ Lease.attached
  /\ Lease.client = conn[c].client /\ Lease.generation = conn[c].generation

\* attach: the first client to come, or the holder's reconnect with its token.
CanAttach(cl) ==
  IF Lease = NoLease
  THEN token[cl] = NoToken
  ELSE Lease.client = cl /\ Lease.token = token[cl] /\ Lease.tokenLeft > 0

\* MUTANT of Attached: a reconnect keeps the generation of the connection it fences.
AttachedAgain(cl) ==
  [(IF Lease = NoLease THEN [NoLease EXCEPT !.token = generation + 1,
                                            !.tokenLeft = TokenLifetime] ELSE Lease)
   EXCEPT !.client = cl, !.attached = TRUE, !.graceLeft = 0,
          !.generation = IF Lease = NoLease THEN generation + 1 ELSE @,
          !.roles = cl \in Roles, !.servesModels = cl \in ModelServers]

\* A reconnect keeps the token, its deadline and the age of the lease.
Attached(cl) ==
  [(IF Lease = NoLease THEN [NoLease EXCEPT !.token = generation + 1,
                                            !.tokenLeft = TokenLifetime] ELSE Lease)
   EXCEPT !.client = cl, !.attached = TRUE, !.graceLeft = 0,
          !.generation = generation + 1,
          !.roles = cl \in Roles, !.servesModels = cl \in ModelServers]

\* MUTANT of CanTake: a holder that could not be told is taken over too.
CanTakeUntold(cl) ==
  Lease # NoLease /\ Lease.client # cl =>
    /\ Lease.age >= TakeInterval
    /\ Lease.attached => (Lease.servesModels => cl \in ModelServers)

\* take: not right after the last change of holder, and never from an attached
\* holder that cannot be told, or whose models would be missed.
CanTake(cl) ==
  Lease # NoLease /\ Lease.client # cl =>
    /\ Lease.age >= TakeInterval
    /\ Lease.attached => Lease.roles /\ (Lease.servesModels => cl \in ModelServers)

Taken(cl) ==
  [client |-> cl, token |-> generation + 1, generation |-> generation + 1, attached |-> TRUE,
   roles |-> TRUE, servesModels |-> cl \in ModelServers,
   tokenLeft |-> TokenLifetime, graceLeft |-> 0,
   age |-> IF Lease.client = cl THEN Lease.age ELSE 0]

CanRelease(cl) ==
  /\ Lease # NoLease /\ Lease.client = cl
  /\ Lease.token = token[cl] /\ Lease.tokenLeft > 0

Smaller(m, n) == IF m < n THEN m ELSE n

\* detach, with the expiry that follows it.
Detached ==
  LET left == Smaller(Lease.tokenLeft, Grace) IN
  IF left = 0 THEN NoLease ELSE [Lease EXCEPT !.attached = FALSE, !.graceLeft = left]

-----------------------------------------------------------------------------
(* Presence                                                                *)

Presence(lease, named) ==
  IF lease = NoLease THEN NoPresence
  ELSE [state |-> IF lease.attached THEN "attached" ELSE "detached",
        client |-> named, left |-> lease.graceLeft]

\* The connections once every live one that understands roles was notified.
Notified(conns, lives, lease, named) ==
  [c \in Conns |->
     IF conns[c].client \in Roles /\ lives[conns[c].client] = c
     THEN [conns[c] EXCEPT !.seen = Presence(lease, named)] ELSE conns[c]]

\* #broadcast: the presence of this state to all, and a timer for the end of a
\* grace, which makes no event.
Broadcast(conns, lives, lease, named) ==
  /\ conn' = Notified(conns, lives, lease, named)
  /\ timer' = IF lease # NoLease /\ ~lease.attached THEN TimerDue + lease.graceLeft + 1
              ELSE TimerOff

GraceEnds ==
  /\ timer = TimerDue
  /\ Broadcast(conn, live, Lease, holder)
  /\ held' = Lease
  /\ UNCHANGED <<generation, holder, active, live, token>>

-----------------------------------------------------------------------------
(* Connections                                                             *)

Standing(c) == conn[c].state \in {"open", "rejecting"}

\* close: everything else waits for the handler of the end.
Closing(r) == IF r.state \in {"open", "rejecting"} THEN [r EXCEPT !.state = "closing"] ELSE r

\* reject: a peer that was welcomed and understands roles gets a final frame.
Rejecting(r) ==
  IF r.state = "open" /\ r.welcomed /\ r.client \in Roles
  THEN [r EXCEPT !.state = "rejecting", !.taken = TRUE]
  ELSE Closing([r EXCEPT !.taken = TRUE])

Opened(cl, gen, loading) ==
  [Free EXCEPT !.state = "open", !.client = cl, !.generation = gen, !.reached = TRUE,
               !.loading = loading]

\* The client left its earlier connections, which the daemon learns later.
Left(cl) == [c \in Conns |-> IF conn[c].client = cl THEN [conn[c] EXCEPT !.reached = FALSE]
                             ELSE conn[c]]

CloseIf(conns, closed) == [c \in Conns |-> IF c \in closed THEN Closing(conns[c]) ELSE conns[c]]

\* The connection whose attachment acts is closed, with a word if its client is
\* another one.
Fenced(conns, told) ==
  [c \in Conns |-> IF c # active THEN conns[c]
                   ELSE IF told THEN Rejecting(conns[c]) ELSE Closing(conns[c])]

\* The rest of accept for a new controller.  Opening the journal may fail once
\* the lease moved: then the connection ends before it was live.
Control(cl, c, lease, told) ==
  LET fenced == Fenced(Left(cl), told)
      others == [k \in Clients |-> IF told /\ live[k] = active THEN NoConn ELSE live[k]]
  IN
  /\ held' = lease /\ generation' = lease.generation
  /\ holder' = cl /\ active' = c
  /\ \/ /\ live' = [others EXCEPT ![cl] = c]
        /\ Broadcast([CloseIf(fenced, {live[cl]}) EXCEPT ![c] = Opened(cl, lease.generation, FALSE)],
                     live', lease, cl)
     \/ /\ live' = others
        /\ conn' = [fenced EXCEPT ![c] = Closing(Opened(cl, lease.generation, FALSE))]
        /\ UNCHANGED timer
  /\ UNCHANGED token

Fresh(cl, c) == conn[c].state = "free" /\ generation < MaxGeneration

\* A hello without intent, or with the intent controller or auto.
Attach(cl, c) ==
  /\ Fresh(cl, c) /\ CanAttach(cl)
  /\ Control(cl, c, Attached(cl), FALSE)

\* A hello with the intent take.
Take(cl, c) ==
  /\ cl \in Roles /\ Fresh(cl, c) /\ CanTake(cl)
  /\ Control(cl, c, Taken(cl), Lease.attached /\ Lease.client # cl)

Loading == {c \in Conns : conn[c].loading}

\* Live viewers of other clients.
OtherViewers(cl) ==
  {k \in Clients \ {cl} : live[k] # NoConn /\ conn[live[k]].generation = 0}

\* MUTANT of TooManyLoading: off by one.
TooManyLoadingLate(snapshot) == snapshot /\ Cardinality(Loading) > ViewerSnapshots

TooManyLoading(snapshot) == snapshot /\ Cardinality(Loading) >= ViewerSnapshots

\* The rest of accept for a viewer that needs a snapshot or not; released: its
\* hello handed the lease back.  Too many snapshots refuse a viewer after that.
View(cl, c, snapshot, released) ==
  LET lease == IF released THEN NoLease ELSE Lease
      rest == IF released THEN CloseIf(Left(cl), {active}) ELSE Left(cl)
  IN
  /\ conn[c].state = "free"
  /\ Cardinality(OtherViewers(cl)) < Viewers
  /\ held' = lease
  /\ active' = IF released THEN NoConn ELSE active
  /\ IF TooManyLoading(snapshot)
     THEN conn' = [rest EXCEPT ![c] = Closing(Opened(cl, 0, FALSE))] /\ UNCHANGED <<live, timer>>
     ELSE /\ live' = [live EXCEPT ![cl] = c]
          /\ Broadcast([CloseIf(rest, {live[cl]}) EXCEPT ![c] = Opened(cl, 0, snapshot)],
                       live', lease, holder)
  /\ UNCHANGED <<generation, holder, token>>

\* A hello with the intent viewer; with the holder's token it hands control back.
AttachViewer(cl, c, snapshot) ==
  /\ cl \in Roles
  /\ View(cl, c, snapshot, CanRelease(cl))

\* A hello with the intent auto that cannot have the lease.
FallBack(cl, c, snapshot) ==
  /\ cl \in Roles /\ ~CanAttach(cl)
  /\ View(cl, c, snapshot, FALSE)

\* The welcome reaches the client, unless the client left.
Welcome(c) ==
  /\ conn[c].state = "open" /\ ~conn[c].welcomed
  /\ conn' = [conn EXCEPT ![c].welcomed = TRUE]
  /\ token' = IF conn[c].reached
              THEN [token EXCEPT ![conn[c].client] =
                      IF conn[c].generation = 0 THEN Powerless ELSE held.token]
              ELSE token
  /\ UNCHANGED <<held, generation, holder, active, live, timer>>

\* The first snapshot of a viewer was sent.
Loaded(c) ==
  /\ conn[c].state = "open" /\ conn[c].welcomed /\ conn[c].loading
  /\ conn' = [conn EXCEPT ![c].loading = FALSE]
  /\ UNCHANGED <<held, generation, holder, active, live, timer, token>>

\* A frame of a connection that is no longer current ends it.
StaleFrame(c) ==
  /\ Standing(c) /\ conn[c].welcomed /\ conn[c].reached
  /\ conn[c].generation # 0 /\ ~Current(c)
  /\ conn' = [conn EXCEPT ![c] = Closing(@)]
  /\ held' = Lease
  /\ UNCHANGED <<generation, holder, active, live, timer, token>>

\* MUTANT of Farewell: a peer that reads nothing is waited for.
FarewellRead(c) ==
  /\ conn[c].state = "rejecting" /\ conn[c].reached
  /\ conn' = [conn EXCEPT ![c] = Closing([@ EXCEPT !.farewell = "told"])]
  /\ UNCHANGED <<held, generation, holder, active, live, timer, token>>

\* The last frame of a rejected connection was written, or took too long.
Farewell(c) ==
  /\ conn[c].state = "rejecting"
  /\ \E how \in {"told", "late"} :
       conn' = [conn EXCEPT ![c] = Closing([@ EXCEPT !.farewell = how])]
  /\ UNCHANGED <<held, generation, holder, active, live, timer, token>>

\* The transport ends, at either side.
Disconnect(c) ==
  /\ Standing(c)
  /\ conn' = [conn EXCEPT ![c] = Closing([@ EXCEPT !.reached = FALSE])]
  /\ UNCHANGED <<held, generation, holder, active, live, timer, token>>

\* MUTANT of GivesBack: only a connection that was live gives its lease back.
GivesBackLive(c) ==
  conn[c].generation # 0 /\ Current(c) /\ live[conn[c].client] = c

\* detach finds the lease in the hands of this connection.
GivesBack(c) == conn[c].generation # 0 /\ Current(c)

ActiveAfter(c) == IF active = c THEN NoConn ELSE active

\* MUTANT of Changes: the end of a refused hello that moved the lease is not told.
ChangesLive(c) == live[conn[c].client] = c

\* Whether the end of the connection changes presence.
Changes(c) == live[conn[c].client] = c \/ conn[c].generation # 0

\* The handler of connection.closed.
Ended(c) ==
  /\ conn[c].state = "closing"
  /\ LET cl == conn[c].client
         freed == [conn EXCEPT ![c] = Free]
     IN
     /\ held' = IF GivesBack(c) THEN Detached ELSE Lease
     /\ active' = ActiveAfter(c)
     /\ live' = IF live[cl] = c THEN [live EXCEPT ![cl] = NoConn] ELSE live
     /\ IF Changes(c) THEN Broadcast(freed, live', held', holder)
        ELSE conn' = freed /\ UNCHANGED timer
  /\ UNCHANGED <<generation, holder, token>>

-----------------------------------------------------------------------------
(* Time                                                                    *)

Less(n) == IF n = 0 THEN 0 ELSE n - 1

\* MUTANT of Aged: the grace of a reservation does not run.
AgedForever == [held EXCEPT !.tokenLeft = Less(@), !.age = Smaller(@ + 1, TakeInterval)]

Aged == [held EXCEPT !.tokenLeft = Less(@), !.graceLeft = Less(@),
                     !.age = Smaller(@ + 1, TakeInterval)]

Tick ==
  /\ held # NoLease \/ timer > TimerDue
  /\ held' = IF held = NoLease THEN NoLease ELSE Aged
  /\ timer' = IF timer > TimerDue THEN timer - 1 ELSE timer
  /\ conn' = [c \in Conns |-> [conn[c] EXCEPT !.seen.left = Less(@)]]
  /\ UNCHANGED <<generation, holder, active, live, token>>

Hello(cl, c) ==
  \/ Attach(cl, c) \/ Take(cl, c)
  \/ \E snapshot \in BOOLEAN : AttachViewer(cl, c, snapshot) \/ FallBack(cl, c, snapshot)

Next ==
  \/ \E cl \in Clients, c \in Conns : Hello(cl, c)
  \/ \E c \in Conns :
       Welcome(c) \/ Loaded(c) \/ StaleFrame(c) \/ Farewell(c) \/ Disconnect(c) \/ Ended(c)
  \/ GraceEnds \/ Tick

Spec == Init /\ [][Next]_vars

\* Time passes, the handler of an end runs, and the last frame of a rejected
\* connection is written or given up after a second.
FairSpec ==
  /\ Spec
  /\ WF_vars(Tick)
  /\ \A c \in Conns : WF_vars(Farewell(c)) /\ WF_vars(Ended(c))

-----------------------------------------------------------------------------
(* Properties                                                              *)

Presences == [state : {"none", "attached", "detached"}, client : Clients \cup {NoClient},
              left : 0..Grace]

TypeOK ==
  /\ held \in [client : Clients \cup {NoClient}, token : 0..MaxGeneration,
               generation : 0..MaxGeneration, attached : BOOLEAN, roles : BOOLEAN,
               servesModels : BOOLEAN, tokenLeft : 0..TokenLifetime, graceLeft : 0..Grace,
               age : 0..TakeInterval]
  /\ held.generation <= generation /\ generation \in 0..MaxGeneration
  /\ holder \in Clients \cup {NoClient} /\ active \in Conns \cup {NoConn}
  /\ conn \in [Conns -> [state : {"free", "open", "rejecting", "closing"},
                         client : Clients \cup {NoClient}, generation : 0..MaxGeneration,
                         welcomed : BOOLEAN, reached : BOOLEAN, loading : BOOLEAN,
                         taken : BOOLEAN, farewell : {"untold", "told", "late"},
                         seen : Presences]]
  /\ live \in [Clients -> Conns \cup {NoConn}]
  /\ timer \in 0..(Grace + 2)
  /\ token \in [Clients -> 0..Powerless]
  /\ Cardinality(Loading) <= ViewerSnapshots

\* Of the connections that stand, the one whose frames pass for the
\* controller's is the one whose attachment acts, and an open connection that
\* was welcomed as the controller's never finds itself powerless, whatever was
\* taken, released or reconnected behind it.
OpenIsActive == \A c \in Conns :
  conn[c].state = "open" /\ conn[c].generation # 0 => Current(c) /\ active = c

\* An attached lease is in the hands of a connection whose end will give it
\* back: no refused hello and no late end leaves the workspace held by nobody.
LeaseHasConnection ==
  held.attached => \E c \in Conns : conn[c].state # "free" /\ Current(c)

\* The lease, the connection that stands for it and the live entry that acts for it
\* belong together, whatever was taken, refused or ended late.
LeaseIsBacked == TypeOK /\ OpenIsActive /\ LeaseHasConnection

\* Once the ends of all connections are handled, every live client that
\* understands roles sees an attached controller where there is one, by name,
\* and none where there is none.
ControllerIsShown ==
  (\A c \in Conns : conn[c].state \in {"free", "open"}) =>
    \A c \in Conns :
      conn[c].client \in Roles /\ live[conn[c].client] = c =>
        /\ (conn[c].seen.state = "attached") = held.attached
        /\ held.attached => conn[c].seen.client = held.client

\* An attached lease changes hands only from a holder that can be told, that has
\* had it for the interval, to one that serves the models if it served them;
\* or its own client gave it up.
LeaseMovesByRight == [][
  held.attached /\ held'.attached /\ held'.client # held.client =>
    /\ held.roles /\ held.age >= TakeInterval
    /\ held.servesModels => held'.servesModels]_vars

\* A reservation of a client that left ends, unless the client comes back.
ReservationEnds ==
  []<>(Lease = NoLease \/ held.attached)

\* A connection that was fenced ends and frees its slot, even if its peer reads nothing.
FencedEnds == \A c \in Conns : []<>(conn[c].state \in {"free", "open"})

\* What is left of a client that went or was sent away ends: its reservation and
\* its connection.
LeavingEnds == ReservationEnds /\ FencedEnds

\* docs/protocol.md, Taking control: a previous holder that sent a role string
\* receives a final reject and is closed.
TakenIsTold == \A c \in Conns :
  conn[c].state = "closing" /\ conn[c].taken /\ conn[c].welcomed /\ conn[c].reached
    => conn[c].farewell # "untold"

\* attachments.ts: every peer that understands roles gets the full presence
\* after any change.  A reservation that is shown has not been given up.
ReservationIsShown ==
  (\A c \in Conns : conn[c].state \in {"free", "open"}) =>
    \A c \in Conns :
      conn[c].client \in Roles /\ live[conn[c].client] = c
        /\ conn[c].seen.state = "detached" /\ conn[c].seen.left > 0
        => Lease # NoLease
=============================================================================
