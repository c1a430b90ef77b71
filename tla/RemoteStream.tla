---------------------------- MODULE RemoteStream ----------------------------
(***************************************************************************)
(* The event stream of a remote workspace, from the daemon's bounded       *)
(* journal (packages/cli/src/server/journal.ts) through one connection's   *)
(* pump (server/attachments.ts) to the client's cursor (remote/replay.ts)  *)
(* and its reconnects (remote/agent-port.ts).                              *)
(*                                                                         *)
(* The workspace is a version number: every change adds one, and an event  *)
(* tells the version it leaves, so that a client which applies an event to *)
(* any other version than its predecessor has a torn view.  Frames and     *)
(* acknowledgements travel in order; a connection may drop at any moment   *)
(* with everything in flight, and the daemon may restart.                  *)
(***************************************************************************)
EXTENDS Naturals, FiniteSets, Sequences

CONSTANTS
  Retained,     \* limits.events of the journal
  QueueFrames,  \* limits.frames of a connection's live queue
  InFlight,     \* bound: frames sent and not yet received
  MaxSeq,       \* bound: events of one daemon epoch
  MaxEpochs,    \* bound: daemon lifetimes
  MaxDrops,     \* bound: connections that end by a drop or a failed apply
  MaxMisses     \* bound: changes the capture fails to publish

ASSUME LimitsAssumption ==
  /\ {Retained, QueueFrames, InFlight, MaxSeq, MaxEpochs} \subseteq Nat \ {0}
  /\ {MaxDrops, MaxMisses} \subseteq Nat

VARIABLES
  daemon,  \* [epoch, seq, entries, degraded, version]: journal and workspace
  link,    \* the server's end of the connection
  wire,    \* frames sent and not yet received
  acks,    \* acknowledgements sent and not yet received
  client,  \* [cursor, token, needsSnapshot, view]
  drops, misses

vars == <<daemon, link, wire, acks, client, drops, misses>>

NoCursor == [epoch |-> 0, after |-> 0]
NoLink == [open |-> FALSE, replay |-> <<>>, queue |-> <<>>, sent |-> 0, applied |-> 0]

\* view: the version the client shows; told: it knows that capture degraded;
\* torn: an event was applied to another version than its predecessor.
NoView == [version |-> 0, told |-> FALSE, torn |-> FALSE]

NewDaemon(e, v) ==
  [epoch |-> e, seq |-> 0, entries |-> <<>>, degraded |-> FALSE, version |-> v]

Init ==
  /\ daemon = NewDaemon(1, 0)
  /\ link = NoLink /\ wire = <<>> /\ acks = <<>>
  /\ client = [cursor |-> NoCursor, token |-> FALSE, needsSnapshot |-> TRUE, view |-> NoView]
  /\ drops = 0 /\ misses = 0

-----------------------------------------------------------------------------
(* The journal and the live queue                                          *)

Event(d, fault) == [kind |-> "event", epoch |-> d.epoch, seq |-> d.seq,
                    version |-> d.version, fault |-> fault]

\* MUTANT of Trimmed: one entry more than the limit stays.
TrimmedLate(entries) ==
  IF Len(entries) > Retained + 1 THEN SubSeq(entries, 2, Len(entries)) ELSE entries

\* The oldest entry goes when the retention limit is exceeded.
Trimmed(entries) ==
  IF Len(entries) > Retained THEN SubSeq(entries, 2, Len(entries)) ELSE entries

\* append: the next number, the journal, and the live queue of the connection.
\* A queue at its limit closes the connection.
Appended(d, fault) ==
  LET numbered == [d EXCEPT !.seq = @ + 1] IN
  [numbered EXCEPT !.entries = Trimmed(Append(@, Event(numbered, fault)))]

Closed == link' = NoLink /\ wire' = <<>> /\ acks' = <<>>

\* MUTANT of Enqueue: a full queue loses the events.
EnqueueLossy(events) ==
  /\ link' = IF link.open /\ Len(link.queue) + Len(events) <= QueueFrames
             THEN [link EXCEPT !.queue = @ \o events] ELSE link
  /\ UNCHANGED <<wire, acks>>

\* The listener of an open connection: beyond limits.frames it is closed.
Enqueue(events) ==
  IF Len(link.queue) + Len(events) > QueueFrames
  THEN Closed
  ELSE /\ link' = IF link.open THEN [link EXCEPT !.queue = @ \o events] ELSE link
       /\ UNCHANGED <<wire, acks>>

\* A change of the workspace that the capture publishes.
Change ==
  LET d == Appended([daemon EXCEPT !.version = @ + 1], FALSE) IN
  /\ daemon.seq < MaxSeq
  /\ daemon' = d
  /\ Enqueue(<<Event(d, FALSE)>>)
  /\ UNCHANGED <<client, drops, misses>>

\* A change that the capture fails to publish: invalidate tells whoever is
\* connected, the first time.
Miss ==
  LET missed == [daemon EXCEPT !.version = @ + 1, !.degraded = TRUE]
      d == Appended(missed, TRUE)
  IN
  /\ misses < MaxMisses
  /\ misses' = misses + 1
  /\ \/ /\ daemon.degraded
        /\ daemon' = missed
        /\ UNCHANGED <<link, wire, acks>>
     \/ /\ ~daemon.degraded /\ daemon.seq < MaxSeq
        /\ daemon' = d
        /\ Enqueue(<<Event(d, TRUE)>>)
  /\ UNCHANGED <<client, drops>>

\* A frontend update that cannot be published: the subscription of the port
\* invalidates too, and appends the error itself every time.
MissUpdate ==
  LET missed == [daemon EXCEPT !.version = @ + 1, !.degraded = TRUE]
      first == Appended(missed, TRUE)
      d == IF daemon.degraded THEN first ELSE Appended(first, TRUE)
  IN
  /\ misses < MaxMisses
  /\ misses' = misses + 1
  /\ d.seq <= MaxSeq
  /\ daemon' = d
  /\ Enqueue(IF daemon.degraded THEN <<Event(d, TRUE)>>
             ELSE <<Event(first, TRUE), Event(d, TRUE)>>)
  /\ UNCHANGED <<client, drops>>

\* The daemon stops and another one starts: a new epoch with an empty journal.
Restart ==
  /\ daemon.epoch < MaxEpochs
  /\ daemon' = NewDaemon(daemon.epoch + 1, daemon.version)
  /\ Closed
  /\ UNCHANGED <<client, drops, misses>>

-----------------------------------------------------------------------------
(* Attaching                                                               *)

Oldest == IF daemon.entries = <<>> THEN daemon.seq + 1 ELSE daemon.entries[1].seq

\* The entries with a number above n: they are numbered in order, so they are a suffix.
Later(n) ==
  LET passed == {i \in DOMAIN daemon.entries : daemon.entries[i].seq <= n}
  IN SubSeq(daemon.entries, Cardinality(passed) + 1, Len(daemon.entries))

\* MUTANT of NeedsReset: off by one at the end of the retained entries.
NeedsResetLate(resume, cursor, forced) ==
  \/ daemon.degraded \/ ~resume \/ forced
  \/ cursor.epoch # daemon.epoch
  \/ cursor.after > daemon.seq
  \/ cursor.after < Oldest - 2

\* MUTANT of NeedsReset: the client's wish for a snapshot is ignored.
NeedsResetUnforced(resume, cursor, forced) ==
  \/ daemon.degraded \/ ~resume
  \/ cursor.epoch # daemon.epoch
  \/ cursor.after > daemon.seq
  \/ cursor.after < Oldest - 1

\* open: whether the cut starts with a snapshot.
NeedsReset(resume, cursor, forced) ==
  \/ daemon.degraded \/ ~resume \/ forced
  \/ cursor.epoch # daemon.epoch
  \/ cursor.after > daemon.seq
  \/ cursor.after < Oldest - 1

\* The reset frame.  An invalid epoch or cursor is named before a degraded
\* capture is, and then the client is not told of it.
Reset(resume, cursor) ==
  [kind |-> "reset", epoch |-> daemon.epoch, seq |-> daemon.seq, version |-> daemon.version,
   fault |-> daemon.degraded /\ (resume => cursor.epoch = daemon.epoch
                                           /\ cursor.after <= daemon.seq)]

Welcome == [kind |-> "welcome"]

\* attach, accept and open: the client offers its cursor if it has a token, and
\* gets the events after it or a snapshot, with no gap before the live queue.
Connect ==
  LET resume == client.token /\ client.cursor # NoCursor
      cursor == client.cursor
      reset == NeedsReset(resume, cursor, client.needsSnapshot)
      start == IF resume /\ ~reset THEN cursor.after ELSE 0
  IN
  /\ ~link.open
  /\ link' = [NoLink EXCEPT
       !.open = TRUE,
       !.replay = IF reset THEN <<Reset(resume, cursor)>>
                  ELSE Later(cursor.after),
       !.sent = start, !.applied = start]
  /\ wire' = <<Welcome>>
  /\ UNCHANGED <<daemon, acks, client, drops, misses>>

\* MUTANT of Pump: the replayed cut does not count as sent.
PumpUncounted ==
  /\ link.open /\ Len(wire) < InFlight
  /\ link.replay \o link.queue # <<>>
  /\ LET frame == Head(link.replay \o link.queue) IN
     /\ wire' = Append(wire, frame)
     /\ link' = [link EXCEPT
          !.replay = IF @ = <<>> THEN <<>> ELSE Tail(@),
          !.queue = IF link.replay = <<>> THEN Tail(@) ELSE @,
          !.sent = IF link.replay = <<>> THEN frame.seq ELSE @]
  /\ UNCHANGED <<daemon, acks, client, drops, misses>>

\* pump: the replayed cut first, then the live queue.  One frame at a time is
\* awaited.
Pump ==
  /\ link.open /\ Len(wire) < InFlight
  /\ link.replay \o link.queue # <<>>
  /\ LET frame == Head(link.replay \o link.queue) IN
     /\ wire' = Append(wire, frame)
     /\ link' = [link EXCEPT
          !.replay = IF @ = <<>> THEN <<>> ELSE Tail(@),
          !.queue = IF link.replay = <<>> THEN Tail(@) ELSE @,
          !.sent = frame.seq]
  /\ UNCHANGED <<daemon, acks, client, drops, misses>>

-----------------------------------------------------------------------------
(* Receiving                                                               *)

\* A reset that is older than what was applied is dropped, and so is an event
\* that was applied already.
Stale(frame) ==
  /\ client.cursor.epoch = frame.epoch
  /\ IF frame.kind = "reset" THEN frame.seq < client.cursor.after
                             ELSE frame.seq <= client.cursor.after

\* An event out of sequence, or before the first snapshot of its epoch.
OutOfSequence(frame) ==
  /\ frame.kind = "event"
  /\ \/ client.cursor.epoch # frame.epoch
     \/ frame.seq # client.cursor.after + 1

Viewed(frame) ==
  IF frame.kind = "reset"
  THEN [version |-> frame.version, told |-> frame.fault, torn |-> FALSE]
  ELSE [version |-> IF frame.fault THEN client.view.version ELSE frame.version,
        told |-> client.view.told \/ frame.fault,
        torn |-> client.view.torn
                 \/ (~frame.fault /\ frame.version # client.view.version + 1)]

ReceiveWelcome ==
  /\ wire # <<>> /\ Head(wire).kind = "welcome"
  /\ wire' = Tail(wire)
  /\ client' = [client EXCEPT !.token = TRUE]
  /\ UNCHANGED <<daemon, link, acks, drops, misses>>

Arrived == wire # <<>> /\ Head(wire).kind # "welcome"

Discard ==
  /\ wire' = Tail(wire)
  /\ UNCHANGED <<link, acks, client>>

\* A gap ends the connection, and a snapshot is due.
Resync ==
  /\ client' = [client EXCEPT !.needsSnapshot = TRUE]
  /\ Closed

\* Apply, then advance the cursor, then acknowledge.
Apply(frame) ==
  /\ wire' = Tail(wire)
  /\ client' = [client EXCEPT
       !.cursor = [epoch |-> frame.epoch, after |-> frame.seq],
       !.view = Viewed(frame),
       !.needsSnapshot = @ /\ frame.kind # "reset"]
  /\ acks' = Append(acks, frame.seq)
  /\ UNCHANGED link

\* receive of the replay, and what the port does with its outcome.
ReceiveFrame ==
  /\ Arrived
  /\ LET frame == Head(wire) IN
     IF Stale(frame) THEN Discard
     ELSE IF OutOfSequence(frame) THEN Resync
     ELSE Apply(frame)
  /\ UNCHANGED <<daemon, drops, misses>>

\* MUTANT of FailToApply: the cursor moves although nothing was applied, and
\* no snapshot is asked for.
FailToApplyQuietly ==
  /\ Arrived
  /\ drops < MaxDrops
  /\ ~Stale(Head(wire))
  /\ drops' = drops + 1
  /\ client' = [client EXCEPT !.cursor = [epoch |-> Head(wire).epoch, after |-> Head(wire).seq]]
  /\ Closed
  /\ UNCHANGED <<daemon, misses>>

\* The application of a frame throws: the same.
FailToApply ==
  /\ Arrived
  /\ drops < MaxDrops
  /\ ~Stale(Head(wire))
  /\ drops' = drops + 1
  /\ Resync
  /\ UNCHANGED <<daemon, misses>>

Acceptable(seq) == link.applied <= seq /\ seq <= link.sent

\* onMessage: an acknowledgement outside what was sent ends the connection.
ReceiveAck ==
  /\ acks # <<>>
  /\ IF Acceptable(Head(acks))
     THEN /\ acks' = Tail(acks)
          /\ link' = [link EXCEPT !.applied = Head(acks)]
          /\ UNCHANGED wire
     ELSE Closed
  /\ UNCHANGED <<daemon, client, drops, misses>>

Drop ==
  /\ link.open
  /\ drops < MaxDrops
  /\ drops' = drops + 1
  /\ Closed
  /\ UNCHANGED <<daemon, client, misses>>

Receive == ReceiveWelcome \/ ReceiveFrame

Next ==
  \/ Change \/ Miss \/ MissUpdate \/ Restart \/ Connect \/ Pump
  \/ Receive \/ FailToApply \/ ReceiveAck \/ Drop

Spec == Init /\ [][Next]_vars

\* The client reconnects whenever its connection ended, and what was sent
\* arrives unless the connection ends.  Drops are finite by their bound.
FairSpec == Spec /\ WF_vars(Connect) /\ WF_vars(Pump) /\ WF_vars(Receive)

-----------------------------------------------------------------------------
(* Properties                                                              *)

Frames == [kind : {"welcome"}]
  \cup [kind : {"reset", "event"}, epoch : 1..MaxEpochs, seq : 0..MaxSeq,
        version : Nat, fault : BOOLEAN]

TypeOK ==
  /\ daemon.epoch \in 1..MaxEpochs /\ daemon.seq \in 0..MaxSeq
  /\ daemon.entries \in Seq(Frames) /\ Len(daemon.entries) <= Retained
  /\ link.open \in BOOLEAN
  /\ {link.replay, link.queue, wire} \subseteq Seq(Frames)
  /\ Len(link.queue) <= QueueFrames
  /\ link.sent \in 0..MaxSeq /\ link.applied \in 0..MaxSeq
  /\ acks \in Seq(0..MaxSeq)
  /\ client.cursor \in [epoch : 0..MaxEpochs, after : 0..MaxSeq]
  /\ drops \in 0..MaxDrops /\ misses \in 0..MaxMisses

\* Whatever was dropped, replayed, trimmed from the journal or restarted, a
\* client never applies an event to a state other than the one it follows,
\* unless it has been told that the capture degraded.
NeverTorn == client.view.torn => client.view.told

\* The cut of an attachment and the live queue behind it have no gap: the
\* next event on the wire is one that the client applies or already has.
NoGapMet == wire # <<>> /\ Head(wire).kind = "event" =>
  Stale(Head(wire)) \/ ~OutOfSequence(Head(wire))

Idle == link.open /\ link.replay = <<>> /\ link.queue = <<>> /\ wire = <<>>

\* Clients that are connected when a capture fails learn of it: whoever stays
\* attached to a workspace that it no longer shows has been told.
ConnectedClientsLearn ==
  Idle /\ daemon.degraded => client.view.version = daemon.version \/ client.view.told

\* A client that is attached, and that nothing is on its way to, shows the
\* workspace as it is, or has been told.
IdleIsCurrent ==
  Idle
    => /\ client.cursor = [epoch |-> daemon.epoch, after |-> daemon.seq]
       /\ client.view.version = daemon.version \/ client.view.told

\* No acknowledgement of a client that follows the protocol is refused.
AcksAreAcceptable == \A n \in 1..Len(acks) : Acceptable(acks[n])

\* What the client shows is a state the workspace had, and the present one when
\* nothing is on its way.
ViewIsTrue == TypeOK /\ NeverTorn /\ IdleIsCurrent

\* Neither side of a connection meets a frame that the other's position does not
\* allow: no gap for the client, no impossible acknowledgement for the daemon.
PositionsAgree == NoGapMet /\ AcksAreAcceptable

\* The stream as a whole: a true view on the client's side and positions that
\* agree, through drops, resets, restarts and overflowing queues.
StreamIsSound == ViewIsTrue /\ PositionsAgree

\* A client that reconnects after every drop, failed application and daemon
\* restart ends up with the workspace it is attached to.
EventuallyCurrent == <>[](
  /\ link.open /\ ~client.needsSnapshot
  /\ client.cursor = [epoch |-> daemon.epoch, after |-> daemon.seq]
  /\ client.view.version = daemon.version \/ client.view.told)
=============================================================================
