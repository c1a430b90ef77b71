--------------------------- MODULE RemoteStreamProofs ---------------------------
(***************************************************************************)
(* Proofs about RemoteStream for any limits and any number of events,      *)
(* lifetimes and drops.  The argument: the frames of a connection, on the  *)
(* wire, in the replayed cut and in the live queue, are numbered without a *)
(* gap up to the last event of the journal, and the client's cursor stands *)
(* right before the first of them, unless a reset comes first; and of two  *)
(* frames with successive numbers the second tells the version after that  *)
(* of the first, as long as no more than one change was missed.            *)
(***************************************************************************)
EXTENDS RemoteStream, FiniteSetTheorems, SequenceTheorems, TLAPS

Events == [kind : {"event"}, epoch : 1..MaxEpochs, seq : 1..MaxSeq, version : Nat, fault : BOOLEAN]
Resets == [kind : {"reset"}, epoch : 1..MaxEpochs, seq : 0..MaxSeq, version : Nat, fault : BOOLEAN]
Welcomes == [kind : {"welcome"}]
Links == [open : BOOLEAN, replay : Seq(Events \cup Resets), queue : Seq(Events),
          sent : 0..MaxSeq, applied : 0..MaxSeq]
Daemons == [epoch : 1..MaxEpochs, seq : 0..MaxSeq, entries : Seq(Events), degraded : BOOLEAN,
            version : Nat]
Clients == [cursor : [epoch : 0..MaxEpochs, after : 0..MaxSeq], token : BOOLEAN,
            needsSnapshot : BOOLEAN, view : [version : Nat, told : BOOLEAN, torn : BOOLEAN]]

\* The shape of the state.
Shaped ==
  /\ daemon \in Daemons /\ link \in Links /\ client \in Clients
  /\ wire \in Seq(Events \cup Resets \cup Welcomes) /\ acks \in Seq(0..MaxSeq)
  /\ Len(daemon.entries) <= Retained /\ Len(link.queue) <= QueueFrames
  /\ drops \in 0..MaxDrops /\ misses \in 0..MaxMisses

\* s holds frames of epoch e up to number n, without a gap.
UpTo(s, e, n) == \A i \in 1..Len(s) :
  s[i].kind # "welcome" => s[i].epoch = e /\ s[i].seq = n - Len(s) + i

\* s holds a frame of a kind.
Holds(s, kind) == \E i \in 1..Len(s) : s[i].kind = kind

\* The number of the last frame that left the queue, and of the last one on the wire.
Cut == daemon.seq - Len(link.queue)
OnWire == Cut - Len(link.replay)

\* A reset is on its way to the client.
Owed == Holds(link.replay, "reset") \/ Holds(wire, "reset")

\* A connection starts with its welcome, then with a reset if it has one.
InOrder ==
  /\ link.open \/ (link = NoLink /\ wire = <<>> /\ acks = <<>>)
  /\ Holds(link.replay, "reset") => Len(link.replay) = 1 /\ \A i \in 1..Len(wire) : wire[i].kind = "welcome"
  /\ \A i \in 1..Len(wire) :
       /\ wire[i].kind = "welcome" => i = 1
       /\ wire[i].kind = "reset" => i = 1 \/ (i = 2 /\ wire[1].kind = "welcome")

\* The journal and what is on its way are numbered without a gap up to the last event.
Numbered ==
  /\ UpTo(daemon.entries, daemon.epoch, daemon.seq) /\ UpTo(link.queue, daemon.epoch, daemon.seq)
  /\ UpTo(link.replay, daemon.epoch, Cut) /\ UpTo(wire, daemon.epoch, OnWire)

\* The cursor stands before what is on its way, or a reset moves it there.
CursorStands ==
  /\ client.cursor.epoch <= daemon.epoch
  /\ client.cursor.epoch = daemon.epoch => client.cursor.after <= daemon.seq
  /\ link.open /\ ~Owed =>
       client.cursor = [epoch |-> daemon.epoch,
                        after |-> OnWire - Len(wire) + (IF Holds(wire, "welcome") THEN 1 ELSE 0)]
  /\ client.cursor.epoch = daemon.epoch =>
       /\ \A i \in 1..Len(wire) : wire[i].kind = "reset" => client.cursor.after <= wire[i].seq
       /\ \A i \in 1..Len(link.replay) :
            link.replay[i].kind = "reset" => client.cursor.after <= link.replay[i].seq

\* What the server takes for sent and applied agrees with the wire and the cursor.
AcksAgree ==
  link.open =>
    /\ link.sent = IF Holds(link.replay, "reset") THEN 0 ELSE OnWire
    /\ Owed => acks = <<>> /\ link.applied = 0
    /\ ~Owed => /\ link.applied <= client.cursor.after
                /\ \A n \in 1..Len(acks) : link.applied <= acks[n] /\ acks[n] <= client.cursor.after
                /\ \A m, n \in 1..Len(acks) : m <= n => acks[m] <= acks[n]

Positions == InOrder /\ Numbered /\ CursorStands /\ AcksAgree

Frame(s, f) == \E i \in 1..Len(s) : s[i] = f /\ f.kind # "welcome"

\* The frames that exist: of the journal, and on their way.
Exists(f) == Frame(daemon.entries, f) \/ Frame(link.queue, f) \/ Frame(link.replay, f) \/ Frame(wire, f)

\* e follows a state with number n and version v.
Follows(e, n, v) == e.kind = "event" /\ e.seq = n + 1 => e.fault \/ e.version = v + 1

AllFrames == Events \cup Resets

\* Each event follows the one before it, and the last one tells the present version.
Chained ==
  /\ \A f, e \in AllFrames : Exists(f) /\ Exists(e) => Follows(e, f.seq, f.version)
  /\ \A f \in AllFrames : Exists(f) /\ f.seq = daemon.seq => f.version = daemon.version
  /\ (client.cursor.epoch = daemon.epoch /\ ~client.view.told) =>
       /\ \A e \in AllFrames : Exists(e) => Follows(e, client.cursor.after, client.view.version)
       /\ client.cursor.after = daemon.seq => client.view.version = daemon.version
  /\ client.view.torn => client.view.told

IInv ==
  /\ Shaped /\ Positions
  /\ daemon.degraded => misses > 0
  /\ misses <= 1 => Chained

-----------------------------------------------------------------------------
(* Frames in sequences.                                                    *)

LEMMA TailFacts ==
  ASSUME NEW S, NEW s \in Seq(S), s # <<>>
  PROVE  /\ Tail(s) \in Seq(S) /\ Len(Tail(s)) = Len(s) - 1 /\ Len(s) >= 1
         /\ \A i \in 1..Len(Tail(s)) : Tail(s)[i] = s[i + 1] /\ i + 1 \in 1..Len(s)
         /\ Head(s) = s[1] /\ s[1] \in S /\ 1 \in 1..Len(s)
  OBVIOUS

LEMMA AppendFacts ==
  ASSUME NEW S, NEW s \in Seq(S), NEW x \in S
  PROVE  /\ Append(s, x) \in Seq(S) /\ Len(Append(s, x)) = Len(s) + 1
         /\ \A i \in 1..Len(s) : Append(s, x)[i] = s[i]
         /\ Append(s, x)[Len(s) + 1] = x
  OBVIOUS

LEMMA FrameTail ==
  ASSUME NEW S, NEW s \in Seq(S), s # <<>>, NEW f
  PROVE  /\ Frame(Tail(s), f) => Frame(s, f)
         /\ Head(s).kind # "welcome" => Frame(s, Head(s))
  BY TailFacts DEF Frame

LEMMA FrameAppend ==
  ASSUME NEW S, NEW s \in Seq(S), NEW x \in S, NEW f, Frame(Append(s, x), f)
  PROVE  Frame(s, f) \/ f = x
<1>1. PICK i \in 1..Len(Append(s, x)) : Append(s, x)[i] = f /\ f.kind # "welcome"
  BY DEF Frame
<1>2. i \in 1..Len(s) \/ i = Len(s) + 1
  BY AppendFacts
<1>3. QED  BY <1>1, <1>2, AppendFacts DEF Frame

LEMMA FrameConcat ==
  ASSUME NEW S, NEW s \in Seq(S), NEW t \in Seq(S), NEW f, Frame(s \o t, f)
  PROVE  Frame(s, f) \/ Frame(t, f)
<1>1. PICK i \in 1..Len(s \o t) : (s \o t)[i] = f /\ f.kind # "welcome"
  BY DEF Frame
<1>2. i \in 1..Len(s) \/ i - Len(s) \in 1..Len(t)
  BY ConcatProperties
<1>3. QED  BY <1>1, <1>2, ConcatProperties DEF Frame

LEMMA FrameSubSeq ==
  ASSUME NEW S, NEW s \in Seq(S), NEW m \in 1..(Len(s) + 1), NEW f, Frame(SubSeq(s, m, Len(s)), f)
  PROVE  Frame(s, f)
<1>1. PICK i \in 1..Len(SubSeq(s, m, Len(s))) : SubSeq(s, m, Len(s))[i] = f /\ f.kind # "welcome"
  BY DEF Frame
<1>2. i + m - 1 \in 1..Len(s) /\ f = s[i + m - 1]
  BY <1>1
<1>3. QED  BY <1>1, <1>2 DEF Frame

LEMMA FrameKinds ==
  ASSUME NEW f
  PROVE  /\ f \in AllFrames => f.kind # "welcome" /\ f.kind \in {"event", "reset"}
         /\ f \in Events => f.kind = "event"
         /\ f \in Welcomes => f.kind = "welcome"
         /\ f \in AllFrames /\ f.kind = "event" => f \in Events
  BY DEF AllFrames, Events, Resets, Welcomes

\* Nothing that exists is numbered above the last event.
LEMMA ExistingFrames ==
  ASSUME Shaped, Numbered, NEW f \in AllFrames, Exists(f)
  PROVE  f.seq <= daemon.seq
<1> DEFINE Below(s, n) == UpTo(s, daemon.epoch, n) /\ Len(s) \in Nat /\ n \in Int /\ n <= daemon.seq
<1>1. ASSUME NEW s, NEW n, Below(s, n), Frame(s, f) PROVE f.seq <= daemon.seq
  <2>1. PICK i \in 1..Len(s) : s[i] = f /\ f.kind # "welcome"
    BY <1>1 DEF Frame
  <2>2. f.seq = n - Len(s) + i
    BY <1>1, <2>1 DEF UpTo
  <2>3. daemon.seq \in Int
    BY DEF Shaped, Daemons
  <2>4. QED  BY <1>1, <2>2, <2>3
<1>2. /\ Len(daemon.entries) \in Nat /\ Len(link.queue) \in Nat /\ Len(link.replay) \in Nat
      /\ Len(wire) \in Nat /\ daemon.seq \in Nat
  BY DEF Shaped, Daemons, Links
<1>3. Below(daemon.entries, daemon.seq) /\ Below(link.queue, daemon.seq)
  BY <1>2 DEF Numbered
<1>4. Below(link.replay, Cut) /\ Below(wire, OnWire)
  BY <1>2 DEF Numbered, Cut, OnWire
<1>5. QED  BY <1>1, <1>3, <1>4 DEF Exists

\* What the frames that exist afterwards existed already leaves the chain as it was.
LEMMA ChainStays ==
  ASSUME Chained, daemon'.epoch = daemon.epoch, daemon'.seq = daemon.seq,
         daemon'.version = daemon.version,
         client'.cursor = client.cursor, client'.view = client.view,
         \A f \in AllFrames : Exists(f)' => Exists(f)
  PROVE  Chained'
<1>1. \A f, e \in AllFrames : Exists(f)' /\ Exists(e)' => Follows(e, f.seq, f.version)
  BY DEF Chained
<1>2. \A f \in AllFrames : Exists(f)' /\ f.seq = daemon'.seq => f.version = daemon'.version
  BY DEF Chained
<1>3. (client'.cursor.epoch = daemon'.epoch /\ ~client'.view.told) =>
       /\ \A e \in AllFrames : Exists(e)' => Follows(e, client'.cursor.after, client'.view.version)
       /\ client'.cursor.after = daemon'.seq => client'.view.version = daemon'.version
  BY DEF Chained
<1>4. client'.view.torn => client'.view.told
  BY DEF Chained
<1>5. QED  BY <1>1, <1>2, <1>3, <1>4 DEF Chained, Follows

-----------------------------------------------------------------------------
(* The end of a connection.                                                *)

LEMMA NothingOnTheWay ==
  ASSUME link' = NoLink, wire' = <<>>, acks' = <<>>, UpTo(daemon.entries, daemon.epoch, daemon.seq)',
         client'.cursor.epoch <= daemon'.epoch,
         client'.cursor.epoch = daemon'.epoch => client'.cursor.after <= daemon'.seq
  PROVE  Positions'
<1>1. /\ Len(link'.queue) = 0 /\ Len(link'.replay) = 0 /\ Len(wire') = 0 /\ Len(acks') = 0
      /\ ~link'.open
  BY DEF NoLink
<1>2. QED
  BY <1>1 DEF Positions, InOrder, Numbered, CursorStands, AcksAgree, UpTo, Holds

LEMMA NoLinkIsLink == NoLink \in Links /\ Len(NoLink.queue) = 0
<1>1. <<>> \in Seq(Events) /\ <<>> \in Seq(Events \cup Resets) /\ Len(<<>>) = 0
  OBVIOUS
<1>2. 0 \in 0..MaxSeq
  BY LimitsAssumption
<1>3. QED  BY <1>1, <1>2 DEF NoLink, Links

\* Without a connection only the journal has frames.
LEMMA FramesAfterwards ==
  ASSUME link' = NoLink, wire' = <<>>, NEW f
  PROVE  Exists(f)' <=> Frame(daemon.entries, f)'
<1>1. Len(link'.queue) = 0 /\ Len(link'.replay) = 0 /\ Len(wire') = 0
  BY DEF NoLink
<1>2. QED  BY <1>1 DEF Exists, Frame

LEMMA ClosedKeeps ==
  ASSUME IInv, Closed, UNCHANGED daemon, client' \in Clients, client'.cursor = client.cursor,
         client'.view = client.view, drops' \in 0..MaxDrops, misses' = misses
  PROVE  IInv'
<1> USE DEF IInv
<1>1. Shaped'
  <2>1. <<>> \in Seq(Events \cup Resets \cup Welcomes) /\ <<>> \in Seq(0..MaxSeq)
    OBVIOUS
  <2>2. QED  BY <2>1, NoLinkIsLink, LimitsAssumption DEF Closed, Shaped
<1>2. link' = NoLink /\ wire' = <<>> /\ acks' = <<>>
  BY DEF Closed
<1>3. Positions'
  <2>1. UpTo(daemon.entries, daemon.epoch, daemon.seq)'
    BY DEF Positions, Numbered
  <2>2. /\ client'.cursor.epoch <= daemon'.epoch
        /\ client'.cursor.epoch = daemon'.epoch => client'.cursor.after <= daemon'.seq
    BY DEF Positions, CursorStands
  <2>3. QED  BY <1>2, <2>1, <2>2, NothingOnTheWay
<1>4. misses' <= 1 => Chained'
  <2>1. \A f \in AllFrames : Exists(f)' => Exists(f)
    BY <1>2, FramesAfterwards DEF Exists, Frame
  <2>2. QED  BY <2>1, ChainStays
<1>5. QED  BY <1>1, <1>3, <1>4

LEMMA DropKeeps == ASSUME IInv, Drop PROVE IInv'
<1>1. drops' \in 0..MaxDrops /\ client' \in Clients
  BY LimitsAssumption DEF Drop, IInv, Shaped
<1>2. QED  BY <1>1, ClosedKeeps DEF Drop

LEMMA RestartKeeps == ASSUME IInv, Restart PROVE IInv'
<1> USE DEF IInv
<1>1. link' = NoLink /\ wire' = <<>> /\ acks' = <<>>
  BY DEF Closed, Restart
<1>2. /\ daemon' \in Daemons /\ daemon'.entries = <<>> /\ daemon'.epoch = daemon.epoch + 1
      /\ daemon'.seq = 0 /\ ~daemon'.degraded
  <2>1. daemon.epoch + 1 \in 1..MaxEpochs /\ daemon.version \in Nat /\ 0 \in 0..MaxSeq
    BY LimitsAssumption DEF Restart, Shaped, Daemons
  <2>2. <<>> \in Seq(Events)
    OBVIOUS
  <2>3. QED  BY <2>1, <2>2 DEF Restart, NewDaemon, Daemons
<1>3. Len(daemon'.entries) = 0
  BY <1>2
<1>4. Shaped'
  BY <1>1, <1>2, <1>3, NoLinkIsLink, LimitsAssumption DEF Shaped, Restart
<1>5. client'.cursor = client.cursor /\ client'.view = client.view /\ client.cursor.epoch # daemon'.epoch
      /\ client'.cursor.epoch <= daemon'.epoch
  BY <1>2 DEF Restart, Positions, CursorStands, Shaped, Daemons, Clients
<1>6. Positions'
  <2>1. UpTo(daemon.entries, daemon.epoch, daemon.seq)'
    BY <1>3 DEF UpTo
  <2>2. QED  BY <1>1, <1>5, <2>1, NothingOnTheWay
<1>7. misses' <= 1 => Chained'
  <2>1. \A f \in AllFrames : ~Exists(f)'
    BY <1>1, <1>3, FramesAfterwards DEF Frame
  <2>2. misses' = misses
    BY DEF Restart
  <2>3. QED  BY <1>5, <2>1, <2>2 DEF Chained
<1>8. QED  BY <1>2, <1>4, <1>6, <1>7

-----------------------------------------------------------------------------
(* Changes of the workspace.                                               *)

\* Trimming takes one entry at most, the oldest.
LEMMA TrimmedFacts ==
  ASSUME NEW s \in Seq(Events), Len(s) <= Retained + 1, NEW e, NEW n \in Nat, UpTo(s, e, n)
  PROVE  /\ Trimmed(s) \in Seq(Events) /\ Len(Trimmed(s)) <= Retained /\ UpTo(Trimmed(s), e, n)
         /\ \A f : Frame(Trimmed(s), f) => Frame(s, f)
<1>1. Retained \in Nat \ {0} /\ Len(s) \in Nat
  BY LimitsAssumption
<1>2. CASE Len(s) <= Retained
  BY <1>1, <1>2 DEF Trimmed
<1>3. CASE Len(s) > Retained
  <2> DEFINE t == SubSeq(s, 2, Len(s))
  <2>1. Trimmed(s) = t
    BY <1>3 DEF Trimmed
  <2>2. t \in Seq(Events) /\ Len(t) = Len(s) - 1 /\ \A i \in 1..(Len(s) - 1) : t[i] = s[i + 1]
    BY <1>1, <1>3
  <2>3. \A f : Frame(t, f) => Frame(s, f)
    <3>1. 2 \in 1..(Len(s) + 1)
      BY <1>1, <1>3
    <3>2. QED  BY <3>1, FrameSubSeq
  <2> HIDE DEF t
  <2>4. UpTo(t, e, n)
    <3>1. ASSUME NEW i \in 1..Len(t), t[i].kind # "welcome"
          PROVE  t[i].epoch = e /\ t[i].seq = n - Len(t) + i
      <4>1. i + 1 \in 1..Len(s) /\ t[i] = s[i + 1]
        BY <1>1, <2>2
      <4>2. s[i + 1].epoch = e /\ s[i + 1].seq = n - Len(s) + (i + 1)
        BY <3>1, <4>1 DEF UpTo
      <4>3. QED  BY <1>1, <2>2, <4>1, <4>2
    <3>2. QED  BY <3>1 DEF UpTo
  <2>5. QED  BY <1>1, <1>3, <2>1, <2>2, <2>3, <2>4
<1>4. QED  BY <1>1, <1>2, <1>3

\* What append leaves of the journal d, for an event that tells d's version.
LEMMA AppendedFacts ==
  ASSUME NEW d \in Daemons, NEW fault \in BOOLEAN, d.seq < MaxSeq, Len(d.entries) <= Retained,
         UpTo(d.entries, d.epoch, d.seq)
  PROVE  LET a == Appended(d, fault)
             e == [kind |-> "event", epoch |-> d.epoch, seq |-> d.seq + 1, version |-> d.version,
                   fault |-> fault]
         IN  /\ a \in Daemons /\ a.epoch = d.epoch /\ a.seq = d.seq + 1 /\ a.version = d.version
             /\ a.degraded = d.degraded /\ e \in Events /\ Event(a, fault) = e
             /\ Len(a.entries) <= Retained /\ UpTo(a.entries, a.epoch, a.seq)
             /\ \A f : Frame(a.entries, f) => Frame(d.entries, f) \/ f = e
<1> DEFINE a == Appended(d, fault)
           numbered == [d EXCEPT !.seq = @ + 1]
           e == [kind |-> "event", epoch |-> d.epoch, seq |-> d.seq + 1, version |-> d.version,
                 fault |-> fault]
           longer == Append(d.entries, e)
<1>1. /\ d.epoch \in 1..MaxEpochs /\ d.seq \in 0..MaxSeq /\ d.entries \in Seq(Events)
      /\ d.degraded \in BOOLEAN /\ d.version \in Nat /\ Len(d.entries) \in Nat
  BY DEF Daemons
<1>2. e \in Events
  BY <1>1, LimitsAssumption DEF Events
<1>3. Event(numbered, fault) = e
  BY DEF Event, Daemons
<1>4. a = [numbered EXCEPT !.entries = Trimmed(longer)]
  BY <1>3 DEF Appended, Daemons
<1>5. a.epoch = d.epoch /\ a.seq = d.seq + 1 /\ a.version = d.version /\ a.degraded = d.degraded
      /\ a.entries = Trimmed(longer)
  BY <1>4 DEF Daemons
<1>6. longer \in Seq(Events) /\ Len(longer) = Len(d.entries) + 1
      /\ (\A i \in 1..Len(d.entries) : longer[i] = d.entries[i]) /\ longer[Len(d.entries) + 1] = e
  BY <1>1, <1>2, AppendFacts
<1>7. UpTo(longer, d.epoch, d.seq + 1)
  BY <1>1, <1>6 DEF UpTo
<1>8. Retained \in Nat \ {0}
  BY LimitsAssumption
<1>9. /\ a.entries \in Seq(Events) /\ Len(a.entries) <= Retained /\ UpTo(a.entries, d.epoch, d.seq + 1)
      /\ \A f : Frame(a.entries, f) => Frame(longer, f)
  <2> HIDE DEF longer
  <2>1. d.seq + 1 \in Nat /\ Len(longer) <= Retained + 1
    BY <1>1, <1>6, <1>8
  <2>2. QED  BY <1>5, <1>6, <1>7, <2>1, TrimmedFacts
<1>10. a \in Daemons
  <2>1. d.seq + 1 \in 0..MaxSeq
    BY <1>1, LimitsAssumption
  <2>2. QED  BY <1>1, <1>4, <1>9, <2>1, <1>5 DEF Daemons
<1>11. Event(a, fault) = e
  BY <1>5 DEF Event
<1>12. \A f : Frame(a.entries, f) => Frame(d.entries, f) \/ f = e
  BY <1>1, <1>2, <1>9, FrameAppend
<1>13. QED  BY <1>2, <1>5, <1>9, <1>10, <1>11, <1>12

\* New events that follow what exists keep the chain.
LEMMA EventsChain ==
  ASSUME Shaped, Numbered, Chained, NEW evs \in Seq(Events),
         client.cursor.epoch = daemon.epoch => client.cursor.after <= daemon.seq,
         client' = client, daemon' \in Daemons, daemon'.epoch = daemon.epoch,
         daemon'.seq = daemon.seq + Len(evs), UpTo(evs, daemon.epoch, daemon'.seq), Len(evs) >= 1,
         \A e \in Events : Frame(evs, e) =>
           /\ e.version = daemon'.version
           /\ e.fault \/ (Len(evs) = 1 /\ daemon'.version = daemon.version + 1),
         \A f \in AllFrames : Exists(f)' => Exists(f) \/ Frame(evs, f)
  PROVE  Chained'
<1>1. daemon.seq \in Nat /\ Len(evs) \in Nat /\ client.cursor.after \in Nat /\ daemon'.seq \in Nat
  BY DEF Shaped, Daemons, Clients
<1>2. ASSUME NEW f \in AllFrames, Frame(evs, f)
      PROVE  /\ f \in Events /\ f.seq \in Nat /\ daemon.seq < f.seq /\ f.version = daemon'.version
             /\ f.fault \/ (f.seq = daemon.seq + 1 /\ f.version = daemon.version + 1)
  <2>1. PICK i \in 1..Len(evs) : evs[i] = f /\ f.kind # "welcome"
    BY <1>2 DEF Frame
  <2>2. f \in Events
    BY <2>1, ElementOfSeq
  <2>3. f.seq \in Nat
    BY <2>2, LimitsAssumption DEF Events
  <2>4. f.seq = daemon'.seq - Len(evs) + i
    BY <2>1 DEF UpTo
  <2>5. daemon.seq < f.seq
    BY <1>1, <2>4
  <2>6. f.version = daemon'.version /\ (f.fault \/ (Len(evs) = 1 /\ f.version = daemon.version + 1))
    BY <1>2, <2>2
  <2>7. Len(evs) = 1 => f.seq = daemon.seq + 1
    BY <1>1, <2>4
  <2>8. QED  BY <2>2, <2>3, <2>5, <2>6, <2>7
<1>3. ASSUME NEW f \in AllFrames, Exists(f)
      PROVE  f.seq <= daemon.seq /\ f.seq \in Nat
  BY <1>3, ExistingFrames, LimitsAssumption DEF AllFrames, Events, Resets
<1>4. ASSUME NEW f \in AllFrames, NEW e \in AllFrames, Exists(f)', Exists(e)'
      PROVE  Follows(e, f.seq, f.version)
  <2>1. CASE Exists(e) /\ Exists(f)
    BY <2>1 DEF Chained
  <2>2. CASE Exists(e) /\ Frame(evs, f)
    BY <1>1, <1>2, <1>3, <2>2 DEF Follows
  <2>3. CASE Frame(evs, e) /\ Exists(f)
    BY <1>1, <1>2, <1>3, <2>3 DEF Follows, Chained
  <2>4. CASE Frame(evs, e) /\ Frame(evs, f)
    BY <1>1, <1>2, <2>4 DEF Follows
  <2>5. QED  BY <1>4, <2>1, <2>2, <2>3, <2>4
<1>5. ASSUME NEW f \in AllFrames, Exists(f)', f.seq = daemon'.seq
      PROVE  f.version = daemon'.version
  BY <1>1, <1>2, <1>3, <1>5
<1>6. ASSUME client'.cursor.epoch = daemon'.epoch, ~client'.view.told
      PROVE  /\ \A e \in AllFrames : Exists(e)' => Follows(e, client'.cursor.after, client'.view.version)
             /\ client'.cursor.after # daemon'.seq
  <2>1. client.cursor.after <= daemon.seq /\ client.cursor.epoch = daemon.epoch /\ ~client.view.told
    BY <1>6
  <2>2. ASSUME NEW e \in AllFrames, Exists(e)'
        PROVE  Follows(e, client.cursor.after, client.view.version)
    <3>1. CASE Exists(e)
      BY <2>1, <3>1 DEF Chained
    <3>2. CASE Frame(evs, e)
      BY <1>1, <1>2, <2>1, <3>2 DEF Follows, Chained
    <3>3. QED  BY <2>2, <3>1, <3>2
  <2>3. QED  BY <1>1, <2>1, <2>2
<1>7. client'.view.torn => client'.view.told
  BY DEF Chained
<1>8. QED  BY <1>4, <1>5, <1>6, <1>7 DEF Chained, Follows

\* New events that follow what exists, appended to the journal and to a live queue.
LEMMA EventsKeep ==
  ASSUME IInv, NEW evs \in Seq(Events), Enqueue(evs), client' = client,
         daemon' \in Daemons, daemon'.epoch = daemon.epoch, daemon'.seq = daemon.seq + Len(evs),
         UpTo(daemon.entries, daemon.epoch, daemon.seq)', Len(daemon'.entries) <= Retained,
         UpTo(evs, daemon.epoch, daemon'.seq),
         \A f \in AllFrames : Frame(daemon.entries, f)' => Frame(daemon.entries, f) \/ Frame(evs, f),
         drops' = drops, misses' \in 0..MaxMisses, misses <= misses',
         daemon'.degraded => misses' > 0,
         Len(evs) >= 1,
         misses' <= 1 =>
           /\ \A e \in Events : Frame(evs, e) =>
                 e.version = daemon'.version
                 /\ (e.fault \/ (Len(evs) = 1 /\ daemon'.version = daemon.version + 1))
  PROVE  IInv'
<1> USE DEF IInv
<1>1. /\ daemon.seq \in Nat /\ daemon.epoch \in Nat /\ Len(evs) \in Nat /\ Len(link.queue) \in Nat
      /\ link.queue \in Seq(Events) /\ link.replay \in Seq(Events \cup Resets)
      /\ Len(link.replay) \in Nat /\ Len(wire) \in Nat
  BY DEF Shaped, Daemons, Links
<1>2. /\ client.cursor.epoch <= daemon.epoch /\ client.cursor.after \in Nat
      /\ client.cursor.epoch = daemon.epoch => client.cursor.after <= daemon.seq
  BY DEF Positions, CursorStands, Shaped, Clients
<1>4. misses' <= 1 => misses <= 1
  BY LimitsAssumption DEF Shaped
<1>3. CASE link' = NoLink /\ wire' = <<>> /\ acks' = <<>>
  <2>1. Shaped'
    <3>1. <<>> \in Seq(Events \cup Resets \cup Welcomes) /\ <<>> \in Seq(0..MaxSeq)
      OBVIOUS
    <3>2. QED  BY <1>3, <3>1, NoLinkIsLink, LimitsAssumption DEF Shaped
  <2>2. Positions'
    BY <1>1, <1>2, <1>3, NothingOnTheWay
  <2>3. \A f \in AllFrames : Exists(f)' => Frame(daemon.entries, f) \/ Frame(evs, f)
    BY <1>3, FramesAfterwards
  <2>4. \A f \in AllFrames : Exists(f)' => Exists(f) \/ Frame(evs, f)
    BY <2>3 DEF Exists
  <2>5. misses' <= 1 => Chained'
    BY <1>2, <1>4, <2>4, EventsChain DEF Positions
  <2>6. QED  BY <2>1, <2>2, <2>5
<1>5. CASE link.open /\ link' = [link EXCEPT !.queue = @ \o evs] /\ UNCHANGED <<wire, acks>>
           /\ Len(link.queue) + Len(evs) <= QueueFrames
  <2>1. /\ link'.queue = link.queue \o evs /\ link'.open /\ link'.replay = link.replay
        /\ link'.sent = link.sent /\ link'.applied = link.applied /\ wire' = wire /\ acks' = acks
    BY <1>5 DEF Shaped, Links
  <2>2. /\ link'.queue \in Seq(Events) /\ Len(link'.queue) = Len(link.queue) + Len(evs)
        /\ \A i \in 1..Len(link'.queue) :
             link'.queue[i] = IF i <= Len(link.queue) THEN link.queue[i] ELSE evs[i - Len(link.queue)]
    BY <1>1, <2>1, ConcatProperties
  <2>3. Shaped'
    BY <1>5, <2>1, <2>2 DEF Shaped, Links
  <2>4. Cut' = Cut /\ OnWire' = OnWire
    BY <1>1, <2>1, <2>2 DEF Cut, OnWire
  <2>5. UpTo(link.queue, daemon.epoch, daemon.seq)'
    <3>1. ASSUME NEW i \in 1..Len(link'.queue), link'.queue[i].kind # "welcome"
          PROVE  /\ link'.queue[i].epoch = daemon.epoch
                 /\ link'.queue[i].seq = daemon'.seq - Len(link'.queue) + i
      <4>1. CASE i <= Len(link.queue)
        <5>1. link'.queue[i] = link.queue[i] /\ i \in 1..Len(link.queue)
          BY <1>1, <2>2, <4>1
        <5>2. link.queue[i].epoch = daemon.epoch /\ link.queue[i].seq = daemon.seq - Len(link.queue) + i
          BY <3>1, <5>1 DEF Positions, Numbered, UpTo
        <5>3. QED  BY <1>1, <2>2, <5>1, <5>2
      <4>2. CASE i > Len(link.queue)
        <5>0. i \in Nat /\ i <= Len(link.queue) + Len(evs)
          BY <1>1, <2>2
        <5>1. link'.queue[i] = evs[i - Len(link.queue)] /\ i - Len(link.queue) \in 1..Len(evs)
          <6>1. link'.queue[i] = evs[i - Len(link.queue)]
            BY <1>1, <2>2, <4>2, <5>0
          <6>2. i - Len(link.queue) \in 1..Len(evs)
            BY <1>1, <4>2, <5>0
          <6>3. QED  BY <6>1, <6>2
        <5>2. /\ evs[i - Len(link.queue)].epoch = daemon.epoch
              /\ evs[i - Len(link.queue)].seq = daemon'.seq - Len(evs) + (i - Len(link.queue))
          BY <3>1, <5>1 DEF UpTo
        <5>3. QED  BY <1>1, <2>2, <5>1, <5>2
      <4>3. QED  BY <1>1, <2>2, <4>1, <4>2
    <3>2. QED  BY <3>1 DEF UpTo
  <2>6. Numbered'
    BY <2>1, <2>4, <2>5 DEF Positions, Numbered, UpTo
  <2>7. InOrder'
    BY <1>5, <2>1 DEF Positions, InOrder, Holds
  <2>8. CursorStands'
    BY <1>1, <1>2, <1>5, <2>1, <2>4 DEF Positions, CursorStands, Owed, Holds
  <2>9. AcksAgree'
    BY <1>5, <2>1, <2>4 DEF Positions, AcksAgree, Owed, Holds
  <2>10. misses' <= 1 => Chained'
    <3>1. ASSUME NEW f \in AllFrames, Exists(f)'
          PROVE  Exists(f) \/ Frame(evs, f)
      <4>1. Frame(link.queue, f)' => Frame(link.queue, f) \/ Frame(evs, f)
        BY <1>1, <2>1, FrameConcat DEF Frame
      <4>2. Frame(link.replay, f)' = Frame(link.replay, f) /\ Frame(wire, f)' = Frame(wire, f)
        BY <2>1 DEF Frame
      <4>3. QED  BY <3>1, <4>1, <4>2 DEF Exists
    <3>2. QED  BY <1>2, <1>4, <3>1, EventsChain DEF Positions
  <2>11. QED  BY <2>3, <2>6, <2>7, <2>8, <2>9, <2>10 DEF Positions
<1>6. QueueFrames \in Nat
  BY LimitsAssumption
<1>7. QED
  <2>1. CASE Len(link.queue) + Len(evs) > QueueFrames
    BY <1>3, <2>1 DEF Enqueue, Closed
  <2>2. CASE ~(Len(link.queue) + Len(evs) > QueueFrames) /\ link.open
    <3>1. Len(link.queue) + Len(evs) <= QueueFrames
      BY <1>1, <1>6, <2>2
    <3>2. link' = [link EXCEPT !.queue = @ \o evs] /\ UNCHANGED <<wire, acks>>
      BY <2>2 DEF Enqueue
    <3>3. QED  BY <1>5, <2>2, <3>1, <3>2
  <2>3. CASE ~(Len(link.queue) + Len(evs) > QueueFrames) /\ ~link.open
    <3>1. link' = link /\ UNCHANGED <<wire, acks>>
      BY <2>3 DEF Enqueue
    <3>2. link = NoLink /\ wire = <<>> /\ acks = <<>>
      BY <2>3 DEF Positions, InOrder
    <3>3. QED  BY <1>3, <3>1, <3>2
  <2>4. QED  BY <2>1, <2>2, <2>3

LEMMA OneEvent ==
  ASSUME NEW e \in Events
  PROVE  /\ <<e>> \in Seq(Events) /\ Len(<<e>>) = 1 /\ <<e>>[1] = e
         /\ \A f : Frame(<<e>>, f) <=> f = e
<1>1. <<e>> \in Seq(Events) /\ Len(<<e>>) = 1 /\ <<e>>[1] = e
  OBVIOUS
<1>2. QED  BY <1>1, FrameKinds DEF Frame

LEMMA TwoEvents ==
  ASSUME NEW e \in Events, NEW g \in Events
  PROVE  /\ <<e, g>> \in Seq(Events) /\ Len(<<e, g>>) = 2 /\ <<e, g>>[1] = e /\ <<e, g>>[2] = g
         /\ \A f : Frame(<<e, g>>, f) <=> f = e \/ f = g
<1>1. <<e, g>> \in Seq(Events) /\ Len(<<e, g>>) = 2 /\ <<e, g>>[1] = e /\ <<e, g>>[2] = g
  OBVIOUS
<1>2. QED  BY <1>1, FrameKinds DEF Frame

LEMMA ChangedFacts ==
  ASSUME NEW d \in Daemons
  PROVE  LET c == [d EXCEPT !.version = @ + 1] IN
         /\ c \in Daemons /\ c.epoch = d.epoch /\ c.seq = d.seq /\ c.entries = d.entries
         /\ c.version = d.version + 1 /\ c.degraded = d.degraded
  BY DEF Daemons

\* One event that is published, with or without a fault.
LEMMA PublishKeeps ==
  ASSUME IInv, NEW d \in Daemons, d.epoch = daemon.epoch, d.seq = daemon.seq, d.entries = daemon.entries,
         NEW fault \in BOOLEAN, d.seq < MaxSeq, daemon' = Appended(d, fault),
         Enqueue(<<Event(daemon', fault)>>), client' = client, drops' = drops,
         misses' \in 0..MaxMisses, misses <= misses', d.degraded => misses' > 0,
         misses' <= 1 => fault \/ d.version = daemon.version + 1
  PROVE  IInv'
<1> DEFINE e == [kind |-> "event", epoch |-> d.epoch, seq |-> d.seq + 1, version |-> d.version,
                 fault |-> fault]
<1>1. Len(d.entries) <= Retained /\ UpTo(d.entries, d.epoch, d.seq) /\ d.seq \in Nat
  BY DEF IInv, Shaped, Positions, Numbered, Daemons
<1>2. /\ daemon' \in Daemons /\ daemon'.epoch = d.epoch /\ daemon'.seq = d.seq + 1
      /\ daemon'.version = d.version /\ daemon'.degraded = d.degraded /\ e \in Events
      /\ Event(daemon', fault) = e /\ Len(daemon'.entries) <= Retained
      /\ UpTo(daemon'.entries, daemon'.epoch, daemon'.seq)
      /\ \A f : Frame(daemon'.entries, f) => Frame(d.entries, f) \/ f = e
  BY <1>1, AppendedFacts
<1>3. e.seq = daemon.seq + 1 /\ e.epoch = daemon.epoch /\ e.version = daemon'.version /\ e.fault = fault
  BY <1>2
<1> HIDE DEF e
<1> DEFINE evs == <<e>>
<1>4. /\ evs \in Seq(Events) /\ Len(evs) = 1 /\ evs[1] = e /\ \A f : Frame(evs, f) <=> f = e
  BY <1>2, OneEvent
<1>5. Enqueue(evs)
  BY <1>2
<1> HIDE DEF evs
<1>6. UpTo(evs, daemon.epoch, daemon'.seq)
  <2>1. daemon'.seq = daemon.seq + 1 /\ daemon.seq \in Nat
    BY <1>1, <1>2
  <2>2. QED  BY <1>3, <1>4, <2>1 DEF UpTo
<1>7. UpTo(daemon.entries, daemon.epoch, daemon.seq)'
  BY <1>2
<1>8. \A f \in AllFrames : Frame(daemon.entries, f)' => Frame(daemon.entries, f) \/ Frame(evs, f)
  BY <1>2, <1>4 DEF Frame
<1>9. misses' <= 1 => \A g \in Events : Frame(evs, g) =>
        /\ g.version = daemon'.version
        /\ g.fault \/ (Len(evs) = 1 /\ daemon'.version = daemon.version + 1)
  BY <1>2, <1>3, <1>4
<1>10. Len(evs) >= 1 /\ daemon'.seq = daemon.seq + Len(evs)
  BY <1>2, <1>4
<1>11. daemon'.degraded => misses' > 0
  BY <1>2
<1>12. QED
  BY <1>2, <1>4, <1>5, <1>6, <1>7, <1>8, <1>9, <1>10, <1>11, EventsKeep

LEMMA ChangeKeeps == ASSUME IInv, Change PROVE IInv'
<1> DEFINE d == [daemon EXCEPT !.version = @ + 1]
<1>1. /\ d \in Daemons /\ d.epoch = daemon.epoch /\ d.seq = daemon.seq /\ d.entries = daemon.entries
      /\ d.version = daemon.version + 1 /\ d.degraded = daemon.degraded
  <2>1. daemon \in Daemons
    BY DEF IInv, Shaped
  <2>2. QED  BY <2>1, ChangedFacts
<1>2. daemon' = Appended(d, FALSE) /\ Enqueue(<<Event(daemon', FALSE)>>) /\ d.seq < MaxSeq
  BY DEF Change
<1> HIDE DEF d
<1>3. misses' \in 0..MaxMisses /\ misses <= misses' /\ drops' = drops /\ client' = client
  BY LimitsAssumption DEF Change, IInv, Shaped
<1>4. d.degraded => misses' > 0
  BY <1>1 DEF Change, IInv
<1>5. QED  BY <1>1, <1>2, <1>3, <1>4, PublishKeeps

\* The daemon after a change that the capture failed to publish.
LEMMA MissedFacts ==
  ASSUME IInv
  PROVE  LET missed == [daemon EXCEPT !.version = @ + 1, !.degraded = TRUE] IN
         /\ missed \in Daemons /\ missed.epoch = daemon.epoch /\ missed.seq = daemon.seq
         /\ missed.entries = daemon.entries /\ missed.seq \in Nat
<1> DEFINE missed == [daemon EXCEPT !.version = @ + 1, !.degraded = TRUE]
           changed == [daemon EXCEPT !.version = @ + 1]
<1>1. /\ changed \in Daemons /\ changed.epoch = daemon.epoch /\ changed.seq = daemon.seq
      /\ changed.entries = daemon.entries /\ daemon.seq \in Nat
  <2>1. daemon \in Daemons
    BY DEF IInv, Shaped
  <2>2. daemon.seq \in Nat
    BY <2>1 DEF Daemons
  <2>3. QED  BY <2>1, <2>2, ChangedFacts
<1>2. missed = [changed EXCEPT !.degraded = TRUE]
  OBVIOUS
<1>3. ASSUME NEW c \in Daemons
      PROVE  LET m == [c EXCEPT !.degraded = TRUE] IN
             m \in Daemons /\ m.epoch = c.epoch /\ m.seq = c.seq /\ m.entries = c.entries
  BY DEF Daemons
<1>4. missed \in Daemons /\ missed.epoch = daemon.epoch /\ missed.seq = daemon.seq /\ missed.entries = daemon.entries
  <2> HIDE DEF changed
  <2>1. QED  BY <1>1, <1>2, <1>3
<1>5. QED  BY <1>1, <1>4

\* A change that the capture fails to publish, with one event.
LEMMA MissedOnceKeeps ==
  ASSUME IInv, misses < MaxMisses, misses' = misses + 1, daemon.seq < MaxSeq,
         daemon' = Appended([daemon EXCEPT !.version = @ + 1, !.degraded = TRUE], TRUE),
         Enqueue(<<Event(daemon', TRUE)>>), client' = client, drops' = drops
  PROVE  IInv'
<1> DEFINE d == [daemon EXCEPT !.version = @ + 1, !.degraded = TRUE]
<1>1. /\ d \in Daemons /\ d.epoch = daemon.epoch /\ d.seq = daemon.seq /\ d.entries = daemon.entries
  BY MissedFacts
<1>2. daemon' = Appended(d, TRUE) /\ d.seq < MaxSeq
  BY <1>1
<1> HIDE DEF d
<1>3. misses' \in 0..MaxMisses /\ misses <= misses' /\ misses' > 0
  BY LimitsAssumption DEF IInv, Shaped
<1>4. QED  BY <1>1, <1>2, <1>3, PublishKeeps

LEMMA MissKeeps == ASSUME IInv, Miss PROVE IInv'
<1>1. misses < MaxMisses /\ misses' = misses + 1 /\ client' = client /\ drops' = drops
  BY DEF Miss
<1>2. CASE ~daemon.degraded
  BY <1>1, <1>2, MissedOnceKeeps DEF Miss
<1>3. CASE daemon.degraded
  <2>1. daemon' = [daemon EXCEPT !.version = @ + 1, !.degraded = TRUE] /\ UNCHANGED <<link, wire, acks>>
    BY <1>3 DEF Miss
  <2>2. /\ daemon' \in Daemons /\ daemon'.epoch = daemon.epoch /\ daemon'.seq = daemon.seq
        /\ daemon'.entries = daemon.entries
    BY <2>1, MissedFacts
  <2>3. misses' \in 0..MaxMisses /\ misses' > 1
    BY <1>1, <1>3, LimitsAssumption DEF IInv, Shaped
  <2>4. Shaped'
    BY <1>1, <2>1, <2>2, <2>3 DEF IInv, Shaped
  <2>5. InOrder'
    BY <2>1 DEF IInv, Positions, InOrder, Holds
  <2>6. Cut' = Cut /\ OnWire' = OnWire
    BY <2>1, <2>2 DEF Cut, OnWire
  <2>7. Numbered'
    BY <2>1, <2>2, <2>6 DEF IInv, Positions, Numbered, UpTo
  <2>8. CursorStands'
    BY <1>1, <2>1, <2>2, <2>6 DEF IInv, Positions, CursorStands, Owed, Holds
  <2>9. AcksAgree'
    BY <1>1, <2>1, <2>2, <2>6 DEF IInv, Positions, AcksAgree, Owed, Holds
  <2>10. QED  BY <2>3, <2>4, <2>5, <2>7, <2>8, <2>9 DEF IInv, Positions, Shaped
<1>4. QED  BY <1>2, <1>3

LEMMA MissUpdateKeeps == ASSUME IInv, MissUpdate PROVE IInv'
<1> DEFINE missed == [daemon EXCEPT !.version = @ + 1, !.degraded = TRUE]
           first == Appended(missed, TRUE)
           second == Appended(first, TRUE)
<1>1. misses < MaxMisses /\ misses' = misses + 1 /\ client' = client /\ drops' = drops
  BY DEF MissUpdate
<1>2. /\ missed \in Daemons /\ missed.epoch = daemon.epoch /\ missed.seq = daemon.seq
      /\ missed.entries = daemon.entries /\ missed.seq \in Nat
  BY MissedFacts
<1>3. Len(missed.entries) <= Retained /\ UpTo(missed.entries, missed.epoch, missed.seq)
  BY <1>2 DEF IInv, Shaped, Positions, Numbered
<1>4. CASE daemon.degraded
  <2>1. daemon' = first /\ first.seq <= MaxSeq /\ Enqueue(<<Event(daemon', TRUE)>>)
    BY <1>4 DEF MissUpdate
  <2>2. first.seq = missed.seq + 1
    <3> HIDE DEF missed
    <3>1. QED  BY <1>2 DEF Appended, Daemons
  <2>3. daemon.seq < MaxSeq
    <3> HIDE DEF missed, first
    <3>1. MaxSeq \in Nat
      BY LimitsAssumption
    <3>2. QED  BY <1>2, <2>1, <2>2, <3>1
  <2>4. QED  BY <1>1, <2>1, <2>3, MissedOnceKeeps
<1>5. CASE ~daemon.degraded
  <2>1. /\ daemon' = second /\ second.seq <= MaxSeq
        /\ Enqueue(<<Event(first, TRUE), Event(second, TRUE)>>)
    BY <1>5 DEF MissUpdate
  <2> HIDE DEF missed
  <2>2. first.seq = missed.seq + 1 /\ second.seq = first.seq + 1
    BY <1>2 DEF Appended, Daemons
  <2>3. MaxSeq \in Nat
    BY LimitsAssumption
  <2>5. missed.seq < MaxSeq /\ first.seq < MaxSeq
    <3> HIDE DEF first, second
    <3>1. QED  BY <1>2, <2>1, <2>2, <2>3
  <2> DEFINE e == [kind |-> "event", epoch |-> missed.epoch, seq |-> missed.seq + 1,
                   version |-> missed.version, fault |-> TRUE]
             g == [kind |-> "event", epoch |-> first.epoch, seq |-> first.seq + 1,
                   version |-> first.version, fault |-> TRUE]
  <2>4. /\ first \in Daemons /\ first.epoch = missed.epoch /\ first.version = missed.version
        /\ e \in Events /\ Event(first, TRUE) = e /\ Len(first.entries) <= Retained
        /\ UpTo(first.entries, first.epoch, first.seq)
        /\ \A f : Frame(first.entries, f) => Frame(missed.entries, f) \/ f = e
    BY <1>2, <1>3, <2>5, AppendedFacts
  <2> HIDE DEF first
  <2>6. /\ second \in Daemons /\ second.epoch = first.epoch /\ second.version = first.version
        /\ g \in Events /\ Event(second, TRUE) = g /\ Len(second.entries) <= Retained
        /\ UpTo(second.entries, second.epoch, second.seq)
        /\ \A f : Frame(second.entries, f) => Frame(first.entries, f) \/ f = g
    BY <2>4, <2>5, AppendedFacts
  <2> HIDE DEF second
  <2> DEFINE evs == <<e, g>>
  <2>7. /\ e.seq = daemon.seq + 1 /\ e.epoch = daemon.epoch /\ e.version = daemon'.version /\ e.fault
        /\ g.seq = daemon.seq + 2 /\ g.epoch = daemon.epoch /\ g.version = daemon'.version /\ g.fault
    BY <1>2, <2>1, <2>2, <2>4, <2>6
  <2> HIDE DEF e, g
  <2>8. /\ evs \in Seq(Events) /\ Len(evs) = 2 /\ evs[1] = e /\ evs[2] = g
        /\ \A f : Frame(evs, f) <=> f = e \/ f = g
    BY <2>4, <2>6, TwoEvents
  <2>9. Enqueue(evs)
    BY <2>1, <2>4, <2>6
  <2> HIDE DEF evs
  <2>10. daemon' \in Daemons /\ daemon'.epoch = daemon.epoch /\ daemon'.seq = daemon.seq + Len(evs)
         /\ Len(daemon'.entries) <= Retained /\ UpTo(daemon.entries, daemon.epoch, daemon.seq)'
    BY <1>2, <2>1, <2>2, <2>4, <2>6, <2>8
  <2>11. UpTo(evs, daemon.epoch, daemon'.seq)
    <3>1. daemon'.seq = daemon.seq + 2 /\ daemon.seq \in Nat
      BY <1>2, <2>8, <2>10
    <3>2. \A i \in 1..2 : evs[i].epoch = daemon.epoch /\ evs[i].seq = daemon.seq + i
      BY <2>7, <2>8
    <3>3. QED  BY <2>8, <3>1, <3>2 DEF UpTo
  <2>12. \A f \in AllFrames : Frame(daemon.entries, f)' => Frame(daemon.entries, f) \/ Frame(evs, f)
    <3>1. \A f : Frame(second.entries, f) => Frame(daemon.entries, f) \/ Frame(evs, f)
      BY <1>2, <2>4, <2>6, <2>8
    <3>2. daemon'.entries = second.entries
      BY <2>1
    <3>3. QED  BY <3>1, <3>2
  <2>13. misses' \in 0..MaxMisses /\ misses <= misses' /\ misses' > 0 /\ Len(evs) >= 1
    BY <1>1, <2>8, LimitsAssumption DEF IInv, Shaped
  <2>14. \A f \in Events : Frame(evs, f) => f.version = daemon'.version /\ f.fault
    BY <2>7, <2>8
  <2>15. QED
    BY <1>1, <2>8, <2>9, <2>10, <2>11, <2>12, <2>13, <2>14, EventsKeep
<1>6. QED  BY <1>4, <1>5

-----------------------------------------------------------------------------
(* Frames that are sent.                                                   *)

LEMMA HoldsAppend ==
  ASSUME NEW S, NEW s \in Seq(S), NEW x \in S, NEW kind
  PROVE  Holds(Append(s, x), kind) <=> Holds(s, kind) \/ x.kind = kind
<1>1. /\ Len(s) \in Nat /\ Len(Append(s, x)) = Len(s) + 1
      /\ \A i \in 1..Len(s) : Append(s, x)[i] = s[i]
      /\ Append(s, x)[Len(s) + 1] = x
  BY AppendFacts
<1>2. QED  BY <1>1 DEF Holds

\* The first frame of the cut or of the queue, put on the wire.
LEMMA SentKeeps ==
  ASSUME IInv, link.open, NEW f \in AllFrames, wire' = Append(wire, f), link' \in Links, link'.open,
         link'.applied = link.applied, OnWire' = OnWire + 1, f.epoch = daemon.epoch,
         f.seq = OnWire + 1, link'.sent = f.seq, ~Holds(link.replay, "reset")',
         f.kind = "reset" <=> Holds(link.replay, "reset"),
         UpTo(link.replay, daemon.epoch, Cut)', UpTo(link.queue, daemon.epoch, daemon.seq)',
         Len(link'.queue) <= QueueFrames,
         Exists(f), \A g : Frame(link.replay, g)' \/ Frame(link.queue, g)' => Exists(g),
         f.kind = "reset" /\ client.cursor.epoch = daemon.epoch => client.cursor.after <= f.seq,
         UNCHANGED <<daemon, acks, client, drops, misses>>
  PROVE  IInv'
<1> DEFINE W == Events \cup Resets \cup Welcomes
<1>1. /\ wire \in Seq(W) /\ f \in W /\ Len(wire) \in Nat /\ OnWire \in Int /\ daemon.seq \in Nat
      /\ f.kind # "welcome" /\ f.kind \in {"event", "reset"}
  <2>1. wire \in Seq(W) /\ f \in W /\ Len(wire) \in Nat
    BY DEF IInv, Shaped, AllFrames
  <2>2. /\ daemon.seq \in Nat /\ Len(link.queue) \in Nat /\ Len(link.replay) \in Nat
    BY DEF IInv, Shaped, Daemons, Links
  <2>3. OnWire \in Int
    BY <2>2 DEF OnWire, Cut
  <2>4. QED  BY <2>1, <2>2, <2>3, FrameKinds
<1>2. /\ wire' \in Seq(W) /\ Len(wire') = Len(wire) + 1
      /\ \A i \in 1..Len(wire) : wire'[i] = wire[i]
      /\ wire'[Len(wire) + 1] = f
      /\ \A kind : Holds(wire', kind) <=> Holds(wire, kind) \/ f.kind = kind
  <2> HIDE DEF W
  <2>1. QED  BY <1>1, AppendFacts, HoldsAppend
<1>3. Shaped'
  BY <1>2 DEF IInv, Shaped
<1>4. InOrder'
  <2>1. ASSUME NEW i \in 1..Len(wire')
        PROVE  /\ wire'[i].kind = "welcome" => i = 1
               /\ wire'[i].kind = "reset" => i = 1 \/ (i = 2 /\ wire'[1].kind = "welcome")
    <3>1. CASE i <= Len(wire)
      BY <1>1, <1>2, <3>1 DEF IInv, Positions, InOrder
    <3>2. CASE i = Len(wire) + 1 /\ f.kind = "reset"
      <4>1. \A j \in 1..Len(wire) : wire[j].kind = "welcome" /\ j = 1
        BY <3>2 DEF IInv, Positions, InOrder
      <4>2. Len(wire) <= 1
        BY <1>1, <4>1
      <4>3. QED  BY <1>1, <1>2, <3>2, <4>1, <4>2
    <3>3. CASE i = Len(wire) + 1 /\ f.kind # "reset"
      BY <1>1, <1>2, <3>3
    <3>4. QED  BY <1>1, <1>2, <3>1, <3>2, <3>3
  <2>2. QED  BY <2>1 DEF InOrder
<1>5. Numbered'
  <2>1. UpTo(wire, daemon.epoch, OnWire)'
    <3>1. ASSUME NEW i \in 1..Len(wire'), wire'[i].kind # "welcome"
          PROVE  wire'[i].epoch = daemon.epoch /\ wire'[i].seq = OnWire + 1 - Len(wire') + i
      <4>1. CASE i <= Len(wire)
        <5>1. i \in 1..Len(wire) /\ wire'[i] = wire[i]
          BY <1>1, <1>2, <4>1
        <5>2. wire[i].epoch = daemon.epoch /\ wire[i].seq = OnWire - Len(wire) + i
          BY <3>1, <5>1 DEF IInv, Positions, Numbered, UpTo
        <5>3. QED  BY <1>1, <1>2, <5>1, <5>2
      <4>2. CASE i = Len(wire) + 1
        BY <1>1, <1>2, <4>2
      <4>3. QED  BY <1>1, <1>2, <4>1, <4>2
    <3>2. \A i \in 1..Len(wire') : wire'[i].kind # "welcome" =>
            wire'[i].epoch = daemon'.epoch /\ wire'[i].seq = OnWire' - Len(wire') + i
      BY <1>1, <1>2, <3>1
    <3>3. QED  BY <3>2 DEF UpTo
  <2>2. QED  BY <2>1 DEF IInv, Positions, Numbered, UpTo
<1>6. Owed' <=> Owed
  BY <1>2 DEF Owed
<1>7. CursorStands'
  <2>1. OnWire' - Len(wire') = OnWire - Len(wire) /\ (Holds(wire', "welcome") <=> Holds(wire, "welcome"))
    BY <1>1, <1>2
  <2>2. ASSUME client.cursor.epoch = daemon.epoch, NEW i \in 1..Len(wire'), wire'[i].kind = "reset"
        PROVE  client.cursor.after <= wire'[i].seq
    BY <1>1, <1>2, <2>2 DEF IInv, Positions, CursorStands
  <2>3. \A i \in 1..Len(link'.replay) : link'.replay[i].kind # "reset"
    BY DEF Holds
  <2>4. QED  BY <1>6, <2>1, <2>2, <2>3 DEF IInv, Positions, CursorStands
<1>8. AcksAgree'
  BY <1>6 DEF IInv, Positions, AcksAgree
<1>9. \A g \in AllFrames : Exists(g)' => Exists(g)
  <2>1. \A g : Frame(wire, g)' => Exists(g)
    <3> HIDE DEF W
    <3>1. QED  BY <1>1, FrameAppend DEF Exists
  <2>2. \A g : Frame(daemon.entries, g)' => Exists(g)
    BY DEF Exists
  <2>3. QED  BY <2>1, <2>2 DEF Exists
<1>10. misses' <= 1 => Chained'
  BY <1>9, ChainStays DEF IInv
<1>11. QED  BY <1>3, <1>4, <1>5, <1>7, <1>8, <1>10 DEF IInv, Positions

\* Without its first frame a sequence is still numbered up to the same number.
LEMMA UpToTail ==
  ASSUME NEW S, NEW s \in Seq(S), s # <<>>, NEW e, NEW n \in Int, UpTo(s, e, n)
  PROVE  /\ UpTo(Tail(s), e, n)
         /\ Head(s).kind # "welcome" => Head(s).epoch = e /\ Head(s).seq = n - Len(s) + 1
<1>1. /\ Len(Tail(s)) = Len(s) - 1 /\ Len(s) \in Nat
      /\ \A i \in 1..Len(Tail(s)) : Tail(s)[i] = s[i + 1] /\ i + 1 \in 1..Len(s)
      /\ Head(s) = s[1] /\ 1 \in 1..Len(s)
  BY TailFacts
<1>2. ASSUME NEW i \in 1..Len(Tail(s)), Tail(s)[i].kind # "welcome"
      PROVE  Tail(s)[i].epoch = e /\ Tail(s)[i].seq = n - Len(Tail(s)) + i
  <2>1. s[i + 1].epoch = e /\ s[i + 1].seq = n - Len(s) + (i + 1)
    BY <1>1, <1>2 DEF UpTo
  <2>2. QED  BY <1>1, <2>1
<1>3. QED  BY <1>1, <1>2 DEF UpTo

LEMMA HeadConcat ==
  ASSUME NEW S, NEW s \in Seq(S), NEW t \in Seq(S), s # <<>>
  PROVE  Head(s \o t) = Head(s)
<1>1. Len(s) \in Nat /\ Len(t) \in Nat /\ Len(s) # 0 /\ s \o t \in Seq(S)
  OBVIOUS
<1>2. Len(s \o t) = Len(s) + Len(t) /\ (s \o t)[1] = s[1]
  BY <1>1, ConcatProperties
<1>3. s \o t # <<>>
  BY <1>1, <1>2
<1>4. Head(s \o t) = (s \o t)[1] /\ Head(s) = s[1]
  BY <1>1, <1>3, TailFacts
<1>5. QED  BY <1>2, <1>4

LEMMA PumpKeeps == ASSUME IInv, Pump PROVE IInv'
<1> DEFINE f == Head(link.replay \o link.queue)
<1>1. /\ link.open /\ link.replay \o link.queue # <<>> /\ wire' = Append(wire, f)
      /\ link' = [link EXCEPT !.replay = IF @ = <<>> THEN <<>> ELSE Tail(@),
                              !.queue = IF link.replay = <<>> THEN Tail(@) ELSE @,
                              !.sent = f.seq]
      /\ UNCHANGED <<daemon, acks, client, drops, misses>>
  BY DEF Pump
<1>2. /\ link.replay \in Seq(AllFrames) /\ link.queue \in Seq(Events) /\ link \in Links
      /\ Len(link.replay) \in Nat /\ Len(link.queue) \in Nat /\ daemon.seq \in Nat
      /\ Cut \in Int /\ OnWire = Cut - Len(link.replay) /\ Cut = daemon.seq - Len(link.queue)
      /\ OnWire' = Cut' - Len(link'.replay) /\ Cut' = daemon'.seq - Len(link'.queue)
  BY DEF IInv, Shaped, Links, AllFrames, Daemons, Cut, OnWire
<1>3. CASE link.replay # <<>>
  <2>1. f = Head(link.replay)
    <3>1. link.queue \in Seq(AllFrames)
      BY <1>2 DEF AllFrames
    <3>2. QED  BY <1>2, <1>3, <3>1, HeadConcat
  <2> HIDE DEF f
  <2>2. /\ link'.replay = Tail(link.replay) /\ link'.queue = link.queue /\ link'.sent = f.seq
        /\ link'.open = link.open /\ link'.applied = link.applied
    BY <1>1, <1>2, <1>3 DEF Links
  <2>3. /\ Tail(link.replay) \in Seq(AllFrames) /\ Len(Tail(link.replay)) = Len(link.replay) - 1
        /\ \A i \in 1..Len(Tail(link.replay)) :
             Tail(link.replay)[i] = link.replay[i + 1] /\ i + 1 \in 1..Len(link.replay)
        /\ f = link.replay[1] /\ 1 \in 1..Len(link.replay) /\ f \in AllFrames
    BY <1>2, <1>3, <2>1, TailFacts
  <2>4. f.kind # "welcome" /\ f.kind \in {"event", "reset"}
    BY <2>3, FrameKinds
  <2>5. Cut' = Cut /\ OnWire' = OnWire + 1
    BY <1>1, <1>2, <2>2, <2>3
  <2>6. UpTo(link.replay, daemon.epoch, Cut)
    BY DEF IInv, Positions, Numbered
  <2>7. UpTo(Tail(link.replay), daemon.epoch, Cut) /\ f.epoch = daemon.epoch /\ f.seq = OnWire + 1
    BY <1>2, <1>3, <2>1, <2>4, <2>6, UpToTail
  <2>8. UpTo(link.replay, daemon.epoch, Cut)' /\ UpTo(link.queue, daemon.epoch, daemon.seq)'
    BY <1>1, <2>2, <2>5, <2>7 DEF IInv, Positions, Numbered
  <2>9. Holds(link.replay, "reset") => Len(link.replay) = 1
    BY DEF IInv, Positions, InOrder
  <2>10. f.kind = "reset" <=> Holds(link.replay, "reset")
    BY <2>3, <2>9 DEF Holds
  <2>11. ~Holds(link.replay, "reset")'
    <3>1. ASSUME NEW i \in 1..Len(Tail(link.replay)), Tail(link.replay)[i].kind = "reset"
          PROVE  FALSE
      <4>1. link.replay[i + 1].kind = "reset" /\ i + 1 \in 1..Len(link.replay)
        BY <2>3, <3>1
      <4>2. Len(link.replay) = 1
        BY <2>9, <4>1 DEF Holds
      <4>3. QED  BY <2>3, <4>2
    <3>2. QED  BY <2>2, <3>1 DEF Holds
  <2>12. link' \in Links
    <3>1. f.seq \in 0..MaxSeq
      BY <2>3, LimitsAssumption DEF AllFrames, Events, Resets
    <3>2. link' = [link EXCEPT !.replay = Tail(link.replay), !.sent = f.seq]
      BY <1>1, <1>2, <1>3 DEF Links
    <3>3. QED  BY <1>2, <2>3, <3>1, <3>2 DEF Links, AllFrames
  <2>13. Exists(f) /\ \A g : Frame(link.replay, g)' \/ Frame(link.queue, g)' => Exists(g)
    BY <1>2, <1>3, <2>1, <2>2, <2>4, FrameTail DEF Exists, Frame
  <2>14. f.kind = "reset" /\ client.cursor.epoch = daemon.epoch => client.cursor.after <= f.seq
    BY <2>3 DEF IInv, Positions, CursorStands
  <2>15. Len(link'.queue) <= QueueFrames
    BY <2>2 DEF IInv, Shaped
  <2>16. QED
    BY <1>1, <2>2, <2>3, <2>5, <2>7, <2>8, <2>10, <2>11, <2>12, <2>13, <2>14, <2>15, SentKeeps
<1>4. CASE link.replay = <<>>
  <2>1. f = Head(link.queue) /\ link.queue # <<>>
    BY <1>1, <1>2, <1>4
  <2> HIDE DEF f
  <2>2. /\ link'.replay = <<>> /\ link'.queue = Tail(link.queue) /\ link'.sent = f.seq
        /\ link'.open = link.open /\ link'.applied = link.applied
    BY <1>1, <1>2, <1>4 DEF Links
  <2>3. /\ Tail(link.queue) \in Seq(Events) /\ Len(Tail(link.queue)) = Len(link.queue) - 1
        /\ f = link.queue[1] /\ 1 \in 1..Len(link.queue) /\ f \in Events
    BY <1>2, <2>1, TailFacts
  <2>4. f.kind = "event" /\ f \in AllFrames /\ Len(link.replay) = 0 /\ Len(link'.replay) = 0
    BY <1>4, <2>2, <2>3, FrameKinds DEF AllFrames
  <2>5. Cut' = Cut + 1 /\ OnWire' = OnWire + 1
    BY <1>1, <1>2, <2>2, <2>3, <2>4
  <2>6. UpTo(link.queue, daemon.epoch, daemon.seq)
    BY DEF IInv, Positions, Numbered
  <2>7. UpTo(Tail(link.queue), daemon.epoch, daemon.seq) /\ f.epoch = daemon.epoch /\ f.seq = OnWire + 1
    BY <1>2, <2>1, <2>4, <2>6, UpToTail
  <2>8. UpTo(link.replay, daemon.epoch, Cut)' /\ UpTo(link.queue, daemon.epoch, daemon.seq)'
    BY <1>1, <2>2, <2>4, <2>7 DEF UpTo
  <2>9. ~Holds(link.replay, "reset") /\ ~Holds(link.replay, "reset")'
    BY <2>4 DEF Holds
  <2>10. link' \in Links
    <3>1. f.seq \in 0..MaxSeq
      BY <2>3, LimitsAssumption DEF Events
    <3>2. link' = [link EXCEPT !.queue = Tail(link.queue), !.sent = f.seq]
      BY <1>1, <1>2, <1>4 DEF Links
    <3>3. QED  BY <1>2, <2>3, <3>1, <3>2 DEF Links
  <2>11. Exists(f) /\ \A g : Frame(link.replay, g)' \/ Frame(link.queue, g)' => Exists(g)
    <3>1. \A g : ~Frame(link.replay, g)'
      BY <2>4 DEF Frame
    <3>2. \A g : Frame(link.queue, g)' => Frame(link.queue, g)
      BY <1>2, <2>1, <2>2, FrameTail DEF Frame
    <3>3. Frame(link.queue, f)
      BY <2>3, <2>4 DEF Frame
    <3>4. QED  BY <3>1, <3>2, <3>3 DEF Exists
  <2>12. Len(link'.queue) <= QueueFrames
    BY <1>2, <2>2, <2>3, LimitsAssumption DEF IInv, Shaped
  <2>13. f.kind # "reset"
    BY <2>4
  <2>14. QED
    BY <1>1, <2>2, <2>4, <2>5, <2>7, <2>8, <2>9, <2>10, <2>11, <2>12, <2>13, SentKeeps
<1>5. QED  BY <1>3, <1>4

-----------------------------------------------------------------------------
(* Frames that arrive.                                                     *)

\* The wire without its first frame.
LEMMA WireTail ==
  ASSUME IInv, wire # <<>>, wire' = Tail(wire), link' = link, daemon' = daemon
  PROVE  /\ wire' \in Seq(Events \cup Resets \cup Welcomes) /\ Len(wire') = Len(wire) - 1
         /\ Len(wire) \in Nat /\ OnWire \in Int /\ OnWire' = OnWire /\ Cut' = Cut
         /\ \A i \in 1..Len(wire') : wire'[i] = wire[i + 1] /\ i + 1 \in 1..Len(wire)
         /\ \A i \in 1..Len(wire') : wire'[i].kind # "welcome"
         /\ Holds(wire', "reset") => Head(wire).kind = "welcome"
         /\ InOrder' /\ Numbered'
         /\ \A g : Exists(g)' => Exists(g)
         /\ Head(wire).kind # "welcome" =>
              /\ \A i \in 1..Len(wire) : wire[i].kind # "welcome"
              /\ ~Holds(link.replay, "reset") /\ Exists(Head(wire)) /\ Head(wire) \in AllFrames
              /\ Head(wire).epoch = daemon.epoch /\ Head(wire).seq = OnWire - Len(wire) + 1
<1> DEFINE W == Events \cup Resets \cup Welcomes
<1>1. wire \in Seq(W) /\ Len(wire) \in Nat
  BY DEF IInv, Shaped
<1>2. OnWire \in Int /\ OnWire' = OnWire /\ Cut' = Cut
  BY DEF IInv, Shaped, OnWire, Cut, Links, Daemons
<1>3. /\ wire' \in Seq(W) /\ Len(wire') = Len(wire) - 1 /\ Len(wire) >= 1
      /\ \A i \in 1..Len(wire') : wire'[i] = wire[i + 1] /\ i + 1 \in 1..Len(wire)
      /\ Head(wire) = wire[1] /\ wire[1] \in W /\ 1 \in 1..Len(wire)
  <2> HIDE DEF W
  <2>1. QED  BY <1>1, TailFacts
<1>4. /\ \A i \in 1..Len(wire) :
          /\ wire[i].kind = "welcome" => i = 1
          /\ wire[i].kind = "reset" => i = 1 \/ (i = 2 /\ wire[1].kind = "welcome")
      /\ link.open
      /\ Holds(link.replay, "reset") =>
           Len(link.replay) = 1 /\ \A i \in 1..Len(wire) : wire[i].kind = "welcome"
  BY DEF IInv, Positions, InOrder
<1>5. \A i \in 1..Len(wire') : wire'[i].kind # "welcome"
                               /\ (wire'[i].kind = "reset" => i = 1 /\ wire[1].kind = "welcome")
  BY <1>1, <1>3, <1>4
<1>6. Holds(wire', "reset") => Head(wire).kind = "welcome"
  BY <1>3, <1>5 DEF Holds
<1>7. InOrder'
  <2>1. Holds(link.replay, "reset") => \A i \in 1..Len(wire') : wire'[i].kind = "welcome"
    BY <1>3, <1>4
  <2>2. QED  BY <1>4, <1>5, <2>1 DEF InOrder, Holds
<1>8. UpTo(wire, daemon.epoch, OnWire)
  BY DEF IInv, Positions, Numbered
<1>9. Numbered'
  <2>1. UpTo(wire', daemon.epoch, OnWire)
    <3> HIDE DEF W
    <3>1. QED  BY <1>1, <1>2, <1>8, UpToTail
  <2>2. QED  BY <1>2, <2>1 DEF IInv, Positions, Numbered, UpTo
<1>10. \A g : Exists(g)' => Exists(g)
  <2>1. \A g : Frame(wire, g)' => Frame(wire, g)
    <3> HIDE DEF W
    <3>1. QED  BY <1>1, FrameTail DEF Frame
  <2>2. QED  BY <2>1 DEF Exists, Frame
<1>11. ASSUME Head(wire).kind # "welcome"
       PROVE  /\ \A i \in 1..Len(wire) : wire[i].kind # "welcome"
              /\ ~Holds(link.replay, "reset") /\ Exists(Head(wire)) /\ Head(wire) \in AllFrames
              /\ Head(wire).epoch = daemon.epoch /\ Head(wire).seq = OnWire - Len(wire) + 1
  <2>1. \A i \in 1..Len(wire) : wire[i].kind # "welcome"
    BY <1>3, <1>4, <1>11
  <2>2. ~Holds(link.replay, "reset")
    BY <1>3, <1>4, <2>1
  <2>3. Frame(wire, Head(wire))
    BY <1>3, <1>11 DEF Frame
  <2>4. Head(wire) \in AllFrames
    BY <1>3, <1>11, FrameKinds DEF AllFrames
  <2>5. Head(wire).epoch = daemon.epoch /\ Head(wire).seq = OnWire - Len(wire) + 1
    <3> HIDE DEF W
    <3>1. QED  BY <1>1, <1>2, <1>8, <1>11, UpToTail
  <2>6. QED  BY <2>1, <2>2, <2>3, <2>4, <2>5 DEF Exists
<1>12. QED  BY <1>1, <1>2, <1>3, <1>5, <1>6, <1>7, <1>9, <1>10, <1>11

LEMMA ReceiveWelcomeKeeps == ASSUME IInv, ReceiveWelcome PROVE IInv'
<1>1. /\ wire # <<>> /\ Head(wire).kind = "welcome" /\ wire' = Tail(wire)
      /\ client' = [client EXCEPT !.token = TRUE] /\ UNCHANGED <<daemon, link, acks, drops, misses>>
  BY DEF ReceiveWelcome
<1>2. /\ client' \in Clients /\ client'.cursor = client.cursor /\ client'.view = client.view
  BY <1>1 DEF IInv, Shaped, Clients
<1>3. /\ wire' \in Seq(Events \cup Resets \cup Welcomes) /\ Len(wire') = Len(wire) - 1
      /\ Len(wire) \in Nat /\ OnWire \in Int /\ OnWire' = OnWire
      /\ \A i \in 1..Len(wire') : wire'[i] = wire[i + 1] /\ i + 1 \in 1..Len(wire)
      /\ \A i \in 1..Len(wire') : wire'[i].kind # "welcome"
      /\ InOrder' /\ Numbered' /\ \A g : Exists(g)' => Exists(g)
  BY <1>1, WireTail
<1>4. wire \in Seq(Events \cup Resets \cup Welcomes)
  BY DEF IInv, Shaped
<1>5. Head(wire) = wire[1] /\ 1 \in 1..Len(wire)
  BY <1>1, <1>4, TailFacts
<1>6. Holds(wire, "welcome") /\ ~Holds(wire', "welcome")
  BY <1>1, <1>3, <1>5 DEF Holds
<1>7. Holds(wire', "reset") <=> Holds(wire, "reset")
  <2>1. ASSUME NEW i \in 1..Len(wire), wire[i].kind = "reset"
        PROVE  i - 1 \in 1..Len(wire') /\ wire'[i - 1].kind = "reset"
    <3>1. i # 1
      BY <1>1, <1>5, <2>1
    <3>2. i - 1 \in 1..Len(wire') /\ (i - 1) + 1 = i
      BY <1>3, <3>1
    <3>3. QED  BY <1>3, <2>1, <3>2
  <2>2. QED  BY <1>3, <2>1 DEF Holds
<1>8. Owed' <=> Owed
  BY <1>1, <1>7 DEF Owed, Holds
<1>9. CursorStands'
  <2>1. OnWire' - Len(wire') = OnWire - Len(wire) + 1 /\ OnWire - Len(wire) \in Int
    BY <1>3
  <2>2. link.open /\ ~Owed =>
          client.cursor = [epoch |-> daemon.epoch, after |-> OnWire - Len(wire) + 1]
    BY <1>6 DEF IInv, Positions, CursorStands
  <2>3. link'.open /\ ~Owed' =>
          client'.cursor = [epoch |-> daemon'.epoch,
                            after |-> OnWire' - Len(wire') + (IF Holds(wire', "welcome") THEN 1 ELSE 0)]
    BY <1>1, <1>2, <1>3, <1>6, <1>8, <2>1, <2>2
  <2>4. client.cursor.epoch = daemon.epoch =>
          /\ \A i \in 1..Len(wire') : wire'[i].kind = "reset" => client.cursor.after <= wire'[i].seq
          /\ \A i \in 1..Len(link.replay) :
               link.replay[i].kind = "reset" => client.cursor.after <= link.replay[i].seq
    BY <1>3 DEF IInv, Positions, CursorStands
  <2>5. QED  BY <1>1, <1>2, <2>3, <2>4 DEF IInv, Positions, CursorStands
<1>10. AcksAgree'
  <2>1. Holds(link.replay, "reset")' <=> Holds(link.replay, "reset")
    BY <1>1 DEF Holds
  <2>2. QED  BY <1>1, <1>2, <1>3, <1>8, <2>1 DEF IInv, Positions, AcksAgree
<1>11. misses' <= 1 => Chained'
  BY <1>1, <1>2, <1>3, ChainStays DEF IInv
<1>12. QED  BY <1>1, <1>2, <1>3, <1>9, <1>10, <1>11 DEF IInv, Positions, Shaped

\* What arrives is for the client: a reset that it owes its view to, or the event after its cursor.
LEMMA ArrivedFacts ==
  ASSUME IInv, Arrived
  PROVE  LET f == Head(wire) IN
         /\ f \in AllFrames /\ f.kind \in {"event", "reset"} /\ link.open /\ Exists(f)
         /\ f.epoch = daemon.epoch /\ f.seq = OnWire - Len(wire) + 1 /\ f.seq \in Nat
         /\ f.seq <= daemon.seq
         /\ ~Stale(f) /\ ~OutOfSequence(f)
         /\ f.kind = "reset" => Owed
         /\ f.kind = "event" =>
              /\ ~Owed /\ f.seq = client.cursor.after + 1 /\ client.cursor.epoch = daemon.epoch
<1> DEFINE f == Head(wire)
           W == Events \cup Resets \cup Welcomes
<1>1. wire # <<>> /\ f.kind # "welcome" /\ wire \in Seq(W)
  BY DEF Arrived, IInv, Shaped
<1>2. f = wire[1] /\ 1 \in 1..Len(wire) /\ Len(wire) \in Nat
  <2> HIDE DEF W
  <2>1. QED  BY <1>1, TailFacts
<1>3. link.open /\ Numbered /\ Shaped
  BY <1>1 DEF IInv, Positions, InOrder
<1>4. \A i \in 1..Len(wire) : wire[i].kind # "welcome"
  BY <1>1, <1>2 DEF IInv, Positions, InOrder
<1>5. ~Holds(link.replay, "reset")
  BY <1>2, <1>4 DEF IInv, Positions, InOrder
<1>6. f \in AllFrames
  <2>1. f \in W
    <3> HIDE DEF W
    <3>1. QED  BY <1>1, TailFacts
  <2>2. QED  BY <1>1, <2>1, FrameKinds DEF AllFrames
<1>7. f.kind \in {"event", "reset"} /\ f.seq \in Nat
  BY <1>6, LimitsAssumption DEF AllFrames, Events, Resets
<1>8. Exists(f)
  BY <1>1, <1>2 DEF Exists, Frame
<1>9. f.seq <= daemon.seq
  BY <1>3, <1>6, <1>8, ExistingFrames
<1>10. OnWire \in Int /\ daemon.epoch \in Nat /\ client.cursor.after \in Nat
  BY DEF IInv, Shaped, OnWire, Cut, Links, Daemons, Clients
<1>11. f.epoch = daemon.epoch /\ f.seq = OnWire - Len(wire) + 1
  <2>1. f.epoch = daemon.epoch /\ f.seq = OnWire - Len(wire) + 1
    BY <1>1, <1>2, <1>3 DEF Numbered, UpTo
  <2>2. QED  BY <2>1
<1>12. CASE f.kind = "reset"
  <2>1. Owed
    BY <1>2, <1>12 DEF Owed, Holds
  <2>2. client.cursor.epoch = daemon.epoch => client.cursor.after <= f.seq
    BY <1>2, <1>12 DEF IInv, Positions, CursorStands
  <2>3. ~Stale(f) /\ ~OutOfSequence(f)
    BY <1>7, <1>10, <1>11, <1>12, <2>2 DEF Stale, OutOfSequence
  <2>4. QED  BY <1>3, <1>6, <1>7, <1>8, <1>9, <1>11, <1>12, <2>1, <2>3
<1>13. CASE f.kind = "event"
  <2>1. ~Holds(wire, "reset")
    BY <1>1, <1>2, <1>13 DEF IInv, Positions, InOrder, Holds
  <2>2. ~Owed /\ ~Holds(wire, "welcome")
    BY <1>4, <1>5, <2>1 DEF Owed, Holds
  <2>3. client.cursor = [epoch |-> daemon.epoch, after |-> OnWire - Len(wire) + 0]
    BY <1>3, <2>2 DEF IInv, Positions, CursorStands
  <2>4. f.seq = client.cursor.after + 1 /\ client.cursor.epoch = daemon.epoch
    BY <1>2, <1>10, <1>11, <2>3
  <2>5. ~Stale(f) /\ ~OutOfSequence(f)
    BY <1>7, <1>10, <1>11, <1>13, <2>4 DEF Stale, OutOfSequence
  <2>6. QED  BY <1>3, <1>6, <1>7, <1>8, <1>9, <1>11, <1>13, <2>2, <2>4, <2>5
<1>14. QED  BY <1>7, <1>12, <1>13

LEMMA ApplyKeeps ==
  ASSUME IInv, Arrived, Apply(Head(wire)), UNCHANGED <<daemon, drops, misses>>
  PROVE  IInv'
<1> DEFINE f == Head(wire)
<1>1. /\ f \in AllFrames /\ f.kind \in {"event", "reset"} /\ link.open /\ Exists(f)
      /\ f.epoch = daemon.epoch /\ f.seq = OnWire - Len(wire) + 1 /\ f.seq \in Nat
      /\ f.seq <= daemon.seq
      /\ f.kind = "reset" => Owed
      /\ f.kind = "event" =>
           /\ ~Owed /\ f.seq = client.cursor.after + 1 /\ client.cursor.epoch = daemon.epoch
  BY ArrivedFacts
<1>2. /\ wire # <<>> /\ f.kind # "welcome" /\ wire' = Tail(wire) /\ link' = link /\ daemon' = daemon
      /\ acks' = Append(acks, f.seq) /\ misses' = misses /\ drops' = drops
      /\ client' = [client EXCEPT !.cursor = [epoch |-> f.epoch, after |-> f.seq],
                                  !.view = Viewed(f),
                                  !.needsSnapshot = @ /\ f.kind # "reset"]
  BY DEF Arrived, Apply
<1>3. /\ wire' \in Seq(Events \cup Resets \cup Welcomes) /\ Len(wire') = Len(wire) - 1
      /\ Len(wire) \in Nat /\ OnWire \in Int /\ OnWire' = OnWire
      /\ \A i \in 1..Len(wire') : wire'[i].kind # "welcome"
      /\ ~Holds(wire', "reset") /\ ~Holds(link.replay, "reset")
      /\ InOrder' /\ Numbered' /\ \A g : Exists(g)' => Exists(g)
  BY <1>2, WireTail
<1>4. f \in Events \/ f \in Resets
  BY <1>1 DEF AllFrames
<1> HIDE DEF f
<1>5. f.epoch \in 1..MaxEpochs /\ f.seq \in 0..MaxSeq /\ f.version \in Nat /\ f.fault \in BOOLEAN
  BY <1>4, LimitsAssumption DEF Events, Resets
<1>6. /\ client'.cursor = [epoch |-> daemon.epoch, after |-> f.seq] /\ client'.view = Viewed(f)
      /\ client' \in Clients
  <2>1. client.view \in [version : Nat, told : BOOLEAN, torn : BOOLEAN] /\ client.needsSnapshot \in BOOLEAN
        /\ client \in Clients
    BY DEF IInv, Shaped, Clients
  <2>2. Viewed(f) \in [version : Nat, told : BOOLEAN, torn : BOOLEAN]
    BY <1>5, <2>1 DEF Viewed
  <2>3. [epoch |-> f.epoch, after |-> f.seq] \in [epoch : 0..MaxEpochs, after : 0..MaxSeq]
    BY <1>5, LimitsAssumption
  <2>4. (client.needsSnapshot /\ f.kind # "reset") \in BOOLEAN
    OBVIOUS
  <2>5. QED  BY <1>1, <1>2, <2>1, <2>2, <2>3, <2>4 DEF Clients
<1>7. ~Owed'
  BY <1>2, <1>3 DEF Owed, Holds
<1>8. ~Holds(wire', "welcome")
  BY <1>3 DEF Holds
<1>9. acks \in Seq(0..MaxSeq) /\ daemon.epoch \in Nat /\ daemon.seq \in Nat /\ link.applied \in Nat
      /\ client.cursor.after \in Nat /\ Len(acks) \in Nat
  BY DEF IInv, Shaped, Daemons, Links, Clients
<1>10. /\ acks' \in Seq(0..MaxSeq) /\ Len(acks') = Len(acks) + 1 /\ acks'[Len(acks) + 1] = f.seq
       /\ \A n \in 1..Len(acks) : acks'[n] = acks[n]
  BY <1>2, <1>5, <1>9, AppendFacts
<1>11. Shaped'
  BY <1>2, <1>3, <1>6, <1>10 DEF IInv, Shaped
<1>12. CursorStands'
  <2>1. OnWire' - Len(wire') + 0 = f.seq
    BY <1>1, <1>3
  <2>2. client'.cursor.epoch = daemon.epoch /\ client'.cursor.after = f.seq
    BY <1>6
  <2>3. \A i \in 1..Len(wire') : wire'[i].kind # "reset"
    BY <1>3 DEF Holds
  <2>4. \A i \in 1..Len(link'.replay) : link'.replay[i].kind # "reset"
    BY <1>2, <1>3 DEF Holds
  <2>5. QED  BY <1>1, <1>2, <1>6, <1>8, <1>9, <2>1, <2>2, <2>3, <2>4 DEF CursorStands
<1>13. AcksAgree'
  <2>1. link'.sent = OnWire' /\ ~Holds(link.replay, "reset")'
    BY <1>1, <1>2, <1>3 DEF IInv, Positions, AcksAgree, Holds
  <2>2. link.applied <= f.seq /\ \A n \in 1..Len(acks) : link.applied <= acks[n] /\ acks[n] <= f.seq
    <3>1. CASE f.kind = "reset"
      <4>1. acks = <<>> /\ link.applied = 0
        BY <1>1, <3>1 DEF IInv, Positions, AcksAgree
      <4>2. QED  BY <1>1, <4>1
    <3>2. CASE f.kind = "event"
      <4>1. /\ link.applied <= client.cursor.after
            /\ \A n \in 1..Len(acks) : link.applied <= acks[n] /\ acks[n] <= client.cursor.after
        BY <1>1, <3>2 DEF IInv, Positions, AcksAgree
      <4>2. \A n \in 1..Len(acks) : acks[n] \in Nat
        <5>1. \A n \in 1..Len(acks) : acks[n] \in 0..MaxSeq
          BY <1>9, ElementOfSeq
        <5>2. QED  BY <5>1
      <4>3. QED  BY <1>1, <1>9, <3>2, <4>1, <4>2
    <3>3. QED  BY <1>1, <3>1, <3>2
  <2>3. \A m, n \in 1..Len(acks) : m <= n => acks[m] <= acks[n]
    <3>1. CASE f.kind = "reset"
      <4>1. acks = <<>>
        BY <1>1, <3>1 DEF IInv, Positions, AcksAgree
      <4>2. QED  BY <4>1
    <3>2. CASE f.kind = "event"
      BY <1>1, <3>2 DEF IInv, Positions, AcksAgree
    <3>3. QED  BY <1>1, <3>1, <3>2
  <2>4. \A n \in 1..Len(acks') : link.applied <= acks'[n] /\ acks'[n] <= f.seq
    BY <1>1, <1>9, <1>10, <2>2
  <2>5. ASSUME NEW m \in 1..Len(acks'), NEW n \in 1..Len(acks'), m <= n
        PROVE  acks'[m] <= acks'[n]
    <3>1. CASE n \in 1..Len(acks)
      <4>1. m \in 1..Len(acks)
        BY <1>9, <1>10, <2>5, <3>1
      <4>2. QED  BY <1>10, <2>3, <2>5, <3>1, <4>1
    <3>2. CASE n = Len(acks) + 1
      BY <1>10, <2>4, <3>2
    <3>3. QED  BY <1>9, <1>10, <3>1, <3>2
  <2>6. client'.cursor.after = f.seq /\ link' = link
    BY <1>2, <1>6
  <2>7. QED  BY <1>7, <2>1, <2>2, <2>4, <2>5, <2>6 DEF AcksAgree
<1>14. misses' <= 1 => Chained'
  <2>1. SUFFICES ASSUME Chained PROVE Chained'
    BY <1>2 DEF IInv
  <2>2. \A g, e \in AllFrames : Exists(g)' /\ Exists(e)' => Follows(e, g.seq, g.version)
    BY <1>3, <2>1 DEF Chained
  <2>3. \A g \in AllFrames : Exists(g)' /\ g.seq = daemon'.seq => g.version = daemon'.version
    BY <1>2, <1>3, <2>1 DEF Chained
  <2>4. /\ \A e \in AllFrames : Exists(e)' => Follows(e, f.seq, f.version)
        /\ f.seq = daemon'.seq => f.version = daemon'.version
    BY <1>1, <1>2, <1>3, <2>1 DEF Chained
  <2>5. CASE f.kind = "reset"
    <3>1. client'.view.version = f.version /\ ~client'.view.torn
      BY <1>6, <2>5 DEF Viewed
    <3>2. client'.cursor.after = f.seq
      BY <1>6
    <3>3. QED  BY <2>2, <2>3, <2>4, <3>1, <3>2 DEF Chained, Follows
  <2>6. CASE f.kind = "event"
    <3>1. f.kind # "reset"
      BY <2>6
    <3>2. /\ client'.view.version = (IF f.fault THEN client.view.version ELSE f.version)
          /\ client'.view.told = (client.view.told \/ f.fault)
          /\ client'.view.torn = (client.view.torn
                                   \/ (~f.fault /\ f.version # client.view.version + 1))
      BY <1>6, <3>1 DEF Viewed
    <3>3. ~client'.view.told => ~client.view.told /\ ~f.fault /\ client'.view.version = f.version
      BY <3>2
    <3>4. client'.view.torn => client'.view.told
      <4>1. ~client.view.told => Follows(f, client.cursor.after, client.view.version)
        BY <1>1, <2>1, <2>6 DEF Chained
      <4>2. ~client.view.told /\ ~f.fault => f.version = client.view.version + 1
        BY <1>1, <2>6, <4>1 DEF Follows
      <4>3. client.view.torn => client.view.told
        BY <2>1 DEF Chained
      <4>4. QED  BY <3>2, <4>2, <4>3
    <3>5. client'.cursor.after = f.seq
      BY <1>6
    <3>6. QED  BY <2>2, <2>3, <2>4, <3>3, <3>4, <3>5 DEF Chained, Follows
  <2>7. QED  BY <1>1, <2>5, <2>6
<1>15. QED  BY <1>2, <1>3, <1>11, <1>12, <1>13, <1>14 DEF IInv, Positions

LEMMA ReceiveFrameKeeps == ASSUME IInv, ReceiveFrame PROVE IInv'
<1>1. Arrived /\ UNCHANGED <<daemon, drops, misses>>
  BY DEF ReceiveFrame
<1>2. ~Stale(Head(wire)) /\ ~OutOfSequence(Head(wire))
  BY <1>1, ArrivedFacts
<1>3. Apply(Head(wire))
  BY <1>2 DEF ReceiveFrame
<1>4. QED  BY <1>1, <1>3, ApplyKeeps

LEMMA FailToApplyKeeps == ASSUME IInv, FailToApply PROVE IInv'
<1>1. /\ drops < MaxDrops /\ drops' = drops + 1 /\ Closed /\ UNCHANGED daemon /\ misses' = misses
      /\ client' = [client EXCEPT !.needsSnapshot = TRUE]
  BY DEF FailToApply, Resync
<1>2. drops' \in 0..MaxDrops
  BY <1>1, LimitsAssumption DEF IInv, Shaped
<1>3. client' \in Clients /\ client'.cursor = client.cursor /\ client'.view = client.view
  BY <1>1 DEF IInv, Shaped, Clients
<1>4. QED  BY <1>1, <1>2, <1>3, ClosedKeeps

\* The daemon accepts every acknowledgement of a client that follows the protocol.
LEMMA AcksAccepted ==
  ASSUME IInv
  PROVE  AcksAreAcceptable
<1>1. SUFFICES ASSUME NEW n \in 1..Len(acks)
               PROVE  link.applied <= acks[n] /\ acks[n] <= link.sent
  BY DEF AcksAreAcceptable, Acceptable
<1>2. link.open /\ acks \in Seq(0..MaxSeq) /\ Len(acks) \in Nat /\ acks # <<>>
  BY <1>1 DEF IInv, Shaped, Positions, InOrder
<1>3. ~Owed
  BY <1>2 DEF IInv, Positions, AcksAgree
<1>4. link.applied <= acks[n] /\ acks[n] <= client.cursor.after /\ acks[n] \in Nat
  BY <1>1, <1>2, <1>3, LimitsAssumption DEF IInv, Positions, AcksAgree
<1>5. link.sent = OnWire
  BY <1>2, <1>3 DEF IInv, Positions, AcksAgree, Owed
<1>6. client.cursor.after = OnWire - Len(wire) + (IF Holds(wire, "welcome") THEN 1 ELSE 0)
  BY <1>2, <1>3 DEF IInv, Positions, CursorStands
<1>7. Holds(wire, "welcome") => Len(wire) >= 1
  BY DEF Holds, IInv, Shaped
<1>8. OnWire \in Int /\ Len(wire) \in Nat
  BY DEF IInv, Shaped, OnWire, Cut, Links, Daemons
<1>9. client.cursor.after <= OnWire
  BY <1>6, <1>7, <1>8
<1>10. client.cursor.after \in Nat
  BY DEF IInv, Shaped, Clients
<1>11. QED  BY <1>4, <1>5, <1>8, <1>9, <1>10

LEMMA ReceiveAckKeeps == ASSUME IInv, ReceiveAck PROVE IInv'
<1>1. acks # <<>> /\ UNCHANGED <<daemon, client, drops, misses>> /\ acks \in Seq(0..MaxSeq)
  BY DEF ReceiveAck, IInv, Shaped
<1>2. /\ Tail(acks) \in Seq(0..MaxSeq) /\ Len(Tail(acks)) = Len(acks) - 1 /\ Len(acks) \in Nat
      /\ \A i \in 1..Len(Tail(acks)) : Tail(acks)[i] = acks[i + 1] /\ i + 1 \in 1..Len(acks)
      /\ Head(acks) = acks[1] /\ acks[1] \in 0..MaxSeq /\ 1 \in 1..Len(acks)
  <2> DEFINE S == 0..MaxSeq
  <2>1. acks \in Seq(S)
    BY <1>1
  <2> HIDE DEF S
  <2>2. /\ Tail(acks) \in Seq(S) /\ Len(Tail(acks)) = Len(acks) - 1 /\ Len(acks) \in Nat
        /\ \A i \in 1..Len(Tail(acks)) : Tail(acks)[i] = acks[i + 1] /\ i + 1 \in 1..Len(acks)
        /\ Head(acks) = acks[1] /\ acks[1] \in S /\ 1 \in 1..Len(acks)
    BY <1>1, <2>1, TailFacts
  <2>3. QED  BY <2>2 DEF S
<1>3. Acceptable(Head(acks))
  BY <1>2, AcksAccepted DEF AcksAreAcceptable
<1>4. acks' = Tail(acks) /\ link' = [link EXCEPT !.applied = Head(acks)] /\ wire' = wire
  BY <1>3 DEF ReceiveAck
<1>5. /\ link'.open = link.open /\ link'.replay = link.replay /\ link'.queue = link.queue
      /\ link'.sent = link.sent /\ link'.applied = acks[1] /\ link' \in Links /\ link.open
  <2>1. link \in Links
    BY DEF IInv, Shaped
  <2>2. link.open
    BY <1>1 DEF IInv, Positions, InOrder
  <2>3. QED  BY <1>2, <1>4, <2>1, <2>2 DEF Links
<1>6. Shaped'
  BY <1>1, <1>2, <1>4, <1>5 DEF IInv, Shaped
<1>7. OnWire' = OnWire /\ Cut' = Cut /\ (Owed' <=> Owed)
  BY <1>1, <1>4, <1>5 DEF OnWire, Cut, Owed, Holds
<1>8. InOrder' /\ Numbered'
  BY <1>1, <1>4, <1>5, <1>7 DEF IInv, Positions, InOrder, Numbered, Holds, UpTo
<1>9. CursorStands'
  BY <1>1, <1>4, <1>5, <1>7 DEF IInv, Positions, CursorStands, Holds
<1>10. AcksAgree'
  <2>1. ~Owed
    BY <1>1, <1>5 DEF IInv, Positions, AcksAgree
  <2>2. link'.sent = (IF Holds(link.replay, "reset")' THEN 0 ELSE OnWire')
    BY <1>5, <1>7 DEF IInv, Positions, AcksAgree, Holds
  <2>3. /\ \A n \in 1..Len(acks) : acks[n] <= client.cursor.after
        /\ \A m, n \in 1..Len(acks) : m <= n => acks[m] <= acks[n]
    BY <1>5, <2>1 DEF IInv, Positions, AcksAgree
  <2>4. \A n \in 1..Len(acks') : acks[1] <= acks'[n] /\ acks'[n] <= client.cursor.after
    BY <1>2, <1>4, <2>3
  <2>5. \A m, n \in 1..Len(acks') : m <= n => acks'[m] <= acks'[n]
    <3>1. ASSUME NEW m \in 1..Len(acks'), NEW n \in 1..Len(acks'), m <= n
          PROVE  acks'[m] <= acks'[n]
      <4>1. m + 1 \in 1..Len(acks) /\ n + 1 \in 1..Len(acks) /\ m + 1 <= n + 1
        BY <1>2, <1>4, <3>1
      <4>2. QED  BY <1>2, <1>4, <2>3, <4>1
    <3>2. QED  BY <3>1
  <2>6. acks[1] <= client.cursor.after
    BY <1>2, <2>3
  <2>7. QED  BY <1>1, <1>5, <1>7, <2>1, <2>2, <2>4, <2>5, <2>6 DEF AcksAgree
<1>11. \A f \in AllFrames : Exists(f)' => Exists(f)
  BY <1>1, <1>4, <1>5 DEF Exists, Frame
<1>12. misses' <= 1 => Chained'
  BY <1>1, <1>11, ChainStays DEF IInv
<1>13. QED  BY <1>1, <1>6, <1>8, <1>9, <1>10, <1>12 DEF IInv, Positions

-----------------------------------------------------------------------------
(* Attaching.                                                              *)

\* What the journal retains after a cursor that it reaches back to: all that came since, without a gap.
LEMMA LaterFacts ==
  ASSUME Shaped, Numbered, NEW n \in Nat, n <= daemon.seq, n >= Oldest - 1
  PROVE  /\ Later(n) \in Seq(Events) /\ Len(Later(n)) = daemon.seq - n
         /\ UpTo(Later(n), daemon.epoch, daemon.seq)
         /\ \A f : Frame(Later(n), f) => Frame(daemon.entries, f)
<1> DEFINE s == daemon.entries
           L == Len(s)
           p == n - daemon.seq + L
           passed == {i \in DOMAIN s : s[i].seq <= n}
<1>1. s \in Seq(Events) /\ L \in Nat /\ daemon.seq \in Nat /\ DOMAIN s = 1..L
  BY DEF Shaped, Daemons
<1>2. \A i \in 1..L : s[i] \in Events /\ s[i].kind # "welcome" /\ s[i].epoch = daemon.epoch
                      /\ s[i].seq = daemon.seq - L + i
  <2>1. \A i \in 1..L : s[i] \in Events
    BY <1>1
  <2>2. QED  BY <2>1, FrameKinds DEF Numbered, UpTo
<1>3. p \in 0..L
  <2>1. CASE s = <<>>
    BY <1>1, <2>1 DEF Oldest
  <2>2. CASE s # <<>>
    <3>1. L >= 1 /\ Oldest = s[1].seq
      BY <1>1, <2>2 DEF Oldest
    <3>2. Oldest = daemon.seq - L + 1
      BY <1>1, <1>2, <3>1
    <3>3. n >= daemon.seq - L
      <4> HIDE DEF L
      <4>1. QED  BY <1>1, <3>2
    <3>4. QED
      <4> HIDE DEF L
      <4>1. QED  BY <1>1, <3>3
  <2>3. QED  BY <2>1, <2>2
<1>4. passed = 1..p
  <2>1. \A i \in 1..L : s[i].seq <= n <=> i <= p
    BY <1>1, <1>2
  <2> HIDE DEF s, p
  <2>2. QED  BY <1>1, <1>3, <2>1
<1>5. Cardinality(passed) = p
  <2> HIDE DEF passed, p
  <2>1. Cardinality(1..p) = p
    BY <1>1, <1>3, FS_Interval
  <2>2. QED  BY <1>4, <2>1
<1>6. Later(n) = SubSeq(s, p + 1, L)
  BY <1>5 DEF Later
<1> DEFINE t == SubSeq(s, p + 1, L)
<1>7. t \in Seq(Events) /\ Len(t) = L - p /\ \A i \in 1..(L - p) : t[i] = s[i + p] /\ i + p \in 1..L
  <2> HIDE DEF s, p
  <2>1. QED  BY <1>1, <1>3
<1>8. \A f : Frame(t, f) => Frame(s, f)
  <2>1. p + 1 \in 1..(L + 1)
    BY <1>1, <1>3
  <2> HIDE DEF s, p
  <2>2. QED  BY <1>1, <2>1, FrameSubSeq
<1> HIDE DEF t
<1>9. Len(t) = daemon.seq - n
  BY <1>1, <1>7
<1>10. UpTo(t, daemon.epoch, daemon.seq)
  <2>1. ASSUME NEW i \in 1..Len(t)
        PROVE  t[i].epoch = daemon.epoch /\ t[i].seq = daemon.seq - Len(t) + i
    <3>1. i + p \in 1..L /\ t[i] = s[i + p]
      BY <1>7, <2>1
    <3>2. s[i + p].epoch = daemon.epoch /\ s[i + p].seq = daemon.seq - L + (i + p)
      BY <1>2, <3>1
    <3>3. i \in Nat /\ p \in Int /\ Len(t) = L - p
      BY <1>1, <1>7, <2>1
    <3>4. daemon.seq - L + (i + p) = daemon.seq - Len(t) + i
      <4> HIDE DEF p, L
      <4>1. QED  BY <1>1, <3>3
    <3>5. QED  BY <3>1, <3>2, <3>4
  <2>2. QED  BY <2>1 DEF UpTo
<1>11. QED  BY <1>6, <1>7, <1>8, <1>9, <1>10 DEF t

\* A connection that starts with its welcome, and with a cut r of the journal to send.
LEMMA StartedKeeps ==
  ASSUME IInv, ~link.open, NEW r \in Seq(Events \cup Resets), NEW start \in 0..MaxSeq,
         link' = [NoLink EXCEPT !.open = TRUE, !.replay = r, !.sent = start, !.applied = start],
         wire' = <<Welcome>>, UNCHANGED <<daemon, acks, client, drops, misses>>,
         UpTo(r, daemon.epoch, daemon.seq),
         \/ Len(r) = 1 /\ r[1].kind = "reset" /\ r[1].seq = daemon.seq /\ start = 0
         \/ /\ ~Holds(r, "reset") /\ Len(r) = daemon.seq - start
            /\ client.cursor = [epoch |-> daemon.epoch, after |-> start]
  PROVE  Shaped' /\ Positions'
<1>1. /\ link' = [open |-> TRUE, replay |-> r, queue |-> <<>>, sent |-> start, applied |-> start]
      /\ link'.replay = r /\ link'.queue = <<>> /\ link'.open /\ link'.sent = start
      /\ link'.applied = start
  BY DEF NoLink
<1>2. Welcome \in Welcomes /\ Welcome.kind = "welcome"
  BY DEF Welcome, Welcomes
<1>3. /\ wire' \in Seq(Events \cup Resets \cup Welcomes) /\ Len(wire') = 1
      /\ wire'[1].kind = "welcome" /\ Len(link'.queue) = 0
  BY <1>1, <1>2
<1>4. /\ acks' = <<>> /\ acks' = acks /\ daemon' = daemon /\ client' = client /\ misses' = misses
      /\ drops' = drops
  BY DEF IInv, Positions, InOrder
<1>5. daemon.seq \in Nat /\ Len(r) \in Nat /\ start \in Nat
  BY LimitsAssumption DEF IInv, Shaped, Daemons
<1>6. Shaped'
  <2>1. link' \in Links
    <3>1. <<>> \in Seq(Events)
      OBVIOUS
    <3>2. QED  BY <1>1, <3>1 DEF Links
  <2>2. Len(link'.queue) <= QueueFrames
    BY <1>3, LimitsAssumption
  <2>3. QED  BY <1>3, <1>4, <2>1, <2>2 DEF IInv, Shaped
<1>7. Cut' = daemon.seq /\ OnWire' = daemon.seq - Len(r)
  BY <1>1, <1>3, <1>4, <1>5 DEF Cut, OnWire
<1>8. Holds(wire', "welcome") /\ ~Holds(wire', "reset")
  BY <1>3 DEF Holds
<1>9. Numbered'
  <2>1. UpTo(wire', daemon'.epoch, OnWire') /\ UpTo(link'.queue, daemon'.epoch, daemon'.seq)
    BY <1>3 DEF UpTo
  <2>2. QED  BY <1>1, <1>4, <1>7, <2>1 DEF IInv, Positions, Numbered
<1>10. Holds(r, "reset") => Len(r) = 1 /\ r[1].kind = "reset" /\ r[1].seq = daemon.seq /\ start = 0
  OBVIOUS
<1>11. InOrder'
  BY <1>1, <1>3, <1>10 DEF InOrder
<1>12. Owed' <=> Holds(r, "reset")
  BY <1>1, <1>8 DEF Owed
<1>13. ~Holds(r, "reset") =>
         Len(r) = daemon.seq - start /\ client.cursor = [epoch |-> daemon.epoch, after |-> start]
  BY DEF Holds
<1>14. CursorStands'
  <2>1. ~Holds(r, "reset") => OnWire' - Len(wire') + 1 = start
    BY <1>3, <1>5, <1>7, <1>13
  <2>2. client.cursor.epoch = daemon.epoch => \A i \in 1..Len(r) :
          r[i].kind = "reset" => client.cursor.after <= r[i].seq
    <3>1. client.cursor.epoch = daemon.epoch => client.cursor.after <= daemon.seq
      BY DEF IInv, Positions, CursorStands
    <3>2. QED  BY <1>10, <3>1 DEF Holds
  <2>3. \A i \in 1..Len(wire') : wire'[i].kind # "reset"
    BY <1>8 DEF Holds
  <2>4. QED
    BY <1>1, <1>4, <1>8, <1>12, <1>13, <2>1, <2>2, <2>3 DEF IInv, Positions, CursorStands
<1>15. AcksAgree'
  <2>1. ~Holds(r, "reset") => OnWire' = start /\ client.cursor.after = start
    BY <1>5, <1>7, <1>13
  <2>2. Len(acks') = 0
    BY <1>4
  <2>3. QED  BY <1>1, <1>4, <1>5, <1>10, <1>12, <2>1, <2>2 DEF AcksAgree
<1>16. QED  BY <1>6, <1>9, <1>11, <1>14, <1>15 DEF Positions

LEMMA ConnectKeeps == ASSUME IInv, Connect PROVE IInv'
<1> DEFINE resume == client.token /\ client.cursor # NoCursor
           cursor == client.cursor
           reset == NeedsReset(resume, cursor, client.needsSnapshot)
           start == IF resume /\ ~reset THEN cursor.after ELSE 0
           r == IF reset THEN <<Reset(resume, cursor)>> ELSE Later(cursor.after)
<1>1. /\ ~link.open /\ wire' = <<Welcome>> /\ UNCHANGED <<daemon, acks, client, drops, misses>>
      /\ link' = [NoLink EXCEPT !.open = TRUE, !.replay = r, !.sent = start, !.applied = start]
  BY DEF Connect
<1>2. Shaped /\ Numbered
  BY DEF IInv, Positions
<1>3. /\ daemon.seq \in 0..MaxSeq /\ daemon.epoch \in 1..MaxEpochs /\ daemon.version \in Nat
      /\ cursor \in [epoch : 0..MaxEpochs, after : 0..MaxSeq]
  BY DEF IInv, Shaped, Daemons, Clients
<1>4. \A g : Exists(g)' => Frame(daemon.entries, g) \/ Frame(r, g)
  <2> HIDE DEF r, start
  <2>1. link'.replay = r /\ link'.queue = <<>>
    BY <1>1 DEF NoLink
  <2>2. \A g : ~Frame(link'.queue, g)
    BY <2>1 DEF Frame
  <2>3. \A g : ~Frame(wire', g)
    BY <1>1 DEF Frame, Welcome
  <2>4. QED  BY <1>1, <2>1, <2>2, <2>3 DEF Exists, Frame
<1>5. CASE reset
  <2> DEFINE R == Reset(resume, cursor)
  <2>1. r = <<R>> /\ start = 0
    BY <1>5
  <2>2. /\ R \in Resets /\ R.kind = "reset" /\ R.seq = daemon.seq /\ R.epoch = daemon.epoch
        /\ R.version = daemon.version
    BY <1>3 DEF Reset, Resets
  <2> HIDE DEF R, r, start, reset
  <2>3. r \in Seq(Events \cup Resets) /\ Len(r) = 1 /\ r[1] = R
    BY <2>1, <2>2
  <2>4. UpTo(r, daemon.epoch, daemon.seq) /\ start \in 0..MaxSeq
    <3>1. start \in 0..MaxSeq /\ daemon.seq \in Nat
      BY <1>3, <2>1, LimitsAssumption
    <3>2. \A i \in 1..Len(r) : i = 1 /\ r[i] = R
      BY <2>3
    <3>3. daemon.seq - Len(r) + 1 = daemon.seq
      BY <2>3, <3>1
    <3>4. QED  BY <2>2, <3>1, <3>2, <3>3 DEF UpTo
  <2>5. Shaped' /\ Positions'
    BY <1>1, <2>1, <2>2, <2>3, <2>4, StartedKeeps
  <2>6. \A g : Frame(r, g) => g = R
    BY <2>3 DEF Frame
  <2>7. \A g \in AllFrames : Frame(daemon.entries, g) => Exists(g) /\ g.seq <= daemon.seq
    BY <1>2, ExistingFrames DEF Exists
  <2>8. misses' <= 1 => Chained'
    <3>1. SUFFICES ASSUME Chained PROVE Chained'
      BY <1>1 DEF IInv
    <3>2. ASSUME NEW g \in AllFrames, NEW e \in AllFrames, Exists(g)', Exists(e)'
          PROVE  Follows(e, g.seq, g.version)
      <4>1. CASE e = R
        BY <2>2, <4>1 DEF Follows
      <4>2. CASE Frame(daemon.entries, e) /\ Frame(daemon.entries, g)
        BY <2>7, <3>1, <4>2 DEF Chained
      <4>3. CASE Frame(daemon.entries, e) /\ g = R
        BY <1>3, <2>2, <2>7, <4>3, LimitsAssumption DEF Follows
      <4>4. QED  BY <1>4, <2>6, <3>2, <4>1, <4>2, <4>3
    <3>3. ASSUME NEW g \in AllFrames, Exists(g)', g.seq = daemon.seq PROVE g.version = daemon.version
      BY <1>4, <2>2, <2>6, <2>7, <3>1, <3>3 DEF Chained
    <3>4. ASSUME client.cursor.epoch = daemon.epoch, ~client.view.told, NEW e \in AllFrames, Exists(e)'
          PROVE  Follows(e, client.cursor.after, client.view.version)
      <4>1. CASE e = R
        BY <2>2, <4>1 DEF Follows
      <4>2. CASE Frame(daemon.entries, e)
        BY <2>7, <3>1, <3>4, <4>2 DEF Chained
      <4>3. QED  BY <1>4, <2>6, <3>4, <4>1, <4>2
    <3>5. daemon' = daemon /\ client' = client
      BY <1>1
    <3>6. QED  BY <3>1, <3>2, <3>3, <3>4, <3>5 DEF Chained, Follows
  <2>9. QED  BY <1>1, <2>5, <2>8 DEF IInv
<1>6. CASE ~reset
  <2>1. resume /\ cursor.epoch = daemon.epoch /\ ~(cursor.after > daemon.seq) /\ ~(cursor.after < Oldest - 1)
    BY <1>6 DEF NeedsReset
  <2>2. r = Later(cursor.after) /\ start = cursor.after
    BY <1>6, <2>1
  <2> HIDE DEF r, start, reset, resume
  <2>3. Oldest \in Int
    <3>1. CASE daemon.entries = <<>>
      BY <1>3, <3>1 DEF Oldest
    <3>2. CASE daemon.entries # <<>>
      <4>1. daemon.entries[1] \in Events
        BY <1>2, <3>2 DEF Shaped, Daemons
      <4>2. QED  BY <3>2, <4>1, LimitsAssumption DEF Oldest, Events
    <3>3. QED  BY <3>1, <3>2
  <2>4. start \in Nat /\ start \in 0..MaxSeq /\ start <= daemon.seq /\ start >= Oldest - 1
    BY <1>3, <2>1, <2>2, <2>3, LimitsAssumption
  <2>5. /\ r \in Seq(Events) /\ Len(r) = daemon.seq - start /\ UpTo(r, daemon.epoch, daemon.seq)
        /\ \A g : Frame(r, g) => Frame(daemon.entries, g)
    BY <1>2, <2>2, <2>4, LaterFacts
  <2>6. r \in Seq(Events \cup Resets) /\ ~Holds(r, "reset")
    BY <2>5, FrameKinds DEF Holds
  <2>7. client.cursor = [epoch |-> daemon.epoch, after |-> start]
    BY <1>3, <2>1, <2>2
  <2>8. Shaped' /\ Positions'
    BY <1>1, <2>4, <2>5, <2>6, <2>7, StartedKeeps
  <2>9. \A g \in AllFrames : Exists(g)' => Exists(g)
    BY <1>4, <2>5 DEF Exists
  <2>10. misses' <= 1 => Chained'
    BY <1>1, <2>9, ChainStays DEF IInv
  <2>11. QED  BY <1>1, <2>8, <2>10 DEF IInv
<1>7. QED  BY <1>5, <1>6

-----------------------------------------------------------------------------
(* The invariant and what follows from it.                                 *)

LEMMA InitIsSound == ASSUME Init PROVE IInv
<1>1. /\ daemon = [epoch |-> 1, seq |-> 0, entries |-> <<>>, degraded |-> FALSE, version |-> 0]
      /\ link = NoLink /\ wire = <<>> /\ acks = <<>> /\ drops = 0 /\ misses = 0
      /\ client = [cursor |-> [epoch |-> 0, after |-> 0], token |-> FALSE, needsSnapshot |-> TRUE,
                   view |-> [version |-> 0, told |-> FALSE, torn |-> FALSE]]
  BY DEF Init, NewDaemon, NoCursor, NoView
<1>2. /\ MaxEpochs \in Nat \ {0} /\ MaxSeq \in Nat \ {0} /\ Retained \in Nat /\ QueueFrames \in Nat
      /\ MaxDrops \in Nat /\ MaxMisses \in Nat
  BY LimitsAssumption
<1>3. /\ <<>> \in Seq(Events) /\ <<>> \in Seq(Events \cup Resets \cup Welcomes) /\ <<>> \in Seq(0..MaxSeq)
      /\ Len(<<>>) = 0
  OBVIOUS
<1>4. daemon \in Daemons /\ client \in Clients
  BY <1>1, <1>2, <1>3 DEF Daemons, Clients
<1>5. Shaped
  BY <1>1, <1>2, <1>3, <1>4, NoLinkIsLink DEF Shaped
<1>6. /\ Len(daemon.entries) = 0 /\ Len(link.queue) = 0 /\ Len(link.replay) = 0 /\ Len(wire) = 0
      /\ ~link.open /\ client.cursor.epoch = 0 /\ daemon.epoch = 1 /\ ~client.view.torn
      /\ ~daemon.degraded
  BY <1>1 DEF NoLink
<1>7. Positions
  BY <1>1, <1>6 DEF Positions, InOrder, Numbered, CursorStands, AcksAgree, UpTo, Holds
<1>8. Chained
  <2>1. \A f : ~Exists(f)
    BY <1>6 DEF Exists, Frame
  <2>2. QED  BY <1>6, <2>1 DEF Chained
<1>9. QED  BY <1>5, <1>6, <1>7, <1>8 DEF IInv

LEMMA StepKeeps == ASSUME IInv, [Next]_vars PROVE IInv'
<1>1. CASE Change
  BY <1>1, ChangeKeeps
<1>2. CASE Miss
  BY <1>2, MissKeeps
<1>3. CASE MissUpdate
  BY <1>3, MissUpdateKeeps
<1>4. CASE Restart
  BY <1>4, RestartKeeps
<1>5. CASE Connect
  BY <1>5, ConnectKeeps
<1>6. CASE Pump
  BY <1>6, PumpKeeps
<1>7. CASE Receive
  BY <1>7, ReceiveWelcomeKeeps, ReceiveFrameKeeps DEF Receive
<1>8. CASE FailToApply
  BY <1>8, FailToApplyKeeps
<1>9. CASE ReceiveAck
  BY <1>9, ReceiveAckKeeps
<1>10. CASE Drop
  BY <1>10, DropKeeps
<1>11. CASE UNCHANGED vars
  <2>1. /\ daemon' = daemon /\ link' = link /\ wire' = wire /\ acks' = acks /\ client' = client
        /\ drops' = drops /\ misses' = misses
    BY <1>11 DEF vars
  <2>2. Shaped'
    BY <2>1 DEF IInv, Shaped
  <2>3. Cut' = Cut /\ OnWire' = OnWire /\ (Owed' <=> Owed)
    BY <2>1 DEF Cut, OnWire, Owed, Holds
  <2>4. InOrder' /\ Numbered'
    BY <2>1, <2>3 DEF IInv, Positions, InOrder, Numbered, Holds, UpTo
  <2>5. CursorStands'
    BY <2>1, <2>3 DEF IInv, Positions, CursorStands, Holds
  <2>6. AcksAgree'
    BY <2>1, <2>3 DEF IInv, Positions, AcksAgree, Holds
  <2>7. \A f \in AllFrames : Exists(f)' => Exists(f)
    BY <2>1 DEF Exists, Frame
  <2>8. misses' <= 1 => Chained'
    BY <2>1, <2>7, ChainStays DEF IInv
  <2>9. QED  BY <2>1, <2>2, <2>4, <2>5, <2>6, <2>8 DEF IInv, Positions
<1>12. QED
  BY <1>1, <1>2, <1>3, <1>4, <1>5, <1>6, <1>7, <1>8, <1>9, <1>10, <1>11 DEF Next

LEMMA Invariant == Spec => []IInv
<1>1. Init => IInv
  BY InitIsSound
<1>2. IInv /\ [Next]_vars => IInv'
  BY StepKeeps
<1>3. QED  BY <1>1, <1>2, PTL DEF Spec

LEMMA ShapedIsTyped == ASSUME Shaped PROVE TypeOK
<1>1. Events \subseteq Frames /\ Resets \subseteq Frames /\ Welcomes \subseteq Frames
  BY LimitsAssumption DEF Events, Resets, Welcomes, Frames
<1>2. /\ daemon.entries \in Seq(Frames) /\ link.replay \in Seq(Frames) /\ link.queue \in Seq(Frames)
      /\ wire \in Seq(Frames)
  <2>1. Seq(Events) \subseteq Seq(Frames) /\ Seq(Events \cup Resets) \subseteq Seq(Frames)
        /\ Seq(Events \cup Resets \cup Welcomes) \subseteq Seq(Frames)
    BY <1>1
  <2>2. QED  BY <2>1 DEF Shaped, Daemons, Links
<1>3. {link.replay, link.queue, wire} \subseteq Seq(Frames)
  BY <1>2
<1>4. QED  BY <1>2, <1>3 DEF TypeOK, Shaped, Daemons, Links, Clients

\* Whatever arrives is the client's, and whatever it acknowledges was sent to it.
LEMMA PositionsFollow == ASSUME IInv PROVE PositionsAgree
<1>1. NoGapMet
  <2>1. SUFFICES ASSUME wire # <<>>, Head(wire).kind = "event"
                 PROVE  ~OutOfSequence(Head(wire))
    BY DEF NoGapMet
  <2>2. Arrived
    BY <2>1 DEF Arrived
  <2>3. QED  BY <2>2, ArrivedFacts
<1>2. QED  BY <1>1, AcksAccepted DEF PositionsAgree

LEMMA SoundFollows == ASSUME IInv, misses <= 1 PROVE StreamIsSound
<1>1. Shaped /\ Chained
  BY DEF IInv
<1>2. NeverTorn
  BY <1>1 DEF Chained, NeverTorn
<1>3. IdleIsCurrent
  <2>1. SUFFICES ASSUME Idle
                 PROVE  /\ client.cursor = [epoch |-> daemon.epoch, after |-> daemon.seq]
                        /\ client.view.version = daemon.version \/ client.view.told
    BY DEF IdleIsCurrent
  <2>2. link.open /\ Len(link.replay) = 0 /\ Len(link.queue) = 0 /\ Len(wire) = 0 /\ daemon.seq \in Nat
    BY <1>1, <2>1 DEF Idle, Shaped, Daemons
  <2>3. ~Owed /\ ~Holds(wire, "welcome") /\ OnWire = daemon.seq
    BY <2>2 DEF Owed, Holds, OnWire, Cut
  <2>4. client.cursor = [epoch |-> daemon.epoch, after |-> daemon.seq]
    BY <2>2, <2>3 DEF IInv, Positions, CursorStands
  <2>5. client.view.version = daemon.version \/ client.view.told
    BY <1>1, <2>4 DEF Chained
  <2>6. QED  BY <2>4, <2>5
<1>4. QED  BY <1>1, <1>2, <1>3, ShapedIsTyped, PositionsFollow DEF StreamIsSound, ViewIsTrue

\* Type correctness: the journal and the live queue of listen and append stay within
\* their limits, and every number and cursor within the bounds.
THEOREM TypeCorrect == Spec => []TypeOK
<1>1. IInv => TypeOK
  BY ShapedIsTyped DEF IInv
<1>2. QED  BY <1>1, Invariant, PTL

\* For any limits, and any number of events, daemon lifetimes, drops and missed
\* changes: no client meets a gap in what it is sent (receive of remote/replay.ts),
\* and the daemon accepts every acknowledgement (onMessage of server/attachments.ts).
THEOREM PositionsHold == Spec => []PositionsAgree
<1>1. IInv => PositionsAgree
  BY PositionsFollow
<1>2. QED  BY <1>1, Invariant, PTL

\* As long as at most one change was missed, the client's view is one that the
\* workspace had, its events follow each other, and when nothing is on its way it
\* shows the workspace as it is or has been told that it does not.
THEOREM SoundUntilMissed == Spec => [](misses <= 1 => StreamIsSound)
<1>1. IInv => (misses <= 1 => StreamIsSound)
  BY SoundFollows
<1>2. QED  BY <1>1, Invariant, PTL

\* The same for a capture that misses at most one change in all: every state is sound.
THEOREM StreamSound ==
  ASSUME MaxMisses <= 1
  PROVE  Spec => []StreamIsSound
<1>1. IInv => StreamIsSound
  <2>1. IInv => misses <= 1
    BY LimitsAssumption DEF IInv, Shaped
  <2>2. QED  BY <2>1, SoundFollows
<1>2. QED  BY <1>1, Invariant, PTL
=============================================================================
