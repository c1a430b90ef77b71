--------------------------- MODULE ModelProxyProofs ---------------------------
(***************************************************************************)
(* Proofs about ModelProxy for any calls, links and events of an answer.   *)
(* The argument: a call is opened at most once on a link, and on a link it *)
(* serves no frame is missing between what the proxy received and what the *)
(* broker sent; so cursors never contradict each other, and what the       *)
(* caller reads is the answer of the one request that was made.            *)
(***************************************************************************)
EXTENDS ModelProxy, FiniteSetTheorems, SequenceTheorems, TLAPS

Frames == [call : Calls, seq : Nat, kind : {"delta", "end", "failure"}]
Messages == [kind : {"ack", "cancel"}, call : Calls, seq : Nat]
CallRecords ==
  [phase : {"none", "gate", "woken", "opening", "open", "over"}, timer : BOOLEAN, given : Nat, peer : Nat,
   admitted : BOOLEAN, attempted : BOOLEAN, aborted : BOOLEAN, terminal : BOOLEAN,
   error : BOOLEAN, applied : Nat, received : Nat, queue : Seq(Frames),
   reader : {"idle", "applying", "ended"}, how : {"no", "normal", "failed"}]
Cancellations == [at : Nat, lapsed : Nat]
Opens == [after : Nat, resume : BOOLEAN, sent : BOOLEAN, cancel : BOOLEAN]
Entries ==
  [state : {"new", "live", "gone"}, n : Nat, term : {"no", "end", "failure"}, ack : Nat,
   sent : Nat, to : Nat, pump : [link : Nat, seq : Nat]]

\* The shape of the state, which TypeOK leaves open in part.
Shaped ==
  /\ call \in [Calls -> CallRecords] /\ cancelled \in [Calls -> Cancellations]
  /\ latched \in BOOLEAN /\ ready \in BOOLEAN
  /\ links \in 0..MaxLinks /\ ends \subseteq 1..links
  /\ bulk \in [Calls -> Opens] /\ urgent \in Seq(Messages)
  /\ frames \in [Links -> Seq(Frames)]
  /\ replies \in [Links -> [Calls -> {"none", "accepted", "rejected"}]]
  /\ entry \in [Calls -> Entries] /\ ran \in [Calls -> Nat]

\* Each end holds the link made last, if any; the proxy's has not ended.
LinksAgree ==
  /\ peer \in {0, links} /\ (peer # 0 => peer \in ends) /\ (ready => peer # 0)
  /\ active \in {0, links}
  /\ \A c \in Calls :
       /\ cancelled[c].at \in 0 .. links + 1 /\ cancelled[c].lapsed \in 0 .. links + 1
       /\ entry[c].to \in {0, active} /\ call[c].peer <= links

\* Where the call object is, and the link it waits for.
PhaseAgrees(r) ==
  /\ r.phase = "none" => r = NewCall
  /\ r.given # 0 <=> r.phase = "woken"
  /\ r.given <= links /\ (r.phase = "woken" => r.peer < r.given)
  /\ r.phase \in {"gate", "woken"} => r.peer \notin ends
  /\ r.reader = "ended" => r.phase = "over" /\ r.terminal
  /\ r.reader # "ended" => r.how = "no" /\ (r.terminal => r.error)
  /\ r.reader = "applying" => r.queue # <<>> /\ Head(r.queue).kind # "failure"
PhasesAgree == \A c \in Calls : PhaseAgrees(call[c])

\* What was never asked for was never run.
FirstIsFirst == \A c \in Calls :
  /\ ran[c] <= 1 /\ (entry[c].state = "live" => ran[c] = 1)
  /\ ran[c] = 0 => /\ entry[c].n = 0 /\ entry[c].term = "no" /\ call[c].applied = 0
  /\ (~call[c].attempted /\ call[c].reader # "ended") =>
       /\ ran[c] = 0 /\ entry[c] = NewEntry /\ ~bulk[c].sent
  /\ (bulk[c].sent /\ ~bulk[c].resume) => ran[c] = 0 /\ entry[c] = NewEntry

\* f is a frame of the answer that e has so far.
IsOf(f, e) ==
  /\ f.seq \in 1 .. e.n
  /\ f.kind = "delta" => f.seq < e.n \/ e.term = "no"
  /\ f.kind # "delta" => f.seq = e.n /\ f.kind = e.term

\* r holds the frames between the one applied and the last received.
BuffersAgree(r, e) ==
  /\ r.applied <= e.n
  /\ r.reader # "ended" =>
       /\ \A i \in DOMAIN r.queue : IsOf(r.queue[i], e) /\ r.queue[i].seq = r.applied + i
       /\ r.received = r.applied + Len(r.queue) /\ r.received <= e.n

AnswersAgree ==
  /\ \A c \in Calls :
       /\ entry[c].n <= MaxEvents /\ (entry[c].term = "no" => entry[c].n < MaxEvents)
       /\ BuffersAgree(call[c], entry[c])
  /\ \A k \in Links : \A i \in DOMAIN frames[k] : IsOf(frames[k][i], entry[frames[k][i].call])

\* A call is on a link only once it was opened there, and is opened there once.
OpenedOnce == \A c \in Calls :
  /\ \A k \in Links :
       /\ (\E i \in DOMAIN frames[k] : frames[k][i].call = c) => k <= call[c].peer
       /\ replies[k][c] # "none" => k <= call[c].peer
  /\ entry[c].to <= call[c].peer /\ entry[c].pump.link <= call[c].peer
  /\ bulk[c].sent =>
       /\ call[c].peer = active /\ active # 0 /\ ~call[c].admitted
       /\ entry[c].to = 0 /\ entry[c].pump.link # active /\ replies[active][c] = "none"
       /\ \A i \in DOMAIN frames[active] : frames[active][i].call # c
       /\ active \in ends => call[c].phase = "opening" \/ bulk[c].cancel

\* Nothing is missing on the link that serves a call.
InFlight(c, n) == \E i \in DOMAIN frames[call[c].peer] :
  frames[call[c].peer][i].call = c /\ frames[call[c].peer][i].seq = n
Reached(c, n) == n <= call[c].received \/ InFlight(c, n)
NoGap(c) ==
  \A i \in DOMAIN frames[call[c].peer] :
    (frames[call[c].peer][i].call = c /\ frames[call[c].peer][i].seq > call[c].received + 1) =>
      \E j \in 1 .. i - 1 : /\ frames[call[c].peer][j].call = c
                           /\ frames[call[c].peer][j].seq = frames[call[c].peer][i].seq - 1
NothingMissing == \A c \in Calls :
  (call[c].peer \in ends /\ ~call[c].terminal) =>
    /\ NoGap(c)
    /\ entry[c].to = call[c].peer => Reached(c, entry[c].sent)
    /\ (entry[c].to = call[c].peer /\ entry[c].pump.link = entry[c].to) => Reached(c, entry[c].pump.seq)

\* The broker's cursor is behind every acknowledgement under way, and they rise.
AcksRise == \A c \in Calls :
  /\ entry[c].ack <= call[c].applied
  /\ \A i \in DOMAIN urgent : (urgent[i].kind = "ack" /\ urgent[i].call = c) =>
       /\ entry[c].ack <= urgent[i].seq /\ urgent[i].seq <= call[c].applied
       /\ ~bulk[c].sent /\ call[c].peer = active /\ active # 0
       /\ \A j \in 1 .. i : (urgent[j].kind = "ack" /\ urgent[j].call = c) => urgent[j].seq <= urgent[i].seq
  /\ bulk[c].sent => entry[c].ack <= bulk[c].after /\ bulk[c].after <= call[c].applied

\* Who is told to stop a call that was given up.
IsStopped(c) ==
  /\ (bulk[c].sent \/ entry[c].state = "live") => cancelled[c].at # 0
  /\ (entry[c].state = "live" /\ peer # 0 /\ active = peer) =>
       \/ \E i \in DOMAIN urgent : urgent[i].kind = "cancel" /\ urgent[i].call = c
       \/ bulk[c].sent
       \/ GivenUpBeforeOpen(c) \/ LapsedBefore(c)
StopIsComing == \A c \in Calls :
  (call[c].reader = "ended" /\ entry[c].term = "no") => IsStopped(c)

IInv ==
  /\ Shaped /\ LinksAgree /\ PhasesAgree /\ FirstIsFirst /\ AnswersAgree /\ OpenedOnce
  /\ NothingMissing /\ AcksRise /\ StopIsComing

-----------------------------------------------------------------------------
LEMMA Constants ==
  /\ IsFiniteSet(Calls) /\ MaxLinks \in Nat /\ MaxEvents \in Nat \ {0} /\ MaxQueue \in Nat
  /\ Links = 1..MaxLinks
  BY ProxyAssumption DEF Links

LEMMA NewCallIsCall == NewCall \in CallRecords
  BY DEF NewCall, CallRecords

LEMMA NewEntryIsEntry == NewEntry \in Entries
  BY DEF NewEntry, NoPump, Entries

\* What gate.wait and a failure leave alone.
Keeps(r, s) ==
  /\ s.applied = r.applied /\ s.received = r.received /\ s.queue = r.queue /\ s.reader = r.reader
  /\ s.how = r.how /\ s.peer = r.peer /\ s.attempted = r.attempted /\ s.admitted = r.admitted

LEMMA GatedFacts ==
  ASSUME NEW r \in CallRecords, NEW g \in Nat, NEW t \in BOOLEAN
  PROVE  /\ Gated(r, g, t) \in CallRecords /\ Keeps(r, Gated(r, g, t))
         /\ Gated(r, g, t).terminal = r.terminal /\ Gated(r, g, t).error = r.error
         /\ Gated(r, g, t).phase = IF r.terminal THEN "over" ELSE IF g # 0 THEN "woken" ELSE "gate"
         /\ Gated(r, g, t).given = IF ~r.terminal /\ g # 0 THEN g ELSE r.given
  <1> DEFINE x == Gated(r, g, t)
  <1>1. CASE r.terminal
    <2>1. x = [r EXCEPT !.phase = "over"] BY <1>1 DEF Gated
    <2> HIDE DEF x
    <2>2. x \in CallRecords BY <2>1 DEF CallRecords
    <2> QED BY <1>1, <2>1, <2>2 DEF CallRecords, Keeps, x
  <1>2. CASE ~r.terminal /\ g # 0
    <2>1. x = [r EXCEPT !.phase = "woken", !.timer = FALSE, !.given = g]
      BY <1>2 DEF Gated
    <2> HIDE DEF x
    <2>2. x \in CallRecords BY <2>1 DEF CallRecords
    <2> QED BY <1>2, <2>1, <2>2 DEF CallRecords, Keeps, x
  <1>3. CASE ~r.terminal /\ g = 0
    <2>1. x = [r EXCEPT !.phase = "gate", !.timer = t]
      BY <1>3 DEF Gated
    <2> HIDE DEF x
    <2>2. x \in CallRecords BY <2>1 DEF CallRecords
    <2> QED BY <1>3, <2>1, <2>2 DEF CallRecords, Keeps, x
  <1> QED BY <1>1, <1>2, <1>3 DEF CallRecords

\* Where there is a link, the timer does not matter.
LEMMA WokenFacts ==
  ASSUME NEW r \in CallRecords, NEW g \in Nat, g # 0
  PROVE  LET x == Gated(r, g, FALSE) IN
         /\ x \in CallRecords /\ Keeps(r, x) /\ x.terminal = r.terminal /\ x.error = r.error
         /\ x.phase = IF r.terminal THEN "over" ELSE "woken"
         /\ x.given = IF ~r.terminal THEN g ELSE r.given
  <1>1. PICK t \in BOOLEAN : TRUE
    BY Zenon
  <1> DEFINE x == Gated(r, g, t)
  <1>2. Gated(r, g, FALSE) = x
    BY DEF Gated
  <1>3. /\ x \in CallRecords /\ Keeps(r, x) /\ x.terminal = r.terminal /\ x.error = r.error
        /\ x.phase = IF r.terminal THEN "over" ELSE "woken"
        /\ x.given = IF ~r.terminal THEN g ELSE r.given
    BY GatedFacts
  <1> HIDE DEF x
  <1> QED BY <1>2, <1>3, Zenon

LEMMA FailedFacts ==
  ASSUME NEW r \in CallRecords
  PROVE  /\ Failed(r) \in CallRecords /\ Keeps(r, Failed(r)) /\ Failed(r).phase = "over"
         /\ Failed(r).error /\ Failed(r).terminal /\ Failed(r).given = r.given
  BY DEF Failed, CallRecords, Keeps

\* A step that changes only where calls wait.
LEMMA WaitingChanges ==
  ASSUME IInv, UNCHANGED <<cancelled, peer, linkVars, brokerVars>>,
         call' \in [Calls -> CallRecords], latched' \in BOOLEAN, ready' \in BOOLEAN,
         ready' => peer # 0,
         \A c \in Calls :
           /\ Keeps(call[c], call'[c]) /\ (call[c].terminal => call'[c].terminal)
           /\ call[c].phase = "opening" => call'[c].phase = "opening",
         PhasesAgree'
  PROVE  IInv'
  <1> USE DEF IInv, linkVars, brokerVars, Keeps
  <1>1. Shaped' BY DEF Shaped
  <1>2. LinksAgree' BY DEF LinksAgree
  <1>3. FirstIsFirst' BY DEF FirstIsFirst
  <1>4. AnswersAgree' BY DEF AnswersAgree, BuffersAgree
  <1>5. OpenedOnce' BY DEF OpenedOnce
  <1>6. NothingMissing' BY SMTT(30) DEF NothingMissing, NoGap, Reached, InFlight
  <1>7. AcksRise' BY DEF AcksRise
  <1>8. StopIsComing' BY DEF StopIsComing, IsStopped, GivenUpBeforeOpen, LapsedBefore
  <1> QED BY <1>1, <1>2, <1>3, <1>4, <1>5, <1>6, <1>7, <1>8

LEMMA BeginKeeps ==
  ASSUME IInv, NEW c \in Calls, Begin(c)
  PROVE  IInv'
  <1>0. PICK t \in BOOLEAN :
          call' = [call EXCEPT ![c] = IF latched THEN Failed(NewCall) ELSE Gated(NewCall, Gate, t)]
    BY DEF Begin
  <1> DEFINE x == IF latched THEN Failed(NewCall) ELSE Gated(NewCall, Gate, t)
  <1>1. call' = [call EXCEPT ![c] = x] /\ call[c].phase = "none"
        /\ UNCHANGED <<cancelled, latched, peer, ready, linkVars, brokerVars>>
    BY <1>0 DEF Begin
  <1>2. Gate \in Nat /\ (Gate # 0 => Gate = peer /\ Gate = links) /\ links \in Nat /\ Gate <= links
    BY Constants DEF Gate, IInv, LinksAgree, Shaped
  <1>3. call[c] = NewCall /\ NewCall \in CallRecords /\ call \in [Calls -> CallRecords]
    BY <1>1, NewCallIsCall DEF IInv, PhasesAgree, PhaseAgrees, Shaped
  <1>4. /\ x \in CallRecords /\ Keeps(NewCall, x)
        /\ x.phase # "none" /\ (x.phase = "woken" <=> x.given # 0)
        /\ x.given <= links /\ x.given \in Nat /\ (x.terminal => x.error)
    <2>1. NewCall.given = 0 /\ ~NewCall.terminal BY DEF NewCall
    <2>2. CASE latched
      <3>1. x = Failed(NewCall) BY <2>2
      <3> HIDE DEF x
      <3>2. /\ x \in CallRecords /\ Keeps(NewCall, x) /\ x.phase = "over"
            /\ x.error /\ x.terminal /\ x.given = 0
        BY <1>3, <2>1, <3>1, FailedFacts
      <3> QED BY <1>2, <3>2
    <2>3. CASE ~latched
      <3>1. x = Gated(NewCall, Gate, t) BY <2>3
      <3> HIDE DEF x
      <3>2. /\ x \in CallRecords /\ Keeps(NewCall, x) /\ ~x.terminal
            /\ x.phase = IF Gate # 0 THEN "woken" ELSE "gate"
            /\ x.given = IF Gate # 0 THEN Gate ELSE 0
        BY <1>2, <1>3, <2>1, <3>1, GatedFacts
      <3> QED BY <1>2, <3>2
    <2> QED BY <2>2, <2>3
  <1> HIDE DEF x
  <1>5. \A d \in Calls : call'[d] = IF d = c THEN x ELSE call[d]
    BY <1>1, <1>3
  <1>6. /\ x.peer = 0 /\ x.reader = "idle" /\ x.how = "no" /\ ~NewCall.terminal /\ NewCall.phase = "none"
    BY <1>4 DEF Keeps, NewCall
  <1>7. PhasesAgree'
    <2>1. UNCHANGED <<links, ends>> /\ 0 \notin ends BY <1>1 DEF linkVars, IInv, Shaped
    <2> QED BY <1>4, <1>5, <1>6, <2>1 DEF PhasesAgree, PhaseAgrees, IInv
  <1>8. call' \in [Calls -> CallRecords] BY <1>1, <1>3, <1>4
  <1>9. \A d \in Calls :
           /\ Keeps(call[d], call'[d]) /\ (call[d].terminal => call'[d].terminal)
           /\ call[d].phase = "opening" => call'[d].phase = "opening"
    BY <1>3, <1>4, <1>5, <1>6 DEF Keeps
  <1> QED BY <1>1, <1>7, <1>8, <1>9, WaitingChanges DEF IInv, Shaped, LinksAgree

LEMMA GateExpiresKeeps ==
  ASSUME IInv, NEW c \in Calls, GateExpires(c)
  PROVE  IInv'
  <1> DEFINE x == Failed(call[c])
  <1>1. call' = [call EXCEPT ![c] = x] /\ call[c].phase = "gate" /\ latched' = TRUE
        /\ UNCHANGED <<cancelled, peer, ready, linkVars, brokerVars>>
    BY DEF GateExpires
  <1>2. call \in [Calls -> CallRecords] BY DEF IInv, Shaped
  <1>3. /\ x \in CallRecords /\ Keeps(call[c], x) /\ x.phase = "over" /\ x.error /\ x.terminal
        /\ x.given = call[c].given
    BY <1>2, FailedFacts
  <1> HIDE DEF x
  <1>4. call' \in [Calls -> CallRecords] /\ \A d \in Calls : call'[d] = IF d = c THEN x ELSE call[d]
    BY <1>1, <1>2, <1>3
  <1>5. PhasesAgree'
    BY <1>1, <1>3, <1>4 DEF PhasesAgree, PhaseAgrees, IInv, linkVars, Keeps
  <1> QED BY <1>1, <1>3, <1>4, <1>5, WaitingChanges DEF IInv, Shaped, LinksAgree, Keeps

\* A cancellation that is not remembered any more was sent on the link there is.
LEMMA CancellationLapsesKeeps ==
  ASSUME IInv, NEW c \in Calls, CancellationLapses(c)
  PROVE  IInv'
  <1> USE DEF IInv, linkVars, brokerVars
  <1>1. /\ cancelled' = [cancelled EXCEPT ![c].lapsed = 1 + peer] /\ cancelled[c].lapsed = 0
        /\ UNCHANGED <<call, latched, peer, ready, linkVars, brokerVars>>
    BY DEF CancellationLapses, Remembered
  <1>2. cancelled \in [Calls -> Cancellations] /\ peer \in Nat /\ peer <= links /\ links \in Nat
    BY Constants DEF Shaped, LinksAgree
  <1>3. ASSUME NEW z \in Cancellations
        PROVE  LET x == [z EXCEPT !.lapsed = 1 + peer]
               IN  x \in Cancellations /\ x.at = z.at /\ x.lapsed = 1 + peer
    BY <1>2 DEF Cancellations
  <1>4. /\ cancelled' \in [Calls -> Cancellations]
        /\ \A d \in Calls : /\ cancelled'[d].at = cancelled[d].at
                            /\ cancelled'[d].lapsed \in {cancelled[d].lapsed, 1 + peer}
                            /\ d # c => cancelled'[d] = cancelled[d]
    <2> DEFINE x == [cancelled[c] EXCEPT !.lapsed = 1 + peer]
    <2>1. cancelled' = [cancelled EXCEPT ![c] = x] BY <1>1, Zenon
    <2>2. x \in Cancellations /\ x.at = cancelled[c].at /\ x.lapsed = 1 + peer BY <1>2, <1>3
    <2> HIDE DEF x
    <2> QED BY <1>2, <2>1, <2>2
  <1>5. Shaped' BY <1>1, <1>4 DEF Shaped
  <1>6. LinksAgree' BY <1>1, <1>2, <1>4 DEF LinksAgree
  <1>7. PhasesAgree' BY <1>1 DEF PhasesAgree, PhaseAgrees
  <1>8. FirstIsFirst' BY <1>1 DEF FirstIsFirst
  <1>9. AnswersAgree' BY <1>1 DEF AnswersAgree, BuffersAgree
  <1>10. OpenedOnce' BY <1>1 DEF OpenedOnce
  <1>11. NothingMissing' BY <1>1 DEF NothingMissing, NoGap, Reached, InFlight
  <1>12. AcksRise' BY <1>1 DEF AcksRise
  <1>13. StopIsComing'
    <2> SUFFICES ASSUME NEW d \in Calls, call[d].reader = "ended", entry[d].term = "no"
                 PROVE  IsStopped(d)'
      BY <1>1 DEF StopIsComing
    <2>1. IsStopped(d) BY DEF StopIsComing
    <2>2. LapsedBefore(d) => LapsedBefore(d)' BY <1>1, <1>4 DEF LapsedBefore
    <2> QED BY <1>1, <1>4, <2>1, <2>2 DEF IsStopped, GivenUpBeforeOpen
  <1> QED BY <1>5, <1>6, <1>7, <1>8, <1>9, <1>10, <1>11, <1>12, <1>13

LEMMA AdmitKeeps ==
  ASSUME IInv, Admit
  PROVE  IInv'
  <1>1. /\ call' = [c \in Calls |-> IF call[c].phase = "gate" THEN Gated(call[c], peer, FALSE)
                                                       ELSE call[c]]
        /\ peer # 0 /\ ready' = TRUE /\ UNCHANGED <<cancelled, latched, peer, linkVars, brokerVars>>
    BY DEF Admit
  <1>2. /\ call \in [Calls -> CallRecords] /\ peer = links /\ peer \in Nat /\ peer \in ends
        /\ \A c \in Calls : call[c].peer \in Nat /\ call[c].peer <= links
    BY <1>1, Constants DEF IInv, Shaped, LinksAgree, CallRecords
  <1>3. ASSUME NEW c \in Calls, call[c].phase = "gate"
        PROVE  /\ call'[c] \in CallRecords /\ Keeps(call[c], call'[c])
               /\ call'[c].terminal = call[c].terminal /\ call'[c].error = call[c].error
               /\ call'[c].phase = IF call[c].terminal THEN "over" ELSE "woken"
               /\ call'[c].given = IF ~call[c].terminal THEN peer ELSE call[c].given
    <2> DEFINE x == Gated(call[c], peer, FALSE)
    <2>1. call'[c] = x BY <1>1, <1>3
    <2>2. /\ x \in CallRecords /\ Keeps(call[c], x)
          /\ x.terminal = call[c].terminal /\ x.error = call[c].error
          /\ x.phase = IF call[c].terminal THEN "over" ELSE "woken"
          /\ x.given = IF ~call[c].terminal THEN peer ELSE call[c].given
      BY <1>1, <1>2, WokenFacts
    <2> HIDE DEF x
    <2> QED BY <2>1, <2>2
  <1>4. \A c \in Calls : call[c].phase # "gate" => call'[c] = call[c]
    BY <1>1
  <1>5. call' \in [Calls -> CallRecords]
    <2>1. \A c \in Calls : call'[c] \in CallRecords BY <1>2, <1>3, <1>4
    <2> QED BY <1>1, <2>1
  <1>6. \A c \in Calls :
           /\ Keeps(call[c], call'[c]) /\ (call[c].terminal => call'[c].terminal)
           /\ call[c].phase = "opening" => call'[c].phase = "opening"
    BY <1>3, <1>4 DEF Keeps
  <1>7. PhasesAgree'
    <2> SUFFICES ASSUME NEW c \in Calls
        PROVE  /\ call'[c].phase = "none" => call'[c] = NewCall
               /\ call'[c].given # 0 <=> call'[c].phase = "woken"
               /\ call'[c].given <= links' /\ (call'[c].phase = "woken" => call'[c].peer < call'[c].given)
               /\ call'[c].phase \in {"gate", "woken"} => call'[c].peer \notin ends'
               /\ call'[c].reader = "ended" => call'[c].phase = "over" /\ call'[c].terminal
               /\ call'[c].reader # "ended" => call'[c].how = "no" /\ (call'[c].terminal => call'[c].error)
               /\ call'[c].reader = "applying" => call'[c].queue # <<>> /\ Head(call'[c].queue).kind # "failure"
      BY DEF PhasesAgree, PhaseAgrees
    <2>1. UNCHANGED <<links, ends>> BY <1>1 DEF linkVars
    <2>2. CASE call[c].phase # "gate" BY <1>4, <2>1, <2>2 DEF IInv, PhasesAgree, PhaseAgrees
    <2>3. CASE call[c].phase = "gate"
      <3>1. call[c].peer \notin ends /\ call[c].given = 0 /\ call[c].reader # "ended"
        BY <2>3 DEF IInv, PhasesAgree, PhaseAgrees
      <3>2. call[c].peer < peer BY <1>2, <3>1
      <3> QED BY <1>2, <1>3, <2>1, <2>3, <3>1, <3>2 DEF IInv, PhasesAgree, PhaseAgrees, Keeps
    <2> QED BY <2>2, <2>3
  <1> QED BY <1>1, <1>5, <1>6, <1>7, WaitingChanges DEF IInv, Shaped

-----------------------------------------------------------------------------
(* Steps of the broker that open nothing and send nothing                  *)

\* An answer stays as it is or gets its next event.
Grows(e, f) ==
  \/ f.n = e.n /\ f.term = e.term
  \/ /\ e.state = "live" /\ e.term = "no" /\ f.n = e.n + 1 /\ f.n <= MaxEvents
     /\ f.term = "no" => f.n < MaxEvents

\* The broker's cursors move as far as the proxy's can follow.
Moves(e, f) ==
  /\ Grows(e, f) /\ f.to \in {e.to, 0}
  /\ f.state = "live" => e.state = "live"
  /\ e = NewEntry => f = NewEntry
  /\ \/ f.sent = e.sent /\ f.pump = e.pump
     \/ f.pump = NoPump /\ f.sent = e.sent
     \/ f.pump = NoPump /\ e.pump.link = e.to /\ f.sent = e.pump.seq
     \/ f.to = 0 /\ f.pump \in {e.pump, NoPump}
Recedes(e, f) == Moves(e, f) /\ f.ack <= e.ack

LEMMA GrowingKeeps ==
  ASSUME NEW e \in Entries, NEW f \in Entries, Grows(e, f), NEW m \in Frames, IsOf(m, e)
  PROVE  IsOf(m, f)
  BY DEF Entries, Frames, Grows, IsOf

LEMMA MessagesAreMessages ==
  ASSUME IInv, NEW i \in DOMAIN urgent
  PROVE  urgent[i] \in Messages
  <1>1. urgent \in Seq(Messages) BY DEF IInv, Shaped
  <1> QED BY <1>1

LEMMA FramesAreFrames ==
  ASSUME IInv, NEW k \in Links, NEW i \in DOMAIN frames[k]
  PROVE  frames[k][i] \in Frames
  <1>1. frames[k] \in Seq(Frames) BY DEF IInv, Shaped
  <1> QED BY <1>1

LEMMA EntriesMove ==
  ASSUME IInv, UNCHANGED <<proxyVars, links, ends, frames, replies, ran>>,
         entry' \in [Calls -> Entries], \A c \in Calls : Moves(entry[c], entry'[c]),
         urgent' \in Seq(Messages), bulk' \in [Calls -> Opens],
         \/ active' = active /\ bulk' = bulk
         \/ active' = 0 /\ \A c \in Calls : ~bulk'[c].sent /\ entry'[c].to = 0
  PROVE  /\ Shaped' /\ LinksAgree' /\ PhasesAgree' /\ FirstIsFirst' /\ AnswersAgree'
         /\ OpenedOnce' /\ NothingMissing'
  <1> USE DEF IInv, proxyVars
  <1>1. Shaped' BY DEF Shaped
  <1>2. LinksAgree' BY DEF LinksAgree, Moves
  <1>3. PhasesAgree' BY DEF PhasesAgree, PhaseAgrees
  <1>4. FirstIsFirst'
    <2> SUFFICES ASSUME NEW c \in Calls
        PROVE  /\ ran[c] <= 1 /\ (entry'[c].state = "live" => ran[c] = 1)
               /\ ran[c] = 0 => /\ entry'[c].n = 0 /\ entry'[c].term = "no" /\ call[c].applied = 0
               /\ (~call[c].attempted /\ call[c].reader # "ended") =>
                    /\ ran[c] = 0 /\ entry'[c] = NewEntry /\ ~bulk'[c].sent
               /\ (bulk'[c].sent /\ ~bulk'[c].resume) => ran[c] = 0 /\ entry'[c] = NewEntry
      BY DEF FirstIsFirst
    <2> QED BY DEF FirstIsFirst, Moves, Grows
  <1>5. AnswersAgree'
    <2>1. ASSUME NEW c \in Calls, NEW m \in Frames, IsOf(m, entry[c]) PROVE IsOf(m, entry'[c])
      <3>1. entry[c] \in Entries /\ entry'[c] \in Entries /\ Grows(entry[c], entry'[c])
        BY DEF Shaped, Moves
      <3> QED BY <2>1, <3>1, GrowingKeeps
    <2>2. ASSUME NEW c \in Calls
          PROVE  /\ entry'[c].n <= MaxEvents /\ (entry'[c].term = "no" => entry'[c].n < MaxEvents)
                 /\ entry[c].n \in Nat /\ entry'[c].n \in Nat /\ entry[c].n <= entry'[c].n
                 /\ call[c].applied \in Nat /\ call[c].received \in Nat /\ call[c].queue \in Seq(Frames)
      <3>1. /\ entry[c].n \in Nat /\ entry'[c].n \in Nat
            /\ call[c].applied \in Nat /\ call[c].received \in Nat /\ call[c].queue \in Seq(Frames)
        BY DEF Shaped, Entries, CallRecords
      <3>2. entry[c].n <= MaxEvents /\ (entry[c].term = "no" => entry[c].n < MaxEvents)
        BY DEF AnswersAgree, BuffersAgree
      <3>3. Grows(entry[c], entry'[c]) BY DEF Moves
      <3> QED BY <3>1, <3>2, <3>3, Constants DEF Grows
    <2>3. ASSUME NEW c \in Calls, NEW i \in DOMAIN call[c].queue, call[c].reader # "ended"
          PROVE  IsOf(call[c].queue[i], entry'[c])
      <3>1. call[c].queue[i] \in Frames BY <2>2, <2>3
      <3> QED BY <2>1, <2>3, <3>1 DEF AnswersAgree, BuffersAgree
    <2>4. ASSUME NEW k \in Links, NEW i \in DOMAIN frames[k]
          PROVE  IsOf(frames[k][i], entry'[frames[k][i].call])
      <3>1. frames[k][i] \in Frames BY <2>4, FramesAreFrames
      <3>2. frames[k][i].call \in Calls BY <3>1 DEF Frames
      <3> QED BY <2>1, <3>1, <3>2 DEF AnswersAgree, BuffersAgree
    <2> QED BY <2>2, <2>3, <2>4 DEF AnswersAgree, BuffersAgree
  <1>6. OpenedOnce'
    <2> SUFFICES ASSUME NEW c \in Calls
        PROVE  /\ \A k \in Links :
                    /\ (\E i \in DOMAIN frames[k] : frames[k][i].call = c) => k <= call[c].peer
                    /\ replies[k][c] # "none" => k <= call[c].peer
               /\ entry'[c].to <= call[c].peer /\ entry'[c].pump.link <= call[c].peer
               /\ bulk'[c].sent =>
                    /\ call[c].peer = active' /\ active' # 0 /\ ~call[c].admitted
                    /\ entry'[c].to = 0 /\ entry'[c].pump.link # active' /\ replies[active'][c] = "none"
                    /\ \A i \in DOMAIN frames[active'] : frames[active'][i].call # c
                    /\ active' \in ends => call[c].phase = "opening" \/ bulk'[c].cancel
      BY DEF OpenedOnce
    <2>1. /\ call[c].peer \in Nat /\ entry[c].to <= call[c].peer /\ entry[c].pump.link <= call[c].peer
      BY DEF OpenedOnce, Shaped, CallRecords
    <2>2. /\ entry'[c].to <= call[c].peer /\ entry'[c].pump.link <= call[c].peer
          /\ entry'[c].pump.link \in {entry[c].pump.link, 0}
      BY <2>1 DEF Moves, NoPump
    <2>3. /\ \A k \in Links :
                    /\ (\E i \in DOMAIN frames[k] : frames[k][i].call = c) => k <= call[c].peer
                    /\ replies[k][c] # "none" => k <= call[c].peer
      BY DEF OpenedOnce
    <2>4. ASSUME bulk'[c].sent
          PROVE     /\ call[c].peer = active' /\ active' # 0 /\ ~call[c].admitted
                    /\ entry'[c].to = 0 /\ entry'[c].pump.link # active' /\ replies[active'][c] = "none"
                    /\ \A i \in DOMAIN frames[active'] : frames[active'][i].call # c
                    /\ active' \in ends => call[c].phase = "opening" \/ bulk'[c].cancel
      <3>1. active' = active /\ bulk' = bulk BY <2>4
      <3>2. entry'[c].to = 0 BY <2>4, <3>1 DEF OpenedOnce, Moves
      <3> QED BY <2>2, <2>4, <3>1, <3>2 DEF OpenedOnce
    <2> QED BY <2>2, <2>3, <2>4
  <1>7. NothingMissing'
    <2>1. ASSUME NEW c \in Calls, NEW n \in Nat
          PROVE  /\ NoGap(c)' <=> NoGap(c)
                 /\ Reached(c, n)' <=> Reached(c, n)
      BY DEF NoGap, Reached, InFlight
    <2>2. ASSUME NEW c \in Calls, call[c].peer \in ends, ~call[c].terminal
          PROVE  /\ entry'[c].to = call[c].peer => Reached(c, entry'[c].sent)
                 /\ (entry'[c].to = call[c].peer /\ entry'[c].pump.link = entry'[c].to) =>
                      Reached(c, entry'[c].pump.seq)
      <3>1. call[c].peer # 0 BY <2>2 DEF Shaped
      <3>2. entry'[c].to = call[c].peer => entry[c].to = call[c].peer
        BY <3>1 DEF Moves
      <3> QED BY <2>2, <3>1, <3>2 DEF NothingMissing, Moves, NoPump
    <2>3. \A c \in Calls : entry'[c].sent \in Nat /\ entry'[c].pump.seq \in Nat
      BY DEF Entries
    <2>4. ASSUME NEW c \in Calls
          PROVE  /\ Reached(c, entry'[c].sent) => Reached(c, entry[c].sent)'
                 /\ Reached(c, entry'[c].pump.seq) => Reached(c, entry[c].pump.seq)'
      BY DEF Reached, InFlight
    <2> QED BY <2>1, <2>2, <2>3, <2>4 DEF NothingMissing
  <1> QED BY <1>1, <1>2, <1>3, <1>4, <1>5, <1>6, <1>7

\* ... when nothing else happens.
LEMMA OnlyEntriesRecede ==
  ASSUME IInv, UNCHANGED <<proxyVars, linkVars, active, ran>>,
         entry' \in [Calls -> Entries], \A c \in Calls : Recedes(entry[c], entry'[c])
  PROVE  IInv'
  <1> USE DEF linkVars
  <1>1. /\ Shaped' /\ LinksAgree' /\ PhasesAgree' /\ FirstIsFirst' /\ AnswersAgree'
        /\ OpenedOnce' /\ NothingMissing'
    BY EntriesMove DEF IInv, Shaped, Recedes
  <1>2. \A c \in Calls : /\ entry'[c].ack \in Nat /\ entry[c].ack \in Nat /\ entry'[c].ack <= entry[c].ack
                         /\ call[c].applied \in Nat /\ bulk[c].after \in Nat
    BY DEF IInv, Shaped, Entries, Recedes, CallRecords, Opens
  <1>3. \A i \in DOMAIN urgent : urgent[i].seq \in Nat
    BY MessagesAreMessages DEF Messages
  <1>4. AcksRise'
    BY <1>2, <1>3 DEF IInv, AcksRise, proxyVars
  <1>5. StopIsComing'
    BY DEF IInv, StopIsComing, IsStopped, GivenUpBeforeOpen, LapsedBefore, proxyVars, Recedes, Moves, Grows
  <1> QED BY <1>1, <1>4, <1>5 DEF IInv

LEMMA EmitKeeps ==
  ASSUME IInv, NEW c \in Calls, Emit(c)
  PROVE  IInv'
  <1>1. PICK t \in {"no", "end", "failure"} :
          /\ t = "no" => entry[c].n + 1 < MaxEvents
          /\ entry' = [entry EXCEPT ![c].n = @ + 1, ![c].term = t]
    BY DEF Emit
  <1>2. /\ entry[c].state = "live" /\ entry[c].term = "no"
        /\ UNCHANGED <<proxyVars, linkVars, active, ran>>
        /\ entry \in [Calls -> Entries] /\ entry[c].n \in Nat /\ entry[c].n < MaxEvents
    BY DEF Emit, IInv, Shaped, AnswersAgree, BuffersAgree, Entries
  <1> DEFINE x == [entry[c] EXCEPT !.n = entry[c].n + 1, !.term = t]
  <1>3. entry' = [entry EXCEPT ![c] = x]
    BY <1>1, <1>2
  <1>4. ASSUME NEW e \in Entries, e.state = "live", e.term = "no", e.n < MaxEvents,
               t = "no" => e.n + 1 < MaxEvents
        PROVE  LET y == [e EXCEPT !.n = e.n + 1, !.term = t] IN y \in Entries /\ Recedes(e, y)
    <2> DEFINE y == [e EXCEPT !.n = e.n + 1, !.term = t]
    <2>1. e.n \in Nat /\ e.n + 1 \in Nat /\ e.n + 1 <= MaxEvents BY <1>4, Constants DEF Entries
    <2>2. y \in Entries BY <2>1 DEF Entries
    <2>3. /\ y.state = e.state /\ y.n = e.n + 1 /\ y.term = t /\ y.ack = e.ack /\ y.sent = e.sent
          /\ y.to = e.to /\ y.pump = e.pump
      BY DEF Entries
    <2>4. e # NewEntry /\ e.ack <= e.ack BY <1>4 DEF Entries, NewEntry
    <2> HIDE DEF y
    <2>5. Recedes(e, y) BY <1>4, <2>1, <2>3, <2>4 DEF Recedes, Moves, Grows
    <2> QED BY <2>2, <2>5 DEF y
  <1>5. x \in Entries /\ Recedes(entry[c], x)
    BY <1>1, <1>2, <1>4
  <1> HIDE DEF x
  <1>6. \A d \in Calls : d # c => Recedes(entry[d], entry[d])
    BY <1>2 DEF Recedes, Moves, Grows, Entries
  <1> QED BY <1>2, <1>3, <1>5, <1>6, OnlyEntriesRecede

LEMMA ForgetKeeps ==
  ASSUME IInv, NEW c \in Calls, Forget(c)
  PROVE  IInv'
  <1> DEFINE x == [entry[c] EXCEPT !.state = "gone"]
  <1>1. /\ entry[c].state = "live" /\ UNCHANGED <<proxyVars, linkVars, active, ran>>
        /\ entry' = [entry EXCEPT ![c] = x] /\ entry \in [Calls -> Entries]
    BY DEF Forget, IInv, Shaped
  <1>2. x \in Entries /\ Recedes(entry[c], x)
    BY <1>1 DEF Recedes, Moves, Grows, Entries, NewEntry
  <1> HIDE DEF x
  <1>3. \A d \in Calls : d # c => Recedes(entry[d], entry[d])
    BY <1>1 DEF Recedes, Moves, Grows, Entries
  <1> QED BY <1>1, <1>2, <1>3, OnlyEntriesRecede

LEMMA PumpedKeeps ==
  ASSUME IInv, NEW c \in Calls, Pumped(c)
  PROVE  IInv'
  <1> DEFINE x == [entry[c] EXCEPT !.sent = Written(entry[c]), !.pump = NoPump]
  <1>1. /\ entry[c].pump # NoPump /\ UNCHANGED <<proxyVars, linkVars, active, ran>>
        /\ entry' = [entry EXCEPT ![c] = x] /\ entry \in [Calls -> Entries]
    BY DEF Pumped, IInv, Shaped
  <1>2. Written(entry[c]) \in Nat /\ NoPump \in [link : Nat, seq : Nat]
    BY <1>1 DEF Written, Entries, NoPump
  <1>3. x \in Entries
    BY <1>1, <1>2 DEF Entries
  <1>4. Recedes(entry[c], x)
    BY <1>1, <1>2 DEF Recedes, Moves, Grows, Entries, NewEntry, Written
  <1> HIDE DEF x
  <1>5. \A d \in Calls : d # c => Recedes(entry[d], entry[d])
    BY <1>1 DEF Recedes, Moves, Grows, Entries
  <1> QED BY <1>1, <1>3, <1>4, <1>5, OnlyEntriesRecede

\* The broker loses its link, and perhaps its process.
LEMMA BrokerLosesKeeps ==
  ASSUME IInv, UNCHANGED <<proxyVars, links, ends, frames, replies, ran>>,
         entry' \in [Calls -> Entries], \A c \in Calls : Recedes(entry[c], entry'[c]) /\ entry'[c].to = 0,
         active' = 0, bulk' = [c \in Calls |-> NoOpen], urgent' = <<>>
  PROVE  IInv'
  <1>1. bulk' \in [Calls -> Opens] /\ urgent' \in Seq(Messages) /\ \A c \in Calls : ~bulk'[c].sent
    BY DEF NoOpen, Opens
  <1>2. /\ Shaped' /\ LinksAgree' /\ PhasesAgree' /\ FirstIsFirst' /\ AnswersAgree'
        /\ OpenedOnce' /\ NothingMissing'
    BY <1>1, EntriesMove DEF Recedes
  <1>3. \A c \in Calls : /\ entry'[c].ack \in Nat /\ entry[c].ack \in Nat /\ entry'[c].ack <= entry[c].ack
                         /\ call[c].applied \in Nat
    BY DEF IInv, Shaped, Entries, Recedes, CallRecords
  <1>4. AcksRise'
    BY <1>1, <1>3 DEF IInv, AcksRise, proxyVars
  <1>5. StopIsComing'
    BY <1>1 DEF IInv, StopIsComing, IsStopped, GivenUpBeforeOpen, LapsedBefore, proxyVars, Recedes, Moves, Grows
  <1> QED BY <1>2, <1>4, <1>5 DEF IInv

LEMMA BrokerClosesKeeps ==
  ASSUME IInv, BrokerCloses \/ Restart
  PROVE  IInv'
  <1>1. /\ UNCHANGED <<proxyVars, links, ends, frames, replies, ran>>
        /\ active' = 0 /\ bulk' = [c \in Calls |-> NoOpen] /\ urgent' = <<>>
    BY DEF BrokerCloses, Restart
  <1>2. ASSUME NEW e \in Entries
        PROVE  LET x == [e EXCEPT !.to = 0] IN x \in Entries /\ Recedes(e, x) /\ x.to = 0
    BY DEF Recedes, Moves, Grows, Entries, NewEntry
  <1>3. ASSUME NEW e \in Entries
        PROVE  LET x == [NewEntry EXCEPT !.n = e.n, !.term = e.term]
               IN x \in Entries /\ Recedes(e, x) /\ x.to = 0
    <2> DEFINE x == [NewEntry EXCEPT !.n = e.n, !.term = e.term]
    <2>2. x \in Entries BY NewEntryIsEntry DEF Entries
    <2>1. /\ x.state = "new" /\ x.n = e.n /\ x.term = e.term /\ x.ack = 0 /\ x.sent = 0 /\ x.to = 0
          /\ x.pump = NoPump
      BY DEF NewEntry
    <2>4. e = NewEntry => x = NewEntry BY DEF NewEntry
    <2> HIDE DEF x
    <2>3. Recedes(e, x) BY <2>1, <2>4 DEF Recedes, Moves, Grows, Entries
    <2> QED BY <2>1, <2>2, <2>3 DEF x
  <1>4. entry \in [Calls -> Entries] BY DEF IInv, Shaped
  <1>5. entry' \in [Calls -> Entries] /\ \A c \in Calls : Recedes(entry[c], entry'[c]) /\ entry'[c].to = 0
    <2>1. CASE BrokerCloses BY <1>2, <1>4, <2>1 DEF BrokerCloses, Detached
    <2>2. CASE Restart BY <1>3, <1>4, <2>2 DEF Restart
    <2> QED BY <2>1, <2>2
  <1> QED BY <1>1, <1>5, BrokerLosesKeeps

\* What one side does to the frames of a link leaves the others alone.
LEMMA LinkIsLink ==
  ASSUME IInv
  PROVE  /\ links \in Nat /\ ends \subseteq Links /\ 0 \notin ends
         /\ active \in Nat /\ peer \in Nat /\ (active # 0 => active \in Links /\ active = links)
         /\ \A c \in Calls : /\ call[c].peer \in Nat /\ call[c].peer <= links /\ call[c].given \in Nat
                             /\ entry[c].to \in Nat /\ (entry[c].to # 0 => entry[c].to = active)
  <1>1. links \in Nat /\ links <= MaxLinks /\ ends \subseteq 1..links
    BY Constants DEF IInv, Shaped
  <1>2. active \in {0, links} /\ peer \in {0, links}
    BY DEF IInv, LinksAgree
  <1>3. \A c \in Calls : call[c] \in CallRecords /\ entry[c] \in Entries
    BY DEF IInv, Shaped
  <1>4. \A c \in Calls : entry[c].to \in {0, active} /\ call[c].peer <= links
    BY DEF IInv, LinksAgree
  <1> QED BY <1>1, <1>2, <1>3, <1>4, Constants DEF CallRecords, Entries

LEMMA CallFacts ==
  ASSUME IInv, NEW c \in Calls
  PROVE  /\ call[c] \in CallRecords /\ call[c].applied \in Nat /\ call[c].received \in Nat
         /\ call[c].queue \in Seq(Frames) /\ call[c].applied <= entry[c].n
         /\ entry[c] \in Entries /\ entry[c].n \in Nat /\ entry[c].ack \in Nat /\ entry[c].sent \in Nat
         /\ entry[c].ack <= call[c].applied
         /\ entry[c].pump.link \in Nat /\ entry[c].pump.seq \in Nat
         /\ call[c].reader # "ended" => call[c].applied <= call[c].received
  <1>1. /\ call[c] \in CallRecords /\ call[c].applied \in Nat /\ call[c].received \in Nat
        /\ call[c].queue \in Seq(Frames)
    BY DEF IInv, Shaped, CallRecords
  <1>2. /\ entry[c] \in Entries /\ entry[c].n \in Nat /\ entry[c].ack \in Nat /\ entry[c].sent \in Nat
        /\ entry[c].pump.link \in Nat /\ entry[c].pump.seq \in Nat
    BY DEF IInv, Shaped, Entries
  <1>3. BuffersAgree(call[c], entry[c]) /\ entry[c].ack <= call[c].applied
    BY DEF IInv, AnswersAgree, AcksRise
  <1> QED BY <1>1, <1>2, <1>3 DEF BuffersAgree

-----------------------------------------------------------------------------
(* The broker sends a frame.                                               *)

LEMMA PumpKeeps ==
  ASSUME IInv, NEW c \in Calls, Pump(c)
  PROVE  IInv'
  <1> DEFINE e == entry[c]
             next == (IF e.sent > e.ack THEN e.sent ELSE e.ack) + 1
             frame == [call |-> c, seq |-> next,
                       kind |-> IF next < e.n \/ e.term = "no" THEN "delta" ELSE e.term]
             x == [e EXCEPT !.pump = [link |-> e.to, seq |-> next]]
  <1>1. /\ e.to # 0 /\ e.pump = NoPump /\ next <= e.n
        /\ entry' = [entry EXCEPT ![c] = x]
        /\ frames' = IF e.to \in ends THEN [frames EXCEPT ![e.to] = Append(@, frame)] ELSE frames
        /\ UNCHANGED <<proxyVars, links, ends, bulk, urgent, replies, active, ran, restarts>>
    BY DEF Pump
  <1>2. e \in Entries /\ e.sent \in Nat /\ e.ack \in Nat /\ e.n \in Nat /\ e.to \in Nat
    BY CallFacts, LinkIsLink
  <1>3. /\ next \in Nat /\ 1 <= next /\ e.ack < next /\ e.sent < next
        /\ next - 1 > e.ack => next - 1 = e.sent
    BY <1>2
  <1>4. frame \in Frames /\ IsOf(frame, e)
    BY <1>1, <1>2, <1>3 DEF Frames, IsOf, Entries
  <1>5. frame.call = c /\ frame.seq = next
    OBVIOUS
  <1>6. /\ x \in Entries /\ x.state = e.state /\ x.n = e.n /\ x.term = e.term /\ x.ack = e.ack
        /\ x.sent = e.sent /\ x.to = e.to /\ x.pump.link = e.to /\ x.pump.seq = next
    BY <1>2, <1>3 DEF Entries
  <1>7. e.to \in Links /\ e.to = active /\ e.to = links
    BY <1>1, LinkIsLink
  <1> HIDE DEF e, next, frame, x
  <1>8. \A d \in Calls : entry'[d] = IF d = c THEN x ELSE entry[d]
    BY <1>1 DEF IInv, Shaped
  <1>9. \A k \in Links : frames[k] \in Seq(Frames)
    BY DEF IInv, Shaped
  <1>10. \A k \in Links :
           \/ frames'[k] = frames[k]
           \/ k = e.to /\ k \in ends /\ frames'[k] = Append(frames[k], frame)
    BY <1>1 DEF IInv, Shaped
  <1>11. /\ e.to \in ends => frames'[e.to] = Append(frames[e.to], frame)
         /\ frames' \in [Links -> Seq(Frames)]
    BY <1>1, <1>4, <1>7, <1>9 DEF IInv, Shaped
  <1>12. ASSUME NEW k \in Links, NEW i \in DOMAIN frames'[k]
         PROVE  \/ i \in DOMAIN frames[k] /\ frames'[k][i] = frames[k][i]
                \/ i = Len(frames[k]) + 1 /\ frames'[k][i] = frame /\ k = e.to
    BY <1>9, <1>10, <1>12
  <1>13. ASSUME NEW k \in Links, NEW i \in DOMAIN frames[k]
         PROVE  i \in DOMAIN frames'[k] /\ frames'[k][i] = frames[k][i]
    BY <1>9, <1>10, <1>13
  <1>14. Shaped'
    BY <1>1, <1>6, <1>8, <1>11 DEF IInv, Shaped, proxyVars
  <1>15. LinksAgree'
    BY <1>1, <1>6, <1>8 DEF IInv, LinksAgree, proxyVars, e
  <1>16. PhasesAgree'
    BY <1>1 DEF IInv, PhasesAgree, PhaseAgrees, proxyVars
  <1>17. FirstIsFirst'
    <2>1. e # NewEntry BY <1>1 DEF NewEntry
    <2> QED BY <1>1, <1>6, <1>8, <2>1 DEF IInv, FirstIsFirst, proxyVars, e
  <1>18. AnswersAgree'
    <2>1. \A d \in Calls : entry'[d].n = entry[d].n /\ entry'[d].term = entry[d].term
      BY <1>6, <1>8 DEF e
    <2>2. ASSUME NEW m, NEW d \in Calls, IsOf(m, entry[d]) PROVE IsOf(m, entry'[d])
      BY <2>1, <2>2 DEF IsOf
    <2>3. ASSUME NEW d \in Calls PROVE BuffersAgree(call[d], entry'[d])
      BY <2>1, <2>2 DEF IInv, AnswersAgree, BuffersAgree
    <2>4. ASSUME NEW k \in Links, NEW i \in DOMAIN frames'[k]
          PROVE  IsOf(frames'[k][i], entry'[frames'[k][i].call])
      <3>1. CASE i \in DOMAIN frames[k] /\ frames'[k][i] = frames[k][i]
        <4>1. frames[k][i].call \in Calls BY <3>1, FramesAreFrames DEF Frames
        <4> QED BY <2>2, <3>1, <4>1 DEF IInv, AnswersAgree
      <3>2. CASE frames'[k][i] = frame BY <1>4, <1>5, <2>2, <3>2 DEF e
      <3> QED BY <1>12, <2>4, <3>1, <3>2
    <2> QED BY <1>1, <2>1, <2>3, <2>4 DEF IInv, AnswersAgree, proxyVars
  <1>19. ~bulk[c].sent
    BY <1>1 DEF IInv, OpenedOnce, e
  <1>20. OpenedOnce'
    <2>1. e.to <= call[c].peer BY DEF IInv, OpenedOnce, e
    <2>2. ASSUME NEW d \in Calls, NEW k \in Links, NEW i \in DOMAIN frames'[k], frames'[k][i].call = d
          PROVE  k <= call[d].peer
      BY <1>5, <1>12, <2>1, <2>2 DEF IInv, OpenedOnce
    <2>3. ASSUME NEW d \in Calls PROVE entry'[d].to <= call[d].peer /\ entry'[d].pump.link <= call[d].peer
      BY <1>6, <1>8, <2>1 DEF IInv, OpenedOnce
    <2>4. ASSUME NEW d \in Calls, bulk[d].sent, NEW i \in DOMAIN frames'[active]
          PROVE  frames'[active][i].call # d
      BY <1>5, <1>7, <1>12, <1>19, <2>4 DEF IInv, OpenedOnce
    <2>5. ASSUME NEW d \in Calls, bulk[d].sent PROVE entry'[d] = entry[d]
      BY <1>8, <1>19, <2>5
    <2> QED BY <1>1, <2>2, <2>3, <2>4, <2>5 DEF IInv, OpenedOnce, proxyVars
  <1>21. NothingMissing'
    <2> SUFFICES ASSUME NEW d \in Calls, call[d].peer \in ends, ~call[d].terminal
                 PROVE  /\ NoGap(d)'
                        /\ entry'[d].to = call[d].peer => Reached(d, entry[d].sent)'
                        /\ (entry'[d].to = call[d].peer /\ entry'[d].pump.link = entry'[d].to) =>
                             Reached(d, entry[d].pump.seq)'
      BY <1>1 DEF NothingMissing, proxyVars
    <2>1. /\ call[d].peer \in Links /\ call[d].received \in Nat /\ call[d].applied <= call[d].received
          /\ entry[d].ack <= call[d].applied /\ call[d].applied \in Nat
      BY LinkIsLink, CallFacts DEF IInv, PhasesAgree, PhaseAgrees
    <2>2. /\ NoGap(d)
          /\ entry[d].to = call[d].peer => Reached(d, entry[d].sent)
          /\ (entry[d].to = call[d].peer /\ entry[d].pump.link = entry[d].to) =>
               Reached(d, entry[d].pump.seq)
      BY DEF IInv, NothingMissing
    <2>3. ASSUME NEW n \in Nat, Reached(d, n)
          PROVE  Reached(d, n)'
      BY <1>1, <1>13, <2>1, <2>3 DEF Reached, InFlight, proxyVars
    <2>4. ASSUME d = c, call[d].peer = e.to, NEW n, n = next
          PROVE  InFlight(d, n)'
      <3>1. frames'[e.to] = Append(frames[e.to], frame) BY <1>11, <2>4
      <3>2. Len(frames[e.to]) + 1 \in DOMAIN frames'[e.to] /\ frames'[e.to][Len(frames[e.to]) + 1] = frame
        BY <1>7, <1>9, <3>1
      <3> QED BY <1>1, <1>5, <2>4, <3>2 DEF InFlight, proxyVars
    <2>5. NoGap(d)'
      <3> SUFFICES ASSUME NEW i \in DOMAIN frames'[call[d].peer], frames'[call[d].peer][i].call = d,
                          frames'[call[d].peer][i].seq > call[d].received + 1
                   PROVE  \E j \in 1 .. i - 1 :
                            /\ frames'[call[d].peer][j].call = d
                            /\ frames'[call[d].peer][j].seq = frames'[call[d].peer][i].seq - 1
        BY <1>1 DEF NoGap, proxyVars
      <3>1. CASE i \in DOMAIN frames[call[d].peer] /\ frames'[call[d].peer][i] = frames[call[d].peer][i]
        <4>1. PICK j \in 1 .. i - 1 : /\ frames[call[d].peer][j].call = d
                                      /\ frames[call[d].peer][j].seq = frames[call[d].peer][i].seq - 1
          BY <2>2, <3>1 DEF NoGap
        <4>2. j \in DOMAIN frames[call[d].peer] BY <1>9, <2>1, <3>1, <4>1
        <4> QED BY <1>13, <2>1, <3>1, <4>1, <4>2
      <3>2. CASE i = Len(frames[call[d].peer]) + 1 /\ frames'[call[d].peer][i] = frame /\ call[d].peer = e.to
        <4>1. d = c BY <1>5, <3>2
        <4>2. next - 1 > call[d].received BY <1>3, <1>5, <2>1, <3>2
        <4>3. next - 1 = e.sent /\ e.sent > call[d].received
          <5>1. e.ack <= call[d].received BY <1>2, <2>1, <4>1 DEF e
          <5> QED BY <1>2, <1>3, <2>1, <4>2, <5>1
        <4>4. InFlight(d, e.sent)
          BY <1>2, <2>1, <2>2, <3>2, <4>1, <4>3 DEF Reached, e
        <4>5. PICK j \in DOMAIN frames[call[d].peer] :
                frames[call[d].peer][j].call = d /\ frames[call[d].peer][j].seq = e.sent
          BY <4>4 DEF InFlight
        <4>6. j \in 1 .. i - 1 BY <1>9, <2>1, <3>2
        <4> QED BY <1>5, <1>13, <2>1, <3>2, <4>3, <4>5, <4>6
      <3> QED BY <1>12, <2>1, <3>1, <3>2
    <2>6. CASE d # c
      <3>1. entry'[d] = entry[d] BY <1>8, <2>6
      <3>2. ASSUME NEW n, n = entry[d].sent \/ n = entry[d].pump.seq, Reached(d, n)
            PROVE  Reached(d, n)'
        BY <2>3, <3>2, CallFacts
      <3> QED BY <2>2, <2>5, <3>1, <3>2 DEF Reached, InFlight
    <2>7. CASE d = c
      <3>1. entry'[d] = x /\ e = entry[d] BY <1>8, <2>7 DEF e
      <3>2. ASSUME e.to = call[d].peer, NEW n, n = entry'[d].sent \/ n = entry'[d].pump.seq
            PROVE  Reached(d, n)'
        <4>1. CASE n = entry'[d].sent
          <5>1. n = e.sent BY <1>6, <3>1, <4>1
          <5> QED BY <1>2, <2>2, <2>3, <3>1, <3>2, <5>1
        <4>2. CASE n = entry'[d].pump.seq
          <5>1. n = next BY <1>6, <3>1, <4>2
          <5> QED BY <2>4, <2>7, <3>2, <5>1 DEF Reached
        <4> QED BY <3>2, <4>1, <4>2
      <3> QED BY <1>6, <2>5, <3>1, <3>2 DEF Reached, InFlight
    <2> QED BY <2>6, <2>7
  <1>22. AcksRise'
    BY <1>1, <1>6, <1>8 DEF IInv, AcksRise, proxyVars, e
  <1>23. StopIsComing'
    BY <1>1, <1>6, <1>8 DEF IInv, StopIsComing, IsStopped, GivenUpBeforeOpen, LapsedBefore, proxyVars, e
  <1> QED BY <1>14, <1>15, <1>16, <1>17, <1>18, <1>20, <1>21, <1>22, <1>23 DEF IInv

-----------------------------------------------------------------------------
(* The broker takes an acknowledgement, a cancellation or an open.         *)

LEMMA HandleUrgentKeeps ==
  ASSUME IInv, HandleUrgent
  PROVE  IInv'
  <1> DEFINE m == Head(urgent)
             e == entry[m.call]
             x == IF m.kind = "ack" /\ ~(e.term # "no" /\ m.seq = e.n) THEN [e EXCEPT !.ack = m.seq]
                  ELSE Dropped(e)
  <1>1. /\ urgent # <<>> /\ urgent' = Tail(urgent)
        /\ UNCHANGED <<proxyVars, links, ends, bulk, frames, replies, active, ran, restarts>>
    BY DEF HandleUrgent
  <1>2. urgent \in Seq(Messages) /\ Tail(urgent) \in Seq(Messages) /\ 1 \in DOMAIN urgent /\ m = urgent[1]
    BY <1>1 DEF IInv, Shaped
  <1>3. m \in Messages /\ m.call \in Calls /\ m.seq \in Nat
    BY <1>2, MessagesAreMessages DEF Messages
  <1>4. ASSUME NEW i \in DOMAIN urgent'
        PROVE  i \in Nat /\ i >= 1 /\ i + 1 \in DOMAIN urgent /\ urgent'[i] = urgent[i + 1]
    BY <1>1, <1>2, <1>4
  <1>5. e \in Entries /\ x \in Entries
    <2>1. e \in Entries BY <1>3, CallFacts
    <2>2. [e EXCEPT !.ack = m.seq] \in Entries BY <1>3, <2>1 DEF Entries
    <2>3. Dropped(e) \in Entries BY <2>1, NewEntryIsEntry DEF Entries, Dropped
    <2> QED BY <2>1, <2>2, <2>3
  <1>6. /\ x.n = e.n /\ x.term = e.term /\ x.state \in {e.state, "gone"}
        /\ x.ack = m.seq \/ x.ack = 0
        /\ m.kind = "ack" \/ (x.ack = 0 /\ x.state = "gone")
        /\ e.state = "live" => Moves(e, x)
    <2>1. CASE m.kind = "ack" /\ ~(e.term # "no" /\ m.seq = e.n)
      <3>1. x = [e EXCEPT !.ack = m.seq] BY <2>1
      <3> QED BY <1>5, <2>1, <3>1 DEF Moves, Grows, Entries, NewEntry
    <2>2. CASE ~(m.kind = "ack" /\ ~(e.term # "no" /\ m.seq = e.n))
      <3>1. x = Dropped(e) BY <2>2
      <3>2. /\ Dropped(e).n = e.n /\ Dropped(e).term = e.term /\ Dropped(e).state = "gone"
            /\ Dropped(e).ack = 0 /\ Dropped(e).to = 0 /\ Dropped(e).pump = e.pump
        BY DEF Dropped, NewEntry
      <3> QED BY SMTT(30), <1>5, <3>1, <3>2 DEF Moves, Grows, Entries, NewEntry
    <2> QED BY <2>1, <2>2
  <1>7. \/ e.state = "live" /\ entry' = [entry EXCEPT ![m.call] = x]
        \/ e.state # "live" /\ entry' = entry
    BY DEF HandleUrgent
  <1> HIDE DEF x
  <1>8. /\ \A d \in Calls : \/ entry'[d] = entry[d]
                            \/ d = m.call /\ e.state = "live" /\ entry'[d] = x
        /\ entry' \in [Calls -> Entries]
    BY <1>5, <1>7 DEF IInv, Shaped
  <1>9. \A d \in Calls : Moves(entry[d], entry'[d])
    <2>1. \A d \in Calls : Moves(entry[d], entry[d]) BY CallFacts DEF Moves, Grows, Entries
    <2> QED BY <1>6, <1>8, <2>1
  <1>10. /\ Shaped' /\ LinksAgree' /\ PhasesAgree' /\ FirstIsFirst' /\ AnswersAgree'
         /\ OpenedOnce' /\ NothingMissing'
    <2> HIDE DEF m, e
    <2> QED BY <1>1, <1>2, <1>8, <1>9, EntriesMove DEF IInv, Shaped
  <1>11. ASSUME NEW d \in Calls
         PROVE  /\ entry'[d].ack \in Nat /\ entry[d].ack \in Nat
                /\ \/ entry'[d].ack <= entry[d].ack
                   \/ d = m.call /\ m.kind = "ack" /\ entry'[d].ack = m.seq
    BY <1>3, <1>6, <1>8, CallFacts
  <1>12. AcksRise'
    <2> SUFFICES ASSUME NEW d \in Calls
        PROVE  /\ entry'[d].ack <= call[d].applied
               /\ \A i \in DOMAIN urgent' : (urgent'[i].kind = "ack" /\ urgent'[i].call = d) =>
                    /\ entry'[d].ack <= urgent'[i].seq /\ urgent'[i].seq <= call[d].applied
                    /\ ~bulk[d].sent /\ call[d].peer = active /\ active # 0
                    /\ \A j \in 1 .. i : (urgent'[j].kind = "ack" /\ urgent'[j].call = d) =>
                                           urgent'[j].seq <= urgent'[i].seq
               /\ bulk[d].sent => entry'[d].ack <= bulk[d].after /\ bulk[d].after <= call[d].applied
      BY <1>1 DEF AcksRise, proxyVars
    <2>1. call[d].applied \in Nat /\ bulk[d].after \in Nat
      BY DEF IInv, Shaped, CallRecords, Opens
    <2>2. entry'[d].ack <= call[d].applied
      BY <1>2, <1>3, <1>11, <2>1 DEF IInv, AcksRise
    <2>3. bulk[d].sent => entry'[d].ack <= bulk[d].after /\ bulk[d].after <= call[d].applied
      BY <1>2, <1>11, <2>1 DEF IInv, AcksRise
    <2>4. ASSUME NEW i \in DOMAIN urgent', urgent'[i].kind = "ack", urgent'[i].call = d
          PROVE  /\ entry'[d].ack <= urgent'[i].seq /\ urgent'[i].seq <= call[d].applied
                 /\ ~bulk[d].sent /\ call[d].peer = active /\ active # 0
      <3>1. i + 1 \in DOMAIN urgent /\ urgent'[i] = urgent[i + 1] /\ i \in Nat /\ i >= 1 BY <1>4, <2>4
      <3>2. urgent[i + 1].seq \in Nat BY <3>1, MessagesAreMessages DEF Messages
      <3>3. /\ entry[d].ack <= urgent[i + 1].seq /\ urgent[i + 1].seq <= call[d].applied
            /\ ~bulk[d].sent /\ call[d].peer = active /\ active # 0
            /\ (urgent[1].kind = "ack" /\ urgent[1].call = d) => urgent[1].seq <= urgent[i + 1].seq
        BY <2>4, <3>1 DEF IInv, AcksRise
      <3> QED BY <1>2, <1>3, <1>11, <3>1, <3>2, <3>3
    <2>5. ASSUME NEW i \in DOMAIN urgent', urgent'[i].kind = "ack", urgent'[i].call = d,
                 NEW j \in 1 .. i, urgent'[j].kind = "ack", urgent'[j].call = d
          PROVE  urgent'[j].seq <= urgent'[i].seq
      <3>1. i + 1 \in DOMAIN urgent /\ urgent'[i] = urgent[i + 1] /\ i \in Nat /\ i >= 1 BY <1>4, <2>5
      <3>2. j \in DOMAIN urgent' BY <1>1, <1>2, <2>5
      <3>3. j + 1 \in 1 .. i + 1 /\ urgent'[j] = urgent[j + 1] BY <1>4, <3>1, <3>2
      <3> QED BY <2>5, <3>1, <3>3 DEF IInv, AcksRise
    <2> QED BY <2>2, <2>3, <2>4, <2>5
  <1>13. StopIsComing'
    <2> SUFFICES ASSUME NEW d \in Calls, call[d].reader = "ended", entry'[d].term = "no"
        PROVE  /\ (bulk[d].sent \/ entry'[d].state = "live") => cancelled[d].at # 0
               /\ (entry'[d].state = "live" /\ peer # 0 /\ active = peer) =>
                    \/ \E i \in DOMAIN urgent' : urgent'[i].kind = "cancel" /\ urgent'[i].call = d
                    \/ bulk[d].sent
                    \/ GivenUpBeforeOpen(d) \/ LapsedBefore(d)
      BY <1>1 DEF StopIsComing, IsStopped, GivenUpBeforeOpen, LapsedBefore, proxyVars
    <2>1. entry[d].term = "no" /\ (entry'[d].state = "live" => entry[d].state = "live")
      BY <1>6, <1>8
    <2>2. ASSUME entry'[d].state = "live", NEW i \in DOMAIN urgent,
                 urgent[i].kind = "cancel", urgent[i].call = d
          PROVE  \E j \in DOMAIN urgent' : urgent'[j].kind = "cancel" /\ urgent'[j].call = d
      <3>1. i # 1
        <4> SUFFICES ASSUME i = 1 PROVE FALSE
          OBVIOUS
        <4>1. m.call = d /\ m.kind = "cancel" BY <1>2, <2>2
        <4> QED BY <1>6, <1>7, <1>8, <2>1, <2>2, <4>1
      <3>2. i - 1 \in DOMAIN urgent' BY <1>1, <1>2, <3>1
      <3>3. urgent'[i - 1] = urgent[i] BY <1>2, <1>4, <3>2
      <3> QED BY <2>2, <3>2, <3>3
    <2> QED BY <2>1, <2>2 DEF IInv, StopIsComing, IsStopped
  <1> QED BY <1>10, <1>12, <1>13 DEF IInv

LEMMA HandleOpenKeeps ==
  ASSUME IInv, NEW c \in Calls, HandleOpen(c)
  PROVE  IInv'
  <1> DEFINE m == bulk[c]
             e == entry[c]
  <1>1. /\ m.sent /\ bulk' = [bulk EXCEPT ![c] = NoOpen]
        /\ urgent' = IF m.cancel THEN Append(urgent, Cancel(c)) ELSE urgent
        /\ UNCHANGED <<proxyVars, links, ends, frames, active, restarts>>
    BY DEF HandleOpen
  <1>2. /\ m \in Opens /\ m.after \in Nat /\ e \in Entries
        /\ entry \in [Calls -> Entries] /\ bulk \in [Calls -> Opens] /\ urgent \in Seq(Messages)
        /\ ran \in [Calls -> Nat]
    BY DEF IInv, Shaped, Opens
  <1>3. /\ call[c].peer = active /\ active # 0 /\ ~call[c].admitted
        /\ e.to = 0 /\ e.pump.link # active
        /\ active \in ends => call[c].phase = "opening" \/ m.cancel
    BY <1>1 DEF IInv, OpenedOnce
  <1>4. active \in Links /\ active \in Nat BY <1>3, LinkIsLink
  <1>5. Cancel(c) \in Messages /\ Cancel(c).kind = "cancel" /\ Cancel(c).call = c
    BY DEF Cancel, Messages
  <1>6. (Runs(c, m)) => ran[c] = 0 /\ e = NewEntry
    BY <1>1 DEF IInv, FirstIsFirst, Runs
  <1>7. PICK x \in Entries :
          /\ entry' = [entry EXCEPT ![c] = x]
          /\ x.n = e.n /\ x.term = e.term /\ x.ack \in {e.ack, 0, m.after} /\ x.to \in {e.to, active}
          /\ x.to # 0 => x.pump.link # active /\ (x.sent = 0 \/ x.sent = m.after)
          /\ x.pump.link \in {e.pump.link, 0}
          /\ \/ x.state = "live" /\ e.state = "live" /\ ran' = ran
             \/ x.state = "live" /\ ran[c] = 0 /\ ran' = [ran EXCEPT ![c] = 1]
             \/ x.state # "live" /\ ran' = ran
    <2>1. CASE Retained(c, m) /\ entry' = [entry EXCEPT ![c] = Resume(@, m)] /\ ran' = ran
      <3> DEFINE x == Resume(e, m)
      <3>1. x = [e EXCEPT !.ack = m.after, !.sent = m.after, !.to = active] BY DEF Resume
      <3>2. entry' = [entry EXCEPT ![c] = x] BY <2>1
      <3> HIDE DEF x
      <3>3. x \in Entries BY <1>2, <1>4, <3>1 DEF Entries
      <3>4. /\ x.n = e.n /\ x.term = e.term /\ x.ack = m.after /\ x.sent = m.after /\ x.to = active
            /\ x.pump = e.pump /\ x.state = e.state
        BY <1>2, <3>1 DEF Entries
      <3> QED BY <1>3, <2>1, <3>2, <3>3, <3>4 DEF Retained
    <2>2. CASE /\ Runs(c, m) /\ ran' = [ran EXCEPT ![c] = @ + 1]
               /\ entry' = [entry EXCEPT ![c] = [NewEntry EXCEPT !.state = "live", !.to = active]]
      <3> DEFINE x == [NewEntry EXCEPT !.state = "live", !.to = active]
      <3>1. x \in Entries BY <1>4, NewEntryIsEntry DEF Entries
      <3>2. /\ x.n = NewEntry.n /\ x.term = NewEntry.term /\ x.ack = 0 /\ x.sent = 0 /\ x.to = active
            /\ x.pump.link = 0 /\ x.state = "live"
        BY DEF NewEntry, NoPump
      <3>3. ran' = [ran EXCEPT ![c] = 1] BY <1>2, <1>6, <2>2
      <3>4. entry' = [entry EXCEPT ![c] = x] BY <2>2
      <3> HIDE DEF x
      <3> QED BY <1>3, <1>6, <2>2, <3>1, <3>2, <3>3, <3>4
    <2>3. CASE Runs(c, m) /\ entry' = [entry EXCEPT ![c].state = "gone"] /\ ran' = ran
      <3> DEFINE x == [e EXCEPT !.state = "gone"]
      <3>1. x \in Entries BY <1>2 DEF Entries
      <3>2. /\ x.n = e.n /\ x.term = e.term /\ x.ack = e.ack /\ x.to = e.to
            /\ x.pump = e.pump /\ x.state = "gone"
        BY <1>2 DEF Entries
      <3>3. entry' = [entry EXCEPT ![c] = x] BY <2>3
      <3> HIDE DEF x
      <3> QED BY <1>3, <2>3, <3>1, <3>2, <3>3
    <2>4. CASE UNCHANGED <<entry, ran>>
      <3>1. entry' = [entry EXCEPT ![c] = e] BY <1>2, <2>4
      <3>2. e.state = "live" \/ e.state # "live" OBVIOUS
      <3> QED BY <1>2, <1>3, <2>4, <3>1, <3>2
    <2> QED BY <2>1, <2>2, <2>3, <2>4 DEF HandleOpen
  <1>8. /\ replies' \in [Links -> [Calls -> {"none", "accepted", "rejected"}]]
        /\ \A k \in Links, d \in Calls : replies'[k][d] = replies[k][d] \/ (k = active /\ d = c)
    <2>1. PICK how \in {"accepted", "rejected"} :
            replies' = IF active \in ends THEN [replies EXCEPT ![active][c] = how] ELSE replies
      BY DEF HandleOpen
    <2> QED BY <1>4, <2>1 DEF IInv, Shaped
  <1> HIDE DEF m, e
  <1>9. /\ \A d \in Calls : entry'[d] = IF d = c THEN x ELSE entry[d]
        /\ \A d \in Calls : bulk'[d] = IF d = c THEN NoOpen ELSE bulk[d]
        /\ entry' \in [Calls -> Entries] /\ ran' \in [Calls -> Nat]
        /\ ~NoOpen.sent /\ NoOpen \in Opens /\ bulk' \in [Calls -> Opens]
    BY <1>1, <1>2, <1>7 DEF NoOpen, Opens
  <1>10. /\ urgent' \in Seq(Messages)
         /\ \A i \in DOMAIN urgent' : \/ i \in DOMAIN urgent /\ urgent'[i] = urgent[i]
                                      \/ urgent'[i] = Cancel(c)
         /\ \A i \in DOMAIN urgent : i \in DOMAIN urgent' /\ urgent'[i] = urgent[i]
         /\ m.cancel => \E i \in DOMAIN urgent' : urgent'[i] = Cancel(c)
    <2>1. CASE m.cancel
      <3>1. urgent' = Append(urgent, Cancel(c)) BY <1>1, <2>1
      <3>2. Len(urgent) + 1 \in DOMAIN urgent' /\ urgent'[Len(urgent) + 1] = Cancel(c) BY <1>2, <3>1
      <3> QED BY <1>2, <1>5, <3>1, <3>2
    <2>2. CASE ~m.cancel BY <1>1, <1>2, <2>2
    <2> QED BY <2>1, <2>2
  <1>11. Shaped'
    BY <1>1, <1>8, <1>9, <1>10 DEF IInv, Shaped, proxyVars
  <1>12. LinksAgree'
    BY <1>1, <1>3, <1>7, <1>9 DEF IInv, LinksAgree, proxyVars, e
  <1>13. PhasesAgree'
    BY <1>1 DEF IInv, PhasesAgree, PhaseAgrees, proxyVars
  <1>14. FirstIsFirst'
    <2> SUFFICES ASSUME NEW d \in Calls
        PROVE  /\ ran'[d] <= 1 /\ (entry'[d].state = "live" => ran'[d] = 1)
               /\ ran'[d] = 0 => /\ entry'[d].n = 0 /\ entry'[d].term = "no" /\ call[d].applied = 0
               /\ (~call[d].attempted /\ call[d].reader # "ended") =>
                    /\ ran'[d] = 0 /\ entry'[d] = NewEntry /\ ~bulk'[d].sent
               /\ (bulk'[d].sent /\ ~bulk'[d].resume) => ran'[d] = 0 /\ entry'[d] = NewEntry
      BY <1>1 DEF FirstIsFirst, proxyVars
    <2>1. CASE d # c
      <3>1. entry'[d] = entry[d] /\ bulk'[d] = bulk[d] /\ ran'[d] = ran[d]
        BY <1>2, <1>7, <1>9, <2>1
      <3> QED BY <3>1 DEF IInv, FirstIsFirst
    <2>2. CASE d = c
      <3>1. ~(~call[c].attempted /\ call[c].reader # "ended") BY <1>1 DEF IInv, FirstIsFirst, m
      <3>2. entry'[c] = x /\ ~bulk'[c].sent BY <1>9
      <3>3. ran'[c] \in {ran[c], 1} BY <1>2, <1>7
      <3>4. x.state = "live" => ran'[c] = 1
        BY <1>2, <1>7 DEF IInv, FirstIsFirst, e
      <3>5. ran'[c] = 0 => x.n = 0 /\ x.term = "no" /\ call[c].applied = 0
        BY <1>7, <3>3 DEF IInv, FirstIsFirst, e
      <3>6. ran'[c] <= 1 BY <3>3 DEF IInv, FirstIsFirst
      <3> QED BY <2>2, <3>1, <3>2, <3>4, <3>5, <3>6
    <2> QED BY <2>1, <2>2
  <1>15. AnswersAgree'
    <2>1. \A d \in Calls : entry'[d].n = entry[d].n /\ entry'[d].term = entry[d].term
      BY <1>7, <1>9 DEF e
    <2>2. ASSUME NEW f, NEW d \in Calls, IsOf(f, entry[d]) PROVE IsOf(f, entry'[d])
      BY <2>1, <2>2 DEF IsOf
    <2>3. ASSUME NEW d \in Calls PROVE BuffersAgree(call[d], entry'[d])
      BY <2>1, <2>2 DEF IInv, AnswersAgree, BuffersAgree
    <2>4. ASSUME NEW k \in Links, NEW i \in DOMAIN frames[k]
          PROVE  IsOf(frames[k][i], entry'[frames[k][i].call])
      <3>1. frames[k][i].call \in Calls BY <2>4, FramesAreFrames DEF Frames
      <3> QED BY <2>2, <2>4, <3>1 DEF IInv, AnswersAgree
    <2> QED BY <1>1, <2>1, <2>3, <2>4 DEF IInv, AnswersAgree, proxyVars
  <1>16. OpenedOnce'
    <2>1. ASSUME NEW d \in Calls, NEW k \in Links
          PROVE  /\ (\E i \in DOMAIN frames[k] : frames[k][i].call = d) => k <= call[d].peer
                 /\ replies'[k][d] # "none" => k <= call[d].peer
      <3>1. CASE replies'[k][d] = replies[k][d] BY <3>1 DEF IInv, OpenedOnce
      <3>2. CASE k = active /\ d = c BY <1>3, <1>4, <3>2 DEF IInv, OpenedOnce
      <3> QED BY <1>8, <3>1, <3>2
    <2>2. ASSUME NEW d \in Calls
          PROVE  entry'[d].to <= call[d].peer /\ entry'[d].pump.link <= call[d].peer
      <3>1. /\ entry[d].to <= call[d].peer /\ entry[d].pump.link <= call[d].peer /\ call[d].peer \in Nat
        BY LinkIsLink DEF IInv, OpenedOnce
      <3> QED BY <1>3, <1>4, <1>7, <1>9, <3>1 DEF e
    <2>3. ASSUME NEW d \in Calls, bulk'[d].sent
          PROVE  /\ d # c /\ entry'[d] = entry[d] /\ bulk'[d] = bulk[d]
                 /\ active \in Links => replies'[active][d] = replies[active][d]
      BY <1>8, <1>9, <2>3
    <2> QED BY <1>1, <1>4, <2>1, <2>2, <2>3 DEF IInv, OpenedOnce, proxyVars
  <1>17. NothingMissing'
    <2>1. ASSUME NEW d \in Calls, NEW n
          PROVE  /\ NoGap(d)' <=> NoGap(d)
                 /\ Reached(d, n)' <=> Reached(d, n)
      BY <1>1 DEF NoGap, Reached, InFlight, proxyVars
    <2>2. ASSUME NEW d \in Calls, d # c, call[d].peer \in ends, ~call[d].terminal
          PROVE  /\ entry'[d].to = call[d].peer => Reached(d, entry[d].sent)'
                 /\ (entry'[d].to = call[d].peer /\ entry'[d].pump.link = entry'[d].to) =>
                      Reached(d, entry[d].pump.seq)'
      <3>1. entry'[d] = entry[d] BY <1>9, <2>2
      <3> QED BY <1>1, <2>2, <3>1 DEF IInv, NothingMissing, Reached, InFlight, proxyVars
    <2>3. ASSUME call[c].peer \in ends, ~call[c].terminal, entry'[c].to = call[c].peer
          PROVE  Reached(c, entry[c].sent)' /\ entry'[c].pump.link # entry'[c].to
      <3>1. entry'[c] = x /\ x.to = active /\ x.to # 0 BY <1>3, <1>9, <2>3
      <3>2. x.sent <= call[c].applied /\ x.sent \in Nat
        BY <1>1, <1>2, <1>7, <3>1, CallFacts DEF IInv, AcksRise, m
      <3>3. call[c].applied <= call[c].received
        BY <2>3, CallFacts DEF IInv, PhasesAgree, PhaseAgrees
      <3>4. x.sent <= call[c].received BY <3>2, <3>3, CallFacts
      <3> QED BY <1>1, <1>7, <3>1, <3>4 DEF Reached, proxyVars
    <2> QED BY <1>1, <2>1, <2>2, <2>3 DEF IInv, NothingMissing, proxyVars
  <1>18. AcksRise'
    <2> SUFFICES ASSUME NEW d \in Calls
        PROVE  /\ entry'[d].ack <= call[d].applied
               /\ \A i \in DOMAIN urgent' : (urgent'[i].kind = "ack" /\ urgent'[i].call = d) =>
                    /\ entry'[d].ack <= urgent'[i].seq /\ urgent'[i].seq <= call[d].applied
                    /\ ~bulk'[d].sent /\ call[d].peer = active /\ active # 0
                    /\ \A j \in 1 .. i : (urgent'[j].kind = "ack" /\ urgent'[j].call = d) =>
                                           urgent'[j].seq <= urgent'[i].seq
               /\ bulk'[d].sent => entry'[d].ack <= bulk'[d].after /\ bulk'[d].after <= call[d].applied
      BY <1>1 DEF AcksRise, proxyVars
    <2>1. ASSUME NEW i \in DOMAIN urgent', urgent'[i].kind = "ack", urgent'[i].call = d
          PROVE  /\ i \in DOMAIN urgent /\ urgent'[i] = urgent[i] /\ d # c
      BY <1>1, <1>5, <1>10, <2>1 DEF IInv, AcksRise, m
    <2>2. CASE d # c
      <3>1. entry'[d] = entry[d] /\ bulk'[d] = bulk[d] BY <1>9, <2>2
      <3>2. \A i \in DOMAIN urgent' : \A j \in 1 .. i : j \in DOMAIN urgent' BY <1>10
      <3> QED BY <2>1, <3>1, <3>2 DEF IInv, AcksRise
    <2>3. CASE d = c
      <3>1. entry'[d] = x /\ ~bulk'[d].sent BY <1>9, <2>3
      <3>2. x.ack <= call[d].applied
        BY <1>1, <1>7, <2>3, CallFacts DEF IInv, AcksRise, m, e
      <3> QED BY <2>1, <2>3, <3>1, <3>2
    <2> QED BY <2>2, <2>3
  <1>19. StopIsComing'
    <2> SUFFICES ASSUME NEW d \in Calls, call[d].reader = "ended", entry'[d].term = "no"
        PROVE  /\ (bulk'[d].sent \/ entry'[d].state = "live") => cancelled[d].at # 0
               /\ (entry'[d].state = "live" /\ peer # 0 /\ active = peer) =>
                    \/ \E i \in DOMAIN urgent' : urgent'[i].kind = "cancel" /\ urgent'[i].call = d
                    \/ bulk'[d].sent
                    \/ GivenUpBeforeOpen(d) \/ LapsedBefore(d)
      BY <1>1 DEF StopIsComing, IsStopped, GivenUpBeforeOpen, LapsedBefore, proxyVars
    <2>1. CASE d # c
      <3>1. entry'[d] = entry[d] /\ bulk'[d] = bulk[d] BY <1>9, <2>1
      <3> QED BY <1>10, <3>1 DEF IInv, StopIsComing, IsStopped
    <2>2. CASE d = c
      <3>1. entry[c].term = "no" /\ cancelled[c].at # 0
        BY <1>1, <1>7, <1>9, <2>2 DEF IInv, StopIsComing, IsStopped, m, e
      <3>2. call[c].phase = "over" BY <2>2 DEF IInv, PhasesAgree, PhaseAgrees
      <3>3. (peer # 0 /\ active = peer) => m.cancel
        BY <1>3, <3>2 DEF IInv, LinksAgree
      <3> QED BY <1>5, <1>10, <2>2, <3>1, <3>3
    <2> QED BY <2>1, <2>2
  <1> QED BY <1>11, <1>12, <1>13, <1>14, <1>15, <1>16, <1>17, <1>18, <1>19 DEF IInv

-----------------------------------------------------------------------------
(* A new link.                                                             *)

\* All that was given up and is remembered is on the list, and nothing else.
LEMMA ResentFacts ==
  ASSUME IInv
  PROVE  /\ Resent \in Seq(Messages)
         /\ \A i \in DOMAIN Resent : Resent[i].kind = "cancel"
         /\ \A c \in Calls : Remembered(c) =>
              \E i \in DOMAIN Resent : Resent[i].kind = "cancel" /\ Resent[i].call = c
  <1> DEFINE S == {c \in Calls : Remembered(c)}
             n == Cardinality(S)
             g == SetToSeq(S)
  <1>1. IsFiniteSet(S) BY Constants, FS_Subset
  <1> HIDE DEF S
  <1>2. n \in Nat /\ ExistsBijection(1..n, S) BY <1>1, FS_CardinalityType
  <1>3. \E f \in [1..n -> S] : IsInjective(f)
    BY <1>2 DEF ExistsBijection, Bijection, Injection
  <1>4. g \in [1..n -> S] /\ IsInjective(g)
    BY <1>3 DEF SetToSeq
  <1> HIDE DEF g
  <1>5. g \in Injection(1..n, S) BY <1>4 DEF Injection
  <1>6. IsFiniteSet(1..n) /\ Cardinality(1..n) = n
    BY <1>2, FS_Interval
  <1>7. g \in Surjection(1..n, S)
    BY <1>1, <1>5, <1>6, FS_Injection
  <1>8. \A c \in S : \E i \in 1..n : g[i] = c
    BY <1>7 DEF Surjection
  <1>9. Resent = [i \in 1..n |-> Cancel(g[i])]
    BY <1>4 DEF Resent, S, g
  <1>10. \A i \in 1..n : g[i] \in Calls BY <1>4 DEF S
  <1>11. \A c \in Calls : Cancel(c) \in Messages /\ Cancel(c).kind = "cancel" /\ Cancel(c).call = c
    BY DEF Cancel, Messages
  <1>12. Resent \in Seq(Messages) /\ DOMAIN Resent = 1..n /\ \A i \in 1..n : Resent[i] = Cancel(g[i])
    <2>1. \A i \in 1..n : Cancel(g[i]) \in Messages BY <1>10, <1>11
    <2>2. Resent \in [1..n -> Messages] BY <1>9, <2>1
    <2> QED BY <1>2, <1>9, <2>2
  <1> QED BY <1>8, <1>10, <1>11, <1>12 DEF S

LEMMA ConnectKeeps ==
  ASSUME IInv, Connect
  PROVE  IInv'
  <1>1. /\ links < MaxLinks
        /\ links' = links + 1 /\ active' = links + 1 /\ peer' = links + 1
        /\ ends' = ends \cup {links + 1} /\ ready' = FALSE
        /\ entry' = [c \in Calls |-> [entry[c] EXCEPT !.to = 0]]
        /\ bulk' = [c \in Calls |-> NoOpen] /\ urgent' = Resent
        /\ UNCHANGED <<call, cancelled, latched, frames, replies, ran, restarts>>
    BY DEF Connect, Detached
  <1>2. /\ links \in Nat /\ MaxLinks \in Nat /\ ends \subseteq 1..links
        /\ entry \in [Calls -> Entries]
    BY Constants DEF IInv, Shaped
  <1>3. ASSUME NEW e \in Entries
        PROVE  LET x == [e EXCEPT !.to = 0]
               IN  /\ x \in Entries /\ x.to = 0 /\ x.state = e.state /\ x.n = e.n /\ x.term = e.term
                   /\ x.ack = e.ack /\ x.sent = e.sent /\ x.pump = e.pump /\ (e = NewEntry => x = NewEntry)
    BY DEF Entries, NewEntry
  <1>4. /\ entry' \in [Calls -> Entries]
        /\ \A c \in Calls : /\ entry'[c].to = 0 /\ entry'[c].state = entry[c].state
                            /\ entry'[c].n = entry[c].n /\ entry'[c].term = entry[c].term
                            /\ entry'[c].ack = entry[c].ack /\ entry'[c].pump = entry[c].pump
                            /\ entry[c] = NewEntry => entry'[c] = NewEntry
    BY <1>1, <1>2, <1>3
  <1>5. bulk' \in [Calls -> Opens] /\ \A c \in Calls : ~bulk'[c].sent
    BY <1>1 DEF NoOpen, Opens
  <1>6. ASSUME NEW c \in Calls
        PROVE  /\ call[c].peer \in Nat /\ call[c].peer <= links /\ call[c].given \in Nat
               /\ call[c].peer \in ends' <=> call[c].peer \in ends
    BY <1>1, <1>2, LinkIsLink
  <1>7. Shaped'
    <2>1. links' \in 0..MaxLinks /\ ends' \subseteq 1..links'
      BY <1>1, <1>2
    <2>2. urgent' \in Seq(Messages) /\ ready' \in BOOLEAN BY <1>1, ResentFacts
    <2> QED BY <1>1, <1>4, <1>5, <2>1, <2>2 DEF IInv, Shaped
  <1>8. LinksAgree'
    <2>1. ASSUME NEW c \in Calls
          PROVE  /\ cancelled[c].at \in 0 .. links' + 1 /\ cancelled[c].lapsed \in 0 .. links' + 1
                 /\ call[c].peer <= links'
      <3>1. cancelled[c].at \in 0 .. links + 1 /\ cancelled[c].lapsed \in 0 .. links + 1
        BY DEF IInv, LinksAgree
      <3> QED BY <1>1, <1>2, <1>6, <3>1
    <2> QED BY <1>1, <1>4, <2>1 DEF LinksAgree
  <1>9. PhasesAgree'
    <2> SUFFICES ASSUME NEW c \in Calls PROVE PhaseAgrees(call[c])'
      BY DEF PhasesAgree
    <2>1. PhaseAgrees(call[c]) BY DEF IInv, PhasesAgree
    <2> QED BY <1>1, <1>2, <1>6, <2>1 DEF PhaseAgrees
  <1>10. FirstIsFirst'
    BY <1>1, <1>4, <1>5 DEF IInv, FirstIsFirst
  <1>11. AnswersAgree'
    <2>2. ASSUME NEW f, NEW d \in Calls, IsOf(f, entry[d]) PROVE IsOf(f, entry'[d])
      BY <1>4, <2>2 DEF IsOf
    <2>3. ASSUME NEW d \in Calls PROVE BuffersAgree(call[d], entry'[d])
      BY <1>4, <2>2 DEF IInv, AnswersAgree, BuffersAgree
    <2>4. ASSUME NEW k \in Links, NEW i \in DOMAIN frames[k]
          PROVE  IsOf(frames[k][i], entry'[frames[k][i].call])
      <3>1. frames[k][i].call \in Calls BY <2>4, FramesAreFrames DEF Frames
      <3> QED BY <2>2, <2>4, <3>1 DEF IInv, AnswersAgree
    <2> QED BY <1>1, <1>4, <2>3, <2>4 DEF IInv, AnswersAgree
  <1>12. OpenedOnce'
    <2>1. \A c \in Calls : entry'[c].to <= call[c].peer BY <1>4, <1>6
    <2> QED BY <1>1, <1>4, <1>5, <2>1 DEF IInv, OpenedOnce
  <1>13. NothingMissing'
    <2>1. ASSUME NEW c \in Calls
          PROVE  NoGap(c)' <=> NoGap(c)
      BY <1>1 DEF NoGap
    <2>2. ASSUME NEW c \in Calls, call[c].peer \in ends'
          PROVE  entry'[c].to # call[c].peer /\ call[c].peer \in ends
      BY <1>2, <1>4, <1>6, <2>2
    <2> QED BY <1>1, <2>1, <2>2 DEF IInv, NothingMissing
  <1>14. AcksRise'
    <2>1. \A i \in DOMAIN urgent' : urgent'[i].kind # "ack" BY <1>1, ResentFacts
    <2> QED BY <1>1, <1>4, <1>5, <2>1 DEF IInv, AcksRise
  <1>15. StopIsComing'
    <2> SUFFICES ASSUME NEW c \in Calls, call[c].reader = "ended", entry'[c].term = "no",
                        entry'[c].state = "live"
        PROVE  /\ cancelled[c].at # 0
               /\ \/ \E i \in DOMAIN urgent' : urgent'[i].kind = "cancel" /\ urgent'[i].call = c
                  \/ LapsedBefore(c)'
      BY <1>1, <1>5 DEF StopIsComing, IsStopped
    <2>1. cancelled[c].at # 0 BY <1>4 DEF IInv, StopIsComing, IsStopped
    <2>2. CASE Remembered(c) BY <1>1, <2>1, <2>2, ResentFacts
    <2>3. CASE ~Remembered(c)
      <3>1. cancelled[c].lapsed # 0 /\ cancelled[c].lapsed \in 0 .. links + 1
        BY <2>1, <2>3 DEF Remembered, IInv, LinksAgree
      <3>2. LapsedBefore(c)' BY <1>1, <1>2, <3>1 DEF LapsedBefore
      <3> QED BY <2>1, <3>2
    <2> QED BY <2>2, <2>3
  <1> QED BY <1>7, <1>8, <1>9, <1>10, <1>11, <1>12, <1>13, <1>14, <1>15 DEF IInv

-----------------------------------------------------------------------------
(* Steps of the proxy: a call that is not over for its caller moves on.    *)

LEMMA CallMovesOn ==
  ASSUME IInv, NEW c \in Calls, NEW x \in CallRecords,
         call' = [call EXCEPT ![c] = x],
         UNCHANGED <<peer, ready, links, ends, active, entry, ran>>, latched' \in BOOLEAN,
         frames' \in [Links -> Seq(Frames)],
         \A k \in Links : \A i \in DOMAIN frames'[k] :
           \E j \in DOMAIN frames[k] : frames'[k][i] = frames[k][j],
         replies' \in [Links -> [Calls -> {"none", "accepted", "rejected"}]],
         \A k \in Links, d \in Calls : replies'[k][d] \in {replies[k][d], "none"},
         cancelled' = cancelled \/ cancelled' = [cancelled EXCEPT ![c] = GivenUp],
         call[c].reader # "ended", x.reader = "ended" \/ x.attempted = call[c].attempted,
         x.peer = call[c].peer, call[c].applied <= x.applied,
         PhaseAgrees(x), BuffersAgree(x, entry[c]),
         bulk' = bulk \/ bulk' = [bulk EXCEPT ![c].cancel = TRUE],
         bulk[c].sent => ~x.admitted /\ (active \in ends => x.phase = "opening" \/ bulk'[c].cancel),
         urgent' \in Seq(Messages),
         \A i \in DOMAIN urgent : i \in DOMAIN urgent' /\ urgent'[i] = urgent[i],
         \A i \in DOMAIN urgent' :
           \/ i \in DOMAIN urgent
           \/ /\ urgent'[i].call = c
              /\ urgent'[i].kind = "ack" =>
                   urgent'[i].seq = x.applied /\ ~bulk[c].sent /\ active = x.peer /\ active # 0,
         NothingMissing',
         (x.reader = "ended" /\ entry[c].term = "no") => IsStopped(c)'
  PROVE  IInv'
  <1>1. /\ call' \in [Calls -> CallRecords] /\ call'[c] = x
        /\ \A d \in Calls : d # c => call'[d] = call[d]
    BY DEF IInv, Shaped
  <1>2. ASSUME NEW b \in Opens
        PROVE  LET y == [b EXCEPT !.cancel = TRUE]
               IN  y \in Opens /\ y.after = b.after /\ y.sent = b.sent /\ y.resume = b.resume
    BY DEF Opens
  <1>3. /\ bulk' \in [Calls -> Opens]
        /\ \A d \in Calls : /\ bulk'[d].sent = bulk[d].sent /\ bulk'[d].after = bulk[d].after
                            /\ bulk'[d].resume = bulk[d].resume
                            /\ d # c => bulk'[d] = bulk[d]
    <2> DEFINE y == [bulk[c] EXCEPT !.cancel = TRUE]
    <2>1. bulk \in [Calls -> Opens] BY DEF IInv, Shaped
    <2>2. /\ y \in Opens /\ y.after = bulk[c].after /\ y.sent = bulk[c].sent
          /\ y.resume = bulk[c].resume
      BY <1>2, <2>1
    <2>3. bulk' = bulk \/ bulk' = [bulk EXCEPT ![c] = y]
      OBVIOUS
    <2> HIDE DEF y
    <2>4. CASE bulk' = bulk BY <2>1, <2>4
    <2>5. CASE bulk' = [bulk EXCEPT ![c] = y] BY <2>1, <2>2, <2>5
    <2> QED BY <2>3, <2>4, <2>5
  <1>4. /\ cancelled' \in [Calls -> Cancellations]
        /\ \A d \in Calls : d # c => cancelled'[d] = cancelled[d]
        /\ cancelled'[c].at \in 0 .. links + 1 /\ cancelled'[c].lapsed \in 0 .. links + 1
    <2>1. /\ peer \in Nat /\ peer <= links /\ links \in Nat
          /\ cancelled[c].at \in 0 .. links + 1 /\ cancelled[c].lapsed \in 0 .. links + 1
      BY LinkIsLink DEF IInv, LinksAgree
    <2>2. cancelled \in [Calls -> Cancellations] BY DEF IInv, Shaped
    <2>3. CASE cancelled' = cancelled BY <2>1, <2>2, <2>3
    <2>4. CASE cancelled' = [cancelled EXCEPT ![c] = GivenUp]
      <3>1. cancelled'[c] = GivenUp BY <2>2, <2>4
      <3>2. GivenUp \in Cancellations /\ GivenUp.at \in 0 .. links + 1 /\ GivenUp.lapsed \in 0 .. links + 1
        BY <2>1 DEF GivenUp, Cancellations
      <3> QED BY <2>2, <2>4, <3>1, <3>2
    <2> QED BY <2>3, <2>4
  <1>5. Shaped'
    BY <1>1, <1>3, <1>4 DEF IInv, Shaped
  <1>6. LinksAgree'
    BY <1>1, <1>4 DEF IInv, LinksAgree
  <1>7. PhasesAgree'
    <2> SUFFICES ASSUME NEW d \in Calls PROVE PhaseAgrees(call[d])'
      BY DEF PhasesAgree
    <2>1. CASE d = c BY <1>1, <2>1 DEF PhaseAgrees
    <2>2. CASE d # c
      <3>1. PhaseAgrees(call[d]) /\ call'[d] = call[d] BY <1>1, <2>2 DEF IInv, PhasesAgree
      <3> QED BY <3>1 DEF PhaseAgrees
    <2> QED BY <2>1, <2>2
  <1>8. FirstIsFirst'
    <2> SUFFICES ASSUME NEW d \in Calls
        PROVE  /\ ran[d] <= 1 /\ (entry[d].state = "live" => ran[d] = 1)
               /\ ran[d] = 0 => /\ entry[d].n = 0 /\ entry[d].term = "no" /\ call'[d].applied = 0
               /\ (~call'[d].attempted /\ call'[d].reader # "ended") =>
                    /\ ran[d] = 0 /\ entry[d] = NewEntry /\ ~bulk'[d].sent
               /\ (bulk'[d].sent /\ ~bulk'[d].resume) => ran[d] = 0 /\ entry[d] = NewEntry
      BY DEF FirstIsFirst
    <2>1. CASE d # c BY <1>1, <1>3, <2>1 DEF IInv, FirstIsFirst
    <2>2. CASE d = c
      <3>1. x.applied <= entry[c].n /\ x.applied \in Nat BY DEF BuffersAgree, CallRecords
      <3>2. ran[c] = 0 => x.applied = 0 BY <3>1 DEF IInv, FirstIsFirst
      <3> QED BY <1>1, <1>3, <2>2, <3>2 DEF IInv, FirstIsFirst
    <2> QED BY <2>1, <2>2
  <1>9. AnswersAgree'
    <2>1. ASSUME NEW d \in Calls PROVE BuffersAgree(call'[d], entry[d])
      BY <1>1 DEF IInv, AnswersAgree
    <2>2. ASSUME NEW k \in Links, NEW i \in DOMAIN frames'[k]
          PROVE  IsOf(frames'[k][i], entry[frames'[k][i].call])
      BY <2>2 DEF IInv, AnswersAgree
    <2> QED BY <2>1, <2>2 DEF IInv, AnswersAgree
  <1>10. OpenedOnce'
    <2>1. ASSUME NEW d \in Calls PROVE call'[d].peer = call[d].peer
      BY <1>1
    <2>2. ASSUME NEW d \in Calls, NEW k \in Links
          PROVE  /\ (\E i \in DOMAIN frames'[k] : frames'[k][i].call = d) => k <= call[d].peer
                 /\ replies'[k][d] # "none" => k <= call[d].peer
      <3>1. /\ \A j \in DOMAIN frames[k] : frames[k][j].call = d => k <= call[d].peer
            /\ replies[k][d] # "none" => k <= call[d].peer
        BY DEF IInv, OpenedOnce
      <3>2. ASSUME NEW i \in DOMAIN frames'[k], frames'[k][i].call = d PROVE k <= call[d].peer
        <4>1. PICK j \in DOMAIN frames[k] : frames'[k][i] = frames[k][j] BY <3>2
        <4> QED BY <3>1, <3>2, <4>1
      <3>3. replies'[k][d] \in {replies[k][d], "none"} OBVIOUS
      <3> QED BY <3>1, <3>2, <3>3
    <2>3. ASSUME NEW d \in Calls, bulk'[d].sent
          PROVE  /\ ~call'[d].admitted /\ replies'[active][d] = "none"
                 /\ \A i \in DOMAIN frames'[active] : frames'[active][i].call # d
                 /\ active \in ends => call'[d].phase = "opening" \/ bulk'[d].cancel
      <3>1. bulk[d].sent /\ active # 0 BY <1>3, <2>3 DEF IInv, OpenedOnce
      <3>2. active \in Links BY <3>1, LinkIsLink
      <3>3. /\ ~call[d].admitted /\ replies[active][d] = "none"
            /\ \A i \in DOMAIN frames[active] : frames[active][i].call # d
            /\ active \in ends => call[d].phase = "opening" \/ bulk[d].cancel
        BY <3>1 DEF IInv, OpenedOnce
      <3>4. replies'[active][d] = "none"
        <4>1. replies'[active][d] \in {replies[active][d], "none"} BY <3>2
        <4> QED BY <3>3, <4>1
      <3>5. ASSUME NEW i \in DOMAIN frames'[active] PROVE frames'[active][i].call # d
        <4>1. PICK j \in DOMAIN frames[active] : frames'[active][i] = frames[active][j]
          BY <3>2, <3>5
        <4> QED BY <3>3, <4>1
      <3>6. CASE d = c BY <1>1, <3>1, <3>4, <3>5, <3>6
      <3>7. CASE d # c BY <1>1, <1>3, <3>3, <3>4, <3>5, <3>7
      <3> QED BY <3>6, <3>7
    <2> QED BY <1>3, <2>1, <2>2, <2>3 DEF IInv, OpenedOnce
  <1>11. AcksRise'
    <2> SUFFICES ASSUME NEW d \in Calls
        PROVE  /\ entry[d].ack <= call'[d].applied
               /\ \A i \in DOMAIN urgent' : (urgent'[i].kind = "ack" /\ urgent'[i].call = d) =>
                    /\ entry[d].ack <= urgent'[i].seq /\ urgent'[i].seq <= call'[d].applied
                    /\ ~bulk'[d].sent /\ call'[d].peer = active /\ active # 0
                    /\ \A j \in 1 .. i : (urgent'[j].kind = "ack" /\ urgent'[j].call = d) =>
                                           urgent'[j].seq <= urgent'[i].seq
               /\ bulk'[d].sent => entry[d].ack <= bulk'[d].after /\ bulk'[d].after <= call'[d].applied
      BY DEF AcksRise
    <2>1. /\ call[d].applied \in Nat /\ call'[d].applied \in Nat /\ call[d].applied <= call'[d].applied
          /\ entry[d].ack \in Nat /\ entry[d].ack <= call[d].applied /\ bulk[d].after \in Nat
          /\ call'[d].peer = call[d].peer
      <3>1. /\ call[d].applied \in Nat /\ entry[d].ack \in Nat /\ entry[d].ack <= call[d].applied
        BY CallFacts
      <3>2. bulk[d].after \in Nat BY DEF IInv, Shaped, Opens
      <3>3. x.applied \in Nat BY DEF CallRecords
      <3> QED BY <1>1, <3>1, <3>2, <3>3
    <2>2. ASSUME NEW i \in DOMAIN urgent PROVE urgent[i].seq \in Nat
      BY <2>2, MessagesAreMessages DEF Messages
    <2>3. ASSUME NEW i \in DOMAIN urgent', urgent'[i].kind = "ack", urgent'[i].call = d
          PROVE  /\ entry[d].ack <= urgent'[i].seq /\ urgent'[i].seq <= call'[d].applied
                 /\ ~bulk[d].sent /\ call[d].peer = active /\ active # 0
                 /\ i \notin DOMAIN urgent => urgent'[i].seq = call'[d].applied
      <3>1. CASE i \in DOMAIN urgent BY <2>1, <2>2, <2>3, <3>1 DEF IInv, AcksRise
      <3>2. CASE i \notin DOMAIN urgent
        <4>1. d = c /\ urgent'[i].seq = x.applied /\ ~bulk[c].sent /\ active = x.peer /\ active # 0
          BY <2>3, <3>2
        <4> QED BY <1>1, <2>1, <4>1
      <3> QED BY <3>1, <3>2
    <2>4. ASSUME NEW i \in DOMAIN urgent', urgent'[i].kind = "ack", urgent'[i].call = d,
                 NEW j \in 1 .. i, urgent'[j].kind = "ack", urgent'[j].call = d
          PROVE  urgent'[j].seq <= urgent'[i].seq
      <3>1. j \in DOMAIN urgent' /\ (i \in DOMAIN urgent => j \in DOMAIN urgent)
        BY <2>4 DEF IInv, Shaped
      <3>2. CASE i \in DOMAIN urgent
        <4>1. urgent'[i] = urgent[i] /\ urgent'[j] = urgent[j] BY <3>1, <3>2
        <4> QED BY <2>4, <3>1, <3>2, <4>1 DEF IInv, AcksRise
      <3>3. CASE i \notin DOMAIN urgent
        <4>1. urgent'[i].seq = call'[d].applied BY <2>3, <2>4, <3>3
        <4>2. urgent'[j].seq <= call'[d].applied BY <2>3, <2>4, <3>1
        <4> QED BY <4>1, <4>2
      <3> QED BY <3>2, <3>3
    <2>5. bulk'[d].sent => entry[d].ack <= bulk'[d].after /\ bulk'[d].after <= call'[d].applied
      BY <1>3, <2>1 DEF IInv, AcksRise
    <2> QED BY <1>3, <2>1, <2>3, <2>4, <2>5
  <1>12. StopIsComing'
    <2> SUFFICES ASSUME NEW d \in Calls, call'[d].reader = "ended", entry[d].term = "no"
                 PROVE  IsStopped(d)'
      BY DEF StopIsComing
    <2>1. CASE d = c BY <1>1, <2>1
    <2>2. CASE d # c
      <3>1. IsStopped(d) /\ call'[d] = call[d] /\ bulk'[d] = bulk[d] /\ cancelled'[d] = cancelled[d]
        BY <1>1, <1>3, <1>4, <2>2 DEF IInv, StopIsComing
      <3> QED BY <3>1 DEF IsStopped, GivenUpBeforeOpen, LapsedBefore
    <2> QED BY <2>1, <2>2
  <1> QED BY <1>5, <1>6, <1>7, <1>8, <1>9, <1>10, <1>11, <1>12 DEF IInv

\* Frames that stay where they are stay complete.
LEMMA FramesStay ==
  ASSUME IInv, call' \in [Calls -> CallRecords],
         UNCHANGED <<ends, entry, frames>>,
         \A d \in Calls : /\ call'[d].peer = call[d].peer /\ (call[d].terminal => call'[d].terminal)
                          /\ ~call'[d].terminal => call'[d].received = call[d].received
  PROVE  NothingMissing'
  <1> SUFFICES ASSUME NEW d \in Calls, call[d].peer \in ends, ~call'[d].terminal
      PROVE  /\ NoGap(d)'
             /\ entry[d].to = call[d].peer => Reached(d, entry[d].sent)'
             /\ (entry[d].to = call[d].peer /\ entry[d].pump.link = entry[d].to) =>
                  Reached(d, entry[d].pump.seq)'
    BY DEF NothingMissing
  <1>1. /\ NoGap(d)
        /\ entry[d].to = call[d].peer => Reached(d, entry[d].sent)
        /\ (entry[d].to = call[d].peer /\ entry[d].pump.link = entry[d].to) =>
             Reached(d, entry[d].pump.seq)
    BY DEF IInv, NothingMissing
  <1>2. call'[d].peer = call[d].peer /\ call'[d].received = call[d].received
    OBVIOUS
  <1> QED BY <1>1, <1>2 DEF NoGap, Reached, InFlight

\* Frames and responses arrive or are lost with the link, calls wait again.
LEMMA LinkLessens ==
  ASSUME IInv, UNCHANGED <<cancelled, links, bulk, urgent, brokerVars>>,
         call' \in [Calls -> CallRecords], latched' \in BOOLEAN, ready' \in BOOLEAN,
         ends' \subseteq ends, peer' \in {peer, 0}, peer' # 0 => peer' \in ends', ready' => peer' # 0,
         frames' \in [Links -> Seq(Frames)],
         \A k \in Links : \A i \in DOMAIN frames'[k] :
           \E j \in DOMAIN frames[k] : frames'[k][i] = frames[k][j],
         replies' \in [Links -> [Calls -> {"none", "accepted", "rejected"}]],
         \A k \in Links, d \in Calls : replies'[k][d] \in {replies[k][d], "none"},
         \A d \in Calls :
           /\ Keeps(call[d], call'[d])
           /\ (active \in ends' /\ call[d].peer = active /\ call[d].phase = "opening") =>
                call'[d].phase = "opening",
         PhasesAgree', NothingMissing'
  PROVE  IInv'
  <1> USE DEF brokerVars
  <1>1. Shaped' BY DEF IInv, Shaped
  <1>2. LinksAgree' BY DEF IInv, LinksAgree, Keeps
  <1>3. FirstIsFirst' BY DEF IInv, FirstIsFirst, Keeps
  <1>4. AnswersAgree'
    <2>1. ASSUME NEW d \in Calls PROVE BuffersAgree(call'[d], entry[d])
      <3>1. Keeps(call[d], call'[d]) /\ BuffersAgree(call[d], entry[d]) BY DEF IInv, AnswersAgree
      <3> QED BY <3>1 DEF BuffersAgree, Keeps
    <2>2. ASSUME NEW k \in Links, NEW i \in DOMAIN frames'[k]
          PROVE  IsOf(frames'[k][i], entry[frames'[k][i].call])
      <3>1. PICK j \in DOMAIN frames[k] : frames'[k][i] = frames[k][j] BY <2>2
      <3> QED BY <3>1 DEF IInv, AnswersAgree
    <2> QED BY <2>1, <2>2 DEF IInv, AnswersAgree
  <1>5. OpenedOnce'
    <2>1. ASSUME NEW d \in Calls PROVE call'[d].peer = call[d].peer /\ call'[d].admitted = call[d].admitted
      BY DEF Keeps
    <2>2. ASSUME NEW d \in Calls, NEW k \in Links
          PROVE  /\ (\E i \in DOMAIN frames'[k] : frames'[k][i].call = d) => k <= call[d].peer
                 /\ replies'[k][d] # "none" => k <= call[d].peer
      <3>1. /\ \A j \in DOMAIN frames[k] : frames[k][j].call = d => k <= call[d].peer
            /\ replies[k][d] # "none" => k <= call[d].peer
        BY DEF IInv, OpenedOnce
      <3>2. ASSUME NEW i \in DOMAIN frames'[k], frames'[k][i].call = d PROVE k <= call[d].peer
        <4>1. PICK j \in DOMAIN frames[k] : frames'[k][i] = frames[k][j] BY <3>2
        <4> QED BY <3>1, <3>2, <4>1
      <3>3. replies'[k][d] \in {replies[k][d], "none"} OBVIOUS
      <3> QED BY <3>1, <3>2, <3>3
    <2>3. ASSUME NEW d \in Calls, bulk[d].sent
          PROVE  /\ replies'[active][d] = "none"
                 /\ \A i \in DOMAIN frames'[active] : frames'[active][i].call # d
                 /\ active \in ends' => call'[d].phase = "opening" \/ bulk[d].cancel
      <3>1. active # 0 /\ call[d].peer = active BY <2>3 DEF IInv, OpenedOnce
      <3>2. active \in Links BY <3>1, LinkIsLink
      <3>3. /\ ~call[d].admitted /\ replies[active][d] = "none"
            /\ \A i \in DOMAIN frames[active] : frames[active][i].call # d
            /\ active \in ends => call[d].phase = "opening" \/ bulk[d].cancel
        BY <2>3 DEF IInv, OpenedOnce
      <3>4. replies'[active][d] = "none"
        <4>1. replies'[active][d] \in {replies[active][d], "none"} BY <3>2
        <4> QED BY <3>3, <4>1
      <3>5. ASSUME NEW i \in DOMAIN frames'[active] PROVE frames'[active][i].call # d
        <4>1. PICK j \in DOMAIN frames[active] : frames'[active][i] = frames[active][j]
          BY <3>2, <3>5
        <4> QED BY <3>3, <4>1
      <3> QED BY <3>1, <3>3, <3>4, <3>5
    <2> QED BY SMTT(30), <2>1, <2>2, <2>3 DEF IInv, OpenedOnce
  <1>6. AcksRise'
    <2>1. \A d \in Calls : call'[d].applied = call[d].applied /\ call'[d].peer = call[d].peer BY DEF Keeps
    <2> QED BY <2>1 DEF IInv, AcksRise
  <1>7. StopIsComing'
    <2> SUFFICES ASSUME NEW d \in Calls, call'[d].reader = "ended", entry[d].term = "no"
                 PROVE  IsStopped(d)'
      BY DEF StopIsComing
    <2>1. call'[d].peer = call[d].peer /\ IsStopped(d)
      BY DEF IInv, StopIsComing, Keeps
    <2> QED BY <2>1 DEF IsStopped, GivenUpBeforeOpen, LapsedBefore
  <1> QED BY <1>1, <1>2, <1>3, <1>4, <1>5, <1>6, <1>7 DEF IInv

\* v is u with messages about c, whose acknowledgements are for s and wanted.
Grown(c, u, v, s) ==
  /\ v \in Seq(Messages)
  /\ \A i \in DOMAIN u : i \in DOMAIN v /\ v[i] = u[i]
  /\ \A i \in DOMAIN v :
       \/ i \in DOMAIN u
       \/ /\ v[i].call = c
          /\ v[i].kind = "ack" => v[i].seq = s /\ ~bulk[c].sent /\ active = call[c].peer /\ active # 0

LEMMA GrownMore ==
  ASSUME IInv, NEW c \in Calls, NEW u \in Seq(Messages), NEW v, NEW s, Grown(c, u, v, s), NEW k,
         NEW m \in Messages, m.call = c,
         (m.kind = "ack" /\ Works(k)) => m.seq = s /\ ~bulk[c].sent /\ active = call[c].peer
  PROVE  /\ Grown(c, u, Sending(v, k, m), s)
         /\ Works(k) => \E i \in DOMAIN Sending(v, k, m) : Sending(v, k, m)[i] = m
  <1>1. v \in Seq(Messages) BY DEF Grown
  <1>2. CASE Works(k)
    <2>1. Sending(v, k, m) = Append(v, m) BY <1>2 DEF Sending
    <2>2. /\ Append(v, m) \in Seq(Messages) /\ DOMAIN Append(v, m) = 1 .. Len(v) + 1
          /\ DOMAIN v = 1 .. Len(v) /\ Len(v) \in Nat
          /\ \A i \in DOMAIN v : Append(v, m)[i] = v[i]
          /\ Append(v, m)[Len(v) + 1] = m
      BY <1>1
    <2>3. active # 0 BY <1>2, LinkIsLink DEF Works
    <2>4. ASSUME NEW i \in DOMAIN Append(v, m)
          PROVE  \/ i \in DOMAIN v /\ Append(v, m)[i] = v[i]
                 \/ i = Len(v) + 1 /\ Append(v, m)[i] = m
      BY <2>2, <2>4
    <2>5. Grown(c, u, Append(v, m), s)
      BY <1>2, <2>2, <2>3, <2>4 DEF Grown
    <2>6. Len(v) + 1 \in DOMAIN Append(v, m) BY <2>2
    <2> QED BY <2>1, <2>2, <2>5, <2>6
  <1>3. CASE ~Works(k) BY <1>3 DEF Sending
  <1> QED BY <1>2, <1>3

LEMMA AckedGrows ==
  ASSUME IInv, NEW c \in Calls, NEW r \in CallRecords, r.peer = call[c].peer,
         r.admitted => ~bulk[c].sent
  PROVE  Grown(c, urgent, Acked(c, r), r.applied)
  <1>1. urgent \in Seq(Messages) BY DEF IInv, Shaped
  <1>2. Grown(c, urgent, urgent, r.applied) BY <1>1 DEF Grown
  <1> DEFINE m == Ack(c, r.applied)
  <1>3. m \in Messages /\ m.call = c /\ m.seq = r.applied
    BY DEF Ack, Messages, CallRecords
  <1> HIDE DEF m
  <1>4. CASE r.admitted
    <2>1. Works(r.peer) => active = call[c].peer BY DEF Works
    <2>2. Grown(c, urgent, Sending(urgent, r.peer, m), r.applied)
      BY <1>1, <1>2, <1>3, <1>4, <2>1, GrownMore
    <2> QED BY <1>4, <2>2 DEF Acked, m
  <1>5. CASE ~r.admitted BY <1>2, <1>5 DEF Acked
  <1> QED BY <1>4, <1>5

LEMMA CancelGrows ==
  ASSUME IInv, NEW c \in Calls, NEW u, NEW s, Grown(c, urgent, u, s), NEW r \in CallRecords,
         CancelCall(c, r, u)
  PROVE  /\ Grown(c, urgent, urgent', s)
         /\ cancelled' = cancelled \/ cancelled' = [cancelled EXCEPT ![c] = GivenUp]
         /\ r.attempted =>
              /\ cancelled' = [cancelled EXCEPT ![c] = GivenUp]
              /\ Works(r.peer) =>
                   \E i \in DOMAIN urgent' : urgent'[i].kind = "cancel" /\ urgent'[i].call = c
  <1> DEFINE m == Cancel(c)
  <1>1. m \in Messages /\ m.call = c /\ m.kind = "cancel"
    BY DEF Cancel, Messages
  <1>2. urgent \in Seq(Messages) BY DEF IInv, Shaped
  <1> HIDE DEF m
  <1>3. /\ Grown(c, urgent, Sending(u, r.peer, m), s)
        /\ Works(r.peer) => \E i \in DOMAIN Sending(u, r.peer, m) : Sending(u, r.peer, m)[i] = m
    BY <1>1, <1>2, GrownMore
  <1>4. urgent' = IF r.attempted THEN Sending(u, r.peer, m) ELSE u
    BY DEF CancelCall, m
  <1>5. cancelled' = IF r.attempted THEN [cancelled EXCEPT ![c] = GivenUp] ELSE cancelled
    BY DEF CancelCall
  <1> QED BY <1>1, <1>3, <1>4, <1>5

LEMMA RequestAborted ==
  ASSUME IInv, NEW c \in Calls, NEW r \in CallRecords, r.phase = call[c].phase, AbortRequest(c, r)
  PROVE  /\ bulk' = bulk \/ bulk' = [bulk EXCEPT ![c].cancel = TRUE]
         /\ bulk'[c].sent = bulk[c].sent
         /\ (bulk[c].sent /\ active \in ends) => bulk'[c].cancel
  <1>1. bulk \in [Calls -> Opens] /\ bulk[c] \in Opens BY DEF IInv, Shaped
  <1>2. (bulk[c].sent /\ active \in ends) => call[c].phase = "opening" \/ bulk[c].cancel
    BY DEF IInv, OpenedOnce
  <1>3. CASE r.phase = "opening" /\ bulk[c].sent
    <2>1. bulk' = [bulk EXCEPT ![c].cancel = TRUE] BY <1>3 DEF AbortRequest
    <2>2. ASSUME NEW b \in Opens
          PROVE  LET y == [b EXCEPT !.cancel = TRUE] IN y.sent = b.sent /\ y.cancel
      BY DEF Opens
    <2> QED BY <1>1, <2>1, <2>2
  <1>4. CASE ~(r.phase = "opening" /\ bulk[c].sent)
    <2>1. bulk' = bulk BY <1>4 DEF AbortRequest
    <2> QED BY <1>2, <1>4, <2>1
  <1> QED BY <1>3, <1>4

\* The caller's end of a call.
LEMMA LeaveKeeps ==
  ASSUME IInv, NEW c \in Calls, NEW r \in CallRecords, NEW how \in {"normal", "failed"}, NEW u,
         Leave(c, r, how, u),
         UNCHANGED <<peer, ready, links, ends, frames, replies, active, entry, ran>>, latched' \in BOOLEAN,
         call[c].reader # "ended", r.peer = call[c].peer, r.phase = call[c].phase,
         r.attempted = call[c].attempted, call[c].applied <= r.applied, r.applied <= entry[c].n,
         Grown(c, urgent, u, r.applied),
         (r.terminal /\ ~r.error) => entry[c].term # "no"
  PROVE  IInv'
  <1> DEFINE x == [NewCall EXCEPT !.phase = "over", !.terminal = TRUE, !.reader = "ended",
                                  !.peer = r.peer, !.applied = r.applied, !.how = how]
  <1>1. call' = [call EXCEPT ![c] = x] /\ AbortRequest(c, r)
    BY DEF Leave
  <1>2. r.peer \in Nat /\ r.applied \in Nat BY DEF CallRecords
  <1>3. x \in CallRecords BY <1>2, NewCallIsCall DEF CallRecords
  <1>4. /\ x.phase = "over" /\ x.terminal /\ x.reader = "ended" /\ x.peer = r.peer
        /\ x.applied = r.applied /\ x.given = 0 /\ ~x.admitted
    BY DEF NewCall
  <1> HIDE DEF x
  <1>5. PhaseAgrees(x) /\ BuffersAgree(x, entry[c])
    BY <1>4, LinkIsLink DEF PhaseAgrees, BuffersAgree
  <1>6. call' \in [Calls -> CallRecords] /\ call'[c] = x /\ \A d \in Calls : d # c => call'[d] = call[d]
    BY <1>1, <1>3 DEF IInv, Shaped
  <1>7. NothingMissing'
    BY <1>4, <1>6, FramesStay
  <1>8. /\ bulk' = bulk \/ bulk' = [bulk EXCEPT ![c].cancel = TRUE]
        /\ bulk'[c].sent = bulk[c].sent
        /\ (bulk[c].sent /\ active \in ends) => bulk'[c].cancel
    BY <1>1, RequestAborted
  <1>9. /\ Grown(c, urgent, urgent', r.applied)
        /\ cancelled' = cancelled \/ cancelled' = [cancelled EXCEPT ![c] = GivenUp]
        /\ entry[c].term = "no" => IsStopped(c)'
    <2>1. CASE ~r.terminal \/ r.error
      <3>1. CancelCall(c, r, u) BY <2>1 DEF Leave
      <3>2. /\ Grown(c, urgent, urgent', r.applied)
            /\ cancelled' = cancelled \/ cancelled' = [cancelled EXCEPT ![c] = GivenUp]
            /\ r.attempted =>
                 /\ cancelled' = [cancelled EXCEPT ![c] = GivenUp]
                 /\ Works(r.peer) =>
                      \E i \in DOMAIN urgent' : urgent'[i].kind = "cancel" /\ urgent'[i].call = c
        BY <3>1, CancelGrows
      <3>3. IsStopped(c)'
        <4>1. CASE r.attempted
          <5>1. cancelled'[c].at = 1 + peer /\ peer \in Nat
            BY <3>2, <4>1, LinkIsLink DEF IInv, Shaped, GivenUp
          <5>2. (peer # 0 /\ active = peer /\ call[c].peer = peer) => Works(r.peer)
            BY DEF Works, IInv, LinksAgree
          <5> QED BY <1>4, <1>6, <3>2, <4>1, <5>1, <5>2 DEF IsStopped, GivenUpBeforeOpen, LapsedBefore
        <4>2. CASE ~r.attempted
          <5>1. entry[c].state # "live" /\ ~bulk[c].sent
            BY <4>2 DEF IInv, FirstIsFirst, NewEntry
          <5> QED BY <1>8, <5>1 DEF IsStopped
        <4> QED BY <4>1, <4>2
      <3> QED BY <3>2, <3>3
    <2>2. CASE r.terminal /\ ~r.error
      <3>1. urgent' = u /\ cancelled' = cancelled BY <2>2 DEF Leave
      <3> QED BY <2>2, <3>1
    <2> QED BY <2>1, <2>2
  <1>10. frames \in [Links -> Seq(Frames)]
         /\ replies \in [Links -> [Calls -> {"none", "accepted", "rejected"}]]
    BY DEF IInv, Shaped
  <1>11. /\ urgent' \in Seq(Messages)
         /\ \A i \in DOMAIN urgent : i \in DOMAIN urgent' /\ urgent'[i] = urgent[i]
         /\ \A i \in DOMAIN urgent' :
              \/ i \in DOMAIN urgent
              \/ /\ urgent'[i].call = c
                 /\ urgent'[i].kind = "ack" =>
                      urgent'[i].seq = x.applied /\ ~bulk[c].sent /\ active = x.peer /\ active # 0
    BY <1>4, <1>9 DEF Grown
  <1> QED BY <1>1, <1>3, <1>4, <1>5, <1>7, <1>8, <1>9, <1>10, <1>11, CallMovesOn

LEMMA AbortKeeps ==
  ASSUME IInv, NEW c \in Calls, Abort(c)
  PROVE  IInv'
  <1> DEFINE r == call[c]
             x == [r EXCEPT !.phase = "over", !.aborted = TRUE, !.error = TRUE, !.terminal = TRUE,
                            !.given = 0]
  <1>1. /\ r.phase # "none" /\ r.reader # "ended"
        /\ call' = [call EXCEPT ![c] = x] /\ CancelCall(c, r, urgent) /\ AbortRequest(c, r)
        /\ UNCHANGED <<latched, peer, ready, links, ends, frames, replies, brokerVars>>
    BY DEF Abort
  <1>2. r \in CallRecords BY CallFacts
  <1>3. x \in CallRecords BY <1>2 DEF CallRecords
  <1>4. /\ x.phase = "over" /\ x.terminal /\ x.error /\ x.reader = r.reader /\ x.peer = r.peer
        /\ x.applied = r.applied /\ x.given = 0 /\ x.admitted = r.admitted /\ x.attempted = r.attempted
        /\ x.how = r.how /\ x.queue = r.queue /\ x.received = r.received
    BY <1>2 DEF CallRecords
  <1>5. PhaseAgrees(r) /\ BuffersAgree(r, entry[c]) /\ r.applied \in Nat
    BY CallFacts DEF IInv, PhasesAgree, AnswersAgree
  <1>6. bulk[c].sent => ~r.admitted BY DEF IInv, OpenedOnce
  <1> HIDE DEF x
  <1>7. PhaseAgrees(x) /\ BuffersAgree(x, entry[c])
    BY <1>1, <1>4, <1>5, LinkIsLink DEF PhaseAgrees, BuffersAgree
  <1>8. call' \in [Calls -> CallRecords] /\ call'[c] = x /\ \A d \in Calls : d # c => call'[d] = call[d]
    BY <1>1, <1>3 DEF IInv, Shaped
  <1>9. NothingMissing'
    BY <1>1, <1>4, <1>8, FramesStay DEF brokerVars
  <1>10. /\ bulk' = bulk \/ bulk' = [bulk EXCEPT ![c].cancel = TRUE]
         /\ (bulk[c].sent /\ active \in ends) => bulk'[c].cancel
    BY <1>1, <1>2, RequestAborted
  <1>11. Grown(c, urgent, urgent, r.applied) BY DEF Grown, IInv, Shaped
  <1>12. /\ Grown(c, urgent, urgent', r.applied)
         /\ cancelled' = cancelled \/ cancelled' = [cancelled EXCEPT ![c] = GivenUp]
    BY <1>1, <1>2, <1>11, CancelGrows
  <1>13. frames \in [Links -> Seq(Frames)] /\ latched \in BOOLEAN
         /\ replies \in [Links -> [Calls -> {"none", "accepted", "rejected"}]]
    BY DEF IInv, Shaped
  <1>14. /\ urgent' \in Seq(Messages)
         /\ \A i \in DOMAIN urgent : i \in DOMAIN urgent' /\ urgent'[i] = urgent[i]
         /\ \A i \in DOMAIN urgent' :
              \/ i \in DOMAIN urgent
              \/ /\ urgent'[i].call = c
                 /\ urgent'[i].kind = "ack" =>
                      urgent'[i].seq = x.applied /\ ~bulk[c].sent /\ active = x.peer /\ active # 0
    BY <1>4, <1>12 DEF Grown
  <1>15. /\ UNCHANGED <<peer, ready, links, ends, active, entry, ran>> /\ latched' \in BOOLEAN
         /\ frames' = frames /\ replies' = replies
    BY <1>1, <1>13 DEF brokerVars
  <1>16. /\ frames' \in [Links -> Seq(Frames)]
         /\ \A k \in Links : \A i \in DOMAIN frames'[k] :
              \E j \in DOMAIN frames[k] : frames'[k][i] = frames[k][j]
         /\ replies' \in [Links -> [Calls -> {"none", "accepted", "rejected"}]]
         /\ \A k \in Links, d \in Calls : replies'[k][d] \in {replies[k][d], "none"}
    BY <1>13, <1>15
  <1>17. /\ call[c].reader # "ended" /\ x.attempted = call[c].attempted /\ x.peer = call[c].peer
         /\ call[c].applied <= x.applied /\ x.reader # "ended"
         /\ bulk[c].sent => ~x.admitted /\ (active \in ends => x.phase = "opening" \/ bulk'[c].cancel)
    BY <1>1, <1>4, <1>5, <1>6, <1>10
  <1>18. call' = [call EXCEPT ![c] = x] BY <1>1
  <1> HIDE DEF r
  <1> QED BY <1>3, <1>7, <1>9, <1>10, <1>12, <1>14, <1>15, <1>16, <1>17, <1>18, CallMovesOn

LEMMA AnsweredKeeps ==
  ASSUME IInv, NEW k \in Links, NEW c \in Calls, Answered(k, c)
  PROVE  IInv'
  <1> DEFINE r == call[c]
             a == [r EXCEPT !.phase = "open", !.admitted = TRUE]
             waits == r.phase = "opening" /\ r.peer = k
  <1>1. /\ replies[k][c] # "none" /\ replies' = [replies EXCEPT ![k][c] = "none"]
        /\ UNCHANGED <<cancelled, peer, ready, links, ends, bulk, frames, brokerVars>>
    BY DEF Answered
  <1>2. /\ replies' \in [Links -> [Calls -> {"none", "accepted", "rejected"}]]
        /\ \A j \in Links, d \in Calls : replies'[j][d] \in {replies[j][d], "none"}
        /\ frames \in [Links -> Seq(Frames)] /\ call \in [Calls -> CallRecords]
        /\ urgent \in Seq(Messages) /\ latched \in BOOLEAN /\ ready \in BOOLEAN
    BY <1>1 DEF IInv, Shaped
  <1>3. /\ r \in CallRecords /\ PhaseAgrees(r) /\ BuffersAgree(r, entry[c]) /\ r.applied \in Nat
    BY CallFacts DEF IInv, PhasesAgree, AnswersAgree
  <1>4. waits => ~bulk[c].sent BY <1>1 DEF IInv, OpenedOnce
  <1>5. CASE waits /\ call' = [call EXCEPT ![c] = a] /\ urgent' = Acked(c, a) /\ latched' = latched
    <2>1. a \in CallRecords BY <1>3 DEF CallRecords
    <2>2. /\ a.phase = "open" /\ a.admitted /\ a.given = r.given /\ a.reader = r.reader /\ a.peer = r.peer
          /\ a.applied = r.applied /\ a.terminal = r.terminal /\ a.error = r.error
          /\ a.attempted = r.attempted /\ a.how = r.how /\ a.queue = r.queue /\ a.received = r.received
      BY <1>3 DEF CallRecords
    <2> HIDE DEF a
    <2>3. PhaseAgrees(a) /\ BuffersAgree(a, entry[c])
      BY <1>3, <1>5, <2>2 DEF PhaseAgrees, BuffersAgree
    <2>4. r.reader # "ended" BY <1>3, <1>5 DEF PhaseAgrees
    <2>5. call' \in [Calls -> CallRecords] /\ call'[c] = a /\ \A d \in Calls : d # c => call'[d] = call[d]
      BY <1>2, <1>5, <2>1
    <2>6. NothingMissing' BY <1>1, <2>2, <2>5, FramesStay DEF brokerVars
    <2>7. Grown(c, urgent, urgent', a.applied)
      BY <1>4, <1>5, <2>1, <2>2, AckedGrows
    <2>8. /\ urgent' \in Seq(Messages)
          /\ \A i \in DOMAIN urgent : i \in DOMAIN urgent' /\ urgent'[i] = urgent[i]
          /\ \A i \in DOMAIN urgent' :
               \/ i \in DOMAIN urgent
               \/ /\ urgent'[i].call = c
                  /\ urgent'[i].kind = "ack" =>
                       urgent'[i].seq = a.applied /\ ~bulk[c].sent /\ active = a.peer /\ active # 0
      BY <2>2, <2>7 DEF Grown
    <2>20. /\ UNCHANGED <<cancelled, peer, ready, links, ends, active, entry, ran>> /\ latched' \in BOOLEAN
           /\ frames' = frames /\ bulk' = bulk
      BY <1>1, <1>2, <1>5 DEF brokerVars
    <2>21. /\ frames' \in [Links -> Seq(Frames)]
           /\ \A j \in Links : \A i \in DOMAIN frames'[j] :
                \E n \in DOMAIN frames[j] : frames'[j][i] = frames[j][n]
      BY <1>2, <2>20
    <2>22. /\ call[c].reader # "ended" /\ a.attempted = call[c].attempted /\ a.peer = call[c].peer
           /\ call[c].applied <= a.applied /\ a.reader # "ended" /\ ~bulk[c].sent
      BY <1>3, <1>4, <1>5, <2>2, <2>3, <2>4, <2>7
    <2>23. call' = [call EXCEPT ![c] = a] BY <1>5
    <2> HIDE DEF r, waits
    <2> QED BY <1>2, <2>1, <2>3, <2>6, <2>8, <2>20, <2>21, <2>22, <2>23, CallMovesOn
  <1>6. CASE waits /\ call' = [call EXCEPT ![c] = Failed(r)] /\ urgent' = urgent /\ latched' = TRUE
    <2> DEFINE x == Failed(r)
    <2>1. x \in CallRecords /\ Keeps(r, x) /\ x.phase = "over" /\ x.error /\ x.terminal /\ x.given = r.given
      BY <1>3, FailedFacts
    <2> HIDE DEF x
    <2>2. PhaseAgrees(x) /\ BuffersAgree(x, entry[c])
      BY <1>3, <1>6, <2>1 DEF PhaseAgrees, BuffersAgree, Keeps
    <2>3. r.reader # "ended" BY <1>3, <1>6 DEF PhaseAgrees
    <2>4. call' = [call EXCEPT ![c] = x] BY <1>6 DEF x
    <2>5. call' \in [Calls -> CallRecords] /\ call'[c] = x /\ \A d \in Calls : d # c => call'[d] = call[d]
      BY <1>2, <2>1, <2>4
    <2>6. NothingMissing' BY <1>1, <2>1, <2>5, FramesStay DEF brokerVars, Keeps
    <2>7. /\ x.peer = r.peer /\ x.applied = r.applied /\ x.attempted = r.attempted /\ x.reader = r.reader
      BY <2>1 DEF Keeps
    <2>8. /\ urgent' \in Seq(Messages)
          /\ \A i \in DOMAIN urgent : i \in DOMAIN urgent' /\ urgent'[i] = urgent[i]
          /\ \A i \in DOMAIN urgent' : i \in DOMAIN urgent
      BY <1>2, <1>6
    <2>20. /\ UNCHANGED <<cancelled, peer, ready, links, ends, active, entry, ran>> /\ latched' \in BOOLEAN
           /\ frames' = frames /\ bulk' = bulk
      BY <1>1, <1>2, <1>6 DEF brokerVars
    <2>21. /\ frames' \in [Links -> Seq(Frames)]
           /\ \A j \in Links : \A i \in DOMAIN frames'[j] :
                \E n \in DOMAIN frames[j] : frames'[j][i] = frames[j][n]
      BY <1>2, <2>20
    <2>22. /\ call[c].reader # "ended" /\ x.attempted = call[c].attempted /\ x.peer = call[c].peer
           /\ call[c].applied <= x.applied /\ x.reader # "ended" /\ ~bulk[c].sent
      BY <1>3, <1>4, <1>6, <2>2, <2>3, <2>4, <2>7
    <2>23. call' = [call EXCEPT ![c] = x] BY <2>4
    <2> HIDE DEF r, waits
    <2> QED BY <1>2, <2>1, <2>2, <2>6, <2>8, <2>20, <2>21, <2>22, <2>23, CallMovesOn
  <1>7. CASE UNCHANGED <<call, latched, urgent>>
    <2>1. PhasesAgree' BY <1>1, <1>7 DEF IInv, PhasesAgree, PhaseAgrees
    <2>2. NothingMissing' BY <1>1, <1>2, <1>7, FramesStay DEF brokerVars
    <2>3. \A d \in Calls : Keeps(call[d], call[d]) BY DEF Keeps
    <2>4. /\ peer # 0 => peer \in ends
          /\ ready => peer # 0
      BY DEF IInv, LinksAgree
    <2> QED BY <1>1, <1>2, <1>7, <2>1, <2>2, <2>3, <2>4, LinkLessens
  <1> QED BY <1>5, <1>6, <1>7 DEF Answered

LEMMA TakeKeeps ==
  ASSUME IInv, NEW c \in Calls, Take(c)
  PROVE  IInv'
  <1> DEFINE r == call[c]
             x == [r EXCEPT !.reader = "applying"]
  <1>1. /\ r.phase # "none" /\ r.reader = "idle"
        /\ UNCHANGED <<peer, ready, links, ends, frames, replies, brokerVars>>
    BY DEF Take
  <1>2. /\ r \in CallRecords /\ PhaseAgrees(r) /\ BuffersAgree(r, entry[c]) /\ r.applied \in Nat
        /\ r.applied <= entry[c].n
    BY CallFacts DEF IInv, PhasesAgree, AnswersAgree
  <1>3. UNCHANGED <<peer, ready, links, ends, frames, replies, active, entry, ran>>
    BY <1>1 DEF brokerVars
  <1>4. Grown(c, urgent, urgent, r.applied) BY DEF Grown, IInv, Shaped
  <1>5. CASE Leave(c, r, "failed", urgent) /\ (latched' = TRUE \/ latched' = latched)
    <2>1. latched' \in BOOLEAN BY <1>5 DEF IInv, Shaped
    <2>2. (r.terminal /\ ~r.error) => entry[c].term # "no" BY <1>1, <1>2 DEF PhaseAgrees
    <2>3. call[c].reader # "ended" /\ call[c].applied <= r.applied BY <1>1, <1>2
    <2> QED BY <1>2, <1>3, <1>4, <1>5, <2>1, <2>2, <2>3, LeaveKeeps
  <1>6. CASE /\ r.queue # <<>> /\ Head(r.queue).kind # "failure"
             /\ call' = [call EXCEPT ![c].reader = "applying"]
             /\ UNCHANGED <<cancelled, latched, bulk, urgent>>
    <2>1. x \in CallRecords BY <1>2 DEF CallRecords
    <2>2. /\ x.phase = r.phase /\ x.admitted = r.admitted /\ x.given = r.given /\ x.reader = "applying"
          /\ x.peer = r.peer /\ x.applied = r.applied /\ x.terminal = r.terminal /\ x.error = r.error
          /\ x.attempted = r.attempted /\ x.how = r.how /\ x.queue = r.queue /\ x.received = r.received
      BY <1>2 DEF CallRecords
    <2>3. call' = [call EXCEPT ![c] = x] BY <1>6
    <2> HIDE DEF x
    <2>4. PhaseAgrees(x) /\ BuffersAgree(x, entry[c])
      BY <1>1, <1>2, <1>6, <2>2 DEF PhaseAgrees, BuffersAgree
    <2>5. call' \in [Calls -> CallRecords] /\ call'[c] = x /\ \A d \in Calls : d # c => call'[d] = call[d]
      BY <2>1, <2>3 DEF IInv, Shaped
    <2>6. NothingMissing' BY <1>3, <2>2, <2>5, FramesStay
    <2>7. /\ latched' \in BOOLEAN /\ frames' \in [Links -> Seq(Frames)] /\ urgent' \in Seq(Messages)
          /\ replies' \in [Links -> [Calls -> {"none", "accepted", "rejected"}]]
      BY <1>3, <1>6 DEF IInv, Shaped
    <2>8. /\ \A k \in Links : \A i \in DOMAIN frames'[k] :
               \E j \in DOMAIN frames[k] : frames'[k][i] = frames[k][j]
          /\ \A k \in Links, d \in Calls : replies'[k][d] \in {replies[k][d], "none"}
          /\ \A i \in DOMAIN urgent : i \in DOMAIN urgent' /\ urgent'[i] = urgent[i]
          /\ \A i \in DOMAIN urgent' : i \in DOMAIN urgent
      BY <1>3, <1>6
    <2>9. /\ call[c].reader # "ended" /\ x.attempted = call[c].attempted /\ x.peer = call[c].peer
          /\ call[c].applied <= x.applied /\ x.reader # "ended" /\ bulk' = bulk
          /\ bulk[c].sent => ~x.admitted /\ (active \in ends => x.phase = "opening" \/ bulk'[c].cancel)
      BY <1>1, <1>2, <1>6, <2>2 DEF IInv, OpenedOnce
    <2>10. cancelled' = cancelled BY <1>6
    <2> HIDE DEF r
    <2> QED BY <1>3, <2>1, <2>3, <2>4, <2>6, <2>7, <2>8, <2>9, <2>10, CallMovesOn
  <1> QED BY <1>5, <1>6 DEF Take

\* The frame that is read is the next one of the answer.
LEMMA ReadFacts ==
  ASSUME IInv, NEW c \in Calls, call[c].reader = "applying"
  PROVE  LET r == call[c]
             f == Head(r.queue)
             x == [r EXCEPT !.queue = Tail(@), !.applied = f.seq, !.reader = "idle"]
         IN  /\ f \in Frames /\ IsOf(f, entry[c]) /\ f.kind # "failure" /\ f.seq = r.applied + 1
             /\ x \in CallRecords /\ BuffersAgree(x, entry[c]) /\ PhaseAgrees(x)
             /\ x.applied = f.seq /\ x.reader = "idle" /\ x.peer = r.peer /\ x.admitted = r.admitted
             /\ x.phase = r.phase /\ x.attempted = r.attempted /\ x.terminal = r.terminal
             /\ x.error = r.error /\ x.received = r.received
             /\ r.applied <= x.applied /\ x.applied <= entry[c].n
  <1> DEFINE r == call[c]
             f == Head(r.queue)
             x == [r EXCEPT !.queue = Tail(r.queue), !.applied = f.seq, !.reader = "idle"]
  <1>1. /\ r \in CallRecords /\ PhaseAgrees(r) /\ BuffersAgree(r, entry[c]) /\ r.applied \in Nat
        /\ r.queue \in Seq(Frames) /\ r.received \in Nat /\ entry[c].n \in Nat
    BY CallFacts DEF IInv, PhasesAgree, AnswersAgree
  <1>2. r.queue # <<>> /\ f.kind # "failure" BY <1>1 DEF PhaseAgrees
  <1>3. /\ f = r.queue[1] /\ 1 \in DOMAIN r.queue /\ f \in Frames /\ Tail(r.queue) \in Seq(Frames)
        /\ Len(Tail(r.queue)) = Len(r.queue) - 1 /\ Len(r.queue) \in Nat /\ Len(r.queue) >= 1
        /\ \A i \in DOMAIN Tail(r.queue) : i \in Nat /\ i + 1 \in DOMAIN r.queue /\ Tail(r.queue)[i] = r.queue[i + 1]
    BY <1>1, <1>2
  <1>4. IsOf(f, entry[c]) /\ f.seq = r.applied + 1
    BY <1>1, <1>3 DEF BuffersAgree
  <1>5. f.seq \in Nat /\ f.seq <= entry[c].n /\ r.applied <= f.seq BY <1>1, <1>3, <1>4 DEF Frames, IsOf
  <1>6. x \in CallRecords BY <1>1, <1>3, <1>5 DEF CallRecords
  <1>7. /\ x.phase = r.phase /\ x.admitted = r.admitted /\ x.given = r.given /\ x.reader = "idle"
        /\ x.peer = r.peer /\ x.applied = f.seq /\ x.terminal = r.terminal /\ x.error = r.error
        /\ x.attempted = r.attempted /\ x.how = r.how /\ x.queue = Tail(r.queue) /\ x.received = r.received
    BY <1>1 DEF CallRecords
  <1> HIDE DEF x
  <1>8. BuffersAgree(x, entry[c])
    <2>1. ASSUME NEW i \in DOMAIN x.queue
          PROVE  IsOf(x.queue[i], entry[c]) /\ x.queue[i].seq = x.applied + i
      <3>1. i + 1 \in DOMAIN r.queue /\ x.queue[i] = r.queue[i + 1] /\ i \in Nat BY <1>3, <1>7
      <3>2. IsOf(r.queue[i + 1], entry[c]) /\ r.queue[i + 1].seq = r.applied + (i + 1)
        BY <1>1, <3>1 DEF BuffersAgree
      <3>3. x.applied = r.applied + 1 BY <1>4, <1>7
      <3>4. x.queue[i].seq = x.applied + i BY SMTT(30), <1>1, <3>1, <3>2, <3>3
      <3> QED BY <3>1, <3>2, <3>4
    <2>2. x.received = x.applied + Len(x.queue) /\ x.received <= entry[c].n
      <3>1. r.received = r.applied + Len(r.queue) /\ r.received <= entry[c].n
        BY <1>1, <1>3 DEF BuffersAgree
      <3>2. x.applied = r.applied + 1 /\ Len(x.queue) = Len(r.queue) - 1 /\ x.received = r.received
        BY <1>3, <1>4, <1>7
      <3>3. r.applied \in Nat /\ Len(r.queue) \in Nat BY <1>1, <1>3
      <3>4. \A a \in Nat, n \in Nat : a + n = (a + 1) + (n - 1) OBVIOUS
      <3>5. r.applied + Len(r.queue) = (r.applied + 1) + (Len(r.queue) - 1) BY <3>3, <3>4
      <3> HIDE DEF r, f
      <3>6. x.received = x.applied + Len(x.queue) BY <3>1, <3>2, <3>5
      <3>7. x.received <= entry[c].n BY <3>1, <3>2
      <3> QED BY <3>6, <3>7
    <2> QED BY <1>5, <1>7, <2>1, <2>2 DEF BuffersAgree
  <1>9. PhaseAgrees(x)
    <2>1. r.phase # "none"
      <3> SUFFICES ASSUME r.phase = "none" PROVE FALSE OBVIOUS
      <3>1. r = NewCall BY <1>1 DEF PhaseAgrees
      <3> QED BY <3>1 DEF NewCall
    <2> QED BY <1>1, <1>7, <2>1 DEF PhaseAgrees
  <1>10. r.applied <= x.applied /\ x.applied <= entry[c].n BY <1>5, <1>7
  <1> QED BY <1>2, <1>3, <1>4, <1>6, <1>7, <1>8, <1>9, <1>10 DEF x

LEMMA ApplyKeeps ==
  ASSUME IInv, NEW c \in Calls, Apply(c)
  PROVE  IInv'
  <1> DEFINE r == call[c]
             f == Head(r.queue)
             x == [r EXCEPT !.queue = Tail(@), !.applied = f.seq, !.reader = "idle"]
             y == [x EXCEPT !.terminal = TRUE]
  <1>1. r.reader = "applying" /\ UNCHANGED <<latched, peer, ready, links, ends, frames, replies, brokerVars>>
    BY DEF Apply
  <1>2. /\ f \in Frames /\ IsOf(f, entry[c]) /\ f.kind # "failure" /\ f.seq = r.applied + 1
        /\ x \in CallRecords /\ BuffersAgree(x, entry[c]) /\ PhaseAgrees(x)
        /\ x.applied = f.seq /\ x.reader = "idle" /\ x.peer = r.peer /\ x.admitted = r.admitted
        /\ x.phase = r.phase /\ x.attempted = r.attempted /\ x.terminal = r.terminal
        /\ x.error = r.error /\ x.received = r.received
        /\ r.applied <= x.applied /\ x.applied <= entry[c].n
    BY <1>1, ReadFacts
  <1>3. \/ call' = [call EXCEPT ![c] = x] /\ urgent' = Acked(c, x) /\ UNCHANGED <<cancelled, bulk>>
        \/ Leave(c, x, "failed", Acked(c, x))
        \/ f.kind = "end" /\ Leave(c, y, "normal", Acked(c, x))
    BY DEF Apply
  <1>4. UNCHANGED <<peer, ready, links, ends, frames, replies, active, entry, ran>> /\ latched' \in BOOLEAN
    BY <1>1 DEF brokerVars, IInv, Shaped
  <1> HIDE DEF x
  <1>5. r.reader # "ended" /\ (bulk[c].sent => ~r.admitted)
        /\ (bulk[c].sent /\ active \in ends => r.phase = "opening" \/ bulk[c].cancel)
    BY <1>1 DEF IInv, OpenedOnce
  <1>6. Grown(c, urgent, Acked(c, x), x.applied)
    BY <1>2, <1>5, AckedGrows
  <1>7. (x.terminal => x.error)
    BY <1>2 DEF PhaseAgrees
  <1>8. CASE call' = [call EXCEPT ![c] = x] /\ urgent' = Acked(c, x) /\ UNCHANGED <<cancelled, bulk>>
    <2>1. call' \in [Calls -> CallRecords] /\ call'[c] = x /\ \A d \in Calls : d # c => call'[d] = call[d]
      BY <1>2, <1>8 DEF IInv, Shaped
    <2>2. NothingMissing' BY <1>2, <1>4, <2>1, FramesStay
    <2>3. /\ frames' \in [Links -> Seq(Frames)]
          /\ replies' \in [Links -> [Calls -> {"none", "accepted", "rejected"}]]
      BY <1>4 DEF IInv, Shaped
    <2>4. /\ \A k \in Links : \A i \in DOMAIN frames'[k] :
               \E j \in DOMAIN frames[k] : frames'[k][i] = frames[k][j]
          /\ \A k \in Links, d \in Calls : replies'[k][d] \in {replies[k][d], "none"}
      BY <1>4
    <2>5. /\ urgent' \in Seq(Messages)
          /\ \A i \in DOMAIN urgent : i \in DOMAIN urgent' /\ urgent'[i] = urgent[i]
          /\ \A i \in DOMAIN urgent' :
               \/ i \in DOMAIN urgent
               \/ /\ urgent'[i].call = c
                  /\ urgent'[i].kind = "ack" =>
                       urgent'[i].seq = x.applied /\ ~bulk[c].sent /\ active = x.peer /\ active # 0
      BY <1>2, <1>6, <1>8 DEF Grown
    <2>6. /\ call[c].reader # "ended" /\ x.attempted = call[c].attempted /\ x.peer = call[c].peer
          /\ call[c].applied <= x.applied /\ x.reader # "ended" /\ bulk' = bulk /\ cancelled' = cancelled
          /\ bulk[c].sent => ~x.admitted /\ (active \in ends => x.phase = "opening" \/ bulk'[c].cancel)
      BY <1>2, <1>5, <1>8
    <2>7. call' = [call EXCEPT ![c] = x] BY <1>8
    <2>8. x \in CallRecords /\ PhaseAgrees(x) /\ BuffersAgree(x, entry[c]) BY <1>2
    <2> HIDE DEF r, f
    <2> QED BY <1>4, <2>2, <2>3, <2>4, <2>5, <2>6, <2>7, <2>8, CallMovesOn
  <1>9. CASE Leave(c, x, "failed", Acked(c, x))
    <2>1. /\ call[c].reader # "ended" /\ x.peer = call[c].peer /\ x.phase = call[c].phase
          /\ x.attempted = call[c].attempted /\ call[c].applied <= x.applied /\ x.applied <= entry[c].n
          /\ x \in CallRecords
      BY <1>2, <1>5
    <2> HIDE DEF r, f
    <2> QED BY <1>4, <1>6, <1>7, <1>9, <2>1, LeaveKeeps
  <1>10. CASE f.kind = "end" /\ Leave(c, y, "normal", Acked(c, x))
    <2>1. y \in CallRecords BY <1>2 DEF CallRecords
    <2>2. /\ y.peer = x.peer /\ y.phase = x.phase /\ y.attempted = x.attempted /\ y.applied = x.applied
      BY <1>2 DEF CallRecords
    <2> HIDE DEF y
    <2>3. entry[c].term # "no" BY <1>2, <1>10 DEF IsOf
    <2>4. /\ call[c].reader # "ended" /\ y.peer = call[c].peer /\ y.phase = call[c].phase
          /\ y.attempted = call[c].attempted /\ call[c].applied <= y.applied /\ y.applied <= entry[c].n
          /\ Grown(c, urgent, Acked(c, x), y.applied)
      BY <1>2, <1>5, <1>6, <2>2
    <2>5. Leave(c, y, "normal", Acked(c, x)) BY <1>10
    <2> HIDE DEF r, f
    <2> QED BY <1>4, <2>1, <2>3, <2>4, <2>5, LeaveKeeps
  <1> QED BY <1>3, <1>8, <1>9, <1>10

LEMMA TailFacts ==
  ASSUME NEW T, NEW s \in Seq(T), s # <<>>
  PROVE  /\ Tail(s) \in Seq(T) /\ Head(s) = s[1] /\ 1 \in DOMAIN s /\ Head(s) \in T
         /\ \A i \in DOMAIN Tail(s) :
              i \in Nat /\ i >= 1 /\ i + 1 \in DOMAIN s /\ Tail(s)[i] = s[i + 1]
         /\ \A i \in DOMAIN s : i # 1 => i \in Nat /\ i - 1 \in DOMAIN Tail(s) /\ Tail(s)[i - 1] = s[i]
  OBVIOUS

LEMMA AppendFacts ==
  ASSUME NEW T, NEW s \in Seq(T), NEW e \in T
  PROVE  /\ Append(s, e) \in Seq(T) /\ Len(Append(s, e)) = Len(s) + 1 /\ Len(s) \in Nat
         /\ Append(s, e) # <<>>
         /\ s # <<>> => Head(Append(s, e)) = Head(s)
         /\ \A i \in DOMAIN Append(s, e) : \/ i \in DOMAIN s /\ Append(s, e)[i] = s[i]
                                           \/ i = Len(s) + 1 /\ Append(s, e)[i] = e
  <1>1. Append(s, e) \in Seq(T) /\ Len(Append(s, e)) = Len(s) + 1 /\ Len(s) \in Nat
    OBVIOUS
  <1>2. \A i \in 1 .. Len(s) : Append(s, e)[i] = s[i]
    OBVIOUS
  <1>3. Append(s, e)[Len(s) + 1] = e
    OBVIOUS
  <1>4. DOMAIN Append(s, e) = 1 .. Len(s) + 1 /\ DOMAIN s = 1 .. Len(s)
    BY <1>1
  <1>5. Append(s, e) # <<>>
    BY <1>1
  <1>6. s # <<>> => Head(Append(s, e)) = Head(s)
    <2>1. Head(Append(s, e)) = Append(s, e)[1] BY <1>1, <1>5
    <2>2. s # <<>> => Head(s) = s[1] /\ 1 \in 1 .. Len(s) OBVIOUS
    <2> QED BY <1>2, <2>1, <2>2
  <1>7. \A i \in DOMAIN Append(s, e) : \/ i \in DOMAIN s /\ Append(s, e)[i] = s[i]
                                       \/ i = Len(s) + 1 /\ Append(s, e)[i] = e
    BY <1>1, <1>2, <1>3, <1>4
  <1> QED BY <1>1, <1>5, <1>6, <1>7

\* What NoGap and InFlight say of the frames of a link.
Complete(d, s, n) ==
  \A i \in DOMAIN s : (s[i].call = d /\ s[i].seq > n + 1) =>
    \E j \in 1 .. i - 1 : s[j].call = d /\ s[j].seq = s[i].seq - 1
Has(d, s, v) == \E i \in DOMAIN s : s[i].call = d /\ s[i].seq = v

LEMMA CompleteMore ==
  ASSUME NEW s \in Seq(Frames), NEW d, NEW n \in Nat, NEW m \in Nat, n <= m, Complete(d, s, n)
  PROVE  Complete(d, s, m)
  <1> SUFFICES ASSUME NEW i \in DOMAIN s, s[i].call = d, s[i].seq > m + 1
               PROVE  \E j \in 1 .. i - 1 : s[j].call = d /\ s[j].seq = s[i].seq - 1
    BY DEF Complete
  <1>1. s[i] \in Frames OBVIOUS
  <1>2. s[i].seq \in Nat BY <1>1 DEF Frames
  <1>3. s[i].seq > n + 1 BY <1>2
  <1> QED BY <1>3 DEF Complete

LEMMA CompleteTail ==
  ASSUME NEW s \in Seq(Frames), s # <<>>, NEW d, NEW n \in Nat, NEW m \in Nat, n <= m, Complete(d, s, n),
         Head(s).call = d => Head(s).seq <= m
  PROVE  Complete(d, Tail(s), m)
  <1>1. /\ Head(s) = s[1] /\ 1 \in DOMAIN s
        /\ \A i \in DOMAIN Tail(s) :
             i \in Nat /\ i >= 1 /\ i + 1 \in DOMAIN s /\ Tail(s)[i] = s[i + 1]
        /\ \A i \in DOMAIN s : i # 1 => i \in Nat /\ i - 1 \in DOMAIN Tail(s) /\ Tail(s)[i - 1] = s[i]
    BY TailFacts
  <1>2. Complete(d, s, m) BY CompleteMore
  <1> SUFFICES ASSUME NEW i \in DOMAIN Tail(s), Tail(s)[i].call = d, Tail(s)[i].seq > m + 1
               PROVE  \E j \in 1 .. i - 1 : Tail(s)[j].call = d /\ Tail(s)[j].seq = Tail(s)[i].seq - 1
    BY DEF Complete
  <1>3. i \in Nat /\ i >= 1 /\ i + 1 \in DOMAIN s /\ Tail(s)[i] = s[i + 1]
    BY <1>1
  <1>4. \A j \in DOMAIN s : s[j].seq \in Nat
    <2>1. \A j \in DOMAIN s : s[j] \in Frames OBVIOUS
    <2> QED BY <2>1 DEF Frames
  <1>5. PICK j \in 1 .. (i + 1) - 1 : s[j].call = d /\ s[j].seq = s[i + 1].seq - 1
    BY <1>2, <1>3 DEF Complete
  <1>6. j # 1
    <2> SUFFICES ASSUME j = 1 PROVE FALSE OBVIOUS
    <2>1. s[1].seq <= m /\ s[1].seq = s[i + 1].seq - 1 BY <1>1, <1>5
    <2>2. s[i + 1].seq > m + 1 BY <1>3
    <2> QED BY <1>1, <1>3, <1>4, <2>1, <2>2
  <1>7. j \in DOMAIN s /\ j \in Nat /\ j - 1 \in 1 .. i - 1 BY <1>3, <1>5, <1>6
  <1>8. Tail(s)[j - 1] = s[j] BY <1>1, <1>6, <1>7
  <1> QED BY <1>3, <1>5, <1>7, <1>8

LEMMA HasTail ==
  ASSUME NEW s \in Seq(Frames), s # <<>>, NEW d, NEW v, Has(d, s, v)
  PROVE  Has(d, Tail(s), v) \/ (Head(s).call = d /\ Head(s).seq = v)
  <1>1. PICK i \in DOMAIN s : s[i].call = d /\ s[i].seq = v BY DEF Has
  <1>2. CASE i = 1
    <2>1. Head(s) = s[1] BY TailFacts
    <2> QED BY <1>1, <1>2, <2>1
  <1>3. CASE i # 1
    <2>1. i - 1 \in DOMAIN Tail(s) /\ Tail(s)[i - 1] = s[i] BY <1>3, TailFacts
    <2> QED BY <1>1, <2>1 DEF Has
  <1> QED BY <1>2, <1>3

\* A frame is taken from a link: by the call it serves, or because it is not wanted.
LEMMA FrameTaken ==
  ASSUME IInv, NEW k \in Links, frames[k] # <<>>, call' \in [Calls -> CallRecords],
         UNCHANGED <<ends, entry>>, frames'[k] = Tail(frames[k]),
         \A j \in Links : j # k => frames'[j] = frames[j],
         \A d \in Calls :
           /\ call'[d].peer = call[d].peer /\ (call[d].terminal => call'[d].terminal)
           /\ ~call'[d].terminal =>
                /\ call[d].received <= call'[d].received
                /\ (call[d].peer = k /\ Head(frames[k]).call = d) => Head(frames[k]).seq <= call'[d].received
  PROVE  NothingMissing'
  <1>1. frames[k] \in Seq(Frames) BY DEF IInv, Shaped
  <1>2. frames'[k] = Tail(frames[k]) /\ \A j \in Links : j # k => frames'[j] = frames[j]
    OBVIOUS
  <1>3. Head(frames[k]).seq \in Nat
    <2>1. Head(frames[k]) \in Frames BY <1>1, TailFacts
    <2> QED BY <2>1 DEF Frames
  <1> SUFFICES ASSUME NEW d \in Calls, call[d].peer \in ends, ~call'[d].terminal
      PROVE  /\ NoGap(d)'
             /\ entry[d].to = call[d].peer => Reached(d, entry[d].sent)'
             /\ (entry[d].to = call[d].peer /\ entry[d].pump.link = entry[d].to) =>
                  Reached(d, entry[d].pump.seq)'
    BY DEF NothingMissing
  <1>4. /\ NoGap(d)
        /\ entry[d].to = call[d].peer => Reached(d, entry[d].sent)
        /\ (entry[d].to = call[d].peer /\ entry[d].pump.link = entry[d].to) =>
             Reached(d, entry[d].pump.seq)
    BY DEF IInv, NothingMissing
  <1>5. /\ call[d].peer \in Links /\ call'[d].peer = call[d].peer
        /\ entry[d].sent \in Nat /\ entry[d].pump.seq \in Nat
        /\ call[d].received \in Nat
    BY LinkIsLink, CallFacts
  <1>6. call'[d].received \in Nat
    BY DEF CallRecords
  <1>7. /\ call[d].received <= call'[d].received
        /\ (call[d].peer = k /\ Head(frames[k]).call = d) => Head(frames[k]).seq <= call'[d].received
    BY <1>5, <1>6
  <1>8. frames[call[d].peer] \in Seq(Frames)
    BY <1>5 DEF IInv, Shaped
  <1>9. Complete(d, frames[call[d].peer], call[d].received)
    BY <1>4 DEF NoGap, Complete
  <1>10. Complete(d, frames'[call[d].peer], call'[d].received)
    <2>1. CASE call[d].peer # k
      <3>1. frames'[call[d].peer] = frames[call[d].peer] BY <1>2, <1>5, <2>1
      <3>2. Complete(d, frames[call[d].peer], call'[d].received)
        BY <1>5, <1>6, <1>7, <1>8, <1>9, CompleteMore
      <3> QED BY <3>1, <3>2
    <2>2. CASE call[d].peer = k
      <3>1. Complete(d, Tail(frames[k]), call'[d].received)
        BY <1>1, <1>5, <1>6, <1>7, <1>9, <2>2, CompleteTail
      <3> QED BY <1>2, <2>2, <3>1
    <2> QED BY <2>1, <2>2
  <1>11. NoGap(d)'
    BY <1>5, <1>10 DEF NoGap, Complete
  <1>12. ASSUME NEW v \in Nat, Reached(d, v) PROVE Reached(d, v)'
    <2>1. CASE v <= call[d].received BY <1>5, <1>6, <1>7, <2>1 DEF Reached
    <2>2. CASE InFlight(d, v)
      <3>1. Has(d, frames[call[d].peer], v) BY <2>2 DEF InFlight, Has
      <3>2. Has(d, frames'[call[d].peer], v) \/ v <= call'[d].received
        <4>1. CASE call[d].peer # k
          <5>1. frames'[call[d].peer] = frames[call[d].peer] BY <1>2, <1>5, <4>1
          <5> QED BY <3>1, <5>1
        <4>2. CASE call[d].peer = k
          <5>1. Has(d, Tail(frames[k]), v) \/ (Head(frames[k]).call = d /\ Head(frames[k]).seq = v)
            BY <1>1, <3>1, <4>2, HasTail
          <5> QED BY <1>2, <1>7, <4>2, <5>1
        <4> QED BY <4>1, <4>2
      <3>3. Has(d, frames'[call'[d].peer], v) => InFlight(d, v)' BY DEF Has, InFlight
      <3> QED BY <1>5, <3>2, <3>3 DEF Reached
    <2> QED BY <1>12, <2>1, <2>2 DEF Reached
  <1> QED BY <1>4, <1>5, <1>11, <1>12

LEMMA ReceiveKeeps ==
  ASSUME IInv, NEW k \in Links, Receive(k)
  PROVE  IInv'
  <1> DEFINE f == Head(frames[k])
             c == f.call
             r == call[c]
             wanted == r.peer = k /\ r.reader # "ended" /\ ~r.terminal /\ Fresh(r, f)
             x == [r EXCEPT !.queue = Append(@, f), !.received = f.seq]
             y == [r EXCEPT !.error = TRUE, !.terminal = TRUE]
  <1>1. /\ k \in ends /\ frames[k] # <<>> /\ frames' = [frames EXCEPT ![k] = Tail(@)]
        /\ UNCHANGED <<peer, ready, links, ends, bulk, replies, brokerVars>>
    BY DEF Receive
  <1>2. /\ frames[k] \in Seq(Frames) /\ f = frames[k][1] /\ 1 \in DOMAIN frames[k]
        /\ f \in Frames /\ f.seq \in Nat /\ c \in Calls /\ Tail(frames[k]) \in Seq(Frames)
    <2>1. frames[k] \in Seq(Frames) BY DEF IInv, Shaped
    <2>2. /\ f = frames[k][1] /\ 1 \in DOMAIN frames[k] /\ f \in Frames /\ Tail(frames[k]) \in Seq(Frames)
      BY <1>1, <2>1
    <2> QED BY <2>1, <2>2 DEF Frames
  <1>3. /\ frames' \in [Links -> Seq(Frames)]
        /\ \A j \in Links : \A i \in DOMAIN frames'[j] :
             \E n \in DOMAIN frames[j] : frames'[j][i] = frames[j][n]
    <2>1. frames'[k] = Tail(frames[k]) /\ \A j \in Links : j # k => frames'[j] = frames[j]
      BY <1>1 DEF IInv, Shaped
    <2>2. ASSUME NEW i \in DOMAIN frames'[k]
          PROVE  i + 1 \in DOMAIN frames[k] /\ frames'[k][i] = frames[k][i + 1]
      <3>1. i \in DOMAIN Tail(frames[k]) BY <2>1, <2>2
      <3>2. i + 1 \in DOMAIN frames[k] /\ Tail(frames[k])[i] = frames[k][i + 1]
        BY <1>1, <1>2, <3>1, TailFacts
      <3> QED BY <2>1, <3>2
    <2>3. frames' \in [Links -> Seq(Frames)] BY <1>1, <1>2 DEF IInv, Shaped
    <2> QED BY <2>1, <2>2, <2>3
  <1>4. /\ r \in CallRecords /\ PhaseAgrees(r) /\ BuffersAgree(r, entry[c]) /\ r.applied \in Nat
        /\ r.received \in Nat /\ r.queue \in Seq(Frames) /\ entry[c].n \in Nat
    BY <1>2, CallFacts DEF IInv, PhasesAgree, AnswersAgree
  <1>5. /\ UNCHANGED <<peer, ready, links, ends, active, entry, ran, bulk, replies>>
        /\ replies' \in [Links -> [Calls -> {"none", "accepted", "rejected"}]]
        /\ \A j \in Links, d \in Calls : replies'[j][d] \in {replies[j][d], "none"}
        /\ latched \in BOOLEAN /\ ready' \in BOOLEAN /\ call \in [Calls -> CallRecords]
        /\ urgent \in Seq(Messages)
    BY <1>1 DEF brokerVars, IInv, Shaped
  <1>6. /\ bulk[c].sent => ~r.admitted
        /\ (bulk[c].sent /\ active \in ends) => r.phase = "opening" \/ bulk[c].cancel
    BY <1>2 DEF IInv, OpenedOnce
  <1>7. IsOf(f, entry[c]) BY <1>2 DEF IInv, AnswersAgree
  <1>7a. frames'[k] = Tail(frames[k]) /\ \A j \in Links : j # k => frames'[j] = frames[j]
    BY <1>1 DEF IInv, Shaped
  <1>8. CASE /\ wanted /\ UNCHANGED <<cancelled, latched, urgent>>
             /\ call' = [call EXCEPT ![c].queue = Append(@, f), ![c].received = f.seq]
    <2>1. f.seq = r.received + 1
      <3>1. f.seq > r.received BY <1>8 DEF Fresh
      <3>2. f.seq <= r.received + 1
        <4>1. NoGap(c) BY <1>1, <1>2, <1>8 DEF IInv, NothingMissing
        <4>2. ~(frames[k][1].seq > call[c].received + 1)
          <5> SUFFICES ASSUME frames[k][1].seq > call[c].received + 1 PROVE FALSE OBVIOUS
          <5>1. \E j \in 1 .. 1 - 1 : frames[k][j].call = c
            BY <1>2, <1>8, <4>1 DEF NoGap
          <5> QED BY <5>1
        <4> QED BY <1>2, <1>4, <4>2
      <3> QED BY <1>2, <1>4, <3>1, <3>2
    <2>2. Append(r.queue, f) \in Seq(Frames) BY <1>2, <1>4
    <2>3. x \in CallRecords BY <1>2, <1>4, <2>2 DEF CallRecords
    <2>4. /\ x.phase = r.phase /\ x.admitted = r.admitted /\ x.given = r.given /\ x.reader = r.reader
          /\ x.peer = r.peer /\ x.applied = r.applied /\ x.terminal = r.terminal /\ x.error = r.error
          /\ x.attempted = r.attempted /\ x.how = r.how /\ x.queue = Append(r.queue, f)
          /\ x.received = f.seq
      BY <1>4 DEF CallRecords
    <2>5. call' = [call EXCEPT ![c] = x]
      BY <1>8, Zenon
    <2>14. /\ Len(Append(r.queue, f)) = Len(r.queue) + 1 /\ Len(r.queue) \in Nat
           /\ Append(r.queue, f) # <<>>
           /\ r.queue # <<>> => Head(Append(r.queue, f)) = Head(r.queue)
           /\ \A i \in DOMAIN Append(r.queue, f) :
                \/ i \in DOMAIN r.queue /\ Append(r.queue, f)[i] = r.queue[i]
                \/ i = Len(r.queue) + 1 /\ Append(r.queue, f)[i] = f
      <3> HIDE DEF r, f
      <3> QED BY <1>2, <1>4, AppendFacts
    <2>6. /\ Len(x.queue) = Len(r.queue) + 1 /\ Len(r.queue) \in Nat
          /\ \A i \in DOMAIN x.queue : \/ i \in DOMAIN r.queue /\ x.queue[i] = r.queue[i]
                                       \/ i = Len(r.queue) + 1 /\ x.queue[i] = f
          /\ x.queue # <<>> /\ (r.queue # <<>> => Head(x.queue) = Head(r.queue))
      <3> HIDE DEF r, f, x
      <3> QED BY <2>4, <2>14
    <2> HIDE DEF x
    <2>7. PhaseAgrees(x)
      <3>1. r.phase # "none"
        <4> SUFFICES ASSUME r.phase = "none" PROVE FALSE OBVIOUS
        <4>1. r.peer = 0 BY <1>4 DEF PhaseAgrees, NewCall
        <4> QED BY SMTT(30), <1>8, <4>1, Constants DEF Links
      <3> QED BY <1>4, <1>8, <2>4, <2>6, <3>1 DEF PhaseAgrees
    <2>8. BuffersAgree(x, entry[c])
      <3>1. r.received = r.applied + Len(r.queue) /\ r.applied <= entry[c].n
        BY <1>4, <1>8 DEF BuffersAgree
      <3>2. f.seq <= entry[c].n BY <1>7 DEF IsOf
      <3>3. \A a \in Nat, n \in Nat : (a + n) + 1 = a + (n + 1) OBVIOUS
      <3>4. f.seq = r.applied + (Len(r.queue) + 1) BY <1>4, <2>1, <2>6, <3>1, <3>3
      <3>5. ASSUME NEW i \in DOMAIN x.queue
            PROVE  IsOf(x.queue[i], entry[c]) /\ x.queue[i].seq = x.applied + i
        <4>1. CASE i \in DOMAIN r.queue /\ x.queue[i] = r.queue[i]
          BY <1>4, <1>8, <2>4, <4>1 DEF BuffersAgree
        <4>2. CASE i = Len(r.queue) + 1 /\ x.queue[i] = f BY <1>7, <2>4, <3>4, <4>2
        <4> QED BY <2>6, <3>5, <4>1, <4>2
      <3> QED BY <2>4, <2>6, <3>1, <3>2, <3>4, <3>5 DEF BuffersAgree
    <2>9. call' \in [Calls -> CallRecords] /\ call'[c] = x /\ \A d \in Calls : d # c => call'[d] = call[d]
      BY <1>2, <1>5, <2>3, <2>5
    <2>10. NothingMissing'
      <3>1. ASSUME NEW d \in Calls
            PROVE  /\ call'[d].peer = call[d].peer /\ (call[d].terminal => call'[d].terminal)
                   /\ call[d].received <= call'[d].received
                   /\ f.call = d => f.seq <= call'[d].received
        <4>1. call[d].received \in Nat /\ call[d].received <= call[d].received BY CallFacts
        <4>2. CASE d = c
          <5>1. r.received <= f.seq /\ f.seq <= f.seq BY <1>2, <1>4, <2>1
          <5>2. call[d] = r /\ call'[d] = x BY <2>9, <4>2
          <5> HIDE DEF f, r
          <5> QED BY <2>4, <5>1, <5>2
        <4>3. CASE d # c BY <2>9, <4>1, <4>3
        <4> QED BY <4>2, <4>3
      <3> HIDE DEF c, r
      <3> QED BY <1>1, <1>5, <1>7a, <2>9, <3>1, FrameTaken
    <2>11. /\ call[c].reader # "ended" /\ x.attempted = call[c].attempted /\ x.peer = call[c].peer
           /\ call[c].applied <= x.applied /\ x.reader # "ended" /\ bulk' = bulk /\ cancelled' = cancelled
           /\ bulk[c].sent => ~x.admitted /\ (active \in ends => x.phase = "opening" \/ bulk'[c].cancel)
      <3>1. call[c].reader # "ended" BY <1>8
      <3>2. /\ x.attempted = call[c].attempted /\ x.peer = call[c].peer /\ x.reader = call[c].reader
            /\ call[c].applied <= x.applied /\ x.admitted = call[c].admitted /\ x.phase = call[c].phase
        <4>1. r.applied <= r.applied /\ call[c] = r BY <1>4
        <4> HIDE DEF c, f, r
        <4> QED BY <2>4, <4>1
      <3>3. bulk' = bulk /\ cancelled' = cancelled BY <1>5, <1>8
      <3>4. bulk[c].sent => ~call[c].admitted /\ (active \in ends => call[c].phase = "opening" \/ bulk[c].cancel)
        BY <1>6
      <3> HIDE DEF c, r, f
      <3> QED BY <3>1, <3>2, <3>3, <3>4
    <2>12. urgent' = urgent /\ latched' \in BOOLEAN BY <1>5, <1>8
    <2>13. c \in Calls BY <1>2
    <2> HIDE DEF f, c, r
    <2> QED BY <1>3, <1>5, <2>3, <2>5, <2>7, <2>8, <2>10, <2>11, <2>12, <2>13, CallMovesOn
  <1>9. CASE /\ wanted /\ latched' = TRUE /\ CancelCall(c, r, urgent)
             /\ call' = [call EXCEPT ![c].error = TRUE, ![c].terminal = TRUE]
    <2>1. y \in CallRecords BY <1>4 DEF CallRecords
    <2>2. /\ y.phase = r.phase /\ y.admitted = r.admitted /\ y.given = r.given /\ y.reader = r.reader
          /\ y.peer = r.peer /\ y.applied = r.applied /\ y.terminal /\ y.error
          /\ y.attempted = r.attempted /\ y.how = r.how /\ y.queue = r.queue /\ y.received = r.received
      BY <1>4 DEF CallRecords
    <2>3. call' = [call EXCEPT ![c] = y] BY <1>9, Zenon
    <2> HIDE DEF y
    <2>4. r.phase # "none"
      <3> SUFFICES ASSUME r.phase = "none" PROVE FALSE OBVIOUS
      <3>1. r.peer = 0 BY <1>4 DEF PhaseAgrees, NewCall
      <3> QED BY <1>9, <3>1, Constants DEF Links
    <2>5. PhaseAgrees(y) /\ BuffersAgree(y, entry[c])
      BY <1>4, <1>9, <2>2, <2>4 DEF PhaseAgrees, BuffersAgree
    <2>6. call' \in [Calls -> CallRecords] /\ call'[c] = y /\ \A d \in Calls : d # c => call'[d] = call[d]
      BY <1>2, <1>5, <2>1, <2>3
    <2>7. NothingMissing'
      <3>1. ASSUME NEW d \in Calls
            PROVE  /\ call'[d].peer = call[d].peer /\ (call[d].terminal => call'[d].terminal)
                   /\ call[d].received <= call'[d].received
                   /\ f.call = d => call'[d].terminal
        <4>1. call[d].received \in Nat /\ call[d].received <= call[d].received BY CallFacts
        <4>2. CASE d = c
          <5>1. call[d] = r /\ call'[d] = y BY <2>6, <4>2
          <5> HIDE DEF f, r
          <5> QED BY <2>2, <4>1, <5>1
        <4>3. CASE d # c BY <2>6, <4>1, <4>3
        <4> QED BY <4>2, <4>3
      <3> HIDE DEF c, r
      <3> QED BY <1>1, <1>5, <1>7a, <2>6, <3>1, FrameTaken
    <2>8. Grown(c, urgent, urgent, r.applied) BY <1>5 DEF Grown
    <2>9. /\ Grown(c, urgent, urgent', r.applied)
          /\ cancelled' = cancelled \/ cancelled' = [cancelled EXCEPT ![c] = GivenUp]
      <3> HIDE DEF c
      <3> QED BY <1>2, <1>4, <1>9, <2>8, CancelGrows
    <2>10. /\ urgent' \in Seq(Messages)
           /\ \A i \in DOMAIN urgent : i \in DOMAIN urgent' /\ urgent'[i] = urgent[i]
           /\ \A i \in DOMAIN urgent' :
                \/ i \in DOMAIN urgent
                \/ /\ urgent'[i].call = c
                   /\ urgent'[i].kind = "ack" =>
                        urgent'[i].seq = y.applied /\ ~bulk[c].sent /\ active = y.peer /\ active # 0
      BY <2>2, <2>9 DEF Grown
    <2>11. /\ call[c].reader # "ended" /\ y.attempted = call[c].attempted /\ y.peer = call[c].peer
           /\ call[c].applied <= y.applied /\ y.reader # "ended" /\ bulk' = bulk
           /\ bulk[c].sent => ~y.admitted /\ (active \in ends => y.phase = "opening" \/ bulk'[c].cancel)
      <3>1. r.reader # "ended" /\ call[c] = r /\ r.applied <= r.applied BY <1>4, <1>9
      <3>2. bulk' = bulk BY <1>5
      <3> HIDE DEF c, r, f
      <3> QED BY <1>6, <2>2, <3>1, <3>2
    <2>12. latched' \in BOOLEAN /\ c \in Calls BY <1>2, <1>9
    <2> HIDE DEF f, c, r
    <2> QED BY <1>3, <1>5, <2>1, <2>3, <2>5, <2>7, <2>9, <2>10, <2>11, <2>12, CallMovesOn
  <1>10. CASE ~wanted /\ UNCHANGED <<call, cancelled, latched, urgent>>
    <2>1. (~r.terminal /\ r.peer = k) => f.seq <= r.received
      BY <1>2, <1>4, <1>10 DEF Fresh, PhaseAgrees
    <2>2. NothingMissing'
      <3>1. \A d \in Calls : call[d].received \in Nat BY CallFacts
      <3> QED BY <1>1, <1>5, <1>10, <1>7a, <2>1, <3>1, FrameTaken
    <2>3. PhasesAgree' BY <1>5, <1>10 DEF IInv, PhasesAgree, PhaseAgrees
    <2>4. \A d \in Calls : Keeps(call[d], call'[d]) /\ call'[d] = call[d] BY <1>10 DEF Keeps
    <2>5. /\ peer' # 0 => peer' \in ends'
          /\ ready' => peer' # 0
          /\ peer' \in {peer, 0} /\ ends' \subseteq ends
      BY <1>5 DEF IInv, LinksAgree
    <2>6. call' \in [Calls -> CallRecords] /\ latched' \in BOOLEAN
          /\ UNCHANGED <<cancelled, links, bulk, urgent, brokerVars>>
      BY <1>1, <1>5, <1>10
    <2> HIDE DEF f, c, r
    <2> QED BY <1>3, <1>5, <2>2, <2>3, <2>4, <2>5, <2>6, LinkLessens
  <1> QED BY <1>8, <1>9, <1>10 DEF Receive

\* A call is asked of a link it was never asked of before.
LEMMA AskedKeeps ==
  ASSUME IInv, NEW c \in Calls, NEW x \in CallRecords, call' = [call EXCEPT ![c] = x],
         UNCHANGED <<cancelled, latched, peer, ready, links, ends, urgent, frames, replies, active, entry, ran>>,
         call[c].phase = "woken", x.peer = call[c].given,
         x.applied = call[c].applied, x.received = call[c].received, x.queue = call[c].queue,
         x.reader = call[c].reader, x.how = call[c].how, x.terminal = call[c].terminal,
         ~x.admitted, x.attempted, PhaseAgrees(x),
         NEW o \in Opens, o.after = call[c].applied, o.resume = call[c].attempted, o.sent,
         \/ bulk' = bulk
         \/ active = x.peer /\ x.phase = "opening" /\ bulk' = [bulk EXCEPT ![c] = o]
  PROVE  IInv'
  <1>1. /\ call' \in [Calls -> CallRecords] /\ call'[c] = x
        /\ \A d \in Calls : d # c => call'[d] = call[d]
    BY DEF IInv, Shaped
  <1>2. /\ bulk' \in [Calls -> Opens]
        /\ \A d \in Calls : d # c => bulk'[d] = bulk[d]
        /\ bulk'[c] = bulk[c] \/ (bulk'[c] = o /\ active = x.peer /\ x.phase = "opening")
    BY DEF IInv, Shaped
  <1>3. /\ PhaseAgrees(call[c]) /\ BuffersAgree(call[c], entry[c])
        /\ call[c].peer < x.peer /\ x.peer <= links /\ call[c].reader # "ended"
    <2>1. PhaseAgrees(call[c]) /\ BuffersAgree(call[c], entry[c]) BY DEF IInv, PhasesAgree, AnswersAgree
    <2> QED BY <2>1 DEF PhaseAgrees
  <1>4. /\ call[c].peer \in Nat /\ x.peer \in Nat /\ links \in Nat /\ active \in {0, links}
        /\ active # 0 => active \in Links
    BY LinkIsLink DEF CallRecords, IInv, LinksAgree
  <1>5. ~bulk[c].sent
    <2>1. bulk[c].sent => call[c].peer = active /\ active # 0 BY DEF IInv, OpenedOnce
    <2> QED BY <1>3, <1>4, <2>1
  <1>6. Shaped' BY <1>1, <1>2 DEF IInv, Shaped
  <1>7. LinksAgree'
    BY <1>1, <1>3 DEF IInv, LinksAgree
  <1>8. PhasesAgree'
    <2> SUFFICES ASSUME NEW d \in Calls PROVE PhaseAgrees(call[d])'
      BY DEF PhasesAgree
    <2>1. CASE d = c BY <1>1, <2>1 DEF PhaseAgrees
    <2>2. CASE d # c
      <3>1. PhaseAgrees(call[d]) /\ call'[d] = call[d] BY <1>1, <2>2 DEF IInv, PhasesAgree
      <3> QED BY <3>1 DEF PhaseAgrees
    <2> QED BY <2>1, <2>2
  <1>9. FirstIsFirst'
    <2> SUFFICES ASSUME NEW d \in Calls
        PROVE  /\ ran[d] <= 1 /\ (entry[d].state = "live" => ran[d] = 1)
               /\ ran[d] = 0 => /\ entry[d].n = 0 /\ entry[d].term = "no" /\ call'[d].applied = 0
               /\ (~call'[d].attempted /\ call'[d].reader # "ended") =>
                    /\ ran[d] = 0 /\ entry[d] = NewEntry /\ ~bulk'[d].sent
               /\ (bulk'[d].sent /\ ~bulk'[d].resume) => ran[d] = 0 /\ entry[d] = NewEntry
      BY DEF FirstIsFirst
    <2>1. CASE d # c
      <3>1. call'[d] = call[d] /\ bulk'[d] = bulk[d] BY <1>1, <1>2, <2>1
      <3> QED BY <3>1 DEF IInv, FirstIsFirst
    <2>2. CASE d = c
      <3>1. call'[d] = x BY <1>1, <2>2
      <3>2. (bulk'[c].sent /\ ~bulk'[c].resume) => ran[c] = 0 /\ entry[c] = NewEntry
        BY <1>2, <1>3, <1>5 DEF IInv, FirstIsFirst
      <3> QED BY <2>2, <3>1, <3>2 DEF IInv, FirstIsFirst
    <2> QED BY <2>1, <2>2
  <1>10. AnswersAgree'
    <2>1. BuffersAgree(x, entry[c]) BY <1>3 DEF BuffersAgree
    <2>2. \A d \in Calls : BuffersAgree(call'[d], entry[d]) BY <1>1, <2>1 DEF IInv, AnswersAgree
    <2> QED BY <2>2 DEF IInv, AnswersAgree
  <1>11. OpenedOnce'
    <2>1. ASSUME NEW d \in Calls PROVE call[d].peer <= call'[d].peer /\ call[d].peer \in Nat /\ call'[d].peer \in Nat
      BY <1>1, <1>3, <1>4, LinkIsLink
    <2>2. ASSUME NEW d \in Calls, NEW k \in Links
          PROVE  /\ (\E i \in DOMAIN frames[k] : frames[k][i].call = d) => k <= call'[d].peer
                 /\ replies[k][d] # "none" => k <= call'[d].peer
      <3>1. k \in Nat BY Constants
      <3> QED BY <2>1, <3>1 DEF IInv, OpenedOnce
    <2>3. ASSUME NEW d \in Calls
          PROVE  entry[d].to <= call'[d].peer /\ entry[d].pump.link <= call'[d].peer
      <3>1. entry[d].to \in Nat /\ entry[d].pump.link \in Nat BY LinkIsLink, CallFacts
      <3> QED BY <2>1, <3>1 DEF IInv, OpenedOnce
    <2>4. ASSUME NEW d \in Calls, bulk'[d].sent, d = c
          PROVE  /\ call'[d].peer = active /\ active # 0 /\ ~call'[d].admitted
                 /\ entry[d].to = 0 /\ entry[d].pump.link # active /\ replies[active][d] = "none"
                 /\ \A i \in DOMAIN frames[active] : frames[active][i].call # d
                 /\ call'[d].phase = "opening"
      <3>1. active = x.peer /\ x.phase = "opening" /\ active # 0 /\ call[c].peer < active /\ active \in Links
        BY <1>2, <1>3, <1>4, <1>5, <2>4
      <3>2. entry[c].to <= call[c].peer /\ entry[c].pump.link <= call[c].peer
            /\ (replies[active][c] # "none" => active <= call[c].peer)
            /\ \A i \in DOMAIN frames[active] : frames[active][i].call = c => active <= call[c].peer
        BY <3>1 DEF IInv, OpenedOnce
      <3>3. entry[c].to \in {0, active} /\ entry[c].to \in Nat /\ entry[c].pump.link \in Nat
        BY LinkIsLink, CallFacts DEF IInv, LinksAgree
      <3> QED BY <1>1, <1>4, <2>4, <3>1, <3>2, <3>3
    <2>5. ASSUME NEW d \in Calls, bulk'[d].sent, d # c
          PROVE  bulk[d].sent /\ bulk'[d] = bulk[d] /\ call'[d] = call[d]
      BY <1>1, <1>2, <2>5
    <2> QED BY <2>2, <2>3, <2>4, <2>5 DEF IInv, OpenedOnce
  <1>12. NothingMissing'
    <2> SUFFICES ASSUME NEW d \in Calls, call'[d].peer \in ends, ~call'[d].terminal
        PROVE  /\ NoGap(d)'
               /\ entry[d].to = call'[d].peer => Reached(d, entry[d].sent)'
               /\ (entry[d].to = call'[d].peer /\ entry[d].pump.link = entry[d].to) =>
                    Reached(d, entry[d].pump.seq)'
      BY DEF NothingMissing
    <2>1. CASE d = c
      <3>1. call'[d].peer = x.peer /\ x.peer \in Links BY <1>1, <2>1, LinkIsLink
      <3>2. x.peer <= call[c].peer \/ \A i \in DOMAIN frames[x.peer] : frames[x.peer][i].call # c
        BY <3>1 DEF IInv, OpenedOnce
      <3>3. entry[c].to <= call[c].peer /\ entry[c].to \in Nat BY LinkIsLink DEF IInv, OpenedOnce
      <3>4. entry[c].to # x.peer /\ \A i \in DOMAIN frames[x.peer] : frames[x.peer][i].call # c
        BY <1>3, <1>4, <3>2, <3>3
      <3> QED BY <2>1, <3>1, <3>4 DEF NoGap
    <2>2. CASE d # c
      <3>1. call'[d] = call[d] BY <1>1, <2>2
      <3>2. /\ NoGap(d)
            /\ entry[d].to = call[d].peer => Reached(d, entry[d].sent)
            /\ (entry[d].to = call[d].peer /\ entry[d].pump.link = entry[d].to) =>
                 Reached(d, entry[d].pump.seq)
        BY <3>1 DEF IInv, NothingMissing
      <3> QED BY SMTT(30), <3>1, <3>2 DEF NoGap, Reached, InFlight
    <2> QED BY <2>1, <2>2
  <1>13. AcksRise'
    <2> SUFFICES ASSUME NEW d \in Calls
        PROVE  /\ entry[d].ack <= call'[d].applied
               /\ \A i \in DOMAIN urgent : (urgent[i].kind = "ack" /\ urgent[i].call = d) =>
                    /\ entry[d].ack <= urgent[i].seq /\ urgent[i].seq <= call'[d].applied
                    /\ ~bulk'[d].sent /\ call'[d].peer = active /\ active # 0
                    /\ \A j \in 1 .. i : (urgent[j].kind = "ack" /\ urgent[j].call = d) =>
                                           urgent[j].seq <= urgent[i].seq
               /\ bulk'[d].sent => entry[d].ack <= bulk'[d].after /\ bulk'[d].after <= call'[d].applied
      BY DEF AcksRise
    <2>1. CASE d # c
      <3>1. call'[d] = call[d] /\ bulk'[d] = bulk[d] BY <1>1, <1>2, <2>1
      <3> QED BY <3>1 DEF IInv, AcksRise
    <2>2. CASE d = c
      <3>1. ASSUME NEW i \in DOMAIN urgent, urgent[i].kind = "ack", urgent[i].call = c PROVE FALSE
        <4>1. call[c].peer = active /\ active # 0 BY <3>1 DEF IInv, AcksRise
        <4> QED BY <1>3, <1>4, <4>1
      <3>2. entry[c].ack <= x.applied /\ x.applied \in Nat BY CallFacts
      <3> QED BY <1>1, <1>2, <1>5, <2>2, <3>1, <3>2
    <2> QED BY <2>1, <2>2
  <1>14. StopIsComing'
    <2> SUFFICES ASSUME NEW d \in Calls, call'[d].reader = "ended", entry[d].term = "no"
                 PROVE  IsStopped(d)'
      BY DEF StopIsComing
    <2>1. d # c BY <1>1, <1>3
    <2>2. call'[d] = call[d] /\ bulk'[d] = bulk[d] BY <1>1, <1>2, <2>1
    <2>3. IsStopped(d) BY <2>2 DEF IInv, StopIsComing
    <2> QED BY <2>2, <2>3 DEF IsStopped, GivenUpBeforeOpen, LapsedBefore
  <1> QED BY <1>6, <1>7, <1>8, <1>9, <1>10, <1>11, <1>12, <1>13, <1>14 DEF IInv

LEMMA OpenKeeps ==
  ASSUME IInv, NEW c \in Calls, Open(c)
  PROVE  IInv'
  <1> DEFINE r == call[c]
             g == r.given
             a == [r EXCEPT !.peer = r.given, !.given = 0, !.admitted = FALSE, !.attempted = TRUE]
             o == [after |-> r.applied, resume |-> Resumes(r), sent |-> TRUE, cancel |-> FALSE]
  <1>1. /\ r.phase = "woken" /\ r \in CallRecords /\ PhaseAgrees(r)
        /\ UNCHANGED <<cancelled, peer, ready, links, ends, urgent, frames, replies, brokerVars>>
        /\ g \in Nat /\ r.applied \in Nat
    BY CallFacts DEF Open, IInv, PhasesAgree, CallRecords
  <1>2. /\ a \in CallRecords /\ a.phase = "woken" /\ a.given = 0 /\ a.peer = g /\ ~a.admitted /\ a.attempted
        /\ a.applied = r.applied /\ a.received = r.received /\ a.queue = r.queue /\ a.reader = r.reader
        /\ a.how = r.how /\ a.terminal = r.terminal /\ a.error = r.error
    BY <1>1 DEF CallRecords
  <1>3. g # 0 /\ g <= links /\ r.peer < g /\ r.reader # "ended" /\ r.how = "no"
        /\ (r.terminal => r.error)
    BY <1>1 DEF PhaseAgrees
  <1>4. o \in Opens /\ o.after = r.applied /\ o.resume = r.attempted /\ o.sent
    BY <1>1 DEF Opens, Resumes, CallRecords
  <1> HIDE DEF a, o
  <1>5. CASE /\ g \in ends /\ call' = [call EXCEPT ![c] = [a EXCEPT !.phase = "opening"]]
             /\ bulk' = bulk \/ (active = g /\ bulk' = [bulk EXCEPT ![c] = o])
             /\ UNCHANGED latched
    <2> DEFINE x == [a EXCEPT !.phase = "opening"]
    <2>1. /\ x \in CallRecords /\ x.phase = "opening" /\ x.given = 0 /\ x.peer = g /\ ~x.admitted
          /\ x.attempted
          /\ x.applied = r.applied /\ x.received = r.received /\ x.queue = r.queue /\ x.reader = r.reader
          /\ x.how = r.how /\ x.terminal = r.terminal /\ x.error = r.error
      BY <1>2 DEF CallRecords
    <2>2. call' = [call EXCEPT ![c] = x] BY <1>5
    <2> HIDE DEF x
    <2>3. PhaseAgrees(x) BY <1>1, <1>3, <2>1, LinkIsLink DEF PhaseAgrees
    <2>4. \/ bulk' = bulk
          \/ active = x.peer /\ x.phase = "opening" /\ bulk' = [bulk EXCEPT ![c] = o]
      BY <1>5, <2>1
    <2>5. UNCHANGED <<cancelled, latched, peer, ready, links, ends, urgent, frames, replies, active, entry, ran>>
      BY <1>1, <1>5 DEF brokerVars
    <2> QED BY <1>1, <1>4, <2>1, <2>2, <2>3, <2>4, <2>5, AskedKeeps
  <1>6. ASSUME NEW t \in BOOLEAN, g \notin ends, UNCHANGED <<bulk, latched>>,
               call' = [call EXCEPT ![c] = Gated(a, Gate, t)]
        PROVE  IInv'
    <2> DEFINE x == Gated(a, Gate, t)
    <2>1. Gate \in Nat /\ (Gate # 0 => Gate = links /\ Gate \in ends) /\ links \in Nat /\ Gate <= links
      BY LinkIsLink DEF Gate, IInv, LinksAgree
    <2>2. /\ x \in CallRecords /\ Keeps(a, x) /\ x.terminal = a.terminal /\ x.error = a.error
          /\ x.phase = IF a.terminal THEN "over" ELSE IF Gate # 0 THEN "woken" ELSE "gate"
          /\ x.given = IF ~a.terminal /\ Gate # 0 THEN Gate ELSE a.given
      BY <1>2, <2>1, GatedFacts
    <2>3. call' = [call EXCEPT ![c] = x] BY <1>6
    <2> HIDE DEF x
    <2>4. /\ x.peer = g /\ ~x.admitted /\ x.attempted /\ x.applied = r.applied /\ x.received = r.received
          /\ x.queue = r.queue /\ x.reader = r.reader /\ x.how = r.how /\ x.terminal = r.terminal
          /\ x.error = r.error
      BY <1>2, <2>2 DEF Keeps
    <2>5. Gate # 0 => g < Gate BY <1>1, <1>3, <1>6, <2>1
    <2>6. PhaseAgrees(x)
      BY <1>1, <1>2, <1>3, <1>6, <2>1, <2>2, <2>4, <2>5 DEF PhaseAgrees
    <2>7. UNCHANGED <<cancelled, latched, peer, ready, links, ends, urgent, frames, replies, active, entry, ran>>
          /\ bulk' = bulk
      BY <1>1, <1>6 DEF brokerVars
    <2> QED BY <1>1, <1>4, <2>2, <2>3, <2>4, <2>6, <2>7, AskedKeeps
  <1>7. CASE ~r.attempted /\ latched' = TRUE /\ UNCHANGED bulk
             /\ call' = [call EXCEPT ![c] = [Failed(r) EXCEPT !.given = 0]]
    <2> DEFINE y == Failed(r)
               x == [y EXCEPT !.given = 0]
    <2>1. y \in CallRecords /\ Keeps(r, y) /\ y.phase = "over" /\ y.error /\ y.terminal
      BY <1>1, FailedFacts
    <2>2. call' = [call EXCEPT ![c] = x] BY <1>7
    <2> HIDE DEF y
    <2>3. x \in CallRecords /\ x.phase = "over" /\ x.error /\ x.terminal /\ x.given = 0
          /\ Keeps(y, x)
      BY <2>1 DEF CallRecords, Keeps
    <2> HIDE DEF x
    <2>4. Keeps(r, x) BY <2>1, <2>3 DEF Keeps
    <2>5. call' \in [Calls -> CallRecords] /\ call'[c] = x /\ \A d \in Calls : d # c => call'[d] = call[d]
      BY <2>2, <2>3 DEF IInv, Shaped
    <2>6. UNCHANGED <<cancelled, peer, ready, linkVars, brokerVars>>
      BY <1>1, <1>7 DEF linkVars
    <2>7. PhasesAgree'
      <3> SUFFICES ASSUME NEW d \in Calls PROVE PhaseAgrees(call[d])'
        BY DEF PhasesAgree
      <3>1. UNCHANGED <<links, ends>> BY <1>1
      <3>2. CASE d = c
        <4>1. PhaseAgrees(x) BY <1>1, <2>3, <2>4, LinkIsLink DEF PhaseAgrees, Keeps
        <4> QED BY <2>5, <3>1, <3>2, <4>1 DEF PhaseAgrees
      <3>3. CASE d # c
        <4>1. PhaseAgrees(call[d]) /\ call'[d] = call[d] BY <2>5, <3>3 DEF IInv, PhasesAgree
        <4> QED BY <3>1, <4>1 DEF PhaseAgrees
      <3> QED BY <3>2, <3>3
    <2>8. \A d \in Calls :
           /\ Keeps(call[d], call'[d]) /\ (call[d].terminal => call'[d].terminal)
           /\ call[d].phase = "opening" => call'[d].phase = "opening"
      BY <1>1, <2>3, <2>4, <2>5 DEF Keeps
    <2>9. latched' \in BOOLEAN /\ ready' \in BOOLEAN /\ (ready' => peer # 0)
      BY <1>1, <1>7 DEF IInv, Shaped, LinksAgree
    <2> QED BY <2>5, <2>6, <2>7, <2>8, <2>9, WaitingChanges
  <1>8. Open(c) => \/ /\ g \in ends /\ call' = [call EXCEPT ![c] = [a EXCEPT !.phase = "opening"]]
                      /\ bulk' = bulk \/ (active = g /\ bulk' = [bulk EXCEPT ![c] = o])
                      /\ UNCHANGED latched
                   \/ /\ g \notin ends /\ UNCHANGED <<bulk, latched>>
                      /\ \E t \in BOOLEAN : call' = [call EXCEPT ![c] = Gated(a, Gate, t)]
                   \/ /\ ~r.attempted /\ latched' = TRUE /\ UNCHANGED bulk
                      /\ call' = [call EXCEPT ![c] = [Failed(r) EXCEPT !.given = 0]]
    BY DEF Open, a, o
  <1> QED BY <1>5, <1>6, <1>7, <1>8

LEMMA ProxyClosesKeeps ==
  ASSUME IInv, NEW k \in Links, ProxyCloses(k)
  PROVE  IInv'
  <1> DEFINE left == IF peer = k THEN 0 ELSE Gate
             Served(c) == call[c].phase \in {"opening", "open"} /\ call[c].peer = k
  <1>0. PICK t \in BOOLEAN :
          call' = [c \in Calls |-> IF Served(c) THEN Gated(call[c], left, t) ELSE call[c]]
    BY DEF ProxyCloses
  <1>1. /\ k \in ends /\ ends' = ends \ {k} /\ frames' = [frames EXCEPT ![k] = <<>>]
        /\ replies' = [replies EXCEPT ![k] = [c \in Calls |-> "none"]]
        /\ peer' = (IF peer = k THEN 0 ELSE peer) /\ ready' = (ready /\ peer # k)
        /\ call' = [c \in Calls |-> IF Served(c) THEN Gated(call[c], left, t) ELSE call[c]]
        /\ UNCHANGED <<cancelled, latched, links, bulk, urgent, brokerVars>>
    BY <1>0 DEF ProxyCloses
  <1>2. /\ left \in Nat /\ (left # 0 => left = links /\ left \in ends /\ left # k) /\ links \in Nat
        /\ left <= links /\ k \in Nat /\ k <= links
    <2>1. k <= links /\ k \in Nat BY <1>1 DEF IInv, Shaped
    <2>2. /\ peer \in Nat /\ links \in Nat
          /\ peer # 0 => peer = links /\ peer \in ends
      BY LinkIsLink DEF IInv, LinksAgree
    <2> QED BY <2>1, <2>2 DEF Gate
  <1> HIDE DEF left
  <1>3. ASSUME NEW c \in Calls
        PROVE  /\ call'[c] \in CallRecords /\ Keeps(call[c], call'[c])
               /\ call'[c].terminal = call[c].terminal /\ call'[c].error = call[c].error
               /\ Served(c) => /\ call'[c].phase = IF call[c].terminal THEN "over"
                                                   ELSE IF left # 0 THEN "woken" ELSE "gate"
                               /\ call'[c].given = IF ~call[c].terminal /\ left # 0 THEN left
                                                   ELSE call[c].given
               /\ ~Served(c) => call'[c] = call[c]
    <2> DEFINE x == Gated(call[c], left, t)
    <2>1. CASE Served(c)
      <3>1. call'[c] = x BY <1>1, <2>1
      <3>2. /\ x \in CallRecords /\ Keeps(call[c], x)
            /\ x.terminal = call[c].terminal /\ x.error = call[c].error
            /\ x.phase = IF call[c].terminal THEN "over" ELSE IF left # 0 THEN "woken" ELSE "gate"
            /\ x.given = IF ~call[c].terminal /\ left # 0 THEN left ELSE call[c].given
        BY <1>2, CallFacts, GatedFacts
      <3> HIDE DEF x
      <3> QED BY <2>1, <3>1, <3>2
    <2>2. CASE ~Served(c)
      <3>1. call'[c] = call[c] BY <1>1, <2>2
      <3> QED BY <2>2, <3>1, CallFacts DEF Keeps
    <2> QED BY <2>1, <2>2
  <1>4. call' \in [Calls -> CallRecords] BY <1>1, <1>3
  <1>5. PhasesAgree'
    <2> SUFFICES ASSUME NEW c \in Calls PROVE PhaseAgrees(call[c])'
      BY DEF PhasesAgree
    <2>1. PhaseAgrees(call[c]) BY DEF IInv, PhasesAgree
    <2>2. CASE ~Served(c)
      <3>1. call'[c] = call[c] BY <1>3, <2>2
      <3> QED BY <1>1, <2>1, <3>1 DEF PhaseAgrees
    <2>3. CASE Served(c)
      <3>1. /\ call[c].given = 0 /\ call[c].reader # "ended" /\ call[c].peer = k
            /\ call[c].how = "no" /\ (call[c].terminal => call[c].error)
            /\ call[c].reader = "applying" => call[c].queue # <<>> /\ Head(call[c].queue).kind # "failure"
        BY <2>1, <2>3 DEF PhaseAgrees
      <3>2. left # 0 => k < left BY <1>2
      <3>3. k \notin ends' BY <1>1
      <3> QED BY <1>1, <1>2, <1>3, <2>3, <3>1, <3>2, <3>3 DEF PhaseAgrees, Keeps
    <2> QED BY <2>2, <2>3
  <1>6. /\ frames' \in [Links -> Seq(Frames)]
        /\ \A j \in Links : \A i \in DOMAIN frames'[j] :
             \E n \in DOMAIN frames[j] : frames'[j][i] = frames[j][n]
        /\ frames'[k] = <<>> /\ \A j \in Links : j # k => frames'[j] = frames[j]
    BY <1>1 DEF IInv, Shaped
  <1>7. /\ replies' \in [Links -> [Calls -> {"none", "accepted", "rejected"}]]
        /\ \A j \in Links, d \in Calls : replies'[j][d] \in {replies[j][d], "none"}
    BY <1>1 DEF IInv, Shaped
  <1>8. NothingMissing'
    <2> SUFFICES ASSUME NEW d \in Calls, call'[d].peer \in ends', ~call'[d].terminal
        PROVE  /\ NoGap(d)'
               /\ entry'[d].to = call'[d].peer => Reached(d, entry[d].sent)'
               /\ (entry'[d].to = call'[d].peer /\ entry'[d].pump.link = entry'[d].to) =>
                    Reached(d, entry[d].pump.seq)'
      BY DEF NothingMissing
    <2>1. /\ call'[d].peer = call[d].peer /\ call'[d].received = call[d].received
          /\ call'[d].terminal = call[d].terminal
      BY <1>3 DEF Keeps
    <2>2. call[d].peer \in ends /\ call[d].peer # k /\ call[d].peer \in Links
      BY <1>1, <2>1, LinkIsLink
    <2>3. frames'[call[d].peer] = frames[call[d].peer] /\ entry' = entry
      BY <1>1, <1>6, <2>2 DEF brokerVars
    <2>4. /\ NoGap(d)
          /\ entry[d].to = call[d].peer => Reached(d, entry[d].sent)
          /\ (entry[d].to = call[d].peer /\ entry[d].pump.link = entry[d].to) =>
               Reached(d, entry[d].pump.seq)
      BY <2>1, <2>2 DEF IInv, NothingMissing
    <2> QED BY <2>1, <2>3, <2>4 DEF NoGap, Reached, InFlight
  <1>9. \A d \in Calls :
          /\ Keeps(call[d], call'[d])
          /\ (active \in ends' /\ call[d].peer = active /\ call[d].phase = "opening") =>
               call'[d].phase = "opening"
    BY <1>1, <1>3
  <1>10. /\ latched' \in BOOLEAN /\ ready' \in BOOLEAN /\ ends' \subseteq ends
         /\ peer' \in {peer, 0} /\ (peer' # 0 => peer' \in ends') /\ (ready' => peer' # 0)
    BY <1>1 DEF IInv, Shaped, LinksAgree
  <1> QED BY <1>1, <1>4, <1>5, <1>6, <1>7, <1>8, <1>9, <1>10, LinkLessens

-----------------------------------------------------------------------------
LEMMA InitIsSound == Init => IInv
  <1> SUFFICES ASSUME Init PROVE IInv OBVIOUS
  <1> USE DEF Init
  <1>1. /\ call \in [Calls -> CallRecords] /\ entry \in [Calls -> Entries] /\ bulk \in [Calls -> Opens]
        /\ \A c \in Calls : call[c] = NewCall /\ entry[c] = NewEntry /\ bulk[c] = NoOpen
    BY NewCallIsCall, NewEntryIsEntry DEF NoOpen, Opens
  <1>2. /\ frames \in [Links -> Seq(Frames)] /\ \A k \in Links : frames[k] = <<>>
        /\ replies \in [Links -> [Calls -> {"none", "accepted", "rejected"}]]
        /\ \A k \in Links : \A c \in Calls : replies[k][c] = "none"
    OBVIOUS
  <1>3. Shaped
    <2>1. MaxLinks \in Nat BY Constants
    <2>2. links = 0 /\ ends = {} /\ latched = FALSE /\ ready = FALSE OBVIOUS
    <2>3. 0 \in 0..MaxLinks BY <2>1
    <2>4. ends \subseteq 1..links /\ latched \in BOOLEAN /\ ready \in BOOLEAN BY <2>2
    <2>5. cancelled \in [Calls -> Cancellations] /\ ran \in [Calls -> Nat] /\ urgent \in Seq(Messages)
      BY DEF NotCancelled, Cancellations
    <2> QED BY <1>1, <1>2, <2>2, <2>3, <2>4, <2>5 DEF Shaped
  <1>4. LinksAgree BY <1>1, Constants DEF LinksAgree, NewCall, NewEntry, NotCancelled
  <1>5. PhasesAgree BY <1>1 DEF PhasesAgree, PhaseAgrees, NewCall
  <1>6. FirstIsFirst BY <1>1 DEF FirstIsFirst, NewCall, NewEntry, NoOpen
  <1>7. AnswersAgree
    BY <1>1, <1>2, Constants DEF AnswersAgree, BuffersAgree, NewCall, NewEntry
  <1>8. OpenedOnce BY <1>1, <1>2 DEF OpenedOnce, NewCall, NewEntry, NoOpen, NoPump
  <1>9. NothingMissing BY <1>1 DEF NothingMissing, NewCall
  <1>10. AcksRise BY <1>1 DEF AcksRise, NewCall, NewEntry, NoOpen
  <1>11. StopIsComing BY <1>1 DEF StopIsComing, NewCall
  <1> QED BY <1>3, <1>4, <1>5, <1>6, <1>7, <1>8, <1>9, <1>10, <1>11 DEF IInv

LEMMA StepKeeps == IInv /\ [Next]_vars => IInv'
  <1> SUFFICES ASSUME IInv, [Next]_vars PROVE IInv' OBVIOUS
  <1>1. ASSUME NEW c \in Calls,
               \/ Begin(c) \/ GateExpires(c) \/ Open(c) \/ Abort(c) \/ Take(c) \/ Apply(c)
               \/ CancellationLapses(c) \/ HandleOpen(c) \/ Emit(c) \/ Forget(c) \/ Pump(c) \/ Pumped(c)
        PROVE  IInv'
    BY <1>1, BeginKeeps, GateExpiresKeeps, OpenKeeps, AbortKeeps, TakeKeeps, ApplyKeeps,
       CancellationLapsesKeeps,
       HandleOpenKeeps, EmitKeeps, ForgetKeeps, PumpKeeps, PumpedKeeps
  <1>2. ASSUME NEW c \in Calls, NEW k \in Links, Answered(k, c) PROVE IInv'
    BY <1>2, AnsweredKeeps
  <1>3. ASSUME NEW k \in Links, Receive(k) \/ ProxyCloses(k) PROVE IInv'
    BY <1>3, ReceiveKeeps, ProxyClosesKeeps
  <1>4. ASSUME Connect \/ Admit \/ BrokerCloses \/ HandleUrgent \/ Restart PROVE IInv'
    BY <1>4, ConnectKeeps, AdmitKeeps, BrokerClosesKeeps, HandleUrgentKeeps
  <1>5. ASSUME UNCHANGED vars PROVE IInv'
    <2> USE <1>5 DEF IInv, vars, proxyVars, linkVars, brokerVars
    <2>1. Shaped' BY DEF Shaped
    <2>2. LinksAgree' BY DEF LinksAgree
    <2>3. PhasesAgree' BY DEF PhasesAgree, PhaseAgrees
    <2>4. FirstIsFirst' BY DEF FirstIsFirst
    <2>5. AnswersAgree' BY DEF AnswersAgree, BuffersAgree
    <2>6. OpenedOnce' BY DEF OpenedOnce
    <2>7. NothingMissing' BY DEF NothingMissing, NoGap, Reached, InFlight
    <2>8. AcksRise' BY DEF AcksRise
    <2>9. StopIsComing' BY DEF StopIsComing, IsStopped, GivenUpBeforeOpen, LapsedBefore
    <2> QED BY <2>1, <2>2, <2>3, <2>4, <2>5, <2>6, <2>7, <2>8, <2>9
  <1> QED BY <1>1, <1>2, <1>3, <1>4, <1>5 DEF Next

\* The inductive invariant holds in every state: what the calls, the links and
\* the retained calls of the broker look like, and how they agree.
THEOREM Invariant == Spec => []IInv
  <1>1. Init => IInv BY InitIsSound
  <1>2. IInv /\ [Next]_vars => IInv' BY StepKeeps
  <1> QED BY <1>1, <1>2, PTL DEF Spec

-----------------------------------------------------------------------------
LEMMA InvariantHasTypes == IInv => TypeOK
  <1> SUFFICES ASSUME IInv PROVE TypeOK OBVIOUS
  <1> USE DEF IInv
  <1>1. links \in Nat /\ MaxEvents \in Nat /\ peer \in 0..links /\ active \in 0..links /\ ends \subseteq 1..links
        /\ latched \in BOOLEAN /\ ready \in BOOLEAN
    BY Constants DEF Shaped, LinksAgree
  <1>2. ASSUME NEW c \in Calls
        PROVE  /\ call[c].phase \in {"none", "gate", "woken", "opening", "open", "over"}
               /\ call[c].timer \in BOOLEAN
               /\ call[c].given \in 0..links /\ call[c].peer \in 0..links
               /\ call[c].reader \in {"idle", "applying", "ended"}
               /\ call[c].how \in {"no", "normal", "failed"}
               /\ cancelled[c].at \in 0 .. links + 1 /\ cancelled[c].lapsed \in 0 .. links + 1
               /\ ran[c] \in Nat
    <2>1. call[c] \in CallRecords /\ ran[c] \in Nat BY DEF Shaped
    <2>2. /\ call[c].given <= links /\ call[c].peer <= links
          /\ cancelled[c].at \in 0 .. links + 1 /\ cancelled[c].lapsed \in 0 .. links + 1
      BY DEF PhasesAgree, PhaseAgrees, LinksAgree
    <2>3. call[c].given \in Nat /\ call[c].peer \in Nat BY <2>1 DEF CallRecords
    <2> QED BY <1>1, <2>1, <2>2, <2>3 DEF CallRecords
  <1>3. ASSUME NEW c \in Calls
        PROVE  /\ entry[c].state \in {"new", "live", "gone"} /\ entry[c].term \in {"no", "end", "failure"}
               /\ entry[c].n \in 0 .. MaxEvents /\ entry[c].to \in 0..links
               /\ entry[c].pump.link \in 0..links
    <2>1. entry[c] \in Entries BY DEF Shaped
    <2>2. /\ entry[c].n \in Nat /\ entry[c].to \in Nat /\ entry[c].pump.link \in Nat
          /\ entry[c].state \in {"new", "live", "gone"} /\ entry[c].term \in {"no", "end", "failure"}
      BY <2>1 DEF Entries
    <2>3. entry[c].n <= MaxEvents /\ entry[c].to <= call[c].peer /\ entry[c].pump.link <= call[c].peer
      BY DEF AnswersAgree, OpenedOnce
    <2>4. call[c].peer \in 0..links BY <1>2
    <2> QED BY <1>1, <2>2, <2>3, <2>4
  <1> QED BY <1>1, <1>2, <1>3 DEF TypeOK

LEMMA InvariantAgrees == IInv => CursorsAgree
  <1> SUFFICES ASSUME IInv PROVE CursorsAgree OBVIOUS
  <1>1. TypeOK BY InvariantHasTypes
  <1>2. ASSUME NEW c \in Calls, call[c].reader # "ended"
        PROVE  /\ \A i \in DOMAIN call[c].queue : call[c].queue[i].seq = call[c].applied + i
               /\ call[c].received = call[c].applied + Len(call[c].queue)
               /\ call[c].received <= entry[c].n
    BY <1>2 DEF IInv, AnswersAgree, BuffersAgree
  <1>3. ASSUME NEW k \in ends, frames[k] # <<>>,
               call[Head(frames[k]).call].peer = k, ~call[Head(frames[k]).call].terminal
        PROVE  Head(frames[k]).seq <= call[Head(frames[k]).call].received + 1
    <2> DEFINE f == Head(frames[k])
    <2>1. k \in Links BY LinkIsLink DEF IInv, Shaped, Links
    <2>2. frames[k] \in Seq(Frames) BY <2>1 DEF IInv, Shaped
    <2>3. f = frames[k][1] /\ 1 \in DOMAIN frames[k] /\ f \in Frames BY <1>3, <2>2
    <2>4. f.call \in Calls /\ f.seq \in Nat BY <2>3 DEF Frames
    <2>5. NoGap(f.call) BY <1>3, <2>4 DEF IInv, NothingMissing
    <2>6. call[f.call].received \in Nat BY <2>4 DEF IInv, Shaped, CallRecords
    <2>7. ~(f.seq > call[f.call].received + 1) BY <1>3, <2>3, <2>5 DEF NoGap
    <2> QED BY <2>4, <2>6, <2>7
  <1>4. ASSUME NEW c \in Calls, entry[c].state = "live", bulk[c].sent PROVE Retained(c, bulk[c])
    <2>1. entry[c] \in Entries /\ bulk[c] \in Opens /\ call[c] \in CallRecords BY DEF IInv, Shaped
    <2>2. /\ entry[c].ack \in Nat /\ entry[c].n \in Nat /\ bulk[c].after \in Nat /\ call[c].applied \in Nat
      BY <2>1 DEF Entries, Opens, CallRecords
    <2>3. entry[c].ack <= bulk[c].after /\ bulk[c].after <= call[c].applied /\ call[c].applied <= entry[c].n
      BY <1>4 DEF IInv, AcksRise, AnswersAgree, BuffersAgree
    <2> QED BY <1>4, <2>2, <2>3 DEF Retained
  <1>5. ASSUME NEW c \in Calls, entry[c].state = "live", urgent # <<>>,
               Head(urgent).kind = "ack", Head(urgent).call = c
        PROVE  Head(urgent).seq \in entry[c].ack .. entry[c].n
    <2>1. urgent \in Seq(Messages) /\ entry[c] \in Entries /\ call[c] \in CallRecords BY DEF IInv, Shaped
    <2>2. Head(urgent) = urgent[1] /\ 1 \in DOMAIN urgent /\ urgent[1] \in Messages BY <1>5, <2>1
    <2>3. /\ entry[c].ack \in Nat /\ entry[c].n \in Nat /\ urgent[1].seq \in Nat /\ call[c].applied \in Nat
      BY <2>1, <2>2 DEF Entries, Messages, CallRecords
    <2>4. entry[c].ack <= urgent[1].seq /\ urgent[1].seq <= call[c].applied
      BY <1>5, <2>2 DEF IInv, AcksRise
    <2>5. call[c].applied <= entry[c].n BY DEF IInv, AnswersAgree, BuffersAgree
    <2> QED BY <2>2, <2>3, <2>4, <2>5
  <1> QED BY <1>1, <1>2, <1>3, <1>4, <1>5 DEF CursorsAgree

\* However often links are lost and the broker's process replaced, the proxy
\* buffers exactly what it received and did not apply, takes no frame that skips
\* one, and sends no acknowledgement and no cursor that ModelRetention refuses.
THEOREM CursorsSound == Spec => []CursorsAgree
  BY Invariant, InvariantAgrees, PTL

LEMMA InvariantStops == IInv => OrphansAreStopped
  <1> SUFFICES ASSUME IInv, NEW c \in Calls, call[c].reader = "ended", Quiet(c), RunsOn(c)
               PROVE  GivenUpBeforeOpen(c) \/ LapsedBefore(c)
    BY DEF OrphansAreStopped
  <1>1. IsStopped(c) BY DEF IInv, StopIsComing, RunsOn
  <1> QED BY <1>1 DEF IsStopped, Quiet, RunsOn

\* A call nobody reads any more does not run on at the broker once the link is
\* up and quiet, but for the two known cases.
THEOREM OrphansStopped == Spec => []OrphansAreStopped
  BY Invariant, InvariantStops, PTL

-----------------------------------------------------------------------------
(* What the caller and the provider see of a step.                         *)

LEMMA NothingShows ==
  ASSUME UNCHANGED ran,
         \A d \in Calls :
           /\ entry'[d].n = entry[d].n /\ entry'[d].term = entry[d].term
           /\ call'[d].applied = call[d].applied /\ call'[d].how = call[d].how
  PROVE  UNCHANGED Promised!vars
  BY DEF Promised!vars

LEMMA CallStutters ==
  ASSUME IInv, NEW c \in Calls, NEW x, call' = [call EXCEPT ![c] = x], UNCHANGED <<entry, ran>>,
         x.applied = call[c].applied, x.how = call[c].how
  PROVE  UNCHANGED Promised!vars
  <1>1. \A d \in Calls : call'[d] = IF d = c THEN x ELSE call[d] BY DEF IInv, Shaped
  <1> QED BY <1>1, NothingShows

LEMMA CallFails ==
  ASSUME IInv, NEW c \in Calls, NEW x, call' = [call EXCEPT ![c] = x], UNCHANGED <<entry, ran>>,
         x.applied = call[c].applied, x.how = "failed", call[c].how = "no"
  PROVE  Promised!Fail(c)
  <1>1. \A d \in Calls : call'[d] = IF d = c THEN x ELSE call[d] BY DEF IInv, Shaped
  <1>2. [d \in Calls |-> call'[d].applied] = [d \in Calls |-> call[d].applied] BY <1>1
  <1>3. \A d \in Calls : call'[d].how = IF d = c THEN "failed" ELSE call[d].how BY <1>1
  <1>4. [d \in Calls |-> call'[d].how] = [[d \in Calls |-> call[d].how] EXCEPT ![c] = "failed"] BY <1>3
  <1> QED BY <1>2, <1>4 DEF Promised!Fail

\* The caller takes the next event f, which is one of the answer.
LEMMA CallReads ==
  ASSUME IInv, NEW c \in Calls, NEW x, call' = [call EXCEPT ![c] = x], UNCHANGED <<entry, ran>>,
         call[c].how = "no", NEW f \in Frames, IsOf(f, entry[c]), f.kind # "failure",
         f.seq = call[c].applied + 1, x.applied = f.seq,
         \/ x.how = "no" \/ x.how = "failed"
         \/ x.how = "normal" /\ f.kind = "end"
  PROVE  Promised!Read(c)
  <1>1. \A d \in Calls : call'[d] = IF d = c THEN x ELSE call[d] BY DEF IInv, Shaped
  <1>2. /\ call[c].applied \in Nat /\ entry[c].n \in Nat /\ entry[c] \in Entries
        /\ entry[c].term \in {"no", "end", "failure"}
    BY CallFacts DEF Entries
  <1>3. call[c].applied < entry[c].n BY <1>2 DEF IsOf
  <1>4. f.kind \in {"delta", "end"} BY DEF Frames
  <1>5. call[c].applied + 1 = entry[c].n => entry[c].term # "failure"
    BY <1>2, <1>4 DEF IsOf
  <1>6. f.kind = "end" => call[c].applied + 1 = entry[c].n /\ entry[c].term = "end"
    BY DEF IsOf
  <1> DEFINE n == x.applied
             how == x.how
  <1>7. \A d \in Calls : call'[d].applied = IF d = c THEN n ELSE call[d].applied BY <1>1
  <1>8. \A d \in Calls : call'[d].how = IF d = c THEN how ELSE call[d].how BY <1>1
  <1>9. n = call[c].applied + 1 OBVIOUS
  <1> HIDE DEF n, how
  <1>10. [d \in Calls |-> call'[d].applied]
          = [[d \in Calls |-> call[d].applied] EXCEPT ![c] = call[c].applied + 1]
    <2>1. [d \in Calls |-> call'[d].applied] = [[d \in Calls |-> call[d].applied] EXCEPT ![c] = n]
      BY <1>7
    <2> QED BY <1>9, <2>1
  <1>11. [d \in Calls |-> call'[d].how] = [[d \in Calls |-> call[d].how] EXCEPT ![c] = how]
    BY <1>8
  <1>12. how = x.how BY DEF how
  <1>13. x.how = "no" => [d \in Calls |-> call'[d].how] = [d \in Calls |-> call[d].how]
    BY <1>1
  <1> QED BY <1>3, <1>5, <1>6, <1>10, <1>11, <1>12, <1>13 DEF Promised!Read

\* Only what the broker keeps besides the answer moves.
LEMMA EntryStutters ==
  ASSUME IInv, NEW c \in Calls, NEW x, entry' = [entry EXCEPT ![c] = x], UNCHANGED <<call, ran>>,
         x.n = entry[c].n, x.term = entry[c].term
  PROVE  UNCHANGED Promised!vars
  <1>1. \A d \in Calls : entry'[d] = IF d = c THEN x ELSE entry[d] BY DEF IInv, Shaped
  <1> QED BY <1>1, NothingShows

-----------------------------------------------------------------------------
LEMMA ProxyStepShows ==
  ASSUME IInv, NEW c \in Calls,
         Begin(c) \/ GateExpires(c) \/ Open(c) \/ Abort(c) \/ CancellationLapses(c)
  PROVE  UNCHANGED Promised!vars
  <1> DEFINE r == call[c]
  <1>1. UNCHANGED <<entry, ran>> BY DEF Begin, GateExpires, Open, Abort, CancellationLapses, brokerVars
  <1>2. r \in CallRecords BY CallFacts
  <1>3. CASE Begin(c)
    <2>1. r = NewCall BY <1>3 DEF Begin, IInv, PhasesAgree, PhaseAgrees
    <2>2. Gate \in Nat BY Constants DEF Gate, IInv, LinksAgree, Shaped
    <2>3. CASE latched
      <3>1. call' = [call EXCEPT ![c] = Failed(NewCall)] BY <1>3, <2>3 DEF Begin
      <3> QED BY <1>1, <1>2, <2>1, <3>1, FailedFacts, CallStutters DEF Keeps
    <2>4. CASE ~latched
      <3>1. PICK t \in BOOLEAN : call' = [call EXCEPT ![c] = Gated(NewCall, Gate, t)]
        BY <1>3, <2>4 DEF Begin
      <3> QED BY <1>1, <1>2, <2>1, <2>2, <3>1, GatedFacts, CallStutters DEF Keeps
    <2> QED BY <2>3, <2>4
  <1>4. CASE GateExpires(c)
    <2>1. call' = [call EXCEPT ![c] = Failed(r)] BY <1>4 DEF GateExpires
    <2> QED BY <1>1, <1>2, <2>1, FailedFacts, CallStutters DEF Keeps
  <1>5. CASE Open(c)
    <2> DEFINE asked == [r EXCEPT !.peer = r.given, !.given = 0, !.admitted = FALSE, !.attempted = TRUE]
               x == [asked EXCEPT !.phase = "opening"]
               y(t) == Gated(asked, Gate, t)
               z == [Failed(r) EXCEPT !.given = 0]
    <2>1. \/ call' = [call EXCEPT ![c] = x]
          \/ \E t \in BOOLEAN : call' = [call EXCEPT ![c] = y(t)]
          \/ call' = [call EXCEPT ![c] = z]
      BY <1>5 DEF Open
    <2>2. asked \in CallRecords /\ asked.applied = r.applied /\ asked.how = r.how BY <1>2 DEF CallRecords
    <2>3. x.applied = r.applied /\ x.how = r.how BY <1>2, <2>2 DEF CallRecords
    <2> HIDE DEF asked
    <2>4. \A t \in BOOLEAN : y(t).applied = r.applied /\ y(t).how = r.how
      <3>1. Gate \in Nat BY Constants DEF Gate, IInv, LinksAgree, Shaped
      <3> QED BY <2>2, <3>1, GatedFacts DEF Keeps
    <2>5. z.applied = r.applied /\ z.how = r.how BY <1>2, FailedFacts DEF Keeps, CallRecords
    <2> HIDE DEF x, y, z
    <2> QED BY <1>1, <2>1, <2>3, <2>4, <2>5, CallStutters
  <1>6. CASE Abort(c)
    <2> DEFINE x == [r EXCEPT !.phase = "over", !.aborted = TRUE, !.error = TRUE, !.terminal = TRUE,
                              !.given = 0]
    <2>1. call' = [call EXCEPT ![c] = x] BY <1>6 DEF Abort
    <2>2. x.applied = r.applied /\ x.how = r.how BY <1>2 DEF CallRecords
    <2> HIDE DEF x
    <2> QED BY <1>1, <2>1, <2>2, CallStutters
  <1>7. CASE CancellationLapses(c)
    BY <1>1, <1>7, NothingShows DEF CancellationLapses
  <1> QED BY <1>3, <1>4, <1>5, <1>6, <1>7

\* The messages of a link, the proxy's end of it, and then its other steps.
LEMMA LinkStepShows ==
  ASSUME IInv, NEW k \in Links, Receive(k) \/ ProxyCloses(k) \/ (\E c \in Calls : Answered(k, c))
  PROVE  UNCHANGED Promised!vars
  <1> USE DEF brokerVars, linkVars, proxyVars
  <1>1. call \in [Calls -> CallRecords] /\ entry \in [Calls -> Entries] BY DEF IInv, Shaped
  <1>2. ASSUME NEW c \in Calls, Answered(k, c) PROVE UNCHANGED Promised!vars
    <2> DEFINE r == call[c]
               x == [r EXCEPT !.phase = "open", !.admitted = TRUE]
    <2>1. /\ \/ call' = [call EXCEPT ![c] = x] \/ call' = [call EXCEPT ![c] = Failed(r)] \/ call' = call
          /\ UNCHANGED <<entry, ran>>
      BY <1>2 DEF Answered
    <2>2. x.applied = r.applied /\ x.how = r.how BY <1>1 DEF CallRecords
    <2> HIDE DEF x
    <2> QED BY <1>1, <2>1, <2>2, FailedFacts, CallStutters, NothingShows DEF Keeps
  <1>3. CASE Receive(k)
    <2> DEFINE f == Head(frames[k])
               c == f.call
               r == call[c]
               x == [r EXCEPT !.queue = Append(@, f), !.received = f.seq]
               y == [r EXCEPT !.error = TRUE, !.terminal = TRUE]
    <2>1. c \in Calls
      <3>1. frames[k] \in Seq(Frames) /\ frames[k] # <<>> BY <1>3 DEF IInv, Shaped, Receive
      <3>2. f \in Frames BY <3>1
      <3> QED BY <3>2 DEF Frames
    <2>2. UNCHANGED <<entry, ran>> BY <1>3 DEF Receive
    <2>3. \/ call' = [call EXCEPT ![c].queue = Append(@, f), ![c].received = f.seq]
          \/ call' = [call EXCEPT ![c].error = TRUE, ![c].terminal = TRUE]
          \/ call' = call
      BY <1>3 DEF Receive
    <2>4. \/ call' = [call EXCEPT ![c] = x] \/ call' = [call EXCEPT ![c] = y] \/ call' = call
      BY <2>3, Zenon
    <2>5. x.applied = r.applied /\ x.how = r.how /\ y.applied = r.applied /\ y.how = r.how
      BY <1>1, <2>1 DEF CallRecords
    <2> HIDE DEF c, x, y
    <2> QED BY <2>1, <2>2, <2>4, <2>5, CallStutters, NothingShows
  <1>4. CASE ProxyCloses(k)
    <2> DEFINE left == IF peer = k THEN 0 ELSE Gate
    <2>1. left \in Nat BY Constants DEF Gate, IInv, LinksAgree, Shaped
    <2>2. PICK t \in BOOLEAN :
            \A c \in Calls : call'[c] = Gated(call[c], left, t) \/ call'[c] = call[c]
      BY <1>4 DEF ProxyCloses
    <2>3. UNCHANGED <<entry, ran>> BY <1>4 DEF ProxyCloses
    <2> HIDE DEF left
    <2>4. \A c \in Calls : call'[c].applied = call[c].applied /\ call'[c].how = call[c].how
      BY <1>1, <2>1, <2>2, GatedFacts DEF Keeps
    <2> QED BY <2>3, <2>4, NothingShows
  <1> QED BY <1>2, <1>3, <1>4

LEMMA LinkEndShows ==
  ASSUME IInv, Admit \/ Connect \/ BrokerCloses
  PROVE  UNCHANGED Promised!vars
  <1> USE DEF brokerVars, linkVars, proxyVars
  <1>1. call \in [Calls -> CallRecords] /\ entry \in [Calls -> Entries] BY DEF IInv, Shaped
  <1>2. CASE Admit
    <2>1. peer \in Nat BY Constants DEF IInv, LinksAgree, Shaped
    <2>2. peer # 0 /\ \A c \in Calls : call'[c] = Gated(call[c], peer, FALSE) \/ call'[c] = call[c]
      BY <1>2 DEF Admit
    <2>3. UNCHANGED <<entry, ran>> BY <1>2 DEF Admit
    <2>4. \A c \in Calls : call'[c].applied = call[c].applied /\ call'[c].how = call[c].how
      <3>1. SUFFICES ASSUME NEW c \in Calls
            PROVE  call'[c].applied = call[c].applied /\ call'[c].how = call[c].how
        OBVIOUS
      <3> DEFINE x == Gated(call[c], peer, FALSE)
      <3>2. call[c] \in CallRecords BY <1>1
      <3>3. x.applied = call[c].applied /\ x.how = call[c].how
        BY <2>1, <3>2, GatedFacts DEF Keeps
      <3>4. call'[c] = x \/ call'[c] = call[c] BY <2>2
      <3> HIDE DEF x
      <3> QED BY <3>3, <3>4
    <2> QED BY <2>3, <2>4, NothingShows
  <1>3. CASE Connect \/ BrokerCloses
    <2>1. UNCHANGED <<call, ran>> /\ entry' = [c \in Calls |-> [entry[c] EXCEPT !.to = 0]]
      BY <1>3 DEF Connect, BrokerCloses, Detached
    <2>2. \A c \in Calls : entry'[c].n = entry[c].n /\ entry'[c].term = entry[c].term
      BY <1>1, <2>1 DEF Entries
    <2> QED BY <2>1, <2>2, NothingShows
  <1> QED BY <1>2, <1>3

LEMMA ReaderStepShows ==
  ASSUME IInv, NEW c \in Calls, Take(c) \/ Apply(c)
  PROVE  Promised!Next \/ UNCHANGED Promised!vars
  <1> DEFINE r == call[c]
             left(s, how) == [NewCall EXCEPT !.phase = "over", !.terminal = TRUE, !.reader = "ended",
                                             !.peer = s.peer, !.applied = s.applied, !.how = how]
  <1>1. UNCHANGED <<entry, ran>> BY DEF Take, Apply, brokerVars
  <1>2. r \in CallRecords BY CallFacts
  <1>3. ASSUME NEW s, NEW how
        PROVE  left(s, how).applied = s.applied /\ left(s, how).how = how
    BY DEF NewCall
  <1>4. ASSUME NEW s, NEW how, NEW u, Leave(c, s, how, u) PROVE call' = [call EXCEPT ![c] = left(s, how)]
    BY <1>4 DEF Leave
  <1>5. r.reader # "ended" => r.how = "no" BY DEF IInv, PhasesAgree, PhaseAgrees
  <1> HIDE DEF left
  <1>6. CASE Take(c)
    <2>1. \/ Leave(c, r, "failed", urgent)
          \/ call' = [call EXCEPT ![c].reader = "applying"]
      BY <1>6 DEF Take
    <2>2. CASE Leave(c, r, "failed", urgent)
      <3>1. r.how = "no" BY <1>5, <1>6 DEF Take
      <3>2. Promised!Fail(c) BY <1>1, <1>3, <1>4, <2>2, <3>1, CallFails
      <3> QED BY <3>2 DEF Promised!Next
    <2>3. CASE call' = [call EXCEPT ![c].reader = "applying"]
      <3> DEFINE x == [r EXCEPT !.reader = "applying"]
      <3>1. call' = [call EXCEPT ![c] = x] BY <2>3
      <3>2. x.applied = r.applied /\ x.how = r.how BY <1>2 DEF CallRecords
      <3> HIDE DEF x
      <3> QED BY <1>1, <3>1, <3>2, CallStutters
    <2> QED BY <2>1, <2>2, <2>3
  <1>7. CASE Apply(c)
    <2> DEFINE f == Head(r.queue)
               read == [r EXCEPT !.queue = Tail(@), !.applied = f.seq, !.reader = "idle"]
               last == [read EXCEPT !.terminal = TRUE]
    <2>1. r.reader = "applying" /\ r.how = "no" BY <1>5, <1>7 DEF Apply
    <2>2. /\ f \in Frames /\ IsOf(f, entry[c]) /\ f.kind # "failure" /\ f.seq = r.applied + 1
          /\ read \in CallRecords /\ read.applied = f.seq
      BY <2>1, ReadFacts
    <2>3. read.how = "no" BY <1>2, <2>1 DEF CallRecords
    <2>4. \/ call' = [call EXCEPT ![c] = read]
          \/ Leave(c, read, "failed", Acked(c, read))
          \/ f.kind = "end" /\ Leave(c, last, "normal", Acked(c, read))
      BY <1>7 DEF Apply
    <2>5. last.applied = f.seq
      <3> HIDE DEF read
      <3> QED BY <2>2 DEF CallRecords
    <2> HIDE DEF f, read, last
    <2>6. CASE call' = [call EXCEPT ![c] = read]
      BY <1>1, <2>1, <2>2, <2>3, <2>6, CallReads DEF Promised!Next
    <2>7. CASE Leave(c, read, "failed", Acked(c, read))
      <3> DEFINE x == left(read, "failed")
      <3>1. call' = [call EXCEPT ![c] = x] /\ x.applied = f.seq /\ x.how = "failed"
        BY <1>3, <1>4, <2>2, <2>7
      <3> HIDE DEF x
      <3> QED BY <1>1, <2>1, <2>2, <3>1, CallReads DEF Promised!Next
    <2>8. CASE f.kind = "end" /\ Leave(c, last, "normal", Acked(c, read))
      <3> DEFINE x == left(last, "normal")
      <3>1. call' = [call EXCEPT ![c] = x] /\ x.applied = f.seq /\ x.how = "normal"
        BY <1>3, <1>4, <2>5, <2>8
      <3> HIDE DEF x
      <3> QED BY <1>1, <2>1, <2>2, <2>8, <3>1, CallReads DEF Promised!Next
    <2> QED BY <2>4, <2>6, <2>7, <2>8
  <1> QED BY <1>6, <1>7

LEMMA BrokerStepShows ==
  ASSUME IInv, NEW c \in Calls, HandleOpen(c) \/ Emit(c) \/ Forget(c) \/ Pump(c) \/ Pumped(c)
  PROVE  Promised!Next \/ UNCHANGED Promised!vars
  <1> DEFINE e == entry[c]
  <1>1. call' = call BY DEF HandleOpen, Emit, Forget, Pump, Pumped, proxyVars
  <1>2. e \in Entries /\ entry \in [Calls -> Entries] /\ ran \in [Calls -> Nat] BY DEF IInv, Shaped
  <1>3. CASE HandleOpen(c)
    <2> DEFINE m == bulk[c]
               resumed == Resume(e, m)
               refused == [e EXCEPT !.state = "gone"]
               new == [NewEntry EXCEPT !.state = "live", !.to = active]
    <2>1. \/ UNCHANGED ran /\ entry' = [entry EXCEPT ![c] = resumed]
          \/ /\ Runs(c, m) /\ entry' = [entry EXCEPT ![c] = new]
             /\ ran' = [ran EXCEPT ![c] = @ + 1]
          \/ UNCHANGED ran /\ entry' = [entry EXCEPT ![c] = refused]
          \/ UNCHANGED <<entry, ran>>
      BY <1>3 DEF HandleOpen
    <2>2. resumed.n = e.n /\ resumed.term = e.term /\ refused.n = e.n /\ refused.term = e.term
      BY <1>2 DEF Resume, Entries
    <2>3. new.n = 0 /\ new.term = "no" BY DEF NewEntry
    <2>4. ASSUME Runs(c, m) PROVE ran[c] = 0 /\ e.n = 0 /\ e.term = "no"
      <3>1. m.sent /\ ~m.resume BY <1>3, <2>4 DEF HandleOpen, Runs
      <3>2. ran[c] = 0 BY <3>1 DEF IInv, FirstIsFirst
      <3> QED BY <3>2 DEF IInv, FirstIsFirst
    <2> HIDE DEF resumed, refused, new
    <2>5. CASE /\ Runs(c, m) /\ entry' = [entry EXCEPT ![c] = new]
               /\ ran' = [ran EXCEPT ![c] = @ + 1]
      <3>1. \A d \in Calls : entry'[d].n = entry[d].n /\ entry'[d].term = entry[d].term
        BY <1>2, <2>3, <2>4, <2>5
      <3>2. ran' = [ran EXCEPT ![c] = 1] /\ ran[c] = 0 BY <1>2, <2>4, <2>5
      <3>3. Promised!Run(c) BY <1>1, <3>1, <3>2 DEF Promised!Run
      <3> QED BY <3>3 DEF Promised!Next
    <2>6. CASE UNCHANGED <<entry, ran>> BY <1>1, <2>6, NothingShows
    <2> QED BY <1>1, <2>1, <2>2, <2>5, <2>6, EntryStutters
  <1>4. CASE Emit(c)
    <2>1. PICK t \in {"no", "end", "failure"} : entry' = [entry EXCEPT ![c].n = @ + 1, ![c].term = t]
      BY <1>4 DEF Emit
    <2> DEFINE x == [e EXCEPT !.n = @ + 1, !.term = t]
    <2>2. entry' = [entry EXCEPT ![c] = x] BY <2>1, Zenon
    <2>3. x.n = e.n + 1 /\ x.term = t BY <1>2 DEF Entries
    <2> HIDE DEF x
    <2>4. ran' = ran /\ ran[c] = 1 /\ e.term = "no" BY <1>4 DEF Emit, IInv, FirstIsFirst
    <2>5. \A d \in Calls : entry'[d] = IF d = c THEN x ELSE entry[d] BY <1>2, <2>2
    <2>6. \A d \in Calls : entry'[d].term = IF d = c THEN t ELSE entry[d].term BY <2>3, <2>5
    <2>7. \A d \in Calls : entry'[d].n = IF d = c THEN e.n + 1 ELSE entry[d].n BY <2>3, <2>5
    <2>8. [d \in Calls |-> entry'[d].term] = [[d \in Calls |-> entry[d].term] EXCEPT ![c] = t]
      BY <2>6
    <2>9. [d \in Calls |-> entry'[d].n] = [[d \in Calls |-> entry[d].n] EXCEPT ![c] = @ + 1]
      BY <2>7
    <2>10. Promised!Make(c) BY <1>1, <2>4, <2>8, <2>9 DEF Promised!Make
    <2> QED BY <2>10 DEF Promised!Next
  <1>5. CASE Forget(c) \/ Pump(c) \/ Pumped(c)
    <2> DEFINE x == [e EXCEPT !.state = "gone"]
               y(s) == [e EXCEPT !.pump = [link |-> e.to, seq |-> s]]
               z == [e EXCEPT !.sent = Written(e), !.pump = NoPump]
    <2>1. /\ \/ entry' = [entry EXCEPT ![c] = x]
             \/ \E s : entry' = [entry EXCEPT ![c] = y(s)]
             \/ entry' = [entry EXCEPT ![c] = z]
          /\ ran' = ran
      <3>1. CASE Forget(c) BY <3>1 DEF Forget
      <3>2. CASE Pump(c) BY <3>2 DEF Pump
      <3>3. CASE Pumped(c)
        <4>1. entry' = [entry EXCEPT ![c].sent = Written(e), ![c].pump = NoPump] /\ ran' = ran
          BY <3>3 DEF Pumped
        <4> QED BY <4>1, Zenon
      <3> QED BY <1>5, <3>1, <3>2, <3>3
    <2>2. /\ x.n = e.n /\ x.term = e.term /\ z.n = e.n /\ z.term = e.term
          /\ \A s : y(s).n = e.n /\ y(s).term = e.term
      BY <1>2 DEF Entries
    <2> HIDE DEF x, y, z
    <2> QED BY <1>1, <2>1, <2>2, EntryStutters
  <1> QED BY <1>3, <1>4, <1>5

LEMMA UrgentStepShows ==
  ASSUME IInv, HandleUrgent \/ Restart
  PROVE  UNCHANGED Promised!vars
  <1>1. call' = call /\ ran' = ran BY DEF HandleUrgent, Restart, proxyVars
  <1>2. entry \in [Calls -> Entries] BY DEF IInv, Shaped
  <1>3. CASE HandleUrgent
    <2> DEFINE m == Head(urgent)
               c == m.call
               e == entry[c]
               x == [e EXCEPT !.ack = m.seq]
    <2>1. c \in Calls
      <3>1. urgent \in Seq(Messages) /\ urgent # <<>> BY <1>3 DEF HandleUrgent, IInv, Shaped
      <3>2. m \in Messages BY <3>1
      <3> QED BY <3>2 DEF Messages
    <2>2. \/ entry' = [entry EXCEPT ![c] = Dropped(e)]
          \/ entry' = [entry EXCEPT ![c] = x]
          \/ entry' = entry
      BY <1>3 DEF HandleUrgent
    <2>3. Dropped(e).n = e.n /\ Dropped(e).term = e.term /\ x.n = e.n /\ x.term = e.term
      BY <1>2, <2>1 DEF Dropped, NewEntry, Entries
    <2> HIDE DEF m, c, x
    <2> QED BY <1>1, <2>1, <2>2, <2>3, EntryStutters, NothingShows
  <1>4. CASE Restart
    <2>1. entry' = [c \in Calls |-> [NewEntry EXCEPT !.n = entry[c].n, !.term = entry[c].term]]
      BY <1>4 DEF Restart
    <2>2. \A c \in Calls : entry'[c].n = entry[c].n /\ entry'[c].term = entry[c].term
      BY <2>1 DEF NewEntry
    <2> QED BY <1>1, <2>2, NothingShows
  <1> QED BY <1>3, <1>4

\* The proxy and the broker implement ModelStream: over any number of links, and
\* with the broker's process replaced, a call is run once at most, its events are
\* read once each and in order, and it ends normally only with the last of them.
THEOREM StreamImplemented == Spec => ImplementsModelStream
  <1>1. Init => Promised!Init
    BY DEF Init, Promised!Init, NewCall, NewEntry
  <1>2. IInv /\ [Next]_vars => [Promised!Next]_(Promised!vars)
    <2> SUFFICES ASSUME IInv, [Next]_vars PROVE Promised!Next \/ UNCHANGED Promised!vars
      OBVIOUS
    <2>1. ASSUME NEW c \in Calls,
                 Begin(c) \/ GateExpires(c) \/ Open(c) \/ Abort(c) \/ CancellationLapses(c)
          PROVE  UNCHANGED Promised!vars
      BY <2>1, ProxyStepShows
    <2>2. ASSUME NEW c \in Calls, Take(c) \/ Apply(c)
          PROVE  Promised!Next \/ UNCHANGED Promised!vars
      BY <2>2, ReaderStepShows
    <2>3. ASSUME NEW c \in Calls, HandleOpen(c) \/ Emit(c) \/ Forget(c) \/ Pump(c) \/ Pumped(c)
          PROVE  Promised!Next \/ UNCHANGED Promised!vars
      BY <2>3, BrokerStepShows
    <2>4. ASSUME NEW k \in Links, Receive(k) \/ ProxyCloses(k) \/ (\E c \in Calls : Answered(k, c))
          PROVE  UNCHANGED Promised!vars
      BY <2>4, LinkStepShows
    <2>5. ASSUME Connect \/ Admit \/ BrokerCloses PROVE UNCHANGED Promised!vars
      BY <2>5, LinkEndShows
    <2>6. ASSUME HandleUrgent \/ Restart PROVE UNCHANGED Promised!vars
      BY <2>6, UrgentStepShows
    <2>7. CASE UNCHANGED vars BY <2>7, NothingShows DEF vars, proxyVars, brokerVars
    <2> QED BY <2>1, <2>2, <2>3, <2>4, <2>5, <2>6, <2>7 DEF Next
  <1> QED BY <1>1, <1>2, Invariant, PTL DEF Spec, ImplementsModelStream, Promised!Spec
=============================================================================
