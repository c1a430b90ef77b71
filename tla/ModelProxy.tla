------------------------------ MODULE ModelProxy ------------------------------
(***************************************************************************)
(* A remote agent's model calls, run on the user's machine: packages/cli/  *)
(* src/remote/proxy-ai.ts and proxy-gate.ts (the remote side, below: the   *)
(* proxy), model-peer.ts and model-retention.ts (the broker).              *)
(*                                                                         *)
(* The broker dials one connection after another, its links.  Each end     *)
(* notices the end of a link on its own; what is under way is lost then.   *)
(* A call outlives its links: the broker keeps the frames the proxy did    *)
(* not acknowledge, and the proxy opens the call again, from its cursor,   *)
(* on the next link that is admitted.                                      *)
(*                                                                         *)
(* Only the streams of one turn are modelled; the late receipts of         *)
(* compactions, and credentials, are not.                                  *)
(***************************************************************************)
EXTENDS Naturals, FiniteSets, Sequences, SequencesExt

CONSTANTS
  Calls,       \* model calls of one turn, made one after the other
  MaxLinks,    \* links of a behaviour
  MaxEvents,   \* events of an answer, the one that ends it included
  MaxQueue,    \* frames the proxy buffers for a slow reader (4096 in the code)
  MaxRestarts  \* times the broker's process is lost

ASSUME ProxyAssumption ==
  /\ Calls # {} /\ IsFiniteSet(Calls)
  /\ MaxLinks \in Nat /\ MaxEvents \in Nat \ {0} /\ MaxQueue \in Nat /\ MaxRestarts \in Nat

Links == 1..MaxLinks

VARIABLES
  \* The proxy: ProxyAi and its ProxyGate.
  call,       \* call[c]: the Call object, with the states of run() and drive()
  cancelled,  \* cancelled[c].at: 0, or 1 + the peer at the time the call was given up,
              \* and lapsed: the same of the time since which that is not remembered
  latched,    \* ProxyGate.failures: the turn's scope has failed
  peer,       \* ProxyAi.peer: the link attached last, or 0
  ready,      \* Peer.ready: it is admitted, so the gate is open
  \* The links.
  links,      \* how many there were
  ends,       \* those the proxy has not seen end
  bulk,       \* bulk[c]: the request "model.open" under way, in the model lane
  urgent,     \* the acknowledgements and cancellations under way, in their lane
  frames,     \* frames[k]: the model.frame messages under way on link k
  replies,    \* replies[k][c]: the response under way to the open of c
  \* The broker: ModelBrokerPeer and its ModelRetention.
  active,     \* the link the broker holds, or 0; the requests under way are its
  entry,      \* entry[c]: the retained call
  ran,        \* ran[c]: how often the request was given to a provider
  restarts

proxyVars == <<call, cancelled, latched, peer, ready>>
linkVars == <<links, ends, bulk, urgent, frames, replies>>
brokerVars == <<active, entry, ran, restarts>>
vars == <<proxyVars, linkVars, brokerVars>>

\* phase is where drive() waits: "gate" (for an admitted link, with a timer or
\* without one), "woken" (given one), "opening" (for the response), "open" (for
\* the link's end).  reader is
\* what run() does: "idle" (looks for the next frame), "applying" (its consumer
\* has one), "ended".
NewCall == [phase |-> "none", timer |-> FALSE, given |-> 0, peer |-> 0, admitted |-> FALSE, attempted |-> FALSE,
            aborted |-> FALSE, terminal |-> FALSE, error |-> FALSE, applied |-> 0,
            received |-> 0, queue |-> <<>>, reader |-> "idle", how |-> "no"]

NotCancelled == [at |-> 0, lapsed |-> 0]
NoOpen == [after |-> 0, resume |-> FALSE, sent |-> FALSE, cancel |-> FALSE]
NoPump == [link |-> 0, seq |-> 0]

\* n frames were emitted; term says whether the last one ended the call.  state
\* is "new", "live" (retained) or "gone" (in `seen' only).
NewEntry == [state |-> "new", n |-> 0, term |-> "no", ack |-> 0, sent |-> 0, to |-> 0,
             pump |-> NoPump]

Init ==
  /\ call = [c \in Calls |-> NewCall]
  /\ cancelled = [c \in Calls |-> NotCancelled]
  /\ latched = FALSE /\ peer = 0 /\ ready = FALSE
  /\ links = 0 /\ ends = {}
  /\ bulk = [c \in Calls |-> NoOpen] /\ urgent = <<>>
  /\ frames = [k \in Links |-> <<>>]
  /\ replies = [k \in Links |-> [c \in Calls |-> "none"]]
  /\ active = 0 /\ restarts = 0
  /\ entry = [c \in Calls |-> NewEntry]
  /\ ran = [c \in Calls |-> 0]

-----------------------------------------------------------------------------
(* The proxy.                                                              *)

Ack(c, n) == [kind |-> "ack", call |-> c, seq |-> n]
Cancel(c) == [kind |-> "cancel", call |-> c, seq |-> 0]

\* What is sent on link k arrives unless either end is gone.
Works(k) == k \in ends /\ active = k

Sending(u, k, m) == IF Works(k) THEN Append(u, m) ELSE u

\* ack(): nothing is acknowledged before the open was accepted.
Acked(c, r) == IF r.admitted THEN Sending(urgent, r.peer, Ack(c, r.applied)) ELSE urgent

\* ProxyGate.peer.
Gate == IF ready THEN peer ELSE 0

\* drive(): the loop's condition and gate.wait, whose gate is open for link g.  t
\* says whether timeoutMs is not 0 just now: setReconnectTimeout may change it.
Gated(r, g, t) ==
  CASE r.terminal -> [r EXCEPT !.phase = "over"]
    [] ~r.terminal /\ g # 0 -> [r EXCEPT !.phase = "woken", !.timer = FALSE, !.given = g]
    [] ~r.terminal /\ g = 0 -> [r EXCEPT !.phase = "gate", !.timer = t]

\* drive()'s catch: what was buffered is still read.
Failed(r) == [r EXCEPT !.phase = "over", !.error = TRUE, !.terminal = TRUE]

\* run() begins.  A turn whose scope has failed gets its failure again.
Begin(c) ==
  /\ call[c].phase = "none"
  /\ \A d \in Calls \ {c} : call[d].phase = "none" \/ call[d].reader = "ended"
  /\ \E t \in BOOLEAN :
       call' = [call EXCEPT ![c] = IF latched THEN Failed(NewCall) ELSE Gated(NewCall, Gate, t)]
  /\ UNCHANGED <<cancelled, latched, peer, ready, linkVars, brokerVars>>

\* The time to reconnect, if there is one, is over; the whole turn has failed then.
GateExpires(c) ==
  /\ call[c].phase = "gate" /\ call[c].timer
  /\ call' = [call EXCEPT ![c] = Failed(@)]
  /\ latched' = TRUE
  /\ UNCHANGED <<cancelled, peer, ready, linkVars, brokerVars>>

\* drive() asks the link it was given, which may be gone by now, to run the
\* call, or to resume what was ever asked for.
\* MUTANT of Resumes: a call opened again is asked for like a new one.
Resumes_Never(r) == FALSE

Resumes(r) == r.attempted

Open(c) ==
  LET r == call[c]
      asked == [r EXCEPT !.peer = r.given, !.given = 0, !.admitted = FALSE, !.attempted = TRUE]
  IN  /\ r.phase = "woken"
      /\ \/ /\ r.given \in ends
            /\ call' = [call EXCEPT ![c] = [asked EXCEPT !.phase = "opening"]]
            /\ bulk' = IF active # r.given THEN bulk
                       ELSE [bulk EXCEPT ![c] = [after |-> r.applied, resume |-> Resumes(r),
                                                 sent |-> TRUE, cancel |-> FALSE]]
            /\ UNCHANGED latched
         \/ /\ r.given \notin ends
            /\ \E t \in BOOLEAN : call' = [call EXCEPT ![c] = Gated(asked, Gate, t)]
            /\ UNCHANGED <<bulk, latched>>
         \* The binding of a call never attempted was declined meanwhile.
         \/ /\ ~r.attempted
            /\ call' = [call EXCEPT ![c] = [Failed(r) EXCEPT !.given = 0]]
            /\ latched' = TRUE
            /\ UNCHANGED bulk
  /\ UNCHANGED <<cancelled, peer, ready, links, ends, urgent, frames, replies, brokerVars>>

\* The response to the open; one that races a cancellation is ignored.
Answered(k, c) ==
  LET r == call[c]
      waits == r.phase = "opening" /\ r.peer = k
      accepted == [r EXCEPT !.phase = "open", !.admitted = TRUE]
  IN  /\ k \in ends /\ replies[k][c] # "none"
      /\ replies' = [replies EXCEPT ![k][c] = "none"]
      /\ \/ /\ waits /\ replies[k][c] = "accepted"
            /\ call' = [call EXCEPT ![c] = accepted]
            /\ urgent' = Acked(c, accepted)
            /\ UNCHANGED latched
         \/ /\ waits /\ replies[k][c] = "rejected"
            /\ call' = [call EXCEPT ![c] = Failed(r)]
            /\ latched' = TRUE
            /\ UNCHANGED urgent
         \/ /\ ~waits
            /\ UNCHANGED <<call, latched, urgent>>
      /\ UNCHANGED <<cancelled, peer, ready, links, ends, bulk, frames, brokerVars>>

\* cancel(): the link that served the call last is told, and later ones will be.
GivenUp == [at |-> 1 + peer, lapsed |-> 0]

CancelCall(c, r, u) ==
  /\ cancelled' = IF r.attempted THEN [cancelled EXCEPT ![c] = GivenUp] ELSE cancelled
  /\ urgent' = IF r.attempted THEN Sending(u, r.peer, Cancel(c)) ELSE u

\* RemoteConnection.request is aborted.  Its own cancellation follows the open,
\* which that of the call may overtake.
AbortRequest(c, r) ==
  bulk' = IF r.phase = "opening" /\ bulk[c].sent THEN [bulk EXCEPT ![c].cancel = TRUE] ELSE bulk

\* The turn is aborted, or the stream's reader returns.
Abort(c) ==
  LET r == call[c] IN
  /\ r.phase # "none" /\ r.reader # "ended" /\ ~r.aborted
  /\ call' = [call EXCEPT ![c] = [r EXCEPT !.phase = "over", !.aborted = TRUE, !.error = TRUE,
                                           !.terminal = TRUE, !.given = 0]]
  /\ CancelCall(c, r, urgent)
  /\ AbortRequest(c, r)
  /\ UNCHANGED <<latched, peer, ready, links, ends, frames, replies, brokerVars>>

\* The finally of run(), with u in the urgent lane; the call object is dropped.
Leave(c, r, how, u) ==
  /\ call' = [call EXCEPT ![c] = [NewCall EXCEPT !.phase = "over", !.terminal = TRUE, !.reader = "ended",
                                                 !.peer = r.peer, !.applied = r.applied, !.how = how]]
  /\ AbortRequest(c, r)
  /\ IF ~r.terminal \/ r.error THEN CancelCall(c, r, u)
     ELSE urgent' = u /\ UNCHANGED cancelled

\* retain(): remembered for timeoutMs, or ten minutes if that is 0, and until there
\* are 128 later ones.
Remembered(c) == cancelled[c].at # 0 /\ cancelled[c].lapsed = 0

CancellationLapses(c) ==
  /\ Remembered(c)
  /\ cancelled' = [cancelled EXCEPT ![c].lapsed = 1 + peer]
  /\ UNCHANGED <<call, latched, peer, ready, linkVars, brokerVars>>

\* A frame arrives.  The proxy takes it only from the link that serves the call,
\* and what it has received before not again.
Fresh(r, f) == f.seq > r.received

Receive(k) ==
  LET f == Head(frames[k])
      c == f.call
      r == call[c]
      wanted == r.peer = k /\ r.reader # "ended" /\ ~r.terminal /\ Fresh(r, f)
  IN  /\ k \in ends /\ frames[k] # <<>>
      /\ frames' = [frames EXCEPT ![k] = Tail(@)]
      /\ \/ /\ wanted /\ Len(r.queue) < MaxQueue
            /\ call' = [call EXCEPT ![c].queue = Append(@, f), ![c].received = f.seq]
            /\ UNCHANGED <<cancelled, latched, urgent>>
         \/ /\ wanted /\ Len(r.queue) >= MaxQueue
            /\ call' = [call EXCEPT ![c].error = TRUE, ![c].terminal = TRUE]
            /\ latched' = TRUE
            /\ CancelCall(c, r, urgent)
         \/ /\ ~wanted
            /\ UNCHANGED <<call, cancelled, latched, urgent>>
      /\ UNCHANGED <<peer, ready, links, ends, bulk, replies, brokerVars>>

\* run() looks for the next frame.
Take(c) ==
  LET r == call[c]
      f == Head(r.queue)
  IN  /\ r.phase # "none" /\ r.reader = "idle"
      /\ \/ /\ r.aborted
            /\ Leave(c, r, "failed", urgent)
            /\ UNCHANGED latched
         \/ /\ ~r.aborted /\ r.queue # <<>> /\ f.kind # "failure"
            /\ call' = [call EXCEPT ![c].reader = "applying"]
            /\ UNCHANGED <<cancelled, latched, bulk, urgent>>
         \/ /\ ~r.aborted /\ r.queue # <<>> /\ f.kind = "failure"
            /\ Leave(c, r, "failed", urgent)
            /\ latched' = TRUE
         \/ /\ ~r.aborted /\ r.queue = <<>> /\ r.error
            /\ Leave(c, r, "failed", urgent)
            /\ UNCHANGED latched
      /\ UNCHANGED <<peer, ready, links, ends, frames, replies, brokerVars>>

\* The consumer has applied a frame and asks for the next one.
Wins(r) == r.aborted

Apply(c) ==
  LET r == call[c]
      f == Head(r.queue)
      read == [r EXCEPT !.queue = Tail(@), !.applied = f.seq, !.reader = "idle"]
  IN  /\ r.reader = "applying"
      /\ \/ /\ ~Wins(r) /\ f.kind = "delta"
            /\ call' = [call EXCEPT ![c] = read]
            /\ urgent' = Acked(c, read)
            /\ UNCHANGED <<cancelled, bulk>>
         \/ /\ Wins(r)
            /\ Leave(c, read, "failed", Acked(c, read))
         \/ /\ ~Wins(r) /\ f.kind = "end"
            /\ Leave(c, [read EXCEPT !.terminal = TRUE], "normal", Acked(c, read))
      /\ UNCHANGED <<latched, peer, ready, links, ends, frames, replies, brokerVars>>

-----------------------------------------------------------------------------
(* The links.                                                              *)

\* ModelRetention.detach: the calls have no link to send on.
Detached(e) == [c \in Calls |-> [e[c] EXCEPT !.to = 0]]

\* sendCancellation of all that was given up, when a link is attached.
\* MUTANT of Resent: cancellations are sent once.
Resent_Never == <<>>

Resent == LET given == SetToSeq({c \in Calls : Remembered(c)})
          IN  [i \in DOMAIN given |-> Cancel(given[i])]

\* ModelBrokerPeer.connect, which closes the link before, and ProxyAi.attach.
\* The gate stays closed: the models have to be approved first.
Connect ==
  /\ links < MaxLinks
  /\ links' = links + 1 /\ active' = links + 1 /\ peer' = links + 1
  /\ ends' = ends \cup {links + 1}
  /\ ready' = FALSE
  /\ entry' = Detached(entry)
  /\ bulk' = [c \in Calls |-> NoOpen]
  /\ urgent' = Resent
  /\ UNCHANGED <<call, cancelled, latched, frames, replies, ran, restarts>>

\* ProxyAi.admit: the calls at the gate get the link.
Admit ==
  /\ peer # 0 /\ ~ready
  /\ ready' = TRUE
  /\ call' = [c \in Calls |-> IF call[c].phase = "gate" THEN Gated(call[c], peer, FALSE)
                          ELSE call[c]]
  /\ UNCHANGED <<cancelled, latched, peer, linkVars, brokerVars>>

\* The proxy's end is closed; the calls it served go back to the gate.
ProxyCloses(k) ==
  LET left == IF peer = k THEN 0 ELSE Gate IN
  /\ k \in ends
  /\ ends' = ends \ {k}
  /\ frames' = [frames EXCEPT ![k] = <<>>]
  /\ replies' = [replies EXCEPT ![k] = [c \in Calls |-> "none"]]
  /\ peer' = IF peer = k THEN 0 ELSE peer
  /\ ready' = (ready /\ peer # k)
  /\ \E t \in BOOLEAN :
       call' = [c \in Calls |-> IF call[c].phase \in {"opening", "open"} /\ call[c].peer = k
                                THEN Gated(call[c], left, t) ELSE call[c]]
  /\ UNCHANGED <<cancelled, latched, links, bulk, urgent, brokerVars>>

\* The broker's end is closed.
BrokerCloses ==
  /\ active # 0
  /\ active' = 0
  /\ entry' = Detached(entry)
  /\ bulk' = [c \in Calls |-> NoOpen] /\ urgent' = <<>>
  /\ UNCHANGED <<proxyVars, links, ends, frames, replies, ran, restarts>>

-----------------------------------------------------------------------------
(* The broker.                                                             *)

\* ModelRetention.open: a retained call goes on from the cursor it is given; what
\* was run before, or may have been, is never run again.
Retained(c, m) == entry[c].state = "live" /\ m.after \in entry[c].ack .. entry[c].n
Runs(c, m) == entry[c].state = "new" /\ ~m.resume

\* MUTANT of Resume: frames that were sent are not sent again.
Resume_KeepsSent(e, m) == [e EXCEPT !.ack = m.after, !.to = active]

Resume(e, m) == [e EXCEPT !.ack = m.after, !.sent = m.after, !.to = active]

HandleOpen(c) ==
  LET m == bulk[c]
      reply(how) == replies' = IF active \in ends THEN [replies EXCEPT ![active][c] = how]
                               ELSE replies
  IN  /\ m.sent
      /\ \/ /\ Retained(c, m)
            /\ entry' = [entry EXCEPT ![c] = Resume(@, m)]
            /\ reply("accepted")
            /\ UNCHANGED ran
         \/ /\ Runs(c, m)
            /\ entry' = [entry EXCEPT ![c] = [NewEntry EXCEPT !.state = "live", !.to = active]]
            /\ ran' = [ran EXCEPT ![c] = @ + 1]
            /\ reply("accepted")
         \* Too many calls are retained.
         \/ /\ Runs(c, m)
            /\ entry' = [entry EXCEPT ![c].state = "gone"]
            /\ reply("rejected")
            /\ UNCHANGED ran
         \/ /\ ~Retained(c, m) /\ ~Runs(c, m)
            /\ reply("rejected")
            /\ UNCHANGED <<entry, ran>>
      /\ bulk' = [bulk EXCEPT ![c] = NoOpen]
      /\ urgent' = IF m.cancel THEN Append(urgent, Cancel(c)) ELSE urgent
      /\ UNCHANGED <<proxyVars, links, ends, frames, active, restarts>>

Dropped(e) == [NewEntry EXCEPT !.state = "gone", !.n = e.n, !.term = e.term, !.pump = e.pump]

\* ModelRetention.ack and cancel.  An acknowledged answer is forgotten, and so is
\* a cancelled call, whose provider request is aborted.
HandleUrgent ==
  LET m == Head(urgent)
      e == entry[m.call]
  IN  /\ urgent # <<>>
      /\ urgent' = Tail(urgent)
      /\ \/ /\ e.state = "live" /\ m.kind = "ack" /\ m.seq \in e.ack .. e.n
            /\ entry' = [entry EXCEPT ![m.call] =
                 IF e.term # "no" /\ m.seq = e.n THEN Dropped(e) ELSE [e EXCEPT !.ack = m.seq]]
         \/ /\ e.state = "live" /\ m.kind = "cancel"
            /\ entry' = [entry EXCEPT ![m.call] = Dropped(e)]
         \/ /\ e.state # "live"
            /\ UNCHANGED entry
      /\ UNCHANGED <<proxyVars, links, ends, bulk, frames, replies, active, ran, restarts>>

\* A provider's answer goes on.  It ends with an event, or with a failure: of the
\* request, of the room for frames, or of the time they are retained.
Emit(c) ==
  LET e == entry[c] IN
  /\ e.state = "live" /\ e.term = "no"
  /\ \E t \in {"no", "end", "failure"} :
       /\ t = "no" => e.n + 1 < MaxEvents
       /\ entry' = [entry EXCEPT ![c].n = @ + 1, ![c].term = t]
  /\ UNCHANGED <<proxyVars, linkVars, active, ran, restarts>>

\* An answer that ended is retained for one more window.
Forget(c) ==
  /\ entry[c].state = "live" /\ entry[c].term # "no"
  /\ entry' = [entry EXCEPT ![c].state = "gone"]
  /\ UNCHANGED <<proxyVars, linkVars, active, ran, restarts>>

\* pump: one frame at a time is given to the link's writer ...
Pump(c) ==
  LET e == entry[c]
      next == (IF e.sent > e.ack THEN e.sent ELSE e.ack) + 1
      frame == [call |-> c, seq |-> next,
                kind |-> IF next < e.n \/ e.term = "no" THEN "delta" ELSE e.term]
  IN  /\ e.to # 0 /\ e.pump = NoPump /\ next <= e.n
      /\ entry' = [entry EXCEPT ![c].pump = [link |-> e.to, seq |-> next]]
      /\ frames' = IF e.to \in ends THEN [frames EXCEPT ![e.to] = Append(@, frame)] ELSE frames
      /\ UNCHANGED <<proxyVars, links, ends, bulk, urgent, replies, active, ran, restarts>>

\* ... which settles when it has written it, or is closed.  The call may have
\* moved to another link, or back in the frames, by then.
\* MUTANT of Written: a settled write counts for the new link as well.
Written_Always(e) == e.pump.seq

Written(e) == IF e.to = e.pump.link THEN e.pump.seq ELSE e.sent

Pumped(c) ==
  /\ entry[c].pump # NoPump
  /\ entry' = [entry EXCEPT ![c].sent = Written(entry[c]), ![c].pump = NoPump]
  /\ UNCHANGED <<proxyVars, linkVars, active, ran, restarts>>

\* The broker's process is lost and replaced; nothing of its calls is left (n and
\* term stay as a record of what there was).
Restart ==
  /\ restarts < MaxRestarts
  /\ restarts' = restarts + 1
  /\ active' = 0
  /\ entry' = [c \in Calls |-> [NewEntry EXCEPT !.n = entry[c].n, !.term = entry[c].term]]
  /\ bulk' = [c \in Calls |-> NoOpen] /\ urgent' = <<>>
  /\ UNCHANGED <<proxyVars, links, ends, frames, replies, ran>>

-----------------------------------------------------------------------------
Next ==
  \/ \E c \in Calls :
       \/ Begin(c) \/ GateExpires(c) \/ Open(c) \/ Abort(c) \/ Take(c) \/ Apply(c)
       \/ CancellationLapses(c) \/ HandleOpen(c) \/ Emit(c) \/ Forget(c) \/ Pump(c) \/ Pumped(c)
       \/ \E k \in Links : Answered(k, c)
  \/ \E k \in Links : Receive(k) \/ ProxyCloses(k)
  \/ Connect \/ Admit \/ BrokerCloses \/ HandleUrgent \/ Restart

Spec == Init /\ [][Next]_vars

\* Timers that were started fire, what is sent over a link that works arrives, an end notices that
\* the other is gone, and a caller reads on.  Links need not come back.
Fairness ==
  /\ \A c \in Calls :
       /\ WF_vars(Open(c) \/ Take(c) \/ Apply(c)) /\ WF_vars(GateExpires(c))
       /\ WF_vars(HandleOpen(c))
       /\ WF_vars(Emit(c)) /\ WF_vars(Pump(c) \/ Pumped(c))
       /\ \A k \in Links : WF_vars(Answered(k, c))
  /\ \A k \in Links :
       /\ WF_vars(Receive(k))
       /\ WF_vars(ProxyCloses(k) /\ active # k)
  /\ WF_vars(HandleUrgent)
  /\ WF_vars(BrokerCloses /\ active \notin ends)

FairSpec == Spec /\ Fairness

-----------------------------------------------------------------------------
(* Properties.                                                             *)

TypeOK ==
  /\ \A c \in Calls :
       /\ call[c].timer \in BOOLEAN /\ call[c].phase \in {"none", "gate", "woken", "opening", "open", "over"}
       /\ {call[c].given, call[c].peer} \subseteq 0..links
       /\ call[c].reader \in {"idle", "applying", "ended"}
       /\ call[c].how \in {"no", "normal", "failed"}
       /\ {cancelled[c].at, cancelled[c].lapsed} \subseteq 0 .. links + 1
       /\ entry[c].state \in {"new", "live", "gone"} /\ entry[c].term \in {"no", "end", "failure"}
       /\ entry[c].n \in 0 .. MaxEvents /\ {entry[c].to, entry[c].pump.link} \subseteq 0..links
       /\ ran[c] \in Nat
  /\ ends \subseteq 1..links /\ {peer, active} \subseteq 0..links
  /\ {latched, ready} \subseteq BOOLEAN

\* However links break, the two sides keep agreeing on how far a call is: the proxy
\* buffers exactly the frames between the one it applied and the last it received,
\* no frame it would take skips one ("Model stream cursor gap"), and no
\* acknowledgement or cursor it sends is one the broker refuses, which would close
\* the link or end the call ("proxy_cursor_expired").
CursorsAgree ==
  /\ TypeOK
  /\ \A c \in Calls : call[c].reader # "ended" =>
       LET r == call[c] IN
       /\ \A i \in DOMAIN r.queue : r.queue[i].seq = r.applied + i
       /\ r.received = r.applied + Len(r.queue)
       /\ r.received <= entry[c].n
  /\ \A k \in ends : frames[k] # <<>> =>
       LET f == Head(frames[k]) IN
       call[f.call].peer = k /\ ~call[f.call].terminal => f.seq <= call[f.call].received + 1
  /\ \A c \in Calls : entry[c].state = "live" =>
       /\ bulk[c].sent => Retained(c, bulk[c])
       /\ urgent # <<>> /\ Head(urgent).kind = "ack" /\ Head(urgent).call = c =>
            Head(urgent).seq \in entry[c].ack .. entry[c].n

\* The request of a call whose reader is gone is stopped: when the link is up and
\* nothing is under way on it, the broker does not let it run on (paying for it)
\* until its retention ends.  Not so for a call given up while the link that was
\* attached had not been opened for it yet (see README), which is stopped with the
\* next link only; nor for one whose cancellation was no longer remembered when the
\* link was attached.
Quiet(c) ==
  /\ peer # 0 /\ active = peer /\ peer \in ends
  /\ ~bulk[c].sent /\ \A i \in DOMAIN urgent : urgent[i].call # c

RunsOn(c) == entry[c].state = "live" /\ entry[c].term = "no"

GivenUpBeforeOpen(c) == cancelled[c].at = 1 + peer /\ call[c].peer # peer

LapsedBefore(c) == cancelled[c].lapsed \notin {0, 1 + peer}

OrphansAreStopped ==
  \A c \in Calls : call[c].reader = "ended" /\ Quiet(c) /\ RunsOn(c) =>
    GivenUpBeforeOpen(c) \/ LapsedBefore(c)

\* A cancellation is delivered on the link that is attached, or on the next one.
CancellationsAreDelivered ==
  \A c \in Calls : call[c].reader = "ended" /\ Quiet(c) => ~RunsOn(c)

\* The proxy keeps the promise of ModelStream: over any number of links, and with
\* the broker's process lost in between, a call is run at most once, its events
\* are read once each and in order, and it ends normally only with the last one
\* and if it was not aborted before.
Promised == INSTANCE ModelStream WITH
  made <- [c \in Calls |-> entry[c].n],
  term <- [c \in Calls |-> entry[c].term],
  read <- [c \in Calls |-> call[c].applied],
  how <- [c \in Calls |-> call[c].how]

ImplementsModelStream == Promised!Spec

\* Every call ends for its caller, whether or not a link ever comes back; but for one
\* that waits for ever with the reconnect timeout 0 ("waits indefinitely for proxy
\* admission", docs/remote-workspaces.md) because no link is admitted.
WaitsForever(c) == call[c].phase = "gate" /\ ~call[c].timer /\ ~ready

EveryCallEnds == \A c \in Calls :
  []<>(call[c].phase = "none" \/ call[c].reader = "ended") \/ <>[]WaitsForever(c)
=============================================================================
