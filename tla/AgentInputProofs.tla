-------------------------- MODULE AgentInputProofs --------------------------
(***************************************************************************)
(* Proofs about AgentInput for any messages, kinds of agents and limits.   *)
(* The argument: only a turn takes messages out of the queues, and it      *)
(* cancels the resend when it takes the slot; so a resend never meets a    *)
(* turn, and when the slot gets free each queue has been emptied or left   *)
(* with a reason.                                                          *)
(***************************************************************************)
EXTENDS AgentInput, TLAPS

\* Each kind of message knows some of the places only.
Placed(w) == \A m \in Messages :
  /\ m \in Inputs => w[m] \in {"new", "steering", "held", "history", "answered",
                               "dropped", "refused", "cleared"}
  /\ m \in Notices => w[m] \in {"expected", "inbox", "history", "answered", "moved", "cleared"}
  /\ m = Nudge => w[m] \in {"new", "inbox", "history", "answered", "cleared"}

\* The queues of messages at w belong to what holds the slot.
Queued(w, by) ==
  \A m \in Messages : (w[m] = "steering" => by = "turn") /\ (w[m] = "held" => by = "hold")

\* What callers were told is true of where their messages are.
Told(p, w, by) == \A m \in Inputs :
  /\ p[m] = "resolved" => w[m] \in {"history", "answered"}
  /\ p[m] = "rejected" => w[m] \in {"dropped", "refused"}
  /\ p[m] = "waiting" => \/ by = "turn" /\ w[m] \in {"history", "answered"}
                         \/ by = "hold" /\ w[m] = "held"
  /\ w[m] = "steering" => p[m] = "none"

\* Nothing starts in a session that was disposed of, and only then notices go.
Disposal(w) ==
  /\ \A n \in Notices : w[n] \in {"cleared", "moved"} => disposed
  /\ disposed => /\ ~timer /\ (slot.by = "free" \/ slot.aborted)
                 /\ \A n \in Notices : w[n] # "expected"

\* The slot, the turn and the timer agree, and only some agents have them.
SlotAgrees ==
  /\ slot.by = "turn" <=> turn.phase # "none"
  /\ slot.by = "hold" => kind = "root"
  /\ slot.by = "tool" => kind = "owned"
  /\ timer => slot.by \in {"free", "hold"} /\ kind = "root" /\ retries < Delays

\* Waiting notices that were to wake the session have a reason to wait also while it
\* is held: the end of the hold will look at them.
HasReason ==
  (slot.by \in {"free", "hold"} /\ ~disposed /\ kind = "root" /\ Inbox \ (Quiet \cup {Nudge}) # {})
    => timer \/ suspended \/ rest # "none" \/ (slot.by = "hold" /\ noticed)

IInv ==
  /\ TypeOK /\ Placed(where) /\ Queued(where, slot.by) /\ Told(promise, where, slot.by)
  /\ Disposal(where) /\ SlotAgrees /\ HasReason

-----------------------------------------------------------------------------
Slots == [by : {"free", "turn", "hold", "tool"}, aborted : BOOLEAN, lost : BOOLEAN]
TurnStates == [phase : {"none", "prepare", "context", "call", "tools"},
               steps : 0..MaxSteps, rebuilds : 0..MaxRebuilds, unanswered : BOOLEAN]
Promises == {"none", "waiting", "resolved", "rejected"}

LEMMA MessageFacts ==
  /\ Inputs \subseteq Messages /\ Notices \subseteq Messages /\ Nudge \in Messages
  /\ Inputs \cap Notices = {} /\ Nudge \notin Inputs /\ Nudge \notin Notices
  /\ \A m \in Messages : m \in Inputs \/ m \in Notices \/ m = Nudge
  /\ Quiet \subseteq Notices
  /\ Delays \in Nat /\ MaxSteps \in Nat /\ MaxSteps # 0 /\ MaxRebuilds \in Nat
  BY InputAssumption DEF Messages

LEMMA MoveFacts ==
  ASSUME NEW w \in [Messages -> Place], NEW S, NEW p \in Place
  PROVE  /\ Move(w, S, p) \in [Messages -> Place]
         /\ \A m \in Messages : Move(w, S, p)[m] = IF m \in S THEN p ELSE w[m]
  BY DEF Move

\* Notices wait in the inbox, what the user wrote elsewhere.
LEMMA QueueFacts ==
  ASSUME TypeOK, Placed(where)
  PROVE  /\ Inbox \subseteq Messages \ Inputs /\ Held \subseteq Inputs /\ Steering \subseteq Inputs
         /\ \A m \in Messages : /\ m \in Inbox <=> where[m] = "inbox"
                                /\ m \in Held <=> where[m] = "held"
                                /\ m \in Steering <=> where[m] = "steering"
  BY MessageFacts DEF Placed, Inbox, Held, Steering, At

\* A turn that takes S along begins in a good state if it takes all that waited for
\* something else.
LEMMA TurnBegins ==
  ASSUME NEW w \in [Messages -> Place], NEW S \in SUBSET Messages, RunTurn(S, w),
         TypeOK, UNCHANGED <<kind, disposed>>, ~disposed, Placed(w),
         \A m \in Messages : w[m] \in {"steering", "held"} => m \in S,
         \A n \in Notices : w[n] \notin {"cleared", "moved"},
         retries' \in 0..Delays, noticed' \in BOOLEAN, promise' \in [Inputs -> Promises],
         \A m \in Inputs :
           /\ promise'[m] = "resolved" => m \in S \/ w[m] \in {"history", "answered"}
           /\ promise'[m] = "rejected" => m \notin S /\ w[m] \in {"dropped", "refused"}
           /\ promise'[m] = "waiting" => m \in S \/ w[m] \in {"history", "answered"}
  PROVE  IInv'
<1> USE MessageFacts
<1>1. /\ where' \in [Messages -> Place]
      /\ \A m \in Messages : where'[m] = IF m \in S THEN "history" ELSE w[m]
  BY MoveFacts DEF RunTurn, Place
<1>2. /\ slot' \in Slots /\ slot'.by = "turn" /\ turn' \in TurnStates /\ turn'.phase = "prepare"
      /\ timer' = FALSE /\ suspended' = FALSE /\ rest' = "none" /\ carried' \subseteq Messages \ Inputs
  <2>1. slot' \in Slots /\ slot'.by = "turn"
    BY DEF RunTurn, FreeSlot, Slots
  <2>2. HasOrigin(S) \in BOOLEAN
    BY DEF HasOrigin
  <2>3. turn' = [phase |-> "prepare", steps |-> 0, rebuilds |-> 0, unanswered |-> HasOrigin(S)]
    BY DEF RunTurn, NoTurn
  <2>4. turn' \in TurnStates /\ turn'.phase = "prepare"
    BY <2>2, <2>3 DEF TurnStates
  <2>5. QED  BY <2>1, <2>4 DEF RunTurn
<1>3. TypeOK'
  BY <1>1, <1>2 DEF TypeOK, Slots, TurnStates, Promises
<1>4. Placed(where)' /\ Queued(where, slot.by)'
  BY <1>1, <1>2 DEF Placed, Queued
<1>5. Told(promise, where, slot.by)'
  BY <1>1, <1>2, <1>3 DEF Told, TypeOK
<1>6. Disposal(where)' /\ SlotAgrees' /\ HasReason'
  BY <1>1, <1>2 DEF Disposal, SlotAgrees, HasReason
<1>7. QED  BY <1>3, <1>4, <1>5, <1>6 DEF IInv

\* What a message's caller finds out: a prompt or a steer.
LEMMA PromptStep == ASSUME IInv, NEW m \in Inputs, Prompt(m) PROVE IInv'
<1> USE MessageFacts
<1>1. /\ TypeOK /\ where \in [Messages -> Place] /\ promise \in [Inputs -> Promises]
      /\ where[m] = "new" /\ UNCHANGED <<kind, retries, noticed, disposed>>
      /\ promise[m] = "none" \/ promise[m] \in Promises
  BY DEF IInv, TypeOK, Prompt, Promises
<1>2. CASE /\ ~disposed /\ slot.by = "hold" /\ ~HeldPrompt
           /\ where' = [where EXCEPT ![m] = "held"]
           /\ promise' = [promise EXCEPT ![m] = "waiting"]
           /\ UNCHANGED <<slot, turn, timer, suspended, rest, carried>>
  <2>1. TypeOK'
    BY <1>1, <1>2 DEF TypeOK, Place
  <2>2. Placed(where)' /\ Queued(where, slot.by)'
    BY <1>1, <1>2 DEF IInv, Placed, Queued
  <2>3. Told(promise, where, slot.by)'
    BY <1>1, <1>2 DEF IInv, Told
  <2>4. Inbox' = Inbox
    BY <1>1, <1>2 DEF Inbox, At
  <2>5. Disposal(where)' /\ SlotAgrees' /\ HasReason'
    BY <1>1, <1>2, <2>4 DEF IInv, Disposal, SlotAgrees, HasReason
  <2>6. QED  BY <2>1, <2>2, <2>3, <2>5 DEF IInv
<1>3. CASE ~disposed /\ ~Busy /\ RunTurn({m}, where) /\ promise' = [promise EXCEPT ![m] = "waiting"]
  <2>1. \A k \in Messages : where[k] \notin {"steering", "held"}
    BY <1>3 DEF IInv, Queued, Busy
  <2>2. \A k \in Inputs : promise[k] # "waiting"
    BY <1>3 DEF IInv, Told, Busy
  <2>3. /\ promise' \in [Inputs -> Promises]
        /\ \A k \in Inputs : promise'[k] = IF k = m THEN "waiting" ELSE promise[k]
    BY <1>1, <1>3 DEF Promises
  <2>4. QED  BY <1>1, <1>3, <2>1, <2>2, <2>3, TurnBegins DEF IInv, Told, Disposal, TypeOK
<1>4. CASE /\ where' = [where EXCEPT ![m] = "refused"]
           /\ promise' = [promise EXCEPT ![m] = "rejected"]
           /\ UNCHANGED <<slot, turn, timer, suspended, rest, carried>>
  <2>1. TypeOK'
    BY <1>1, <1>4 DEF TypeOK, Place
  <2>2. Placed(where)' /\ Queued(where, slot.by)'
    BY <1>1, <1>4 DEF IInv, Placed, Queued
  <2>3. Told(promise, where, slot.by)'
    BY <1>1, <1>4 DEF IInv, Told
  <2>4. Inbox' = Inbox
    BY <1>1, <1>4 DEF Inbox, At
  <2>5. Disposal(where)' /\ SlotAgrees' /\ HasReason'
    BY <1>1, <1>4, <2>4 DEF IInv, Disposal, SlotAgrees, HasReason
  <2>6. QED  BY <2>1, <2>2, <2>3, <2>5 DEF IInv
<1>5. QED  BY <1>2, <1>3, <1>4 DEF Prompt

\* Where one message of the user goes makes no difference to the rest.
LEMMA InputMoves ==
  ASSUME IInv, NEW m \in Inputs, where[m] = "new",
         NEW p \in {"held", "steering", "refused"},
         where' = [where EXCEPT ![m] = p],
         p = "held" => slot.by = "hold", p = "steering" => slot.by = "turn",
         UNCHANGED <<kind, slot, turn, promise, inboxVars, disposed, rest, carried>>
  PROVE  IInv'
<1> USE MessageFacts DEF inboxVars
<1>1. TypeOK /\ where \in [Messages -> Place] /\ promise[m] = "none"
  BY DEF IInv, TypeOK, Told
<1>2. TypeOK'
  BY <1>1 DEF TypeOK, Place
<1>3. Placed(where)' /\ Queued(where, slot.by)' /\ Told(promise, where, slot.by)'
  BY <1>1 DEF IInv, Placed, Queued, Told
<1>4. Inbox' = Inbox
  BY <1>1 DEF Inbox, At
<1>5. Disposal(where)' /\ SlotAgrees' /\ HasReason'
  BY <1>1, <1>4 DEF IInv, Disposal, SlotAgrees, HasReason
<1>6. QED  BY <1>2, <1>3, <1>5 DEF IInv

LEMMA SteerStep == ASSUME IInv, NEW m \in Inputs, Steer(m) PROVE IInv'
<1> USE MessageFacts
<1>1. /\ TypeOK /\ where \in [Messages -> Place] /\ promise \in [Inputs -> Promises]
      /\ where[m] = "new" /\ UNCHANGED <<kind, promise, retries, noticed, disposed>>
      /\ kind # "owned"
  BY DEF IInv, TypeOK, Steer, Promises
<1>2. CASE ~disposed /\ ~Busy /\ RunTurn({m}, where)
  <2>1. \A k \in Messages : where[k] \notin {"steering", "held"}
    BY <1>2 DEF IInv, Queued, Busy
  <2>2. \A k \in Inputs : promise[k] # "waiting"
    BY <1>2 DEF IInv, Told, Busy
  <2>3. QED  BY <1>1, <1>2, <2>1, <2>2, TurnBegins DEF IInv, Told, Disposal, TypeOK
<1>3. CASE disposed /\ where' = [where EXCEPT ![m] = "refused"]
           /\ UNCHANGED <<slot, turn, timer, suspended, rest, carried>>
  BY <1>1, <1>3, InputMoves DEF inboxVars
<1>4. CASE /\ ~disposed /\ Busy
           /\ where' = [where EXCEPT ![m] = IF slot.by = "hold" THEN "held" ELSE "steering"]
           /\ UNCHANGED <<slot, turn, timer, suspended, rest, carried>>
  <2>1. slot.by \in {"hold", "turn"}
    BY <1>1, <1>4 DEF IInv, TypeOK, SlotAgrees, Busy
  <2>2. QED  BY <1>1, <1>4, <2>1, InputMoves DEF inboxVars
<1>5. QED  BY <1>2, <1>3, <1>4 DEF Steer

\* A notice wakes an idle root agent, or waits for what holds the slot.
LEMMA DeliverStep == ASSUME IInv, NEW n \in Notices, Deliver(n) PROVE IInv'
<1> USE MessageFacts
<1> DEFINE w == [where EXCEPT ![n] = "inbox"]
<1>1. /\ TypeOK /\ where \in [Messages -> Place] /\ where[n] = "expected"
      /\ UNCHANGED <<kind, promise, retries, disposed>> /\ ~disposed
  BY DEF IInv, TypeOK, Deliver, Disposal
<1>2. /\ w \in [Messages -> Place] /\ w[n] = "inbox"
      /\ \A m \in Messages \ {n} : w[m] = where[m]
  BY <1>1 DEF Place
<1>3. CASE ~Busy /\ RunTurn(Inbox \cup {n}, w) /\ UNCHANGED noticed
  <2> HIDE DEF w
  <2>1. /\ Inbox \cup {n} \in SUBSET Messages
        /\ \A m \in Inputs : m \notin Inbox \cup {n}
    BY <1>1, QueueFacts DEF IInv
  <2>2. \A m \in Messages : w[m] \notin {"steering", "held"}
    BY <1>2, <1>3 DEF IInv, Queued, Busy
  <2>3. \A m \in Inputs : promise[m] # "waiting"
    BY <1>3 DEF IInv, Told, Busy
  <2>4. Placed(w) /\ \A k \in Notices : w[k] \notin {"cleared", "moved"}
    BY <1>1, <1>2 DEF IInv, Placed, Disposal
  <2>5. \A m \in Inputs :
          /\ promise[m] = "resolved" => w[m] \in {"history", "answered"}
          /\ promise[m] = "rejected" => w[m] \in {"dropped", "refused"}
    BY <1>2 DEF IInv, Told
  <2>6. retries' \in 0..Delays /\ noticed' \in BOOLEAN /\ promise' \in [Inputs -> Promises]
    BY <1>1, <1>3 DEF TypeOK, Promises
  <2>7. \A m \in Inputs :
          /\ promise'[m] = "resolved" => m \in Inbox \cup {n} \/ w[m] \in {"history", "answered"}
          /\ promise'[m] = "rejected" => m \notin Inbox \cup {n} /\ w[m] \in {"dropped", "refused"}
          /\ promise'[m] = "waiting" => m \in Inbox \cup {n} \/ w[m] \in {"history", "answered"}
    BY <1>1, <2>1, <2>3, <2>5
  <2>8. QED  BY <1>1, <1>2, <1>3, <2>1, <2>2, <2>4, <2>6, <2>7, TurnBegins
<1>4. CASE /\ ~(~Busy /\ n \notin Quiet /\ ~suspended /\ ~OwnsIdleNotices)
           /\ where' = w /\ noticed' = Noted(n)
           /\ rest' = (IF n \in Quiet THEN rest ELSE "none")
           /\ UNCHANGED <<slot, turn, timer, suspended, carried>>
  <2>1. noticed' \in BOOLEAN /\ rest' \in {"none", "interrupted", "exhausted"}
    BY <1>1, <1>4 DEF Noted, TypeOK
  <2>2. TypeOK'
    BY <1>1, <1>2, <1>4, <2>1 DEF TypeOK
  <2>3. Placed(where)' /\ Queued(where, slot.by)' /\ Told(promise, where, slot.by)'
    BY <1>1, <1>2, <1>4 DEF IInv, Placed, Queued, Told
  <2>4. Disposal(where)' /\ SlotAgrees'
    BY <1>1, <1>2, <1>4 DEF IInv, Disposal, SlotAgrees
  <2>5. HasReason'
    <3>1. Inbox' = Inbox \cup {n}
      BY <1>1, <1>2, <1>4 DEF Inbox, At
    <3>2. CASE n \in Quiet
      BY <1>1, <1>4, <3>1, <3>2 DEF IInv, HasReason, Noted
    <3>3. CASE n \notin Quiet
      BY <1>1, <1>4, <3>1, <3>3 DEF HasReason, Noted, Busy, OwnsIdleNotices
    <3>4. QED  BY <3>2, <3>3
  <2>6. QED  BY <2>2, <2>3, <2>4, <2>5 DEF IInv
<1>5. QED  BY <1>3, <1>4 DEF Deliver

\* A child that was woken takes its inbox along.
LEMMA WakeStep == ASSUME IInv, Wake PROVE IInv'
<1> USE MessageFacts
<1>1. /\ TypeOK /\ where \in [Messages -> Place] /\ Placed(where) /\ ~disposed /\ ~Busy
      /\ UNCHANGED <<kind, promise, retries, noticed, disposed>> /\ RunTurn(Inbox, where)
  BY DEF IInv, TypeOK, Wake
<1>2. Inbox \in SUBSET Messages /\ \A m \in Inputs : m \notin Inbox
  BY <1>1, QueueFacts
<1>3. \A m \in Messages : where[m] \notin {"steering", "held"}
  BY <1>1 DEF IInv, Queued, Busy
<1>4. \A m \in Inputs : promise[m] # "waiting"
  BY <1>1 DEF IInv, Told, Busy
<1>5. QED  BY <1>1, <1>2, <1>3, <1>4, TurnBegins DEF IInv, Told, Disposal, TypeOK, Promises

\* Only the slot changes, and it stays with whoever has it.
LEMMA SlotStep ==
  ASSUME IInv, slot' \in Slots, slot'.by = slot.by, slot.aborted => slot'.aborted,
         UNCHANGED <<kind, turn, where, promise, inboxVars, disposed, rest, carried>>
  PROVE  IInv'
<1>1. Inbox' = Inbox
  BY DEF Inbox, At
<1>2. QED
  BY <1>1 DEF IInv, TypeOK, Slots, inboxVars, Placed, Queued, Told, Disposal, SlotAgrees, HasReason

LEMMA AbortStep == ASSUME IInv, Abort \/ LatchFailure PROVE IInv'
<1>1. slot \in Slots
  BY DEF IInv, TypeOK, Slots
<1>2. CASE Abort
  BY <1>1, <1>2, SlotStep DEF Abort, Slots
<1>3. CASE LatchFailure
  BY <1>1, <1>3, SlotStep DEF LatchFailure, Slots
<1>4. QED  BY <1>2, <1>3

\* The end of the session empties its queues and tells those who wait.
LEMMA DisposeStep == ASSUME IInv, NEW switch \in BOOLEAN, Dispose(switch) PROVE IInv'
<1> USE MessageFacts
<1>1. /\ TypeOK /\ where \in [Messages -> Place] /\ promise \in [Inputs -> Promises]
      /\ disposed' = TRUE /\ timer' = FALSE /\ slot \in Slots /\ Placed(where)
      /\ UNCHANGED <<kind, turn, retries, suspended, noticed, rest, carried>>
  BY DEF IInv, TypeOK, Dispose, Promises, Slots
<1>2. slot' \in Slots /\ slot'.by = slot.by /\ (slot'.by = "free" \/ slot'.aborted)
  BY <1>1 DEF Dispose, Busy, Slots
<1>3. ASSUME NEW m \in Messages
      PROVE  /\ where'[m] \in Place
             /\ where[m] = "expected" => where'[m] \in {"moved", "cleared"}
             /\ where[m] \in {"inbox", "steering"} => where'[m] = "cleared"
             /\ where[m] = "held" => where'[m] = "dropped"
             /\ where[m] \notin {"expected", "inbox", "steering", "held"} => where'[m] = where[m]
  <2>1. where'[m] = CASE where[m] = "expected" -> IF switch THEN "moved" ELSE "cleared"
                      [] where[m] \in {"inbox", "steering"} -> "cleared"
                      [] where[m] = "held" -> "dropped"
                      [] OTHER -> where[m]
    BY DEF Dispose
  <2>2. QED  BY <1>1, <2>1 DEF Place
<1>4. where' \in [Messages -> Place]
  <2>1. where' = [m \in Messages |-> where'[m]]
    BY DEF Dispose
  <2>2. QED  BY <1>3, <2>1
<1>5. /\ promise' \in [Inputs -> Promises]
      /\ \A m \in Inputs : promise'[m] = IF where[m] = "held" /\ promise[m] = "waiting"
                                         THEN "rejected" ELSE promise[m]
  BY <1>1, QueueFacts DEF Dispose, Rejected, Promises
<1>6. TypeOK'
  BY <1>1, <1>2, <1>4, <1>5 DEF TypeOK, Slots, Promises
<1>7. Placed(where)' /\ Queued(where, slot.by)'
  <2>1. \A m \in Messages : where'[m] \notin {"expected", "inbox", "steering", "held"}
    BY <1>1, <1>3 DEF Placed
  <2>2. Placed(where)'
    BY <1>1, <1>3 DEF Placed
  <2>3. QED  BY <2>1, <2>2 DEF Queued
<1>8. Told(promise, where, slot.by)'
  <2> SUFFICES ASSUME NEW m \in Inputs
               PROVE  /\ promise'[m] = "resolved" => where'[m] \in {"history", "answered"}
                      /\ promise'[m] = "rejected" => where'[m] \in {"dropped", "refused"}
                      /\ promise'[m] = "waiting" =>
                           \/ slot'.by = "turn" /\ where'[m] \in {"history", "answered"}
                           \/ slot'.by = "hold" /\ where'[m] = "held"
                      /\ where'[m] = "steering" => promise'[m] = "none"
    BY DEF Told
  <2>1. QED  BY <1>1, <1>2, <1>3, <1>5 DEF IInv, Told, Placed
<1>9. Disposal(where)' /\ SlotAgrees' /\ HasReason'
  BY <1>1, <1>2, <1>3 DEF IInv, Disposal, SlotAgrees, HasReason
<1>10. QED  BY <1>6, <1>7, <1>8, <1>9 DEF IInv

\* A hold or a tool operation takes a free slot.
LEMMA TakeSlotStep == ASSUME IInv, Hold \/ ToolBegins \/ ToolOperationEnds PROVE IInv'
<1> USE DEF inboxVars
<1>1. /\ TypeOK /\ UNCHANGED <<kind, turn, where, promise, inboxVars, disposed, rest, carried>>
      /\ slot' \in Slots
      /\ \/ slot.by = "free" /\ slot'.by = "hold" /\ kind = "root" /\ ~disposed
         \/ slot.by = "free" /\ slot'.by = "tool" /\ kind = "owned" /\ ~disposed
         \/ slot.by = "tool" /\ slot'.by = "free"
  <2>1. FreeSlot = [by |-> "free", aborted |-> FALSE, lost |-> FALSE]
    BY DEF FreeSlot
  <2>2. CASE Hold
    BY <2>1, <2>2 DEF IInv, Hold, Busy, Slots
  <2>3. CASE ToolBegins
    BY <2>1, <2>3 DEF IInv, ToolBegins, Busy, Slots
  <2>4. CASE ToolOperationEnds
    BY <2>1, <2>4 DEF IInv, ToolOperationEnds, Busy, Slots
  <2>5. QED  BY <2>2, <2>3, <2>4
<1>2. TypeOK'
  BY <1>1 DEF TypeOK, Slots
<1>3. Placed(where)' /\ Queued(where, slot.by)' /\ Told(promise, where, slot.by)'
  BY <1>1 DEF IInv, Placed, Queued, Told
<1>4. Inbox' = Inbox
  BY <1>1 DEF Inbox, At
<1>5. Disposal(where)' /\ SlotAgrees' /\ HasReason'
  BY <1>1, <1>4 DEF IInv, Disposal, SlotAgrees, HasReason
<1>6. QED  BY <1>2, <1>3, <1>5 DEF IInv

\* The end of a hold starts a turn with what it held, or with the notices that came
\* while it ran, or drops what it held with a word.
LEMMA HoldEndsStep == ASSUME IInv, HoldEnds PROVE IInv'
<1> USE MessageFacts
<1>1. /\ TypeOK /\ where \in [Messages -> Place] /\ promise \in [Inputs -> Promises]
      /\ slot.by = "hold" /\ kind = "root" /\ noticed' = FALSE /\ slot \in Slots /\ Placed(where)
      /\ UNCHANGED <<kind, retries, disposed>>
  BY DEF IInv, TypeOK, HoldEnds, Promises, Slots, SlotAgrees
<1>2. /\ \A m \in Messages : where[m] # "steering"
      /\ \A m \in Inputs : promise[m] = "waiting" => where[m] = "held"
      /\ disposed => slot.aborted
  BY <1>1 DEF IInv, Queued, Told, Disposal
<1>3. CASE ~slot.aborted /\ RunTurn(Held, where) /\ UNCHANGED promise
  <2>1. Held \in SUBSET Messages /\ \A m \in Messages : m \in Held <=> where[m] = "held"
    BY <1>1, QueueFacts
  <2>2. /\ retries' \in 0..Delays /\ noticed' \in BOOLEAN /\ promise' \in [Inputs -> Promises]
        /\ ~disposed /\ \A n \in Notices : where[n] \notin {"cleared", "moved"}
    BY <1>1, <1>2, <1>3 DEF IInv, Disposal, TypeOK
  <2>3. QED  BY <1>1, <1>2, <1>3, <2>1, <2>2, TurnBegins DEF IInv, Told
<1>4. CASE ~slot.aborted /\ Held = {} /\ RunTurn(Inbox, where) /\ UNCHANGED promise
  <2>1. /\ Inbox \in SUBSET Messages /\ \A m \in Messages : where[m] # "held"
        /\ \A m \in Inputs : m \notin Inbox
    BY <1>1, <1>4, QueueFacts
  <2>2. /\ retries' \in 0..Delays /\ noticed' \in BOOLEAN /\ promise' \in [Inputs -> Promises]
        /\ ~disposed /\ \A n \in Notices : where[n] \notin {"cleared", "moved"}
    BY <1>1, <1>2, <1>4 DEF IInv, Disposal, TypeOK
  <2>3. QED  BY <1>1, <1>2, <1>4, <2>1, <2>2, TurnBegins DEF IInv, Told
<1>5. CASE /\ ~(~slot.aborted /\ Held # {})
           /\ ~(/\ ~slot.aborted /\ Held = {} /\ noticed
                /\ ~(slot.lost \/ suspended) /\ Inbox # {})
           /\ slot' = FreeSlot /\ suspended' = (slot.lost \/ suspended)
           /\ timer' = (timer /\ ~slot.lost)
           /\ where' = Move(where, Held, "dropped") /\ promise' = Rejected(Held)
           /\ rest' = (IF slot.aborted THEN "interrupted" ELSE rest)
           /\ UNCHANGED <<turn, carried>>
  <2>1. /\ where' \in [Messages -> Place]
        /\ \A m \in Messages : where'[m] = IF where[m] = "held" THEN "dropped" ELSE where[m]
    BY <1>1, <1>5, MoveFacts, QueueFacts DEF Place
  <2>2. /\ promise' \in [Inputs -> Promises]
        /\ \A m \in Inputs : promise'[m] = IF where[m] = "held" /\ promise[m] = "waiting"
                                           THEN "rejected" ELSE promise[m]
    BY <1>1, <1>5, QueueFacts DEF Rejected, Promises
  <2>3. slot' \in Slots /\ slot'.by = "free"
    BY <1>5 DEF FreeSlot, Slots
  <2>4. suspended' \in BOOLEAN /\ timer' \in BOOLEAN /\ rest' \in {"none", "interrupted", "exhausted"}
    BY <1>1, <1>5 DEF TypeOK, Slots
  <2>5. TypeOK'
    BY <1>1, <1>5, <2>1, <2>2, <2>3, <2>4 DEF TypeOK, Slots, Promises
  <2>6. Placed(where)' /\ Queued(where, slot.by)'
    BY <1>1, <1>2, <2>1 DEF Placed, Queued
  <2>7. Told(promise, where, slot.by)'
    BY <1>1, <1>2, <2>1, <2>2 DEF IInv, Told
  <2>8. Disposal(where)' /\ SlotAgrees'
    BY <1>1, <1>5, <2>1, <2>3 DEF IInv, Disposal, SlotAgrees
  <2>9. HasReason'
    <3>1. Inbox' = Inbox
      BY <2>1 DEF Inbox, At
    <3>2. CASE slot.aborted
      BY <1>5, <3>2 DEF HasReason
    <3>3. CASE ~slot.aborted /\ Inbox \ (Quiet \cup {Nudge}) # {} /\ ~disposed
      <4>1. timer \/ suspended \/ rest # "none" \/ noticed
        BY <1>1, <3>3 DEF IInv, HasReason
      <4>2. timer' \/ suspended' \/ rest' # "none"
        BY <1>5, <3>3, <4>1
      <4>3. QED  BY <4>2 DEF HasReason
    <3>4. QED  BY <1>1, <3>1, <3>2, <3>3 DEF HasReason
  <2>10. QED  BY <2>5, <2>6, <2>7, <2>8, <2>9 DEF IInv
<1>6. QED  BY <1>3, <1>4, <1>5 DEF HoldEnds

\* A resend finds the slot free or a hold in it, so it carries or keeps the notices.
LEMMA RedeliverStep == ASSUME IInv, Redeliver PROVE IInv'
<1> USE MessageFacts
<1> DEFINE S == IF Inbox # {} THEN Inbox ELSE {Nudge}
<1>1. /\ TypeOK /\ where \in [Messages -> Place] /\ promise \in [Inputs -> Promises]
      /\ timer /\ kind = "root" /\ slot.by \in {"free", "hold"} /\ retries' = retries + 1
      /\ retries' \in 0..Delays /\ ~disposed /\ Placed(where)
      /\ UNCHANGED <<kind, promise, disposed>>
  BY DEF IInv, TypeOK, Redeliver, SlotAgrees, Disposal, Promises
<1>2. S \in SUBSET Messages /\ \A m \in Inputs : m \notin S
  BY <1>1, QueueFacts
<1>3. CASE /\ slot.by = "hold" /\ timer' = FALSE /\ where' = Move(where, S, "inbox")
           /\ noticed' = TRUE /\ rest' = "none"
           /\ UNCHANGED <<slot, turn, suspended, carried>>
  <2>1. /\ where' \in [Messages -> Place]
        /\ \A m \in Messages : where'[m] = IF m \in S THEN "inbox" ELSE where[m]
    BY <1>1, <1>3, MoveFacts DEF Place
  <2>2. \A m \in Notices : m \in S => where[m] = "inbox"
    BY <1>1, QueueFacts
  <2> HIDE DEF S
  <2>3. TypeOK'
    BY <1>1, <1>3, <2>1 DEF TypeOK
  <2>4. Placed(where)' /\ Queued(where, slot.by)' /\ Told(promise, where, slot.by)'
    BY <1>1, <1>2, <1>3, <2>1, <2>2 DEF IInv, Placed, Queued, Told
  <2>5. Disposal(where)' /\ SlotAgrees' /\ HasReason'
    BY <1>1, <1>3, <2>1, <2>2 DEF IInv, Disposal, SlotAgrees, HasReason
  <2>6. QED  BY <2>3, <2>4, <2>5 DEF IInv
<1>4. CASE slot.by = "free" /\ RunTurn(S, where) /\ UNCHANGED noticed
  <2>1. /\ \A m \in Messages : where[m] \notin {"steering", "held"}
        /\ \A m \in Inputs : promise[m] # "waiting"
    BY <1>4 DEF IInv, Queued, Told
  <2>2. noticed' \in BOOLEAN
    BY <1>1, <1>4 DEF TypeOK
  <2> HIDE DEF S
  <2>3. QED  BY <1>1, <1>2, <1>4, <2>1, <2>2, TurnBegins DEF IInv, Told, Disposal
<1>5. QED  BY <1>1, <1>3, <1>4 DEF Redeliver

\* Within a turn messages go to the model, and the slot stays with the turn.
LEMMA InTurnStep ==
  ASSUME IInv, Inject \/ Rebuild \/ CallModel \/ Overflow \/ ReplyCalls \/ ToolsEnd
  PROVE  IInv'
<1> USE MessageFacts
<1>1. /\ TypeOK /\ where \in [Messages -> Place] /\ promise \in [Inputs -> Promises]
      /\ Placed(where) /\ turn \in TurnStates
      /\ slot.by = "turn" /\ UNCHANGED <<kind, slot, promise, inboxVars, disposed, rest>>
  BY DEF IInv, TypeOK, SlotAgrees, Promises, TurnStates, Inject, Rebuild, CallModel, Overflow,
         ReplyCalls, ToolsEnd
<1>2. /\ turn' \in TurnStates /\ turn'.phase # "none"
      /\ carried' \subseteq Messages \ Inputs /\ where' \in [Messages -> Place]
      /\ \A m \in Messages :
           \/ where'[m] = where[m]
           \/ where[m] \in {"inbox", "steering"} /\ where'[m] = "history"
           \/ where[m] = "history" /\ where'[m] = "answered"
  <2>1. CASE Injected /\ (\/ turn.phase = "prepare" /\ turn.steps < MaxSteps
                          \/ turn.phase = "context" /\ turn.rebuilds < MaxRebuilds)
    <3>1. (Inbox # {}) \in BOOLEAN /\ (turn.unanswered \/ Inbox # {}) \in BOOLEAN
      OBVIOUS
    <3>2. turn' = [phase |-> "context",
                   steps |-> IF turn.phase = "prepare" THEN turn.steps + 1 ELSE turn.steps,
                   rebuilds |-> IF turn.phase = "prepare" THEN 0 ELSE turn.rebuilds + 1,
                   unanswered |-> turn.unanswered \/ Inbox # {}]
      BY <1>1, <2>1 DEF Injected, TurnStates
    <3>3. turn' \in TurnStates /\ turn'.phase # "none"
      BY <1>1, <2>1, <3>1, <3>2 DEF TurnStates
    <3>4. /\ where' \in [Messages -> Place]
          /\ \A m \in Messages : where'[m] = IF where[m] \in {"inbox", "steering"}
                                             THEN "history" ELSE where[m]
      BY <1>1, <2>1, MoveFacts, QueueFacts DEF Injected, Place
    <3>5. carried' \subseteq Messages \ Inputs
      BY <1>1, <2>1, QueueFacts DEF Injected, TypeOK
    <3>6. QED  BY <3>3, <3>4, <3>5
  <2>2. CASE CallModel \/ Overflow \/ ToolsEnd
    BY <1>1, <2>2 DEF CallModel, Overflow, ToolsEnd, TurnStates, TypeOK
  <2>3. CASE ReplyCalls
    <3>1. /\ where' \in [Messages -> Place]
          /\ \A m \in Messages : where'[m] = IF where[m] = "history" THEN "answered" ELSE where[m]
      BY <1>1, <2>3, MoveFacts DEF ReplyCalls, Answered, At, Place
    <3>2. QED  BY <1>1, <2>3, <3>1 DEF ReplyCalls, TurnStates, TypeOK
  <2>4. QED  BY <2>1, <2>2, <2>3 DEF Inject, Rebuild, MustRebuild
<1>3. TypeOK'
  BY <1>1, <1>2 DEF TypeOK, TurnStates, inboxVars
<1>4. Placed(where)' /\ Queued(where, slot.by)'
  BY <1>1, <1>2 DEF IInv, Placed, Queued
<1>5. Told(promise, where, slot.by)'
  BY <1>1, <1>2 DEF IInv, Told
<1>6. Disposal(where)' /\ SlotAgrees' /\ HasReason'
  BY <1>1, <1>2 DEF IInv, Disposal, SlotAgrees, HasReason, inboxVars
<1>7. QED  BY <1>3, <1>4, <1>5, <1>6 DEF IInv

\* The caller of a prompt hears of the end of the turn that carried it.
LEMMA ResolvedFacts ==
  ASSUME IInv, slot.by = "turn", NEW w \in [Messages -> Place],
         \A m \in Inputs : w[m] \in {"history", "answered"} <=> where[m] \in {"history", "answered"}
  PROVE  /\ Resolved(w) \in [Inputs -> Promises]
         /\ \A m \in Inputs : /\ Resolved(w)[m] # "waiting"
                              /\ Resolved(w)[m] = promise[m] \/ where[m] \in {"history", "answered"}
                              /\ Resolved(w)[m] = "resolved" => where[m] \in {"history", "answered"}
                              /\ Resolved(w)[m] = "rejected" => promise[m] = "rejected"
  BY MessageFacts DEF IInv, TypeOK, Told, Resolved, Promises

\* A turn that failed leaves its notices to a resend, or to the reason not to.
LEMMA EndedStep ==
  ASSUME IInv, slot.by = "turn", Ended,
         timer' \in BOOLEAN, suspended' \in BOOLEAN, retries' \in 0..Delays,
         rest' \in {"none", "interrupted", "exhausted"},
         timer' => kind = "root" /\ retries' < Delays /\ ~disposed,
         (~disposed /\ Inbox # {}) => timer' \/ suspended' \/ rest' # "none"
  PROVE  IInv'
<1> USE MessageFacts
<1>1. /\ TypeOK /\ where \in [Messages -> Place] /\ Placed(where)
      /\ UNCHANGED <<kind, noticed, disposed, carried>>
      /\ slot' \in Slots /\ slot'.by = "free" /\ turn' \in TurnStates /\ turn'.phase = "none"
  BY DEF IInv, TypeOK, Ended, FreeSlot, NoTurn, Slots, TurnStates
<1>2. /\ where' \in [Messages -> Place]
      /\ \A m \in Messages : where'[m] = IF where[m] = "steering" THEN "dropped" ELSE where[m]
  BY <1>1, MoveFacts, QueueFacts DEF Ended, Place
<1>3. /\ promise' \in [Inputs -> Promises]
      /\ \A m \in Inputs : /\ promise'[m] # "waiting"
                           /\ promise'[m] = promise[m] \/ where[m] \in {"history", "answered"}
                           /\ promise'[m] = "resolved" => where[m] \in {"history", "answered"}
                           /\ promise'[m] = "rejected" => promise[m] = "rejected"
  BY <1>1, ResolvedFacts DEF Ended
<1>4. TypeOK'
  BY <1>1, <1>2, <1>3 DEF TypeOK, Slots, TurnStates, Promises
<1>5. Placed(where)' /\ Queued(where, slot.by)'
  BY <1>1, <1>2 DEF IInv, Placed, Queued
<1>6. Told(promise, where, slot.by)'
  BY <1>1, <1>2, <1>3 DEF IInv, Told
<1>7. Inbox' = Inbox
  BY <1>1, <1>2 DEF Inbox, At
<1>8. Disposal(where)' /\ SlotAgrees' /\ HasReason'
  BY <1>1, <1>2, <1>7 DEF IInv, Disposal, SlotAgrees, HasReason
<1>9. QED  BY <1>4, <1>5, <1>6, <1>8 DEF IInv

LEMMA FailedTurnStep == ASSUME IInv, Interrupted \/ Failed \/ Cut PROVE IInv'
<1> USE MessageFacts
<1>1. /\ slot.by = "turn" /\ Ended /\ ~timer /\ TypeOK /\ retries \in 0..Delays
  BY DEF IInv, TypeOK, SlotAgrees, Interrupted, Failed, Cut
<1>2. CASE Interrupted
  BY <1>1, <1>2, EndedStep DEF Interrupted, TypeOK
<1>3. CASE Failed
  <2>1. CASE ~disposed /\ (turn.unanswered \/ Inbox # {})
    <3>1. /\ timer' = (retries < RetryDelays) /\ UNCHANGED <<retries, suspended>>
          /\ rest' = IF retries < RetryDelays THEN rest ELSE "exhausted"
      BY <1>3, <2>1 DEF Failed, ScheduleRetry
    <3>2. retries < RetryDelays => kind = "root" /\ retries < Delays
      BY <1>1 DEF RetryDelays
    <3>3. /\ timer' \in BOOLEAN /\ suspended' \in BOOLEAN
          /\ rest' \in {"none", "interrupted", "exhausted"}
      BY <1>1, <3>1 DEF TypeOK
    <3>4. /\ timer' => kind = "root" /\ retries' < Delays /\ ~disposed
          /\ timer' \/ rest' # "none"
          /\ retries' \in 0..Delays
      BY <1>1, <2>1, <3>1, <3>2
    <3>5. QED  BY <1>1, <3>3, <3>4, EndedStep
  <2>2. CASE ~(~disposed /\ (turn.unanswered \/ Inbox # {}))
    <3>1. UNCHANGED <<timer, rest, retries, suspended>>
      BY <1>3, <2>2 DEF Failed
    <3>2. QED  BY <1>1, <2>2, <3>1, EndedStep DEF TypeOK
  <2>3. QED  BY <2>1, <2>2
<1>4. CASE Cut
  BY <1>1, <1>4, EndedStep DEF Cut, TypeOK
<1>5. QED  BY <1>2, <1>3, <1>4

\* A turn that succeeded goes on with what came meanwhile.
LEMMA DoneStep ==
  ASSUME IInv, slot.by = "turn", ~slot.aborted, NEW w \in [Messages -> Place], Done(w),
         \A m \in Messages : \/ w[m] = where[m]
                             \/ where[m] = "history" /\ w[m] = "answered"
  PROVE  IInv'
<1> USE MessageFacts
<1> DEFINE next == {m \in Messages : w[m] = "steering" \/ (w[m] = "inbox" /\ ~OwnsIdleNotices)}
<1>1. /\ TypeOK /\ Placed(where) /\ ~disposed /\ UNCHANGED <<kind, noticed, disposed>>
      /\ retries' = 0 /\ promise' = Resolved(w) /\ ~timer
  BY DEF IInv, TypeOK, Done, Disposal, SlotAgrees
<1>2. /\ promise' \in [Inputs -> Promises]
      /\ \A m \in Inputs : /\ promise'[m] # "waiting"
                           /\ promise'[m] = promise[m] \/ where[m] \in {"history", "answered"}
                           /\ promise'[m] = "resolved" => where[m] \in {"history", "answered"}
                           /\ promise'[m] = "rejected" => promise[m] = "rejected"
  BY <1>1, ResolvedFacts
<1>3. Placed(w) /\ \A m \in Messages : w[m] # "held"
  BY <1>1 DEF IInv, Placed, Queued
<1>4. \A m \in Inputs : /\ promise'[m] = "resolved" => w[m] \in {"history", "answered"}
                        /\ promise'[m] = "rejected" => w[m] \in {"dropped", "refused"}
                        /\ w[m] = "steering" => promise'[m] = "none"
  BY <1>2 DEF IInv, Told
<1>5. \A n \in Notices : w[n] \notin {"cleared", "moved"}
  BY <1>1 DEF IInv, Disposal
<1>6. CASE next # {}
  <2>1. RunTurn(next, w)
    BY <1>1, <1>6 DEF Done
  <2>2. /\ next \in SUBSET Messages
        /\ \A m \in Messages : w[m] \in {"steering", "held"} => m \in next
        /\ \A m \in next : w[m] \in {"steering", "inbox"}
    BY <1>3
  <2>3. retries' \in 0..Delays /\ noticed' \in BOOLEAN
    BY <1>1 DEF TypeOK
  <2> HIDE DEF next
  <2>4. \A m \in Inputs : promise'[m] = "rejected" => m \notin next
    BY <1>4, <2>2
  <2>5. QED  BY <1>1, <1>2, <1>3, <1>4, <1>5, <2>1, <2>2, <2>3, <2>4, TurnBegins
<1>7. CASE next = {}
  <2>1. /\ slot' = FreeSlot /\ turn' = NoTurn /\ where' = w
        /\ UNCHANGED <<timer, suspended, rest, carried>>
    BY <1>7 DEF Done
  <2>2. slot' \in Slots /\ slot'.by = "free" /\ turn' \in TurnStates /\ turn'.phase = "none"
    BY <2>1 DEF FreeSlot, NoTurn, Slots, TurnStates
  <2>3. TypeOK'
    BY <1>1, <1>2, <2>1, <2>2 DEF TypeOK, Slots, TurnStates, Promises
  <2>4. Placed(where)' /\ Queued(where, slot.by)'
    BY <1>3, <1>7, <2>1, <2>2 DEF Placed, Queued
  <2>5. Told(promise, where, slot.by)'
    BY <1>2, <1>4, <2>1, <2>2 DEF Told
  <2>6. kind = "root" => Inbox' = {}
    BY <1>7, <2>1 DEF OwnsIdleNotices, Inbox, At
  <2>7. Disposal(where)' /\ SlotAgrees' /\ HasReason'
    <3>1. Disposal(where)'
      BY <1>1, <1>5, <2>1, <2>2 DEF Disposal
    <3>2. SlotAgrees'
      BY <1>1, <2>1, <2>2 DEF SlotAgrees
    <3>3. HasReason'
      BY <1>1, <2>1, <2>6 DEF HasReason
    <3>4. QED  BY <3>1, <3>2, <3>3
  <2>8. QED  BY <2>3, <2>4, <2>5, <2>7 DEF IInv
<1>8. QED  BY <1>6, <1>7

LEMMA FinishedTurnStep == ASSUME IInv, ReplyDone \/ EndTurn PROVE IInv'
<1>1. where \in [Messages -> Place] /\ slot.by = "turn" /\ ~slot.aborted
  BY DEF IInv, TypeOK, SlotAgrees, ReplyDone, EndTurn
<1>2. CASE ReplyDone
  <2>1. /\ Answered \in [Messages -> Place]
        /\ \A m \in Messages : Answered[m] = IF where[m] = "history" THEN "answered" ELSE where[m]
    BY <1>1, MoveFacts DEF Answered, At, Place
  <2>2. Done(Answered)
    BY <1>2 DEF ReplyDone
  <2>3. QED  BY <1>1, <2>1, <2>2, DoneStep
<1>3. CASE EndTurn
  BY <1>1, <1>3, DoneStep DEF EndTurn
<1>4. QED  BY <1>2, <1>3

\* The initial state satisfies the invariant.
LEMMA InitInv == Init => IInv
<1> SUFFICES ASSUME Init PROVE IInv
  OBVIOUS
<1> USE MessageFacts DEF Init
<1>1. TypeOK
  <2>1. /\ slot = [by |-> "free", aborted |-> FALSE, lost |-> FALSE]
        /\ turn = [phase |-> "none", steps |-> 0, rebuilds |-> 0, unanswered |-> FALSE]
    BY DEF FreeSlot, NoTurn
  <2>2. where \in [Messages -> Place] /\ promise \in [Inputs -> Promises]
    BY DEF Place, Promises
  <2>3. slot \in Slots /\ turn \in TurnStates
    BY <2>1 DEF Slots, TurnStates
  <2>4. retries \in 0..Delays /\ carried \subseteq Messages \ Inputs
    OBVIOUS
  <2>5. QED  BY <2>2, <2>3, <2>4 DEF TypeOK, Promises, Slots, TurnStates
<1>2. Placed(where) /\ Queued(where, slot.by) /\ Told(promise, where, slot.by)
  BY DEF Placed, Queued, Told
<1>3. Disposal(where) /\ SlotAgrees /\ HasReason
  BY DEF Disposal, SlotAgrees, HasReason, FreeSlot, NoTurn, Inbox, At
<1>4. QED  BY <1>1, <1>2, <1>3 DEF IInv

\* Every step keeps the invariant.
LEMMA StepInv == IInv /\ [Next]_vars => IInv'
<1> SUFFICES ASSUME IInv, [Next]_vars PROVE IInv'
  OBVIOUS
<1>1. CASE UNCHANGED vars
  BY <1>1 DEF vars, inboxVars, IInv, TypeOK, Placed, Queued, Told, Disposal, SlotAgrees, HasReason,
     Inbox, At
<1>2. CASE TurnStep
  BY <1>2, InTurnStep, FailedTurnStep, FinishedTurnStep DEF TurnStep
<1>3. QED
  BY <1>1, <1>2, PromptStep, SteerStep, DeliverStep, WakeStep, AbortStep, DisposeStep,
     TakeSlotStep, HoldEndsStep, RedeliverStep DEF Next

\* The invariant holds in every behaviour.
THEOREM Invariant == Spec => []IInv
<1>1. QED  BY InitInv, StepInv, PTL DEF Spec

\* Whoever holds the session, its queues belong to it and no notice is lost: a
\* resend never meets a turn.
THEOREM InputKept == Spec => []InputIsKept
<1>1. IInv => InputIsKept
  <2> SUFFICES ASSUME IInv PROVE InputIsKept
    OBVIOUS
  <2>1. QueuesHaveOwners
    BY MessageFacts DEF IInv, Queued, SlotAgrees, QueuesHaveOwners, Steering, Held, At
  <2>2. NoticesNeverDropped
    BY MessageFacts DEF IInv, Placed, Disposal, NoticesNeverDropped
  <2>3. QED  BY <2>1, <2>2 DEF InputIsKept
<1>2. QED  BY <1>1, Invariant, PTL

\* What was given to an idle session waits for a reason, and every caller was told
\* the truth.
THEOREM WaitsForReason == Spec => []WaitsForAReason
<1>1. IInv => WaitsForAReason
  <2> SUFFICES ASSUME IInv PROVE WaitsForAReason
    OBVIOUS
  <2>1. WaitingHasReason
    BY DEF IInv, HasReason, WaitingHasReason, Busy
  <2>2. PromisesAreTrue
    BY DEF IInv, Told, PromisesAreTrue, Busy
  <2>3. QED  BY <2>1, <2>2 DEF WaitsForAReason
<1>2. QED  BY <1>1, Invariant, PTL
=============================================================================
