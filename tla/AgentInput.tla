------------------------------ MODULE AgentInput ------------------------------
(***************************************************************************)
(* What an agent does with the messages it is given: packages/core/src/    *)
(* agent/turn-runner.ts, hold.ts, notices.ts, owned-tool.ts and the calls  *)
(* of agent.ts.  Turns, holds (a manual compaction, a reload) and the tool *)
(* operations of an owned conversation share one abort slot.  Prompts and  *)
(* steers come from the user, notices from background work; each waits in  *)
(* one of several queues until a turn carries it to the model.             *)
(*                                                                         *)
(* Everything between two awaits is synchronous and so one action here.    *)
(* A turn awaits in four places, its phases: while it prepares (pause,     *)
(* aging, compaction), while its context is built, during the model call,  *)
(* and while tools run.                                                    *)
(***************************************************************************)
EXTENDS Naturals, FiniteSets

CONSTANTS
  Inputs,      \* messages of the user, each sent once, as a prompt or a steer
  Notices,     \* messages of background work
  Quiet,       \* the notices delivered with wake: false
  Nudge,       \* the message #redeliver makes up when no notice waits
  Origin,      \* Origin[n]: display.origin of a notice, "subagent" or "job"
  Kinds,       \* which agents: "root", "child" (persistent), "owned"
  Delays,      \* Len(noticeRetryMs) of a root agent
  MaxSteps,    \* agent.maxSteps
  MaxRebuilds  \* the limit of #callModel's loop (3 in the code)

Messages == Inputs \cup Notices \cup {Nudge}

ASSUME InputAssumption ==
  /\ Inputs \cap Notices = {} /\ Nudge \notin Inputs \cup Notices
  /\ Quiet \subseteq Notices
  /\ Origin \in [Notices \cup {Nudge} -> {"subagent", "job"}]
  /\ Kinds \subseteq {"root", "child", "owned"}
  /\ Delays \in Nat /\ MaxSteps \in Nat \ {0} /\ MaxRebuilds \in Nat

\* Where a message is: "new"; "expected" (announced by a PendingNotice); in one
\* of the queues "inbox", "steering" and "held"; in the "history" without a
\* reply of the model since, or "answered"; "dropped" with a turn.steer event
\* that says so, "refused" to the caller; "moved" to the session that replaces
\* this one or "cleared" at its end.  "lost" is none of these.
Place == {"new", "expected", "inbox", "steering", "held", "history", "answered",
          "dropped", "refused", "moved", "cleared", "lost"}

VARIABLES
  kind,       \* which kind of agent this is; never changes
  slot,       \* TurnState.abort with what holds it, and the state of its signal
  turn,       \* the running turn
  where,
  promise,    \* promise[m]: what prompt(m) returned to its caller
  timer,      \* NoticeInbox.#retry: a resend is scheduled
  retries,    \* NoticeInbox.#retries
  suspended,  \* NoticeInbox.#suspended
  noticed,    \* NoticeInbox.#noticedDuringCompaction
  disposed,
  \* Read by the properties only:
  rest,       \* why waiting notices may rest
  carried     \* the notices the running, or else the last, turn took along

inboxVars == <<timer, retries, suspended, noticed>>
vars == <<kind, slot, turn, where, promise, timer, retries, suspended, noticed, disposed, rest,
          carried>>

FreeSlot == [by |-> "free", aborted |-> FALSE, lost |-> FALSE]
NoTurn == [phase |-> "none", steps |-> 0, rebuilds |-> 0, unanswered |-> FALSE]

Init ==
  /\ kind \in Kinds
  /\ slot = FreeSlot
  /\ turn = NoTurn
  /\ where = [m \in Messages |-> IF m \in Notices THEN "expected" ELSE "new"]
  /\ promise = [m \in Inputs |-> "none"]
  /\ timer = FALSE /\ retries = 0 /\ suspended = FALSE /\ noticed = FALSE
  /\ disposed = FALSE
  /\ rest = "none" /\ carried = {}

-----------------------------------------------------------------------------
(* Queues and promises                                                     *)

At(p) == {m \in Messages : where[m] = p}
Inbox == At("inbox")
Steering == At("steering")
Held == At("held")
Move(f, S, p) == [m \in Messages |-> IF m \in S THEN p ELSE f[m]]

Busy == slot.by # "free"
HeldPrompt == \E m \in Held : promise[m] = "waiting"
\* opts.onIdleNotice was given: somebody else decides when notices start a turn.
\* MUTANT of OwnsIdleNotices: a root agent leaves its notices to an owner too.
OwnsIdleNotices_Always == TRUE
OwnsIdleNotices == kind # "root"
\* MUTANT of RetryDelays: an owned conversation resends as a root agent does.
RetryDelays_Everywhere == Delays
RetryDelays == IF kind = "root" THEN Delays ELSE 0
\* joinMessages: the joined message has an origin only if all have the same.
HasOrigin(S) == S \cap Inputs = {} /\ Cardinality({Origin[m] : m \in S}) = 1

\* The promises of held prompts S that will not be sent.
\* MUTANT of Rejected: their callers are forgotten.
Rejected_Never(S) == promise
Rejected(S) == [m \in Inputs |-> IF m \in S /\ promise[m] = "waiting"
                                 THEN "rejected" ELSE promise[m]]

\* #noticedDuringCompaction after notice n arrived.
\* MUTANT of Noted: a notice that arrives under a hold is left to the next turn.
Noted_Never(n) == noticed
Noted(n) == noticed \/ (slot.by = "hold" /\ n \notin Quiet)

\* TurnRunner.run up to its first await, for messages S joined into one; w is
\* where everything else is by now.
\* MUTANT of RunTurn: a new turn leaves the retry timer running.
RunTurn_KeepsTimer(S, w) ==
  /\ slot' = [FreeSlot EXCEPT !.by = "turn"]
  /\ turn' = [NoTurn EXCEPT !.phase = "prepare", !.unanswered = HasOrigin(S)]
  /\ where' = Move(w, S, "history")
  /\ UNCHANGED timer /\ suspended' = FALSE
  /\ rest' = "none" /\ carried' = S \ Inputs
RunTurn(S, w) ==
  /\ slot' = [FreeSlot EXCEPT !.by = "turn"]
  /\ turn' = [NoTurn EXCEPT !.phase = "prepare", !.unanswered = HasOrigin(S)]
  /\ where' = Move(w, S, "history")
  /\ timer' = FALSE            \* cancelRetry
  /\ suspended' = FALSE        \* resume
  /\ rest' = "none" /\ carried' = S \ Inputs

\* The two fields of the retry timer after scheduleRetry.
ScheduleRetry ==
  /\ timer' = (retries < RetryDelays)
  /\ rest' = IF retries < RetryDelays THEN rest ELSE "exhausted"

-----------------------------------------------------------------------------
(* What callers do                                                         *)

\* Agent.prompt
Prompt(m) ==
  /\ where[m] = "new"
  /\ \/ /\ ~disposed /\ slot.by = "hold" /\ ~HeldPrompt
        /\ where' = [where EXCEPT ![m] = "held"]
        /\ promise' = [promise EXCEPT ![m] = "waiting"]
        /\ UNCHANGED <<slot, turn, timer, suspended, rest, carried>>
     \/ /\ ~disposed /\ ~Busy
        /\ RunTurn({m}, where)
        /\ promise' = [promise EXCEPT ![m] = "waiting"]
     \/ /\ disposed \/ (Busy /\ (slot.by = "hold" => HeldPrompt))
        /\ where' = [where EXCEPT ![m] = "refused"]
        /\ promise' = [promise EXCEPT ![m] = "rejected"]
        /\ UNCHANGED <<slot, turn, timer, suspended, rest, carried>>
  /\ UNCHANGED <<kind, retries, noticed, disposed>>

\* Agent.steer; the handle of an owned conversation has no way to call it.
Steer(m) ==
  /\ where[m] = "new" /\ kind # "owned"
  /\ \/ /\ disposed
        /\ where' = [where EXCEPT ![m] = "refused"]
        /\ UNCHANGED <<slot, turn, timer, suspended, rest, carried>>
     \/ /\ ~disposed /\ ~Busy
        /\ RunTurn({m}, where)
     \/ /\ ~disposed /\ Busy
        /\ where' = [where EXCEPT ![m] = IF slot.by = "hold" THEN "held" ELSE "steering"]
        /\ UNCHANGED <<slot, turn, timer, suspended, rest, carried>>
  /\ UNCHANGED <<kind, promise, retries, noticed, disposed>>

\* PendingNotice.deliver and NoticeInbox.receive, with wakeQuietly.
Deliver(n) ==
  /\ where[n] = "expected"
  /\ LET w == [where EXCEPT ![n] = "inbox"]
     IN  IF ~Busy /\ n \notin Quiet /\ ~suspended /\ ~OwnsIdleNotices
         THEN RunTurn(Inbox \cup {n}, w) /\ UNCHANGED noticed
         ELSE /\ where' = w
              /\ noticed' = Noted(n)
              /\ rest' = IF n \in Quiet THEN rest ELSE "none"
              /\ UNCHANGED <<slot, turn, timer, suspended, carried>>
  /\ UNCHANGED <<kind, promise, retries, disposed>>

\* NoticeInbox.wake, called for a persistent child when it has a place.
Wake ==
  /\ kind = "child"
  /\ ~suspended /\ ~disposed /\ ~Busy /\ Inbox # {}
  /\ RunTurn(Inbox, where)
  /\ UNCHANGED <<kind, promise, retries, noticed, disposed>>

\* Agent.abort, which is also what interrupts a hold or a tool operation.
Abort ==
  /\ Busy /\ ~slot.aborted
  /\ slot' = [slot EXCEPT !.aborted = TRUE]
  /\ UNCHANGED <<kind, turn, where, promise, inboxVars, disposed, rest, carried>>

\* latchTransportFailure: a model call of the turn or of the hold's compaction
\* ended with a terminal proxy failure.
LatchFailure ==
  /\ slot.by = "hold" \/ turn.phase \in {"prepare", "context", "call"}
  /\ ~slot.aborted /\ ~slot.lost
  /\ slot' = [slot EXCEPT !.lost = TRUE]
  /\ UNCHANGED <<kind, turn, where, promise, inboxVars, disposed, rest, carried>>

\* Agent.dispose up to its first await.  Before a switch of the root session its
\* expected notices were handed to the replacement (handoverBackgroundNotices).
Dispose(switch) ==
  /\ ~disposed
  /\ switch => kind = "root"
  /\ disposed' = TRUE
  /\ slot' = IF Busy THEN [slot EXCEPT !.aborted = TRUE] ELSE slot
  /\ where' = [m \in Messages |->
                 CASE where[m] = "expected" -> IF switch THEN "moved" ELSE "cleared"
                   [] where[m] \in {"inbox", "steering"} -> "cleared"
                   [] where[m] = "held" -> "dropped"
                   [] OTHER -> where[m]]
  /\ promise' = Rejected(Held)
  /\ timer' = FALSE
  /\ UNCHANGED <<kind, turn, retries, suspended, noticed, rest, carried>>

-----------------------------------------------------------------------------
(* Holds                                                                   *)

\* SessionHold.run up to its work; /compact, /reload and a file restore, all of
\* them commands, hold the root.
Hold ==
  /\ kind = "root" /\ ~Busy /\ ~disposed
  /\ slot' = [FreeSlot EXCEPT !.by = "hold"]
  /\ UNCHANGED <<kind, turn, where, promise, inboxVars, disposed, rest, carried>>

\* The finally of SessionHold.run: suspend, then #start, then wakeQuietly.
HoldEnds ==
  /\ slot.by = "hold"
  /\ noticed' = FALSE
  /\ LET dropped == slot.aborted
         quiet == slot.lost \/ suspended
     IN  CASE ~dropped /\ Held # {} -> RunTurn(Held, where) /\ UNCHANGED promise
           [] ~dropped /\ Held = {} /\ noticed /\ ~quiet /\ Inbox # {} ->
                RunTurn(Inbox, where) /\ UNCHANGED promise
           [] OTHER ->
                /\ slot' = FreeSlot
                /\ suspended' = quiet
                /\ timer' = (timer /\ ~slot.lost)
                /\ where' = Move(where, Held, "dropped")
                /\ promise' = Rejected(Held)
                /\ rest' = IF dropped THEN "interrupted" ELSE rest
                /\ UNCHANGED <<turn, carried>>
  /\ UNCHANGED <<kind, retries, disposed>>

-----------------------------------------------------------------------------
(* A turn                                                                  *)

\* #injectSteering, after which the context is built.
Injected ==
  /\ where' = Move(where, Inbox \cup Steering, "history")
  /\ turn' = [turn EXCEPT !.phase = "context",
                          !.unanswered = @ \/ Inbox # {},
                          !.steps = IF turn.phase = "prepare" THEN @ + 1 ELSE @,
                          !.rebuilds = IF turn.phase = "prepare" THEN 0 ELSE @ + 1]
  /\ carried' = carried \cup Inbox

Inject ==
  /\ turn.phase = "prepare" /\ ~slot.aborted /\ ~slot.lost /\ turn.steps < MaxSteps
  /\ Injected
  /\ UNCHANGED <<kind, slot, promise, inboxVars, disposed, rest>>

MustRebuild ==
  kind = "child" /\ turn.rebuilds < MaxRebuilds /\ Inbox \cup Steering # {}

\* The context is built again for what a child was sent meanwhile.
Rebuild ==
  /\ turn.phase = "context" /\ ~slot.aborted /\ MustRebuild
  /\ Injected
  /\ UNCHANGED <<kind, slot, promise, inboxVars, disposed, rest>>

CallModel ==
  /\ turn.phase = "context" /\ ~slot.aborted /\ ~slot.lost /\ ~MustRebuild
  /\ turn' = [turn EXCEPT !.phase = "call"]
  /\ UNCHANGED <<kind, slot, where, promise, inboxVars, disposed, rest, carried>>

\* An overflow error that aging or a compaction mends: the loop goes on.
Overflow ==
  /\ turn.phase = "call" /\ ~slot.aborted /\ ~slot.lost
  /\ turn' = [turn EXCEPT !.phase = "prepare"]
  /\ UNCHANGED <<kind, slot, where, promise, inboxVars, disposed, rest, carried>>

Answered == Move(where, At("history"), "answered")

\* A reply with tool calls, and the end of the batch.
ReplyCalls ==
  /\ turn.phase = "call" /\ ~slot.aborted /\ ~slot.lost
  /\ turn' = [turn EXCEPT !.phase = "tools", !.unanswered = FALSE]
  /\ where' = Answered
  /\ UNCHANGED <<kind, slot, promise, inboxVars, disposed, rest, carried>>

ToolsEnd ==
  /\ turn.phase = "tools" /\ ~slot.aborted
  /\ turn' = [turn EXCEPT !.phase = "prepare"]
  /\ UNCHANGED <<kind, slot, where, promise, inboxVars, disposed, rest, carried>>

\* The finally of TurnRunner.run for each result; w is where the messages are.
\* MUTANT of Resolved: only a turn with a reply settles the promise.
Resolved_OnReply(w) ==
  [m \in Inputs |-> IF promise[m] = "waiting" /\ w[m] = "answered"
                    THEN "resolved" ELSE promise[m]]
Resolved(w) ==
  [m \in Inputs |-> IF promise[m] = "waiting" /\ w[m] \in {"history", "answered"}
                    THEN "resolved" ELSE promise[m]]

Done(w) ==
  LET next == {m \in Messages : w[m] = "steering" \/ (w[m] = "inbox" /\ ~OwnsIdleNotices)}
  IN  /\ IF next # {} /\ ~disposed
         THEN RunTurn(next, w)
         ELSE /\ slot' = FreeSlot /\ turn' = NoTurn
              /\ where' = w
              /\ UNCHANGED <<timer, suspended, rest, carried>>
      /\ retries' = 0
      /\ promise' = Resolved(w)
      /\ UNCHANGED <<kind, noticed, disposed>>

\* The end of a turn that did not succeed, before the retry is decided.
Ended ==
  /\ slot' = FreeSlot /\ turn' = NoTurn
  /\ where' = Move(where, Steering, "dropped")
  /\ promise' = Resolved(where)
  /\ UNCHANGED <<kind, noticed, disposed, carried>>

ReplyDone ==
  /\ turn.phase = "call" /\ ~slot.aborted /\ ~slot.lost
  /\ Done(Answered)

\* opts.endTurn, once the tools are done.
EndTurn ==
  /\ turn.phase = "tools" /\ ~slot.aborted /\ kind = "child"
  /\ Done(where)

Interrupted ==
  /\ slot.by = "turn" /\ slot.aborted
  /\ Ended
  /\ retries' = 0
  /\ rest' = "interrupted"
  /\ UNCHANGED <<timer, suspended>>

\* The step limit, a blocked or failed model call, or an exception.
Failed ==
  /\ slot.by = "turn" /\ ~slot.aborted /\ ~slot.lost
  /\ Ended
  /\ IF ~disposed /\ (turn.unanswered \/ Inbox # {})
     THEN ScheduleRetry
     ELSE UNCHANGED <<timer, rest>>
  /\ UNCHANGED <<retries, suspended>>

\* #terminalFailure
Cut ==
  /\ slot.by = "turn" /\ slot.lost /\ ~slot.aborted
  /\ Ended
  /\ suspended' = TRUE /\ timer' = FALSE
  /\ UNCHANGED <<retries, rest>>

-----------------------------------------------------------------------------
(* The retry timer, and tool operations between turns                      *)

\* #redeliver.  A nudge stands for notices the history already holds.
Redeliver ==
  /\ timer
  /\ retries' = retries + 1
  /\ LET S == IF Inbox # {} THEN Inbox ELSE {Nudge}
     IN  CASE slot.by = "hold" ->
                /\ timer' = FALSE
                /\ where' = Move(where, S, "inbox")
                /\ noticed' = TRUE
                /\ rest' = "none"
                /\ UNCHANGED <<slot, turn, suspended, carried>>
           [] slot.by = "free" -> RunTurn(S, where) /\ UNCHANGED noticed
           [] OTHER ->             \* AgentBusyError, which nobody catches
                /\ timer' = FALSE
                /\ where' = Move(where, S, "lost")
                /\ UNCHANGED <<slot, turn, suspended, noticed, rest, carried>>
  /\ UNCHANGED <<kind, promise, disposed>>

\* OwnedToolRunner.run: it takes the slot without what a turn does to the inbox.
ToolBegins ==
  /\ kind = "owned" /\ ~disposed /\ ~Busy
  /\ slot' = [FreeSlot EXCEPT !.by = "tool"]
  /\ UNCHANGED <<kind, turn, where, promise, inboxVars, disposed, rest, carried>>

ToolOperationEnds ==
  /\ slot.by = "tool"
  /\ slot' = FreeSlot
  /\ UNCHANGED <<kind, turn, where, promise, inboxVars, disposed, rest, carried>>

-----------------------------------------------------------------------------
TurnStep ==
  \/ Inject \/ Rebuild \/ CallModel \/ Overflow \/ ReplyCalls \/ ToolsEnd
  \/ ReplyDone \/ EndTurn \/ Interrupted \/ Failed \/ Cut

Next ==
  \/ \E m \in Inputs : Prompt(m) \/ Steer(m)
  \/ \E n \in Notices : Deliver(n)
  \/ Wake \/ Abort \/ LatchFailure \/ (\E s \in BOOLEAN : Dispose(s))
  \/ Hold \/ HoldEnds \/ Redeliver \/ ToolBegins \/ ToolOperationEnds
  \/ TurnStep

Spec == Init /\ [][Next]_vars

\* Awaits of a turn settle (model calls have deadlines, tools are aborted with a
\* grace) and its steps are limited; work under a hold settles; timers fire; the
\* tree gives a waiting child its place (Admission).
Fairness ==
  /\ WF_vars(TurnStep) /\ WF_vars(HoldEnds) /\ WF_vars(ToolOperationEnds)
  /\ WF_vars(Redeliver) /\ WF_vars(Wake)
FairSpec == Spec /\ Fairness

-----------------------------------------------------------------------------
(* Properties                                                              *)

TypeOK ==
  /\ kind \in Kinds
  /\ slot \in [by : {"free", "turn", "hold", "tool"}, aborted : BOOLEAN, lost : BOOLEAN]
  /\ turn \in [phase : {"none", "prepare", "context", "call", "tools"},
               steps : 0..MaxSteps, rebuilds : 0..MaxRebuilds, unanswered : BOOLEAN]
  /\ where \in [Messages -> Place]
  /\ promise \in [Inputs -> {"none", "waiting", "resolved", "rejected"}]
  /\ timer \in BOOLEAN /\ retries \in 0..Delays /\ suspended \in BOOLEAN
  /\ noticed \in BOOLEAN /\ disposed \in BOOLEAN
  /\ rest \in {"none", "interrupted", "exhausted"} /\ carried \subseteq Messages \ Inputs

\* Each queue belongs to what holds the slot: steers wait only for a running
\* turn (turn-runner.ts TurnState), held input only for a hold, and a resend is
\* never due while a turn or a tool runs: "A turn cancels the timer, so only a
\* manual compaction can be running" (notices.ts).
QueuesHaveOwners ==
  /\ TypeOK
  /\ Steering # {} => slot.by = "turn"
  /\ Held # {} => slot.by = "hold"
  /\ timer => slot.by \in {"free", "hold"}
  /\ slot.by = "turn" <=> turn.phase # "none"

\* A notice is never dropped ("Unlike steering they are never dropped",
\* notices.ts): no prompt that carries it is refused because something else
\* holds the session, and it goes away unread only with the session.
NoticesNeverDropped ==
  /\ \A m \in Messages : where[m] # "lost"
  /\ \A n \in Notices : where[n] \notin {"dropped", "refused"}
                        /\ (where[n] \in {"cleared", "moved"} => disposed)

\* Whoever holds the session, its queues belong to it and no notice is lost.
InputIsKept == QueuesHaveOwners /\ NoticesNeverDropped

\* If an idle session has notices that were to wake it, then a resend is due or
\* there is a reason to let them wait: an interrupt, a lost transport, or that
\* all retries failed.
WaitingHasReason ==
  (~Busy /\ ~disposed /\ kind = "root" /\ Inbox \ (Quiet \cup {Nudge}) # {})
    => timer \/ suspended \/ rest # "none"

\* What prompt() told its caller is true: a resolved prompt was part of a turn, a
\* rejected one never reaches the model, also when it was held first.
PromisesAreTrue ==
  \A m \in Inputs :
    /\ promise[m] = "resolved" => where[m] \in {"history", "answered"}
    /\ promise[m] = "rejected" => where[m] \in {"dropped", "refused"}
    /\ promise[m] = "waiting" => Busy

\* Nothing that was given to the session is silently forgotten in an idle session
\* or contradicts what its sender was told.
WaitsForAReason == WaitingHasReason /\ PromisesAreTrue

\* A turn that carried notices and failed before the model answered them is
\* followed by a resend while there are retries left (notices.ts, above
\* scheduleRetry).  It is not if the notices were joined with what the user
\* wrote, or notices of sub-agents with notices of jobs: the joined message has
\* no origin, and so the turn does not know that it carries notices.
FailedNoticesAreResent ==
  (/\ ~Busy /\ ~disposed /\ ~suspended /\ kind = "root" /\ rest = "none"
   /\ \E n \in carried : where[n] = "history")
    => timer

\* Every prompt() settles.
PromptsSettle ==
  \A m \in Inputs : []<>(promise[m] # "waiting")

\* A delivered notice reaches a turn, unless the session ends or rests for a
\* reason.  (An owned conversation waits for its owner.)
NoticesReachATurn ==
  \A n \in Notices \ Quiet :
    []<>(where[n] # "inbox" \/ kind = "owned" \/ suspended \/ rest # "none")

\* Whoever talks to the session is heard or told: users by their promise, jobs and
\* sub-agents by a turn.
EverybodyIsHeard == PromptsSettle /\ NoticesReachATurn
=============================================================================
