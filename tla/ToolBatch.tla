------------------------------- MODULE ToolBatch -------------------------------
(***************************************************************************)
(* The tool calls of a model's reply: packages/core/src/agent/             *)
(* tool-runner.ts (ToolRunner.run and #runTool), approvals.ts              *)
(* (ApprovalGate) and the approver of packages/cli/src/session/            *)
(* approvals.ts.  One loop starts the calls of a batch in order; each call *)
(* then goes its own way through its gates, the approval, the wait for its *)
(* concurrency key and the executor to tool.call.after.  An abort gives    *)
(* them a grace; the batch then settles without them, and what is left of  *)
(* them runs on beside the batches of later turns.                         *)
(*                                                                         *)
(* Here each turn has one batch.                                           *)
(***************************************************************************)
EXTENDS Naturals, FiniteSets, FiniteSetsExt

CONSTANTS
  Calls,        \* naturals, in the order of the replies
  Turns,        \* the turns are 1..Turns
  TurnOf,       \* TurnOf[c]
  Serial,       \* the calls of tools whose concurrency is "serial"
  Key,          \* Key[c]: concurrencyKey of a parallel call, or NoKey
  NoKey,
  Writers,      \* the calls whose executor uses mutateFiles
  Askers,       \* the calls whose executor may ask the user
  MaxParallel   \* maxParallelTools

ASSUME BatchAssumption ==
  /\ Calls \subseteq Nat \ {0} /\ IsFiniteSet(Calls)
  /\ Turns \in Nat \ {0} /\ TurnOf \in [Calls -> 1..Turns]
  /\ \A c, d \in Calls : c < d => TurnOf[c] <= TurnOf[d]
  /\ Serial \subseteq Calls /\ Writers \subseteq Calls /\ Askers \subseteq Calls
  /\ MaxParallel \in Nat \ {0}

NoCall == 0
NoTurn == 0

VARIABLES
  turn,      \* the turn that has the slot, or NoTurn
  begun,     \* how many turns have begun
  aborted,   \* aborted[t]: the signal of turn t
  loop,      \* ToolRunner.run: "off", "starting" calls, waiting for "all", "settled"
  graces,    \* how often the loop has waited out abortGraceMs in this batch
  stage,     \* stage[c]: which await of #runTool call c is at
  before,    \* before[c]: the call whose key call c took over
  last,      \* lastByKey of the batch
  run,       \* run[c]: the CallRun
  write,     \* write[c]: a call of mutateFiles by the executor of c
  blocked,   \* blocked[t]: the count of waits of turn t
  status     \* the status of the session

vars == <<turn, begun, aborted, loop, graces, stage, before, last, run, write, blocked, status>>

\* CallRun: which events were emitted, how often; whether the result is there
\* (returned), was recorded (result) or came too late (finished); whether
\* tool.call.after was told that no other call is pending.
NewRun == [started |-> 0, ended |-> 0, returned |-> FALSE, finished |-> FALSE,
           result |-> "none", sawLast |-> FALSE]

Init ==
  /\ turn = NoTurn /\ begun = 0
  /\ aborted = [t \in 1..Turns |-> FALSE]
  /\ loop = "off" /\ graces = 0
  /\ stage = [c \in Calls |-> "new"]
  /\ before = [c \in Calls |-> NoCall]
  /\ last = [k \in {Key[c] : c \in Calls} |-> NoCall]
  /\ run = [c \in Calls |-> NewRun]
  /\ write = [c \in Calls |-> "none"]
  /\ blocked = [t \in 1..Turns |-> 0]
  /\ status = "idle"

Batch == {c \in Calls : TurnOf[c] = turn}
Started == {c \in Batch : stage[c] # "new"}
Running == {c \in Started : stage[c] # "done"}
Unstarted == {c \in Batch : stage[c] = "new"}
Gone(c) == aborted[TurnOf[c]] \/ run[c].finished
IsCurrent(t) == turn = t /\ ~aborted[t]

-----------------------------------------------------------------------------
(* What several steps of a call share                                      *)

\* tool.execute.start is emitted once.
\* MUTANT of StartShown: every place that may emit it does.
StartShown_Again(r) == [r EXCEPT !.started = @ + 1]
StartShown(r) == [r EXCEPT !.started = 1]

\* MUTANT of Pending: calls that have not started do not count.
Pending_Started(c) == {d \in Started \ {c} : ~run[d].returned /\ ~run[d].finished}
Pending(c) == {d \in Batch \ {c} : ~run[d].returned /\ ~run[d].finished}

\* finish(): the call has its result and tool.call.after begins, unless the turn
\* was interrupted.  A rejected call shows its start only now.
Finished(c, rejected) ==
  LET r == [run[c] EXCEPT !.returned = TRUE,
                          !.sawLast = ~Gone(c) /\ Pending(c) = {}]
  IN  IF rejected THEN StartShown(r) ELSE r

Return(c, rejected) ==
  /\ stage' = [stage EXCEPT ![c] = "after"]
  /\ run' = [run EXCEPT ![c] = Finished(c, rejected)]

\* #waitBlocked: the count of a turn's waits, and the status it is shown by.
Wait(c) ==
  /\ blocked' = [blocked EXCEPT ![TurnOf[c]] = @ + 1]
  /\ status' = IF IsCurrent(TurnOf[c]) THEN "blocked" ELSE status

\* settle(): only the last wait of the current turn restores working.
\* MUTANT of Unwait: a wait of any turn does.
Unwait_Any(t) ==
  /\ blocked' = [blocked EXCEPT ![t] = @ - 1]
  /\ status' = IF blocked[t] = 1 THEN "working" ELSE status
Unwait(t) ==
  /\ blocked' = [blocked EXCEPT ![t] = @ - 1]
  /\ status' = IF blocked[t] = 1 /\ IsCurrent(t) THEN "working" ELSE status

-----------------------------------------------------------------------------
(* The loop of ToolRunner.run                                              *)

BeginTurn ==
  /\ turn = NoTurn /\ begun < Turns
  /\ begun' = begun + 1 /\ turn' = begun + 1
  /\ loop' = "starting" /\ graces' = 0
  /\ last' = [k \in DOMAIN last |-> NoCall]
  /\ status' = "working"
  /\ UNCHANGED <<aborted, stage, before, run, write, blocked>>

\* The awaits of the loop are over: a serial call that was started has ended; the
\* next one, if it is serial, has none before it; and there is room.
\* MUTANT of Ready: a serial call does not wait for the calls before it.
Ready_Serial ==
  /\ Running \cap Serial = {}
  /\ Cardinality(Running) < MaxParallel
Ready ==
  /\ Running \cap Serial = {}
  /\ Unstarted # {} /\ Min(Unstarted) \in Serial => Running = {}
  /\ Unstarted # {} => Cardinality(Running) < MaxParallel

Start ==
  /\ loop = "starting" /\ Unstarted # {} /\ ~aborted[turn] /\ Ready
  /\ stage' = [stage EXCEPT ![Min(Unstarted)] = "gates"]
  /\ UNCHANGED <<turn, begun, aborted, loop, graces, before, last, run, write, blocked, status>>

\* #untilDoneOrAbandoned: the timer of an abort, counted from when the wait began
\* or from the abort.
\* MUTANT of Abandon: an abort before the wait began is not noticed.
Abandon_Listening(work) ==
  ~work /\ aborted[turn] /\ loop = "starting" /\ graces' = graces + 1
Abandon(work) == ~work /\ aborted[turn] /\ graces' = graces + 1
Done(work) == work /\ UNCHANGED graces

LeaveLoop ==
  /\ loop = "starting" /\ (Unstarted = {} \/ aborted[turn])
  /\ Done(Ready) \/ Abandon(Ready)
  /\ loop' = "all"
  /\ UNCHANGED <<turn, begun, aborted, stage, before, last, run, write, blocked, status>>

\* The finally: what has no result is aborted; from now on results come too late.
Recorded(r) ==
  IF r.result # "none" THEN [r EXCEPT !.finished = TRUE]
  ELSE [StartShown(r) EXCEPT !.ended = @ + 1, !.result = "aborted", !.finished = TRUE]

\* MUTANT of Settled: a call that outlives the batch still reports its end.
Settled_Open == [c \in Calls |-> IF c \in Batch THEN [Recorded(run[c]) EXCEPT !.finished = FALSE]
                                 ELSE run[c]]
Settled == [c \in Calls |-> IF c \in Batch THEN Recorded(run[c]) ELSE run[c]]

Settle ==
  /\ loop = "all"
  /\ Done(Running = {}) \/ Abandon(Running = {})
  /\ loop' = "settled"
  /\ run' = Settled
  /\ UNCHANGED <<turn, begun, aborted, stage, before, last, write, blocked, status>>

EndTurn ==
  /\ loop = "settled"
  /\ loop' = "off" /\ turn' = NoTurn /\ status' = "idle"
  /\ UNCHANGED <<begun, aborted, graces, stage, before, last, run, write, blocked>>

-----------------------------------------------------------------------------
(* A call                                                                  *)

\* The arguments, the interceptors and the permission policy; then the approval
\* starts, or the key is waited for.
Rejected(c) ==
  /\ stage[c] = "gates"
  /\ Return(c, TRUE)
  /\ UNCHANGED <<turn, begun, aborted, loop, graces, before, last, write, blocked, status>>

Ask(c) ==
  /\ stage[c] = "gates" /\ ~aborted[TurnOf[c]]
  /\ stage' = [stage EXCEPT ![c] = "approval"]
  /\ Wait(c)
  /\ UNCHANGED <<turn, begun, aborted, loop, graces, before, last, run, write>>

\* waitForKey as far as it is synchronous.  The order of the keys is that in which
\* the calls were authorized.
\* MUTANT of TakeKey: a call that takes over a key is put there before it looks
\* whom to wait for.
TakeKey_Swapped(c) ==
  IF c \in Serial \/ run[c].finished \/ Key[c] = NoKey
  THEN UNCHANGED <<last, before>>
  ELSE /\ before' = [before EXCEPT ![c] = c]
       /\ last' = [last EXCEPT ![Key[c]] = c]
TakeKey(c) ==
  IF c \in Serial \/ run[c].finished \/ Key[c] = NoKey
  THEN UNCHANGED <<last, before>>
  ELSE /\ before' = [before EXCEPT ![c] = last[Key[c]]]
       /\ last' = [last EXCEPT ![Key[c]] = c]

Allow(c) ==
  /\ stage[c] = "gates" /\ ~aborted[TurnOf[c]]
  /\ TakeKey(c)
  /\ stage' = [stage EXCEPT ![c] = "key"]
  /\ UNCHANGED <<turn, begun, aborted, loop, graces, run, write, blocked, status>>

Approve(c) ==
  /\ stage[c] = "approval"
  /\ TakeKey(c)
  /\ stage' = [stage EXCEPT ![c] = "key"]
  /\ Unwait(TurnOf[c])
  /\ UNCHANGED <<turn, begun, aborted, loop, graces, run, write>>

Deny(c) ==
  /\ stage[c] = "approval"
  /\ Return(c, TRUE)
  /\ Unwait(TurnOf[c])
  /\ UNCHANGED <<turn, begun, aborted, loop, graces, before, last, write>>

\* The wait for the key is over; the start is shown, and a timer lets it be drawn.
KeyFree(c) ==
  /\ stage[c] = "key"
  /\ before[c] \in {d \in Calls : stage[d] # "done"} => aborted[TurnOf[c]]
  /\ IF Gone(c)
     THEN Return(c, TRUE)
     ELSE /\ stage' = [stage EXCEPT ![c] = "shown"]
          /\ run' = [run EXCEPT ![c] = StartShown(@)]
  /\ UNCHANGED <<turn, begun, aborted, loop, graces, before, last, write, blocked, status>>

\* MUTANT of MayExecute: what was authorized before the last awaits may run.
MayExecute_Authorized(c) == TRUE
MayExecute(c) == ~Gone(c)

\* The checks right before the executor; a tool that was disabled or a shell that
\* changed meanwhile is refused.
Execute(c) ==
  /\ stage[c] = "shown" /\ MayExecute(c)
  /\ stage' = [stage EXCEPT ![c] = "executes"]
  /\ UNCHANGED <<turn, begun, aborted, loop, graces, before, last, run, write, blocked, status>>

Refuse(c) ==
  /\ stage[c] = "shown"
  /\ Return(c, TRUE)
  /\ UNCHANGED <<turn, begun, aborted, loop, graces, before, last, write, blocked, status>>

\* The executor asks the user.  Nothing but the answer ends this wait.
ToolAsks(c) ==
  /\ stage[c] = "executes" /\ c \in Askers
  /\ stage' = [stage EXCEPT ![c] = "question"]
  /\ Wait(c)
  /\ UNCHANGED <<turn, begun, aborted, loop, graces, before, last, run, write>>

ToolAnswered(c) ==
  /\ stage[c] = "question"
  /\ stage' = [stage EXCEPT ![c] = "executes"]
  /\ Unwait(TurnOf[c])
  /\ UNCHANGED <<turn, begun, aborted, loop, graces, before, last, run, write>>

\* guardMutation: what is checked on entry is checked again once the journal has
\* the old contents.
BeginWrite(c) ==
  /\ stage[c] = "executes" /\ c \in Writers /\ write[c] = "none" /\ ~Gone(c)
  /\ write' = [write EXCEPT ![c] = "journal"]
  /\ UNCHANGED <<turn, begun, aborted, loop, graces, stage, before, last, run, blocked, status>>

\* assertActive.
\* MUTANT of Active: the check on entry is taken to hold after the journal's awaits.
Active_Once(c) == TRUE
Active(c) == ~Gone(c) /\ stage[c] \in {"executes", "question"}

JournalReady(c) ==
  /\ write[c] = "journal"
  /\ write' = [write EXCEPT ![c] = IF Active(c) THEN "written" ELSE "refused"]
  /\ UNCHANGED <<turn, begun, aborted, loop, graces, stage, before, last, run, blocked, status>>

ExecuteEnds(c) ==
  /\ stage[c] = "executes"
  /\ Return(c, FALSE)
  /\ UNCHANGED <<turn, begun, aborted, loop, graces, before, last, write, blocked, status>>

\* tool.call.after and keepLarge are done.
AfterEnds(c) ==
  /\ stage[c] = "after"
  /\ stage' = [stage EXCEPT ![c] = "done"]
  /\ run' = IF run[c].finished THEN run
            ELSE [run EXCEPT ![c].ended = @ + 1, ![c].result = "own"]
  /\ UNCHANGED <<turn, begun, aborted, loop, graces, before, last, write, blocked, status>>

-----------------------------------------------------------------------------
(* Aborts                                                                  *)

\* The turn's signal: it ends the waits for approval, whose calls are rejected.
Waiting == {c \in Batch : stage[c] = "approval"}

Interrupt(waits) ==
  /\ aborted' = [aborted EXCEPT ![turn] = TRUE]
  /\ stage' = [c \in Calls |-> IF c \in waits THEN "after" ELSE stage[c]]
  /\ run' = [c \in Calls |-> IF c \in waits
                             THEN [StartShown(run[c]) EXCEPT !.returned = TRUE] ELSE run[c]]
  /\ blocked' = [blocked EXCEPT ![turn] = @ - Cardinality(waits)]
  /\ UNCHANGED <<turn, begun, loop, graces, before, last, write>>

Abort ==
  /\ turn # NoTurn /\ ~aborted[turn]
  /\ Interrupt(Waiting)
  /\ UNCHANGED status

\* The user dismissed the question: the wait settles, then the turn is interrupted.
Dismiss(c) ==
  /\ stage[c] = "approval" /\ IsCurrent(TurnOf[c])
  /\ Interrupt(Waiting \cup {c})
  /\ status' = IF blocked[turn] = 1 THEN "working" ELSE status

-----------------------------------------------------------------------------
Proceeds(c) ==
  \/ Rejected(c) \/ Ask(c) \/ Allow(c) \/ Approve(c) \/ Deny(c) \/ Execute(c) \/ Refuse(c)
  \/ ToolAnswered(c)
ToolStep(c) == Proceeds(c) \/ Dismiss(c) \/ ToolAsks(c) \/ BeginWrite(c) \/ ExecuteEnds(c)
RunnerStep(c) == KeyFree(c) \/ AfterEnds(c) \/ JournalReady(c)
LoopStep == Start \/ LeaveLoop \/ Settle

Next ==
  \/ BeginTurn \/ EndTurn \/ Abort \/ LoopStep
  \/ \E c \in Calls : ToolStep(c) \/ RunnerStep(c)

Spec == Init /\ [][Next]_vars

\* The runner's own promises, its timer after an abort and the end of the turn.
\* Tools and those who are asked owe nothing.
Fairness ==
  /\ WF_vars(LoopStep) /\ WF_vars(EndTurn)
  /\ \A c \in Calls : WF_vars(RunnerStep(c))
FairSpec == Spec /\ Fairness

-----------------------------------------------------------------------------
(* Properties                                                              *)

TypeOK ==
  /\ turn \in 0..Turns /\ begun \in 0..Turns /\ aborted \in [1..Turns -> BOOLEAN]
  /\ loop \in {"off", "starting", "all", "settled"} /\ graces \in 0..2
  /\ stage \in [Calls -> {"new", "gates", "approval", "key", "shown", "executes", "question",
                          "after", "done"}]
  /\ before \in [Calls -> Calls \cup {NoCall}]
  /\ last \in [{Key[c] : c \in Calls} -> Calls \cup {NoCall}]
  /\ run \in [Calls -> [started : 0..1, ended : 0..1, returned : BOOLEAN, finished : BOOLEAN,
                        result : {"none", "own", "aborted"}, sawLast : BOOLEAN]]
  /\ write \in [Calls -> {"none", "journal", "written", "refused"}]
  /\ blocked \in [1..Turns -> 0..Cardinality(Calls)]
  /\ status \in {"idle", "working", "blocked"}

\* "Every call gets exactly one result, even if a tool throws, misbehaves or
\* ignores abort" (tool-runner.ts), and in the events exactly one start and, after
\* it, one end: whatever ends late, and whichever of its five exits it takes.
EveryCallOnce ==
  /\ TypeOK
  /\ \A c \in Calls :
       /\ run[c].ended = 1 => run[c].started = 1
       /\ run[c].ended = 1 <=> run[c].result # "none"
       /\ (TurnOf[c] <= begun /\ (TurnOf[c] = turn => loop = "settled"))
            => run[c].ended = 1 /\ run[c].finished

\* Executors that must not meet do not: serial calls run alone, equal keys one
\* after the other, and no more calls than maxParallelTools run, as long as the
\* turn is not aborted.
Executing == {c \in Batch : stage[c] \in {"executes", "question"}}
ConflictsWait ==
  (turn # NoTurn /\ ~aborted[turn]) =>
    /\ \A c, d \in Executing : c # d => /\ {c, d} \cap Serial = {}
                                        /\ Key[c] = Key[d] => Key[c] = NoKey
    /\ Cardinality(Running) <= MaxParallel

\* The batch is run as it was asked for: every call once, and none beside a call
\* that it must not meet.
BatchIsSound == EveryCallOnce /\ ConflictsWait

\* "A handler waiting for the last call of the batch must see this one": if the
\* turn is not interrupted, exactly one call of a batch finds no other pending.
LastCallIsSeen ==
  (loop = "settled" /\ ~aborted[turn] /\ Batch # {})
    => Cardinality({c \in Batch : run[c].sawLast}) = 1

\* The session shows as blocked exactly while a call of the current turn waits;
\* waits that an earlier turn abandoned are not counted, whenever they settle.
BlockedWhileWaiting ==
  /\ \A t \in 1..Turns :
       blocked[t] = Cardinality({c \in Calls : TurnOf[c] = t /\ stage[c] \in {"approval", "question"}})
  /\ (turn # NoTurn /\ ~aborted[turn]) => (status = "blocked" <=> blocked[turn] > 0)
  /\ turn = NoTurn => status = "idle"

\* Whoever looks at the batch from outside sees it as it is: the handlers of the
\* last call, and those who watch the session's status.
OutsideViewIsTrue == LastCallIsSeen /\ BlockedWhileWaiting

\* Nothing begins for a turn that was aborted or a call whose result was recorded:
\* no executor, no file write, no event.
NothingLate ==
  [][\A c \in Calls :
       /\ (stage[c] = "shown" /\ stage'[c] = "executes") => ~Gone(c)
       /\ (write[c] # "written" /\ write'[c] = "written") =>
            ~Gone(c) /\ stage[c] \in {"executes", "question"}
       /\ run[c].finished => /\ run'[c].ended = run[c].ended
                              /\ run'[c].started = run[c].started]_vars

\* "After an abort gives tools only abortGraceMs to stop" (tool-runner.ts): the
\* batch waits out one grace.  A serial tool that ignores the abort gets two,
\* because the last wait of the batch begins a new one.
OneGrace == graces <= 1

\* An aborted batch settles although tools and those who are asked ignore the
\* abort; and the turn ends.
AbortSettles == \A t \in 1..Turns : []<>~(turn = t /\ aborted[t])

\* Without an abort, calls never wait for each other for ever: if every call goes
\* on when it can, the batch settles.
BatchSettles ==
  (\A c \in Calls : WF_vars(Proceeds(c)) /\ SF_vars(ExecuteEnds(c)))
    => []<>(loop \in {"off", "settled"})

\* A batch always ends: without an abort because its calls do not wait for each
\* other, with one whatever they do.
BatchEnds == AbortSettles /\ BatchSettles
=============================================================================
