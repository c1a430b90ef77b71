--------------------------- MODULE ToolBatchProofs ---------------------------
(***************************************************************************)
(* Proofs about ToolBatch for any calls, keys, turns and limit.  The       *)
(* argument has four threads: a call's record tells how far it got; the    *)
(* counts of waits are those of the calls that wait; whoever returns last  *)
(* finds nobody pending; and of the calls that took over the same key at   *)
(* most one is at the front, so that two of them never execute.            *)
(***************************************************************************)
EXTENDS ToolBatch, FiniteSetTheorems, WellFoundedInduction, TLAPS

\* The turn, the loop and the waits that it has done.
LoopAgrees ==
  /\ turn # NoTurn => turn = begun
  /\ turn = NoTurn <=> loop = "off"
  /\ loop = "starting" => graces = 0
  /\ loop = "all" => graces <= 1

\* The loop is through with call c.
Over(c) == TurnOf[c] <= begun /\ (TurnOf[c] = turn => loop = "settled")

\* What the record of a call tells about where it is.
RunAgrees == \A c \in Calls :
  /\ TurnOf[c] > begun => stage[c] = "new" /\ run[c] = NewRun /\ before[c] = NoCall
  /\ run[c].finished <=> Over(c)
  /\ run[c].finished => run[c].result # "none"
  /\ run[c].ended = 1 <=> run[c].result # "none"
  /\ run[c].ended = 1 => run[c].started = 1
  /\ run[c].result # "none" => run[c].finished \/ stage[c] = "done"
  /\ stage[c] \in {"shown", "executes", "question", "after", "done"} => run[c].started = 1
  /\ run[c].returned <=> stage[c] \in {"after", "done"}

\* What holds of the batch of a turn that was not aborted.
Undisturbed == turn # NoTurn /\ ~aborted[turn]

\* Serial calls are alone, the others few; the loop waits for all of them.
RoomIsKept ==
  Undisturbed =>
    /\ \A c, d \in Running : c # d => c \notin Serial
    /\ Cardinality(Running) <= MaxParallel
    /\ loop \in {"all", "settled"} => Unstarted = {}
    /\ loop = "settled" => Running = {}

\* Nobody has found the others returned before all have, and then one has.
LastIsOne ==
  Undisturbed =>
    /\ (\E c \in Batch : ~run[c].returned) => \A c \in Batch : ~run[c].sawLast
    /\ (Batch # {} /\ \A c \in Batch : run[c].returned)
         => \E c \in Batch : \A d \in Batch : run[d].sawLast <=> d = c

\* The calls that took over a key: the last one, and those that others wait for.
TookKey(c) == c = last[Key[c]] \/ \E d \in Batch : before[d] = c
IsClosed(S) == \A c \in S : before[c] # NoCall => before[c] \in S
\* The front of the calls of a key: they are not done, and wait for none that is not.
AtFront(c) ==
  /\ stage[c] # "done" /\ TookKey(c)
  /\ before[c] # NoCall => stage[before[c]] = "done"

ChainIsWhole ==
  /\ \A c \in Batch :
       /\ before[c] # NoCall =>
            /\ before[c] \in Batch /\ Key[before[c]] = Key[c] /\ before[c] # last[Key[c]]
            /\ last[Key[c]] # NoCall
       /\ last[Key[c]] # NoCall => last[Key[c]] \in Batch /\ Key[last[Key[c]]] = Key[c]
       /\ \A d \in Batch : (before[c] = before[d] /\ before[c] # NoCall) => c = d
       /\ \A S \in SUBSET Calls :
            (last[Key[c]] \in S /\ IsClosed(S) /\ TookKey(c)) => c \in S

KeysAreTaken ==
  \A c \in Batch :
    /\ stage[c] \in {"new", "gates", "approval"} => ~TookKey(c) /\ before[c] = NoCall
    /\ (stage[c] \in {"key", "shown", "executes", "question"} /\ c \notin Serial /\ Key[c] # NoKey)
         => TookKey(c)
    /\ (stage[c] \notin {"new", "gates", "approval", "key"} /\ before[c] # NoCall)
         => stage[before[c]] = "done"

OneAtFront == \A c, d \in Batch : (AtFront(c) /\ AtFront(d) /\ Key[c] = Key[d]) => c = d

KeysInOrder == Undisturbed => ChainIsWhole /\ KeysAreTaken /\ OneAtFront

IInv ==
  /\ TypeOK /\ LoopAgrees /\ RunAgrees /\ RoomIsKept /\ LastIsOne /\ BlockedWhileWaiting
  /\ KeysInOrder






















-----------------------------------------------------------------------------
(* What a call's step does, whichever it is                                *)

Stages == {"new", "gates", "approval", "key", "shown", "executes", "question", "after", "done"}
Records == [started : 0..1, ended : 0..1, returned : BOOLEAN, finished : BOOLEAN,
            result : {"none", "own", "aborted"}, sawLast : BOOLEAN]
Waits == {"approval", "question"}

Path == {<<"gates", "after">>, <<"gates", "approval">>, <<"gates", "key">>,
         <<"approval", "key">>, <<"approval", "after">>,
         <<"key", "after">>, <<"key", "shown">>,
         <<"shown", "executes">>, <<"shown", "after">>,
         <<"executes", "question">>, <<"executes", "after">>, <<"question", "executes">>,
         <<"after", "done">>}

Moves(c) ==
  \/ Rejected(c) \/ Ask(c) \/ Allow(c) \/ Approve(c) \/ Deny(c) \/ KeyFree(c)
  \/ Execute(c) \/ Refuse(c) \/ ToolAsks(c) \/ ToolAnswered(c) \/ ExecuteEnds(c) \/ AfterEnds(c)

Interrupted == Abort \/ \E c \in Calls : Dismiss(c)
BatchMoves == BeginTurn \/ EndTurn \/ Start \/ LeaveLoop \/ Settle \/ Interrupted

\* The record of call c, which is at stage s, when it goes on to stage t.
Record(c, s, t) ==
  CASE t = "after" -> Finished(c, s # "executes")
    [] t = "shown" -> StartShown(run[c])
    [] t = "done" -> IF run[c].finished THEN run[c]
                     ELSE [run[c] EXCEPT !.ended = @ + 1, !.result = "own"]
    [] OTHER -> run[c]

LEMMA Constants ==
  /\ Calls \subseteq Nat \ {0} /\ IsFiniteSet(Calls) /\ NoCall \notin Calls
  /\ Turns \in Nat \ {0} /\ NoTurn \notin 1..Turns
  /\ \A c \in Calls : TurnOf[c] \in 1..Turns /\ TurnOf[c] # NoTurn
  /\ MaxParallel \in Nat \ {0}
  BY BatchAssumption DEF NoCall, NoTurn

LEMMA StepsSplit ==
  Next <=> BatchMoves \/ \E c \in Calls : Moves(c) \/ BeginWrite(c) \/ JournalReady(c)
  BY DEF Next, LoopStep, ToolStep, RunnerStep, Proceeds, Moves, BatchMoves, Interrupted

LEMMA LeastIsIn ==
  ASSUME NEW S \in SUBSET Nat, S # {}
  PROVE  Min(S) \in S
  <1> DEFINE R == {ss \in Nat \X Nat : ss[1] < ss[2]}
  <1>1. IsWellFoundedOn(R, Nat)
    BY NatLessThanWellFounded DEF OpToRel
  <1>2. PICK x \in S : \A y \in S : ~(<<y, x>> \in R)
    BY <1>1, WFMin
  <1>3. ASSUME NEW y \in S PROVE x =< y
    <2>1. x \in Nat /\ y \in Nat OBVIOUS
    <2>2. ~(y < x) BY <1>2, <2>1
    <2> QED BY <2>1, <2>2
  <1> QED BY <1>3 DEF Min

LEMMA MoveFacts ==
  ASSUME TypeOK, NEW c \in Calls, Moves(c)
  PROVE  /\ UNCHANGED <<turn, begun, aborted, loop, graces, write>>
         /\ <<stage[c], stage'[c]>> \in Path
         /\ stage' = [stage EXCEPT ![c] = stage'[c]]
         /\ run' = [run EXCEPT ![c] = Record(c, stage[c], stage'[c])]
  <1> USE DEF TypeOK, Path, Record, Return, Finished
  <1>1. CASE Rejected(c) BY <1>1 DEF Rejected
  <1>2. CASE Ask(c) BY <1>2 DEF Ask
  <1>3. CASE Allow(c) BY <1>3 DEF Allow
  <1>4. CASE Approve(c) BY <1>4 DEF Approve
  <1>5. CASE Deny(c) BY <1>5 DEF Deny
  <1>6. CASE KeyFree(c) BY <1>6 DEF KeyFree
  <1>7. CASE Execute(c) BY <1>7 DEF Execute
  <1>8. CASE Refuse(c) BY <1>8 DEF Refuse
  <1>9. CASE ToolAsks(c) BY <1>9 DEF ToolAsks
  <1>10. CASE ToolAnswered(c) BY <1>10 DEF ToolAnswered
  <1>11. CASE ExecuteEnds(c) BY <1>11 DEF ExecuteEnds
  <1>12. CASE AfterEnds(c)
    <2>1. CASE run[c].finished
      <3>1. run' = run /\ stage'[c] = "done" BY <1>12, <2>1 DEF AfterEnds
      <3>2. run = [run EXCEPT ![c] = run[c]] OBVIOUS
      <3>3. Record(c, stage[c], "done") = run[c] BY <2>1
      <3> QED BY <1>12, <3>1, <3>2, <3>3 DEF AfterEnds
    <2>2. CASE ~run[c].finished
      <3>1. run' = [run EXCEPT ![c] = [run[c] EXCEPT !.ended = @ + 1, !.result = "own"]]
        BY <1>12, <2>2 DEF AfterEnds
      <3>2. stage'[c] = "done" /\ stage[c] = "after" BY <1>12 DEF AfterEnds
      <3>3. Record(c, stage[c], "done") = [run[c] EXCEPT !.ended = @ + 1, !.result = "own"]
        BY <2>2
      <3>4. /\ UNCHANGED <<turn, begun, aborted, loop, graces, write>>
            /\ stage' = [stage EXCEPT ![c] = "done"]
        BY <1>12 DEF AfterEnds
      <3> HIDE DEF Record
      <3> QED BY <3>1, <3>2, <3>3, <3>4
    <2> QED BY <2>1, <2>2
  <1> QED BY <1>1, <1>2, <1>3, <1>4, <1>5, <1>6, <1>7, <1>8, <1>9, <1>10, <1>11, <1>12 DEF Moves

\* What a step does beside the stage and the record of its call.
LEMMA MoveEffects ==
  ASSUME TypeOK, NEW c \in Calls, Moves(c)
  PROVE  /\ stage[c] \notin Waits /\ stage'[c] \in Waits => Wait(c)
         /\ stage[c] \in Waits => Unwait(TurnOf[c])
         /\ stage[c] \notin Waits /\ stage'[c] \notin Waits => UNCHANGED <<blocked, status>>
         /\ stage'[c] = "key" => TakeKey(c)
         /\ stage'[c] # "key" => UNCHANGED <<last, before>>
         /\ stage'[c] = "shown" =>
              /\ before[c] \in {d \in Calls : stage[d] # "done"} => aborted[TurnOf[c]]
              /\ ~Gone(c)
         /\ stage[c] = "key" /\ stage'[c] = "after" => Gone(c)
         /\ stage[c] = "gates" /\ stage'[c] \in {"approval", "key"} => ~aborted[TurnOf[c]]
         /\ stage'[c] = "executes" /\ stage[c] = "shown" => ~Gone(c)
  <1> USE DEF TypeOK, Waits, Return
  <1>1. CASE Rejected(c) BY <1>1 DEF Rejected
  <1>2. CASE Ask(c) BY <1>2 DEF Ask
  <1>3. CASE Allow(c) BY <1>3 DEF Allow
  <1>4. CASE Approve(c) BY <1>4 DEF Approve
  <1>5. CASE Deny(c) BY <1>5 DEF Deny
  <1>6. CASE KeyFree(c) BY <1>6 DEF KeyFree
  <1>7. CASE Execute(c) BY <1>7 DEF Execute, MayExecute
  <1>8. CASE Refuse(c) BY <1>8 DEF Refuse
  <1>9. CASE ToolAsks(c) BY <1>9 DEF ToolAsks
  <1>10. CASE ToolAnswered(c) BY <1>10 DEF ToolAnswered
  <1>11. CASE ExecuteEnds(c) BY <1>11 DEF ExecuteEnds
  <1>12. CASE AfterEnds(c) BY <1>12 DEF AfterEnds
  <1> QED BY <1>1, <1>2, <1>3, <1>4, <1>5, <1>6, <1>7, <1>8, <1>9, <1>10, <1>11, <1>12 DEF Moves

-----------------------------------------------------------------------------
(* What the records tell                                                   *)

\* The conjuncts of TypeOK that the loop and the records are about.
LoopTyped ==
  /\ turn \in 0..Turns /\ begun \in 0..Turns /\ aborted \in [1..Turns -> BOOLEAN]
  /\ loop \in {"off", "starting", "all", "settled"} /\ graces \in 0..2
  /\ stage \in [Calls -> Stages] /\ run \in [Calls -> Records]
  /\ write \in [Calls -> {"none", "journal", "written", "refused"}]

LEMMA StartShownFacts ==
  ASSUME NEW r \in Records
  PROVE  /\ StartShown(r) \in Records /\ StartShown(r).started = 1
         /\ StartShown(r) = [r EXCEPT !.started = 1]
  BY DEF StartShown, Records

LEMMA OwnEndFacts ==
  ASSUME NEW r \in Records
  PROVE  LET p == [r EXCEPT !.ended = 1, !.result = "own"]
         IN  /\ p \in Records /\ p.finished = r.finished
             /\ p.returned = r.returned /\ p.sawLast = r.sawLast
             /\ p.started = r.started /\ p.result = "own" /\ p.ended = 1
  <1> DEFINE q == [r EXCEPT !.ended = 1]
             p == [q EXCEPT !.result = "own"]
  <1>1. /\ q \in Records /\ q.finished = r.finished /\ q.returned = r.returned
        /\ q.sawLast = r.sawLast /\ q.started = r.started /\ q.ended = 1
    BY DEF Records
  <1>2. p = [r EXCEPT !.ended = 1, !.result = "own"] OBVIOUS
  <1> HIDE DEF q
  <1>3. /\ p \in Records /\ p.finished = q.finished /\ p.returned = q.returned
        /\ p.sawLast = q.sawLast /\ p.started = q.started /\ p.ended = q.ended /\ p.result = "own"
    BY <1>1 DEF Records
  <1> QED BY <1>1, <1>2, <1>3

LEMMA AbortedEndFacts ==
  ASSUME NEW r \in Records
  PROVE  LET p == [r EXCEPT !.ended = 1, !.result = "aborted"]
         IN  /\ p \in Records /\ p.finished = r.finished
             /\ p.returned = r.returned /\ p.sawLast = r.sawLast
             /\ p.started = r.started /\ p.result = "aborted" /\ p.ended = 1
  <1> DEFINE q == [r EXCEPT !.ended = 1]
             p == [q EXCEPT !.result = "aborted"]
  <1>1. /\ q \in Records /\ q.finished = r.finished /\ q.returned = r.returned
        /\ q.sawLast = r.sawLast /\ q.started = r.started /\ q.ended = 1
    BY DEF Records
  <1>2. p = [r EXCEPT !.ended = 1, !.result = "aborted"] OBVIOUS
  <1> HIDE DEF q
  <1>3. /\ p \in Records /\ p.finished = q.finished /\ p.returned = q.returned
        /\ p.sawLast = q.sawLast /\ p.started = q.started /\ p.ended = q.ended /\ p.result = "aborted"
    BY <1>1 DEF Records
  <1> QED BY <1>1, <1>2, <1>3

LEMMA RecordFacts ==
  ASSUME TypeOK, RunAgrees, NEW c \in Calls, Moves(c)
  PROVE  /\ run'[c] \in Records /\ run'[c].finished = run[c].finished
         /\ stage'[c] = "after" =>
              /\ run'[c].returned /\ run'[c].started = 1
              /\ run'[c].ended = run[c].ended /\ run'[c].result = run[c].result
              /\ run'[c].sawLast <=> ~Gone(c) /\ Pending(c) = {}
         /\ stage'[c] = "shown" => run'[c] = [run[c] EXCEPT !.started = 1]
         /\ stage'[c] = "done" =>
              /\ run'[c].returned = run[c].returned /\ run'[c].sawLast = run[c].sawLast
              /\ run'[c].started = run[c].started
              /\ run[c].finished => run'[c] = run[c]
              /\ ~run[c].finished => /\ run'[c].result = "own"
                                     /\ run[c].ended = 0 /\ run'[c].ended = 1
         /\ stage'[c] \notin {"after", "shown", "done"} => run'[c] = run[c]
  <1>1. run[c] \in Records /\ stage[c] \in Stages
    BY DEF TypeOK, Records, Stages
  <1>2. run'[c] = Record(c, stage[c], stage'[c]) /\ <<stage[c], stage'[c]>> \in Path
    BY MoveFacts DEF TypeOK
  <1>3. CASE stage'[c] = "after"
    <2> DEFINE r == [run[c] EXCEPT !.returned = TRUE, !.sawLast = ~Gone(c) /\ Pending(c) = {}]
               b == ~Gone(c) /\ Pending(c) = {}
    <2>1. b \in BOOLEAN OBVIOUS
    <2>2. r = [run[c] EXCEPT !.returned = TRUE, !.sawLast = b] OBVIOUS
    <2> HIDE DEF b
    <2>3. /\ r \in Records /\ r.returned /\ r.sawLast = b /\ r.started = run[c].started
          /\ r.ended = run[c].ended /\ r.result = run[c].result /\ r.finished = run[c].finished
      BY <1>1, <2>1, <2>2 DEF Records
    <2>4. run'[c] = IF stage[c] # "executes" THEN StartShown(r) ELSE r
      BY <1>2, <1>3 DEF Record, Finished
    <2> HIDE DEF r
    <2>5. StartShown(r) \in Records /\ StartShown(r) = [r EXCEPT !.started = 1]
      BY <2>3, StartShownFacts
    <2>6. stage[c] = "executes" => run[c].started = 1
      BY DEF RunAgrees
    <2>7. /\ run'[c] \in Records /\ run'[c].returned /\ run'[c].sawLast = b /\ run'[c].started = 1
          /\ run'[c].ended = run[c].ended /\ run'[c].result = run[c].result
          /\ run'[c].finished = run[c].finished
      <3>1. CASE stage[c] = "executes" BY <2>3, <2>4, <2>6, <3>1
      <3>2. CASE stage[c] # "executes"
        <4>1. run'[c] = [r EXCEPT !.started = 1] BY <2>4, <2>5, <3>2
        <4> QED BY <4>1, <2>3 DEF Records
      <3> QED BY <3>1, <3>2
    <2> QED BY <1>3, <2>7 DEF b
  <1>4. CASE stage'[c] = "shown"
    <2>1. run'[c] = [run[c] EXCEPT !.started = 1]
      BY <1>1, <1>2, <1>4, StartShownFacts DEF Record
    <2> QED BY <1>1, <1>4, <2>1 DEF Records
  <1>5. CASE stage'[c] = "done"
    <2>1. CASE run[c].finished
      <3>1. run'[c] = run[c] BY <1>2, <1>5, <2>1 DEF Record
      <3> QED BY <1>1, <1>5, <2>1, <3>1
    <2>2. CASE ~run[c].finished
      <3>1. run'[c] = [run[c] EXCEPT !.ended = @ + 1, !.result = "own"]
        BY <1>2, <1>5, <2>2 DEF Record
      <3>2. run[c].ended = 0
        <4>1. stage[c] = "after" BY <1>2, <1>5 DEF Path
        <4>2. run[c].ended # 1 BY <4>1, <2>2 DEF RunAgrees
        <4> QED BY <4>2, <1>1 DEF Records
      <3>3. run'[c] = [run[c] EXCEPT !.ended = 1, !.result = "own"]
        BY <3>1, <3>2
      <3>4. /\ run'[c] \in Records /\ run'[c].finished = run[c].finished
            /\ run'[c].returned = run[c].returned /\ run'[c].sawLast = run[c].sawLast
            /\ run'[c].started = run[c].started /\ run'[c].result = "own" /\ run'[c].ended = 1
        <4> DEFINE p == [run[c] EXCEPT !.ended = 1, !.result = "own"]
        <4>1. /\ p \in Records /\ p.finished = run[c].finished
              /\ p.returned = run[c].returned /\ p.sawLast = run[c].sawLast
              /\ p.started = run[c].started /\ p.result = "own" /\ p.ended = 1
          <5> QED BY <1>1, OwnEndFacts
        <4>2. run'[c] = p BY <3>3
        <4> HIDE DEF p
        <4> QED BY <4>1, <4>2
      <3> QED BY <1>5, <2>2, <3>2, <3>4
    <2> QED BY <2>1, <2>2
  <1>6. CASE stage'[c] \notin {"after", "shown", "done"}
    BY <1>1, <1>2, <1>6 DEF Record
  <1> QED BY <1>3, <1>4, <1>5, <1>6

LEMMA MovesKeepRuns ==
  ASSUME TypeOK, LoopAgrees, RunAgrees, NEW c \in Calls, Moves(c)
  PROVE  LoopTyped' /\ LoopAgrees' /\ RunAgrees'
  <1>1. /\ UNCHANGED <<turn, begun, aborted, loop, graces, write>>
        /\ <<stage[c], stage'[c]>> \in Path
        /\ stage' = [stage EXCEPT ![c] = stage'[c]]
        /\ run' = [run EXCEPT ![c] = run'[c]]
    <2> DEFINE r == Record(c, stage[c], stage'[c])
    <2>1. run' = [run EXCEPT ![c] = r] BY MoveFacts
    <2> HIDE DEF r
    <2>2. run' = [run EXCEPT ![c] = run'[c]] BY <2>1 DEF TypeOK
    <2> QED BY <2>2, MoveFacts
  <1>2. stage'[c] \in Stages /\ run'[c] \in Records /\ stage[c] # "new"
    BY <1>1, RecordFacts DEF Path, Stages
  <1>3. LoopTyped' /\ LoopAgrees'
    <2>1. /\ stage \in [Calls -> Stages] /\ run \in [Calls -> Records]
      BY DEF TypeOK, Stages, Records
    <2>2. stage' \in [Calls -> Stages] /\ run' \in [Calls -> Records]
      BY <1>1, <1>2, <2>1
    <2> QED BY <1>1, <2>2 DEF TypeOK, LoopTyped, LoopAgrees
  <1>4. \A d \in Calls : Over(d)' <=> Over(d)
    BY <1>1 DEF Over
  <1>5. ASSUME NEW d \in Calls, d # c
        PROVE  /\ stage'[d] = stage[d] /\ run'[d] = run[d]
               /\ stage[d] = "new" /\ before[d] = NoCall => before'[d] = NoCall
    <2>1. UNCHANGED before \/ before'= [before EXCEPT ![c] = last[Key[c]]]
      BY MoveEffects DEF TakeKey
    <2> QED BY <1>1, <1>5, <2>1 DEF TypeOK
  <1>6. RunAgrees'
    <2> SUFFICES ASSUME NEW d \in Calls
        PROVE  /\ TurnOf[d] > begun' => stage'[d] = "new" /\ run'[d] = NewRun /\ before'[d] = NoCall
               /\ run'[d].finished <=> Over(d)'
               /\ run'[d].finished => run'[d].result # "none"
               /\ run'[d].ended = 1 <=> run'[d].result # "none"
               /\ run'[d].ended = 1 => run'[d].started = 1
               /\ run'[d].result # "none" => run'[d].finished \/ stage'[d] = "done"
               /\ stage'[d] \in {"shown", "executes", "question", "after", "done"} => run'[d].started = 1
               /\ run'[d].returned <=> stage'[d] \in {"after", "done"}
      BY DEF RunAgrees
    <2>1. CASE d # c BY <1>1, <1>4, <1>5, <2>1 DEF RunAgrees
    <2>2. CASE d = c
      <3>1. /\ ~(TurnOf[c] > begun') /\ run'[c].finished = run[c].finished
            /\ run[c] \in Records /\ stage[c] \in Stages /\ run'[c] \in Records
        BY <1>1, <1>2, RecordFacts DEF RunAgrees, TypeOK, Records, Stages
      <3>2. CASE stage'[c] = "after"
        <4>1. stage[c] # "done" BY <1>1 DEF Path
        <4>2. /\ run'[c].returned /\ run'[c].started = 1
              /\ run'[c].ended = run[c].ended /\ run'[c].result = run[c].result
          BY <3>2, RecordFacts
        <4> QED BY <3>1, <3>2, <2>2, <1>1, <1>4, <4>1, <4>2 DEF RunAgrees
      <3>3. CASE stage'[c] = "shown"
        <4>1. run'[c] = [run[c] EXCEPT !.started = 1] /\ stage[c] = "key"
          BY <3>3, RecordFacts, <1>1 DEF Path
        <4>2. /\ run'[c].ended = run[c].ended /\ run'[c].result = run[c].result
              /\ run'[c].returned = run[c].returned /\ run'[c].started = 1
          BY <4>1, <3>1 DEF Records
        <4> QED BY <4>1, <4>2, <3>1, <3>3, <2>2, <1>4 DEF RunAgrees
      <3>4. CASE stage'[c] = "done"
        <4>1. stage[c] = "after" BY <1>1, <3>4 DEF Path
        <4>2. CASE run[c].finished
          <5>1. run'[c] = run[c] BY <3>4, <4>2, RecordFacts
          <5> QED BY <3>4, <2>2, <1>1, <1>4, <4>1, <5>1 DEF RunAgrees
        <4>3. CASE ~run[c].finished
          <5>1. /\ run'[c].returned = run[c].returned /\ run'[c].started = run[c].started
                /\ run'[c].result = "own" /\ run'[c].ended = 1
            BY <3>4, <4>3, RecordFacts
          <5> QED BY <3>1, <3>4, <2>2, <1>1, <1>4, <4>1, <4>3, <5>1 DEF RunAgrees
        <4> QED BY <4>2, <4>3
      <3>5. CASE stage'[c] \notin {"after", "shown", "done"}
        <4>1. run'[c] = run[c] BY <3>5, RecordFacts
        <4> QED BY <4>1, <3>1, <3>5, <2>2, <1>1, <1>4 DEF RunAgrees, Path
      <3> QED BY <3>2, <3>3, <3>4, <3>5
    <2> QED BY <2>1, <2>2
  <1> QED BY <1>3, <1>6

LEMMA InterruptFacts ==
  ASSUME TypeOK, Interrupted
  PROVE  Interrupt(Waiting) /\ Undisturbed
  <1>1. CASE Abort BY <1>1 DEF Abort, Undisturbed
  <1>2. CASE \E c \in Calls : Dismiss(c)
    <2> PICK c \in Calls : Dismiss(c) BY <1>2
    <2>1. c \in Waiting /\ turn # NoTurn
      BY Constants DEF Dismiss, IsCurrent, Waiting, Batch
    <2>2. Waiting \cup {c} = Waiting BY <2>1
    <2> QED BY <2>1, <2>2 DEF Dismiss, IsCurrent, Undisturbed
  <1> QED BY <1>1, <1>2 DEF Interrupted

LEMMA InterruptedFacts ==
  ASSUME TypeOK, Interrupt(Waiting), Undisturbed
  PROVE  /\ UNCHANGED <<turn, begun, loop, graces, before, last, write>>
         /\ aborted' \in [1..Turns -> BOOLEAN] /\ aborted'[turn]
         /\ stage' \in [Calls -> Stages] /\ run' \in [Calls -> Records]
         /\ \A c \in Calls : IF stage[c] = "approval" /\ TurnOf[c] = turn
              THEN /\ stage'[c] = "after" /\ run'[c].returned /\ run'[c].started = 1
                   /\ run'[c].ended = run[c].ended /\ run'[c].result = run[c].result
                   /\ run'[c].finished = run[c].finished
              ELSE stage'[c] = stage[c] /\ run'[c] = run[c]
  <1>1. /\ UNCHANGED <<turn, begun, loop, graces, before, last, write>>
        /\ aborted' = [aborted EXCEPT ![turn] = TRUE]
        /\ stage' = [c \in Calls |-> IF c \in Waiting THEN "after" ELSE stage[c]]
        /\ run' = [c \in Calls |-> IF c \in Waiting
                             THEN [StartShown(run[c]) EXCEPT !.returned = TRUE] ELSE run[c]]
    BY DEF Interrupt
  <1>2. turn \in 1..Turns
    BY Constants DEF TypeOK, Undisturbed, NoTurn
  <1>3. aborted' \in [1..Turns -> BOOLEAN] /\ aborted'[turn]
    BY <1>1, <1>2 DEF TypeOK
  <1>4. \A c \in Calls : c \in Waiting <=> stage[c] = "approval" /\ TurnOf[c] = turn
    BY DEF Waiting, Batch
  <1>5. ASSUME NEW c \in Calls
        PROVE  LET r == [StartShown(run[c]) EXCEPT !.returned = TRUE]
               IN  /\ r \in Records /\ r.returned /\ r.started = 1 /\ r.ended = run[c].ended
                   /\ r.result = run[c].result /\ r.finished = run[c].finished
    <2>1. run[c] \in Records BY DEF TypeOK, Records
    <2> DEFINE q == StartShown(run[c])
    <2>2. /\ q \in Records /\ q.started = 1 /\ q.ended = run[c].ended
          /\ q.result = run[c].result /\ q.finished = run[c].finished
      <3>1. q = [run[c] EXCEPT !.started = 1] BY <2>1, StartShownFacts
      <3>2. q \in Records BY <2>1, StartShownFacts
      <3> HIDE DEF q
      <3> QED BY <2>1, <3>1, <3>2 DEF Records
    <2> HIDE DEF q
    <2> QED BY <2>2 DEF q, Records
  <1>6. \A c \in Calls : stage[c] \in Stages /\ run[c] \in Records
    BY DEF TypeOK, Stages, Records
  <1>7. stage' \in [Calls -> Stages] /\ run' \in [Calls -> Records]
    BY <1>1, <1>5, <1>6 DEF Stages
  <1> QED BY <1>1, <1>3, <1>4, <1>5, <1>7

LEMMA RecordedFacts ==
  ASSUME NEW r \in Records, r.ended = 1 <=> r.result # "none", r.ended = 1 => r.started = 1
  PROVE  /\ Recorded(r) \in Records /\ Recorded(r).finished /\ Recorded(r).result # "none"
         /\ Recorded(r).ended = 1 /\ Recorded(r).started = 1
         /\ Recorded(r).returned = r.returned /\ Recorded(r).sawLast = r.sawLast
  <1>1. CASE r.result # "none"
    BY <1>1 DEF Recorded, Records
  <1>2. CASE r.result = "none"
    <2>1. r.ended = 0 BY <1>2 DEF Records
    <2> DEFINE q == StartShown(r)
               p == [q EXCEPT !.ended = 1, !.result = "aborted"]
    <2>2. /\ q \in Records /\ q.started = 1 /\ q.ended = 0
          /\ q.returned = r.returned /\ q.sawLast = r.sawLast
      <3>1. q = [r EXCEPT !.started = 1] /\ q \in Records BY StartShownFacts
      <3> HIDE DEF q
      <3> QED BY <2>1, <3>1 DEF Records
    <2>3. Recorded(r) = [q EXCEPT !.ended = @ + 1, !.result = "aborted", !.finished = TRUE]
      BY <1>2 DEF Recorded
    <2> HIDE DEF q
    <2>4. /\ p \in Records /\ p.finished = q.finished
          /\ p.returned = q.returned /\ p.sawLast = q.sawLast
          /\ p.started = q.started /\ p.result = "aborted" /\ p.ended = 1
      <3>1. q \in Records BY <2>2
      <3> QED BY <3>1, AbortedEndFacts
    <2>5. Recorded(r) = [p EXCEPT !.finished = TRUE]
      BY <2>2, <2>3
    <2> HIDE DEF p
    <2> QED BY <2>2, <2>4, <2>5 DEF Records
  <1> QED BY <1>1, <1>2

LEMMA SettledFacts ==
  ASSUME TypeOK, RunAgrees, Settle
  PROVE  /\ run' \in [Calls -> Records]
         /\ \A c \in Calls : TurnOf[c] # turn => run'[c] = run[c]
         /\ \A c \in Calls : TurnOf[c] = turn =>
              /\ run'[c].finished /\ run'[c].result # "none"
              /\ run'[c].ended = 1 /\ run'[c].started = 1
              /\ run'[c].returned = run[c].returned /\ run'[c].sawLast = run[c].sawLast
  <1>1. run' = [c \in Calls |-> IF c \in Batch THEN Recorded(run[c]) ELSE run[c]]
    BY DEF Settle, Settled
  <1>2. \A c \in Calls : c \in Batch <=> TurnOf[c] = turn
    BY DEF Batch
  <1>3. ASSUME NEW c \in Calls
        PROVE  /\ run[c] \in Records /\ Recorded(run[c]) \in Records
               /\ Recorded(run[c]).finished /\ Recorded(run[c]).result # "none"
               /\ Recorded(run[c]).ended = 1 /\ Recorded(run[c]).started = 1
               /\ Recorded(run[c]).returned = run[c].returned
               /\ Recorded(run[c]).sawLast = run[c].sawLast
    <2>1. /\ run[c] \in Records
          /\ run[c].ended = 1 <=> run[c].result # "none"
          /\ run[c].ended = 1 => run[c].started = 1
      BY DEF RunAgrees, TypeOK, Records
    <2> DEFINE r == run[c]
    <2>2. r \in Records /\ (r.ended = 1 <=> r.result # "none") /\ (r.ended = 1 => r.started = 1)
      BY <2>1
    <2> HIDE DEF r
    <2>3. /\ r \in Records /\ Recorded(r) \in Records
          /\ Recorded(r).finished /\ Recorded(r).result # "none"
          /\ Recorded(r).ended = 1 /\ Recorded(r).started = 1
          /\ Recorded(r).returned = r.returned /\ Recorded(r).sawLast = r.sawLast
      BY <2>2, RecordedFacts
    <2> QED BY <2>3 DEF r
  <1> QED BY <1>1, <1>2, <1>3

LEMMA LoopKeepsRuns ==
  ASSUME TypeOK, LoopAgrees, RunAgrees, BatchMoves
  PROVE  LoopTyped' /\ LoopAgrees' /\ RunAgrees'
  <1> USE Constants DEF LoopTyped, LoopAgrees
  <1>1. stage \in [Calls -> Stages] /\ run \in [Calls -> Records] /\ begun \in Nat /\ turn \in Nat
    BY DEF TypeOK, Stages, Records
  <1>2. CASE BeginTurn
    <2>1. LoopTyped' /\ LoopAgrees'
      BY <1>1, <1>2 DEF BeginTurn, TypeOK, NoTurn
    <2>2. \A d \in Calls : Over(d)' <=> Over(d)
      BY <1>1, <1>2 DEF BeginTurn, Over, TypeOK, NoTurn
    <2> QED BY <1>1, <1>2, <2>1, <2>2 DEF BeginTurn, RunAgrees
  <1>3. CASE EndTurn
    <2>1. LoopTyped' /\ LoopAgrees'
      BY <1>1, <1>3 DEF EndTurn, TypeOK, NoTurn
    <2>2. \A d \in Calls : Over(d)' <=> Over(d)
      BY <1>1, <1>3 DEF EndTurn, Over, TypeOK, NoTurn
    <2> QED BY <1>1, <1>3, <2>1, <2>2 DEF EndTurn, RunAgrees
  <1>4. CASE Start
    <2> DEFINE m == Min(Unstarted)
    <2>1. m \in Unstarted
      BY <1>4, LeastIsIn DEF Start, Unstarted, Batch
    <2>2. stage' = [stage EXCEPT ![m] = "gates"]
      BY <1>4 DEF Start
    <2> HIDE DEF m
    <2>3. m \in Calls /\ stage[m] = "new" /\ TurnOf[m] = turn /\ turn = begun
      BY <2>1 DEF Unstarted, Batch
    <2>4. LoopTyped' /\ LoopAgrees'
      BY <1>1, <1>4, <2>2 DEF Start, TypeOK, Stages
    <2>5. \A d \in Calls : Over(d)' <=> Over(d)
      BY <1>4 DEF Start, Over
    <2> QED BY <1>1, <1>4, <2>2, <2>3, <2>4, <2>5 DEF Start, RunAgrees
  <1>5. CASE LeaveLoop
    <2>1. graces' \in 0..2 /\ graces' <= 1
      BY <1>5 DEF LeaveLoop, Done, Abandon, TypeOK
    <2>2. LoopTyped' /\ LoopAgrees'
      BY <1>1, <1>5, <2>1 DEF LeaveLoop, TypeOK
    <2>3. \A d \in Calls : Over(d)' <=> Over(d)
      BY <1>5 DEF LeaveLoop, Over
    <2> QED BY <1>1, <1>5, <2>2, <2>3 DEF LeaveLoop, RunAgrees
  <1>6. CASE Settle
    <2>1. graces' \in 0..2
      BY <1>6 DEF Settle, Done, Abandon, TypeOK
    <2>2. LoopTyped' /\ LoopAgrees'
      BY <1>1, <1>6, <2>1, SettledFacts DEF Settle, TypeOK
    <2>3. \A d \in Calls : Over(d)' <=> Over(d) \/ TurnOf[d] = turn
      BY <1>6, <1>1 DEF Settle, Over
    <2> QED BY <1>1, <1>6, <2>2, <2>3, SettledFacts DEF Settle, RunAgrees
  <1>7. CASE Interrupted
    <2>1. /\ UNCHANGED <<turn, begun, loop, graces, before, write>>
          /\ aborted' \in [1..Turns -> BOOLEAN]
          /\ stage' \in [Calls -> Stages] /\ run' \in [Calls -> Records]
      BY <1>7, InterruptFacts, InterruptedFacts
    <2>2. LoopTyped' /\ LoopAgrees'
      BY <2>1 DEF TypeOK
    <2>3. \A d \in Calls : Over(d)' <=> Over(d)
      BY <2>1 DEF Over
    <2>4. RunAgrees'
      <3> SUFFICES ASSUME NEW d \in Calls
          PROVE  /\ TurnOf[d] > begun' => stage'[d] = "new" /\ run'[d] = NewRun /\ before'[d] = NoCall
                 /\ run'[d].finished <=> Over(d)'
                 /\ run'[d].finished => run'[d].result # "none"
                 /\ run'[d].ended = 1 <=> run'[d].result # "none"
                 /\ run'[d].ended = 1 => run'[d].started = 1
                 /\ run'[d].result # "none" => run'[d].finished \/ stage'[d] = "done"
                 /\ stage'[d] \in {"shown", "executes", "question", "after", "done"} => run'[d].started = 1
                 /\ run'[d].returned <=> stage'[d] \in {"after", "done"}
        BY DEF RunAgrees
      <3>1. CASE stage[d] = "approval" /\ TurnOf[d] = turn
        <4>1. /\ stage'[d] = "after" /\ run'[d].returned /\ run'[d].started = 1
              /\ run'[d].ended = run[d].ended /\ run'[d].result = run[d].result
              /\ run'[d].finished = run[d].finished
          BY <3>1, <1>7, InterruptFacts, InterruptedFacts
        <4> QED BY <3>1, <4>1, <2>1, <2>3 DEF RunAgrees
      <3>2. CASE ~(stage[d] = "approval" /\ TurnOf[d] = turn)
        <4>1. stage'[d] = stage[d] /\ run'[d] = run[d]
          BY <3>2, <1>7, InterruptFacts, InterruptedFacts
        <4> QED BY <4>1, <2>1, <2>3 DEF RunAgrees
      <3> QED BY <3>1, <3>2
    <2> QED BY <2>2, <2>4
  <1> QED BY <1>2, <1>3, <1>4, <1>5, <1>6, <1>7 DEF BatchMoves

-----------------------------------------------------------------------------
(* The counts of waits                                                     *)

\* The calls of turn t that wait, when the calls are at s.
Waiters(s, t) == {c \in Calls : TurnOf[c] = t /\ s[c] \in {"approval", "question"}}

WaitTyped ==
  blocked \in [1..Turns -> 0..Cardinality(Calls)] /\ status \in {"idle", "working", "blocked"}

LEMMA WaitersFacts ==
  ASSUME NEW s, NEW t
  PROVE  /\ IsFiniteSet(Waiters(s, t)) /\ Cardinality(Waiters(s, t)) \in 0..Cardinality(Calls)
         /\ (\A c \in Calls : TurnOf[c] = t => s[c] \notin {"approval", "question"})
              => Cardinality(Waiters(s, t)) = 0
  <1>1. Waiters(s, t) \subseteq Calls /\ IsFiniteSet(Calls)
    BY Constants DEF Waiters
  <1>2. /\ IsFiniteSet(Waiters(s, t)) /\ Cardinality(Waiters(s, t)) <= Cardinality(Calls)
        /\ Cardinality(Waiters(s, t)) \in Nat /\ Cardinality(Calls) \in Nat
    BY <1>1, FS_Subset, FS_CardinalityType
  <1>3. (\A c \in Calls : TurnOf[c] = t => s[c] \notin {"approval", "question"})
          => Waiters(s, t) = {}
    BY DEF Waiters
  <1> QED BY <1>2, <1>3, FS_EmptySet

\* blocked' is what it should be when it is the number of those who wait.
LEMMA CountsAreTyped ==
  ASSUME NEW b, NEW s, b \in [1..Turns -> Nat],
         \A t \in 1..Turns : b[t] = Cardinality(Waiters(s, t))
  PROVE  b \in [1..Turns -> 0..Cardinality(Calls)]
  <1>1. \A t \in 1..Turns : b[t] \in 0..Cardinality(Calls)
    BY WaitersFacts
  <1> QED BY <1>1

LEMMA MovesKeepWaits ==
  ASSUME TypeOK, BlockedWhileWaiting, NEW c \in Calls, Moves(c)
  PROVE  WaitTyped' /\ BlockedWhileWaiting'
  <1> DEFINE u == TurnOf[c]
             W(t) == Waiters(stage, t)
             V(t) == Waiters(stage', t)
  <1>1. /\ turn' = turn /\ aborted' = aborted /\ u \in 1..Turns /\ u # NoTurn
        /\ <<stage[c], stage'[c]>> \in Path
        /\ \A d \in Calls : d # c => stage'[d] = stage[d]
        /\ blocked \in [1..Turns -> Nat] /\ status \in {"idle", "working", "blocked"}
    <2>1. Cardinality(Calls) \in Nat BY Constants, FS_CardinalityType
    <2>2. blocked \in [1..Turns -> Nat] BY <2>1 DEF TypeOK
    <2> DEFINE x == stage'[c]
    <2>3. stage' = [stage EXCEPT ![c] = x] BY MoveFacts
    <2> HIDE DEF x
    <2>4. \A d \in Calls : d # c => stage'[d] = stage[d] BY <2>3 DEF TypeOK
    <2> QED BY <2>2, <2>4, MoveFacts, Constants DEF TypeOK
  <1>2. /\ \A t \in 1..Turns : blocked[t] = Cardinality(W(t))
        /\ (turn # NoTurn /\ ~aborted[turn]) => (status = "blocked" <=> blocked[turn] > 0)
        /\ turn = NoTurn => status = "idle"
    BY DEF BlockedWhileWaiting, Waiters
  <1>3. \A t \in 1..Turns : t # u => V(t) = W(t)
    BY <1>1 DEF Waiters
  <1>4. SUFFICES ASSUME TRUE
        PROVE  /\ blocked' \in [1..Turns -> Nat]
               /\ \A t \in 1..Turns : blocked'[t] = Cardinality(V(t))
               /\ status' \in {"idle", "working", "blocked"}
               /\ (turn # NoTurn /\ ~aborted[turn]) => (status' = "blocked" <=> blocked'[turn] > 0)
               /\ turn = NoTurn => status' = "idle"
    <2>1. blocked' \in [1..Turns -> 0..Cardinality(Calls)]
      BY <1>4, CountsAreTyped
    <2> QED BY <1>1, <1>4, <2>1 DEF WaitTyped, BlockedWhileWaiting, Waiters
  <1>5. CASE stage[c] \notin Waits /\ stage'[c] \notin Waits
    <2>1. V(u) = W(u) BY <1>1, <1>5 DEF Waiters, Waits
    <2>2. UNCHANGED <<blocked, status>> BY <1>5, MoveEffects
    <2> QED BY <1>1, <1>2, <1>3, <2>1, <2>2
  <1>6. CASE stage[c] \notin Waits /\ stage'[c] \in Waits
    <2>1. V(u) = W(u) \cup {c} /\ c \notin W(u)
      BY <1>1, <1>6 DEF Waiters, Waits
    <2>2. Wait(c) BY <1>6, MoveEffects
    <2>3. blocked' = [blocked EXCEPT ![u] = @ + 1] /\ status' = IF IsCurrent(u) THEN "blocked" ELSE status
      BY <2>2 DEF Wait
    <2>4. Cardinality(V(u)) = Cardinality(W(u)) + 1
      BY <2>1, WaitersFacts, FS_AddElement
    <2>5. /\ blocked' \in [1..Turns -> Nat] /\ blocked'[u] = blocked[u] + 1
          /\ \A t \in 1..Turns : t # u => blocked'[t] = blocked[t]
      BY <1>1, <2>3
    <2> QED BY <1>1, <1>2, <1>3, <2>3, <2>4, <2>5 DEF IsCurrent
  <1>7. CASE stage[c] \in Waits
    <2>1. V(u) = W(u) \ {c} /\ c \in W(u)
      BY <1>1, <1>7 DEF Waiters, Waits, Path
    <2>2. Unwait(u) BY <1>7, MoveEffects
    <2>3. /\ blocked' = [blocked EXCEPT ![u] = @ - 1]
          /\ status' = IF blocked[u] = 1 /\ IsCurrent(u) THEN "working" ELSE status
      BY <2>2 DEF Unwait
    <2>4. /\ Cardinality(V(u)) = Cardinality(W(u)) - 1
          /\ Cardinality(V(u)) \in Nat /\ Cardinality(W(u)) \in Nat
      BY <2>1, WaitersFacts, FS_RemoveElement, FS_CardinalityType
    <2>5. /\ blocked' \in [1..Turns -> Nat] /\ blocked'[u] = blocked[u] - 1
          /\ \A t \in 1..Turns : t # u => blocked'[t] = blocked[t]
      BY <1>1, <1>2, <2>3, <2>4
    <2> QED BY <1>1, <1>2, <1>3, <2>3, <2>4, <2>5 DEF IsCurrent
  <1> QED BY <1>5, <1>6, <1>7

LEMMA LoopKeepsWaits ==
  ASSUME TypeOK, LoopAgrees, RunAgrees, BlockedWhileWaiting, BatchMoves
  PROVE  WaitTyped' /\ BlockedWhileWaiting'
  <1> DEFINE W(t) == Waiters(stage, t)
             V(t) == Waiters(stage', t)
  <1>1. /\ blocked \in [1..Turns -> Nat] /\ status \in {"idle", "working", "blocked"}
        /\ WaitTyped
    <2>1. Cardinality(Calls) \in Nat BY Constants, FS_CardinalityType
    <2> QED BY <2>1 DEF TypeOK, WaitTyped
  <1>2. /\ \A t \in 1..Turns : blocked[t] = Cardinality(W(t))
        /\ (turn # NoTurn /\ ~aborted[turn]) => (status = "blocked" <=> blocked[turn] > 0)
        /\ turn = NoTurn => status = "idle"
    BY DEF BlockedWhileWaiting, Waiters
  <1>3. CASE BeginTurn
    <2>1. /\ turn' \in 1..Turns /\ turn' = begun + 1 /\ status' = "working"
          /\ UNCHANGED <<aborted, stage, blocked>>
      BY <1>3, Constants DEF BeginTurn, TypeOK
    <2>2. begun \in Nat /\ \A d \in Calls : TurnOf[d] = turn' => stage[d] = "new"
      BY <2>1, Constants DEF RunAgrees, TypeOK
    <2>3. blocked[turn'] = 0
      BY <1>2, <2>1, <2>2, WaitersFacts
    <2> QED BY <1>1, <1>2, <2>1, <2>3, Constants DEF WaitTyped, BlockedWhileWaiting, Waiters
  <1>4. CASE EndTurn
    BY <1>1, <1>2, <1>4 DEF EndTurn, WaitTyped, BlockedWhileWaiting, Waiters
  <1>5. CASE Start
    <2> DEFINE m == Min(Unstarted)
    <2>1. m \in Unstarted
      BY <1>5, LeastIsIn, Constants DEF Start, Unstarted, Batch
    <2>2. stage' = [stage EXCEPT ![m] = "gates"]
      BY <1>5 DEF Start
    <2> HIDE DEF m
    <2>3. \A d \in Calls : stage'[d] \in Waits <=> stage[d] \in Waits
      BY <2>1, <2>2 DEF TypeOK, Waits, Unstarted
    <2>4. \A t \in 1..Turns : V(t) = W(t)
      BY <2>3 DEF Waiters, Waits
    <2>5. UNCHANGED <<turn, aborted, blocked, status>> BY <1>5 DEF Start
    <2> QED BY <1>1, <1>2, <2>4, <2>5 DEF WaitTyped, BlockedWhileWaiting, Waiters
  <1>6. CASE LeaveLoop \/ Settle
    BY <1>1, <1>2, <1>6 DEF LeaveLoop, Settle, WaitTyped, BlockedWhileWaiting, Waiters
  <1>7. CASE Interrupted
    <2>1. /\ turn' = turn /\ aborted'[turn] /\ turn \in 1..Turns /\ turn # NoTurn
          /\ \A d \in Calls : stage'[d] = IF stage[d] = "approval" /\ TurnOf[d] = turn
                                          THEN "after" ELSE stage[d]
      BY <1>7, InterruptFacts, InterruptedFacts DEF Undisturbed, TypeOK, NoTurn
    <2>2. blocked' = [blocked EXCEPT ![turn] = @ - Cardinality(Waiting)]
      BY <1>7, InterruptFacts DEF Interrupt
    <2>3. status' \in {"idle", "working", "blocked"}
      BY <1>1, <1>7 DEF Interrupted, Abort, Dismiss
    <2>4. \A t \in 1..Turns : t # turn => V(t) = W(t)
      BY <2>1 DEF Waiters
    <2>5. Waiting \subseteq W(turn) /\ V(turn) = W(turn) \ Waiting /\ W(turn) \cap Waiting = Waiting
      BY <2>1 DEF Waiters, Waiting, Batch
    <2>6. /\ Cardinality(V(turn)) = Cardinality(W(turn)) - Cardinality(Waiting)
          /\ Cardinality(V(turn)) \in Nat /\ Cardinality(W(turn)) \in Nat
      BY ZenonT(30), <2>5, WaitersFacts, FS_Difference, FS_CardinalityType
    <2>7. /\ blocked' \in [1..Turns -> Nat]
          /\ \A t \in 1..Turns : blocked'[t] = Cardinality(V(t))
      BY <1>1, <1>2, <2>1, <2>2, <2>4, <2>6
    <2>8. blocked' \in [1..Turns -> 0..Cardinality(Calls)]
      BY <2>7, CountsAreTyped
    <2> QED BY <2>1, <2>3, <2>7, <2>8 DEF WaitTyped, BlockedWhileWaiting, Waiters
  <1> QED BY <1>3, <1>4, <1>5, <1>6, <1>7 DEF BatchMoves

-----------------------------------------------------------------------------
(* The room and the last call                                              *)

\* A call's step, for what the whole batch is asked about.
LEMMA MovesInBatch ==
  ASSUME TypeOK, NEW c \in Calls, Moves(c)
  PROVE  /\ UNCHANGED <<turn, aborted, loop, begun>> /\ Batch' = Batch
         /\ Undisturbed' <=> Undisturbed
         /\ \A d \in Calls : d # c => stage'[d] = stage[d] /\ run'[d] = run[d]
         /\ stage[c] \notin {"new", "done"} /\ stage'[c] \notin {"new", "gates"}
  <1> DEFINE x == stage'[c]
             y == Record(c, stage[c], x)
  <1>1. stage' = [stage EXCEPT ![c] = x] /\ run' = [run EXCEPT ![c] = y]
    BY MoveFacts
  <1> HIDE DEF x, y
  <1>2. \A d \in Calls : d # c => stage'[d] = stage[d] /\ run'[d] = run[d]
    BY <1>1 DEF TypeOK
  <1>3. UNCHANGED <<turn, aborted, loop, begun>> /\ <<stage[c], stage'[c]>> \in Path
    BY MoveFacts
  <1> QED BY <1>2, <1>3 DEF Batch, Undisturbed, Path

LEMMA RunningFacts ==
  /\ IsFiniteSet(Batch) /\ IsFiniteSet(Running) /\ Running \subseteq Calls
  /\ \A S \in SUBSET Running : IsFiniteSet(S) /\ Cardinality(S) <= Cardinality(Running)
  /\ Cardinality(Running) \in Nat
  <1>1. /\ Running \subseteq Calls /\ Batch \subseteq Calls /\ IsFiniteSet(Calls)
    BY Constants DEF Running, Started, Batch
  <1>2. IsFiniteSet(Running) /\ IsFiniteSet(Batch) BY <1>1, FS_Subset
  <1>3. \A S \in SUBSET Running : IsFiniteSet(S) /\ Cardinality(S) <= Cardinality(Running)
    BY <1>2, FS_Subset
  <1> QED BY <1>1, <1>2, <1>3, FS_CardinalityType

LEMMA MovesKeepRoom ==
  ASSUME TypeOK, RoomIsKept, NEW c \in Calls, Moves(c)
  PROVE  RoomIsKept'
  <1> SUFFICES ASSUME Undisturbed'
      PROVE  /\ \A d, e \in Running' : d # e => d \notin Serial
             /\ Cardinality(Running') <= MaxParallel
             /\ loop' \in {"all", "settled"} => Unstarted' = {}
             /\ loop' = "settled" => Running' = {}
    BY DEF RoomIsKept
  <1>1. Running' \subseteq Running /\ Unstarted' = Unstarted /\ loop' = loop /\ Undisturbed
    BY MovesInBatch DEF Running, Started, Unstarted, Batch
  <1>2. Cardinality(Running') <= Cardinality(Running) /\ Cardinality(Running') \in Nat
    BY <1>1, RunningFacts, FS_CardinalityType
  <1> QED BY <1>1, <1>2, RunningFacts, Constants DEF RoomIsKept

LEMMA LoopKeepsRoom ==
  ASSUME TypeOK, LoopAgrees, RunAgrees, RoomIsKept, BatchMoves
  PROVE  RoomIsKept'
  <1>1. CASE BeginTurn
    <2>1. turn' = begun + 1 /\ begun \in Nat /\ stage' = stage /\ loop' = "starting"
      BY <1>1 DEF BeginTurn, TypeOK
    <2>2. \A d \in Calls : TurnOf[d] = turn' => stage[d] = "new"
      BY <2>1, Constants DEF RunAgrees
    <2>3. Running' = {}
      BY <2>1, <2>2 DEF Running, Started, Batch
    <2> QED BY <2>1, <2>3, FS_EmptySet, Constants DEF RoomIsKept
  <1>2. CASE EndTurn
    BY <1>2 DEF EndTurn, RoomIsKept, Undisturbed
  <1>3. CASE Start
    <2> DEFINE m == Min(Unstarted)
    <2>1. m \in Unstarted
      BY <1>3, LeastIsIn, Constants DEF Start, Unstarted, Batch
    <2>2. /\ stage' = [stage EXCEPT ![m] = "gates"] /\ Undisturbed /\ loop' = "starting"
          /\ Running \cap Serial = {} /\ (m \in Serial => Running = {})
          /\ Cardinality(Running) < MaxParallel
          /\ turn' = turn
      BY <1>3 DEF Start, Ready, Undisturbed, LoopAgrees
    <2> HIDE DEF m
    <2>3. Running' = Running \cup {m} /\ m \notin Running
      BY <2>1, <2>2 DEF Running, Started, Unstarted, Batch, TypeOK
    <2>4. Cardinality(Running') = Cardinality(Running) + 1
      BY <2>3, RunningFacts, FS_AddElement
    <2>5. Cardinality(Running') <= MaxParallel
      BY <2>2, <2>4, RunningFacts, Constants
    <2> QED BY <2>2, <2>3, <2>5 DEF RoomIsKept
  <1>4. CASE LeaveLoop
    <2>1. UNCHANGED <<turn, aborted, stage>> /\ loop' = "all" /\ (Unstarted = {} \/ aborted[turn])
      BY <1>4 DEF LeaveLoop
    <2>2. Running' = Running /\ Unstarted' = Unstarted /\ Undisturbed' = Undisturbed
      BY <2>1 DEF Running, Started, Unstarted, Batch, Undisturbed
    <2> QED BY <2>1, <2>2 DEF RoomIsKept, Undisturbed
  <1>5. CASE Settle
    <2>1. UNCHANGED <<turn, aborted, stage>> /\ loop = "all" /\ (Running = {} \/ aborted[turn])
      BY <1>5 DEF Settle, Done, Abandon
    <2>2. Running' = Running /\ Unstarted' = Unstarted /\ Undisturbed' = Undisturbed
      BY <2>1 DEF Running, Started, Unstarted, Batch, Undisturbed
    <2> QED BY <2>1, <2>2 DEF RoomIsKept, Undisturbed
  <1>6. CASE Interrupted
    <2>1. turn' = turn /\ aborted'[turn]
      BY <1>6, InterruptFacts, InterruptedFacts
    <2> QED BY <2>1 DEF RoomIsKept, Undisturbed
  <1> QED BY <1>1, <1>2, <1>3, <1>4, <1>5, <1>6 DEF BatchMoves

LEMMA MovesKeepLast ==
  ASSUME TypeOK, LoopAgrees, RunAgrees, RoomIsKept, LastIsOne, NEW c \in Calls, Moves(c)
  PROVE  LastIsOne'
  <1> SUFFICES ASSUME Undisturbed'
      PROVE  /\ (\E d \in Batch : ~run'[d].returned) => \A d \in Batch : ~run'[d].sawLast
             /\ (Batch # {} /\ \A d \in Batch : run'[d].returned)
                  => \E d \in Batch : \A e \in Batch : run'[e].sawLast <=> e = d
    BY MovesInBatch DEF LastIsOne
  <1>1. /\ Undisturbed
        /\ \A d \in Calls : d # c => run'[d] = run[d]
        /\ Batch \subseteq Calls
    BY MovesInBatch DEF Batch
  <1>2. /\ (\E d \in Batch : ~run[d].returned) => \A d \in Batch : ~run[d].sawLast
        /\ (Batch # {} /\ \A d \in Batch : run[d].returned)
             => \E d \in Batch : \A e \in Batch : run[e].sawLast <=> e = d
    BY <1>1 DEF LastIsOne
  <1>3. CASE c \notin Batch
    <2>1. \A d \in Batch : run'[d] = run[d] BY <1>1, <1>3
    <2> QED BY <1>2, <2>1
  <1>4. CASE stage'[c] # "after"
    <2>1. run'[c].returned = run[c].returned /\ run'[c].sawLast = run[c].sawLast
      <3>1. CASE stage'[c] = "shown"
        <4>1. run'[c] = [run[c] EXCEPT !.started = 1] /\ run[c] \in Records
          BY <3>1, RecordFacts DEF TypeOK, Records
        <4> QED BY <4>1 DEF Records
      <3>2. CASE stage'[c] = "done" BY <3>2, RecordFacts
      <3>3. CASE stage'[c] \notin {"after", "shown", "done"}
        <4>1. run'[c] = run[c] BY <3>3, RecordFacts
        <4> QED BY <4>1
      <3> QED BY <1>4, <3>1, <3>2, <3>3
    <2>2. \A d \in Batch : run'[d].returned = run[d].returned /\ run'[d].sawLast = run[d].sawLast
      BY <1>1, <2>1
    <2> QED BY <1>2, <2>2
  <1>5. CASE c \in Batch /\ stage'[c] = "after"
    <2>1. ~run[c].returned /\ stage[c] \notin {"new", "done"}
      <3>1. stage[c] \notin {"new", "after", "done"}
        BY <1>5, MoveFacts DEF Path
      <3> QED BY <3>1 DEF RunAgrees
    <2>2. loop # "settled"
      BY <1>1, <1>5, <2>1 DEF RoomIsKept, Running, Started
    <2>3. \A d \in Batch : ~run[d].finished
      BY <2>2, <1>1 DEF RunAgrees, Over, Batch
    <2>4. ~Gone(c)
      BY <1>1, <1>5, <2>3 DEF Gone, Undisturbed, Batch
    <2>5. run'[c].returned /\ (run'[c].sawLast <=> Pending(c) = {})
      <3>1. run'[c].returned /\ (run'[c].sawLast <=> (~Gone(c) /\ Pending(c) = {}))
        BY <1>5, RecordFacts
      <3> QED BY <2>4, <3>1
    <2>6. Pending(c) = {} <=> \A d \in Batch \ {c} : run[d].returned
      BY <2>3 DEF Pending
    <2>7. \A d \in Batch : ~run[d].sawLast
      BY <1>2, <1>5, <2>1
    <2>8. \A d \in Batch \ {c} : run'[d] = run[d]
      BY <1>1
    <2> QED BY <1>5, <2>5, <2>6, <2>7, <2>8
  <1> QED BY <1>3, <1>4, <1>5

LEMMA LoopKeepsLast ==
  ASSUME TypeOK, LoopAgrees, RunAgrees, LastIsOne, BatchMoves
  PROVE  LastIsOne'
  <1>1. CASE BeginTurn
    <2>1. turn' = begun + 1 /\ begun \in Nat /\ run' = run
      BY <1>1 DEF BeginTurn, TypeOK
    <2>2. \A d \in Calls : TurnOf[d] = turn' => run[d] = NewRun
      BY <2>1, Constants DEF RunAgrees
    <2>3. \A d \in Batch' : ~run'[d].returned /\ ~run'[d].sawLast
      BY <2>1, <2>2 DEF Batch, NewRun
    <2> QED BY <2>3 DEF LastIsOne
  <1>2. CASE EndTurn
    BY <1>2 DEF EndTurn, LastIsOne, Undisturbed
  <1>3. CASE Start \/ LeaveLoop
    <2>1. UNCHANGED <<turn, aborted, run>> BY <1>3 DEF Start, LeaveLoop
    <2> QED BY <2>1 DEF LastIsOne, Undisturbed, Batch
  <1>4. CASE Settle
    <2>1. UNCHANGED <<turn, aborted>> BY <1>4 DEF Settle
    <2>2. Batch' = Batch /\ Undisturbed' = Undisturbed BY <2>1 DEF Batch, Undisturbed
    <2>3. \A d \in Batch : run'[d].returned = run[d].returned /\ run'[d].sawLast = run[d].sawLast
      BY <1>4, SettledFacts DEF Batch
    <2> QED BY <2>2, <2>3 DEF LastIsOne
  <1>5. CASE Interrupted
    <2>1. turn' = turn /\ aborted'[turn]
      BY <1>5, InterruptFacts, InterruptedFacts
    <2> QED BY <2>1 DEF LastIsOne, Undisturbed
  <1> QED BY <1>1, <1>2, <1>3, <1>4, <1>5 DEF BatchMoves

-----------------------------------------------------------------------------
(* The order of the keys                                                   *)

KeysTyped ==
  /\ before \in [Calls -> Calls \cup {NoCall}]
  /\ last \in [{Key[c] : c \in Calls} -> Calls \cup {NoCall}]

LEMMA SameChain ==
  ASSUME turn' = turn, before' = before, last' = last
  PROVE  /\ Batch' = Batch /\ \A c : TookKey(c)' <=> TookKey(c)
         /\ ChainIsWhole => ChainIsWhole'
  BY DEF Batch, TookKey, IsClosed, ChainIsWhole

\* Who goes on without being done changes nothing at the front.
LEMMA SameFront ==
  ASSUME TypeOK, turn' = turn, before' = before, last' = last,
         ChainIsWhole, KeysAreTaken, OneAtFront,
         \A c \in Batch : stage'[c] = "done" <=> stage[c] = "done"
  PROVE  OneAtFront'
  <1>1. \A c \in Batch : before[c] # NoCall => before[c] \in Batch
    BY DEF ChainIsWhole
  <1>2. \A c \in Batch : AtFront(c)' <=> AtFront(c)
    BY <1>1, SameChain DEF AtFront
  <1> QED BY <1>2, SameChain DEF OneAtFront

\* The front moves when the call that is there is done.
LEMMA FrontMoves ==
  ASSUME TypeOK, turn' = turn, before' = before, last' = last,
         ChainIsWhole, KeysAreTaken, OneAtFront,
         NEW c \in Batch, stage[c] = "after", stage'[c] = "done",
         \A d \in Batch \ {c} : stage'[d] = stage[d]
  PROVE  OneAtFront'
  <1>1. \A d \in Batch : before[d] # NoCall => before[d] \in Batch /\ Key[before[d]] = Key[d]
    BY DEF ChainIsWhole
  <1>2. before[c] # NoCall => stage[before[c]] = "done"
    BY DEF KeysAreTaken
  <1>3. ASSUME NEW d \in Batch, AtFront(d)'
        PROVE  /\ d # c /\ stage[d] # "done" /\ TookKey(d)
               /\ AtFront(d) \/ (before[d] = c /\ c # NoCall)
    <2>1. /\ stage'[d] # "done" /\ TookKey(d) /\ d # c
          /\ before[d] # NoCall => stage'[before[d]] = "done"
      BY <1>3, SameChain DEF AtFront
    <2>2. stage'[d] = stage[d] BY <2>1
    <2>3. CASE before[d] = NoCall BY <2>1, <2>2, <2>3 DEF AtFront
    <2>4. CASE before[d] # NoCall /\ before[d] = c BY <2>1, <2>2, <2>4
    <2>5. CASE before[d] # NoCall /\ before[d] # c
      <3>1. stage[before[d]] = "done" BY <1>1, <2>1, <2>5
      <3> QED BY <2>1, <2>2, <3>1 DEF AtFront
    <2> QED BY <2>3, <2>4, <2>5
  <1>4. ASSUME NEW d \in Batch, before[d] = c, c # NoCall
        PROVE  AtFront(c) /\ Key[d] = Key[c]
    BY <1>1, <1>2, <1>4 DEF AtFront, TookKey
  <1>5. SUFFICES ASSUME NEW d \in Batch, NEW e \in Batch,
                        AtFront(d)', AtFront(e)', Key[d] = Key[e]
                 PROVE  d = e
    BY SameChain DEF OneAtFront
  <1>6. CASE AtFront(d) /\ AtFront(e) BY <1>5, <1>6 DEF OneAtFront
  <1>7. CASE ~AtFront(d) /\ AtFront(e)
    <2>1. AtFront(c) /\ Key[d] = Key[c] BY <1>3, <1>4, <1>5, <1>7
    <2>2. e = c BY <1>5, <1>7, <2>1 DEF OneAtFront
    <2> QED BY <1>3, <1>5, <2>2
  <1>8. CASE AtFront(d) /\ ~AtFront(e)
    <2>1. AtFront(c) /\ Key[e] = Key[c] BY <1>3, <1>4, <1>5, <1>8
    <2>2. d = c BY <1>5, <1>8, <2>1 DEF OneAtFront
    <2> QED BY <1>3, <1>5, <2>2
  <1>9. CASE ~AtFront(d) /\ ~AtFront(e)
    <2>1. before[d] = c /\ before[e] = c /\ c # NoCall BY <1>3, <1>5, <1>9
    <2> QED BY <2>1 DEF ChainIsWhole
  <1> QED BY <1>6, <1>7, <1>8, <1>9

\* A call that takes over a key comes last in its chain.
LEMMA TakingKeepsOrder ==
  ASSUME TypeOK, ChainIsWhole, KeysAreTaken, OneAtFront, turn' = turn,
         NEW c \in Batch, stage[c] \in {"gates", "approval"},
         stage' = [stage EXCEPT ![c] = "key"],
         before' = [before EXCEPT ![c] = last[Key[c]]],
         last' = [last EXCEPT ![Key[c]] = c]
  PROVE  KeysTyped' /\ ChainIsWhole' /\ KeysAreTaken' /\ OneAtFront'
  <1> DEFINE k == Key[c]
             l == last[k]
  <1>1. /\ Batch' = Batch /\ Batch \subseteq Calls /\ c \in Calls /\ NoCall \notin Calls
        /\ c # NoCall
    BY Constants DEF Batch
  <1>2. before[c] = NoCall /\ ~TookKey(c)
    BY DEF KeysAreTaken
  <1>3. /\ l \in Calls \cup {NoCall} /\ l # c
        /\ l # NoCall => l \in Batch /\ Key[l] = k
    BY <1>1, <1>2 DEF TypeOK, ChainIsWhole, TookKey
  <1>4. /\ before'[c] = l /\ \A d \in Batch : d # c => before'[d] = before[d]
        /\ \A d \in Calls : d # c => before'[d] = before[d]
        /\ last'[k] = c /\ \A d \in Batch : Key[d] # k => last'[Key[d]] = last[Key[d]]
        /\ KeysTyped'
    BY <1>1, <1>3 DEF TypeOK, KeysTyped
  <1>5. \A d \in Batch : stage'[d] = IF d = c THEN "key" ELSE stage[d]
    BY <1>1 DEF TypeOK
  <1> HIDE DEF l, k
  <1>6. \A d \in Batch : TookKey(d)' <=> TookKey(d) \/ d = c
    <2> SUFFICES ASSUME NEW d \in Batch PROVE TookKey(d)' <=> TookKey(d) \/ d = c
      OBVIOUS
    <2>1. TookKey(d)' <=> d = last'[Key[d]] \/ \E e \in Batch : before'[e] = d
      BY <1>1 DEF TookKey
    <2>2. ASSUME d = last'[Key[d]] PROVE TookKey(d) \/ d = c
      BY <1>4, <2>2 DEF TookKey
    <2>3. ASSUME NEW e \in Batch, before'[e] = d PROVE TookKey(d) \/ d = c
      BY <1>1, <1>3, <1>4, <2>3 DEF TookKey, l, k
    <2>4. ASSUME TookKey(d) PROVE d = last'[Key[d]] \/ \E e \in Batch : before'[e] = d
      <3>1. CASE d = last[Key[d]]
        BY <1>4, <3>1 DEF l, k
      <3>2. CASE \E e \in Batch : before[e] = d
        <4>1. PICK e \in Batch : before[e] = d BY <3>2
        <4>2. e # c BY <1>1, <1>2, <4>1
        <4> QED BY <1>4, <4>1, <4>2
      <3> QED BY <2>4, <3>1, <3>2 DEF TookKey
    <2>5. d = c => d = last'[Key[d]]
      BY <1>4 DEF k
    <2> QED BY <2>1, <2>2, <2>3, <2>4, <2>5
  <1>7. ASSUME NEW d \in Batch, Key[d] = k, TookKey(d)
        PROVE  l # NoCall
    <2>1. CASE d = last[Key[d]] BY <1>1, <1>7, <2>1 DEF l
    <2>2. CASE \E e \in Batch : before[e] = d
      <3>1. PICK e \in Batch : before[e] = d BY <2>2
      <3> QED BY <1>1, <1>7, <3>1 DEF ChainIsWhole, l
    <2> QED BY <1>7, <2>1, <2>2 DEF TookKey
  <1>8. \A S \in SUBSET Calls : IsClosed(S)' =>
          /\ IsClosed(S)
          /\ (c \in S /\ l # NoCall) => l \in S
    BY <1>1, <1>2, <1>4 DEF IsClosed
  <1>9. ChainIsWhole'
    <2> SUFFICES ASSUME NEW d \in Batch
        PROVE  /\ before'[d] # NoCall =>
                    /\ before'[d] \in Batch /\ Key[before'[d]] = Key[d] /\ before'[d] # last'[Key[d]]
                    /\ last'[Key[d]] # NoCall
               /\ last'[Key[d]] # NoCall => last'[Key[d]] \in Batch /\ Key[last'[Key[d]]] = Key[d]
               /\ \A e \in Batch : (before'[d] = before'[e] /\ before'[d] # NoCall) => d = e
               /\ \A S \in SUBSET Calls :
                    (last'[Key[d]] \in S /\ IsClosed(S)' /\ TookKey(d)') => d \in S
      BY <1>1 DEF ChainIsWhole
    <2>1. before'[d] # NoCall =>
            /\ before'[d] \in Batch /\ Key[before'[d]] = Key[d] /\ before'[d] # last'[Key[d]]
            /\ last'[Key[d]] # NoCall
      <3>1. CASE d = c BY <1>1, <1>3, <1>4, <3>1 DEF k
      <3>2. CASE d # c
        <4>1. before[d] # c BY <1>2 DEF TookKey
        <4> QED BY <1>1, <1>4, <3>2, <4>1 DEF ChainIsWhole
      <3> QED BY <3>1, <3>2
    <2>2. last'[Key[d]] # NoCall => last'[Key[d]] \in Batch /\ Key[last'[Key[d]]] = Key[d]
      <3>1. CASE Key[d] = k BY <1>4, <3>1 DEF k
      <3>2. CASE Key[d] # k BY <1>4, <3>2 DEF ChainIsWhole
      <3> QED BY <3>1, <3>2
    <2>3. ASSUME NEW d1 \in Batch, NEW e1 \in Batch, d1 # c, before'[d1] = before'[e1], before'[d1] # NoCall
          PROVE  d1 = e1
      <3>1. CASE e1 # c BY <1>4, <2>3, <3>1 DEF ChainIsWhole
      <3>2. CASE e1 = c
        <4>1. before[d1] = l /\ l # NoCall BY <1>4, <2>3, <3>2
        <4>2. Key[l] = k /\ Key[before[d1]] = Key[d1] /\ before[d1] # last[Key[d1]]
          BY <1>3, <4>1 DEF ChainIsWhole
        <4> QED BY <4>1, <4>2 DEF l
      <3> QED BY <3>1, <3>2
    <2>4. \A e \in Batch : (before'[d] = before'[e] /\ before'[d] # NoCall) => d = e
      BY <2>3
    <2>5. ASSUME NEW S \in SUBSET Calls, last'[Key[d]] \in S, IsClosed(S)', TookKey(d)'
          PROVE  d \in S
      <3>1. IsClosed(S) /\ ((c \in S /\ l # NoCall) => l \in S)
        BY <1>8, <2>5
      <3>2. CASE d = c BY <1>4, <2>5, <3>2 DEF k
      <3>3. CASE d # c /\ Key[d] # k
        <4>1. TookKey(d) /\ last[Key[d]] \in S BY <1>4, <1>6, <2>5, <3>3
        <4> QED BY <3>1, <4>1 DEF ChainIsWhole
      <3>4. CASE d # c /\ Key[d] = k
        <4>1. TookKey(d) /\ c \in S BY <1>4, <1>6, <2>5, <3>4
        <4>2. last[Key[d]] \in S BY <1>7, <3>1, <3>4, <4>1 DEF l
        <4> QED BY <3>1, <4>1, <4>2 DEF ChainIsWhole
      <3> QED BY <3>2, <3>3, <3>4
    <2> QED BY <2>1, <2>2, <2>4, <2>5
  <1>10. \A d \in Batch : before[d] # NoCall => before[d] \in Batch
    BY DEF ChainIsWhole
  <1>11. KeysAreTaken'
    <2> SUFFICES ASSUME NEW d \in Batch
        PROVE  /\ stage'[d] \in {"new", "gates", "approval"} => ~TookKey(d)' /\ before'[d] = NoCall
               /\ (stage'[d] \in {"key", "shown", "executes", "question"} /\ d \notin Serial /\ Key[d] # NoKey)
                    => TookKey(d)'
               /\ (stage'[d] \notin {"new", "gates", "approval", "key"} /\ before'[d] # NoCall)
                    => stage'[before'[d]] = "done"
      BY <1>1 DEF KeysAreTaken
    <2>1. CASE d = c BY <1>5, <1>6, <2>1
    <2>2. CASE d # c
      <3>1. stage'[d] = stage[d] /\ before'[d] = before[d] /\ (TookKey(d)' <=> TookKey(d))
        BY <1>4, <1>5, <1>6, <2>2
      <3> QED BY <1>5, <1>10, <3>1 DEF KeysAreTaken
    <2> QED BY <2>1, <2>2
  <1>12. ASSUME NEW d \in Batch, d # c, AtFront(d)' PROVE AtFront(d)
    <2>1. stage'[d] = stage[d] /\ before'[d] = before[d] /\ TookKey(d)
      BY <1>4, <1>5, <1>6, <1>12 DEF AtFront
    <2> QED BY <1>5, <1>10, <1>12, <2>1 DEF AtFront
  <1>13. ASSUME NEW d \in Batch, d # c, AtFront(d)', AtFront(c)', Key[d] = k PROVE FALSE
    <2>1. TookKey(d) /\ stage[d] # "done" BY <1>12, <1>13 DEF AtFront
    <2>2. l # NoCall BY <1>7, <1>13, <2>1
    <2>3. l \in Batch /\ stage[l] = "done"
      BY <1>3, <1>4, <1>5, <1>13, <2>2 DEF AtFront
    <2> DEFINE S == {e \in Batch : stage[e] = "done"}
    <2>4. S \in SUBSET Calls /\ last[Key[d]] \in S
      BY <1>1, <1>13, <2>3 DEF l
    <2>5. IsClosed(S)
      BY <1>10 DEF IsClosed, KeysAreTaken
    <2>6. d \in S
      <3> HIDE DEF S
      <3> QED BY <2>1, <2>4, <2>5 DEF ChainIsWhole
    <2> QED BY <2>1, <2>6
  <1>14. OneAtFront'
    <2> SUFFICES ASSUME NEW d \in Batch, NEW e \in Batch, AtFront(d)', AtFront(e)', Key[d] = Key[e]
                 PROVE  d = e
      BY <1>1 DEF OneAtFront
    <2>1. CASE d # c /\ e # c BY <1>12, <2>1 DEF OneAtFront
    <2>2. CASE d = c \/ e = c BY <1>13, <2>2 DEF k
    <2> QED BY <2>1, <2>2
  <1> QED BY <1>4, <1>9, <1>11, <1>14

LEMMA MovesKeepKeys ==
  ASSUME TypeOK, LoopAgrees, RunAgrees, RoomIsKept, KeysInOrder, NEW c \in Calls, Moves(c)
  PROVE  KeysTyped' /\ KeysInOrder'
  <1>1. /\ turn' = turn /\ Batch' = Batch /\ (Undisturbed' <=> Undisturbed)
        /\ \A d \in Calls : d # c => stage'[d] = stage[d]
        /\ Batch \subseteq Calls /\ <<stage[c], stage'[c]>> \in Path
    BY MovesInBatch, MoveFacts DEF Batch
  <1>2. stage[c] \notin {"new", "done"} /\ stage' = [stage EXCEPT ![c] = stage'[c]]
    <2> DEFINE x == stage'[c]
    <2>1. stage' = [stage EXCEPT ![c] = x] BY MoveFacts
    <2> HIDE DEF x
    <2> QED BY <1>1, <2>1 DEF Path, TypeOK
  <1>3. CASE stage'[c] = "key" /\ ~(c \in Serial \/ run[c].finished \/ Key[c] = NoKey)
    <2>1. /\ before' = [before EXCEPT ![c] = last[Key[c]]]
          /\ last' = [last EXCEPT ![Key[c]] = c]
      BY <1>3, MoveEffects DEF TakeKey
    <2>2. c \in Batch
      <3>1. TurnOf[c] <= begun
        BY <1>2, Constants DEF RunAgrees, TypeOK
      <3> QED BY <1>3, <3>1 DEF RunAgrees, Over, Batch
    <2>3. stage[c] \in {"gates", "approval"} /\ stage' = [stage EXCEPT ![c] = "key"]
      BY <1>1, <1>2, <1>3 DEF Path
    <2>4. KeysTyped'
      BY <2>1 DEF TypeOK, KeysTyped
    <2>5. Undisturbed => ChainIsWhole' /\ KeysAreTaken' /\ OneAtFront'
      BY <1>1, <2>1, <2>2, <2>3, TakingKeepsOrder DEF KeysInOrder
    <2> QED BY <1>1, <2>4, <2>5 DEF KeysInOrder
  <1>4. CASE stage'[c] # "key" \/ c \in Serial \/ run[c].finished \/ Key[c] = NoKey
    <2>1. before' = before /\ last' = last
      BY <1>4, MoveEffects DEF TakeKey
    <2>2. KeysTyped' BY <2>1 DEF TypeOK, KeysTyped
    <2>3. SUFFICES ASSUME Undisturbed PROVE ChainIsWhole' /\ KeysAreTaken' /\ OneAtFront'
      BY <1>1, <2>2 DEF KeysInOrder
    <2>4. ChainIsWhole /\ KeysAreTaken /\ OneAtFront
      BY <2>3 DEF KeysInOrder
    <2>5. ChainIsWhole' /\ \A d : TookKey(d)' <=> TookKey(d)
      BY <1>1, <2>1, <2>4, SameChain
    <2>6. c \in Batch => ~Gone(c) /\ ~run[c].finished
      <3>1. c \in Batch => loop # "settled"
        BY <1>2, <2>3 DEF RoomIsKept, Running, Started
      <3>2. c \in Batch => TurnOf[c] = turn BY DEF Batch
      <3>3. c \in Batch => ~run[c].finished
        BY <3>1, <3>2 DEF RunAgrees, Over
      <3> QED BY <2>3, <3>2, <3>3 DEF Gone, Undisturbed
    <2>7. \A d \in Batch : before[d] # NoCall => before[d] \in Batch
      BY <2>4 DEF ChainIsWhole
    <2>8. KeysAreTaken'
      <3> SUFFICES ASSUME NEW d \in Batch
          PROVE  /\ stage'[d] \in {"new", "gates", "approval"} => ~TookKey(d) /\ before[d] = NoCall
                 /\ (stage'[d] \in {"key", "shown", "executes", "question"} /\ d \notin Serial /\ Key[d] # NoKey)
                      => TookKey(d)
                 /\ (stage'[d] \notin {"new", "gates", "approval", "key"} /\ before[d] # NoCall)
                      => stage'[before[d]] = "done"
        BY <1>1, <2>1, <2>5 DEF KeysAreTaken
      <3>1. /\ stage[d] \in {"new", "gates", "approval"} => ~TookKey(d) /\ before[d] = NoCall
            /\ (stage[d] \in {"key", "shown", "executes", "question"} /\ d \notin Serial /\ Key[d] # NoKey)
                 => TookKey(d)
            /\ (stage[d] \notin {"new", "gates", "approval", "key"} /\ before[d] # NoCall)
                 => stage[before[d]] = "done"
        BY <2>4 DEF KeysAreTaken
      <3>2. (before[d] # NoCall /\ stage[before[d]] = "done") => stage'[before[d]] = "done"
        BY <1>1, <1>2, <2>7
      <3>3. CASE d # c
        <4>1. stage'[d] = stage[d] BY <1>1, <3>3
        <4> QED BY <3>1, <3>2, <4>1
      <3>4. CASE d = c
        <4>1. ~Gone(c) /\ ~run[c].finished /\ ~aborted[TurnOf[c]]
          BY <2>6, <3>4 DEF Gone
        <4>2. CASE stage'[c] \in {"approval", "key"}
          BY <1>1, <1>4, <3>1, <3>4, <4>1, <4>2 DEF Path
        <4>3. CASE stage'[c] = "shown"
          <5>1. stage[c] = "key" BY <1>1, <4>3 DEF Path
          <5>2. before[c] # NoCall => stage[before[c]] = "done"
            BY <4>1, <4>3, <1>1, <2>7, <3>4, MoveEffects
          <5> QED BY <3>1, <3>2, <3>4, <4>3, <5>1, <5>2
        <4>4. CASE stage'[c] = "after"
          <5>1. stage[c] # "key" BY <4>1, <4>4, MoveEffects
          <5> QED BY <1>1, <3>1, <3>2, <3>4, <4>4, <5>1 DEF Path
        <4>5. CASE stage'[c] \in {"executes", "question", "done"}
          BY <1>1, <3>1, <3>2, <3>4, <4>5 DEF Path
        <4> QED BY <1>1, <4>2, <4>3, <4>4, <4>5 DEF Path
      <3> QED BY <3>3, <3>4
    <2>9. OneAtFront'
      <3>1. CASE c \in Batch /\ stage'[c] = "done"
        <4>1. stage[c] = "after" BY <1>1, <3>1 DEF Path
        <4>2. \A d \in Batch \ {c} : stage'[d] = stage[d] BY <1>1
        <4> QED BY <1>1, <2>1, <2>4, <3>1, <4>1, <4>2, FrontMoves
      <3>2. CASE ~(c \in Batch /\ stage'[c] = "done")
        <4>1. \A d \in Batch : stage'[d] = "done" <=> stage[d] = "done"
          BY <1>1, <1>2, <3>2
        <4> QED BY <1>1, <2>1, <2>4, <4>1, SameFront
      <3> QED BY <3>1, <3>2
    <2> QED BY <2>5, <2>8, <2>9
  <1> QED BY <1>3, <1>4

LEMMA LoopKeepsKeys ==
  ASSUME TypeOK, LoopAgrees, RunAgrees, KeysInOrder, BatchMoves
  PROVE  KeysTyped' /\ KeysInOrder'
  <1>1. KeysTyped BY DEF TypeOK, KeysTyped
  <1>2. CASE BeginTurn
    <2>1. /\ turn' = begun + 1 /\ begun \in Nat /\ UNCHANGED <<stage, before>>
          /\ last' = [k \in {Key[d] : d \in Calls} |-> NoCall]
      BY <1>2 DEF BeginTurn, TypeOK
    <2>2. \A d \in Batch' : stage'[d] = "new" /\ before'[d] = NoCall /\ d \in Calls /\ d # NoCall
      BY <2>1, Constants DEF RunAgrees, Batch
    <2>3. \A d \in Batch' : last'[Key[d]] = NoCall
      BY <2>1, <2>2
    <2>4. \A d \in Batch' : ~TookKey(d)'
      BY <2>2, <2>3 DEF TookKey
    <2>5. ChainIsWhole'
      <3> SUFFICES ASSUME NEW d \in Batch'
          PROVE  /\ before'[d] = NoCall /\ last'[Key[d]] = NoCall /\ ~TookKey(d)'
        BY DEF ChainIsWhole
      <3> QED BY <2>2, <2>3, <2>4
    <2>6. KeysAreTaken' BY <2>2, <2>4 DEF KeysAreTaken
    <2>7. OneAtFront' BY <2>4 DEF OneAtFront, AtFront
    <2>8. KeysTyped' BY <1>1, <2>1 DEF KeysTyped
    <2> QED BY <2>5, <2>6, <2>7, <2>8 DEF KeysInOrder
  <1>3. CASE EndTurn
    BY <1>1, <1>3 DEF EndTurn, KeysTyped, KeysInOrder, Undisturbed
  <1>4. CASE Start
    <2> DEFINE m == Min(Unstarted)
    <2>1. m \in Unstarted
      BY <1>4, LeastIsIn, Constants DEF Start, Unstarted, Batch
    <2>2. /\ stage' = [stage EXCEPT ![m] = "gates"] /\ Undisturbed
          /\ UNCHANGED <<turn, aborted, before, last>>
      BY <1>4 DEF Start, Undisturbed, LoopAgrees
    <2> HIDE DEF m
    <2>3. /\ m \in Batch /\ stage[m] = "new" /\ Batch \subseteq Calls
          /\ \A d \in Batch : stage'[d] = IF d = m THEN "gates" ELSE stage[d]
      BY <2>1, <2>2 DEF Unstarted, Batch, TypeOK
    <2>4. ChainIsWhole /\ KeysAreTaken /\ OneAtFront
      BY <2>2 DEF KeysInOrder
    <2>5. ChainIsWhole' /\ Batch' = Batch /\ \A d : TookKey(d)' <=> TookKey(d)
      BY <2>2, <2>4, SameChain
    <2>6. OneAtFront'
      <3>1. \A d \in Batch : stage'[d] = "done" <=> stage[d] = "done" BY <2>3
      <3> QED BY <2>2, <2>4, <3>1, SameFront
    <2>7. \A d \in Batch : before[d] # NoCall => before[d] \in Batch
      BY <2>4 DEF ChainIsWhole
    <2>8. KeysAreTaken'
      <3> SUFFICES ASSUME NEW d \in Batch
          PROVE  /\ stage'[d] \in {"new", "gates", "approval"} => ~TookKey(d) /\ before[d] = NoCall
                 /\ (stage'[d] \in {"key", "shown", "executes", "question"} /\ d \notin Serial /\ Key[d] # NoKey)
                      => TookKey(d)
                 /\ (stage'[d] \notin {"new", "gates", "approval", "key"} /\ before[d] # NoCall)
                      => stage'[before[d]] = "done"
        BY <2>2, <2>5 DEF KeysAreTaken
      <3> QED BY <2>3, <2>4, <2>7 DEF KeysAreTaken
    <2> QED BY <1>1, <2>2, <2>5, <2>6, <2>8 DEF KeysInOrder, KeysTyped
  <1>5. CASE LeaveLoop \/ Settle
    <2>1. UNCHANGED <<turn, aborted, stage, before, last>>
      BY <1>5 DEF LeaveLoop, Settle
    <2>2. (Undisturbed' <=> Undisturbed) /\ Batch' = Batch /\ \A d : TookKey(d)' <=> TookKey(d)
      BY <2>1, SameChain DEF Undisturbed
    <2>3. ChainIsWhole => ChainIsWhole' BY <2>1, SameChain
    <2>4. KeysAreTaken => KeysAreTaken' BY <2>1, <2>2 DEF KeysAreTaken
    <2>5. OneAtFront => OneAtFront' BY <2>1, <2>2 DEF OneAtFront, AtFront
    <2> QED BY <1>1, <2>1, <2>2, <2>3, <2>4, <2>5 DEF KeysInOrder, KeysTyped
  <1>6. CASE Interrupted
    <2>1. UNCHANGED <<turn, before, last>> /\ aborted'[turn]
      BY <1>6, InterruptFacts, InterruptedFacts
    <2> QED BY <1>1, <2>1 DEF KeysInOrder, KeysTyped, Undisturbed
  <1> QED BY <1>2, <1>3, <1>4, <1>5, <1>6 DEF BatchMoves

-----------------------------------------------------------------------------
LEMMA TypedParts ==
  ASSUME LoopTyped, WaitTyped, KeysTyped
  PROVE  TypeOK
  BY DEF TypeOK, LoopTyped, WaitTyped, KeysTyped, Stages, Records

LEMMA InitIsSound == Init => IInv
  <1> SUFFICES ASSUME Init PROVE IInv
    OBVIOUS
  <1> USE DEF Init
  <1>1. 0 \in 0..Cardinality(Calls)
    BY Constants, FS_CardinalityType
  <1>2. LoopTyped
    BY Constants DEF LoopTyped, Stages, Records, NewRun, NoTurn
  <1>3. WaitTyped /\ KeysTyped
    BY <1>1 DEF WaitTyped, KeysTyped
  <1>4. TypeOK /\ LoopAgrees
    <2>1. TypeOK BY <1>2, <1>3, TypedParts
    <2> QED BY <2>1 DEF LoopAgrees, NoTurn
  <1>5. RunAgrees
    BY Constants DEF RunAgrees, Over, NewRun, NoTurn
  <1>6. RoomIsKept /\ LastIsOne /\ KeysInOrder
    BY DEF RoomIsKept, LastIsOne, KeysInOrder, Undisturbed
  <1>7. BlockedWhileWaiting
    <2>1. \A t \in 1..Turns : blocked[t] = Cardinality(Waiters(stage, t))
      BY WaitersFacts
    <2> QED BY <2>1 DEF BlockedWhileWaiting, Waiters
  <1> QED BY <1>4, <1>5, <1>6, <1>7 DEF IInv

LEMMA NextKeepsInvariant == IInv /\ [Next]_vars => IInv'
  <1> SUFFICES ASSUME IInv, [Next]_vars PROVE IInv'
    OBVIOUS
  <1> USE DEF IInv
  <1>1. CASE BatchMoves
    <2>1. LoopTyped' /\ LoopAgrees' /\ RunAgrees' BY <1>1, LoopKeepsRuns
    <2>2. WaitTyped' /\ BlockedWhileWaiting' BY <1>1, LoopKeepsWaits
    <2>3. RoomIsKept' BY <1>1, LoopKeepsRoom
    <2>4. LastIsOne' BY <1>1, LoopKeepsLast
    <2>5. KeysTyped' /\ KeysInOrder' BY <1>1, LoopKeepsKeys
    <2>6. TypeOK' BY <2>1, <2>2, <2>5, TypedParts DEF TypeOK, LoopTyped, WaitTyped, KeysTyped, Stages, Records
    <2> QED BY <2>1, <2>2, <2>3, <2>4, <2>5, <2>6
  <1>2. CASE \E c \in Calls : Moves(c)
    <2> PICK c \in Calls : Moves(c) BY <1>2
    <2>1. LoopTyped' /\ LoopAgrees' /\ RunAgrees' BY MovesKeepRuns
    <2>2. WaitTyped' /\ BlockedWhileWaiting' BY MovesKeepWaits
    <2>3. RoomIsKept' BY MovesKeepRoom
    <2>4. LastIsOne' BY MovesKeepLast
    <2>5. KeysTyped' /\ KeysInOrder' BY MovesKeepKeys
    <2>6. TypeOK' BY <2>1, <2>2, <2>5 DEF TypeOK, LoopTyped, WaitTyped, KeysTyped, Stages, Records
    <2> QED BY <2>1, <2>2, <2>3, <2>4, <2>5, <2>6
  <1>3. CASE (\E c \in Calls : BeginWrite(c) \/ JournalReady(c)) \/ UNCHANGED vars
    <2>1. UNCHANGED <<turn, begun, aborted, loop, graces, stage, before, last, run, blocked, status>>
      BY <1>3 DEF BeginWrite, JournalReady, vars
    <2>2. write' \in [Calls -> {"none", "journal", "written", "refused"}]
      BY <1>3 DEF BeginWrite, JournalReady, vars, TypeOK
    <2>3. TypeOK' BY <2>1, <2>2 DEF TypeOK
    <2>4. LoopAgrees' /\ RunAgrees'
      BY <2>1 DEF LoopAgrees, RunAgrees, Over
    <2>5. Batch' = Batch /\ Running' = Running /\ Unstarted' = Unstarted /\ (Undisturbed' <=> Undisturbed)
      BY <2>1 DEF Batch, Running, Started, Unstarted, Undisturbed
    <2>6. RoomIsKept' /\ LastIsOne'
      BY <2>1, <2>5 DEF RoomIsKept, LastIsOne
    <2>7. BlockedWhileWaiting'
      BY <2>1 DEF BlockedWhileWaiting
    <2>8. KeysInOrder'
      <3>1. ChainIsWhole => ChainIsWhole' BY <2>1, SameChain
      <3>2. \A d : TookKey(d)' <=> TookKey(d) BY <2>1, SameChain
      <3>3. KeysAreTaken => KeysAreTaken' BY <2>1, <2>5, <3>2 DEF KeysAreTaken
      <3>4. OneAtFront => OneAtFront' BY <2>1, <2>5, <3>2 DEF OneAtFront, AtFront
      <3> QED BY <2>5, <3>1, <3>3, <3>4 DEF KeysInOrder
    <2> QED BY <2>3, <2>4, <2>6, <2>7, <2>8
  <1> QED BY <1>1, <1>2, <1>3, StepsSplit

\* The records, the counts, the room, the last call and the keys stay in order.
THEOREM Invariant == Spec => []IInv
  BY InitIsSound, NextKeepsInvariant, PTL DEF Spec

\* Each call of a batch has one start, one end and one result, whatever ends late,
\* and executors that must not meet do not (ToolRunner.run, waitForKey).
THEOREM BatchSound == Spec => []BatchIsSound
  <1>1. IInv => BatchIsSound
    <2> SUFFICES ASSUME IInv PROVE EveryCallOnce /\ ConflictsWait
      BY DEF BatchIsSound
    <2> USE DEF IInv
    <2>1. EveryCallOnce
      BY DEF EveryCallOnce, RunAgrees, Over
    <2>2. ASSUME Undisturbed, NEW c \in Executing, NEW d \in Executing, c # d
          PROVE  {c, d} \cap Serial = {} /\ (Key[c] = Key[d] => Key[c] = NoKey)
      <3>1. /\ c \in Running /\ d \in Running /\ c \in Batch /\ d \in Batch
            /\ stage[c] \in {"executes", "question"} /\ stage[d] \in {"executes", "question"}
        BY DEF Executing, Running, Started
      <3>2. c \notin Serial /\ d \notin Serial
        BY <2>2, <3>1 DEF RoomIsKept
      <3>3. Key[c] # NoKey => AtFront(c)
        BY <2>2, <3>1, <3>2 DEF KeysInOrder, KeysAreTaken, AtFront
      <3>4. Key[d] # NoKey => AtFront(d)
        BY <2>2, <3>1, <3>2 DEF KeysInOrder, KeysAreTaken, AtFront
      <3> QED BY <2>2, <3>1, <3>2, <3>3, <3>4 DEF KeysInOrder, OneAtFront
    <2>3. ConflictsWait
      BY <2>2 DEF ConflictsWait, Undisturbed, RoomIsKept
    <2> QED BY <2>1, <2>3
  <1> QED BY <1>1, Invariant, PTL

\* Exactly one call of an undisturbed batch sees itself last, and the session shows
\* as blocked exactly while a call of the current turn waits (finish, #waitBlocked).
THEOREM OutsideViewTrue == Spec => []OutsideViewIsTrue
  <1>1. IInv => OutsideViewIsTrue
    <2> SUFFICES ASSUME IInv PROVE LastCallIsSeen
      BY DEF OutsideViewIsTrue, IInv
    <2> SUFFICES ASSUME loop = "settled", ~aborted[turn], Batch # {}
                 PROVE  Cardinality({c \in Batch : run[c].sawLast}) = 1
      BY DEF LastCallIsSeen
    <2> USE DEF IInv
    <2>1. Undisturbed BY DEF LoopAgrees, Undisturbed
    <2>2. \A c \in Batch : stage[c] = "done"
      BY <2>1 DEF RoomIsKept, Running, Started, Unstarted
    <2>3. \A c \in Batch : run[c].returned
      BY <2>2 DEF RunAgrees, Batch
    <2>4. PICK c \in Batch : \A d \in Batch : run[d].sawLast <=> d = c
      BY <2>1, <2>3 DEF LastIsOne
    <2>5. {d \in Batch : run[d].sawLast} = {c} BY <2>4
    <2> QED BY <2>5, FS_Singleton
  <1> QED BY <1>1, Invariant, PTL

\* No executor, no file write and no event begins for a turn that was aborted or a
\* call whose result was recorded (#runTool's checks, mutateFiles' assertActive).
THEOREM NothingIsLate == Spec => NothingLate
  <1> DEFINE Late ==
        \A c \in Calls :
          /\ (stage[c] = "shown" /\ stage'[c] = "executes") => ~Gone(c)
          /\ (write[c] # "written" /\ write'[c] = "written") =>
               ~Gone(c) /\ stage[c] \in {"executes", "question"}
          /\ run[c].finished => /\ run'[c].ended = run[c].ended
                                 /\ run'[c].started = run[c].started
  <1>1. IInv /\ [Next]_vars => [Late]_vars
    <2> SUFFICES ASSUME IInv, Next, NEW c \in Calls
        PROVE  /\ (stage[c] = "shown" /\ stage'[c] = "executes") => ~Gone(c)
               /\ (write[c] # "written" /\ write'[c] = "written") =>
                    ~Gone(c) /\ stage[c] \in {"executes", "question"}
               /\ run[c].finished => /\ run'[c].ended = run[c].ended
                                      /\ run'[c].started = run[c].started
      OBVIOUS
    <2> USE DEF IInv
    <2>1. CASE BatchMoves
      <3>1. write' = write /\ (stage[c] = "shown" => stage'[c] # "executes")
        <4>1. CASE Interrupted
          BY <4>1, InterruptFacts, InterruptedFacts
        <4>2. CASE Start
          <5> DEFINE m == Min(Unstarted)
          <5>1. stage' = [stage EXCEPT ![m] = "gates"] /\ write' = write BY <4>2 DEF Start
          <5> HIDE DEF m
          <5> QED BY <5>1 DEF TypeOK
        <4>3. CASE BeginTurn \/ EndTurn \/ LeaveLoop \/ Settle
          BY <4>3 DEF BeginTurn, EndTurn, LeaveLoop, Settle
        <4> QED BY <2>1, <4>1, <4>2, <4>3 DEF BatchMoves
      <3>2. ASSUME run[c].finished
            PROVE  run'[c].ended = run[c].ended /\ run'[c].started = run[c].started
        <4>1. CASE Interrupted
          <5>1. run[c].started = 1 BY <3>2 DEF RunAgrees
          <5> QED BY <4>1, <5>1, InterruptFacts, InterruptedFacts
        <4>2. CASE Settle
          <5>1. TurnOf[c] # turn BY <3>2, <4>2 DEF Settle, RunAgrees, Over
          <5> QED BY <4>2, <5>1, SettledFacts
        <4>3. CASE BeginTurn \/ EndTurn \/ LeaveLoop \/ Start
          BY <4>3 DEF BeginTurn, EndTurn, LeaveLoop, Start
        <4> QED BY <2>1, <4>1, <4>2, <4>3 DEF BatchMoves
      <3> QED BY <3>1, <3>2
    <2>2. CASE \E d \in Calls : Moves(d)
      <3> PICK d \in Calls : Moves(d) BY <2>2
      <3>1. CASE c # d
        BY <3>1, MovesInBatch, MoveFacts
      <3>2. CASE c = d
        <4>1. write' = write BY MoveFacts
        <4>2. (stage[c] = "shown" /\ stage'[c] = "executes") => ~Gone(c) BY <3>2, MoveEffects
        <4>3. ASSUME run[c].finished
              PROVE  run'[c].ended = run[c].ended /\ run'[c].started = run[c].started
          <5>1. run[c].started = 1 /\ run[c] \in Records BY <4>3 DEF RunAgrees, TypeOK, Records
          <5>2. CASE stage'[c] = "after" BY <3>2, <5>1, <5>2, RecordFacts
          <5>3. CASE stage'[c] = "shown"
            <6>1. run'[c] = [run[c] EXCEPT !.started = 1] BY <3>2, <5>3, RecordFacts
            <6> QED BY <5>1, <6>1 DEF Records
          <5>4. CASE stage'[c] \notin {"after", "shown"}
            <6>1. run'[c] = run[c] BY <3>2, <4>3, <5>4, RecordFacts
            <6> QED BY <6>1
          <5> QED BY <5>2, <5>3, <5>4
        <4> QED BY <4>1, <4>2, <4>3
      <3> QED BY <3>1, <3>2
    <2>3. CASE \E d \in Calls : BeginWrite(d) \/ JournalReady(d)
      <3> PICK d \in Calls : BeginWrite(d) \/ JournalReady(d) BY <2>3
      <3>1. UNCHANGED <<stage, run>> BY DEF BeginWrite, JournalReady
      <3>2. (write[c] # "written" /\ write'[c] = "written") => c = d /\ JournalReady(d) /\ Active(d)
        BY DEF BeginWrite, JournalReady, TypeOK
      <3> QED BY <3>1, <3>2 DEF Active
    <2> QED BY <2>1, <2>2, <2>3, StepsSplit
  <1> QED BY <1>1, Invariant, PTL DEF Spec, NothingLate
=============================================================================
