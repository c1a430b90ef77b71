------------------------------ MODULE Admission ------------------------------
(***************************************************************************)
(* Places for sub-agents (packages/core/src/subagents/scheduler.ts) and    *)
(* the life of the children that ask for them (core/src/subagents.ts,      *)
(* agent/turn-runner.ts, subagents/pause.ts, subagents/consult-parent.ts). *)
(*                                                                         *)
(* A child occupies a place from the moment the queue admits it.  While it *)
(* waits inside its tools it lends the place to its descendants; before it *)
(* calls its model again it gives the place up and queues for another.     *)
(* A question to its parent's model is a stream of its own, which outlives *)
(* the turn, even the child.  Places are granted in one synchronous pass,  *)
(* what they were granted for starts a microtask later.                    *)
(***************************************************************************)
EXTENDS Naturals, FiniteSets, Collections

CONSTANTS
  Children,          \* every child that may be spawned
  Root,              \* the session at the top of the tree
  Parent,            \* who spawns a child: a child, or Root
  Ephemeral,         \* children that are private interactive turns
  Persistent,        \* children that stay for further messages
  Awaited,           \* children whose end the tools of their parent wait for
  Groups,
  Members,           \* the children of each group, and theirs
  GroupLimit,        \* limits.maxConcurrent of each group
  MaxConcurrent,     \* places in the tree
  MaxBatches,        \* bound: tool batches of one child
  MaxQuestions,      \* bound: questions of one child
  MaxTurns,          \* maxTurns
  MaxPauses,         \* bound: user pauses, in the tree
  UnawaitedQuestions \* whether a tool may return before its question is answered

ASSUME TreeAssumption ==
  /\ IsFiniteSet(Children) /\ Root \notin Children
  /\ Parent \in [Children -> Children \cup {Root}]
  /\ Persistent \subseteq Children /\ Ephemeral \subseteq Persistent
  /\ \A c \in Children : Parent[c] \in Ephemeral => c \in Ephemeral
  /\ Awaited \subseteq Children \ Persistent
  /\ Members \in [Groups -> SUBSET Children]
  /\ GroupLimit \in [Groups -> Nat \ {0}]
  /\ {MaxConcurrent, MaxTurns} \subseteq Nat \ {0}
  /\ {MaxBatches, MaxQuestions, MaxPauses} \subseteq Nat
  /\ UnawaitedQuestions \in BOOLEAN

VARIABLES
  places,    \* the scheduler: its queue and five sets, and whose execution is paused
  work,      \* where each child is
  question,  \* the question of each child to its parent's model
  aborted,   \* abortReason is set
  stopped,   \* stopReason is set
  spent      \* batches, questions, turns and pauses each child used

admissionVars == <<places, work, question, aborted, stopped, spent>>

Turn(c) == [child |-> c, consultation |-> FALSE]
Consultation(c) == [child |-> c, consultation |-> TRUE]
Entries == {Turn(c) : c \in Children} \cup {Consultation(c) : c \in Children}

\* queued, starting: admitted for the first time; reentering, resuming: before a
\* model call; idle, waiting, waking: between turns; ghost: ended before it started.
Works == {"unborn", "queued", "starting", "boundary", "model", "tools", "reentering",
          "resuming", "idle", "waiting", "waking", "ghost", "ended"}

Granted == [w \in {"queued", "reentering", "waiting"} |->
              IF w = "queued" THEN "starting" ELSE IF w = "waiting" THEN "waking" ELSE "resuming"]

LiveChildren(w) == {c \in Children : w[c] \notin {"unborn", "ghost", "ended"}}

AdmissionInit ==
  /\ places = [queue |-> <<>>, running |-> {}, consulting |-> {}, toolWaits |-> {},
               yielded |-> {}, parents |-> {}, paused |-> {}]
  /\ work = [c \in Children |-> "unborn"]
  /\ question = [c \in Children |-> "none"]
  /\ aborted = {} /\ stopped = {}
  /\ spent = [c \in Children |-> [batches |-> 0, questions |-> 0, turns |-> 0, pauses |-> 0]]

-----------------------------------------------------------------------------
(* The scheduler. *)

\* The ancestors #parents still leads to: an ended child hides those above it.
Ancestors(p, c) ==
  LET above[k \in Children] ==
        IF Parent[k] = Root THEN {}
        ELSE {Parent[k]} \cup IF Parent[k] \in p.parents THEN above[Parent[k]] ELSE {}
  IN above[c]

YieldToolParents(p, c) == [p EXCEPT !.yielded = @ \cup (p.toolWaits \cap Ancestors(p, c))]

\* MUTANT of Busy: a question's stream takes no place of its own.
BusyRunning(p, among) ==
  Cardinality({c \in among : c \in p.running /\ (c \in p.paused \/ c \notin p.yielded)})

Busy(p, among) ==
  Cardinality({c \in among :
    c \in p.consulting \/ (c \in p.running /\ (c \in p.paused \/ c \notin p.yielded))})

\* MUTANT of OrdinaryLimit: no place is kept free.
OrdinaryLimitAll == MaxConcurrent

OrdinaryLimit == IF MaxConcurrent > 1 THEN MaxConcurrent - 1 ELSE 1

\* MUTANT of GroupFull: only the live members of a group are counted.
GroupFullLive(p, live, c) ==
  \E g \in Groups : c \in Members[g] /\ Busy(p, Members[g] \cap live) >= GroupLimit[g]

GroupFull(p, live, c) ==
  \E g \in Groups :
    /\ c \in Members[g]
    /\ Busy(p, Members[g] \cap (live \cup p.consulting)) >= GroupLimit[g]

\* The places after the entries of a set were granted.
Given(p, entries) ==
  [p EXCEPT !.running = @ \cup {e.child : e \in {x \in entries : ~x.consultation}},
            !.consulting = @ \cup {e.child : e \in {x \in entries : x.consultation}}]

\* An entry is passed over, when those granted before it in the same pass leave no
\* room for it.
Full(p, live, before, entry) ==
  LET c == entry.child
      occupants == p.running \cup p.consulting
      ordinary == {e \in before : e.child \notin Ephemeral}
  IN \/ Busy(p, occupants) + Cardinality(before) >= MaxConcurrent
     \/ c \in Given(p, before).consulting
     \/ /\ c \notin Ephemeral
        /\ Busy(p, occupants \ Ephemeral) + Cardinality(ordinary) >= OrdinaryLimit
     \/ GroupFull(Given(p, before), live, c)

\* admit(): every entry in turn, the oldest first, is granted unless it is full.
Grants(p, live, granted) == \A i \in DOMAIN p.queue :
  p.queue[i] \in granted <=>
    ~Full(p, live, granted \cap {p.queue[j] : j \in 1..(i - 1)}, p.queue[i])

\* MUTANT of Enqueue: nobody lends its place to a descendant.
EnqueueOnly(p, entry) == [p EXCEPT !.queue = Append(@, entry)]

Enqueue(p, entry) == YieldToolParents([p EXCEPT !.queue = Append(@, entry)], entry.child)

\* MUTANT of Dequeued: an aborted child leaves its entry in the queue.
DequeuedNone(p, among) == p

Dequeued(p, among) ==
  [p EXCEPT !.queue = Without(@, {e \in Entries : e.child \in among})]

Released(p, c) ==
  [p EXCEPT !.running = @ \ {c}, !.toolWaits = @ \ {c}, !.yielded = @ \ {c}]

\* The step leaves the scheduler at p, children at w and questions at q, and admits.
Admitting(p, w, q) == \E granted \in SUBSET ToSet(p.queue) :
  /\ Grants(p, LiveChildren(w), granted)
  /\ places' = [Given(p, granted) EXCEPT !.queue = Without(@, granted)]
  /\ work' = [c \in Children |-> IF Turn(c) \in granted THEN Granted[w[c]] ELSE w[c]]
  /\ question' = [c \in Children |-> IF Consultation(c) \in granted THEN "streaming" ELSE q[c]]

At(c, state) == [work EXCEPT ![c] = state]
Spend(c, what) == spent' = [spent EXCEPT ![c][what] = @ + 1]

-----------------------------------------------------------------------------
(* A child's first place. *)

Spawn(c) ==
  /\ work[c] = "unborn"
  /\ Parent[c] # Root => work[Parent[c]] = "tools" /\ Parent[c] \notin aborted \cup stopped
  /\ UNCHANGED <<aborted, stopped, spent>>
  /\ Admitting(Enqueue([places EXCEPT !.parents = @ \cup {c}], Turn(c)),
               At(c, "queued"), question)

Start(c) ==
  /\ work[c] = "starting"
  /\ work' = At(c, "boundary")
  /\ Spend(c, "turns")
  /\ UNCHANGED <<places, question, aborted, stopped>>

-----------------------------------------------------------------------------
(* A turn: model calls and batches of tools. *)

\* beforeModel: a child that lent its place queues for another one.
CallModel(c) ==
  /\ work[c] = "boundary" /\ c \notin places.paused \cup aborted
  /\ UNCHANGED <<aborted, stopped, spent>>
  /\ IF c \in places.yielded
     THEN Admitting(Enqueue(Released(places, c), Turn(c)), At(c, "reentering"), question)
     ELSE work' = At(c, "model") /\ UNCHANGED <<places, question>>

Resume(c) ==
  /\ work[c] = "resuming"
  /\ work' = At(c, IF c \in aborted THEN "boundary" ELSE "model")
  /\ UNCHANGED <<places, question, aborted, stopped, spent>>

BeginTools(c) ==
  /\ work[c] = "model" /\ c \notin places.paused \cup aborted
  /\ spent[c].batches < MaxBatches
  /\ Spend(c, "batches")
  /\ UNCHANGED <<aborted, stopped>>
  /\ LET below == {k \in places.running \cup {places.queue[i].child : i \in DOMAIN places.queue} :
                     c \in Ancestors(places, k)}
         waits == [places EXCEPT !.toolWaits = @ \cup {c}]
     IN Admitting(IF below # {} THEN [waits EXCEPT !.yielded = @ \cup {c}] ELSE waits,
                  At(c, "tools"), question)

EndTools(c) ==
  /\ work[c] = "tools"
  /\ \/ c \in aborted
     \/ /\ question[c] = "none" \/ UnawaitedQuestions
        /\ \A k \in Awaited : Parent[k] = c => work[k] \in {"unborn", "ghost", "ended"}
  /\ places' = [places EXCEPT !.toolWaits = @ \ {c}]
  /\ work' = At(c, "boundary")
  /\ UNCHANGED <<question, aborted, stopped, spent>>

-----------------------------------------------------------------------------
(* Questions to the parent's model. *)

\* MUTANT of Ask: the question queues beside the place its child keeps.
AskBeside(c) ==
  /\ work[c] = "tools" /\ c \notin aborted /\ question[c] = "none"
  /\ spent[c].questions < MaxQuestions
  /\ Spend(c, "questions")
  /\ UNCHANGED <<aborted, stopped>>
  /\ Admitting(Enqueue(places, Consultation(c)), work, [question EXCEPT ![c] = "queued"])

\* acquireConsultation: the place the child has, or a place for the question.
Ask(c) ==
  /\ work[c] = "tools" /\ c \notin aborted /\ question[c] = "none"
  /\ spent[c].questions < MaxQuestions
  /\ Spend(c, "questions")
  /\ UNCHANGED <<aborted, stopped>>
  /\ IF c \in places.running \ places.yielded
     THEN /\ places' = [places EXCEPT !.consulting = @ \cup {c}]
          /\ question' = [question EXCEPT ![c] = "streaming"]
          /\ UNCHANGED work
     ELSE Admitting(Enqueue([places EXCEPT !.running = @ \ {c}], Consultation(c)),
                    work, [question EXCEPT ![c] = "queued"])

\* The tool gives its question up while it has no place.
DropQuestion(c) ==
  /\ question[c] = "queued"
  /\ places' = [places EXCEPT !.queue = Without(@, {Consultation(c)})]
  /\ question' = [question EXCEPT ![c] = "none"]
  /\ UNCHANGED <<work, aborted, stopped, spent>>

\* MUTANT of Answered: the place goes back to a child that ended meanwhile.
AnsweredAlways(p, c) == [p EXCEPT !.consulting = @ \ {c}, !.running = @ \cup {c}]

\* What a stream that ended leaves of the places of its child.
Answered(p, c) ==
  [p EXCEPT !.consulting = @ \ {c},
            !.running = IF c \in p.parents THEN @ \cup {c} ELSE @]

EndStream(c) ==
  /\ question[c] = "streaming"
  /\ UNCHANGED <<aborted, stopped, spent>>
  /\ Admitting(Answered(places, c), work, [question EXCEPT ![c] = "none"])

-----------------------------------------------------------------------------
(* Between turns, and the end. *)

Staying(c) == c \in Persistent \ (aborted \cup stopped) /\ spent[c].turns < MaxTurns

\* A message came in while the turn ran: the next turn follows in the same place.
NextTurn(c) ==
  /\ work[c] = "model" /\ c \notin places.paused /\ Staying(c)
  /\ work' = At(c, "boundary")
  /\ Spend(c, "turns")
  /\ UNCHANGED <<places, question, aborted, stopped>>

Rest(c) ==
  /\ work[c] = "model" /\ c \notin places.paused /\ Staying(c)
  /\ UNCHANGED <<aborted, stopped, spent>>
  /\ Admitting(Released(places, c), At(c, "idle"), question)

Deliver(c) ==
  /\ work[c] = "idle"
  /\ UNCHANGED <<aborted, stopped, spent>>
  /\ Admitting(Enqueue(places, Turn(c)), At(c, "waiting"), question)

BeginTurn(c) ==
  /\ work[c] = "waking" /\ c \notin aborted \cup stopped
  /\ work' = At(c, "boundary")
  /\ Spend(c, "turns")
  /\ UNCHANGED <<places, question, aborted, stopped>>

\* abortChild of each of these: whatever they wait for gives up at once, and those
\* that never started end here.  A place granted to one of them stays until its
\* microtask runs.
Aborted(p, w, q, among) ==
  [places |-> [Dequeued(p, among) EXCEPT
                 !.parents = @ \ {c \in among : w[c] \in {"queued", "starting"}}],
   work |-> [c \in Children |->
     IF c \notin among THEN w[c]
     ELSE CASE w[c] = "queued" -> "ended"
            [] w[c] = "starting" -> "ghost"
            [] w[c] = "reentering" -> "boundary"
            [] w[c] \in {"idle", "waiting"} -> "waking"
            [] OTHER -> w[c]],
   question |-> [c \in Children |->
     IF c \in among /\ q[c] = "queued" THEN "none" ELSE q[c]]]

\* #run is over: release, #finish with its children, admit.
End(c) ==
  /\ \/ work[c] = "model" /\ (c \notin places.paused \/ c \in aborted)
     \/ work[c] = "boundary" /\ c \in aborted
     \/ work[c] = "waking" /\ c \in aborted \cup stopped
  /\ LET orphans == {k \in LiveChildren(work) \ aborted : Parent[k] = c}
         left == [Released(places, c) EXCEPT !.parents = @ \ {c}, !.paused = @ \ {c}]
         r == Aborted(left, At(c, "ended"), question, orphans)
     IN /\ aborted' = aborted \cup orphans
        /\ Admitting(r.places, r.work, r.question)
  /\ UNCHANGED <<stopped, spent>>

\* The microtask of a child that was ended before it ran.
EndGhost(c) ==
  /\ work[c] = "ghost"
  /\ UNCHANGED <<aborted, stopped, spent>>
  /\ Admitting(Released(places, c), At(c, "ended"), question)

Abort(c) ==
  /\ c \in LiveChildren(work) \ aborted
  /\ LET r == Aborted(places, work, question, {c})
     IN places' = r.places /\ work' = r.work /\ question' = r.question
  /\ aborted' = aborted \cup {c}
  /\ UNCHANGED <<stopped, spent>>

\* stopChild: a paused one goes on to the end of its turn, an idle one ends.
Stop(c) ==
  /\ c \in (LiveChildren(work) \cap Persistent) \ (aborted \cup stopped)
  /\ stopped' = stopped \cup {c}
  /\ UNCHANGED <<aborted, spent>>
  /\ IF c \in places.paused
     THEN Admitting([places EXCEPT !.paused = @ \ {c}], work, question)
     ELSE IF work[c] \in {"queued", "starting", "idle", "waiting"}
     THEN LET r == Aborted(places, work, question, {c})
          IN places' = r.places /\ work' = r.work /\ question' = r.question
     ELSE UNCHANGED <<places, work, question>>

-----------------------------------------------------------------------------
(* The user's hold on one child. *)

Pause(c) ==
  /\ work[c] \in {"boundary", "model", "tools", "reentering", "resuming"}
  /\ c \notin places.paused \cup aborted \cup stopped
  /\ Total([k \in Children |-> spent[k].pauses], Children) < MaxPauses
  /\ places' = [places EXCEPT !.paused = @ \cup {c}]
  /\ Spend(c, "pauses")
  /\ UNCHANGED <<work, question, aborted, stopped>>

Unpause(c) ==
  /\ c \in places.paused \ aborted
  /\ UNCHANGED <<aborted, stopped, spent>>
  /\ Admitting([places EXCEPT !.paused = @ \ {c}], work, question)

-----------------------------------------------------------------------------
Progress(c) ==
  \/ Start(c) \/ CallModel(c) \/ Resume(c) \/ EndTools(c) \/ EndStream(c)
  \/ BeginTurn(c) \/ End(c) \/ EndGhost(c)

AdmissionNext ==
  \E c \in Children :
    \/ Spawn(c) \/ Progress(c) \/ BeginTools(c)
    \/ Ask(c) \/ DropQuestion(c)
    \/ NextTurn(c) \/ Rest(c) \/ Deliver(c)
    \/ Abort(c) \/ Stop(c) \/ Pause(c) \/ Unpause(c)

AdmissionSpec == AdmissionInit /\ [][AdmissionNext]_admissionVars

\* While a microtask is due, a model call or a stream runs, or a batch of tools
\* has nothing left to wait for, something of it happens.  Every run is bounded,
\* so it needs no fairness of one child over another, and nothing is assumed of
\* users and senders.
AdmissionFairSpec == AdmissionSpec /\ WF_admissionVars(\E c \in Children : Progress(c) \/ Rest(c))

-----------------------------------------------------------------------------
(* Properties. *)

\* Every variable is in its range, and the queue holds an entry at most once:
\* a turn of the children that wait for one, a question of those that queued one.
AdmissionTypeOK ==
  /\ places.queue \in Seq(Entries)
  /\ \A f \in {"running", "consulting", "toolWaits", "yielded", "parents", "paused"} :
       places[f] \subseteq Children
  /\ work \in [Children -> Works]
  /\ question \in [Children -> {"none", "queued", "streaming"}]
  /\ aborted \subseteq Children /\ stopped \subseteq Persistent
  /\ \A c \in Children :
       /\ spent[c].batches \in 0..MaxBatches /\ spent[c].questions \in 0..MaxQuestions
       /\ spent[c].turns \in 0..MaxTurns /\ spent[c].pauses \in 0..MaxPauses
       /\ Cardinality({i \in DOMAIN places.queue : places.queue[i] = Turn(c)})
            = IF work[c] \in DOMAIN Granted THEN 1 ELSE 0
       /\ Cardinality({i \in DOMAIN places.queue : places.queue[i] = Consultation(c)})
            = IF question[c] = "queued" THEN 1 ELSE 0

\* Model streams the provider serves at this moment.
Streams == {c \in Children : work[c] = "model"} \cup {c \in Children : question[c] = "streaming"}

\* The tree never has more children at a model, in a turn of theirs or in a
\* question that outlived it, than it has places (admit).
WithinPlaces == Cardinality(Streams) <= MaxConcurrent

\* No group exceeds its own limit either, whatever its members nest and lend.
WithinGroups == \A g \in Groups : Cardinality(Streams \cap Members[g]) <= GroupLimit[g]

\* Ordinary work leaves one place to private interactive turns.
RoomForPrivateTurns ==
  MaxConcurrent > 1 => Cardinality(Streams \ Ephemeral) <= MaxConcurrent - 1

\* A place is held for somebody: a child between turns or at its end holds none,
\* and one that queues for a place does not hold another meanwhile.
PlacesAreUsed ==
  /\ \A c \in places.running : work[c] \notin {"unborn", "queued", "reentering", "idle", "waiting", "ended"}
  /\ places.consulting = {c \in Children : question[c] = "streaming"}

\* All limits on the models of a tree hold at once, and no place leaks, whoever
\* yields, lends, asks or pauses.
LimitsHold == AdmissionTypeOK /\ WithinPlaces /\ WithinGroups /\ RoomForPrivateTurns /\ PlacesAreUsed

\* Whoever queues for a place, for a turn or for a question, gets it or gives up,
\* unless a user holds a child: parents lend the places their descendants need.
Queues(c) == c \in {places.queue[i].child : i \in DOMAIN places.queue}
EveryoneIsAdmitted == \A c \in Children : []<>(~Queues(c) \/ places.paused # {})
=============================================================================
