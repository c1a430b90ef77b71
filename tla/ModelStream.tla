----------------------------- MODULE ModelStream -----------------------------
(***************************************************************************)
(* What a remote agent is promised by the model proxy of packages/cli/src/ *)
(* remote: one physical request per call, whose events are read once each  *)
(* and in order, and which ends normally only when all were read.  How     *)
(* often the connection is lost meanwhile does not show.                   *)
(***************************************************************************)
EXTENDS Naturals

CONSTANTS Calls  \* the model calls

VARIABLES
  ran,   \* ran[c]: how often the request of c was given to a provider
  made,  \* made[c]: how many events the provider's answer has so far
  term,  \* term[c]: "no", or how the answer ended: "end" or "failure"
  read,  \* read[c]: how many of them the caller took
  how    \* how[c]: how c ended for its caller: "no", "normal", "failed"

vars == <<ran, made, term, read, how>>

Init ==
  /\ ran = [c \in Calls |-> 0]
  /\ made = [c \in Calls |-> 0]
  /\ term = [c \in Calls |-> "no"]
  /\ read = [c \in Calls |-> 0]
  /\ how = [c \in Calls |-> "no"]

\* The provider gets the request, for the first and last time.
Run(c) ==
  /\ ran[c] = 0
  /\ ran' = [ran EXCEPT ![c] = 1]
  /\ UNCHANGED <<made, term, read, how>>

\* The answer grows by one event, which may be its last.
Make(c) ==
  /\ ran[c] = 1 /\ term[c] = "no"
  /\ made' = [made EXCEPT ![c] = @ + 1]
  /\ \E t \in {"no", "end", "failure"} : term' = [term EXCEPT ![c] = t]
  /\ UNCHANGED <<ran, read, how>>

\* The caller takes the next event, never the one that reports a failure.
Read(c) ==
  /\ how[c] = "no" /\ read[c] < made[c]
  /\ read[c] + 1 = made[c] => term[c] # "failure"
  /\ read' = [read EXCEPT ![c] = @ + 1]
  /\ \/ UNCHANGED how
     \* The last one ends the call normally ...
     \/ /\ read[c] + 1 = made[c] /\ term[c] = "end"
        /\ how' = [how EXCEPT ![c] = "normal"]
     \* ... unless it was cancelled meanwhile.
     \/ how' = [how EXCEPT ![c] = "failed"]
  /\ UNCHANGED <<ran, made, term>>

\* It may fail at any moment: cancelled, expired, or the broker is lost.
Fail(c) ==
  /\ how[c] = "no"
  /\ how' = [how EXCEPT ![c] = "failed"]
  /\ UNCHANGED <<ran, made, term, read>>

Next == \E c \in Calls : Run(c) \/ Make(c) \/ Read(c) \/ Fail(c)

Spec == Init /\ [][Next]_vars
=============================================================================
