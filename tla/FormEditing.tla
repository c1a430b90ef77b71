---------------------------- MODULE FormEditing ----------------------------
(***************************************************************************)
(* One form that an extension asks, from its request to its settlement:    *)
(*   - the host keeps the pending request, the authority of its editor     *)
(*     (editor and revision), the approval of its final check, the options *)
(*     its automatic action loaded and the operations that run             *)
(*     (core/src/ui-requests.ts, core/src/frontend/form-backend.ts);       *)
(*   - views are mounted one after the other in an attached client; each   *)
(*     claims the editor, sends revisions of its draft for evaluation,     *)
(*     runs the automatic action and saves or cancels                      *)
(*     (tui/src/form-view.ts, cli/src/remote/agent-port-forms.ts);         *)
(*   - requests and replies cross one connection, in order, that may drop: *)
(*     claims and evaluations are asked again, mutations are not, a        *)
(*     cancellation waits for the connection, and what the daemon admitted *)
(*     runs on without its client;                                         *)
(*   - a library caller may also answer directly (respond), and the asker  *)
(*     may give up at any time.                                            *)
(* A draft is a member of Drafts; KeyOf names the part of it the automatic *)
(* action watches, and the options the action loads are named by that key. *)
(***************************************************************************)
EXTENDS Integers, Sequences, FiniteSets

CONSTANTS Views,      \* how many views are mounted, one after the other
          Drafts,     \* the drafts an editor may hold
          Blank,      \* the draft a view starts with
          KeyOf,      \* what the automatic action watches of a draft
          MaxEvents   \* edits, saves, cancellations, replacements, direct answers,
                      \* drops of the connection, the asker giving up, all together

ASSUME FormAssumption ==
  /\ Views \in Nat \ {0} /\ Blank \in Drafts /\ KeyOf \in [Drafts -> Nat \ {0}]
  /\ MaxEvents \in Nat

VARIABLES
  form,      \* the request: pending, cancelled, or saved with a draft
  authority, \* the editor that may change the form, and its revision
  approved,  \* the editor, revision and draft the final check passed for
  checking,  \* a direct answer is being checked
  options,   \* the options the host holds: the key they were loaded for
  attempt,   \* the automatic attempt: its key, and its run until it is done
  runs,      \* callbacks of the form that are running
  claims,    \* the claims the ledger remembers, by view
  passed,    \* history: what every passed check was asked about
  view,      \* the views
  mounted,   \* the view mounted last
  link,      \* the connection: up or not, and how often it dropped
  up, down,  \* requests and replies on their way; while the connection is down, `up`
             \* holds the cancellations that wait for it
  events     \* what happened of its own accord so far

host   == <<form, authority, approved, checking, options, attempt, runs, claims, passed>>
vars   == <<host, view, mounted, link, up, down, events>>
-----------------------------------------------------------------------------
NoRev      == -1
NoRun      == <<0, "none", 0>>
NoAttempt  == [key |-> 0, run |-> NoRun]
NoApproval == [editor |-> -1, rev |-> NoRev, draft |-> Blank]

Pending == form.status = "pending"
Settled == ~Pending

\* A callback of the form: a check (of a save or of a direct answer) or an action.
Run(id, editor, rev, draft) ==
  [id |-> id, editor |-> editor, rev |-> rev, draft |-> draft, conn |-> link.drops,
   aborted |-> FALSE, result |-> "none"]

NewView ==
  [phase |-> "opening", rev |-> 0, draft |-> Blank, evaluated |-> NoRev, awaited |-> 0, stale |-> FALSE,
   forgone |-> FALSE, shown |-> 0, acting |-> NoRev, tried |-> 0, saving |-> 0, saves |-> 0, leaving |-> 0,
   lost |-> FALSE, replay |-> FALSE]

Unmounted == [NewView EXCEPT !.phase = "closed"]

Init ==
  /\ form = [status |-> "pending", draft |-> Blank] /\ authority = [editor |-> 0, rev |-> NoRev]
  /\ approved = NoApproval /\ checking = FALSE /\ options = 0 /\ attempt = NoAttempt /\ runs = {}
  /\ claims = [w \in 1 .. Views |-> NoRev] /\ passed = {}
  /\ view = [w \in 1 .. Views |-> Unmounted] /\ mounted = 0
  /\ link = [up |-> TRUE, drops |-> 0] /\ up = <<>> /\ down = <<>>
  /\ events = 0
-----------------------------------------------------------------------------
(* The view.  A step computes the view it leaves and the frames it sends;  *)
(* the automatic action is looked at last, in every one of them.           *)

\* An event that nothing in the program owes: within the bound.
Event == events < MaxEvents /\ events' = events + 1

Open(v) == v.phase # "closed"
Key(v)  == KeyOf[v.draft]

Frame(op, w, v) == [op |-> op, view |-> w, rev |-> v.rev, draft |-> v.draft, id |-> v.saves]

\* Ends the save or the action in progress: its reply is no longer awaited and the
\* daemon is asked to stop it.
StopSave(w, v)   == IF v.saving # 0 THEN <<[op |-> "stop", run |-> <<w, "save", v.saving>>]>> ELSE <<>>
StopAction(w, v) == IF v.acting # NoRev THEN <<[op |-> "stop", run |-> <<w, "action", v.acting>>]>> ELSE <<>>

\* Asks for an evaluation of the draft; only the answer to the last question counts.
Evaluating(v) ==
  [v EXCEPT !.stale = TRUE, !.forgone = FALSE, !.awaited = IF link.up THEN @ + 1 ELSE 0]

Acts(v) == /\ v.phase = "ready" /\ v.evaluated = v.rev /\ v.acting = NoRev
           /\ v.tried # Key(v) /\ ~v.replay

Becomes(w, v, frames) ==
  /\ view' = [view EXCEPT ![w] = IF Acts(v) THEN [v EXCEPT !.acting = v.rev, !.tried = Key(v)] ELSE v]
  /\ up' = IF link.up THEN up \o frames \o (IF Acts(v) THEN <<Frame("action", w, v)>> ELSE <<>>) ELSE up

Closed(w, v) == Becomes(w, Unmounted, StopSave(w, v) \o StopAction(w, v))

\* A replayed request is displayed, but runs no action before it is edited.
Mount ==
  /\ Pending /\ mounted < Views
  /\ \A w \in 1 .. Views : ~Open(view[w])
  /\ mounted' = mounted + 1
  /\ \E replay \in BOOLEAN :
       Becomes(mounted + 1, [NewView EXCEPT !.replay = replay], <<Frame("open", mounted + 1, NewView)>>)
  /\ UNCHANGED <<host, link, down, events>>

\* Presentation is released; what the view had the host do goes on.
Detach(w) ==
  /\ Open(view[w]) /\ w < Views /\ Pending
  /\ Event
  /\ Becomes(w, Unmounted, <<>>)
  /\ UNCHANGED <<host, mounted, link, down>>

\* An edit makes a new revision.  It stops the save and, until the revision is
\* evaluated, leaves no action eligible: the running one is stopped and may be tried again.
Edit(w, d) ==
  LET v    == view[w]
      kept == v.acting = NoRev /\ v.tried = KeyOf[d]
      changed == [v EXCEPT !.rev = @ + 1, !.draft = d, !.saving = 0, !.acting = NoRev, !.leaving = 0,
                           !.tried = IF kept THEN @ ELSE 0, !.lost = @ /\ kept, !.replay = FALSE]
  IN  /\ Open(v) /\ d # v.draft /\ Event
      /\ IF v.phase = "ready"
         THEN Becomes(w, Evaluating(changed),
                      StopSave(w, v) \o <<Frame("evaluate", w, changed)>> \o StopAction(w, v))
         ELSE Becomes(w, changed, <<>>)
      /\ UNCHANGED <<host, mounted, link, down>>

Save(w) ==
  LET v == [view[w] EXCEPT !.saves = @ + 1, !.saving = view[w].saves + 1]
  IN  /\ view[w].phase = "ready" /\ link.up
      /\ view[w].evaluated = view[w].rev /\ view[w].saving = 0
      /\ Event
      /\ Becomes(w, v, <<Frame("save", w, v)>>)
      /\ UNCHANGED <<host, mounted, link, down>>

\* Cancelling ends the evaluation that is awaited at once, as failed, and asks for none in
\* its place.  The request is sent once, without a connection as soon as there is one.  A
\* form with changes asks its user first, which ends its save.
Cancel(w) ==
  LET v       == view[w]
      changed == v.draft # Blank
      stops   == IF changed THEN StopSave(w, v) ELSE <<>>
      left    == [v EXCEPT !.leaving = @ + 1, !.saving = IF changed THEN 0 ELSE @,
                           !.stale = FALSE, !.forgone = @ \/ v.stale]
  IN  /\ v.phase = "ready" /\ Event
      /\ \/ link.up /\ Becomes(w, left, stops \o <<Frame("cancel", w, v)>>)
         \/ ~link.up /\ view' = [view EXCEPT ![w] = left] /\ up' = Append(up, Frame("cancel", w, v))
      /\ UNCHANGED <<host, mounted, link, down>>

\* The event ui.resolved, or the state a reconnected client is given.
Resolved(w) ==
  /\ Settled /\ Open(view[w]) /\ link.up
  /\ Closed(w, view[w])
  /\ UNCHANGED <<host, mounted, link, down, events>>
-----------------------------------------------------------------------------
(* Replies.  Those to a question nobody awaits any longer change nothing   *)
(* but the count of evaluations on their way.                              *)

OnOpen(m, w, v) ==
  IF v.phase # "opening" THEN Becomes(w, v, <<>>)
  ELSE IF m.status = "failed" THEN Becomes(w, [v EXCEPT !.phase = "failed"], <<>>)
  ELSE LET ready == [v EXCEPT !.phase = "ready", !.rev = @ + m.rev]
       IN  Becomes(w, Evaluating(ready), <<Frame("evaluate", w, ready)>>)

OnEvaluate(m, w, v) ==
  LET answered == [v EXCEPT !.awaited = @ - 1]
  IN  IF v.phase # "ready" THEN Becomes(w, v, <<>>)
      ELSE IF v.awaited > 1 \/ ~v.stale THEN Becomes(w, answered, <<>>)
      ELSE IF m.status = "failed" THEN Becomes(w, [answered EXCEPT !.stale = FALSE, !.lost = TRUE], <<>>)
      ELSE Becomes(w, [answered EXCEPT !.stale = FALSE, !.evaluated = m.rev, !.shown = m.options], <<>>)

\* Options that an action loaded end a save that began before them.
OnAction(m, w, v) ==
  LET done == Evaluating([v EXCEPT !.acting = NoRev])
  IN  IF v.acting # m.rev THEN Becomes(w, v, <<>>)
      ELSE CASE m.status = "loaded" ->
                  Becomes(w, [done EXCEPT !.shown = m.options, !.saving = 0],
                          StopSave(w, v) \o <<Frame("evaluate", w, v)>>)
             [] m.status = "stale" -> Becomes(w, [done EXCEPT !.lost = TRUE], <<Frame("evaluate", w, v)>>)
             [] OTHER -> Becomes(w, done, <<Frame("evaluate", w, v)>>)

OnSave(m, w, v) ==
  IF v.saving # m.id \/ v.saving = 0 THEN Becomes(w, v, <<>>)
  ELSE IF m.status \in {"accepted", "settled", "cancelled"} THEN Closed(w, [v EXCEPT !.saving = 0])
  ELSE Becomes(w, Evaluating([v EXCEPT !.saving = 0]), <<Frame("evaluate", w, v)>>)

\* Only the answer to the last cancellation of this revision counts.
OnCancel(m, w, v) ==
  IF v.leaving = 0 \/ v.rev # m.rev THEN Becomes(w, v, <<>>)
  ELSE IF m.status = "invalid" \/ v.leaving > 1 THEN Becomes(w, [v EXCEPT !.leaving = @ - 1], <<>>)
  ELSE Closed(w, v)

Deliver ==
  /\ down # <<>>
  /\ down' = Tail(down)
  /\ LET m == Head(down)
         v == view[m.view]
     IN  CASE m.op = "open" -> OnOpen(m, m.view, v)
           [] m.op = "evaluate" -> OnEvaluate(m, m.view, v)
           [] m.op = "action" -> OnAction(m, m.view, v)
           [] m.op = "save" -> OnSave(m, m.view, v)
           [] m.op = "cancel" -> OnCancel(m, m.view, v)
  /\ UNCHANGED <<host, mounted, link, events>>
-----------------------------------------------------------------------------
(* The connection.                                                         *)

\* MUTANT: a save that was lost is still awaited.
Disconnected_Waiting(v) ==
  LET acted == v.acting # NoRev
  IN  [v EXCEPT !.awaited = 0, !.leaving = 0, !.acting = NoRev, !.stale = @ \/ acted, !.lost = @ \/ acted]

\* What the client awaits of a mutation fails; a claim and an evaluation stay wanted.
Disconnected(v) ==
  LET acted == v.acting # NoRev
  IN  [v EXCEPT !.awaited = 0, !.saving = 0, !.leaving = 0, !.acting = NoRev,
                !.stale = @ \/ acted, !.lost = @ \/ acted]

Drop ==
  /\ link.up /\ Event
  /\ link' = [up |-> FALSE, drops |-> link.drops + 1]
  /\ up' = <<>> /\ down' = <<>>
  /\ view' = [w \in 1 .. Views |-> IF Open(view[w]) THEN Disconnected(view[w]) ELSE view[w]]
  /\ UNCHANGED <<host, mounted>>

Reconnect ==
  /\ ~link.up
  /\ link' = [link EXCEPT !.up = TRUE]
  /\ LET asks == {w \in 1 .. Views : view[w].phase = "opening" \/ (view[w].phase = "ready" /\ view[w].stale)}
     IN  /\ view' = [w \in 1 .. Views |->
                       IF w \in asks /\ view[w].phase = "ready" THEN [view[w] EXCEPT !.awaited = 1] ELSE view[w]]
         /\ up' = IF asks = {} THEN up
                  ELSE LET w == CHOOSE w \in asks : TRUE
                       IN  Append(up, Frame(IF view[w].phase = "opening" THEN "open" ELSE "evaluate", w, view[w]))
  /\ UNCHANGED <<host, mounted, down, events>>
-----------------------------------------------------------------------------
(* The host.  Authority is that of the pending request: it ends with it.   *)

Holds(editor, rev) == Pending /\ authority = [editor |-> editor, rev |-> rev]

Current(r) == Holds(r.editor, r.rev) /\ ~r.aborted

\* MUTANT: an approval of another revision counts.
Approved_Ever(draft) == approved.draft = draft /\ approved # NoApproval

Approved(draft) == approved = [editor |-> authority.editor, rev |-> authority.rev, draft |-> draft]

\* Settles the request, with a draft or without, once `others` are what still runs:
\* they are told to stop, and what the host kept of the form goes with the request.
Settle(status, draft, others) ==
  /\ form' = [status |-> status, draft |-> draft]
  /\ runs' = {[r EXCEPT !.aborted = TRUE] : r \in others}
  /\ approved' = NoApproval /\ checking' = FALSE /\ options' = 0 /\ attempt' = NoAttempt

GivenUp == Settle("cancelled", Blank, runs)

\* Admitted work outlives its connection, its reply does not.
Reply(conn, m) == down' = IF link.up /\ link.drops = conn THEN Append(down, m) ELSE down

Answer(m, status) == [op |-> m.op, view |-> m.view, rev |-> m.rev, id |-> m.id, status |-> status, options |-> options]

Inactive == IF Settled THEN "settled" ELSE "stale"

\* The ledger answers a repeated claim with the first one's outcome.
HandleOpen(m) ==
  LET known == claims[m.view] # NoRev
      rev   == IF known THEN claims[m.view] ELSE authority.rev + 1
      fails == ~known /\ Settled
  IN  /\ Reply(link.drops, [Answer(m, IF fails THEN "failed" ELSE "claimed") EXCEPT !.rev = rev])
      /\ IF known \/ fails THEN UNCHANGED <<authority, claims>>
         ELSE /\ authority' = [editor |-> m.view, rev |-> rev]
              /\ claims' = [claims EXCEPT ![m.view] = rev]
      /\ UNCHANGED <<form, approved, checking, options, attempt, runs, passed>>

HandleEvaluate(m) ==
  LET fresh == Pending /\ m.view = authority.editor /\ m.rev >= authority.rev
  IN  /\ Reply(link.drops, Answer(m, IF fresh THEN "evaluated" ELSE "failed"))
      /\ authority' = IF fresh THEN [authority EXCEPT !.rev = m.rev] ELSE authority
      /\ UNCHANGED <<form, approved, checking, options, attempt, runs, claims, passed>>

\* An attempt of an editor or a revision that is gone is stopped and may be made again;
\* one that is done, or still current, is not made a second time for the same key.
\* MUTANT: the attempt of a replaced editor is never given up.
Obsolete_Never == {}

Obsolete == {r \in runs : attempt.run = r.id /\ ~Current(r)}

HandleAction(m) ==
  LET new     == Run(<<m.view, "action", m.rev>>, m.view, m.rev, m.draft)
      stopped == {IF r \in Obsolete THEN [r EXCEPT !.aborted = TRUE] ELSE r : r \in runs}
      made    == Obsolete = {} /\ attempt.key = KeyOf[m.draft]
  IN  /\ CASE ~Holds(m.view, m.rev) -> Reply(link.drops, Answer(m, Inactive)) /\ UNCHANGED <<attempt, runs>>
           [] Holds(m.view, m.rev) /\ made -> Reply(link.drops, Answer(m, "nothing")) /\ UNCHANGED <<attempt, runs>>
           [] OTHER -> /\ attempt' = [key |-> KeyOf[m.draft], run |-> new.id]
                       /\ runs' = stopped \cup {new}
                       /\ UNCHANGED down
      /\ UNCHANGED <<form, authority, approved, checking, options, claims, passed>>

HandleSave(m) ==
  /\ IF Holds(m.view, m.rev)
     THEN runs' = runs \cup {Run(<<m.view, "save", m.id>>, m.view, m.rev, m.draft)} /\ UNCHANGED down
     ELSE Reply(link.drops, Answer(m, Inactive)) /\ UNCHANGED runs
  /\ UNCHANGED <<form, authority, approved, checking, options, attempt, claims, passed>>

\* A newer draft that was never evaluated may be cancelled, an older one may not.
HandleCancel(m) ==
  LET may == m.view = authority.editor /\ m.rev >= authority.rev
  IN  /\ Reply(link.drops, Answer(m, IF Settled THEN "settled" ELSE IF may THEN "cancelled" ELSE "invalid"))
      /\ IF Pending /\ may THEN GivenUp
         ELSE UNCHANGED <<form, runs, approved, checking, options, attempt>>
      /\ UNCHANGED <<authority, claims, passed>>

HandleStop(m) ==
  /\ runs' = {IF r.id = m.run THEN [r EXCEPT !.aborted = TRUE] ELSE r : r \in runs}
  /\ UNCHANGED <<form, authority, approved, checking, options, attempt, claims, passed, down>>

Handle ==
  /\ link.up /\ up # <<>>
  /\ up' = Tail(up)
  /\ LET m == Head(up)
     IN  CASE m.op = "open" -> HandleOpen(m)
           [] m.op = "evaluate" -> HandleEvaluate(m)
           [] m.op = "action" -> HandleAction(m)
           [] m.op = "save" -> HandleSave(m)
           [] m.op = "cancel" -> HandleCancel(m)
           [] m.op = "stop" -> HandleStop(m)
  /\ UNCHANGED <<view, mounted, link, events>>

RunReply(r, status) ==
  Reply(r.conn, [op |-> r.id[2], view |-> r.id[1], rev |-> r.rev, id |-> r.id[3], status |-> status,
                 options |-> options'])

\* MUTANT: a late result is kept.
ActionEnds_Late(r) ==
  /\ r.id[2] = "action"
  /\ runs' = runs \ {r}
  /\ options' = KeyOf[r.draft]
  /\ attempt' = IF attempt.run # r.id THEN attempt
                ELSE IF Current(r) THEN [attempt EXCEPT !.run = NoRun] ELSE NoAttempt
  /\ RunReply(r, IF Current(r) THEN "loaded" ELSE Inactive)
  /\ UNCHANGED <<form, authority, approved, checking, claims, passed>>

\* The action returns the options it loaded for its draft.  They are kept, and the
\* attempt is done, only if the draft is still the editor's; only its own attempt is touched.
ActionEnds(r) ==
  /\ r.id[2] = "action"
  /\ runs' = runs \ {r}
  /\ options' = IF Current(r) THEN KeyOf[r.draft] ELSE options
  /\ attempt' = IF attempt.run # r.id THEN attempt
                ELSE IF Current(r) THEN [attempt EXCEPT !.run = NoRun] ELSE NoAttempt
  /\ RunReply(r, IF Current(r) THEN "loaded" ELSE Inactive)
  /\ UNCHANGED <<form, authority, approved, checking, claims, passed>>

\* The final check passes or fails; what it passed is approved while it is current.
\* What a check returns that was told to stop is dropped.
CheckEnds(r) ==
  /\ r.id[2] # "action" /\ r.result = "none" /\ ~r.aborted
  /\ \E result \in {"ok", "error"} :
       LET draft == [editor |-> r.editor, rev |-> r.rev, draft |-> r.draft]
       IN  /\ runs' = (runs \ {r}) \cup {[r EXCEPT !.result = result]}
           /\ passed' = IF result = "ok" THEN passed \cup {draft} ELSE passed
           /\ approved' = IF result = "ok" /\ Current(r) THEN draft ELSE approved
  /\ UNCHANGED <<form, authority, checking, options, attempt, claims, down>>

\* The save goes on after its check: the draft must still be the one that was approved.
SaveEnds(r) ==
  /\ r.id[2] = "save" /\ (r.result # "none" \/ r.aborted)
  /\ IF Current(r) /\ r.result = "ok" /\ Approved(r.draft)
     THEN Settle("saved", r.draft, runs \ {r})
     ELSE runs' = runs \ {r} /\ UNCHANGED <<form, approved, checking, options, attempt>>
  /\ RunReply(r, CASE ~Current(r) -> Inactive
                   [] Current(r) /\ r.result = "ok" /\ Approved(r.draft) -> "accepted"
                   [] OTHER -> "invalid")
  /\ UNCHANGED <<authority, claims, passed>>

\* A direct answer that is not approved starts a check of its own, one at a time.
Respond(d) ==
  /\ Pending /\ Event
  /\ \/ Approved(d) /\ Settle("saved", d, runs)
     \/ /\ ~Approved(d) /\ ~checking
        /\ checking' = TRUE
        /\ runs' = runs \cup {Run(<<0, "answer", events'>>, authority.editor, authority.rev, d)}
        /\ UNCHANGED <<form, approved, options, attempt>>
  /\ UNCHANGED <<authority, claims, passed, view, mounted, link, up, down>>

\* An editor that took over, or moved on, since the answer was given keeps the form.
RespondEnds(r) ==
  LET same == authority = [editor |-> r.editor, rev |-> r.rev]
  IN  /\ r.id[2] = "answer" /\ (r.result # "none" \/ r.aborted)
      /\ IF Pending /\ same /\ r.result = "ok"
         THEN Settle("saved", r.draft, runs \ {r})
         ELSE /\ runs' = runs \ {r} /\ checking' = FALSE
              /\ approved' = IF Pending /\ same THEN NoApproval ELSE approved
              /\ UNCHANGED <<form, options, attempt>>
      /\ UNCHANGED <<authority, claims, passed, down>>

RunEnds(r) ==
  /\ ActionEnds(r) \/ CheckEnds(r) \/ SaveEnds(r) \/ RespondEnds(r)
  /\ UNCHANGED <<view, mounted, link, up, events>>

\* The asker's signal or timeout, or the unloading of its extension.
GiveUp ==
  /\ Pending /\ Event
  /\ GivenUp
  /\ UNCHANGED <<authority, claims, passed, view, mounted, link, up, down>>
-----------------------------------------------------------------------------
User(w) == Save(w) \/ Cancel(w) \/ Detach(w) \/ \E d \in Drafts : Edit(w, d)

Next ==
  \/ Mount \/ Deliver \/ Drop \/ Reconnect \/ Handle \/ GiveUp
  \/ \E w \in 1 .. Views : User(w) \/ Resolved(w)
  \/ \E d \in Drafts : Respond(d)
  \/ \E r \in runs : RunEnds(r)

Spec == Init /\ [][Next]_vars

\* Frames over a working connection arrive, a dropped one is made again, callbacks of
\* the form return, and a client is told that its form was settled.  Users owe nothing.
FairSpec ==
  /\ Spec
  /\ WF_vars(Handle) /\ WF_vars(Deliver) /\ WF_vars(Reconnect)
  /\ WF_vars(\E r \in runs : RunEnds(r))
  /\ WF_vars(\E w \in 1 .. Views : Resolved(w))
-----------------------------------------------------------------------------
Revs == NoRev .. Views + MaxEvents

TypeOK ==
  /\ form \in [status : {"pending", "saved", "cancelled"}, draft : Drafts]
  /\ authority \in [editor : 0 .. Views, rev : Revs]
  /\ approved \in [editor : -1 .. Views, rev : Revs, draft : Drafts]
  /\ checking \in BOOLEAN /\ options \in {0} \cup {KeyOf[d] : d \in Drafts}
  /\ \A r, o \in runs : r.id = o.id => r = o
  /\ claims \in [1 .. Views -> Revs] /\ mounted \in 0 .. Views
  /\ \A w \in 1 .. Views : Open(view[w]) => w = mounted

\* What a form is saved with passed its final check, in the very revision of the
\* editor that holds the form when it is settled: not an older draft of it, not the
\* draft of an editor that was replaced, not an answer nobody checked
\* (ui-requests.ts submission and approval, form-backend.ts submit).
SavedWasChecked ==
  form.status = "saved" =>
    [editor |-> authority.editor, rev |-> authority.rev, draft |-> form.draft] \in passed

\* The options of the form are those of the attempt that is done, and an attempt that
\* is not done has its run: a late run of another editor, revision or key neither
\* overwrites them nor takes the attempt of its successor away (runFormAction's finally).
OptionsAreTheAttempts ==
  attempt # NoAttempt =>
    IF attempt.run = NoRun THEN options = attempt.key ELSE \E r \in runs : r.id = attempt.run

\* The view that is ready is the host's editor, and the host is not ahead of it, whatever
\* was lost or asked twice: a repeated claim does not replace the editor (recover).
EditorsAgree ==
  Pending => \A w \in 1 .. Views : view[w].phase = "ready" =>
    authority.editor = w /\ view[w].evaluated <= authority.rev /\ authority.rev <= view[w].rev

FormIsSound == TypeOK /\ SavedWasChecked
HostFollowsEditor == OptionsAreTheAttempts /\ EditorsAgree

Shows(w) == view[w].shown = Key(view[w])

\* A view that owes its user the options of the draft it holds.
Owes(w) == view[w].phase = "ready" /\ ~view[w].lost /\ ~view[w].replay

\* In the end a mounted view shows the options of the draft it holds, however edits,
\* replaced views, cancellations and late runs interleaved, unless the request for the
\* action or its reply was lost with the connection (which the view says), the view is a
\* replay, or a cancellation ended its evaluation and nothing was evaluated since.
OptionsShow == \A w \in 1 .. Views : <>[](Owes(w) /\ ~view[w].forgone => Shows(w))

\* A view whose cancellation did not go through shows the options of its draft again.  It
\* does not: the evaluation the cancellation ended (agent-port-forms.ts cancel) is never
\* asked again.
OptionsShowAgain == \A w \in 1 .. Views : <>[](Owes(w) => Shows(w))

\* No claim, save or cancellation of a view waits for ever, and a settled form
\* leaves no view open.
NobodyWaits ==
  /\ \A w \in 1 .. Views : []<>(view[w].phase # "opening" /\ view[w].saving = 0 /\ view[w].leaving = 0)
  /\ []<>(Settled => \A w \in 1 .. Views : ~Open(view[w]))
=============================================================================
