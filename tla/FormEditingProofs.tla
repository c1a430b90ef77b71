--------------------------- MODULE FormEditingProofs ---------------------------
(***************************************************************************)
(* Proofs about FormEditing for any views, drafts, keys and events.  The   *)
(* argument: frames arrive in the order of the views that sent them, so    *)
(* the editor of the host is the view mounted last as soon as that one has *)
(* claimed the form; a callback has a name of its own; and what is kept of *)
(* its result is kept only while its editor and revision are the host's.   *)
(***************************************************************************)
EXTENDS FormEditing, SequenceTheorems, TLAPS

Phases == {"opening", "ready", "failed", "closed"}
ViewRecords ==
  [phase : Phases, rev : Nat, draft : Drafts, evaluated : Int, awaited : Int, stale : BOOLEAN,
   forgone : BOOLEAN, shown : Int, acting : Nat \cup {NoRev}, tried : Nat, saving : Nat, saves : Nat,
   leaving : Int, lost : BOOLEAN, replay : BOOLEAN]
Asks == [op : {"open", "evaluate", "action", "save", "cancel"}, view : 1 .. Views, rev : Nat,
         draft : Drafts, id : Nat]
Stops == [op : {"stop"}, run : (1 .. Views) \X {"action", "save"} \X Nat]
Replies ==
  [op : {"open", "evaluate", "action", "save", "cancel"}, view : 1 .. Views, rev : Nat, id : Nat,
   status : {"claimed", "failed", "evaluated", "settled", "stale", "nothing", "cancelled",
             "invalid", "loaded", "accepted"},
   options : Int]
Callbacks ==
  [id : (0 .. Views) \X {"action", "save", "answer"} \X Nat, editor : 0 .. Views, rev : Int,
   draft : Drafts, conn : Nat, aborted : BOOLEAN, result : {"none", "ok", "error"}]

\* The shape of the state.
Shaped ==
  /\ form \in [status : {"pending", "saved", "cancelled"}, draft : Drafts]
  /\ authority \in [editor : 0 .. Views, rev : Nat \cup {NoRev}]
  /\ approved \in [editor : -1 .. Views, rev : Revs, draft : Drafts]
  /\ checking \in BOOLEAN /\ options \in {0} \cup {KeyOf[d] : d \in Drafts}
  /\ attempt \in [key : Nat, run : {NoRun} \cup ((1 .. Views) \X {"action"} \X Nat)]
  /\ runs \subseteq Callbacks
  /\ claims \in [1 .. Views -> Nat \cup {NoRev}]
  /\ view \in [1 .. Views -> ViewRecords] /\ mounted \in 0 .. Views
  /\ link \in [up : BOOLEAN, drops : Nat]
  /\ up \in Seq(Asks \cup Stops) /\ down \in Seq(Replies)
  /\ events \in 0 .. MaxEvents

\* Only the view mounted last is open, and only a view that is ready acts or saves.
OneIsOpen == \A w \in 1 .. Views :
  /\ Open(view[w]) => w = mounted
  /\ view[w].phase # "ready" => view[w].acting = NoRev /\ view[w].saving = 0

\* Claims are made in the order of the views; a view is ready when it has its claim.
ClaimsAgree ==
  /\ authority.editor <= mounted
  /\ authority.editor # 0 => claims[authority.editor] # NoRev
  /\ \A w \in 1 .. Views :
       /\ claims[w] # NoRev => w <= authority.editor
       /\ view[w].phase = "ready" => claims[w] # NoRev
       /\ view[w].phase = "opening" => view[w].evaluated = NoRev
       /\ (view[w].phase = "opening" /\ claims[w] # NoRev) => authority.rev = claims[w]
       /\ view[w].phase = "ready" =>
            view[w].evaluated <= authority.rev /\ authority.rev <= view[w].rev

\* A view that has no claim yet will add the edits it made meanwhile to a revision.
Fits(n, e) ==
  /\ n <= e - 1 + events
  /\ \A w \in 1 .. Views :
       (view[w].phase = "opening" /\ claims[w] = NoRev) => n + view[w].rev <= e - 1 + events
RevsFit ==
  /\ Fits(authority.rev, authority.editor)
  /\ \A w \in 1 .. Views :
       /\ claims[w] <= w - 1 + events
       /\ (view[w].phase = "opening" /\ claims[w] # NoRev) => claims[w] + view[w].rev <= w - 1 + events
       /\ view[w].phase = "ready" => view[w].rev <= w - 1 + events

\* What the view w may have asked for: v is w as it is now.
Known(w, op, rev, id, v) ==
  /\ v.phase # "opening"
  /\ v.phase = "ready" =>
       /\ rev <= v.rev
       /\ (op = "action" /\ rev = v.rev) => v.tried = Key(v)
       /\ op = "save" => id <= v.saves

FrameAgrees(m) == m.op # "stop" =>
  /\ authority.editor <= m.view /\ m.view <= mounted
  /\ m.op # "open" =>
       /\ claims[m.view] # NoRev /\ Fits(m.rev, m.view)
       /\ Known(m.view, m.op, m.rev, m.id, view[m.view])
  /\ m.op = "action" => \A r \in runs : r.id # <<m.view, "action", m.rev>>
  /\ m.op = "save" => \A r \in runs : r.id # <<m.view, "save", m.id>>

\* n was sent after m.
Follows(m, n) == (m.op # "stop" /\ n.op # "stop") =>
  /\ m.view <= n.view
  /\ (m.view = n.view /\ m.op = "action" /\ n.op = "action") => m.rev # n.rev
  /\ (m.view = n.view /\ m.op = "save" /\ n.op = "save") => m.id # n.id

FramesAgree ==
  /\ \A i \in DOMAIN up : FrameAgrees(up[i])
  /\ \A i, j \in DOMAIN up : i < j => Follows(up[i], up[j])

ReplyAgrees(m) ==
  /\ (m.op = "open" /\ m.status # "failed") => claims[m.view] = m.rev
  /\ (m.op = "evaluate" /\ m.status # "failed") =>
       claims[m.view] # NoRev /\ (m.view = authority.editor => m.rev <= authority.rev)
RepliesAgree == \A i \in DOMAIN down : ReplyAgrees(down[i])

\* A callback has a name of its own, and was started for an editor and a revision
\* that the host had.
RunAgrees(r) ==
  /\ r.editor <= authority.editor
  /\ r.editor = authority.editor => r.rev <= authority.rev
  /\ r.id[2] = "action" => r.id = <<r.editor, "action", r.rev>>
  /\ r.id[2] = "save" => r.id[1] = r.editor /\ r.rev \in Nat
  /\ r.id[2] = "answer" => r.id[3] <= events
  /\ r.id[2] # "answer" => r.editor # 0 /\ Known(r.editor, r.id[2], r.rev, r.id[3], view[r.editor])
  /\ r.result = "ok" => [editor |-> r.editor, rev |-> r.rev, draft |-> r.draft] \in passed
RunsAgree ==
  /\ \A r \in runs : RunAgrees(r)
  /\ \A r, o \in runs : r.id = o.id => r = o

\* An approval, and what is saved, passed the check.
ApprovalsAgree ==
  /\ approved = NoApproval \/ approved \in passed
  /\ SavedWasChecked

\* The attempt under way has its run, and only that may leave its options.
AttemptAgrees ==
  /\ attempt.run # NoRun => \E r \in runs : r.id = attempt.run /\ KeyOf[r.draft] = attempt.key
  /\ (attempt # NoAttempt /\ attempt.run = NoRun) => options = attempt.key
  /\ \A r \in runs : (r.id[2] = "action" /\ Current(r)) => attempt.run = r.id

IInv ==
  /\ Shaped /\ OneIsOpen /\ ClaimsAgree /\ RevsFit /\ FramesAgree /\ RepliesAgree
  /\ RunsAgree /\ ApprovalsAgree /\ AttemptAgrees

-----------------------------------------------------------------------------
LEMMA Constants ==
  Views \in Nat \ {0} /\ MaxEvents \in Nat /\ Blank \in Drafts /\ KeyOf \in [Drafts -> Nat \ {0}]
  BY FormAssumption

LEMMA UnmountedIsView ==
  /\ NewView \in ViewRecords /\ Unmounted \in ViewRecords /\ Unmounted.phase = "closed"
  /\ NewView.phase = "opening" /\ NewView.rev = 0 /\ NewView.evaluated = NoRev
  /\ \A v \in {NewView, Unmounted} : v.acting = NoRev /\ v.saving = 0
  <1>1. NewView \in ViewRecords
    <2>1. Blank \in Drafts /\ NoRev \in Int /\ NoRev \in Nat \cup {NoRev} BY Constants DEF NoRev
    <2> QED BY <2>1 DEF NewView, ViewRecords, Phases
  <1>2. Unmounted \in ViewRecords /\ Unmounted.phase = "closed"
    BY <1>1 DEF Unmounted, ViewRecords, Phases
  <1>3. \A v \in {NewView, Unmounted} : v.acting = NoRev /\ v.saving = 0
    BY DEF NewView, Unmounted
  <1> QED BY <1>1, <1>2, <1>3 DEF NewView

LEMMA TailFacts ==
  ASSUME NEW T, NEW s \in Seq(T), s # <<>>
  PROVE  /\ Tail(s) \in Seq(T) /\ Head(s) = s[1] /\ 1 \in DOMAIN s /\ Head(s) \in T
         /\ \A i \in DOMAIN Tail(s) :
              i \in Nat /\ i >= 1 /\ i + 1 \in DOMAIN s /\ Tail(s)[i] = s[i + 1]
  OBVIOUS

LEMMA AppendFacts ==
  ASSUME NEW T, NEW s \in Seq(T), NEW e \in T
  PROVE  /\ Append(s, e) \in Seq(T)
         /\ \A i \in DOMAIN Append(s, e) : \/ i \in DOMAIN s /\ Append(s, e)[i] = s[i]
                                           \/ Append(s, e)[i] = e
  <1>1. Append(s, e) \in Seq(T) /\ Len(Append(s, e)) = Len(s) + 1 /\ Len(s) \in Nat
    OBVIOUS
  <1>2. \A i \in 1 .. Len(s) : Append(s, e)[i] = s[i]
    OBVIOUS
  <1>3. Append(s, e)[Len(s) + 1] = e
    OBVIOUS
  <1>4. DOMAIN Append(s, e) = 1 .. Len(s) + 1 /\ DOMAIN s = 1 .. Len(s)
    BY <1>1
  <1> QED BY <1>1, <1>2, <1>3, <1>4

LEMMA ConcatFacts ==
  ASSUME NEW T, NEW s \in Seq(T), NEW t \in Seq(T)
  PROVE  /\ s \o t \in Seq(T)
         /\ \A i \in DOMAIN (s \o t) :
              /\ i \in Nat
              /\ \/ i \in DOMAIN s /\ i <= Len(s) /\ (s \o t)[i] = s[i]
                 \/ i - Len(s) \in DOMAIN t /\ i > Len(s) /\ (s \o t)[i] = t[i - Len(s)]
  <1>1. /\ s \o t \in Seq(T) /\ Len(s \o t) = Len(s) + Len(t)
        /\ \A i \in 1 .. Len(s) + Len(t) : (s \o t)[i] = IF i <= Len(s) THEN s[i] ELSE t[i - Len(s)]
    BY ConcatProperties
  <1>2. Len(s) \in Nat /\ Len(t) \in Nat /\ DOMAIN s = 1 .. Len(s) /\ DOMAIN t = 1 .. Len(t)
    OBVIOUS
  <1>3. DOMAIN (s \o t) = 1 .. Len(s) + Len(t) BY <1>1, <1>2
  <1>4. ASSUME NEW i \in 1 .. Len(s) + Len(t)
        PROVE  /\ i \in Nat
               /\ \/ i \in DOMAIN s /\ i <= Len(s) /\ (s \o t)[i] = s[i]
                  \/ i - Len(s) \in DOMAIN t /\ i > Len(s) /\ (s \o t)[i] = t[i - Len(s)]
    <2>1. CASE i <= Len(s) BY <1>1, <1>2, <2>1
    <2>2. CASE i > Len(s) BY <1>1, <1>2, <2>2
    <2> QED BY <1>2, <2>1, <2>2
  <1> QED BY <1>1, <1>3, <1>4

LEMMA ShapeFacts ==
  ASSUME IInv
  PROVE  /\ authority.editor \in 0 .. Views /\ authority.rev \in Nat \cup {NoRev} /\ NoRev = -1
         /\ mounted \in 0 .. Views /\ events \in Nat /\ events <= MaxEvents
         /\ Views \in Nat /\ MaxEvents \in Nat
         /\ \A w \in 1 .. Views :
              /\ view[w] \in ViewRecords /\ view[w].rev \in Nat /\ view[w].evaluated \in Int
              /\ view[w].saves \in Nat /\ view[w].tried \in Nat /\ view[w].draft \in Drafts
              /\ view[w].phase \in Phases /\ claims[w] \in Nat \cup {NoRev}
  <1>1. /\ authority.editor \in 0 .. Views /\ authority.rev \in Nat \cup {NoRev} /\ NoRev = -1
        /\ mounted \in 0 .. Views /\ events \in Nat /\ events <= MaxEvents
        /\ Views \in Nat /\ MaxEvents \in Nat
    BY Constants DEF IInv, Shaped, NoRev
  <1>2. ASSUME NEW w \in 1 .. Views PROVE view[w] \in ViewRecords /\ claims[w] \in Nat \cup {NoRev}
    BY DEF IInv, Shaped
  <1> QED BY <1>1, <1>2 DEF ViewRecords

-----------------------------------------------------------------------------
(* Steps of the views.                                                     *)

\* What a view becomes in one step.
Evolves(w, v) ==
  /\ Open(v) => w = mounted'
  /\ v.phase # "ready" => v.acting = NoRev /\ v.saving = 0
  /\ v.phase = "opening" =>
       /\ v.evaluated = NoRev
       /\ \/ view[w].phase = "opening" /\ v.rev + events <= view[w].rev + events'
          \/ mounted < w /\ v.rev = 0
  /\ v.phase = "ready" =>
       /\ claims[w] # NoRev /\ v.evaluated <= authority.rev /\ authority.rev <= v.rev
       /\ v.rev <= w - 1 + events'
       /\ \/ view[w].phase = "opening"
          \/ /\ view[w].phase = "ready" /\ view[w].rev <= v.rev /\ view[w].saves <= v.saves
             /\ view[w].rev = v.rev =>
                  Key(v) = Key(view[w]) /\ (v.tried = view[w].tried \/ v.tried = Key(v))

\* Time goes on for the views.
ViewStep ==
  /\ events' \in 0 .. MaxEvents /\ events <= events'
  /\ mounted' \in 0 .. Views /\ mounted <= mounted'

LEMMA SameEvolves ==
  ASSUME IInv, ViewStep, NEW w \in 1 .. Views, NEW v \in ViewRecords, Open(v) => w = mounted',
         v.phase = view[w].phase, v.rev = view[w].rev, v.saves = view[w].saves, v.draft = view[w].draft,
         v.tried = view[w].tried \/ v.tried = Key(v), v.evaluated = view[w].evaluated,
         v.phase # "ready" => v.acting = NoRev /\ v.saving = 0
  PROVE  Evolves(w, v)
  <1>1. events \in Nat /\ events' \in Nat /\ events <= events' /\ w \in Nat
    BY ShapeFacts, Constants DEF ViewStep
  <1>2. v.rev \in Nat BY DEF ViewRecords
  <1>3. Key(v) = Key(view[w]) BY DEF Key
  <1>4. v.phase = "opening" => v.evaluated = NoRev /\ v.rev + events <= view[w].rev + events'
    <2>1. v.phase = "opening" => v.evaluated = NoRev BY DEF IInv, ClaimsAgree
    <2>2. v.rev + events <= view[w].rev + events' BY <1>1, <1>2
    <2> QED BY <2>1, <2>2
  <1>5. ASSUME v.phase = "ready"
        PROVE  /\ claims[w] # NoRev /\ v.evaluated <= authority.rev /\ authority.rev <= v.rev
               /\ v.rev <= w - 1 + events'
    <2>1. /\ claims[w] # NoRev /\ v.evaluated <= authority.rev /\ authority.rev <= v.rev
          /\ v.rev <= w - 1 + events
      BY <1>5 DEF IInv, ClaimsAgree, RevsFit
    <2> QED BY <1>1, <1>2, <2>1
  <1>6. v.saves \in Nat BY DEF ViewRecords
  <1> QED BY <1>2, <1>3, <1>4, <1>5, <1>6 DEF Evolves

LEMMA FitsLater ==
  ASSUME IInv, ViewStep, UNCHANGED claims, \A w \in 1 .. Views : Evolves(w, view'[w]),
         view' \in [1 .. Views -> ViewRecords],
         NEW n \in Int, NEW e \in Nat, Fits(n, e)
  PROVE  n <= e - 1 + events' /\
         \A w \in 1 .. Views :
           (view'[w].phase = "opening" /\ claims'[w] = NoRev) => n + view'[w].rev <= e - 1 + events'
  <1>1. events \in Nat /\ events' \in Nat /\ events <= events'
    BY ShapeFacts DEF ViewStep
  <1>2. n <= e - 1 + events /\ n \in Int /\ e \in Int BY DEF Fits
  <1>4. n <= e - 1 + events'
    <2>1. \A a, b \in Int, x, y \in Nat : (a <= b - 1 + x /\ x <= y) => a <= b - 1 + y OBVIOUS
    <2> QED BY <1>1, <1>2, <2>1
  <1>3. ASSUME NEW w \in 1 .. Views, view'[w].phase = "opening", claims'[w] = NoRev
        PROVE  n + view'[w].rev <= e - 1 + events'
    <2>1. view'[w].rev \in Nat /\ view[w].rev \in Nat BY ShapeFacts DEF ViewRecords
    <2>2. \/ view[w].phase = "opening" /\ view'[w].rev + events <= view[w].rev + events'
          \/ view'[w].rev = 0
      BY <1>3 DEF Evolves
    <2>3. CASE view[w].phase = "opening" /\ view'[w].rev + events <= view[w].rev + events'
      <3>1. n + view[w].rev <= e - 1 + events BY <1>3, <2>3 DEF Fits
      <3>2. \A a, b \in Int, p, q, x, y \in Nat :
              (a + p <= b - 1 + x /\ q + x <= p + y) => a + q <= b - 1 + y
        OBVIOUS
      <3>3. view'[w].rev + events <= view[w].rev + events' BY <2>3
      <3> QED BY <1>1, <1>2, <2>1, <3>1, <3>2, <3>3
    <2>4. CASE view'[w].rev = 0 BY <1>2, <1>4, <2>4
    <2> QED BY <2>2, <2>3, <2>4
  <1> QED BY <1>3, <1>4

LEMMA KnownLater ==
  ASSUME IInv, NEW w \in 1 .. Views, NEW v \in ViewRecords, Evolves(w, v), w <= mounted,
         NEW op, NEW rev \in Int, NEW id \in Int, Known(w, op, rev, id, view[w])
  PROVE  Known(w, op, rev, id, v)
  <1>1. /\ view[w].rev \in Nat /\ v.rev \in Nat /\ view[w].saves \in Nat /\ v.saves \in Nat
        /\ mounted \in Nat
    BY ShapeFacts, Constants DEF ViewRecords
  <1>2. v.phase # "opening" BY <1>1 DEF Evolves, Known
  <1>3. ASSUME v.phase = "ready" PROVE
          /\ rev <= v.rev
          /\ (op = "action" /\ rev = v.rev) => v.tried = Key(v)
          /\ op = "save" => id <= v.saves
    <2>1. /\ view[w].phase = "ready" /\ view[w].rev <= v.rev /\ view[w].saves <= v.saves
          /\ view[w].rev = v.rev =>
               Key(v) = Key(view[w]) /\ (v.tried = view[w].tried \/ v.tried = Key(v))
      BY <1>3 DEF Evolves, Known
    <2>2. /\ rev <= view[w].rev
          /\ (op = "action" /\ rev = view[w].rev) => view[w].tried = Key(view[w])
          /\ op = "save" => id <= view[w].saves
      BY <2>1 DEF Known
    <2>3. rev <= v.rev /\ (op = "save" => id <= v.saves) BY <1>1, <2>1, <2>2
    <2>4. ASSUME op = "action", rev = v.rev PROVE v.tried = Key(v)
      <3>1. rev = view[w].rev BY <1>1, <2>1, <2>2, <2>4
      <3> QED BY <2>1, <2>2, <2>4, <3>1
    <2> QED BY <2>3, <2>4
  <1> QED BY <1>2, <1>3 DEF Known

\* The views move, each as Evolves allows, and the host does not.
ViewsMove ==
  /\ UNCHANGED host /\ ViewStep
  /\ view' \in [1 .. Views -> ViewRecords]
  /\ \A w \in 1 .. Views : Evolves(w, view'[w])

LEMMA FrameLater ==
  ASSUME IInv, ViewsMove, NEW m \in Asks \cup Stops, FrameAgrees(m)
  PROVE  FrameAgrees(m)'
  <1> SUFFICES ASSUME m.op # "stop" PROVE FrameAgrees(m)' BY DEF FrameAgrees
  <1>1. m \in Asks /\ m.view \in 1 .. Views /\ m.rev \in Nat /\ m.id \in Nat BY DEF Asks, Stops
  <1>2. UNCHANGED <<authority, claims, runs>> BY DEF ViewsMove, host
  <1>3. authority.editor <= m.view /\ m.view <= mounted' /\ m.view <= mounted
    <2>1. authority.editor <= m.view /\ m.view <= mounted BY DEF FrameAgrees
    <2>2. mounted \in Nat /\ mounted' \in Nat /\ mounted <= mounted' BY ShapeFacts DEF ViewsMove, ViewStep
    <2> QED BY <1>1, <2>1, <2>2
  <1>4. ASSUME m.op # "open"
        PROVE  /\ claims[m.view] # NoRev /\ Fits(m.rev, m.view)'
               /\ Known(m.view, m.op, m.rev, m.id, view'[m.view])
    <2>1. /\ claims[m.view] # NoRev /\ Fits(m.rev, m.view)
          /\ Known(m.view, m.op, m.rev, m.id, view[m.view])
      BY <1>4 DEF FrameAgrees
    <2>2. Fits(m.rev, m.view)'
      <3> DEFINE n == m.rev
                 e == m.view
      <3>1. n \in Int /\ e \in Nat /\ Fits(n, e) BY <1>1, <2>1
      <3> HIDE DEF n, e
      <3>2. n <= e - 1 + events' /\
            \A w \in 1 .. Views :
              (view'[w].phase = "opening" /\ claims'[w] = NoRev) => n + view'[w].rev <= e - 1 + events'
        BY <1>2, <3>1, FitsLater DEF ViewsMove
      <3> QED BY <3>2 DEF Fits, n, e
    <2>3. Known(m.view, m.op, m.rev, m.id, view'[m.view])
      <3> DEFINE v == view'[m.view]
      <3>1. v \in ViewRecords /\ Evolves(m.view, v) BY <1>1 DEF ViewsMove
      <3> HIDE DEF v
      <3>2. Known(m.view, m.op, m.rev, m.id, v) BY <1>1, <1>3, <2>1, <3>1, KnownLater
      <3> QED BY <3>2 DEF v
    <2> QED BY <2>1, <2>2, <2>3
  <1>5. /\ m.op = "action" => \A r \in runs : r.id # <<m.view, "action", m.rev>>
        /\ m.op = "save" => \A r \in runs : r.id # <<m.view, "save", m.id>>
    BY DEF FrameAgrees
  <1> QED BY <1>2, <1>3, <1>4, <1>5 DEF FrameAgrees

LEMMA ViewsKeep ==
  ASSUME IInv, ViewsMove, link' \in [up : BOOLEAN, drops : Nat], up' \in Seq(Asks \cup Stops),
         down' \in Seq(Replies), \A i \in DOMAIN down' : \E j \in DOMAIN down : down'[i] = down[j],
         FramesAgree'
  PROVE  IInv'
  <1>1. /\ UNCHANGED <<form, authority, approved, checking, options, attempt, runs, claims, passed>>
        /\ events' \in 0 .. MaxEvents /\ events <= events' /\ mounted' \in 0 .. Views /\ mounted <= mounted'
        /\ view' \in [1 .. Views -> ViewRecords] /\ \A w \in 1 .. Views : Evolves(w, view'[w])
    BY DEF ViewsMove, ViewStep, host
  <1>2. /\ events \in Nat /\ events' \in Nat /\ mounted \in Nat /\ mounted' \in Nat
        /\ authority.editor \in Nat /\ authority.editor <= mounted
    BY <1>1, ShapeFacts DEF IInv, ClaimsAgree
  <1>3. Shaped' BY <1>1 DEF IInv, Shaped
  <1>4. OneIsOpen' BY <1>1 DEF OneIsOpen, Evolves
  <1>5. ClaimsAgree'
    <2>1. authority.editor <= mounted' BY <1>1, <1>2
    <2>2. ASSUME NEW w \in 1 .. Views, view'[w].phase = "opening", claims[w] # NoRev
          PROVE  authority.rev = claims[w]
      <3>1. w <= mounted BY <1>2, <2>2 DEF IInv, ClaimsAgree
      <3>2. view[w].phase = "opening" BY <1>1, <1>2, <2>2, <3>1 DEF Evolves
      <3> QED BY <2>2, <3>2 DEF IInv, ClaimsAgree
    <2>3. \A w \in 1 .. Views :
            /\ view'[w].phase = "ready" =>
                 /\ claims[w] # NoRev
                 /\ view'[w].evaluated <= authority.rev /\ authority.rev <= view'[w].rev
            /\ view'[w].phase = "opening" => view'[w].evaluated = NoRev
      BY <1>1 DEF Evolves
    <2>4. /\ authority.editor # 0 => claims[authority.editor] # NoRev
          /\ \A w \in 1 .. Views : claims[w] # NoRev => w <= authority.editor
      BY DEF IInv, ClaimsAgree
    <2> QED BY <1>1, <2>1, <2>2, <2>3, <2>4 DEF ClaimsAgree
  <1>6. RevsFit'
    <2>1. Fits(authority.rev, authority.editor)'
      <3> DEFINE n == authority.rev
                 e == authority.editor
      <3>1. n \in Int /\ e \in Nat /\ Fits(n, e) BY ShapeFacts DEF IInv, RevsFit
      <3>2. n' = n /\ e' = e BY <1>1
      <3> HIDE DEF n, e
      <3>3. n <= e - 1 + events' /\
            \A w \in 1 .. Views :
              (view'[w].phase = "opening" /\ claims'[w] = NoRev) => n + view'[w].rev <= e - 1 + events'
        BY <1>1, <3>1, FitsLater DEF ViewsMove
      <3> QED BY <3>2, <3>3 DEF Fits, n, e
    <2>2. ASSUME NEW w \in 1 .. Views
          PROVE  /\ claims[w] <= w - 1 + events'
                 /\ (view'[w].phase = "opening" /\ claims[w] # NoRev) => claims[w] + view'[w].rev <= w - 1 + events'
                 /\ view'[w].phase = "ready" => view'[w].rev <= w - 1 + events'
      <3>1. /\ w \in Int /\ claims[w] \in Int /\ view'[w].rev \in Nat /\ view[w].rev \in Nat
        <4>1. claims[w] \in Nat \cup {-1} /\ view[w].rev \in Nat BY ShapeFacts
        <4>2. view'[w] \in ViewRecords BY <1>1
        <4>3. view'[w].rev \in Nat BY <4>2 DEF ViewRecords
        <4>4. w \in Int BY Constants
        <4> QED BY <4>1, <4>3, <4>4
      <3>2. \A a, b \in Int, x, y \in Nat : (a <= b - 1 + x /\ x <= y) => a <= b - 1 + y OBVIOUS
      <3>3. claims[w] <= w - 1 + events' BY <1>1, <1>2, <3>1, <3>2 DEF IInv, RevsFit
      <3>4. ASSUME view'[w].phase = "opening", claims[w] # NoRev
            PROVE  claims[w] + view'[w].rev <= w - 1 + events'
        <4>1. w <= mounted BY <1>2, <3>4 DEF IInv, ClaimsAgree
        <4>2. view[w].phase = "opening" /\ view'[w].rev + events <= view[w].rev + events'
          BY <1>1, <1>2, <3>1, <3>4, <4>1 DEF Evolves
        <4>3. claims[w] + view[w].rev <= w - 1 + events BY <3>4, <4>2 DEF IInv, RevsFit
        <4>4. \A c, b \in Int, p, q, x, y \in Nat :
                (c + p <= b - 1 + x /\ q + x <= p + y) => c + q <= b - 1 + y
          OBVIOUS
        <4> QED BY <1>2, <3>1, <4>2, <4>3, <4>4
      <3>5. view'[w].phase = "ready" => view'[w].rev <= w - 1 + events' BY <1>1 DEF Evolves
      <3> QED BY <3>3, <3>4, <3>5
    <2> QED BY <1>1, <2>1, <2>2 DEF RevsFit
  <1>7. RepliesAgree' BY <1>1 DEF IInv, RepliesAgree, ReplyAgrees
  <1>8. RunsAgree'
    <2>1. ASSUME NEW r \in runs PROVE RunAgrees(r)'
      <3>1. RunAgrees(r) /\ r \in Callbacks BY DEF IInv, RunsAgree, Shaped
      <3>2. r.id[2] = "answer" => r.id[3] <= events'
        <4>1. r.id[3] \in Nat BY <3>1 DEF Callbacks
        <4> QED BY <1>1, <1>2, <3>1, <4>1 DEF RunAgrees
      <3>3. ASSUME r.id[2] # "answer"
            PROVE  r.editor # 0 /\ Known(r.editor, r.id[2], r.rev, r.id[3], view'[r.editor])
        <4> DEFINE v == view'[r.editor]
        <4>1. /\ r.editor \in 1 .. Views /\ r.editor <= mounted /\ r.rev \in Int /\ r.id[3] \in Int
              /\ Known(r.editor, r.id[2], r.rev, r.id[3], view[r.editor])
          <5>1. r.editor # 0 /\ Known(r.editor, r.id[2], r.rev, r.id[3], view[r.editor])
            BY <3>1, <3>3 DEF RunAgrees
          <5>2. r.editor \in 0 .. Views /\ r.rev \in Int /\ r.id[3] \in Int /\ Views \in Nat
            BY <3>1, Constants DEF Callbacks
          <5>3. r.editor <= authority.editor BY <3>1 DEF RunAgrees
          <5> QED BY <1>2, <5>1, <5>2, <5>3
        <4>2. v \in ViewRecords /\ Evolves(r.editor, v) BY <1>1, <4>1
        <4> HIDE DEF v
        <4>3. Known(r.editor, r.id[2], r.rev, r.id[3], v) BY <4>1, <4>2, KnownLater
        <4> QED BY <4>1, <4>3 DEF v
      <3> QED BY <1>1, <3>1, <3>2, <3>3 DEF RunAgrees
    <2>2. \A r, o \in runs : r.id = o.id => r = o BY DEF IInv, RunsAgree
    <2> QED BY <1>1, <2>1, <2>2 DEF RunsAgree
  <1>9. ApprovalsAgree' BY <1>1 DEF IInv, ApprovalsAgree, SavedWasChecked
  <1>10. AttemptAgrees' BY <1>1 DEF IInv, AttemptAgrees, Current, Holds, Pending
  <1> QED BY <1>3, <1>4, <1>5, <1>6, <1>7, <1>8, <1>9, <1>10 DEF IInv

\* What the view w may send when it becomes v, besides the action.
Sent(w, v, m) ==
  \/ m \in Stops
  \/ /\ m = Frame("open", w, v) /\ w = mounted'
  \/ /\ m \in {Frame("evaluate", w, v), Frame("cancel", w, v), Frame("save", w, v)}
     /\ v.phase = "ready"
     /\ m.op = "save" => view[w].phase = "ready" /\ v.saves > view[w].saves

LEMMA FrameIsAsk ==
  ASSUME NEW w \in 1 .. Views, NEW v \in ViewRecords,
         NEW op \in {"open", "evaluate", "action", "save", "cancel"}
  PROVE  /\ Frame(op, w, v) \in Asks /\ Frame(op, w, v).op = op /\ Frame(op, w, v).view = w
         /\ Frame(op, w, v).rev = v.rev /\ Frame(op, w, v).id = v.saves
  BY DEF Frame, Asks, ViewRecords

LEMMA NewFrame ==
  ASSUME IInv, ViewsMove, NEW w \in 1 .. Views, NEW v \in ViewRecords, Evolves(w, v),
         NEW x, x = view'[w],
         x.phase = v.phase, x.rev = v.rev, x.draft = v.draft, x.saves = v.saves,
         NEW m, Sent(w, v, m) \/ (m = Frame("action", w, v) /\ Acts(v) /\ x.tried = Key(v))
  PROVE  /\ m \in Asks \cup Stops /\ FrameAgrees(m)'
         /\ \A i \in DOMAIN up : Follows(up[i], m)
         /\ \/ m \in Stops
            \/ m.view = w /\ m.op \in {"open", "evaluate", "action", "save", "cancel"}
  <1>1. CASE m \in Stops
    <2>1. m.op = "stop" BY <1>1 DEF Stops
    <2> QED BY <1>1, <2>1 DEF FrameAgrees, Follows
  <1>2. CASE m \notin Stops
    <2>1. /\ \/ m = Frame("open", w, v) /\ w = mounted'
             \/ /\ m \in {Frame("evaluate", w, v), Frame("cancel", w, v), Frame("save", w, v)}
                /\ v.phase = "ready"
                /\ m.op = "save" => view[w].phase = "ready" /\ v.saves > view[w].saves
             \/ m = Frame("action", w, v) /\ Acts(v) /\ x.tried = Key(v)
      BY <1>2 DEF Sent
    <2>2. /\ m \in Asks /\ m.view = w /\ m.rev = v.rev /\ m.id = v.saves
          /\ m.op \in {"open", "evaluate", "action", "save", "cancel"}
          /\ m.op = "open" => w = mounted'
          /\ m.op # "open" => v.phase = "ready"
          /\ m.op = "save" => view[w].phase = "ready" /\ v.saves > view[w].saves
          /\ m.op = "action" => v.tried # Key(v) /\ x.tried = Key(v)
      <3>1. CASE m = Frame("open", w, v) /\ w = mounted' BY <3>1, FrameIsAsk
      <3>2. CASE /\ m \in {Frame("evaluate", w, v), Frame("cancel", w, v), Frame("save", w, v)}
                 /\ v.phase = "ready"
                 /\ m.op = "save" => view[w].phase = "ready" /\ v.saves > view[w].saves
        BY <3>2, FrameIsAsk
      <3>3. CASE m = Frame("action", w, v) /\ Acts(v) /\ x.tried = Key(v)
        BY <3>3, FrameIsAsk DEF Acts
      <3> QED BY <2>1, <3>1, <3>2, <3>3
    <2> HIDE <2>1
    <2>3. /\ UNCHANGED <<authority, claims, runs>> /\ mounted \in Nat /\ mounted' \in Nat /\ mounted <= mounted'
          /\ authority.editor \in Nat /\ authority.editor <= mounted /\ events' \in Nat
          /\ v.rev \in Nat /\ v.saves \in Nat /\ view[w].saves \in Nat /\ w \in Nat
      <3>1. v.rev \in Nat /\ v.saves \in Nat BY DEF ViewRecords
      <3>2. /\ mounted \in Nat /\ authority.editor \in Nat /\ view[w].saves \in Nat
        BY ShapeFacts
      <3>3. mounted' \in Nat /\ mounted <= mounted' /\ events' \in Nat
        BY Constants DEF ViewsMove, ViewStep
      <3>4. authority.editor <= mounted BY DEF IInv, ClaimsAgree
      <3>5. UNCHANGED <<authority, claims, runs>> BY DEF ViewsMove, host
      <3> QED BY <3>1, <3>2, <3>3, <3>4, <3>5, Constants
    <2>4. m.op # "open" => w = mounted' BY <2>2 DEF Evolves, Open
    <2>5. w = mounted' BY <2>2, <2>4
    <2>6. m.op # "open" => claims[w] # NoRev /\ w <= mounted
      <3>1. m.op # "open" => claims[w] # NoRev BY <2>2 DEF Evolves
      <3>2. claims[w] # NoRev => w <= authority.editor BY DEF IInv, ClaimsAgree
      <3> QED BY <2>3, <3>1, <3>2
    \* An action of this revision was not sent before ...
    <2>7. ASSUME m.op = "action", NEW id \in Int, Known(w, "action", v.rev, id, view[w]) PROVE FALSE
      <3>1. v.rev \in Int BY <2>3
      <3>2. Known(w, "action", v.rev, id, v) BY <2>6, <2>7, <3>1, KnownLater
      <3> QED BY <2>2, <2>3, <2>7, <3>2 DEF Known
    \* ... and neither was this save.
    <2>8. ASSUME m.op = "save", NEW rev, Known(w, "save", rev, v.saves, view[w]) PROVE FALSE
      <3>1. v.saves <= view[w].saves BY <2>2, <2>8 DEF Known
      <3> QED BY <2>2, <2>3, <2>8, <3>1
    <2>9. FrameAgrees(m)'
      <3>1. authority.editor <= m.view /\ m.view <= mounted' BY <2>2, <2>3, <2>5
      <3>2. ASSUME m.op # "open" PROVE Fits(m.rev, m.view)'
        <4>1. m.rev <= m.view - 1 + events' BY <2>2, <3>2 DEF Evolves
        <4>2. \A u \in 1 .. Views : view'[u].phase # "opening"
          <5> SUFFICES ASSUME NEW u \in 1 .. Views, view'[u].phase = "opening" PROVE FALSE OBVIOUS
          <5>1. u = mounted' BY DEF ViewsMove, Evolves, Open
          <5> QED BY <2>2, <2>5, <3>2, <5>1
        <4> QED BY <4>1, <4>2 DEF Fits
      <3>3. ASSUME m.op # "open" PROVE Known(m.view, m.op, m.rev, m.id, x)
        <4>1. x.phase = "ready" /\ m.rev <= x.rev /\ m.id <= x.saves BY <2>2, <2>3, <3>3
        <4>2. Key(x) = Key(v) BY DEF Key
        <4> QED BY <2>2, <4>1, <4>2 DEF Known
      <3>4. ASSUME m.op = "action", NEW r \in runs, r.id = <<m.view, "action", m.rev>> PROVE FALSE
        <4>1. r \in Callbacks /\ RunAgrees(r) BY DEF IInv, Shaped, RunsAgree
        <4>2. r.id = <<w, "action", v.rev>> BY <2>2, <3>4
        <4>3. r.id[2] = "action" /\ r.id[3] = v.rev /\ r.id[1] = w BY <4>2
        <4>4. r.id = <<r.editor, "action", r.rev>> BY <4>1, <4>3 DEF RunAgrees
        <4>5. r.editor = w /\ r.rev = v.rev BY <4>2, <4>4
        <4>6. Known(w, "action", v.rev, r.id[3], view[w]) BY <4>1, <4>3, <4>5 DEF RunAgrees
        <4> QED BY <2>3, <2>7, <3>4, <4>3, <4>6
      <3>5. ASSUME m.op = "save", NEW r \in runs, r.id = <<m.view, "save", m.id>> PROVE FALSE
        <4>1. r \in Callbacks /\ RunAgrees(r) BY DEF IInv, Shaped, RunsAgree
        <4>2. r.id = <<w, "save", v.saves>> BY <2>2, <3>5
        <4>3. r.id[2] = "save" /\ r.id[3] = v.saves /\ r.id[1] = w BY <4>2
        <4>4. r.editor = w BY <4>1, <4>3 DEF RunAgrees
        <4>5. Known(w, "save", r.rev, v.saves, view[w]) BY <4>1, <4>3, <4>4 DEF RunAgrees
        <4> QED BY <2>8, <3>5, <4>5
      <3> HIDE DEF Known
      <3> QED BY <2>2, <2>3, <2>6, <3>1, <3>2, <3>3, <3>4, <3>5 DEF FrameAgrees
    <2>10. ASSUME NEW i \in DOMAIN up PROVE Follows(up[i], m)
      <3> DEFINE o == up[i]
      <3>1. o \in Asks \cup Stops /\ FrameAgrees(o) BY DEF IInv, Shaped, FramesAgree
      <3> HIDE DEF o
      <3> SUFFICES ASSUME o.op # "stop" PROVE Follows(o, m) BY DEF Follows, o
      <3>2. o \in Asks /\ o.view \in Nat /\ o.rev \in Nat /\ o.id \in Nat BY <3>1, Constants DEF Asks, Stops
      <3>3. o.view <= m.view
        <4>1. o.view <= mounted BY <3>1 DEF FrameAgrees
        <4> QED BY <2>2, <2>3, <2>5, <3>2, <4>1
      <3>4. (o.view = m.view /\ o.op = "action" /\ m.op = "action") => o.rev # m.rev
        <4> SUFFICES ASSUME o.view = m.view, o.op = "action", m.op = "action", o.rev = m.rev PROVE FALSE
          OBVIOUS
        <4>1. Known(w, "action", v.rev, o.id, view[w]) BY <2>2, <3>1 DEF FrameAgrees
        <4> QED BY <2>7, <3>2, <4>1
      <3>5. (o.view = m.view /\ o.op = "save" /\ m.op = "save") => o.id # m.id
        <4> SUFFICES ASSUME o.view = m.view, o.op = "save", m.op = "save", o.id = m.id PROVE FALSE
          OBVIOUS
        <4>1. Known(w, "save", o.rev, v.saves, view[w]) BY <2>2, <3>1 DEF FrameAgrees
        <4> QED BY <2>8, <4>1
      <3> QED BY <3>3, <3>4, <3>5 DEF Follows
    <2> QED BY <2>2, <2>9, <2>10
  <1> QED BY <1>1, <1>2

\* The frames t are sent after those that are under way.
LEMMA FramesSent ==
  ASSUME IInv, ViewsMove, NEW t \in Seq(Asks \cup Stops), up' = up \o t,
         \A i \in DOMAIN t : FrameAgrees(t[i])' /\ \A j \in DOMAIN up : Follows(up[j], t[i]),
         \A i, j \in DOMAIN t : i < j => Follows(t[i], t[j])
  PROVE  up' \in Seq(Asks \cup Stops) /\ FramesAgree'
  <1> DEFINE T == Asks \cup Stops
  <1>1. up \in Seq(T) BY DEF IInv, Shaped
  <1> HIDE DEF T
  <1>2. /\ up' \in Seq(T)
        /\ \A i \in DOMAIN up' :
             /\ i \in Nat
             /\ \/ i \in DOMAIN up /\ i <= Len(up) /\ up'[i] = up[i]
                \/ i - Len(up) \in DOMAIN t /\ i > Len(up) /\ up'[i] = t[i - Len(up)]
    BY <1>1, ConcatFacts DEF T
  <1>3. Len(up) \in Nat /\ \A i \in DOMAIN up : up[i] \in T BY <1>1
  <1>4. ASSUME NEW i \in DOMAIN up', NEW m, m = up'[i] PROVE FrameAgrees(m)'
    <2>1. CASE i \in DOMAIN up /\ up'[i] = up[i]
      <3>1. m \in Asks \cup Stops /\ FrameAgrees(m) BY <1>3, <1>4, <2>1 DEF IInv, FramesAgree, T
      <3> QED BY <3>1, FrameLater
    <2>2. CASE i - Len(up) \in DOMAIN t /\ up'[i] = t[i - Len(up)] BY <1>4, <2>2
    <2> QED BY <1>2, <2>1, <2>2
  <1>5. ASSUME NEW i \in DOMAIN up', NEW j \in DOMAIN up', i < j PROVE Follows(up'[i], up'[j])
    <2>1. CASE i \in DOMAIN up /\ j \in DOMAIN up /\ up'[i] = up[i] /\ up'[j] = up[j]
      BY <1>5, <2>1 DEF IInv, FramesAgree
    <2>2. CASE i \in DOMAIN up /\ up'[i] = up[i] /\ j - Len(up) \in DOMAIN t /\ up'[j] = t[j - Len(up)]
      BY <2>2
    <2>3. CASE /\ i - Len(up) \in DOMAIN t /\ up'[i] = t[i - Len(up)]
               /\ j - Len(up) \in DOMAIN t /\ up'[j] = t[j - Len(up)]
      <3>1. i - Len(up) < j - Len(up) BY <1>2, <1>3, <1>5
      <3> QED BY <2>3, <3>1
    <2>4. ~(i > Len(up) /\ j <= Len(up)) BY <1>2, <1>3, <1>5
    <2> QED BY <1>2, <2>1, <2>2, <2>3, <2>4
  <1> QED BY <1>2, <1>4, <1>5 DEF FramesAgree, T

LEMMA FrameSent ==
  ASSUME IInv, ViewsMove, NEW m \in Asks \cup Stops, up' = Append(up, m),
         FrameAgrees(m)', \A j \in DOMAIN up : Follows(up[j], m)
  PROVE  up' \in Seq(Asks \cup Stops) /\ FramesAgree'
  <1> DEFINE T == Asks \cup Stops
             t == <<m>>
  <1>1. up \in Seq(T) BY DEF IInv, Shaped
  <1>2. t \in Seq(T) /\ DOMAIN t = {1} /\ t[1] = m BY DEF T
  <1> HIDE DEF T
  <1>3. up' = up \o t BY <1>1
  <1> HIDE DEF t
  <1> QED BY <1>2, <1>3, FramesSent DEF T

\* The frames f may be sent by the view w when it becomes v: at most one asks for something.
Sends(w, v, f) ==
  /\ f \in Seq(Asks \cup Stops)
  /\ \A i \in DOMAIN f : Sent(w, v, f[i])
  /\ \A i, j \in DOMAIN f : i < j => f[i] \in Stops \/ f[j] \in Stops

LEMMA SendsForms ==
  ASSUME NEW w, NEW v, NEW a \in Seq(Stops), NEW b \in Seq(Stops),
         NEW m \in Asks, Sent(w, v, m)
  PROVE  /\ Sends(w, v, <<>>) /\ Sends(w, v, <<m>>) /\ Sends(w, v, a \o <<m>>)
         /\ Sends(w, v, (a \o <<m>>) \o b)
  <1> DEFINE T == Asks \cup Stops
             s == <<m>>
             f == a \o s
             g == f \o b
  <1>1. a \in Seq(T) /\ b \in Seq(T) /\ s \in Seq(T) /\ DOMAIN s = {1} /\ s[1] = m /\ Len(s) = 1
    OBVIOUS
  <1>2. \A i \in DOMAIN a : a[i] \in Stops OBVIOUS
  <1>3. \A i \in DOMAIN b : b[i] \in Stops OBVIOUS
  <1>4. Sends(w, v, <<>>) BY DEF Sends
  <1>5. Sends(w, v, s) BY <1>1 DEF Sends
  <1> HIDE DEF s, T
  <1>6. \A n \in Stops : Sent(w, v, n) BY DEF Sent
  <1>7. Len(a) \in Nat OBVIOUS
  <1>8. /\ f \in Seq(T)
        /\ \A i \in DOMAIN f : i \in Nat /\ (f[i] \in Stops \/ (i = Len(a) + 1 /\ f[i] = m))
    <2>1. f \in Seq(T) BY <1>1, ConcatFacts
    <2>2. ASSUME NEW i \in DOMAIN f PROVE i \in Nat /\ (f[i] \in Stops \/ (i = Len(a) + 1 /\ f[i] = m))
      <3>1. /\ i \in Nat
            /\ \/ i \in DOMAIN a /\ i <= Len(a) /\ f[i] = a[i]
               \/ i - Len(a) \in DOMAIN s /\ i > Len(a) /\ f[i] = s[i - Len(a)]
        BY <1>1, ConcatFacts
      <3>2. CASE i \in DOMAIN a /\ i <= Len(a) /\ f[i] = a[i] BY <1>2, <3>1, <3>2
      <3>3. CASE i - Len(a) \in DOMAIN s /\ i > Len(a) /\ f[i] = s[i - Len(a)]
        <4>1. i - Len(a) = 1 BY <1>1, <3>3
        <4>2. i = Len(a) + 1 BY <1>7, <3>1, <4>1
        <4> QED BY <1>1, <3>1, <3>3, <4>1, <4>2
      <3> QED BY <3>1, <3>2, <3>3
    <2> QED BY <2>1, <2>2
  <1> HIDE DEF f
  <1>9. Sends(w, v, f) BY <1>6, <1>7, <1>8 DEF Sends, T
  <1>10. /\ g \in Seq(T)
         /\ \A i \in DOMAIN g : i \in Nat /\ (g[i] \in Stops \/ (i = Len(a) + 1 /\ g[i] = m))
    <2>1. g \in Seq(T) BY <1>1, <1>8, ConcatFacts
    <2>2. ASSUME NEW i \in DOMAIN g PROVE i \in Nat /\ (g[i] \in Stops \/ (i = Len(a) + 1 /\ g[i] = m))
      <3>1. /\ i \in Nat
            /\ \/ i \in DOMAIN f /\ i <= Len(f) /\ g[i] = f[i]
               \/ i - Len(f) \in DOMAIN b /\ i > Len(f) /\ g[i] = b[i - Len(f)]
        BY <1>1, <1>8, ConcatFacts
      <3> QED BY <1>3, <1>8, <3>1
    <2> QED BY <2>1, <2>2
  <1> HIDE DEF g
  <1>11. Sends(w, v, g) BY <1>6, <1>7, <1>10 DEF Sends, T
  <1> QED BY <1>4, <1>5, <1>9, <1>11 DEF g, f, s

LEMMA StopForms ==
  ASSUME NEW w \in 1 .. Views, NEW v, NEW o \in ViewRecords
  PROVE  /\ StopSave(w, o) \in Seq(Stops) /\ StopAction(w, o) \in Seq(Stops)
         /\ Sends(w, v, <<>>) /\ Sends(w, v, StopSave(w, o) \o StopAction(w, o))
  <1> DEFINE a == StopSave(w, o)
             b == StopAction(w, o)
             T == Asks \cup Stops
  <1>1. a \in Seq(Stops)
    <2>1. <<w, "save", o.saving>> \in (1 .. Views) \X {"action", "save"} \X Nat BY DEF ViewRecords
    <2> DEFINE e == [op |-> "stop", run |-> <<w, "save", o.saving>>]
    <2>2. e \in Stops BY <2>1 DEF Stops
    <2>3. a = IF o.saving # 0 THEN <<e>> ELSE <<>> BY DEF StopSave
    <2> HIDE DEF e, a
    <2> QED BY <2>2, <2>3
  <1>2. b \in Seq(Stops)
    <2>1. o.acting # NoRev => <<w, "action", o.acting>> \in (1 .. Views) \X {"action", "save"} \X Nat
      BY DEF ViewRecords
    <2> DEFINE e == [op |-> "stop", run |-> <<w, "action", o.acting>>]
    <2>2. o.acting # NoRev => e \in Stops BY <2>1 DEF Stops
    <2>3. b = IF o.acting # NoRev THEN <<e>> ELSE <<>> BY DEF StopAction
    <2> HIDE DEF e, b
    <2> QED BY <2>2, <2>3
  <1> HIDE DEF a, b
  <1>3. a \o b \in Seq(Stops) BY <1>1, <1>2
  <1>4. \A s \in Seq(Stops) : Sends(w, v, s)
    <2> SUFFICES ASSUME NEW s \in Seq(Stops) PROVE Sends(w, v, s) OBVIOUS
    <2>1. s \in Seq(T) /\ \A i \in DOMAIN s : s[i] \in Stops OBVIOUS
    <2> QED BY <2>1 DEF Sends, Sent
  <1>5. <<>> \in Seq(Stops) OBVIOUS
  <1> QED BY <1>1, <1>2, <1>3, <1>4, <1>5 DEF a, b

\* The view w becomes v, and looks at its automatic action.
LEMMA BecomesKeeps ==
  ASSUME IInv, UNCHANGED host, ViewStep, NEW w \in 1 .. Views, NEW v \in ViewRecords, NEW f,
         Evolves(w, v), Sends(w, v, f), Becomes(w, v, f),
         \A u \in 1 .. Views : (u # w /\ Open(view[u])) => u = mounted',
         UNCHANGED link, down' \in Seq(Replies),
         \A i \in DOMAIN down' : \E j \in DOMAIN down : down'[i] = down[j]
  PROVE  IInv'
  <1> DEFINE T == Asks \cup Stops
             x == IF Acts(v) THEN [v EXCEPT !.acting = v.rev, !.tried = Key(v)] ELSE v
             act == IF Acts(v) THEN <<Frame("action", w, v)>> ELSE <<>>
  <1>1. view \in [1 .. Views -> ViewRecords] /\ up \in Seq(T) /\ link \in [up : BOOLEAN, drops : Nat]
    BY DEF IInv, Shaped
  <1>2. /\ x \in ViewRecords /\ x.phase = v.phase /\ x.rev = v.rev /\ x.draft = v.draft
        /\ x.saves = v.saves /\ x.evaluated = v.evaluated
        /\ Acts(v) => x.tried = Key(v)
        /\ x.tried = v.tried \/ x.tried = Key(v)
        /\ x.phase # "ready" => x.acting = v.acting /\ x.saving = v.saving
    <2>1. v.rev \in Nat /\ Key(v) \in Nat BY Constants DEF ViewRecords, Key
    <2> QED BY <2>1 DEF ViewRecords, Acts
  <1>3. view' = [view EXCEPT ![w] = x] /\ up' = IF link.up THEN (up \o f) \o act ELSE up
    BY DEF Becomes
  <1> HIDE DEF x
  <1>4. Evolves(w, x)
    <2>1. /\ Open(x) => w = mounted'
          /\ x.phase # "ready" => x.acting = NoRev /\ x.saving = 0
      BY <1>2 DEF Evolves, Open
    <2>2. Key(x) = Key(v) BY <1>2 DEF Key
    <2>3. x.phase = "opening" =>
            /\ x.evaluated = NoRev
            /\ \/ view[w].phase = "opening" /\ x.rev + events <= view[w].rev + events'
               \/ mounted < w /\ x.rev = 0
      BY <1>2 DEF Evolves
    <2>4. x.phase = "ready" =>
            /\ claims[w] # NoRev /\ x.evaluated <= authority.rev /\ authority.rev <= x.rev
            /\ x.rev <= w - 1 + events'
            /\ \/ view[w].phase = "opening"
               \/ /\ view[w].phase = "ready" /\ view[w].rev <= x.rev /\ view[w].saves <= x.saves
                  /\ view[w].rev = x.rev =>
                       Key(x) = Key(view[w]) /\ (x.tried = view[w].tried \/ x.tried = Key(x))
      BY <1>2, <2>2 DEF Evolves
    <2> QED BY <2>1, <2>3, <2>4 DEF Evolves
  <1>5. view' \in [1 .. Views -> ViewRecords] /\ view'[w] = x /\ \A u \in 1 .. Views : u # w => view'[u] = view[u]
    BY <1>1, <1>2, <1>3
  <1>6. ViewsMove
    <2>1. ASSUME NEW u \in 1 .. Views, u # w PROVE Evolves(u, view'[u])
      <3> DEFINE y == view[u]
      <3>1. y \in ViewRecords BY <1>1
      <3>2. Open(y) => u = mounted' BY <2>1
      <3>3. Evolves(u, y)
        <4> HIDE DEF y
        <4>1. y = view[u] BY DEF y
        <4>2. y.phase # "ready" => y.acting = NoRev /\ y.saving = 0 BY <4>1 DEF IInv, OneIsOpen
        <4> QED BY <3>1, <3>2, <4>1, <4>2, SameEvolves
      <3> QED BY <1>5, <2>1, <3>3
    <2> QED BY <1>4, <1>5, <2>1 DEF ViewsMove
  <1>7. f \in Seq(T) /\ act \in Seq(T)
    <2> DEFINE m == Frame("action", w, v)
    <2>1. m \in T BY FrameIsAsk
    <2>2. act = IF Acts(v) THEN <<m>> ELSE <<>> OBVIOUS
    <2>3. f \in Seq(T) BY DEF Sends
    <2> HIDE DEF m, act, T
    <2> QED BY <2>1, <2>2, <2>3
  <1>8. ASSUME NEW i \in DOMAIN act
        PROVE  act[i] = Frame("action", w, v) /\ Acts(v) /\ i = 1
    OBVIOUS
  <1> HIDE DEF T, act
  <1>9. up' \in Seq(T) /\ FramesAgree'
    <2>1. CASE link.up
      <3> DEFINE t == f \o act
      <3>1. up' = up \o t BY SMTT(30), <1>1, <1>3, <1>7, <2>1, ConcatAssociative
      <3>2. /\ t \in Seq(T)
            /\ \A i \in DOMAIN t :
                 /\ i \in Nat
                 /\ \/ i \in DOMAIN f /\ i <= Len(f) /\ t[i] = f[i]
                    \/ i - Len(f) \in DOMAIN act /\ i > Len(f) /\ t[i] = act[i - Len(f)]
        BY <1>7, ConcatFacts
      <3>3. Len(f) \in Nat BY <1>7
      <3> HIDE DEF t
      <3>4. ASSUME NEW i \in DOMAIN t, NEW m, m = t[i]
            PROVE  Sent(w, v, m) \/ (m = Frame("action", w, v) /\ Acts(v) /\ x.tried = Key(v))
        BY <1>2, <1>8, <3>2, <3>4 DEF Sends
      <3>5. ASSUME NEW i \in DOMAIN t, NEW m, m = t[i]
            PROVE  /\ FrameAgrees(m)' /\ \A j \in DOMAIN up : Follows(up[j], m)
                   /\ \/ m \in Stops
                      \/ m.view = w /\ m.op \in {"open", "evaluate", "action", "save", "cancel"}
        <4>1. x = view'[w] BY <1>5
        <4> QED BY <1>2, <1>6, <3>4, <3>5, <4>1, NewFrame
      <3>6. ASSUME NEW i \in DOMAIN t, NEW j \in DOMAIN t, i < j PROVE Follows(t[i], t[j])
        <4>1. \A n : \A m \in Stops : Follows(m, n) /\ Follows(n, m)
          <5>1. \A m \in Stops : m.op = "stop" BY DEF Stops
          <5> QED BY <5>1 DEF Follows
        <4>2. CASE i \in DOMAIN f /\ t[i] = f[i] /\ j \in DOMAIN f /\ t[j] = f[j]
          BY <3>6, <4>1, <4>2 DEF Sends
        <4>3. CASE i \in DOMAIN f /\ t[i] = f[i] /\ t[j] = Frame("action", w, v)
          <5> DEFINE m == t[i]
                     n == t[j]
          <5>1. Sent(w, v, m) BY <4>3 DEF Sends
          <5>2. n.op = "action" /\ n.view = w BY <4>3, FrameIsAsk
          <5>3. m \in Stops \/ (m.view = w /\ m.op # "action" /\ m.op # "stop")
            BY <5>1, FrameIsAsk DEF Sent
          <5> HIDE DEF m, n
          <5>4. w <= w BY Constants
          <5>5. Follows(m, n) BY <4>1, <5>2, <5>3, <5>4 DEF Follows
          <5> QED BY <5>5 DEF m, n
        <4>4. i - Len(f) \in DOMAIN act => j \notin DOMAIN f \/ j > Len(f) BY <1>7, <3>2, <3>3, <3>6
        <4>5. ~(i - Len(f) \in DOMAIN act /\ j - Len(f) \in DOMAIN act) BY <1>8, <3>2, <3>3, <3>6
        <4>6. ~(i > Len(f) /\ j <= Len(f)) BY <3>2, <3>3, <3>6
        <4> QED BY <1>8, <3>2, <4>2, <4>3, <4>5, <4>6
      <3>7. \A i \in DOMAIN t : FrameAgrees(t[i])' /\ \A j \in DOMAIN up : Follows(up[j], t[i])
        BY <3>5
      <3> QED BY <1>6, <3>1, <3>2, <3>6, <3>7, FramesSent DEF T
    <2>2. CASE ~link.up
      <3> DEFINE t == <<>>
      <3>1. up' = up \o t /\ t \in Seq(T) /\ DOMAIN t = {} BY <1>1, <1>3, <2>2, ConcatEmptySeq
      <3> HIDE DEF t
      <3> QED BY <1>6, <3>1, FramesSent DEF T
    <2> QED BY <2>1, <2>2
  <1> QED BY <1>1, <1>6, <1>9, ViewsKeep DEF T

-----------------------------------------------------------------------------
(* What the user, the settlement and replies make of a view.               *)

\* The connection carries no more replies than it did.
NoNewReply ==
  UNCHANGED link /\ down' \in Seq(Replies) /\ \A i \in DOMAIN down' : \E j \in DOMAIN down : down'[i] = down[j]

LEMMA QuietReplies ==
  ASSUME IInv, UNCHANGED <<link, down>> PROVE NoNewReply
  BY DEF NoNewReply, IInv, Shaped

LEMMA EventStep ==
  ASSUME IInv, Event \/ UNCHANGED events, UNCHANGED mounted
  PROVE  ViewStep /\ events' \in Nat /\ (Event => events' = events + 1)
  <1>1. /\ events \in Nat /\ events <= MaxEvents /\ MaxEvents \in Nat /\ mounted \in 0 .. Views
        /\ Views \in Nat
    BY ShapeFacts
  <1> QED BY <1>1 DEF ViewStep, Event

LEMMA EvaluatingFacts ==
  ASSUME IInv, NEW v \in ViewRecords
  PROVE  /\ Evaluating(v) \in ViewRecords /\ Evaluating(v).phase = v.phase /\ Evaluating(v).rev = v.rev
         /\ Evaluating(v).draft = v.draft /\ Evaluating(v).saves = v.saves /\ Evaluating(v).tried = v.tried
         /\ Evaluating(v).evaluated = v.evaluated /\ Evaluating(v).acting = v.acting
         /\ Evaluating(v).saving = v.saving
         /\ \A w, op : Frame(op, w, Evaluating(v)) = Frame(op, w, v)
  <1>1. IF link.up THEN v.awaited + 1 \in Int ELSE 0 \in Int BY DEF ViewRecords
  <1> QED BY <1>1 DEF Evaluating, ViewRecords, Frame

\* A view that is there moves on: the host hears of it, nothing else happens.
LEMMA ViewMoves ==
  ASSUME IInv, UNCHANGED host, UNCHANGED mounted, Event \/ UNCHANGED events, NoNewReply,
         NEW w \in 1 .. Views, NEW v \in ViewRecords, NEW f, Evolves(w, v), Sends(w, v, f), Becomes(w, v, f)
  PROVE  IInv'
  <1>1. ViewStep BY EventStep
  <1>2. \A u \in 1 .. Views : Open(view[u]) => u = mounted' BY DEF IInv, OneIsOpen
  <1> QED BY <1>1, <1>2, BecomesKeeps DEF NoNewReply

LEMMA CloseKeeps ==
  ASSUME IInv, UNCHANGED host, UNCHANGED mounted, Event \/ UNCHANGED events, NoNewReply,
         NEW w \in 1 .. Views, NEW o \in ViewRecords,
         Closed(w, o) \/ Becomes(w, Unmounted, <<>>)
  PROVE  IInv'
  <1>1. Evolves(w, Unmounted) BY UnmountedIsView DEF Evolves, Open
  <1>2. CASE Closed(w, o)
    BY <1>1, <1>2, UnmountedIsView, StopForms, ViewMoves DEF Closed
  <1>3. CASE Becomes(w, Unmounted, <<>>)
    BY <1>1, <1>3, UnmountedIsView, StopForms, ViewMoves
  <1> QED BY <1>2, <1>3

LEMMA SameKeeps ==
  ASSUME IInv, UNCHANGED host, UNCHANGED mounted, Event \/ UNCHANGED events, NoNewReply,
         NEW w \in 1 .. Views, NEW v \in ViewRecords, NEW f, Sends(w, v, f), Becomes(w, v, f),
         v.phase = view[w].phase, v.rev = view[w].rev, v.saves = view[w].saves, v.draft = view[w].draft,
         v.tried = view[w].tried, v.evaluated = view[w].evaluated,
         v.phase # "ready" => v.acting = NoRev /\ v.saving = 0
  PROVE  IInv'
  <1>1. ViewStep BY EventStep
  <1>2. Open(v) => w = mounted' BY DEF IInv, OneIsOpen, Open
  <1>3. Evolves(w, v) BY <1>1, <1>2, SameEvolves
  <1> QED BY <1>3, ViewMoves

LEMMA MountKeeps ==
  ASSUME IInv, Mount PROVE IInv'
  <1> DEFINE w == mounted + 1
  <1>1. /\ mounted' = w /\ \A u \in 1 .. Views : ~Open(view[u])
        /\ UNCHANGED <<host, link, down, events>> /\ mounted < Views
    BY DEF Mount
  <1>2. /\ w \in 1 .. Views /\ mounted \in Nat /\ events \in 0 .. MaxEvents /\ mounted < w
        /\ ViewStep
    <2>1. mounted \in 0 .. Views /\ events \in Nat /\ events <= MaxEvents /\ MaxEvents \in Nat /\ Views \in Nat
      BY ShapeFacts
    <2> QED BY <1>1, <2>1 DEF ViewStep
  <1>3. PICK replay \in BOOLEAN : Becomes(w, [NewView EXCEPT !.replay = replay], <<Frame("open", w, NewView)>>)
    BY DEF Mount
  <1> DEFINE v == [NewView EXCEPT !.replay = replay]
             m == Frame("open", w, NewView)
  <1>4. /\ v \in ViewRecords /\ v.phase = "opening" /\ v.rev = 0 /\ v.evaluated = NoRev
        /\ v.acting = NoRev /\ v.saving = 0
    BY UnmountedIsView DEF ViewRecords
  <1>5. m = Frame("open", w, v) /\ m \in Asks
    <2>1. m = Frame("open", w, v) BY DEF Frame, NewView
    <2> HIDE DEF m
    <2> QED BY <1>2, <1>4, <2>1, FrameIsAsk
  <1>6. Becomes(w, v, <<m>>) BY <1>3
  <1> HIDE DEF v, m, w
  <1>7. Evolves(w, v) BY <1>1, <1>2, <1>4 DEF Evolves
  <1>8. Sends(w, v, <<m>>)
    <2>1. Sent(w, v, m) BY <1>1, <1>5 DEF Sent
    <2>2. <<>> \in Seq(Stops) OBVIOUS
    <2> QED BY <1>5, <2>1, <2>2, SendsForms
  <1>9. NoNewReply BY <1>1, QuietReplies
  <1> QED BY <1>1, <1>2, <1>4, <1>6, <1>7, <1>8, <1>9, BecomesKeeps DEF NoNewReply

LEMMA DetachKeeps ==
  ASSUME IInv, NEW w \in 1 .. Views, Detach(w) PROVE IInv'
  <1>1. NoNewReply BY QuietReplies DEF Detach
  <1>2. view[w] \in ViewRecords BY ShapeFacts
  <1> QED BY <1>1, <1>2, CloseKeeps DEF Detach

LEMMA ResolvedKeeps ==
  ASSUME IInv, NEW w \in 1 .. Views, Resolved(w) PROVE IInv'
  <1>1. NoNewReply BY QuietReplies DEF Resolved
  <1>2. view[w] \in ViewRecords BY ShapeFacts
  <1> QED BY <1>1, <1>2, CloseKeeps DEF Resolved

\* What a view asks when it is ready, after its stops.
LEMMA ReadySends ==
  ASSUME NEW w \in 1 .. Views, NEW v \in ViewRecords, NEW o \in ViewRecords,
         NEW op \in {"evaluate", "cancel"}, v.phase = "ready"
  PROVE  /\ Sends(w, v, <<Frame(op, w, v)>>) /\ Sends(w, v, StopSave(w, o) \o <<Frame(op, w, v)>>)
         /\ Sends(w, v, (StopSave(w, o) \o <<Frame(op, w, v)>>) \o StopAction(w, o))
  <1> DEFINE m == Frame(op, w, v)
  <1>1. m \in Asks /\ Sent(w, v, m) BY FrameIsAsk DEF Sent
  <1>2. StopSave(w, o) \in Seq(Stops) /\ StopAction(w, o) \in Seq(Stops) BY StopForms
  <1> HIDE DEF m
  <1> QED BY <1>1, <1>2, SendsForms DEF m

LEMMA EditKeeps ==
  ASSUME IInv, NEW w \in 1 .. Views, NEW d \in Drafts, Edit(w, d) PROVE IInv'
  <1> DEFINE v == view[w]
             kept == v.acting = NoRev /\ v.tried = KeyOf[d]
             x == [v EXCEPT !.rev = @ + 1, !.draft = d, !.saving = 0, !.acting = NoRev, !.leaving = 0,
                            !.tried = IF kept THEN @ ELSE 0, !.lost = @ /\ kept, !.replay = FALSE]
  <1>1. /\ Open(v) /\ Event /\ UNCHANGED <<host, mounted, link, down>>
        /\ IF v.phase = "ready"
           THEN Becomes(w, Evaluating(x), (StopSave(w, v) \o <<Frame("evaluate", w, x)>>) \o StopAction(w, v))
           ELSE Becomes(w, x, <<>>)
    BY DEF Edit
  <1>2. v \in ViewRecords BY ShapeFacts
  <1>3. /\ x \in ViewRecords /\ x.phase = v.phase /\ x.rev = v.rev + 1 /\ x.evaluated = v.evaluated
        /\ x.saves = v.saves /\ x.acting = NoRev /\ x.saving = 0
    <2> DEFINE r == v.rev + 1
               t == IF kept THEN v.tried ELSE 0
               l == v.lost /\ kept
    <2>1. r \in Nat /\ t \in Nat /\ l \in BOOLEAN BY <1>2 DEF ViewRecords
    <2> DEFINE c == [v EXCEPT !.rev = r, !.draft = d, !.saving = 0, !.acting = NoRev]
               g == [c EXCEPT !.leaving = 0]
               e == [g EXCEPT !.tried = t]
               y == [e EXCEPT !.lost = l, !.replay = FALSE]
    <2>2. x = y BY <1>2 DEF ViewRecords
    <2> HIDE DEF r, t, l, v, x
    <2>5. /\ c \in ViewRecords /\ c.phase = v.phase /\ c.rev = r /\ c.evaluated = v.evaluated
          /\ c.saves = v.saves /\ c.acting = NoRev /\ c.saving = 0
      BY <1>2, <2>1 DEF ViewRecords
    <2> HIDE DEF c
    <2>7. /\ g \in ViewRecords /\ g.phase = v.phase /\ g.rev = r /\ g.evaluated = v.evaluated
          /\ g.saves = v.saves /\ g.acting = NoRev /\ g.saving = 0
      BY <2>5 DEF ViewRecords
    <2> HIDE DEF g
    <2>6. /\ e \in ViewRecords /\ e.phase = v.phase /\ e.rev = r /\ e.evaluated = v.evaluated
          /\ e.saves = v.saves /\ e.acting = NoRev /\ e.saving = 0
      BY <2>1, <2>7 DEF ViewRecords
    <2> HIDE DEF e
    <2>3. /\ y \in ViewRecords /\ y.phase = v.phase /\ y.rev = r /\ y.evaluated = v.evaluated
          /\ y.saves = v.saves /\ y.acting = NoRev /\ y.saving = 0
      BY <2>1, <2>6 DEF ViewRecords
    <2> HIDE DEF y
    <2>4. /\ x \in ViewRecords /\ x.phase = v.phase /\ x.rev = r /\ x.evaluated = v.evaluated
          /\ x.saves = v.saves /\ x.acting = NoRev /\ x.saving = 0
      BY <2>2, <2>3
    <2> QED BY <2>4 DEF r
  <1>4. v.rev \in Nat /\ v.saves \in Nat /\ authority.rev \in Int /\ events \in Nat /\ w \in Nat
    BY ShapeFacts, Constants
  <1>5. ViewStep /\ events' = events + 1 BY <1>1, EventStep
  <1>6. NoNewReply BY <1>1, QuietReplies
  <1>7. w = mounted' BY <1>1 DEF IInv, OneIsOpen
  <1>8. /\ v.phase = "opening" => v.evaluated = NoRev
        /\ v.phase = "ready" =>
             /\ claims[w] # NoRev /\ v.evaluated <= authority.rev /\ authority.rev <= v.rev
             /\ v.rev <= w - 1 + events
    BY DEF IInv, ClaimsAgree, RevsFit
  <1>11. v.phase \in Phases BY <1>2 DEF ViewRecords
  <1>12. x.rev # v.rev /\ x.rev \in Nat /\ v.rev <= x.rev /\ v.saves <= x.saves BY <1>3, <1>4
  <1> DEFINE z == Evaluating(x)
  <1>13. /\ z \in ViewRecords /\ z.phase = v.phase /\ z.rev = x.rev /\ z.evaluated = v.evaluated
         /\ z.saves = v.saves /\ z.acting = NoRev /\ z.saving = 0
         /\ Frame("evaluate", w, z) = Frame("evaluate", w, x)
    <2> HIDE DEF x
    <2> QED BY <1>3, EvaluatingFacts
  <1> HIDE DEF x, z
  <1>9. ASSUME v.phase = "ready" PROVE IInv'
    <2>1. authority.rev <= z.rev /\ z.rev <= w - 1 + events'
      BY <1>3, <1>4, <1>5, <1>8, <1>9, <1>13
    <2>2. Evolves(w, z)
      <3>1. v.rev <= z.rev /\ v.saves <= z.saves /\ z.rev # v.rev BY <1>3, <1>12, <1>13
      <3>2. z.phase = "ready" BY <1>9, <1>13
      <3>3. claims[w] # NoRev /\ z.evaluated <= authority.rev BY <1>8, <1>9, <1>13
      <3> QED BY <1>7, <1>9, <2>1, <3>1, <3>2, <3>3 DEF Evolves
    <2> DEFINE f == (StopSave(w, v) \o <<Frame("evaluate", w, x)>>) \o StopAction(w, v)
    <2>3. Sends(w, z, f)
      BY <1>2, <1>9, <1>13, ReadySends
    <2>4. Becomes(w, z, f) BY <1>1, <1>9 DEF x, z
    <2> HIDE DEF f
    <2> QED BY <1>1, <1>6, <1>13, <2>2, <2>3, <2>4, ViewMoves
  <1>10. ASSUME v.phase # "ready" PROVE IInv'
    <2>1. Evolves(w, x)
      <3>1. v.phase = "opening" => x.rev + events <= v.rev + events' BY <1>3, <1>4, <1>5
      <3> QED BY <1>3, <1>7, <1>8, <1>10, <3>1 DEF Evolves
    <2>2. Sends(w, x, <<>>) BY <1>2, StopForms
    <2> QED BY <1>1, <1>3, <1>6, <1>10, <2>1, <2>2, ViewMoves DEF x
  <1> QED BY <1>9, <1>10

LEMMA SaveKeeps ==
  ASSUME IInv, NEW w \in 1 .. Views, Save(w) PROVE IInv'
  <1> DEFINE o == view[w]
             v == [o EXCEPT !.saves = @ + 1, !.saving = o.saves + 1]
             m == Frame("save", w, v)
  <1>1. /\ o.phase = "ready" /\ Event /\ UNCHANGED <<host, mounted, link, down>>
        /\ Becomes(w, v, <<m>>)
    BY DEF Save
  <1>2. o \in ViewRecords BY ShapeFacts
  <1>3. /\ v \in ViewRecords /\ v.phase = "ready" /\ v.rev = o.rev /\ v.saves = o.saves + 1
        /\ v.draft = o.draft /\ v.tried = o.tried /\ v.evaluated = o.evaluated
    <2>1. o.saves + 1 \in Nat BY <1>2 DEF ViewRecords
    <2> HIDE DEF o
    <2> QED BY <1>1, <1>2, <2>1 DEF ViewRecords
  <1>4. o.saves \in Nat /\ o.rev \in Nat /\ w \in Nat /\ events \in Nat BY ShapeFacts, Constants
  <1>5. ViewStep /\ events' = events + 1 BY <1>1, EventStep
  <1>6. NoNewReply BY <1>1, QuietReplies
  <1> HIDE DEF v
  <1>7. Evolves(w, v)
    <2>1. /\ claims[w] # NoRev /\ o.evaluated <= authority.rev /\ authority.rev <= o.rev
          /\ o.rev <= w - 1 + events
      BY <1>1 DEF IInv, ClaimsAgree, RevsFit
    <2>2. w = mounted' BY <1>1 DEF IInv, OneIsOpen, Open
    <2>3. v.rev <= w - 1 + events' BY <1>3, <1>4, <1>5, <2>1
    <2>4. o.rev <= v.rev /\ o.saves <= v.saves BY <1>3, <1>4
    <2>5. Key(v) = Key(o) BY <1>3 DEF Key
    <2> QED BY <1>1, <1>3, <2>1, <2>2, <2>3, <2>4, <2>5 DEF Evolves
  <1>8. Sends(w, v, <<m>>)
    <2>1. m \in Asks /\ m.op = "save" BY <1>3, FrameIsAsk
    <2>2. v.saves > view[w].saves BY <1>3, <1>4
    <2>3. Sent(w, v, m) BY <1>1, <1>3, <2>1, <2>2 DEF Sent
    <2>4. <<>> \in Seq(Stops) OBVIOUS
    <2> QED BY <2>1, <2>3, <2>4, SendsForms
  <1> QED BY <1>1, <1>3, <1>6, <1>7, <1>8, ViewMoves

\* Without a connection, a cancellation joins those that wait for one.
LEMMA CancelWaits ==
  ASSUME IInv, UNCHANGED <<host, mounted, link, down>>, Event,
         NEW w \in 1 .. Views, NEW v \in ViewRecords, v.phase = "ready", v.phase = view[w].phase,
         v.rev = view[w].rev, v.saves = view[w].saves, v.draft = view[w].draft,
         v.tried = view[w].tried, v.evaluated = view[w].evaluated,
         view' = [view EXCEPT ![w] = v], NEW m, m = Frame("cancel", w, v), up' = Append(up, m)
  PROVE  IInv'
  <1>1. /\ ViewStep /\ mounted' = mounted /\ view \in [1 .. Views -> ViewRecords]
        /\ link' \in [up : BOOLEAN, drops : Nat] /\ down' \in Seq(Replies)
        /\ \A i \in DOMAIN down' : \E j \in DOMAIN down : down'[i] = down[j]
    BY EventStep DEF IInv, Shaped
  <1>2. \A u \in 1 .. Views : Open(view[u]) => u = mounted' BY <1>1 DEF IInv, OneIsOpen
  <1>3. Evolves(w, v) BY <1>1, <1>2, SameEvolves DEF Open
  <1>4. view' \in [1 .. Views -> ViewRecords] /\ view'[w] = v /\ \A u \in 1 .. Views : u # w => view'[u] = view[u]
    BY <1>1
  <1>5. ASSUME NEW u \in 1 .. Views, u # w PROVE Evolves(u, view'[u])
    <2> DEFINE y == view[u]
    <2>1. y \in ViewRecords /\ (Open(y) => u = mounted') BY <1>1, <1>2
    <2>2. y.phase # "ready" => y.acting = NoRev /\ y.saving = 0 BY DEF IInv, OneIsOpen
    <2>3. view'[u] = y BY <1>4, <1>5
    <2>4. y = view[u] OBVIOUS
    <2> HIDE DEF y
    <2>5. Evolves(u, y) BY <1>1, <2>1, <2>2, <2>4, SameEvolves
    <2> QED BY <2>3, <2>5
  <1>6. ViewsMove BY <1>1, <1>3, <1>4, <1>5 DEF ViewsMove
  <1>7. Sent(w, v, m)
    <2>1. m.op = "cancel" BY FrameIsAsk
    <2> QED BY <2>1 DEF Sent
  <1>8. m \in Asks \cup Stops /\ FrameAgrees(m)' /\ \A i \in DOMAIN up : Follows(up[i], m)
    BY <1>3, <1>4, <1>6, <1>7, NewFrame
  <1>9. up' \in Seq(Asks \cup Stops) /\ FramesAgree' BY <1>6, <1>8, FrameSent
  <1> QED BY <1>1, <1>6, <1>9, ViewsKeep

LEMMA CancelKeeps ==
  ASSUME IInv, NEW w \in 1 .. Views, Cancel(w) PROVE IInv'
  <1> DEFINE o == view[w]
             changed == o.draft # Blank
             stops == IF changed THEN StopSave(w, o) ELSE <<>>
             v == [o EXCEPT !.leaving = @ + 1, !.saving = IF changed THEN 0 ELSE @,
                            !.stale = FALSE, !.forgone = @ \/ o.stale]
             m == Frame("cancel", w, o)
  <1>1. /\ o.phase = "ready" /\ Event /\ UNCHANGED <<host, mounted, link, down>>
        /\ \/ Becomes(w, v, stops \o <<m>>)
           \/ view' = [view EXCEPT ![w] = v] /\ up' = Append(up, m)
    BY DEF Cancel
  <1>2. o \in ViewRecords BY ShapeFacts
  <1>3. /\ v \in ViewRecords /\ v.phase = "ready" /\ v.phase = o.phase /\ v.rev = o.rev /\ v.saves = o.saves
        /\ v.draft = o.draft /\ v.tried = o.tried /\ v.evaluated = o.evaluated
    <2> DEFINE l == o.leaving + 1
               k == IF changed THEN 0 ELSE o.saving
               g == o.forgone \/ o.stale
               y == [o EXCEPT !.leaving = l, !.saving = k, !.stale = FALSE, !.forgone = g]
    <2>1. l \in Int /\ k \in Nat /\ g \in BOOLEAN BY <1>2 DEF ViewRecords
    <2>2. v = y BY <1>2 DEF ViewRecords
    <2> HIDE DEF o, changed, l, k, g, v
    <2>3. /\ y \in ViewRecords /\ y.phase = o.phase /\ y.rev = o.rev /\ y.saves = o.saves
          /\ y.draft = o.draft /\ y.tried = o.tried /\ y.evaluated = o.evaluated
      BY <1>2, <2>1 DEF ViewRecords
    <2> HIDE DEF y
    <2> QED BY <1>1, <2>2, <2>3
  <1> HIDE DEF v
  <1>4. m = Frame("cancel", w, v) BY <1>3 DEF Frame
  <1>5. NoNewReply BY <1>1, QuietReplies
  <1>6. Sends(w, v, stops \o <<m>>)
    <2>1. stops \in Seq(Stops) BY <1>2, StopForms
    <2>2. m \in Asks /\ Sent(w, v, m)
      <3>1. m \in Asks /\ m.op = "cancel" BY <1>2, FrameIsAsk
      <3> HIDE DEF m
      <3> QED BY <1>3, <1>4, <3>1 DEF Sent
    <2> HIDE DEF stops, m
    <2> QED BY <2>1, <2>2, SendsForms
  <1> HIDE DEF m, stops
  <1>7. CASE Becomes(w, v, stops \o <<m>>) BY <1>1, <1>3, <1>5, <1>6, <1>7, SameKeeps
  <1>8. CASE view' = [view EXCEPT ![w] = v] /\ up' = Append(up, m) BY <1>1, <1>3, <1>4, <1>8, CancelWaits
  <1> QED BY <1>1, <1>7, <1>8

LEMMA OnOpenKeeps ==
  ASSUME IInv, UNCHANGED host, UNCHANGED mounted, UNCHANGED events, NoNewReply,
         NEW w \in 1 .. Views, NEW m \in Replies, m.op = "open", m.view = w, ReplyAgrees(m),
         OnOpen(m, w, view[w])
  PROVE  IInv'
  <1> DEFINE v == view[w]
             y == [v EXCEPT !.phase = "failed"]
             x == [v EXCEPT !.phase = "ready", !.rev = @ + m.rev]
             z == Evaluating(x)
  <1>1. v \in ViewRecords BY ShapeFacts
  <1>2. /\ ViewStep /\ events' = events /\ m.rev \in Nat /\ v.rev \in Nat /\ w \in Nat /\ events \in Nat
        /\ authority.rev \in Int /\ v.saves \in Nat
    BY <1>1, EventStep, ShapeFacts, Constants DEF Replies
  <1>3. CASE v.phase # "opening"
    <2>1. Becomes(w, v, <<>>) BY <1>3 DEF OnOpen
    <2>2. Sends(w, v, <<>>) BY <1>1, StopForms
    <2>3. v.phase # "ready" => v.acting = NoRev /\ v.saving = 0 BY DEF IInv, OneIsOpen
    <2> QED BY <1>1, <2>1, <2>2, <2>3, SameKeeps
  <1>4. CASE v.phase = "opening" /\ m.status = "failed"
    <2>1. Becomes(w, y, <<>>) BY <1>4 DEF OnOpen
    <2>2. y \in ViewRecords /\ y.phase = "failed" /\ y.acting = v.acting /\ y.saving = v.saving
      BY <1>1 DEF ViewRecords, Phases
    <2>3. v.acting = NoRev /\ v.saving = 0 /\ w = mounted BY <1>4 DEF IInv, OneIsOpen, Open
    <2> HIDE DEF y
    <2>4. Evolves(w, y) BY <2>2, <2>3 DEF Evolves
    <2>5. Sends(w, y, <<>>) BY <1>1, StopForms
    <2> QED BY <2>1, <2>2, <2>4, <2>5, ViewMoves
  <1>5. CASE v.phase = "opening" /\ m.status # "failed"
    <2>1. Becomes(w, z, <<Frame("evaluate", w, x)>>) BY <1>5 DEF OnOpen
    <2>2. x \in ViewRecords /\ x.phase = "ready" /\ x.rev = v.rev + m.rev /\ x.evaluated = v.evaluated
      <3>1. v.rev + m.rev \in Nat BY <1>2
      <3> HIDE DEF v
      <3> QED BY <1>1, <3>1 DEF ViewRecords, Phases
    <2> HIDE DEF x
    <2>3. /\ z \in ViewRecords /\ z.phase = "ready" /\ z.rev = v.rev + m.rev /\ z.evaluated = v.evaluated
          /\ Frame("evaluate", w, z) = Frame("evaluate", w, x)
      BY <2>2, EvaluatingFacts
    <2> HIDE DEF z
    <2>4. claims[w] = m.rev BY <1>5 DEF ReplyAgrees
    <2>5. claims[w] # NoRev BY <1>2, <2>4 DEF NoRev
    <2>6. /\ authority.rev = claims[w] /\ v.evaluated = NoRev /\ claims[w] + v.rev <= w - 1 + events
          /\ w = mounted
      BY <1>5, <2>5 DEF IInv, ClaimsAgree, RevsFit, OneIsOpen, Open
    <2>7. /\ z.evaluated <= authority.rev /\ authority.rev <= z.rev /\ z.rev <= w - 1 + events'
      BY <1>2, <2>3, <2>4, <2>6 DEF NoRev
    <2>8. Evolves(w, z) BY <1>5, <2>3, <2>5, <2>6, <2>7 DEF Evolves
    <2>9. Sends(w, z, <<Frame("evaluate", w, x)>>) BY <2>3, ReadySends
    <2> QED BY <2>1, <2>3, <2>8, <2>9, ViewMoves
  <1> QED BY <1>3, <1>4, <1>5

LEMMA OnEvaluateKeeps ==
  ASSUME IInv, UNCHANGED host, UNCHANGED mounted, UNCHANGED events, NoNewReply,
         NEW w \in 1 .. Views, NEW m \in Replies, m.op = "evaluate", m.view = w, ReplyAgrees(m),
         OnEvaluate(m, w, view[w])
  PROVE  IInv'
  <1> DEFINE v == view[w]
             a == [v EXCEPT !.awaited = @ - 1]
             y == [a EXCEPT !.stale = FALSE, !.lost = TRUE]
             x == [a EXCEPT !.stale = FALSE, !.evaluated = m.rev, !.shown = m.options]
  <1>1. v \in ViewRecords BY ShapeFacts
  <1>2. /\ a \in ViewRecords /\ a.phase = v.phase /\ a.rev = v.rev /\ a.saves = v.saves
        /\ a.draft = v.draft /\ a.tried = v.tried /\ a.evaluated = v.evaluated
        /\ a.acting = v.acting /\ a.saving = v.saving
    <2>1. v.awaited - 1 \in Int BY <1>1 DEF ViewRecords
    <2> HIDE DEF v
    <2> QED BY <1>1, <2>1 DEF ViewRecords
  <1>3. v.phase # "ready" => v.acting = NoRev /\ v.saving = 0 BY DEF IInv, OneIsOpen
  <1>4. /\ ViewStep /\ events' = events /\ m.rev \in Nat /\ v.rev \in Nat /\ w \in Nat /\ events \in Nat
        /\ authority.rev \in Int /\ v.saves \in Nat /\ m.options \in Int /\ authority.editor \in Nat
    BY <1>1, EventStep, ShapeFacts, Constants DEF Replies
  <1>5. \/ Becomes(w, v, <<>>) \/ Becomes(w, a, <<>>) \/ Becomes(w, y, <<>>)
        \/ v.phase = "ready" /\ m.status # "failed" /\ Becomes(w, x, <<>>)
    BY DEF OnEvaluate
  <1>6. /\ y \in ViewRecords /\ y.phase = v.phase /\ y.rev = v.rev /\ y.saves = v.saves
        /\ y.draft = v.draft /\ y.tried = v.tried /\ y.evaluated = v.evaluated
        /\ y.acting = v.acting /\ y.saving = v.saving
    <2> HIDE DEF a, v
    <2> QED BY <1>2 DEF ViewRecords
  <1>7. /\ x \in ViewRecords /\ x.phase = v.phase /\ x.rev = v.rev /\ x.saves = v.saves
        /\ x.draft = v.draft /\ x.tried = v.tried /\ x.evaluated = m.rev
        /\ x.acting = v.acting /\ x.saving = v.saving
    <2> DEFINE n == m.rev
               k == m.options
               b == [a EXCEPT !.stale = FALSE, !.evaluated = n]
    <2>1. n \in Int /\ k \in Int BY <1>4
    <2>2. x = [b EXCEPT !.shown = k] BY <1>2 DEF ViewRecords
    <2> HIDE DEF a, v, n, k, x
    <2>3. /\ b \in ViewRecords /\ b.phase = v.phase /\ b.rev = v.rev /\ b.saves = v.saves
          /\ b.draft = v.draft /\ b.tried = v.tried /\ b.evaluated = n
          /\ b.acting = v.acting /\ b.saving = v.saving
      BY <1>2, <2>1 DEF ViewRecords
    <2> HIDE DEF b
    <2>4. /\ x \in ViewRecords /\ x.phase = v.phase /\ x.rev = v.rev /\ x.saves = v.saves
          /\ x.draft = v.draft /\ x.tried = v.tried /\ x.evaluated = n
          /\ x.acting = v.acting /\ x.saving = v.saving
      BY <2>1, <2>2, <2>3 DEF ViewRecords
    <2> QED BY <2>4 DEF n
  <1>8. \A u : Sends(w, u, <<>>) BY <1>1, StopForms
  <1> HIDE DEF a, x, y
  <1>9. CASE Becomes(w, v, <<>>) BY <1>1, <1>3, <1>8, <1>9, SameKeeps
  <1>10. CASE Becomes(w, a, <<>>) BY <1>2, <1>3, <1>8, <1>10, SameKeeps
  <1>11. CASE Becomes(w, y, <<>>) BY <1>3, <1>6, <1>8, <1>11, SameKeeps
  <1>12. CASE v.phase = "ready" /\ m.status # "failed" /\ Becomes(w, x, <<>>)
    <2>1. claims[w] # NoRev /\ (w = authority.editor => m.rev <= authority.rev)
      BY <1>12 DEF ReplyAgrees
    <2>2. w = mounted /\ w <= authority.editor /\ authority.editor <= mounted
      BY <1>12, <2>1 DEF IInv, OneIsOpen, ClaimsAgree, Open
    <2>3. m.rev <= authority.rev BY <1>4, <2>1, <2>2
    <2>4. authority.rev <= v.rev /\ v.rev <= w - 1 + events BY <1>12 DEF IInv, ClaimsAgree, RevsFit
    <2>5. Key(x) = Key(v) BY <1>7 DEF Key
    <2>6. v.rev <= x.rev /\ v.saves <= x.saves BY <1>4, <1>7
    <2>7. Evolves(w, x) BY <1>4, <1>7, <1>12, <2>1, <2>2, <2>3, <2>4, <2>5, <2>6 DEF Evolves
    <2> QED BY <1>7, <1>8, <1>12, <2>7, ViewMoves
  <1> QED BY <1>5, <1>9, <1>10, <1>11, <1>12

LEMMA OnActionKeeps ==
  ASSUME IInv, UNCHANGED host, UNCHANGED mounted, UNCHANGED events, NoNewReply,
         NEW w \in 1 .. Views, NEW m \in Replies, OnAction(m, w, view[w])
  PROVE  IInv'
  <1> DEFINE v == view[w]
             a == [v EXCEPT !.acting = NoRev]
             z == Evaluating(a)
             x == [z EXCEPT !.shown = m.options, !.saving = 0]
             y == [z EXCEPT !.lost = TRUE]
             e == <<Frame("evaluate", w, v)>>
  <1>1. v \in ViewRecords BY ShapeFacts
  <1>2. v.phase # "ready" => v.acting = NoRev /\ v.saving = 0 BY DEF IInv, OneIsOpen
  <1>3. \/ Becomes(w, v, <<>>)
        \/ /\ v.acting = m.rev
           /\ Becomes(w, x, StopSave(w, v) \o e) \/ Becomes(w, y, e) \/ Becomes(w, z, e)
    BY DEF OnAction
  <1>4. CASE Becomes(w, v, <<>>)
    <2>1. Sends(w, v, <<>>) BY <1>1, StopForms
    <2> QED BY <1>1, <1>2, <1>4, <2>1, SameKeeps
  <1>5. CASE /\ v.acting = m.rev
             /\ Becomes(w, x, StopSave(w, v) \o e) \/ Becomes(w, y, e) \/ Becomes(w, z, e)
    <2>1. v.acting # NoRev /\ v.phase = "ready"
      <3>1. m.rev \in Nat BY DEF Replies
      <3> QED BY <1>2, <1>5, <3>1 DEF NoRev
    <2>2. /\ a \in ViewRecords /\ a.phase = v.phase /\ a.rev = v.rev /\ a.saves = v.saves
          /\ a.draft = v.draft /\ a.tried = v.tried /\ a.evaluated = v.evaluated
      BY <1>1 DEF ViewRecords
    <2> HIDE DEF a
    <2>3. /\ z \in ViewRecords /\ z.phase = v.phase /\ z.rev = v.rev /\ z.saves = v.saves
          /\ z.draft = v.draft /\ z.tried = v.tried /\ z.evaluated = v.evaluated
      BY <2>2, EvaluatingFacts
    <2> HIDE DEF z
    <2>4. m.options \in Int BY DEF Replies
    <2>5. /\ x \in ViewRecords /\ x.phase = v.phase /\ x.rev = v.rev /\ x.saves = v.saves
          /\ x.draft = v.draft /\ x.tried = v.tried /\ x.evaluated = v.evaluated
      BY <2>3, <2>4 DEF ViewRecords
    <2>6. /\ y \in ViewRecords /\ y.phase = v.phase /\ y.rev = v.rev /\ y.saves = v.saves
          /\ y.draft = v.draft /\ y.tried = v.tried /\ y.evaluated = v.evaluated
      BY <2>3 DEF ViewRecords
    <2> HIDE DEF x, y
    <2>7. \A u \in {x, y, z} : /\ u \in ViewRecords /\ u.phase = v.phase /\ u.rev = v.rev /\ u.saves = v.saves
                               /\ u.draft = v.draft /\ u.tried = v.tried /\ u.evaluated = v.evaluated
      BY <2>3, <2>5, <2>6
    <2>8. \A u \in {x, y, z} : Sends(w, u, e) /\ Sends(w, u, StopSave(w, v) \o e)
      <3> SUFFICES ASSUME NEW u \in {x, y, z} PROVE Sends(w, u, e) /\ Sends(w, u, StopSave(w, v) \o e)
        OBVIOUS
      <3>1. Frame("evaluate", w, u) = Frame("evaluate", w, v) BY <2>7 DEF Frame
      <3>2. u \in ViewRecords /\ u.phase = "ready" BY <2>1, <2>7
      <3> QED BY <1>1, <3>1, <3>2, ReadySends
    <2>9. PICK u \in {x, y, z} : \E f : Sends(w, u, f) /\ Becomes(w, u, f)
      BY <1>5, <2>8
    <2>10. PICK f : Sends(w, u, f) /\ Becomes(w, u, f) BY <2>9
    <2> QED BY <2>1, <2>7, <2>10, SameKeeps
  <1> QED BY <1>3, <1>4, <1>5

LEMMA OnSaveKeeps ==
  ASSUME IInv, UNCHANGED host, UNCHANGED mounted, UNCHANGED events, NoNewReply,
         NEW w \in 1 .. Views, NEW m \in Replies, OnSave(m, w, view[w])
  PROVE  IInv'
  <1> DEFINE v == view[w]
             a == [v EXCEPT !.saving = 0]
             z == Evaluating(a)
             e == <<Frame("evaluate", w, v)>>
  <1>1. v \in ViewRecords BY ShapeFacts
  <1>2. v.phase # "ready" => v.acting = NoRev /\ v.saving = 0 BY DEF IInv, OneIsOpen
  <1>3. \/ Becomes(w, v, <<>>) \/ Closed(w, a)
        \/ v.saving # 0 /\ Becomes(w, z, e)
    BY DEF OnSave
  <1>4. /\ a \in ViewRecords /\ a.phase = v.phase /\ a.rev = v.rev /\ a.saves = v.saves
        /\ a.draft = v.draft /\ a.tried = v.tried /\ a.evaluated = v.evaluated
    BY <1>1 DEF ViewRecords
  <1> HIDE DEF a
  <1>5. /\ z \in ViewRecords /\ z.phase = v.phase /\ z.rev = v.rev /\ z.saves = v.saves
        /\ z.draft = v.draft /\ z.tried = v.tried /\ z.evaluated = v.evaluated
    BY <1>4, EvaluatingFacts
  <1> HIDE DEF z
  <1>6. CASE Becomes(w, v, <<>>)
    <2>1. Sends(w, v, <<>>) BY <1>1, StopForms
    <2> QED BY <1>1, <1>2, <1>6, <2>1, SameKeeps
  <1>7. CASE Closed(w, a) BY <1>4, <1>7, CloseKeeps
  <1>8. CASE v.saving # 0 /\ Becomes(w, z, e)
    <2>1. v.phase = "ready" BY <1>2, <1>8
    <2>2. Frame("evaluate", w, z) = Frame("evaluate", w, v) BY <1>5 DEF Frame
    <2>3. Sends(w, z, e) BY <1>5, <2>1, <2>2, ReadySends
    <2> QED BY <1>5, <1>8, <2>1, <2>3, SameKeeps
  <1> QED BY <1>3, <1>6, <1>7, <1>8

LEMMA OnCancelKeeps ==
  ASSUME IInv, UNCHANGED host, UNCHANGED mounted, UNCHANGED events, NoNewReply,
         NEW w \in 1 .. Views, NEW m \in Replies, OnCancel(m, w, view[w])
  PROVE  IInv'
  <1> DEFINE v == view[w]
             a == [v EXCEPT !.leaving = @ - 1]
  <1>1. v \in ViewRecords BY ShapeFacts
  <1>2. v.phase # "ready" => v.acting = NoRev /\ v.saving = 0 BY DEF IInv, OneIsOpen
  <1>3. Becomes(w, v, <<>>) \/ Closed(w, v) \/ Becomes(w, a, <<>>) BY DEF OnCancel
  <1>4. /\ a \in ViewRecords /\ a.phase = v.phase /\ a.rev = v.rev /\ a.saves = v.saves
        /\ a.draft = v.draft /\ a.tried = v.tried /\ a.evaluated = v.evaluated
        /\ a.acting = v.acting /\ a.saving = v.saving
    <2>1. v.leaving - 1 \in Int BY <1>1 DEF ViewRecords
    <2> HIDE DEF v
    <2> QED BY <1>1, <2>1 DEF ViewRecords
  <1> HIDE DEF a
  <1>5. \A u : Sends(w, u, <<>>) BY <1>1, StopForms
  <1>6. CASE Becomes(w, v, <<>>) BY <1>1, <1>2, <1>5, <1>6, SameKeeps
  <1>7. CASE Closed(w, v) BY <1>1, <1>7, CloseKeeps
  <1>8. CASE Becomes(w, a, <<>>) BY <1>2, <1>4, <1>5, <1>8, SameKeeps
  <1> QED BY <1>3, <1>6, <1>7, <1>8

LEMMA DeliverKeeps ==
  ASSUME IInv, Deliver PROVE IInv'
  <1> DEFINE m == Head(down)
             w == m.view
  <1>1. /\ down # <<>> /\ down' = Tail(down) /\ UNCHANGED <<host, mounted, link, events>>
        /\ CASE m.op = "open" -> OnOpen(m, w, view[w])
             [] m.op = "evaluate" -> OnEvaluate(m, w, view[w])
             [] m.op = "action" -> OnAction(m, w, view[w])
             [] m.op = "save" -> OnSave(m, w, view[w])
             [] m.op = "cancel" -> OnCancel(m, w, view[w])
    BY DEF Deliver
  <1>2. down \in Seq(Replies) BY DEF IInv, Shaped
  <1>3. /\ Tail(down) \in Seq(Replies) /\ m = down[1] /\ 1 \in DOMAIN down /\ m \in Replies
        /\ \A i \in DOMAIN Tail(down) : i + 1 \in DOMAIN down /\ Tail(down)[i] = down[i + 1]
    BY <1>1, <1>2, TailFacts
  <1>4. NoNewReply BY <1>1, <1>3 DEF NoNewReply
  <1>5. ReplyAgrees(m) BY <1>3 DEF IInv, RepliesAgree
  <1>6. w \in 1 .. Views /\ m.op \in {"open", "evaluate", "action", "save", "cancel"} BY <1>3 DEF Replies
  <1>7. UNCHANGED host /\ UNCHANGED mounted /\ UNCHANGED events BY <1>1
  <1> DEFINE n == m
  <1>8. CASE m.op = "open" BY <1>1, <1>3, <1>4, <1>5, <1>6, <1>7, <1>8, OnOpenKeeps
  <1>9. CASE m.op = "evaluate" BY <1>1, <1>3, <1>4, <1>5, <1>6, <1>7, <1>9, OnEvaluateKeeps
  <1>10. CASE m.op = "action" BY <1>1, <1>3, <1>4, <1>6, <1>7, <1>10, OnActionKeeps
  <1>11. CASE m.op = "save" BY <1>1, <1>3, <1>4, <1>6, <1>7, <1>11, OnSaveKeeps
  <1>12. CASE m.op = "cancel" BY <1>1, <1>3, <1>4, <1>6, <1>7, <1>12, OnCancelKeeps
  <1> QED BY <1>6, <1>8, <1>9, <1>10, <1>11, <1>12

-----------------------------------------------------------------------------
(* The connection.                                                         *)
LEMMA DisconnectedFacts ==
  ASSUME NEW v \in ViewRecords
  PROVE  LET x == Disconnected(v)
         IN  /\ x \in ViewRecords /\ x.phase = v.phase /\ x.rev = v.rev /\ x.saves = v.saves
             /\ x.draft = v.draft /\ x.tried = v.tried /\ x.evaluated = v.evaluated
             /\ x.acting = NoRev /\ x.saving = 0
  <1> DEFINE s == v.stale \/ v.acting # NoRev
             l == v.lost \/ v.acting # NoRev
             b == [v EXCEPT !.awaited = 0]
             e == [b EXCEPT !.leaving = 0]
             c == [e EXCEPT !.saving = 0]
             a == [c EXCEPT !.acting = NoRev]
             y == [a EXCEPT !.stale = s, !.lost = l]
  <1>1. s \in BOOLEAN /\ l \in BOOLEAN BY DEF ViewRecords
  <1>2. Disconnected(v) = y BY DEF Disconnected, ViewRecords
  <1>3. /\ b \in ViewRecords /\ b.phase = v.phase /\ b.rev = v.rev /\ b.saves = v.saves
        /\ b.draft = v.draft /\ b.tried = v.tried /\ b.evaluated = v.evaluated
    BY DEF ViewRecords
  <1> HIDE DEF b
  <1>7. /\ e \in ViewRecords /\ e.phase = v.phase /\ e.rev = v.rev /\ e.saves = v.saves
        /\ e.draft = v.draft /\ e.tried = v.tried /\ e.evaluated = v.evaluated
    BY <1>3 DEF ViewRecords
  <1> HIDE DEF e
  <1>6. /\ c \in ViewRecords /\ c.phase = v.phase /\ c.rev = v.rev /\ c.saves = v.saves
        /\ c.draft = v.draft /\ c.tried = v.tried /\ c.evaluated = v.evaluated /\ c.saving = 0
    BY <1>7 DEF ViewRecords
  <1> HIDE DEF c
  <1>4. /\ a \in ViewRecords /\ a.phase = v.phase /\ a.rev = v.rev /\ a.saves = v.saves
        /\ a.draft = v.draft /\ a.tried = v.tried /\ a.evaluated = v.evaluated
        /\ a.acting = NoRev /\ a.saving = 0
    BY <1>6 DEF ViewRecords
  <1> HIDE DEF s, l, a
  <1>5. /\ y \in ViewRecords /\ y.phase = a.phase /\ y.rev = a.rev /\ y.saves = a.saves
        /\ y.draft = a.draft /\ y.tried = a.tried /\ y.evaluated = a.evaluated
        /\ y.acting = a.acting /\ y.saving = a.saving
    BY <1>1, <1>4 DEF ViewRecords
  <1> HIDE DEF y
  <1> QED BY <1>2, <1>4, <1>5

LEMMA DropKeeps ==
  ASSUME IInv, Drop PROVE IInv'
  <1>1. /\ Event /\ UNCHANGED <<host, mounted>> /\ up' = <<>> /\ down' = <<>>
        /\ link' = [up |-> FALSE, drops |-> link.drops + 1]
        /\ view' = [w \in 1 .. Views |-> IF Open(view[w]) THEN Disconnected(view[w]) ELSE view[w]]
    BY DEF Drop
  <1>2. ViewStep /\ mounted' = mounted BY <1>1, EventStep
  <1>3. ASSUME NEW w \in 1 .. Views PROVE view'[w] \in ViewRecords /\ Evolves(w, view'[w])
    <2> DEFINE v == view[w]
               x == Disconnected(v)
    <2>1. v \in ViewRecords BY ShapeFacts
    <2>2. Open(v) => w = mounted' BY <1>2 DEF IInv, OneIsOpen
    <2>3. v.phase # "ready" => v.acting = NoRev /\ v.saving = 0 BY DEF IInv, OneIsOpen
    <2>4. /\ x \in ViewRecords /\ x.phase = v.phase /\ x.rev = v.rev /\ x.saves = v.saves
          /\ x.draft = v.draft /\ x.tried = v.tried /\ x.evaluated = v.evaluated
          /\ x.acting = NoRev /\ x.saving = 0
      BY <2>1, DisconnectedFacts
    <2> HIDE DEF x
    <2>5. CASE Open(v)
      <3>1. view'[w] = x BY <1>1, <2>5 DEF x
      <3>2. Open(x) => w = mounted' BY <2>2, <2>5
      <3>3. Evolves(w, x) BY <1>2, <2>4, <3>2, SameEvolves
      <3> QED BY <2>4, <3>1, <3>3
    <2>6. CASE ~Open(v)
      <3>1. view'[w] = v BY <1>1, <2>6
      <3>2. Evolves(w, v) BY <1>2, <2>1, <2>2, <2>3, SameEvolves
      <3> QED BY <2>1, <3>1, <3>2
    <2> QED BY <2>5, <2>6
  <1>4. view' \in [1 .. Views -> ViewRecords] BY <1>1, <1>3
  <1>5. ViewsMove BY <1>1, <1>2, <1>3, <1>4 DEF ViewsMove
  <1>6. link' \in [up : BOOLEAN, drops : Nat]
    <2>1. link.drops + 1 \in Nat BY DEF IInv, Shaped
    <2> QED BY <1>1, <2>1
  <1>7. up' \in Seq(Asks \cup Stops) /\ down' \in Seq(Replies) /\ DOMAIN up' = {} /\ DOMAIN down' = {}
    BY <1>1
  <1>8. FramesAgree' BY <1>7 DEF FramesAgree
  <1> QED BY <1>5, <1>6, <1>7, <1>8, ViewsKeep

LEMMA ReconnectKeeps ==
  ASSUME IInv, Reconnect PROVE IInv'
  <1> DEFINE asks == {w \in 1 .. Views : view[w].phase = "opening" \/ (view[w].phase = "ready" /\ view[w].stale)}
             u == CHOOSE w \in asks : TRUE
             m == Frame(IF view[u].phase = "opening" THEN "open" ELSE "evaluate", u, view[u])
  <1>1. /\ UNCHANGED <<host, mounted, down, events>> /\ link' = [link EXCEPT !.up = TRUE]
        /\ view' = [w \in 1 .. Views |->
                      IF w \in asks /\ view[w].phase = "ready" THEN [view[w] EXCEPT !.awaited = 1] ELSE view[w]]
        /\ up' = IF asks = {} THEN up ELSE Append(up, m)
    BY DEF Reconnect
  <1>2. ViewStep /\ mounted' = mounted BY <1>1, EventStep
  <1>3. ASSUME NEW w \in 1 .. Views
        PROVE  /\ view'[w] \in ViewRecords /\ Evolves(w, view'[w])
               /\ view'[w].phase = view[w].phase /\ view'[w].rev = view[w].rev
               /\ view'[w].draft = view[w].draft /\ view'[w].saves = view[w].saves
    <2> DEFINE v == view[w]
               x == [v EXCEPT !.awaited = 1]
               y == view'[w]
    <2>1. v \in ViewRecords BY ShapeFacts
    <2>2. Open(v) => w = mounted' BY <1>2 DEF IInv, OneIsOpen
    <2>3. v.phase # "ready" => v.acting = NoRev /\ v.saving = 0 BY DEF IInv, OneIsOpen
    <2>4. /\ x \in ViewRecords /\ x.phase = v.phase /\ x.rev = v.rev /\ x.saves = v.saves
          /\ x.draft = v.draft /\ x.tried = v.tried /\ x.evaluated = v.evaluated
          /\ x.acting = v.acting /\ x.saving = v.saving
      BY <2>1 DEF ViewRecords
    <2>5. y = x \/ y = v BY <1>1
    <2> HIDE DEF x, y
    <2>6. /\ y \in ViewRecords /\ y.phase = v.phase /\ y.rev = v.rev /\ y.saves = v.saves
          /\ y.draft = v.draft /\ y.tried = v.tried /\ y.evaluated = v.evaluated
          /\ y.acting = v.acting /\ y.saving = v.saving
      BY <2>1, <2>4, <2>5
    <2>7. Open(y) => w = mounted' BY <2>2, <2>6 DEF Open
    <2>8. Evolves(w, y) BY <1>2, <2>3, <2>6, <2>7, SameEvolves
    <2> QED BY <2>6, <2>8 DEF y
  <1>4. view' \in [1 .. Views -> ViewRecords]
    <2>1. view' = [w \in 1 .. Views |-> view'[w]] BY <1>1
    <2> QED BY <1>3, <2>1
  <1>5. ViewsMove BY <1>1, <1>2, <1>3, <1>4 DEF ViewsMove
  <1>6. link' \in [up : BOOLEAN, drops : Nat] /\ down' \in Seq(Replies)
        /\ \A i \in DOMAIN down' : \E j \in DOMAIN down : down'[i] = down[j]
    BY <1>1 DEF IInv, Shaped
  <1>7. up' \in Seq(Asks \cup Stops) /\ FramesAgree'
    <2>1. CASE asks = {}
      <3> DEFINE t == <<>>
      <3>1. up' = up \o t /\ t \in Seq(Asks \cup Stops) /\ DOMAIN t = {}
        <4>1. up \in Seq(Asks \cup Stops) BY DEF IInv, Shaped
        <4> QED BY <1>1, <2>1, <4>1, ConcatEmptySeq
      <3> HIDE DEF t
      <3> QED BY <1>5, <3>1, FramesSent
    <2>2. CASE asks # {}
      <3>1. /\ u \in 1 .. Views
            /\ view[u].phase = "opening" \/ view[u].phase = "ready"
        BY <2>2
      <3>2. up' = Append(up, m) BY <1>1, <2>2
      <3> HIDE DEF u, asks
      <3> DEFINE v == view[u]
                 x == view'[u]
      <3>3. v \in ViewRecords /\ u = mounted /\ v.phase # "closed" BY <3>1, ShapeFacts DEF IInv, OneIsOpen, Open
      <3>4. Evolves(u, v)
        <4>1. v.phase # "ready" => v.acting = NoRev /\ v.saving = 0 BY <3>1 DEF IInv, OneIsOpen
        <4> QED BY <1>2, <3>1, <3>3, <4>1, SameEvolves
      <3>5. Sent(u, v, m)
        <4>1. CASE v.phase = "opening" BY <1>2, <3>3, <4>1 DEF Sent
        <4>2. CASE v.phase = "ready"
          <5>1. m = Frame("evaluate", u, v) BY <4>2
          <5>2. m.op = "evaluate" BY <3>1, <3>3, <5>1, FrameIsAsk
          <5> HIDE DEF m
          <5> QED BY <4>2, <5>1, <5>2 DEF Sent
        <4> QED BY <3>1, <4>1, <4>2
      <3> HIDE DEF m
      <3>6. ASSUME NEW n, n = m
            PROVE  n \in Asks \cup Stops /\ FrameAgrees(n)' /\ \A i \in DOMAIN up : Follows(up[i], n)
        <4>1. x.phase = v.phase /\ x.rev = v.rev /\ x.draft = v.draft /\ x.saves = v.saves
          BY <1>3, <3>1
        <4> HIDE DEF v, x
        <4>2. x = view'[u] BY DEF x
        <4>3. Sent(u, v, n) BY <3>5, <3>6
        <4> QED BY <1>5, <3>1, <3>3, <3>4, <4>1, <4>2, <4>3, NewFrame
      <3>7. ASSUME NEW n, n = m PROVE up' \in Seq(Asks \cup Stops) /\ FramesAgree'
        <4>1. up' = Append(up, n) BY <3>2, <3>7
        <4> QED BY <1>5, <3>6, <3>7, <4>1, FrameSent
      <3> QED BY <3>7
    <2> QED BY <2>1, <2>2
  <1> QED BY <1>5, <1>6, <1>7, ViewsKeep

-----------------------------------------------------------------------------
(* Steps of the host that leave its editor alone.                          *)

\* A frame is taken or not, a reply is sent or not.
TakesUp == up' = up \/ (up # <<>> /\ up' = Tail(up))
Replied(n) == n \in Replies /\ ReplyAgrees(n)
RepliesDown == down' = down \/ \E n : Replied(n) /\ down' = Append(down, n)

Elsewhere ==
  /\ UNCHANGED <<authority, claims, view, mounted, link>>
  /\ events' \in 0 .. MaxEvents /\ events <= events'
  /\ TakesUp /\ RepliesDown

\* The name of a callback: an old one, an answer's, or that of the frame taken.
Named(r) ==
  \/ \E o \in runs : o.id = r.id
  \/ r.id[2] = "answer"
  \/ /\ up # <<>> /\ up' = Tail(up)
     /\ \/ Head(up).op = "action" /\ r.id = <<Head(up).view, "action", Head(up).rev>>
        \/ Head(up).op = "save" /\ r.id = <<Head(up).view, "save", Head(up).id>>

LEMMA SeqsKeep ==
  ASSUME IInv, TakesUp, RepliesDown
  PROVE  /\ up' \in Seq(Asks \cup Stops) /\ down' \in Seq(Replies)
         /\ \A i \in DOMAIN up' : \E j \in DOMAIN up : up'[i] = up[j] /\ up[j] \in Asks \cup Stops
         /\ \A i, j \in DOMAIN up' : i < j =>
              \E k, l \in DOMAIN up : k < l /\ up'[i] = up[k] /\ up'[j] = up[l]
         /\ (up # <<>> /\ up' = Tail(up)) => \A i \in DOMAIN up' : Follows(Head(up), up'[i])
         /\ \A i \in DOMAIN down' : Replied(down'[i])
  <1> DEFINE T == Asks \cup Stops
  <1>1. up \in Seq(T) /\ down \in Seq(Replies) /\ \A i \in DOMAIN down : Replied(down[i])
    BY DEF IInv, Shaped, RepliesAgree, Replied
  <1> HIDE DEF T
  <1>2. /\ up' \in Seq(T)
        /\ \A i \in DOMAIN up' : \E j \in DOMAIN up : up'[i] = up[j] /\ up[j] \in T
        /\ \A i, j \in DOMAIN up' : i < j =>
             \E k, l \in DOMAIN up : k < l /\ up'[i] = up[k] /\ up'[j] = up[l]
        /\ (up # <<>> /\ up' = Tail(up)) => \A i \in DOMAIN up' : Follows(Head(up), up'[i])
    <2>1. CASE up' = up /\ ~(up # <<>> /\ up' = Tail(up)) BY <1>1, <2>1
    <2>2. CASE up # <<>> /\ up' = Tail(up)
      <3>1. /\ Tail(up) \in Seq(T) /\ Head(up) = up[1] /\ 1 \in DOMAIN up
            /\ \A i \in DOMAIN Tail(up) :
                 i \in Nat /\ i >= 1 /\ i + 1 \in DOMAIN up /\ Tail(up)[i] = up[i + 1]
        BY <1>1, <2>2, TailFacts
      <3>2. \A i, j \in DOMAIN up' : i < j =>
              i + 1 < j + 1 /\ up'[i] = up[i + 1] /\ up'[j] = up[j + 1]
        BY <2>2, <3>1
      <3>3. \A i \in DOMAIN up' : 1 < i + 1 /\ up'[i] = up[i + 1] /\ i + 1 \in DOMAIN up
        BY <2>2, <3>1
      <3>4. \A i \in DOMAIN up : up[i] \in T BY <1>1
      <3>5. \A i \in DOMAIN up' : Follows(Head(up), up'[i])
        <4> SUFFICES ASSUME NEW i \in DOMAIN up' PROVE Follows(up[1], up'[i]) BY <3>1
        <4>1. Follows(up[1], up[i + 1]) BY <3>1, <3>3 DEF IInv, FramesAgree
        <4> QED BY <3>3, <4>1
      <3>6. ASSUME NEW i \in DOMAIN up', NEW j \in DOMAIN up', i < j
            PROVE  \E k, l \in DOMAIN up : k < l /\ up'[i] = up[k] /\ up'[j] = up[l]
        BY <3>2, <3>3, <3>6
      <3>7. \A i \in DOMAIN up' : \E j \in DOMAIN up : up'[i] = up[j] /\ up[j] \in T
        BY <3>3, <3>4
      <3> QED BY <2>2, <3>1, <3>5, <3>6, <3>7
    <2> QED BY <2>1, <2>2 DEF TakesUp
  <1>3. down' \in Seq(Replies) /\ \A i \in DOMAIN down' : Replied(down'[i])
    <2>1. CASE down' = down BY <1>1, <2>1
    <2>2. ASSUME NEW n, Replied(n), down' = Append(down, n)
          PROVE  down' \in Seq(Replies) /\ \A i \in DOMAIN down' : Replied(down'[i])
      <3>1. n \in Replies BY <2>2 DEF Replied
      <3>2. /\ Append(down, n) \in Seq(Replies)
            /\ \A i \in DOMAIN Append(down, n) :
                 \/ i \in DOMAIN down /\ Append(down, n)[i] = down[i]
                 \/ Append(down, n)[i] = n
        BY <1>1, <3>1, AppendFacts
      <3> QED BY <1>1, <2>2, <3>2
    <2> QED BY <2>1, <2>2 DEF RepliesDown
  <1> QED BY <1>2, <1>3 DEF T

LEMMA ElsewhereKeeps ==
  ASSUME IInv, Elsewhere, \A r \in runs' : Named(r)
  PROVE  /\ up' \in Seq(Asks \cup Stops) /\ down' \in Seq(Replies)
         /\ OneIsOpen' /\ ClaimsAgree' /\ RevsFit' /\ FramesAgree' /\ RepliesAgree'
  <1>1. /\ UNCHANGED <<authority, claims, view, mounted>>
        /\ events \in Nat /\ events' \in Nat /\ events <= events' /\ TakesUp /\ RepliesDown
        /\ authority.editor \in Nat /\ authority.rev \in Int
    BY ShapeFacts, Constants DEF Elsewhere
  <1>2. /\ up' \in Seq(Asks \cup Stops) /\ down' \in Seq(Replies)
        /\ \A i \in DOMAIN up' : \E j \in DOMAIN up : up'[i] = up[j] /\ up[j] \in Asks \cup Stops
        /\ \A i, j \in DOMAIN up' : i < j =>
             \E k, l \in DOMAIN up : k < l /\ up'[i] = up[k] /\ up'[j] = up[l]
        /\ (up # <<>> /\ up' = Tail(up)) => \A i \in DOMAIN up' : Follows(Head(up), up'[i])
        /\ \A i \in DOMAIN down' : Replied(down'[i])
    BY <1>1, SeqsKeep
  <1>3. OneIsOpen' BY <1>1 DEF IInv, OneIsOpen
  <1>4. ClaimsAgree' BY <1>1 DEF IInv, ClaimsAgree
  <1>5. \A a, b \in Int, x, y \in Nat : (a <= b - 1 + x /\ x <= y) => a <= b - 1 + y OBVIOUS
  <1>6. ASSUME NEW n \in Int, NEW e \in Nat, Fits(n, e)
        PROVE  /\ n <= e - 1 + events'
               /\ \A w \in 1 .. Views :
                    (view[w].phase = "opening" /\ claims[w] = NoRev) => n + view[w].rev <= e - 1 + events'
    <2>1. n <= e - 1 + events' BY <1>1, <1>5, <1>6 DEF Fits
    <2>2. ASSUME NEW w \in 1 .. Views, view[w].phase = "opening", claims[w] = NoRev
          PROVE  n + view[w].rev <= e - 1 + events'
      <3>1. n + view[w].rev <= e - 1 + events /\ n + view[w].rev \in Int
        BY <1>6, <2>2, ShapeFacts DEF Fits
      <3> QED BY <1>1, <1>5, <3>1
    <2> QED BY <2>1, <2>2
  <1>7. RevsFit'
    <2>1. Fits(authority.rev, authority.editor)'
      <3> DEFINE n == authority.rev
                 e == authority.editor
      <3>1. n' = n /\ e' = e /\ n \in Int /\ e \in Nat /\ Fits(n, e) BY <1>1 DEF IInv, RevsFit
      <3> HIDE DEF n, e
      <3>2. /\ n <= e - 1 + events'
            /\ \A w \in 1 .. Views :
                 (view[w].phase = "opening" /\ claims[w] = NoRev) => n + view[w].rev <= e - 1 + events'
        BY <1>6, <3>1
      <3> QED BY <1>1, <3>1, <3>2 DEF Fits, n, e
    <2>2. ASSUME NEW w \in 1 .. Views
          PROVE  /\ claims[w] <= w - 1 + events'
                 /\ (view[w].phase = "opening" /\ claims[w] # NoRev) => claims[w] + view[w].rev <= w - 1 + events'
                 /\ view[w].phase = "ready" => view[w].rev <= w - 1 + events'
      <3>1. /\ claims[w] <= w - 1 + events
            /\ (view[w].phase = "opening" /\ claims[w] # NoRev) => claims[w] + view[w].rev <= w - 1 + events
            /\ view[w].phase = "ready" => view[w].rev <= w - 1 + events
        BY DEF IInv, RevsFit
      <3>2. claims[w] \in Int /\ view[w].rev \in Nat /\ w \in Int BY ShapeFacts, Constants DEF NoRev
      <3> QED BY <1>1, <1>5, <3>1, <3>2
    <2> QED BY <1>1, <2>1, <2>2 DEF RevsFit
  <1>8. FramesAgree'
    <2>1. ASSUME NEW i \in DOMAIN up', NEW m, m = up'[i] PROVE FrameAgrees(m)'
      <3>1. /\ m \in Asks \cup Stops /\ FrameAgrees(m)
            /\ (up # <<>> /\ up' = Tail(up)) => Follows(Head(up), m)
        <4>1. PICK j \in DOMAIN up : up'[i] = up[j] /\ up[j] \in Asks \cup Stops BY <1>2
        <4> QED BY <1>2, <2>1, <4>1 DEF IInv, FramesAgree
      <3> SUFFICES ASSUME m.op # "stop" PROVE FrameAgrees(m)' BY DEF FrameAgrees
      <3>2. m \in Asks /\ m.view \in Nat /\ m.rev \in Int /\ m.view # 0
        BY <3>1, Constants DEF Asks, Stops
      <3>3. m.op # "open" =>
              /\ claims[m.view] # NoRev /\ Fits(m.rev, m.view)'
              /\ Known(m.view, m.op, m.rev, m.id, view[m.view])
        <4> SUFFICES ASSUME m.op # "open"
                     PROVE  /\ claims[m.view] # NoRev /\ Fits(m.rev, m.view)'
                            /\ Known(m.view, m.op, m.rev, m.id, view[m.view])
          OBVIOUS
        <4>1. /\ claims[m.view] # NoRev /\ Fits(m.rev, m.view)
              /\ Known(m.view, m.op, m.rev, m.id, view[m.view])
          BY <3>1 DEF FrameAgrees
        <4>2. Fits(m.rev, m.view)' BY <1>1, <1>6, <3>2, <4>1 DEF Fits
        <4> QED BY <4>1, <4>2
      <3>4. authority.editor <= m.view /\ m.view <= mounted BY <3>1 DEF FrameAgrees
      <3>5. ASSUME m.op = "action", NEW r \in runs', r.id = <<m.view, "action", m.rev>> PROVE FALSE
        <4>1. Named(r) OBVIOUS
        <4>2. r.id[2] = "action" /\ r.id[1] = m.view /\ r.id[3] = m.rev BY <3>5
        <4>3. CASE \E o \in runs : o.id = r.id BY <3>1, <3>5, <4>3 DEF FrameAgrees
        <4>4. CASE /\ up # <<>> /\ up' = Tail(up)
                   /\ Head(up).op = "action" /\ r.id = <<Head(up).view, "action", Head(up).rev>>
          <5>1. Follows(Head(up), m) BY <3>1, <4>4
          <5>2. Head(up).view = m.view /\ Head(up).rev = m.rev BY <4>2, <4>4
          <5> QED BY <3>5, <4>4, <5>1, <5>2 DEF Follows
        <4> QED BY <4>1, <4>2, <4>3, <4>4 DEF Named
      <3>6. ASSUME m.op = "save", NEW r \in runs', r.id = <<m.view, "save", m.id>> PROVE FALSE
        <4>1. Named(r) OBVIOUS
        <4>2. r.id[2] = "save" /\ r.id[1] = m.view /\ r.id[3] = m.id BY <3>6
        <4>3. CASE \E o \in runs : o.id = r.id BY <3>1, <3>6, <4>3 DEF FrameAgrees
        <4>4. CASE /\ up # <<>> /\ up' = Tail(up)
                   /\ Head(up).op = "save" /\ r.id = <<Head(up).view, "save", Head(up).id>>
          <5>1. Follows(Head(up), m) BY <3>1, <4>4
          <5>2. Head(up).view = m.view /\ Head(up).id = m.id BY <4>2, <4>4
          <5> QED BY <3>6, <4>4, <5>1, <5>2 DEF Follows
        <4> QED BY <4>1, <4>2, <4>3, <4>4 DEF Named
      <3> QED BY <1>1, <3>3, <3>4, <3>5, <3>6 DEF FrameAgrees
    <2>2. ASSUME NEW i \in DOMAIN up', NEW j \in DOMAIN up', i < j PROVE Follows(up'[i], up'[j])
      <3>1. PICK k \in DOMAIN up, l \in DOMAIN up : k < l /\ up'[i] = up[k] /\ up'[j] = up[l]
        BY <1>2, <2>2
      <3> QED BY <3>1 DEF IInv, FramesAgree
    <2> QED BY <2>1, <2>2 DEF FramesAgree
  <1>9. RepliesAgree'
    <2>1. ASSUME NEW i \in DOMAIN down', NEW n, n = down'[i] PROVE ReplyAgrees(n)'
      BY <1>1, <1>2, <2>1 DEF ReplyAgrees, Replied
    <2> QED BY <2>1 DEF RepliesAgree
  <1> QED BY <1>2, <1>3, <1>4, <1>7, <1>8, <1>9

\* What a callback is kept as: it may be told to stop, and a check may have passed.
Later(o, p) ==
  /\ p \in Callbacks /\ p.id = o.id /\ p.editor = o.editor /\ p.rev = o.rev /\ p.draft = o.draft
  /\ o.aborted => p.aborted
  /\ p.result = "ok" =>
       o.result = "ok" \/ [editor |-> o.editor, rev |-> o.rev, draft |-> o.draft] \in passed'

\* The callbacks go on as g says, or end; those of N are new.
RunsMove(g, N) ==
  /\ \A o \in runs : Later(o, g[o])
  /\ \A r \in runs' : r \in N \/ \E o \in runs : r = g[o]
  /\ \A n \in N : n \in Callbacks /\ RunAgrees(n)' /\ Named(n) /\ \A o \in runs : o.id # n.id
  /\ \A n, o \in N : n = o
  /\ passed \subseteq passed'

HostTyped ==
  /\ form \in [status : {"pending", "saved", "cancelled"}, draft : Drafts]
  /\ approved \in [editor : -1 .. Views, rev : Revs, draft : Drafts]
  /\ checking \in BOOLEAN /\ options \in {0} \cup {KeyOf[d] : d \in Drafts}
  /\ attempt \in [key : Nat, run : {NoRun} \cup ((1 .. Views) \X {"action"} \X Nat)]

LEMMA RunsLater ==
  ASSUME IInv, Elsewhere, NEW g, NEW N, RunsMove(g, N)
  PROVE  RunsAgree' /\ runs' \subseteq Callbacks /\ \A r \in runs' : Named(r)
  <1>1. ASSUME NEW o \in runs PROVE o \in Callbacks /\ RunAgrees(o) BY DEF IInv, Shaped, RunsAgree
  <1>2. /\ UNCHANGED <<authority, view>> /\ events \in Nat /\ events' \in Nat /\ events <= events'
    BY ShapeFacts, Constants DEF Elsewhere
  <1>3. ASSUME NEW o \in runs, NEW p, Later(o, p) PROVE RunAgrees(p)'
    <2>1. o \in Callbacks /\ RunAgrees(o) /\ passed \subseteq passed' BY <1>1 DEF RunsMove
    <2>2. o.id[2] = "answer" => o.id[3] <= events'
      <3>1. o.id[3] \in Nat BY <2>1 DEF Callbacks
      <3> QED BY <1>2, <2>1, <3>1 DEF RunAgrees
    <2>3. p.id = o.id /\ p.editor = o.editor /\ p.rev = o.rev /\ p.draft = o.draft BY <1>3 DEF Later
    <2>4. p.result = "ok" => [editor |-> p.editor, rev |-> p.rev, draft |-> p.draft] \in passed'
      BY <1>3, <2>1, <2>3 DEF Later, RunAgrees
    <2> QED BY <1>2, <2>1, <2>2, <2>3, <2>4 DEF RunAgrees
  <1>4. ASSUME NEW r \in runs' PROVE r \in Callbacks /\ RunAgrees(r)' /\ Named(r)
    <2>1. CASE r \in N BY <2>1 DEF RunsMove
    <2>2. ASSUME NEW o \in runs, r = g[o] PROVE r \in Callbacks /\ RunAgrees(r)' /\ Named(r)
      <3>1. Later(o, r) BY <2>2 DEF RunsMove
      <3>2. RunAgrees(r)' BY <1>3, <3>1
      <3> QED BY <3>1, <3>2 DEF Later, Named
    <2> QED BY <2>1, <2>2 DEF RunsMove
  <1>5. ASSUME NEW r \in runs', NEW s \in runs', r.id = s.id PROVE r = s
    <2>1. CASE r \in N /\ s \in N BY <2>1 DEF RunsMove
    <2>2. ASSUME r \in N, NEW o \in runs, s = g[o] PROVE FALSE
      <3>1. s.id = o.id BY <2>2 DEF RunsMove, Later
      <3> QED BY <1>5, <2>2, <3>1 DEF RunsMove
    <2>3. ASSUME s \in N, NEW o \in runs, r = g[o] PROVE FALSE
      <3>1. r.id = o.id BY <2>3 DEF RunsMove, Later
      <3> QED BY <1>5, <2>3, <3>1 DEF RunsMove
    <2>4. ASSUME NEW o \in runs, NEW q \in runs, r = g[o], s = g[q] PROVE r = s
      <3>1. o.id = q.id BY <1>5, <2>4 DEF RunsMove, Later
      <3>2. o = q BY <3>1 DEF IInv, RunsAgree
      <3> QED BY <2>4, <3>2
    <2> QED BY <2>1, <2>2, <2>3, <2>4 DEF RunsMove
  <1> QED BY <1>4, <1>5 DEF RunsAgree

LEMMA HostKeeps ==
  ASSUME IInv, Elsewhere, NEW g, NEW N, RunsMove(g, N), HostTyped', ApprovalsAgree', AttemptAgrees'
  PROVE  IInv'
  <1>1. RunsAgree' /\ runs' \subseteq Callbacks /\ \A r \in runs' : Named(r) BY RunsLater
  <1>2. /\ up' \in Seq(Asks \cup Stops) /\ down' \in Seq(Replies)
        /\ OneIsOpen' /\ ClaimsAgree' /\ RevsFit' /\ FramesAgree' /\ RepliesAgree'
    BY <1>1, ElsewhereKeeps
  <1>3. /\ authority' \in [editor : 0 .. Views, rev : Nat \cup {NoRev}]
        /\ claims' \in [1 .. Views -> Nat \cup {NoRev}]
        /\ view' \in [1 .. Views -> ViewRecords] /\ mounted' \in 0 .. Views
        /\ link' \in [up : BOOLEAN, drops : Nat] /\ events' \in 0 .. MaxEvents
    BY DEF Elsewhere, IInv, Shaped
  <1>4. Shaped' BY <1>1, <1>2, <1>3 DEF Shaped, HostTyped
  <1> QED BY <1>1, <1>2, <1>4 DEF IInv

\* The callbacks all go on, new ones are checks, and the attempt is what it was.
LEMMA AttemptLater ==
  ASSUME IInv, Elsewhere, NEW g, NEW N, RunsMove(g, N), \A o \in runs : g[o] \in runs',
         \A n \in N : n.id[2] # "action", UNCHANGED <<form, attempt, options>>
  PROVE  AttemptAgrees'
  <1>1. authority' = authority BY DEF Elsewhere
  <1>2. attempt.run # NoRun => \E r \in runs' : r.id = attempt.run /\ KeyOf[r.draft] = attempt.key
    <2> SUFFICES ASSUME attempt.run # NoRun
                 PROVE  \E r \in runs' : r.id = attempt.run /\ KeyOf[r.draft] = attempt.key
      OBVIOUS
    <2>1. PICK o \in runs : o.id = attempt.run /\ KeyOf[o.draft] = attempt.key
      BY DEF IInv, AttemptAgrees
    <2>2. g[o] \in runs' /\ g[o].id = o.id /\ g[o].draft = o.draft BY DEF RunsMove, Later
    <2> QED BY <2>1, <2>2
  <1>3. ASSUME NEW r \in runs', r.id[2] = "action", Current(r)' PROVE attempt.run = r.id
    <2>1. PICK o \in runs : r = g[o] BY <1>3 DEF RunsMove
    <2>2. Later(o, r) /\ o \in Callbacks BY <2>1 DEF RunsMove, IInv, Shaped
    <2>3. Pending /\ authority = [editor |-> r.editor, rev |-> r.rev] /\ ~r.aborted
      BY <1>1, <1>3 DEF Current, Holds, Pending
    <2>4. o.id = r.id /\ r.editor = o.editor /\ r.rev = o.rev /\ ~o.aborted BY <2>2, <2>3 DEF Later
    <2>5. Current(o) BY <2>3, <2>4 DEF Current, Holds
    <2> QED BY <1>3, <2>4, <2>5 DEF IInv, AttemptAgrees
  <1>4. (attempt # NoAttempt /\ attempt.run = NoRun) => options = attempt.key BY DEF IInv, AttemptAgrees
  <1>5. UNCHANGED <<attempt, options>> OBVIOUS
  <1>6. \A r \in runs' : (r.id[2] = "action" /\ Current(r)') => attempt'.run = r.id BY <1>3, <1>5
  <1> QED BY <1>2, <1>4, <1>5, <1>6 DEF AttemptAgrees

LEMMA SameRuns ==
  ASSUME IInv, NEW S, S \subseteq runs, runs' = S, passed \subseteq passed'
  PROVE  RunsMove([o \in runs |-> o], {})
  <1>1. \A o \in runs : o \in Callbacks BY DEF IInv, Shaped
  <1> QED BY <1>1 DEF RunsMove, Later

LEMMA AbortFacts ==
  ASSUME NEW o \in Callbacks
  PROVE  LET p == [o EXCEPT !.aborted = TRUE] IN Later(o, p) /\ p.aborted
  BY DEF Later, Callbacks

\* Nothing but the frames and replies.
LEMMA RepliesKeep ==
  ASSUME IInv, Elsewhere, UNCHANGED <<form, approved, checking, options, attempt, runs, passed>>
  PROVE  IInv'
  <1> DEFINE g == [o \in runs |-> o]
  <1>1. RunsMove(g, {}) BY SameRuns
  <1>2. \A o \in runs : g[o] \in runs' OBVIOUS
  <1> HIDE DEF g
  <1>3. AttemptAgrees' BY <1>1, <1>2, AttemptLater
  <1>4. HostTyped' BY DEF IInv, Shaped, HostTyped
  <1>5. ApprovalsAgree' BY DEF IInv, ApprovalsAgree, SavedWasChecked, Elsewhere
  <1> QED BY <1>1, <1>3, <1>4, <1>5, HostKeeps

LEMMA SettleKeeps ==
  ASSUME IInv, Elsewhere, UNCHANGED passed, NEW status \in {"saved", "cancelled"}, NEW draft \in Drafts,
         NEW others, others \subseteq runs, Settle(status, draft, others),
         status = "saved" =>
           [editor |-> authority.editor, rev |-> authority.rev, draft |-> draft] \in passed
  PROVE  IInv'
  <1> DEFINE g == [o \in runs |-> [o EXCEPT !.aborted = TRUE]]
  <1>1. /\ form' = [status |-> status, draft |-> draft]
        /\ runs' = {[r EXCEPT !.aborted = TRUE] : r \in others}
        /\ approved' = NoApproval /\ checking' = FALSE /\ options' = 0 /\ attempt' = NoAttempt
    BY DEF Settle
  <1>2. RunsMove(g, {})
    <2>1. \A o \in runs : Later(o, g[o])
      <3> SUFFICES ASSUME NEW o \in runs PROVE Later(o, g[o]) OBVIOUS
      <3>1. o \in Callbacks /\ g[o] = [o EXCEPT !.aborted = TRUE] BY DEF IInv, Shaped
      <3> HIDE DEF g
      <3> QED BY <3>1, AbortFacts
    <2>2. \A r \in runs' : \E o \in runs : r = g[o] BY <1>1
    <2> HIDE DEF g
    <2> QED BY <2>1, <2>2 DEF RunsMove
  <1> HIDE DEF g
  <1>3. HostTyped'
    <2>1. NoApproval \in [editor : -1 .. Views, rev : Revs, draft : Drafts]
      <3>1. NoRev \in Revs /\ -1 \in -1 .. Views /\ Blank \in Drafts BY Constants DEF Revs, NoRev
      <3> QED BY <3>1 DEF NoApproval
    <2>2. NoAttempt \in [key : Nat, run : {NoRun} \cup ((1 .. Views) \X {"action"} \X Nat)]
      BY DEF NoAttempt
    <2> QED BY <1>1, <2>1, <2>2 DEF HostTyped
  <1>4. ApprovalsAgree'
    BY <1>1 DEF ApprovalsAgree, SavedWasChecked, Elsewhere
  <1>5. AttemptAgrees'
    <2>1. ~Pending' BY <1>1 DEF Pending
    <2>2. attempt'.run = NoRun BY <1>1 DEF NoAttempt
    <2>3. attempt' = NoAttempt BY <1>1
    <2> QED BY <2>1, <2>2, <2>3 DEF AttemptAgrees, Current, Holds
  <1> QED BY <1>2, <1>3, <1>4, <1>5, HostKeeps

-----------------------------------------------------------------------------
(* The host's handlers.                                                    *)
LEMMA HeadFacts ==
  ASSUME IInv, up # <<>>
  PROVE  /\ Head(up) \in Asks \cup Stops /\ FrameAgrees(Head(up))
         /\ Head(up).op \in {"open", "evaluate", "action", "save", "cancel"} => Head(up) \in Asks
         /\ Head(up).op = "stop" => Head(up) \in Stops
  <1>1. up \in Seq(Asks \cup Stops) BY DEF IInv, Shaped
  <1>2. Head(up) \in Asks \cup Stops /\ Head(up) = up[1] /\ 1 \in DOMAIN up
    <2> DEFINE T == Asks \cup Stops
    <2>1. up \in Seq(T) BY <1>1
    <2> HIDE DEF T
    <2> QED BY <2>1, TailFacts DEF T
  <1>3. FrameAgrees(Head(up)) BY <1>2 DEF IInv, FramesAgree
  <1> QED BY <1>2, <1>3 DEF Asks, Stops

LEMMA AnswerFacts ==
  ASSUME IInv, NEW m \in Asks,
         NEW status \in {"claimed", "failed", "evaluated", "settled", "stale", "nothing", "cancelled",
                         "invalid", "loaded", "accepted"}
  PROVE  /\ Answer(m, status) \in Replies /\ Answer(m, status).op = m.op /\ Answer(m, status).status = status
         /\ Answer(m, status).view = m.view /\ Answer(m, status).rev = m.rev
         /\ m.op \in {"action", "save", "cancel"} => Replied(Answer(m, status))
  <1>1. options \in Int
    <2>1. options \in {0} \cup {KeyOf[d] : d \in Drafts} BY DEF IInv, Shaped
    <2>2. \A d \in Drafts : KeyOf[d] \in Int BY Constants
    <2> QED BY <2>1, <2>2
  <1>2. /\ m.op \in {"open", "evaluate", "action", "save", "cancel"} /\ m.view \in 1 .. Views
        /\ m.rev \in Nat /\ m.id \in Nat
    BY DEF Asks
  <1>3. /\ Answer(m, status) \in Replies /\ Answer(m, status).op = m.op /\ Answer(m, status).status = status
        /\ Answer(m, status).view = m.view /\ Answer(m, status).rev = m.rev
    BY <1>1, <1>2 DEF Answer, Replies
  <1> QED BY <1>3 DEF Replied, ReplyAgrees

LEMMA HandleElsewhere ==
  ASSUME IInv, Handle, UNCHANGED <<authority, claims>>, RepliesDown
  PROVE  Elsewhere
  <1>1. UNCHANGED <<view, mounted, link, events>> /\ up # <<>> /\ up' = Tail(up) BY DEF Handle
  <1>2. events \in 0 .. MaxEvents /\ events <= events BY Constants DEF IInv, Shaped
  <1> QED BY <1>1, <1>2 DEF Elsewhere, TakesUp

LEMMA InactiveIsStatus == Inactive \in {"settled", "stale"}
  BY DEF Inactive

\* The callback a frame asks for, in the name of the editor.
LEMMA NewRun ==
  ASSUME IInv, Elsewhere, up # <<>>, up' = Tail(up),
         NEW op \in {"action", "save"}, Head(up).op = op, Holds(Head(up).view, Head(up).rev),
         NEW id, id = IF op = "action" THEN Head(up).rev ELSE Head(up).id,
         NEW r, r = Run(<<Head(up).view, op, id>>, Head(up).view, Head(up).rev, Head(up).draft)
  PROVE  /\ r \in Callbacks /\ RunAgrees(r)' /\ Named(r) /\ \A o \in runs : o.id # r.id
         /\ r.id = <<Head(up).view, op, id>> /\ r.id[2] = op /\ r.editor = Head(up).view /\ r.rev = Head(up).rev
         /\ r.draft = Head(up).draft /\ r.aborted = FALSE
  <1> DEFINE m == Head(up)
  <1>1. m \in Asks /\ FrameAgrees(m) BY HeadFacts
  <1>2. /\ m.view \in 1 .. Views /\ m.rev \in Nat /\ m.id \in Nat /\ m.draft \in Drafts /\ link.drops \in Nat
        /\ m.op = op
    BY <1>1 DEF Asks, IInv, Shaped
  <1>3. id \in Nat BY <1>2
  <1>4. /\ claims[m.view] # NoRev /\ Known(m.view, op, m.rev, m.id, view[m.view])
        /\ \A o \in runs : o.id # <<m.view, op, id>>
    <2>1. CASE op = "action" BY <1>1, <1>2, <2>1 DEF FrameAgrees
    <2>2. CASE op = "save" BY <1>1, <1>2, <2>2 DEF FrameAgrees
    <2> QED BY <2>1, <2>2
  <1>5. authority.editor = m.view /\ authority.rev = m.rev BY DEF Holds
  <1> HIDE DEF m
  <1>6. /\ r.id = <<m.view, op, id>> /\ r.editor = m.view /\ r.rev = m.rev /\ r.draft = m.draft
        /\ r.aborted = FALSE /\ r.result = "none" /\ r.conn = link.drops
        /\ r = [id |-> <<m.view, op, id>>, editor |-> m.view, rev |-> m.rev, draft |-> m.draft,
                conn |-> link.drops, aborted |-> FALSE, result |-> "none"]
    BY DEF Run, m
  <1>7. /\ r.id[1] = m.view /\ r.id[2] = op /\ r.id[3] = id BY <1>6
  <1>8. r \in Callbacks
    <2>1. <<m.view, op, id>> \in (0 .. Views) \X {"action", "save", "answer"} \X Nat
      BY <1>2, <1>3, Constants
    <2>2. m.view \in 0 .. Views /\ m.rev \in Int BY <1>2, Constants
    <2> QED BY <1>2, <1>6, <2>1, <2>2 DEF Callbacks
  <1>9. RunAgrees(r)'
    <2>1. authority' = authority /\ view' = view BY DEF Elsewhere
    <2>2. Known(r.editor, r.id[2], r.rev, r.id[3], view[r.editor])
      <3>1. CASE op = "save"
        <4>1. id = m.id BY <3>1 DEF m
        <4> QED BY <1>4, <1>6, <1>7, <4>1
      <3>2. CASE op = "action" BY <1>4, <1>6, <1>7, <3>2 DEF Known
      <3> QED BY <3>1, <3>2
    <2>3. r.id[2] = "action" => r.id = <<r.editor, "action", r.rev>>
      <3>1. op = "action" => id = m.rev BY DEF m
      <3> QED BY <1>6, <1>7, <3>1
    <2>4. r.id[2] = "save" => r.id[1] = r.editor /\ r.rev \in Nat BY <1>2, <1>6, <1>7
    <2>5. r.editor # 0 /\ r.id[2] # "answer" /\ r.result # "ok" BY <1>2, <1>6, <1>7
    <2>6. r.editor <= authority.editor /\ r.rev <= authority.rev
      BY <1>2, <1>5, <1>6, Constants
    <2> QED BY <2>1, <2>2, <2>3, <2>4, <2>5, <2>6 DEF RunAgrees
  <1>10. Named(r)
    <2>1. CASE op = "action" BY <1>6, <2>1 DEF Named, m
    <2>2. CASE op = "save" BY <1>6, <2>2 DEF Named, m
    <2> QED BY <2>1, <2>2
  <1> QED BY <1>4, <1>6, <1>7, <1>8, <1>9, <1>10 DEF m

LEMMA HandleActionKeeps ==
  ASSUME IInv, Handle, Head(up).op = "action", HandleAction(Head(up)) PROVE IInv'
  <1> DEFINE m == Head(up)
             new == Run(<<m.view, "action", m.rev>>, m.view, m.rev, m.draft)
             stopped == {IF r \in Obsolete THEN [r EXCEPT !.aborted = TRUE] ELSE r : r \in runs}
             g == [r \in runs |-> IF r \in Obsolete THEN [r EXCEPT !.aborted = TRUE] ELSE r]
  <1>1. /\ UNCHANGED <<form, authority, approved, checking, options, claims, passed>>
        /\ up # <<>> /\ up' = Tail(up)
    BY DEF HandleAction, Handle
  <1>2. m \in Asks BY <1>1, HeadFacts
  <1>3. \/ Reply(link.drops, Answer(m, Inactive)) /\ UNCHANGED <<attempt, runs>>
        \/ Reply(link.drops, Answer(m, "nothing")) /\ UNCHANGED <<attempt, runs>>
        \/ /\ Holds(m.view, m.rev) /\ ~(Obsolete = {} /\ attempt.key = KeyOf[m.draft])
           /\ attempt' = [key |-> KeyOf[m.draft], run |-> new.id]
           /\ runs' = stopped \cup {new}
           /\ UNCHANGED down
    BY DEF HandleAction
  <1>4. CASE \/ Reply(link.drops, Answer(m, Inactive)) /\ UNCHANGED <<attempt, runs>>
             \/ Reply(link.drops, Answer(m, "nothing")) /\ UNCHANGED <<attempt, runs>>
    <2>1. \A s \in {Inactive, "nothing"} : Replied(Answer(m, s)) BY <1>2, AnswerFacts, InactiveIsStatus
    <2> HIDE DEF m
    <2>2. RepliesDown BY <1>4, <2>1 DEF RepliesDown, Reply
    <2>3. Elsewhere BY <1>1, <2>2, HandleElsewhere
    <2>4. UNCHANGED <<attempt, runs>> BY <1>4
    <2> QED BY <1>1, <2>3, <2>4, RepliesKeep
  <1>5. CASE /\ Holds(m.view, m.rev) /\ ~(Obsolete = {} /\ attempt.key = KeyOf[m.draft])
             /\ attempt' = [key |-> KeyOf[m.draft], run |-> new.id]
             /\ runs' = stopped \cup {new}
             /\ UNCHANGED down
    <2>1. Elsewhere BY <1>1, <1>5, HandleElsewhere DEF RepliesDown
    <2>2. PICK r : r = new OBVIOUS
    <2>3. /\ r \in Callbacks /\ RunAgrees(r)' /\ Named(r) /\ \A o \in runs : o.id # r.id
          /\ r.id = <<m.view, "action", m.rev>> /\ r.editor = m.view /\ r.rev = m.rev /\ r.draft = m.draft
          /\ r.id[2] = "action"
      <3>1. /\ r \in Callbacks /\ RunAgrees(r)' /\ Named(r) /\ \A o \in runs : o.id # r.id
            /\ r.id[2] = "action"
        <4>1. Holds(m.view, m.rev) /\ m.op = "action" BY <1>5
        <4>2. r = new BY <2>2
        <4>3. up # <<>> /\ up' = Tail(up) BY <1>1
        <4> QED BY ZenonT(30), <2>1, <4>1, <4>2, <4>3, NewRun
      <3>2. r.id = <<m.view, "action", m.rev>> /\ r.editor = m.view /\ r.rev = m.rev /\ r.draft = m.draft
        BY <2>2 DEF Run
      <3> QED BY <3>1, <3>2
    <2> HIDE DEF new, m
    <2>4. /\ \A o \in runs : o \in Callbacks /\ RunAgrees(o)
          /\ \A o \in runs : Later(o, g[o])
      <3> SUFFICES ASSUME NEW o \in runs PROVE o \in Callbacks /\ RunAgrees(o) /\ Later(o, g[o]) OBVIOUS
      <3>1. o \in Callbacks /\ RunAgrees(o) BY DEF IInv, Shaped, RunsAgree
      <3> DEFINE p == [o EXCEPT !.aborted = TRUE]
      <3>2. Later(o, p) BY <3>1, AbortFacts
      <3>3. Later(o, o) BY <3>1 DEF Later
      <3>4. g[o] = p \/ g[o] = o OBVIOUS
      <3> HIDE DEF g, p
      <3> QED BY <3>1, <3>2, <3>3, <3>4
    <2>5. ASSUME NEW o \in runs' PROVE o = r \/ \E q \in runs : o = g[q]
      BY <1>5, <2>2, <2>5
    <2>6. RunsMove(g, {r}) BY <1>1, <2>3, <2>4, <2>5 DEF RunsMove
    <2>7. ASSUME NEW o \in runs', o.id[2] = "action", Current(o)' PROVE o = r
      <3> SUFFICES ASSUME o # r PROVE FALSE OBVIOUS
      <3>1. PICK q \in runs : o = g[q] BY <2>5
      <3>2. Pending /\ authority = [editor |-> o.editor, rev |-> o.rev] /\ ~o.aborted
        BY <1>1, <2>7 DEF Current, Holds, Pending
      <3>3. o.id = q.id /\ o.editor = q.editor /\ o.rev = q.rev /\ ~q.aborted
        <4>1. Later(q, o) /\ q \in Callbacks BY <2>4, <3>1
        <4> QED BY <3>2, <4>1 DEF Later
      <3>4. q.editor = m.view /\ q.rev = m.rev BY <1>5, <3>2, <3>3 DEF Holds
      <3>5. q.id = <<m.view, "action", m.rev>> BY <2>4, <2>7, <3>3, <3>4 DEF RunAgrees
      <3> QED BY <2>3, <3>5
    <2>8. AttemptAgrees'
      <3>1. r \in runs' /\ attempt'.run = r.id /\ attempt'.key = KeyOf[r.draft]
        BY <1>5, <2>2, <2>3
      <3>2. r.id # NoRun
        <4>1. NoRun[2] = "none" BY DEF NoRun
        <4> QED BY <2>3, <4>1
      <3> QED BY <2>7, <3>1, <3>2 DEF AttemptAgrees
    <2>9. HostTyped'
      <3>1. r.id \in (1 .. Views) \X {"action"} \X Nat /\ KeyOf[m.draft] \in Nat
        BY <1>2, <2>3, Constants DEF Asks
      <3>2. attempt' = [key |-> KeyOf[m.draft], run |-> r.id] BY <1>5, <2>2
      <3>3. attempt' \in [key : Nat, run : {NoRun} \cup ((1 .. Views) \X {"action"} \X Nat)]
        BY <3>1, <3>2
      <3> QED BY <1>1, <3>3 DEF IInv, Shaped, HostTyped
    <2>10. ApprovalsAgree' BY <1>1 DEF IInv, ApprovalsAgree, SavedWasChecked
    <2> QED BY <2>1, <2>6, <2>8, <2>9, <2>10, HostKeeps
  <1> QED BY <1>3, <1>4, <1>5

LEMMA HandleSaveKeeps ==
  ASSUME IInv, Handle, Head(up).op = "save", HandleSave(Head(up)) PROVE IInv'
  <1> DEFINE m == Head(up)
             new == Run(<<m.view, "save", m.id>>, m.view, m.rev, m.draft)
             g == [o \in runs |-> o]
  <1>1. /\ UNCHANGED <<form, authority, approved, checking, options, attempt, claims, passed>>
        /\ up # <<>> /\ up' = Tail(up)
    BY DEF HandleSave, Handle
  <1>2. m \in Asks BY <1>1, HeadFacts
  <1>3. \/ Holds(m.view, m.rev) /\ runs' = runs \cup {new} /\ UNCHANGED down
        \/ Reply(link.drops, Answer(m, Inactive)) /\ UNCHANGED runs
    BY DEF HandleSave
  <1>4. CASE Reply(link.drops, Answer(m, Inactive)) /\ UNCHANGED runs
    <2>1. Replied(Answer(m, Inactive)) BY <1>2, AnswerFacts, InactiveIsStatus
    <2> HIDE DEF m
    <2>2. RepliesDown BY <1>4, <2>1 DEF RepliesDown, Reply
    <2>3. Elsewhere BY <1>1, <2>2, HandleElsewhere
    <2> QED BY <1>1, <1>4, <2>3, RepliesKeep
  <1>5. CASE Holds(m.view, m.rev) /\ runs' = runs \cup {new} /\ UNCHANGED down
    <2>1. Elsewhere BY <1>1, <1>5, HandleElsewhere DEF RepliesDown
    <2>2. PICK r : r = new OBVIOUS
    <2>3. /\ r \in Callbacks /\ RunAgrees(r)' /\ Named(r) /\ \A o \in runs : o.id # r.id
          /\ r.id[2] = "save"
      BY <1>1, <1>5, <2>1, <2>2, NewRun
    <2> HIDE DEF new, m
    <2>4. RunsMove(g, {r})
      <3>1. \A o \in runs : o \in Callbacks BY DEF IInv, Shaped
      <3> QED BY <1>1, <1>5, <2>2, <2>3, <3>1 DEF RunsMove, Later
    <2>5. \A o \in runs : g[o] \in runs' BY <1>5
    <2> HIDE DEF g
    <2>6. AttemptAgrees' BY <1>1, <2>1, <2>3, <2>4, <2>5, AttemptLater
    <2>7. HostTyped' BY <1>1 DEF IInv, Shaped, HostTyped
    <2>8. ApprovalsAgree' BY <1>1 DEF IInv, ApprovalsAgree, SavedWasChecked
    <2> QED BY <2>1, <2>4, <2>6, <2>7, <2>8, HostKeeps
  <1> QED BY <1>3, <1>4, <1>5

LEMMA HandleCancelKeeps ==
  ASSUME IInv, Handle, Head(up).op = "cancel", HandleCancel(Head(up)) PROVE IInv'
  <1> DEFINE m == Head(up)
             may == m.view = authority.editor /\ m.rev >= authority.rev
             s == IF Settled THEN "settled" ELSE IF may THEN "cancelled" ELSE "invalid"
  <1>1. /\ UNCHANGED <<authority, claims, passed>> /\ up # <<>> /\ Reply(link.drops, Answer(m, s))
        /\ GivenUp \/ UNCHANGED <<form, runs, approved, checking, options, attempt>>
    BY DEF HandleCancel, Handle
  <1>2. Replied(Answer(m, s))
    <2>1. m \in Asks /\ s \in {"settled", "cancelled", "invalid"} BY <1>1, HeadFacts
    <2> HIDE DEF m, s
    <2>2. m.op = "cancel" BY DEF m
    <2> QED BY <2>1, <2>2, AnswerFacts
  <1> HIDE DEF m, s
  <1>3. RepliesDown BY <1>1, <1>2 DEF RepliesDown, Reply
  <1>4. Elsewhere BY <1>1, <1>3, HandleElsewhere
  <1>5. CASE GivenUp
    <2>1. Blank \in Drafts /\ runs \subseteq runs BY Constants
    <2> QED BY <1>1, <1>4, <1>5, <2>1, SettleKeeps DEF GivenUp
  <1>6. CASE UNCHANGED <<form, runs, approved, checking, options, attempt>>
    BY <1>1, <1>4, <1>6, RepliesKeep
  <1> QED BY <1>1, <1>5, <1>6

LEMMA HandleStopKeeps ==
  ASSUME IInv, Handle, HandleStop(Head(up)) PROVE IInv'
  <1> DEFINE m == Head(up)
             g == [r \in runs |-> IF r.id = m.run THEN [r EXCEPT !.aborted = TRUE] ELSE r]
  <1>1. /\ UNCHANGED <<form, authority, approved, checking, options, attempt, claims, passed, down>>
        /\ runs' = {IF r.id = m.run THEN [r EXCEPT !.aborted = TRUE] ELSE r : r \in runs}
    BY DEF HandleStop
  <1>2. Elsewhere BY <1>1, HandleElsewhere DEF RepliesDown
  <1>3. RunsMove(g, {})
    <2>1. ASSUME NEW o \in runs PROVE Later(o, g[o])
      <3>1. o \in Callbacks BY DEF IInv, Shaped
      <3> DEFINE p == [o EXCEPT !.aborted = TRUE]
      <3>2. Later(o, p) BY <3>1, AbortFacts
      <3>3. Later(o, o) BY <3>1 DEF Later
      <3>4. g[o] = p \/ g[o] = o OBVIOUS
      <3> HIDE DEF g, p
      <3> QED BY <3>2, <3>3, <3>4
    <2>2. \A r \in runs' : \E o \in runs : r = g[o] BY <1>1
    <2> HIDE DEF g
    <2> QED BY <1>1, <2>1, <2>2 DEF RunsMove
  <1>4. \A o \in runs : g[o] \in runs' BY <1>1
  <1> HIDE DEF g
  <1>5. AttemptAgrees' BY <1>1, <1>2, <1>3, <1>4, AttemptLater
  <1>6. HostTyped' BY <1>1 DEF IInv, Shaped, HostTyped
  <1>7. ApprovalsAgree' BY <1>1 DEF IInv, ApprovalsAgree, SavedWasChecked
  <1> QED BY <1>2, <1>3, <1>5, <1>6, <1>7, HostKeeps

-----------------------------------------------------------------------------
(* Callbacks return.                                                       *)
LEMMA RunFacts ==
  ASSUME IInv, NEW r \in runs
  PROVE  /\ r \in Callbacks /\ RunAgrees(r) /\ r.draft \in Drafts /\ r.rev \in Int
         /\ r.editor \in 0 .. Views /\ r.id[2] \in {"action", "save", "answer"}
         /\ r.id[2] # "answer" => r.id[1] \in 1 .. Views /\ r.id[3] \in Nat /\ r.rev \in Nat
         /\ KeyOf[r.draft] \in {KeyOf[d] : d \in Drafts}
         /\ \A o \in runs : o.id = r.id => o = r
  <1>1. r \in Callbacks /\ RunAgrees(r) /\ \A o \in runs : o.id = r.id => o = r
    BY DEF IInv, Shaped, RunsAgree
  <1>2. /\ r.draft \in Drafts /\ r.rev \in Int /\ r.editor \in 0 .. Views
        /\ r.id[1] \in 0 .. Views /\ r.id[2] \in {"action", "save", "answer"} /\ r.id[3] \in Nat
    BY <1>1 DEF Callbacks
  <1>3. ASSUME r.id[2] # "answer" PROVE r.id[1] \in 1 .. Views /\ r.rev \in Nat
    <2>1. r.editor # 0 BY <1>1, <1>3 DEF RunAgrees
    <2>2. CASE r.id[2] = "action"
      <3>1. r.id = <<r.editor, "action", r.rev>> BY <1>1, <2>2 DEF RunAgrees
      <3>2. r.id[1] = r.editor /\ r.id[3] = r.rev BY <3>1
      <3> QED BY <1>2, <2>1, <3>2, Constants
    <2>3. CASE r.id[2] = "save" BY <1>1, <1>2, <2>1, <2>3, Constants DEF RunAgrees
    <2> QED BY <1>2, <1>3, <2>2, <2>3
  <1> QED BY <1>1, <1>2, <1>3

LEMMA RunReplies ==
  ASSUME IInv, NEW r \in runs, r.id[2] # "answer", options' \in {0} \cup {KeyOf[d] : d \in Drafts},
         NEW status \in {"settled", "stale", "loaded", "accepted", "invalid"}, RunReply(r, status)
  PROVE  RepliesDown
  <1> DEFINE n == [op |-> r.id[2], view |-> r.id[1], rev |-> r.rev, id |-> r.id[3], status |-> status,
                   options |-> options']
  <1>1. options' \in Int
    <2>1. \A d \in Drafts : KeyOf[d] \in Int BY Constants
    <2> QED BY <2>1
  <1>2. /\ r.id[1] \in 1 .. Views /\ r.id[3] \in Nat /\ r.rev \in Nat
        /\ r.id[2] \in {"action", "save"}
    BY RunFacts
  <1>3. n \in Replies /\ n.op \in {"action", "save"} BY <1>1, <1>2 DEF Replies
  <1>4. Reply(r.conn, n) BY DEF RunReply
  <1> HIDE DEF n
  <1>5. Replied(n) BY <1>3 DEF Replied, ReplyAgrees
  <1> QED BY <1>4, <1>5 DEF RepliesDown, Reply

LEMMA EndsElsewhere ==
  ASSUME IInv, UNCHANGED <<authority, claims, view, mounted, link, up, events>>, RepliesDown
  PROVE  Elsewhere
  <1>1. events \in 0 .. MaxEvents /\ events <= events BY Constants DEF IInv, Shaped
  <1> QED BY <1>1 DEF Elsewhere, TakesUp

LEMMA ActionEndsKeeps ==
  ASSUME IInv, NEW r \in runs, ActionEnds(r), UNCHANGED <<view, mounted, link, up, events>> PROVE IInv'
  <1> DEFINE g == [o \in runs |-> o]
  <1>1. /\ r.id[2] = "action" /\ runs' = runs \ {r}
        /\ options' = IF Current(r) THEN KeyOf[r.draft] ELSE options
        /\ attempt' = IF attempt.run # r.id THEN attempt
                      ELSE IF Current(r) THEN [attempt EXCEPT !.run = NoRun] ELSE NoAttempt
        /\ UNCHANGED <<form, authority, approved, checking, claims, passed>>
        /\ \/ RunReply(r, "loaded") \/ RunReply(r, Inactive)
    BY DEF ActionEnds
  <1>2. options' \in {0} \cup {KeyOf[d] : d \in Drafts}
    BY <1>1, RunFacts DEF IInv, Shaped
  <1>3. RepliesDown BY <1>1, <1>2, RunReplies, InactiveIsStatus
  <1>4. Elsewhere BY <1>1, <1>3, EndsElsewhere
  <1>5. RunsMove(g, {})
    <2>1. runs \ {r} \subseteq runs /\ passed \subseteq passed' BY <1>1
    <2> QED BY <1>1, <2>1, SameRuns
  <1>6. \A o \in runs : o.id = r.id => o = r BY RunFacts
  <1>7. /\ attempt \in [key : Nat, run : {NoRun} \cup ((1 .. Views) \X {"action"} \X Nat)]
        /\ attempt.run # NoRun => \E o \in runs : o.id = attempt.run /\ KeyOf[o.draft] = attempt.key
        /\ (attempt # NoAttempt /\ attempt.run = NoRun) => options = attempt.key
        /\ \A o \in runs : (o.id[2] = "action" /\ Current(o)) => attempt.run = o.id
    BY DEF IInv, Shaped, AttemptAgrees
  <1>8. \A o \in runs' : o \in runs /\ o # r /\ o.id # r.id /\ (Current(o)' <=> Current(o))
    BY <1>1, <1>6 DEF Current, Holds, Pending
  <1>9. HostTyped'
    <2>1. attempt' \in [key : Nat, run : {NoRun} \cup ((1 .. Views) \X {"action"} \X Nat)]
      <3>1. NoAttempt \in [key : Nat, run : {NoRun} \cup ((1 .. Views) \X {"action"} \X Nat)]
        BY DEF NoAttempt
      <3> QED BY <1>1, <1>7, <3>1
    <2> QED BY <1>1, <1>2, <2>1 DEF IInv, Shaped, HostTyped
  <1>10. AttemptAgrees'
    <2>1. CASE attempt.run # r.id
      <3>1. ~Current(r) BY <1>1, <1>7, <2>1
      <3>2. attempt' = attempt /\ options' = options BY <1>1, <2>1, <3>1
      <3>3. attempt.run # NoRun => \E o \in runs' : o.id = attempt.run /\ KeyOf[o.draft] = attempt.key
        BY <1>1, <1>7, <2>1
      <3> QED BY <1>7, <1>8, <3>2, <3>3 DEF AttemptAgrees
    <2>2. CASE attempt.run = r.id
      <3>1. \A o \in runs' : o.id[2] = "action" => ~Current(o)' BY <1>7, <1>8, <2>2
      <3>2. attempt'.run = NoRun BY <1>1, <1>7, <2>2 DEF NoAttempt
      <3>3. attempt' # NoAttempt => options' = attempt'.key
        <4>1. ASSUME Current(r) PROVE options' = attempt'.key
          <5>1. r.id # NoRun
            <6>1. NoRun[2] = "none" BY DEF NoRun
            <6> QED BY <1>1, <6>1
          <5>2. KeyOf[r.draft] = attempt.key BY <1>6, <1>7, <2>2, <5>1
          <5>3. attempt'.key = attempt.key BY <1>1, <1>7, <2>2, <4>1
          <5> QED BY <1>1, <4>1, <5>2, <5>3
        <4>2. ~Current(r) => attempt' = NoAttempt BY <1>1, <2>2
        <4> QED BY <4>1, <4>2
      <3> QED BY <3>1, <3>2, <3>3 DEF AttemptAgrees
    <2> QED BY <2>1, <2>2
  <1>11. ApprovalsAgree' BY <1>1 DEF IInv, ApprovalsAgree, SavedWasChecked
  <1> QED BY <1>4, <1>5, <1>9, <1>10, <1>11, HostKeeps

LEMMA CheckEndsKeeps ==
  ASSUME IInv, NEW r \in runs, CheckEnds(r), UNCHANGED <<view, mounted, link, up, events>> PROVE IInv'
  <1> DEFINE draft == [editor |-> r.editor, rev |-> r.rev, draft |-> r.draft]
  <1>1. PICK result \in {"ok", "error"} :
          /\ runs' = (runs \ {r}) \cup {[r EXCEPT !.result = result]}
          /\ passed' = IF result = "ok" THEN passed \cup {draft} ELSE passed
          /\ approved' = IF result = "ok" /\ Current(r) THEN draft ELSE approved
    BY DEF CheckEnds
  <1>2. UNCHANGED <<form, authority, checking, options, attempt, claims, down>> BY DEF CheckEnds
  <1> DEFINE p == [r EXCEPT !.result = result]
             g == [o \in runs |-> IF o = r THEN p ELSE o]
  <1>3. Elsewhere BY <1>2, EndsElsewhere DEF RepliesDown
  <1>4. RunsMove(g, {})
    <2>1. Later(r, p)
      <3>1. r \in Callbacks BY RunFacts
      <3>2. /\ p \in Callbacks /\ p.id = r.id /\ p.editor = r.editor /\ p.rev = r.rev /\ p.draft = r.draft
            /\ p.aborted = r.aborted /\ p.result = result
        BY <3>1 DEF Callbacks
      <3>3. result = "ok" => draft \in passed' BY <1>1
      <3> HIDE DEF p
      <3> QED BY <3>2, <3>3 DEF Later
    <2>2. ASSUME NEW o \in runs PROVE Later(o, g[o])
      <3>1. CASE o = r BY <2>1, <3>1
      <3>2. CASE o # r
        <4>1. g[o] = o /\ o \in Callbacks BY <3>2, RunFacts
        <4> QED BY <4>1 DEF Later
      <3> QED BY <3>1, <3>2
    <2>3. \A o \in runs' : \E q \in runs : o = g[q] BY <1>1
    <2>4. passed \subseteq passed' BY <1>1
    <2> HIDE DEF g
    <2> QED BY <2>2, <2>3, <2>4 DEF RunsMove
  <1>5. \A o \in runs : g[o] \in runs' BY <1>1
  <1>6. HostTyped'
    <2>1. Current(r) => draft \in [editor : -1 .. Views, rev : Revs, draft : Drafts]
      <3> SUFFICES ASSUME Current(r) PROVE draft \in [editor : -1 .. Views, rev : Revs, draft : Drafts]
        OBVIOUS
      <3>1. r.editor = authority.editor /\ r.rev = authority.rev BY DEF Current, Holds
      <3>2. /\ authority.editor \in 0 .. Views /\ authority.rev \in Nat \cup {NoRev} /\ NoRev = -1
            /\ events \in Nat /\ events <= MaxEvents /\ Views \in Nat /\ MaxEvents \in Nat
        BY ShapeFacts
      <3>3. authority.rev <= authority.editor - 1 + events BY DEF IInv, RevsFit, Fits
      <3>4. authority.rev \in Revs
        <4>1. authority.rev \in Int /\ -1 <= authority.rev BY <3>2
        <4>2. authority.rev <= Views + MaxEvents BY <3>2, <3>3
        <4> QED BY <3>2, <4>1, <4>2 DEF Revs
      <3> QED BY <3>1, <3>2, <3>4, RunFacts
    <2> HIDE DEF draft
    <2> QED BY <1>1, <1>2, <2>1 DEF IInv, Shaped, HostTyped
  <1>7. ApprovalsAgree'
    <2>1. passed \subseteq passed' /\ (result = "ok" => draft \in passed') BY <1>1
    <2>2. approved' = approved \/ (result = "ok" /\ approved' = draft) BY <1>1
    <2>3. approved' = NoApproval \/ approved' \in passed'
      BY <2>1, <2>2 DEF IInv, ApprovalsAgree
    <2>4. SavedWasChecked'
      BY <1>2, <2>1 DEF IInv, ApprovalsAgree, SavedWasChecked
    <2> QED BY <2>3, <2>4 DEF ApprovalsAgree
  <1> HIDE DEF g, draft
  <1>8. AttemptAgrees' BY <1>2, <1>3, <1>4, <1>5, AttemptLater
  <1> QED BY <1>3, <1>4, <1>6, <1>7, <1>8, HostKeeps

\* What ends here is not an action, so the attempt keeps its run.
LEMMA CheckIsOver ==
  ASSUME IInv, Elsewhere, NEW r \in runs, r.id[2] # "action", runs' = runs \ {r},
         UNCHANGED <<form, options, attempt, passed>>,
         approved' = approved \/ approved' = NoApproval, checking' \in BOOLEAN
  PROVE  IInv'
  <1> DEFINE g == [o \in runs |-> o]
  <1>1. RunsMove(g, {})
    <2>1. runs \ {r} \subseteq runs /\ passed \subseteq passed' OBVIOUS
    <2> QED BY <2>1, SameRuns
  <1>2. /\ attempt \in [key : Nat, run : {NoRun} \cup ((1 .. Views) \X {"action"} \X Nat)]
        /\ attempt.run # NoRun => \E o \in runs : o.id = attempt.run /\ KeyOf[o.draft] = attempt.key
        /\ (attempt # NoAttempt /\ attempt.run = NoRun) => options = attempt.key
        /\ \A o \in runs : (o.id[2] = "action" /\ Current(o)) => attempt.run = o.id
    BY DEF IInv, Shaped, AttemptAgrees
  <1>3. \A o \in runs' : o \in runs /\ (Current(o)' <=> Current(o))
    BY DEF Elsewhere, Current, Holds, Pending
  <1>4. attempt.run # NoRun => attempt.run # r.id
    <2>1. attempt.run # NoRun => attempt.run[2] = "action" BY <1>2
    <2> QED BY <2>1
  <1>5. AttemptAgrees'
    <2>1. attempt.run # NoRun => \E o \in runs' : o.id = attempt.run /\ KeyOf[o.draft] = attempt.key
      BY <1>2, <1>4
    <2>2. \A o \in runs' : (o.id[2] = "action" /\ Current(o)') => attempt.run = o.id
      BY <1>2, <1>3
    <2> QED BY <1>2, <2>1, <2>2 DEF AttemptAgrees
  <1>6. HostTyped'
    <2>1. NoApproval \in [editor : -1 .. Views, rev : Revs, draft : Drafts]
      <3>1. NoRev \in Revs /\ -1 \in -1 .. Views /\ Blank \in Drafts BY Constants DEF Revs, NoRev
      <3> QED BY <3>1 DEF NoApproval
    <2> QED BY <2>1 DEF IInv, Shaped, HostTyped
  <1>7. ApprovalsAgree' BY DEF IInv, ApprovalsAgree, SavedWasChecked, Elsewhere
  <1> QED BY <1>1, <1>5, <1>6, <1>7, HostKeeps

LEMMA ApprovedIsChecked ==
  ASSUME IInv, NEW d, Approved(d)
  PROVE  [editor |-> authority.editor, rev |-> authority.rev, draft |-> d] \in passed
  <1>1. authority.editor # -1 BY ShapeFacts
  <1>2. approved # NoApproval BY <1>1 DEF Approved, NoApproval
  <1> QED BY <1>2 DEF Approved, IInv, ApprovalsAgree

LEMMA SaveEndsKeeps ==
  ASSUME IInv, NEW r \in runs, SaveEnds(r), UNCHANGED <<view, mounted, link, up, events>> PROVE IInv'
  <1>1. /\ r.id[2] = "save" /\ UNCHANGED <<authority, claims, passed>>
        /\ \/ Approved(r.draft) /\ Settle("saved", r.draft, runs \ {r})
           \/ runs' = runs \ {r} /\ UNCHANGED <<form, approved, checking, options, attempt>>
        /\ \E status \in {"settled", "stale", "accepted", "invalid"} : RunReply(r, status)
    BY InactiveIsStatus DEF SaveEnds
  <1>2. options' \in {0} \cup {KeyOf[d] : d \in Drafts}
    BY <1>1 DEF IInv, Shaped, Settle
  <1>3. RepliesDown BY <1>1, <1>2, RunReplies
  <1>4. Elsewhere BY <1>1, <1>3, EndsElsewhere
  <1>5. CASE Approved(r.draft) /\ Settle("saved", r.draft, runs \ {r})
    <2>1. r.draft \in Drafts BY RunFacts
    <2>2. [editor |-> authority.editor, rev |-> authority.rev, draft |-> r.draft] \in passed
      BY <1>5, ApprovedIsChecked
    <2>3. runs \ {r} \subseteq runs OBVIOUS
    <2> QED BY <1>1, <1>4, <1>5, <2>1, <2>2, <2>3, SettleKeeps
  <1>6. CASE runs' = runs \ {r} /\ UNCHANGED <<form, approved, checking, options, attempt>>
    <2>1. checking' \in BOOLEAN BY <1>6 DEF IInv, Shaped
    <2> QED BY <1>1, <1>4, <1>6, <2>1, CheckIsOver
  <1> QED BY <1>1, <1>5, <1>6

LEMMA RespondEndsKeeps ==
  ASSUME IInv, NEW r \in runs, RespondEnds(r), UNCHANGED <<view, mounted, link, up, events>> PROVE IInv'
  <1> DEFINE same == authority = [editor |-> r.editor, rev |-> r.rev]
  <1>1. /\ r.id[2] = "answer" /\ UNCHANGED <<authority, claims, passed, down>>
        /\ \/ same /\ r.result = "ok" /\ Settle("saved", r.draft, runs \ {r})
           \/ /\ runs' = runs \ {r} /\ checking' = FALSE
              /\ approved' = NoApproval \/ approved' = approved
              /\ UNCHANGED <<form, options, attempt>>
    BY DEF RespondEnds
  <1>2. Elsewhere BY <1>1, EndsElsewhere DEF RepliesDown
  <1>3. CASE same /\ r.result = "ok" /\ Settle("saved", r.draft, runs \ {r})
    <2>1. r.draft \in Drafts BY RunFacts
    <2>2. [editor |-> authority.editor, rev |-> authority.rev, draft |-> r.draft] \in passed
      BY <1>3, RunFacts DEF RunAgrees
    <2>3. runs \ {r} \subseteq runs OBVIOUS
    <2> QED BY <1>1, <1>2, <1>3, <2>1, <2>2, <2>3, SettleKeeps
  <1>4. CASE /\ runs' = runs \ {r} /\ checking' = FALSE
             /\ approved' = NoApproval \/ approved' = approved
             /\ UNCHANGED <<form, options, attempt>>
    <2>1. checking' \in BOOLEAN BY <1>4
    <2> QED BY <1>1, <1>2, <1>4, <2>1, CheckIsOver
  <1> QED BY <1>1, <1>3, <1>4

LEMMA RespondKeeps ==
  ASSUME IInv, NEW d \in Drafts, Respond(d) PROVE IInv'
  <1> DEFINE new == Run(<<0, "answer", events'>>, authority.editor, authority.rev, d)
             g == [o \in runs |-> o]
  <1>1. /\ Event /\ UNCHANGED <<authority, claims, passed, view, mounted, link, up, down>>
        /\ \/ Approved(d) /\ Settle("saved", d, runs)
           \/ /\ checking' = TRUE /\ runs' = runs \cup {new}
              /\ UNCHANGED <<form, approved, options, attempt>>
    BY DEF Respond
  <1>2. /\ events \in Nat /\ events' = events + 1 /\ events' \in 0 .. MaxEvents /\ events <= events'
        /\ events' \in Nat
    BY <1>1, ShapeFacts, EventStep DEF Event, ViewStep
  <1>3. Elsewhere BY <1>1, <1>2 DEF Elsewhere, TakesUp, RepliesDown
  <1>4. CASE Approved(d) /\ Settle("saved", d, runs)
    <2>1. [editor |-> authority.editor, rev |-> authority.rev, draft |-> d] \in passed
      BY <1>4, ApprovedIsChecked
    <2> QED BY <1>1, <1>3, <1>4, <2>1, SettleKeeps
  <1>5. CASE /\ checking' = TRUE /\ runs' = runs \cup {new}
             /\ UNCHANGED <<form, approved, options, attempt>>
    <2>1. PICK r : r = new OBVIOUS
    <2>2. /\ r.id = <<0, "answer", events'>> /\ r.editor = authority.editor /\ r.rev = authority.rev
          /\ r.draft = d /\ r.aborted = FALSE /\ r.result = "none"
          /\ r = [id |-> <<0, "answer", events'>>, editor |-> authority.editor, rev |-> authority.rev,
                  draft |-> d, conn |-> link.drops, aborted |-> FALSE, result |-> "none"]
      BY <2>1 DEF Run
    <2>3. r.id[2] = "answer" /\ r.id[3] = events' BY <2>2
    <2>4. runs' = runs \cup {r} BY <1>5, <2>1
    <2> HIDE DEF new
    <2>5. r \in Callbacks
      <3>1. /\ authority.editor \in 0 .. Views /\ authority.rev \in Int /\ link.drops \in Nat
        BY ShapeFacts DEF IInv, Shaped
      <3>2. <<0, "answer", events'>> \in (0 .. Views) \X {"action", "save", "answer"} \X Nat
        BY <1>2, Constants
      <3> QED BY <2>2, <3>1, <3>2 DEF Callbacks
    <2>6. RunAgrees(r)'
      <3>1. authority' = authority /\ authority.editor <= authority.editor /\ authority.rev <= authority.rev
        BY <1>1, ShapeFacts, Constants
      <3>2. events' <= events' BY <1>2
      <3> QED BY <2>2, <2>3, <3>1, <3>2 DEF RunAgrees
    <2>7. ASSUME NEW o \in runs, o.id = r.id PROVE FALSE
      <3>1. o.id[3] \in Nat /\ o.id[2] = "answer" /\ o.id[3] = events' BY <2>3, <2>7, <1>2
      <3>2. o.id[3] <= events BY <3>1, RunFacts DEF RunAgrees
      <3> QED BY <1>2, <3>1, <3>2
    <2>8. RunsMove(g, {r})
      <3>1. \A o \in runs : o \in Callbacks BY DEF IInv, Shaped
      <3>2. Named(r) BY <2>3 DEF Named
      <3> QED BY <1>1, <2>4, <2>5, <2>6, <2>7, <3>1, <3>2 DEF RunsMove, Later
    <2>9. \A o \in runs : g[o] \in runs' BY <2>4
    <2> HIDE DEF g
    <2>10. AttemptAgrees' BY <1>3, <1>5, <2>3, <2>8, <2>9, AttemptLater
    <2>11. HostTyped' BY <1>5 DEF IInv, Shaped, HostTyped
    <2>12. ApprovalsAgree' BY <1>1, <1>5 DEF IInv, ApprovalsAgree, SavedWasChecked
    <2> QED BY <1>3, <2>8, <2>10, <2>11, <2>12, HostKeeps
  <1> QED BY <1>1, <1>4, <1>5

LEMMA GiveUpKeeps ==
  ASSUME IInv, GiveUp PROVE IInv'
  <1>1. Event /\ GivenUp /\ UNCHANGED <<authority, claims, passed, view, mounted, link, up, down>>
    BY DEF GiveUp
  <1>2. events' \in 0 .. MaxEvents /\ events <= events'
    BY <1>1, EventStep DEF ViewStep
  <1>3. Elsewhere BY <1>1, <1>2 DEF Elsewhere, TakesUp, RepliesDown
  <1>4. Blank \in Drafts /\ runs \subseteq runs BY Constants
  <1> QED BY <1>1, <1>3, <1>4, SettleKeeps DEF GivenUp

-----------------------------------------------------------------------------
(* Steps that move the editor of the host: a claim and an evaluation.      *)

\* The editor or its revision goes on, and what is known of it with it.
EditorMoves ==
  /\ authority' \in [editor : 0 .. Views, rev : Nat \cup {NoRev}]
  /\ claims' \in [1 .. Views -> Nat \cup {NoRev}]
  /\ \/ authority.editor < authority'.editor
     \/ authority'.editor = authority.editor /\ authority.rev <= authority'.rev
  /\ ClaimsAgree' /\ RevsFit'
  /\ \A k \in Asks : (FrameAgrees(k) /\ Follows(Head(up), k)) => FrameAgrees(k)'
  /\ \A n \in Replies : ReplyAgrees(n) => ReplyAgrees(n)'

LEMMA HeadFollows ==
  ASSUME IInv, Handle
  PROVE  /\ up' \in Seq(Asks \cup Stops)
         /\ \A i \in DOMAIN up' :
              /\ up'[i] \in Asks \cup Stops /\ FrameAgrees(up'[i]) /\ Follows(Head(up), up'[i])
              /\ \A j \in DOMAIN up' : i < j => Follows(up'[i], up'[j])
  <1>1. up # <<>> /\ up' = Tail(up) /\ up \in Seq(Asks \cup Stops) BY DEF Handle, IInv, Shaped
  <1>2. /\ Tail(up) \in Seq(Asks \cup Stops) /\ Head(up) = up[1] /\ 1 \in DOMAIN up
        /\ \A i \in DOMAIN Tail(up) :
             i \in Nat /\ i >= 1 /\ i + 1 \in DOMAIN up /\ Tail(up)[i] = up[i + 1]
    <2> DEFINE T == Asks \cup Stops
    <2>1. up \in Seq(T) BY <1>1
    <2> HIDE DEF T
    <2>2. /\ Tail(up) \in Seq(T) /\ Head(up) = up[1] /\ 1 \in DOMAIN up
          /\ \A i \in DOMAIN Tail(up) :
               i \in Nat /\ i >= 1 /\ i + 1 \in DOMAIN up /\ Tail(up)[i] = up[i + 1]
      BY <1>1, <2>1, TailFacts
    <2> QED BY <2>2 DEF T
  <1>3. ASSUME NEW i \in DOMAIN up'
        PROVE  /\ up'[i] \in Asks \cup Stops /\ FrameAgrees(up'[i]) /\ Follows(Head(up), up'[i])
               /\ \A j \in DOMAIN up' : i < j => Follows(up'[i], up'[j])
    <2>1. i \in Nat /\ i >= 1 /\ i + 1 \in DOMAIN up /\ up'[i] = up[i + 1] BY <1>1, <1>2, <1>3
    <2>2. up[i + 1] \in Asks \cup Stops BY <1>1, <2>1
    <2>3. FrameAgrees(up[i + 1]) BY <2>1 DEF IInv, FramesAgree
    <2>4. Follows(up[1], up[i + 1])
      <3>1. 1 < i + 1 BY <2>1
      <3> QED BY <1>2, <2>1, <3>1 DEF IInv, FramesAgree
    <2>5. ASSUME NEW j \in DOMAIN up', i < j PROVE Follows(up'[i], up'[j])
      <3>1. j \in Nat /\ j + 1 \in DOMAIN up /\ up'[j] = up[j + 1] BY <1>1, <1>2, <2>5
      <3>2. i + 1 < j + 1 BY <2>1, <2>5, <3>1
      <3>3. Follows(up[i + 1], up[j + 1]) BY <2>1, <3>1, <3>2 DEF IInv, FramesAgree
      <3> QED BY <2>1, <3>1, <3>3
    <2> QED BY <1>2, <2>1, <2>2, <2>3, <2>4, <2>5
  <1> QED BY <1>1, <1>2, <1>3

LEMMA EditorKeeps ==
  ASSUME IInv, Handle, EditorMoves, Pending,
         UNCHANGED <<form, approved, checking, options, attempt, runs, passed>>,
         NEW q \in Replies, ReplyAgrees(q)', Reply(link.drops, q),
         \A r \in runs : authority' = [editor |-> r.editor, rev |-> r.rev] => authority = authority'
  PROVE  IInv'
  <1>1. UNCHANGED <<view, mounted, link, events>> BY DEF Handle
  <1>2. /\ authority' \in [editor : 0 .. Views, rev : Nat \cup {NoRev}]
        /\ claims' \in [1 .. Views -> Nat \cup {NoRev}]
        /\ ClaimsAgree' /\ RevsFit'
    BY DEF EditorMoves
  <1>3. /\ up' \in Seq(Asks \cup Stops)
        /\ \A i \in DOMAIN up' :
             /\ up'[i] \in Asks \cup Stops /\ FrameAgrees(up'[i]) /\ Follows(Head(up), up'[i])
             /\ \A j \in DOMAIN up' : i < j => Follows(up'[i], up'[j])
    BY HeadFollows
  <1>4. FramesAgree'
    <2>1. ASSUME NEW i \in DOMAIN up', NEW m, m = up'[i] PROVE FrameAgrees(m)'
      <3>1. CASE m \in Stops BY <3>1 DEF Stops, FrameAgrees
      <3>2. CASE m \in Asks BY <1>3, <2>1, <3>2 DEF EditorMoves
      <3> QED BY <1>3, <2>1, <3>1, <3>2
    <2> QED BY <1>3, <2>1 DEF FramesAgree
  <1>5. down' \in Seq(Replies) /\ RepliesAgree'
    <2>1. down \in Seq(Replies) /\ \A i \in DOMAIN down : down[i] \in Replies /\ ReplyAgrees(down[i])
      BY DEF IInv, Shaped, RepliesAgree
    <2>2. /\ Append(down, q) \in Seq(Replies)
          /\ \A i \in DOMAIN Append(down, q) :
               (i \in DOMAIN down /\ Append(down, q)[i] = down[i]) \/ Append(down, q)[i] = q
      BY <2>1, AppendFacts
    <2>3. down' = down \/ down' = Append(down, q) BY DEF Reply
    <2>4. ASSUME NEW i \in DOMAIN down', NEW n, n = down'[i] PROVE ReplyAgrees(n)'
      <3>1. n = q \/ (n \in Replies /\ ReplyAgrees(n)) BY <2>1, <2>2, <2>3, <2>4
      <3> QED BY <3>1 DEF EditorMoves
    <2> QED BY <2>1, <2>2, <2>3, <2>4 DEF RepliesAgree
  <1>6. Shaped' BY <1>1, <1>2, <1>3, <1>5 DEF IInv, Shaped
  <1>7. RunsAgree'
    <2>1. ASSUME NEW r \in runs PROVE RunAgrees(r)'
      <3>1. RunAgrees(r) /\ r \in Callbacks BY DEF IInv, Shaped, RunsAgree
      <3>2. /\ r.editor \in Int /\ r.rev \in Int /\ authority.editor \in Int /\ authority.rev \in Int
            /\ authority'.editor \in Int /\ authority'.rev \in Int
        BY <1>2, <3>1, ShapeFacts, Constants DEF Callbacks, NoRev
      <3>3. /\ r.editor <= authority'.editor
            /\ r.editor = authority'.editor => r.rev <= authority'.rev
        BY <3>1, <3>2 DEF RunAgrees, EditorMoves
      <3> QED BY <1>1, <3>1, <3>3 DEF RunAgrees
    <2>2. \A r, o \in runs : r.id = o.id => r = o BY DEF IInv, RunsAgree
    <2> QED BY <2>1, <2>2 DEF RunsAgree
  <1>8. ApprovalsAgree' BY DEF IInv, ApprovalsAgree, SavedWasChecked, Pending
  <1>9. AttemptAgrees'
    <2>1. ASSUME NEW r \in runs, r.id[2] = "action", Current(r)' PROVE attempt.run = r.id
      <3>1. authority' = [editor |-> r.editor, rev |-> r.rev] /\ ~r.aborted BY <2>1 DEF Current, Holds
      <3>2. Current(r) BY <3>1 DEF Current, Holds
      <3> QED BY <2>1, <3>2 DEF IInv, AttemptAgrees
    <2>2. /\ attempt.run # NoRun => \E r \in runs : r.id = attempt.run /\ KeyOf[r.draft] = attempt.key
          /\ (attempt # NoAttempt /\ attempt.run = NoRun) => options = attempt.key
      BY DEF IInv, AttemptAgrees
    <2>3. \A r \in runs : (r.id[2] = "action" /\ Current(r)') => attempt.run = r.id BY <2>1
    <2> QED BY <2>2, <2>3 DEF AttemptAgrees
  <1>10. OneIsOpen' BY <1>1 DEF IInv, OneIsOpen
  <1> QED BY <1>2, <1>4, <1>5, <1>6, <1>7, <1>8, <1>9, <1>10 DEF IInv

LEMMA HandleOpenKeeps ==
  ASSUME IInv, Handle, Head(up).op = "open", HandleOpen(Head(up)) PROVE IInv'
  <1> DEFINE m == Head(up)
             e == m.view
             n == authority.rev + 1
             known == claims[e] # NoRev
             rev == IF known THEN claims[e] ELSE n
             fails == ~known /\ Settled
             status == IF fails THEN "failed" ELSE "claimed"
             q == [Answer(m, status) EXCEPT !.rev = rev]
  <1>1. /\ UNCHANGED <<form, approved, checking, options, attempt, runs, passed>>
        /\ UNCHANGED <<view, mounted, link, events>> /\ up # <<>> /\ Reply(link.drops, q)
        /\ IF known \/ fails THEN UNCHANGED <<authority, claims>>
           ELSE authority' = [editor |-> e, rev |-> rev] /\ claims' = [claims EXCEPT ![e] = rev]
    BY DEF HandleOpen, Handle
  <1>2. /\ m \in Asks /\ FrameAgrees(m) /\ m.op = "open" /\ e \in 1 .. Views /\ e \in Nat
        /\ authority.editor <= e /\ e <= mounted
    <2>1. m \in Asks /\ FrameAgrees(m) BY <1>1, HeadFacts
    <2> QED BY <2>1, Constants DEF Asks, FrameAgrees
  <1>3. /\ authority.editor \in Nat /\ authority.rev \in Nat \cup {NoRev} /\ NoRev = -1 /\ n \in Nat
        /\ claims[e] \in Nat \cup {NoRev} /\ rev \in Nat /\ mounted \in Nat /\ events \in Nat
    <2>1. /\ authority.editor \in Nat /\ authority.rev \in Nat \cup {NoRev} /\ NoRev = -1
          /\ claims[e] \in Nat \cup {NoRev} /\ mounted \in Nat /\ events \in Nat
      BY <1>2, ShapeFacts
    <2>2. n \in Nat BY <2>1
    <2> QED BY <2>1, <2>2
  <1>4. q \in Replies /\ q.op = "open" /\ q.view = e /\ q.rev = rev /\ q.status = status
    <2> DEFINE a == Answer(m, status)
    <2>1. a \in Replies /\ a.op = "open" /\ a.view = e /\ a.status = status
      <3>1. status \in {"failed", "claimed"} OBVIOUS
      <3> HIDE DEF status, m
      <3> QED BY <1>2, <3>1, AnswerFacts DEF m
    <2>2. q = [a EXCEPT !.rev = rev] OBVIOUS
    <2> HIDE DEF a, rev, e, status, m, q
    <2> QED BY <1>3, <2>1, <2>2 DEF Replies
  <1>5. CASE known \/ fails
    <2>1. Replied(q)
      <3>1. known => rev = claims[e] OBVIOUS
      <3>2. ~known => q.status = "failed" BY <1>4, <1>5
      <3>3. q.status # "failed" => known /\ rev = claims[e] BY <3>1, <3>2
      <3> HIDE DEF q, rev, e, known
      <3> QED BY <1>4, <3>3 DEF Replied, ReplyAgrees
    <2>2. UNCHANGED <<authority, claims>> BY <1>1, <1>5
    <2> HIDE DEF q
    <2>3. RepliesDown BY <1>1, <2>1 DEF RepliesDown, Reply
    <2>4. Elsewhere BY <2>2, <2>3, HandleElsewhere
    <2> QED BY <1>1, <2>4, RepliesKeep
  <1>6. CASE ~(known \/ fails)
    <2>1. /\ Pending /\ claims[e] = NoRev /\ rev = n
          /\ authority' = [editor |-> e, rev |-> n] /\ claims' = [claims EXCEPT ![e] = n]
      BY <1>1, <1>6 DEF Settled
    <2>2. authority'.editor = e /\ authority'.rev = n BY <2>1
    <2>3. /\ claims'[e] = n /\ \A w \in 1 .. Views : w # e => claims'[w] = claims[w]
      BY <1>2, <2>1 DEF IInv, Shaped
    <2>4. authority.editor < e
      <3>1. authority.editor # e BY <1>2, <2>1, Constants DEF IInv, ClaimsAgree
      <3> QED BY <1>2, <1>3, <3>1
    <2>5. \A w \in 1 .. Views : claims[w] # NoRev => w < e /\ ~Open(view[w])
      <3> SUFFICES ASSUME NEW w \in 1 .. Views, claims[w] # NoRev PROVE w < e /\ ~Open(view[w]) OBVIOUS
      <3>1. w <= authority.editor /\ w \in Nat BY Constants DEF IInv, ClaimsAgree
      <3>2. w < e /\ w # mounted BY <1>2, <1>3, <2>4, <3>1
      <3> QED BY <3>2 DEF IInv, OneIsOpen
    <2>6. \A w \in 1 .. Views :
            view[w].phase # "ready" /\ (view[w].phase = "opening" => claims[w] = NoRev /\ w = mounted)
      <3> SUFFICES ASSUME NEW w \in 1 .. Views
                   PROVE  view[w].phase # "ready" /\ (view[w].phase = "opening" => claims[w] = NoRev /\ w = mounted)
        OBVIOUS
      <3>1. view[w].phase = "ready" => claims[w] # NoRev BY DEF IInv, ClaimsAgree
      <3>2. Open(view[w]) => w = mounted /\ claims[w] = NoRev BY <2>5 DEF IInv, OneIsOpen
      <3> QED BY <3>1, <3>2 DEF Open
    <2> HIDE DEF n, e, m, rev, known, fails, status, q
    <2>7. ClaimsAgree'
      <3>1. authority'.editor <= mounted' /\ claims'[authority'.editor] # NoRev
        BY <1>1, <1>2, <1>3, <2>2, <2>3
      <3>2. ASSUME NEW w \in 1 .. Views
            PROVE  /\ claims'[w] # NoRev => w <= e
                   /\ view[w].phase # "ready"
                   /\ view[w].phase = "opening" => view[w].evaluated = NoRev
                   /\ (view[w].phase = "opening" /\ claims'[w] # NoRev) => n = claims'[w]
        <4>1. w # e => (claims'[w] # NoRev => w < e /\ ~Open(view[w])) BY <2>3, <2>5
        <4>2. w <= w /\ (w < e => w <= e) BY <1>2, Constants
        <4> QED BY <2>3, <2>6, <4>1, <4>2 DEF Open, IInv, ClaimsAgree
      <3> QED BY <1>1, <2>2, <3>1, <3>2 DEF ClaimsAgree
    <2>8. /\ n <= e - 1 + events
          /\ \A w \in 1 .. Views : (view[w].phase = "opening" /\ claims[w] = NoRev) => n + view[w].rev <= e - 1 + events
      <3>1. /\ authority.rev <= authority.editor - 1 + events
            /\ \A w \in 1 .. Views : (view[w].phase = "opening" /\ claims[w] = NoRev) =>
                 authority.rev + view[w].rev <= authority.editor - 1 + events
        BY DEF IInv, RevsFit, Fits
      <3>2. /\ authority.rev \in Int /\ authority.editor \in Int /\ e \in Int /\ events \in Int
            /\ authority.editor + 1 <= e /\ n = authority.rev + 1
        BY <1>2, <1>3, <2>4 DEF n
      <3>3. \A w \in 1 .. Views : view[w].rev \in Int BY ShapeFacts
      <3>4. \A a, b, c, d \in Int, x \in Int : (a + x <= b - 1 + c /\ b + 1 <= d) => a + 1 + x <= d - 1 + c OBVIOUS
      <3>5. n <= e - 1 + events BY <3>1, <3>2
      <3> QED BY <3>1, <3>2, <3>3, <3>4, <3>5
    <2>9. RevsFit'
      <3>1. Fits(authority.rev, authority.editor)'
        <4>1. ASSUME NEW w \in 1 .. Views, view[w].phase = "opening", claims'[w] = NoRev
              PROVE  n + view[w].rev <= e - 1 + events
          BY <2>6, <2>8, <4>1
        <4> QED BY <1>1, <2>2, <2>8, <4>1 DEF Fits
      <3>2. ASSUME NEW w \in 1 .. Views
            PROVE  /\ claims'[w] <= w - 1 + events
                   /\ (view[w].phase = "opening" /\ claims'[w] # NoRev) => claims'[w] + view[w].rev <= w - 1 + events
        <4>1. CASE w = e BY <2>3, <2>6, <2>8, <4>1
        <4>2. CASE w # e BY <2>3, <4>2 DEF IInv, RevsFit
        <4> QED BY <4>1, <4>2
      <3> QED BY <1>1, <2>6, <3>1, <3>2 DEF RevsFit
    <2>10. ASSUME NEW k \in Asks, FrameAgrees(k), Follows(m, k) PROVE FrameAgrees(k)'
      <3>1. k.op # "stop" /\ k.view \in 1 .. Views BY DEF Asks
      <3>2. m.op # "stop" BY <1>2
      <3>3. e <= k.view /\ k.view <= mounted BY <2>10, <3>1, <3>2 DEF Follows, FrameAgrees, e
      <3>4. ASSUME k.op # "open"
            PROVE  /\ claims'[k.view] # NoRev /\ Fits(k.rev, k.view)'
                   /\ Known(k.view, k.op, k.rev, k.id, view[k.view])
        <4>1. /\ claims[k.view] # NoRev /\ Fits(k.rev, k.view)
              /\ Known(k.view, k.op, k.rev, k.id, view[k.view])
          BY <2>10, <3>1, <3>4 DEF FrameAgrees
        <4>2. claims'[k.view] # NoRev BY <1>3, <2>3, <3>1, <4>1
        <4>3. \A w \in 1 .. Views : (view[w].phase = "opening") => claims[w] = NoRev BY <2>6
        <4>4. Fits(k.rev, k.view)' BY <1>1, <4>1, <4>3 DEF Fits
        <4> QED BY <4>1, <4>2, <4>4
      <3>5. /\ k.op = "action" => \A r \in runs : r.id # <<k.view, "action", k.rev>>
            /\ k.op = "save" => \A r \in runs : r.id # <<k.view, "save", k.id>>
        BY <2>10, <3>1 DEF FrameAgrees
      <3> QED BY <1>1, <2>2, <3>3, <3>4, <3>5 DEF FrameAgrees
    <2>11. ASSUME NEW p \in Replies, ReplyAgrees(p) PROVE ReplyAgrees(p)'
      <3>1. p.view \in 1 .. Views /\ p.rev # NoRev BY <1>3 DEF Replies
      <3>2. ((p.op = "open" \/ p.op = "evaluate") /\ p.status # "failed") => p.view # e
        BY <2>1, <2>11, <3>1 DEF ReplyAgrees
      <3>3. p.view # e => claims'[p.view] = claims[p.view] BY <2>3, <3>1
      <3> QED BY <2>2, <2>11, <3>2, <3>3 DEF ReplyAgrees
    <2>12. EditorMoves
      <3>1. authority' \in [editor : 0 .. Views, rev : Nat \cup {NoRev}] BY <1>2, <1>3, <2>1, Constants
      <3>2. claims' \in [1 .. Views -> Nat \cup {NoRev}] BY <1>2, <1>3, <2>1 DEF IInv, Shaped
      <3> QED BY <2>2, <2>4, <2>7, <2>9, <2>10, <2>11, <3>1, <3>2 DEF EditorMoves, m
    <2>13. PICK x : x = q OBVIOUS
    <2>16. ReplyAgrees(x)'
      <3>1. x.op = "open" /\ x.view = e /\ x.rev = n BY <1>4, <2>1, <2>13
      <3>2. PICK y : y = e OBVIOUS
      <3>3. claims'[y] = x.rev /\ x.view = y BY <2>3, <3>1, <3>2
      <3> QED BY <3>1, <3>3 DEF ReplyAgrees
    <2>14. ASSUME NEW r \in runs, authority' = [editor |-> r.editor, rev |-> r.rev] PROVE FALSE
      <3>1. r.editor = e BY <2>2, <2>14
      <3>2. r.editor <= authority.editor BY DEF IInv, RunsAgree, RunAgrees
      <3> QED BY <1>2, <1>3, <2>4, <3>1, <3>2
    <2>15. \A r \in runs : authority' = [editor |-> r.editor, rev |-> r.rev] => authority = authority'
      BY <2>14
    <2> QED BY <1>1, <1>4, <2>1, <2>12, <2>13, <2>15, <2>16, EditorKeeps
  <1> QED BY <1>5, <1>6

LEMMA HandleEvaluateKeeps ==
  ASSUME IInv, Handle, Head(up).op = "evaluate", HandleEvaluate(Head(up)) PROVE IInv'
  <1> DEFINE m == Head(up)
             e == m.view
             fresh == Pending /\ e = authority.editor /\ m.rev >= authority.rev
             q == Answer(m, IF fresh THEN "evaluated" ELSE "failed")
  <1>1. /\ UNCHANGED <<form, approved, checking, options, attempt, runs, claims, passed>>
        /\ UNCHANGED <<view, mounted, link, events>> /\ up # <<>> /\ Reply(link.drops, q)
        /\ authority' = IF fresh THEN [authority EXCEPT !.rev = m.rev] ELSE authority
    BY DEF HandleEvaluate, Handle
  <1>2. /\ m \in Asks /\ FrameAgrees(m) /\ m.op = "evaluate" /\ e \in 1 .. Views /\ e \in Nat /\ m.rev \in Nat
    <2>1. m \in Asks /\ FrameAgrees(m) BY <1>1, HeadFacts
    <2> QED BY <2>1, Constants DEF Asks
  <1>3. /\ q \in Replies /\ q.op = "evaluate" /\ q.view = e /\ q.rev = m.rev
        /\ ~fresh => q.status = "failed"
    <2> DEFINE s == IF fresh THEN "evaluated" ELSE "failed"
    <2>1. s \in {"failed", "evaluated"} OBVIOUS
    <2>2. ~fresh => s = "failed" OBVIOUS
    <2> HIDE DEF s, m, fresh
    <2>3. Answer(m, s) \in Replies /\ Answer(m, s).op = "evaluate" /\ Answer(m, s).view = m.view
          /\ Answer(m, s).rev = m.rev /\ Answer(m, s).status = s
      BY <1>2, <2>1, AnswerFacts
    <2> QED BY <2>2, <2>3 DEF s
  <1>4. CASE ~fresh
    <2>1. authority' = authority BY <1>1, <1>4
    <2> HIDE DEF q, fresh
    <2>2. Replied(q) BY <1>3, <1>4 DEF Replied, ReplyAgrees
    <2>3. RepliesDown BY <1>1, <2>2 DEF RepliesDown, Reply
    <2>4. Elsewhere BY <1>1, <2>1, <2>3, HandleElsewhere
    <2> QED BY <1>1, <2>4, RepliesKeep
  <1>5. CASE fresh
    <2>1. /\ Pending /\ e = authority.editor /\ authority.rev <= m.rev
          /\ authority.rev \in Int /\ mounted \in Nat
      <3>1. authority.rev \in Int /\ mounted \in Nat BY ShapeFacts DEF NoRev
      <3> QED BY <1>2, <1>5, <3>1
    <2>2. /\ authority' = [authority EXCEPT !.rev = m.rev]
          /\ authority'.editor = e /\ authority'.rev = m.rev /\ claims' = claims
      BY <1>1, <1>5 DEF IInv, Shaped
    <2>3. /\ claims[e] # NoRev /\ Fits(m.rev, e) /\ Known(e, "evaluate", m.rev, m.id, view[e])
          /\ e <= mounted
      BY <1>2 DEF FrameAgrees
    <2> HIDE DEF m, e, q, fresh
    <2>4. \A w \in 1 .. Views : (Open(view[w]) /\ claims[w] # NoRev) => w = e
      <3> SUFFICES ASSUME NEW w \in 1 .. Views, Open(view[w]), claims[w] # NoRev PROVE w = e OBVIOUS
      <3>1. w = mounted /\ w <= e BY <2>1 DEF IInv, OneIsOpen, ClaimsAgree
      <3> QED BY <1>2, <2>1, <2>3, <3>1
    <2>5. ClaimsAgree'
      <3>1. authority.editor <= mounted /\ claims[e] # NoRev BY <2>1, <2>3
      <3>2. ASSUME NEW w \in 1 .. Views
            PROVE  /\ claims[w] # NoRev => w <= e
                   /\ view[w].phase = "opening" => view[w].evaluated = NoRev
                   /\ ~(view[w].phase = "opening" /\ claims[w] # NoRev)
                   /\ view[w].phase = "ready" =>
                        claims[w] # NoRev /\ view[w].evaluated <= m.rev /\ m.rev <= view[w].rev
        <4>1. /\ claims[w] # NoRev => w <= e
              /\ view[w].phase = "opening" => view[w].evaluated = NoRev
              /\ view[w].phase = "ready" => claims[w] # NoRev /\ view[w].evaluated <= authority.rev
          BY <2>1 DEF IInv, ClaimsAgree
        <4>2. ~(view[w].phase = "opening" /\ claims[w] # NoRev) BY <2>3, <2>4 DEF Known, Open
        <4>3. ASSUME view[w].phase = "ready" PROVE view[w].evaluated <= m.rev /\ m.rev <= view[w].rev
          <5>1. w = e BY <2>4, <4>1, <4>3 DEF Open
          <5>2. m.rev <= view[w].rev BY <2>3, <4>3, <5>1 DEF Known
          <5>3. view[w].evaluated \in Int BY ShapeFacts
          <5> QED BY <1>2, <2>1, <4>1, <4>3, <5>2, <5>3
        <4> QED BY <4>1, <4>2, <4>3
      <3> QED BY <1>1, <2>1, <2>2, <3>1, <3>2 DEF ClaimsAgree
    <2>6. RevsFit'
      <3>1. Fits(authority.rev, authority.editor)' BY <1>1, <2>2, <2>3 DEF Fits
      <3> QED BY <1>1, <3>1 DEF IInv, RevsFit
    <2>7. ASSUME NEW k \in Asks, FrameAgrees(k) PROVE FrameAgrees(k)'
      <3>1. authority'.editor = authority.editor BY <2>1, <2>2
      <3>2. k.op # "open" => Fits(k.rev, k.view)' BY <1>1, <2>7 DEF Fits, FrameAgrees, Asks
      <3> QED BY <1>1, <2>7, <3>1, <3>2 DEF FrameAgrees
    <2>8. ASSUME NEW p \in Replies, ReplyAgrees(p) PROVE ReplyAgrees(p)'
      <3>1. p.rev \in Int BY DEF Replies
      <3>2. p.rev <= authority.rev => p.rev <= m.rev BY <1>2, <2>1, <3>1
      <3> QED BY <1>1, <2>1, <2>2, <2>8, <3>2 DEF ReplyAgrees
    <2>9. EditorMoves
      <3>1. authority' \in [editor : 0 .. Views, rev : Nat \cup {NoRev}]
            /\ claims' \in [1 .. Views -> Nat \cup {NoRev}]
        BY <1>1, <1>2, <2>2 DEF IInv, Shaped
      <3> QED BY <2>1, <2>2, <2>5, <2>6, <2>7, <2>8, <3>1 DEF EditorMoves
    <2>10. PICK x : x = q OBVIOUS
    <2>12. ReplyAgrees(x)'
      <3>1. x.op = "evaluate" /\ x.view = e /\ x.rev = m.rev /\ m.rev <= m.rev BY <1>2, <1>3, <2>10
      <3>2. PICK y : y = e OBVIOUS
      <3>3. claims'[y] # NoRev /\ x.view = y /\ x.rev <= authority'.rev BY <1>1, <2>2, <2>3, <3>1, <3>2
      <3> QED BY <3>1, <3>3 DEF ReplyAgrees
    <2>11. ASSUME NEW r \in runs, authority' = [editor |-> r.editor, rev |-> r.rev] PROVE authority = authority'
      <3>1. r.editor = e /\ r.rev = m.rev BY <2>2, <2>11
      <3>2. r.rev <= authority.rev BY <2>1, <3>1 DEF IInv, RunsAgree, RunAgrees
      <3>3. authority.rev = m.rev BY <1>2, <2>1, <3>1, <3>2
      <3>4. authority \in [editor : 0 .. Views, rev : Nat \cup {NoRev}] BY DEF IInv, Shaped
      <3> QED BY <2>2, <3>3, <3>4
    <2> QED BY <1>1, <1>3, <2>1, <2>9, <2>10, <2>11, <2>12, EditorKeeps
  <1> QED BY <1>4, <1>5

LEMMA HandleKeeps ==
  ASSUME IInv, Handle PROVE IInv'
  <1> DEFINE m == Head(up)
  <1>1. up # <<>> BY DEF Handle
  <1>2. m.op \in {"open", "evaluate", "action", "save", "cancel", "stop"}
    <2>1. m \in Asks \cup Stops BY <1>1, HeadFacts
    <2> QED BY <2>1 DEF Asks, Stops
  <1>3. CASE m.op = "open"
    <2>1. HandleOpen(m) BY <1>3 DEF Handle
    <2> QED BY <1>3, <2>1, HandleOpenKeeps
  <1>4. CASE m.op = "evaluate"
    <2>1. HandleEvaluate(m) BY <1>4 DEF Handle
    <2> QED BY <1>4, <2>1, HandleEvaluateKeeps
  <1>5. CASE m.op = "action"
    <2>1. HandleAction(m) BY <1>5 DEF Handle
    <2> QED BY <1>5, <2>1, HandleActionKeeps
  <1>6. CASE m.op = "save"
    <2>1. HandleSave(m) BY <1>6 DEF Handle
    <2> QED BY <1>6, <2>1, HandleSaveKeeps
  <1>7. CASE m.op = "cancel"
    <2>1. HandleCancel(m) BY <1>7 DEF Handle
    <2> QED BY <1>7, <2>1, HandleCancelKeeps
  <1>8. CASE m.op = "stop"
    <2>1. HandleStop(m) BY <1>8 DEF Handle
    <2> QED BY <2>1, HandleStopKeeps
  <1> QED BY <1>2, <1>3, <1>4, <1>5, <1>6, <1>7, <1>8

LEMMA RunEndsKeeps ==
  ASSUME IInv, NEW r \in runs, RunEnds(r) PROVE IInv'
  <1>1. UNCHANGED <<view, mounted, link, up, events>> BY DEF RunEnds
  <1>2. ActionEnds(r) \/ CheckEnds(r) \/ SaveEnds(r) \/ RespondEnds(r) BY DEF RunEnds
  <1> QED BY <1>1, <1>2, ActionEndsKeeps, CheckEndsKeeps, SaveEndsKeeps, RespondEndsKeeps

-----------------------------------------------------------------------------
(* The theorems.                                                           *)
LEMMA InitHolds == Init => IInv
  <1> SUFFICES ASSUME Init PROVE IInv OBVIOUS
  <1> USE DEF Init
  <1>1. /\ Views \in Nat /\ MaxEvents \in Nat /\ Blank \in Drafts /\ NoRev = -1
        /\ \A w \in 1 .. Views : view[w] = Unmounted /\ claims[w] = NoRev
        /\ DOMAIN up = {} /\ DOMAIN down = {} /\ authority.editor = 0 /\ authority.rev = NoRev
        /\ events = 0 /\ mounted = 0
    BY Constants DEF NoRev
  <1>2. /\ Unmounted \in ViewRecords /\ Unmounted.phase = "closed"
        /\ Unmounted.acting = NoRev /\ Unmounted.saving = 0
    BY UnmountedIsView
  <1>3. Shaped
    <2>1. NoApproval \in [editor : -1 .. Views, rev : Revs, draft : Drafts]
      <3>1. NoRev \in Revs /\ -1 \in -1 .. Views /\ Blank \in Drafts BY <1>1 DEF Revs
      <3> QED BY <3>1 DEF NoApproval
    <2>2. NoAttempt \in [key : Nat, run : {NoRun} \cup ((1 .. Views) \X {"action"} \X Nat)]
      BY DEF NoAttempt
    <2>3. /\ form \in [status : {"pending", "saved", "cancelled"}, draft : Drafts]
          /\ authority \in [editor : 0 .. Views, rev : Nat \cup {NoRev}]
          /\ link \in [up : BOOLEAN, drops : Nat] /\ mounted \in 0 .. Views /\ events \in 0 .. MaxEvents
      BY <1>1
    <2>4. up \in Seq(Asks \cup Stops) /\ down \in Seq(Replies) OBVIOUS
    <2>5. view \in [1 .. Views -> ViewRecords] /\ claims \in [1 .. Views -> Nat \cup {NoRev}]
      BY <1>2
    <2> QED BY <2>1, <2>2, <2>3, <2>4, <2>5 DEF Shaped
  <1>4. OneIsOpen BY <1>1, <1>2 DEF OneIsOpen, Open
  <1>5. ClaimsAgree
    <2>1. \A w \in 1 .. Views : claims[w] = NoRev /\ view[w].phase = "closed" BY <1>1, <1>2
    <2>2. authority.editor <= mounted BY <1>1
    <2> QED BY <1>1, <2>1, <2>2 DEF ClaimsAgree
  <1>6. RevsFit
    <2>1. \A w \in 1 .. Views : claims[w] = NoRev /\ view[w].phase = "closed" /\ w \in Nat /\ w >= 1
      BY <1>1, <1>2
    <2>2. authority.rev <= authority.editor - 1 + events BY <1>1
    <2>3. Fits(authority.rev, authority.editor) BY <2>1, <2>2 DEF Fits
    <2>4. \A w \in 1 .. Views : claims[w] <= w - 1 + events BY <1>1, <2>1
    <2> QED BY <2>1, <2>3, <2>4 DEF RevsFit
  <1>7. FramesAgree /\ RepliesAgree BY <1>1 DEF FramesAgree, RepliesAgree
  <1>8. RunsAgree BY DEF RunsAgree
  <1>9. ApprovalsAgree BY DEF ApprovalsAgree, SavedWasChecked
  <1>10. AttemptAgrees BY DEF AttemptAgrees, NoAttempt
  <1> QED BY <1>3, <1>4, <1>5, <1>6, <1>7, <1>8, <1>9, <1>10 DEF IInv

LEMMA StutterKeeps ==
  ASSUME IInv, UNCHANGED vars PROVE IInv'
  <1>1. /\ UNCHANGED <<form, authority, approved, checking, options, attempt, runs, claims, passed>>
        /\ UNCHANGED <<view, mounted, link, up, down, events>>
    BY DEF vars, host
  <1>2. events' \in 0 .. MaxEvents /\ events <= events' BY <1>1, ShapeFacts DEF IInv, Shaped
  <1>3. Elsewhere BY <1>1, <1>2 DEF Elsewhere, TakesUp, RepliesDown
  <1> QED BY <1>1, <1>3, RepliesKeep

LEMMA StepKeeps ==
  ASSUME IInv, [Next]_vars PROVE IInv'
  <1>1. CASE Mount BY <1>1, MountKeeps
  <1>2. CASE Deliver BY <1>2, DeliverKeeps
  <1>3. CASE Drop BY <1>3, DropKeeps
  <1>4. CASE Reconnect BY <1>4, ReconnectKeeps
  <1>5. CASE Handle BY <1>5, HandleKeeps
  <1>6. CASE GiveUp BY <1>6, GiveUpKeeps
  <1>7. ASSUME NEW w \in 1 .. Views, User(w) \/ Resolved(w) PROVE IInv'
    <2>1. CASE Save(w) BY <2>1, SaveKeeps
    <2>2. CASE Cancel(w) BY <2>2, CancelKeeps
    <2>3. CASE Detach(w) BY <2>3, DetachKeeps
    <2>4. ASSUME NEW d \in Drafts, Edit(w, d) PROVE IInv' BY <2>4, EditKeeps
    <2>5. CASE Resolved(w) BY <2>5, ResolvedKeeps
    <2> QED BY <1>7, <2>1, <2>2, <2>3, <2>4, <2>5 DEF User
  <1>8. ASSUME NEW d \in Drafts, Respond(d) PROVE IInv' BY <1>8, RespondKeeps
  <1>9. ASSUME NEW r \in runs, RunEnds(r) PROVE IInv' BY <1>9, RunEndsKeeps
  <1>10. CASE UNCHANGED vars BY <1>10, StutterKeeps
  <1> QED BY <1>1, <1>2, <1>3, <1>4, <1>5, <1>6, <1>7, <1>8, <1>9, <1>10 DEF Next

\* The revision of the host and those of the claims stay within the bound of the events.
LEMMA RevsAreBounded ==
  ASSUME IInv PROVE authority.rev \in Revs /\ claims \in [1 .. Views -> Revs]
  <1>1. /\ Views \in Nat /\ MaxEvents \in Nat /\ events \in Nat /\ events <= MaxEvents /\ NoRev = -1
        /\ authority.editor \in 0 .. Views /\ authority.rev \in Nat \cup {NoRev}
        /\ \A w \in 1 .. Views : claims[w] \in Nat \cup {NoRev}
    BY ShapeFacts
  <1>2. authority.rev <= authority.editor - 1 + events BY DEF IInv, RevsFit, Fits
  <1>3. authority.rev \in Revs BY <1>1, <1>2 DEF Revs
  <1>4. ASSUME NEW w \in 1 .. Views PROVE claims[w] \in Revs
    <2>1. claims[w] <= w - 1 + events /\ claims[w] \in Nat \cup {NoRev} BY <1>1 DEF IInv, RevsFit
    <2> QED BY <1>1, <2>1 DEF Revs
  <1>5. claims \in [1 .. Views -> Nat \cup {NoRev}] BY DEF IInv, Shaped
  <1> QED BY <1>3, <1>4, <1>5

LEMMA InvIsSound == IInv => FormIsSound
  <1> SUFFICES ASSUME IInv PROVE FormIsSound OBVIOUS
  <1>1. authority.rev \in Revs /\ claims \in [1 .. Views -> Revs] BY RevsAreBounded
  <1>2. authority \in [editor : 0 .. Views, rev : Revs]
    <2>1. authority \in [editor : 0 .. Views, rev : Nat \cup {NoRev}] BY DEF IInv, Shaped
    <2> QED BY <1>1, <2>1
  <1>3. TypeOK
    <2>1. \A w \in 1 .. Views : Open(view[w]) => w = mounted BY DEF IInv, OneIsOpen
    <2>2. \A r, o \in runs : r.id = o.id => r = o BY DEF IInv, RunsAgree
    <2> QED BY <1>1, <1>2, <2>1, <2>2 DEF IInv, Shaped, TypeOK
  <1>4. SavedWasChecked BY DEF IInv, ApprovalsAgree
  <1> QED BY <1>3, <1>4 DEF FormIsSound

LEMMA InvFollows == IInv => HostFollowsEditor
  <1> SUFFICES ASSUME IInv PROVE HostFollowsEditor OBVIOUS
  <1>1. OptionsAreTheAttempts BY DEF IInv, AttemptAgrees, OptionsAreTheAttempts
  <1>2. ASSUME NEW w \in 1 .. Views, view[w].phase = "ready"
        PROVE  authority.editor = w /\ view[w].evaluated <= authority.rev /\ authority.rev <= view[w].rev
    <2>1. /\ claims[w] # NoRev /\ w <= authority.editor /\ authority.editor <= mounted
          /\ view[w].evaluated <= authority.rev /\ authority.rev <= view[w].rev
      BY <1>2 DEF IInv, ClaimsAgree
    <2>2. w = mounted BY <1>2 DEF IInv, OneIsOpen, Open
    <2>3. w \in Int /\ authority.editor \in Int BY ShapeFacts, Constants
    <2> QED BY <2>1, <2>2, <2>3
  <1>3. EditorsAgree BY <1>2 DEF EditorsAgree
  <1> QED BY <1>1, <1>3 DEF HostFollowsEditor

\* The inductive invariant holds in every state that can be reached.
THEOREM Invariant == Spec => []IInv
  <1>1. Init => IInv BY InitHolds
  <1>2. IInv /\ [Next]_vars => IInv' BY StepKeeps
  <1> QED BY <1>1, <1>2, PTL DEF Spec

\* For any views, drafts and events: what a form is saved with passed its final check, in
\* the very revision of the editor that holds the form when it is settled (submit and
\* respond of form-backend.ts and ui-requests.ts), and the state has its type.
THEOREM FormSound == Spec => []FormIsSound
  <1>1. IInv => FormIsSound BY InvIsSound
  <1> QED BY <1>1, Invariant, PTL

\* For any views, drafts and events: the options of the form are those of its attempt, no
\* late run takes the attempt of its successor away, and the view that is ready is the
\* host's editor, which is not ahead of it, whatever was lost or asked twice.
THEOREM HostFollows == Spec => []HostFollowsEditor
  <1>1. IInv => HostFollowsEditor BY InvFollows
  <1> QED BY <1>1, Invariant, PTL
=============================================================================
