# TLA+ models of Amira

Amira is a coding agent: a core that runs agents and their sub-agents, a terminal front end, and a
daemon that keeps a workspace alive while clients attach to it and leave. This directory holds
formal models of the parts of it whose correctness depends on the order of steps of several
processes, connections or promises: file locks and leases, the daemon's protocol and its model
proxy, the scheduling of sub-agents, an agent's input and tool calls, and the forms it asks. Each is
written from the source and checked with TLC on small instances; of nine of them the safety
properties are also proved with TLAPS, for every instance.

Contents: [parts of the system](#1-parts-of-the-system), [plan](#2-plan),
[the modules and the code](#3-the-modules-and-the-code), [runs](#4-runs-bounds-and-fairness),
[what the violations show](#5-disagreements-found), [proofs](#6-proofs),
[what is only checked or not covered](#7-what-is-only-checked-and-what-is-not-covered).

Paths below are relative to the repository's `packages/`.

## 1. Parts of the system

| Component | State it keeps | Operations | Hard behaviour | What makes it correct |
|---|---|---|---|---|
| Filesystem gate (`core/src/file-lock-gate.ts`, `file-lock-owner.ts`) | a directory next to the lock path with an owner record; tombstones; per process a list of pending releases | take, recover a dead owner's gate, release, retry | processes interleave between any two file-system calls and die there; renames fail for a while; pids of other hosts mean nothing | mutual exclusion; only the dead are evicted; a release ends |
| Legacy lock (`core/src/file-lock.ts`, `tryFileLock`) | a file with a pid | create, heartbeat, judge stale, rename aside, put back, release | check-then-act on a pathname | at most one holder; orphans go |
| Strict lease (`core/src/file-lock.ts`, `session-acquisition.ts`) | a lock file with an owner record, the recovery name of a legacy file, cleanups that were left over | take under the gate, judge, move aside, restore a legacy file, release, retry until a deadline | crashes between publication and cleanup, processes of an older build which take no gate | one holder; a live owner's file is never lost; claims end |
| Operation ledger (`cli/src/server/operation-ledger.ts`) | per client scope a window of ids; results; counters | run, resend, settle, expire, forget | reconnecting clients resend; five limits are enforced at once | at most once; nothing running is forgotten; exact counters |
| Journal and stream (`cli/src/server/journal.ts`, `capture.ts`, `attachments.ts`, `remote/replay.ts`, `agent-port.ts`) | ring of events; live queue per connection; the client's cursor | append, open with a cursor, pump, ack, reset, reconnect | events while attaching, overflow, daemon restart, a failed apply | the client's view is never torn and becomes current |
| Controller and attachments (`cli/src/server/controller.ts`, `attachments.ts`, `remote/connection.ts`) | one lease, one live connection per client, presence | attach, take, hand back, view, detach, grace, reject | the end of a connection is handled late; welcomes are lost; clients reconnect beside their old connection | one controller, moved by right, shown to all |
| Model proxy and broker (`cli/src/remote/proxy-ai.ts`, `proxy-gate.ts`, `model-retention.ts`, `model-peer.ts`) | per call cursors at both ends, retained frames, calls that were given up | open, resume, acknowledge, cancel, detach, forget | links break anywhere, the broker's process is replaced, an abort races a new link | each event once and in order; every call ends; no request runs for nobody |
| Effect delivery (`cli/src/remote/effect-delivery.ts`) | waiting effects | deliver effects before replies | a reply overtakes events | order |
| Sub-agent admission (`core/src/subagents/scheduler.ts`, `subagents.ts`, `subagents/child.ts`) | queue and sets of children that run, consult, wait in tools, lent their place | acquire, release, begin and end tools, consult, abort, pause | microtasks after grants, questions that outlive turns, nested waits | limits hold; no place leaks; nobody starves |
| Agent turn, input, holds and notices (`core/src/agent/`, `agent.ts`) | the slot of turn, hold or tool; steers, held input, notices and a retry timer | prompt, steer, deliver, hold, resend, abort, dispose | a synchronous step after each await moves messages between queues | queues have owners; nothing is dropped; nothing waits without a reason |
| Tool execution and approvals (`core/src/agent/tool-runner.ts`, `approvals.ts`) | the calls of a batch, keys, waits per turn | start, gate, ask, execute, write, abort, settle | executors outlive their batch and turn; gates clear in any order | one result each; conflicts exclude; nothing begins late; the batch ends |
| Forms and UI requests (`core/src/ui-requests.ts`, `core/src/frontend/form-backend.ts`, `tui/src/form-view.ts`, `cli/src/remote/agent-port-forms.ts`) | the pending form with its editor, revision, approval and automatic attempt; the view's revision and what it awaits | claim, evaluate, run an action, save, cancel, answer directly, give up | results of older drafts and replaced editors arrive late; replies are lost | only a checked draft is saved; late results change nothing; nobody waits for ever |
| Sessions (`core/src/session-store.ts`, `session-delete.ts`, `session-acquisition.ts`), owned conversations | append-only files under a strict lease | open, claim, relocate, delete | crashes half way, hand-over deadlines | no two writers; recoverable deletion |
| Versions and update (`cli/src/update/`), daemon discovery (`cli/src/server/discovery.ts`) | lease files, a discovery file | lease, prune, install, find | a pruner against a starting process | nothing in use is removed |
| Background jobs (`proc/src/jobs.ts`, `core/src/background-jobs.ts`) | jobs and their output | start, stop, exit, read | exit against stop and waiters | every waiter wakes |
| Git cache (`packages/src/git-cache.ts`), settings (`core/src/config/write.ts`) | files under a legacy lock | clone and swap, read-modify-write | whatever the legacy lock lets through | no lost update |
| Providers, TUI, extensions | | | conversion, rendering, I/O with other programs | out of scope |

How they interact: strict leases take the filesystem gate around every change of their lock file;
sessions, discovery, updates and version leases take strict leases; settings, provider caches and
the git cache take legacy locks. In the daemon, a connection is admitted by `attachments.ts`, which
moves the lease (`controller.ts`), cuts the journal (`journal.ts`), and from then on sends the
stream; commands of the controller run through the ledger; the client applies the stream with
`replay.ts` and reconnects in `agent-port.ts`. Admission is called by the tree of sub-agents
(`subagents.ts`) and by the turns of each agent (`turn-runner.ts`), which run the batches of
`tool-runner.ts`. A tool that asks opens a request in `ui-requests.ts`, answered by a view, over the
same connection if the view is a client's. Notices of sub-agents and jobs come back through
`notices.ts`. A daemon without credentials has its models served by the client (`proxy-ai.ts`).

The hazards of each part, at the line where they bite and with the properties about them, are
listed in `PROJECT.json`.

## 2. Plan

Ordered by how much rests on a component and by how hard it is to test.

1. `FilesystemGate` over `AbstractGate`, with proofs. **Done.**
2. `LegacyFileLock`. **Done.**
3. `OperationLedger`. **Done.**
4. `RemoteStream`. **Done.**
5. `Attachments`. **Done.**
6. `Admission`. **Done.**
7. `StrictLease` over `AbstractGate`, whose refinement by `FilesystemGate` is proved. **Done.**
8. `AgentInput` and `ToolBatch`: the input of an agent, and the batch of calls a turn runs.
   **Done.**
9. `ModelProxy` over `ModelStream`. **Done.**
10. `FormEditing`. **Done.**
11. `RemoteSession`: the lease of `Attachments`, the ledger and the stream composed for one client:
    a command runs once across reconnects and its effects are visible before its reply. Not built:
    each of the three parts alone takes TLC minutes at the smallest bounds that show anything.

Proofs: the gate, both file locks, the ledger, the stream, the attachments, admission, the agent's
input, the tool batch, the model proxy and the forms. **Done** (section 6): every safety property of
the runs is proved. Worth proving next: what `RemoteSession` would promise, over the three theorems it
composes.

## 3. The modules and the code

Every definition that models code is listed with its lines in `PROJECT.json` under `map`. In each
module the definitions marked MUTANT are plausible mistakes in the code; the run named for a
property fails for that property when the mutant replaces the definition it is written above.
A property of several parts may have several mutants, one for each part; PROJECT.json lists one of
them.

### AbstractGate, FilesystemGate, FileLockProofs

`FilesystemGate` has one action per file-system call of `takeGate` and `retire`: `Look` (mkdir,
lstat, the calls before the owner is read), `ReadOwner`, `Probe`, `Recheck`, `Bury` (the rename to
the tombstone), `Stage`, `CheckAbsent`, `Publish`, then `Unlock` and the release's `VerifyOwned`
and `RenameAway`, with `RetireFault`, `TimerRetire` and `CallRetire` for releases that failed.
`RenameFault` is a rename that fails for a reason other than the protocol's (a scanner holds the
directory). `Crash` may happen before any of them. A directory is its nonce, a pair of its process
and that process's attempt; `tomb` maps a nonce to what lies at its tombstone. `ProvablyDead` is
the judgement of `file-lock-owner.ts`: only a process of the same host, boot and PID namespace can
be found dead.

`AbstractGate` is what callers rely on: a token with `Acquire`, `Release`, `Recover` and `Crash`.
`FilesystemGate!ImplementsAbstractGate` instantiates it with the owner of the published directory
as holder.

### LegacyFileLock, FileLockProofs

`tryFileLock` without `livePidWins`: `create` is `Create`, `Exists` and `WritePid`, the heartbeat
is `Beat`, `removeIfStale` is `StatAge`, `ReadPid`, `RenameAside`, `Compare` and `PutBack`. A file
is known by its creator, its text by who wrote it. A file grows old (`Expire`) only when nobody
holds the lock with it, which is what the heartbeat, or a short section, gives.

### OperationLedger

`ledger` is the state of the class, `slot` being what it keeps of an id (nothing, an entry, a
tombstone) and `progress` where the promise of an entry is (running, ended with its result
retained or not, settled), which goes on whatever becomes of the slot. A call of `run` is one step, as it is
synchronous: `Resend`, `Refuse` or `Admit`, each after a pruning. `RetainTerminal` or
`RetainNothing` and then `Settle` follow when the operation ends. `Attachment` changes which
clients are attached, which `inUse` asks. The loops of `reserve`, `trim`, `forgetIdle` and `prune`
are folds in the order the code walks. `Collections` holds what this module and `Admission` both need:
a sequence without some of its elements, and a finite sum.

### RemoteStream, RemoteStreamProofs

`daemon` is the journal with the capture's state, `link` one connection's replay, live queue and
acknowledgement bounds, `wire` and `acks` what is under way, `client` the cursor and the view. The
workspace is a version number that every `Change` raises; an event carries the version it leaves.
`Connect` makes the synchronous cut of `journal.open`, `Pump` sends the replay and then the queue,
`Receive` is the client's listener with everything it does (`Apply`, `Discard`, `Resync`,
`FailToApply`), `Drop` and `Restart` end a connection. `Miss` is a change the capture fails to
publish.

### Attachments, ServerProofs

`held` is the lease of `controller.ts`, whose deadlines are kept as the time left; `conn` the
connections, `live` and `active` the maps of `attachments.ts`, `token` what each client knows. A
hello is one step, because `accept` is synchronous: `Attach`, `Take`, `AttachViewer` (which may
hand the lease back) or `FallBack`, each with every later refusal in the same call. `Ended` is the
`connection.closed` handler, which runs some time after the close. `Rejecting` and `Farewell` are
the final reject of a fenced connection and its one-second limit; `StaleFrame` is a frame of the
fenced peer that arrives meanwhile.

### Admission, ServerProofs

`places` is the state of `scheduler.ts`; `work`, `question`, `aborted` and `stopped` the life of
the children in `subagents.ts`. `Admitting` ends a step with the pass of
`admit()`, whose loop over the queue is the set it grants (`Grants`): the one in which an entry is granted
exactly if those granted before it left room. There is one such set, as each entry depends on earlier ones only. Turns start a
microtask after their grant (`Start`, `BeginTurn`, `Resume`), consultations at once, as in the
code; a child that ends before its microtask is a `ghost` until then. `Parent`, `Ephemeral`,
`Persistent`, `Awaited` and `Members` describe the tree. `UnawaitedQuestions` says whether a tool
may return before the question it asked was answered: the tools in the repository do not, the
extension API allows it.

### StrictLease, StrictLeaseProofs

One action per file-system call of `tryStrictFileLock`, all of them under the gate, which is used as
`AbstractGate` promises it (`G!Acquire`, `G!Release`, `G!Recover`, `G!Crash`): first what was left
over from an earlier release (`OwnGate` to `RemoveOwn`), then a legacy file at the recovery name is
given back (`NothingAside`, `Link`, `Unlink`), then `Publish` or, when the path is taken, `Exists`,
`Judge`, `Match`, `Retire` or `MoveAside` and `Verify`. `Write` and `HeldWrite` are the writer of
the session store: without a lease it works under the gate (`withTransientFileLock`), and it
`Validate`s its view before it `Append`s. `Claim`, `Retry`, `DeadlinePasses` and `GiveUp` are
`withSessionClaim`; `TimerFires` and `LateRelease` the cleanup a timer repeats. A file is its owner
and a number.

Processes of an older build (`Legacy`) take no gate: `LegacyCreates`, `LegacyWritesPid`,
`LegacyReleases` and `CrashLegacy` may come between any two calls of a current one. Those in `Takers`
also take over what they judge stale, in the calls of `removeIfStale`: `LegacyStats`, `LegacyReads`,
`LegacyMoves` (which moves whatever is at the path by then), `LegacyCompares`, `LegacyPutsBack`. A
lease whose owner is dead, or is releasing it and has stopped its heartbeat, may look aged to them
(`Unkept`). `robbed` is read by the properties only: it becomes true when the rename or the release of
an older build takes away a file that somebody relies on (`Relied`: a live process's lease, one whose
release is not done, a record that is about to be retired). From then on the properties promise nothing
(section 5). Renames and removals of a current build may fail too, and throw out of its attempt
(`FailsIn`).

### AgentInput, AgentInputProofs

`slot` is the one abort slot a turn, a hold or an owned tool's operation has; `turn` the phase of
the running turn, one for each place it awaits in; `where` puts every message into one queue, or
says what became of it; `promise` is what `prompt()` returned. `RunTurn` is the synchronous start of a
turn with everything it takes along, `Done` its `finally` with what that starts in turn. `HoldEnds` is
the one step in which a hold hands its input on.

### ToolBatch, ToolBatchProofs

`loop` is `ToolRunner.run`, `stage[c]` the await of `#runTool` that call c is at, `run[c]` its
`CallRun` as others see it. `Settle` records the results and marks the calls finished; what is left
of them goes on (`ToolStep`, `RunnerStep`), beside the next turn. `TakeKey` is `waitForKey`,
`Wait` and `Unwait` are `#waitBlocked`, `MayExecute` and `Active` the checks before an executor and
before each write. Each turn has one batch.

### ModelStream, ModelProxy, ModelProxyProofs

`ModelStream` is what an agent is promised: one physical request per call, whose events are read once
each and in order, and a normal end only after the last. In `ModelProxy`, `call` is the proxy's object
with the states of `run()` and of `drive()`, `entry` the broker's retained call, and each link has its
lanes: the request under way, urgent acknowledgements and cancellations, frames, replies. `Connect`
and `Admit` are the two halves of an attachment; each end notices the end of a link on its own
(`ProxyCloses`, `BrokerCloses`). `Restart` replaces the broker's process, `Forget` is the end of a
retention. `timer` says whether a wait for a link has a timer: `proxyReconnectTimeoutMs` may be 0, and may
be changed between two waits. A call that was given up is remembered (`cancelled`), for the links to
come, only for that timeout, or for ten minutes if it is 0, and until 128 later ones pushed it out
(`retain`): `CancellationLapses`. `ImplementsModelStream` is the refinement.

### FormEditing, FormEditingProofs

The host's state is `form`, `authority`, `approved`, `options`, `attempt` and the callbacks that run
(`runs`); `HandleOpen` to `HandleStop` are the operations of `form-backend.ts` as the daemon receives
them, `ActionEnds`, `CheckEnds`, `SaveEnds` and `RespondEnds` what happens when a callback returns.
`view` is `form-view.ts` in an attached client; `OnOpen` to `OnCancel` are its continuations, and
`Becomes` looks at the automatic action at the end of each step, as `#syncAutomatic` does. `Drop`
and `Reconnect` are the connection with what `agent-port-forms.ts` asks again. `Cancel` ends the
evaluation that is awaited, as failed, before anything else (`agent-port-forms.ts:131`): nothing asks for
it again until the next edit, save or action (`forgone`). Without a connection its request waits in `up`
and is sent once, after `Reconnect`. A draft is a number; `KeyOf` is what the action watches of it.

The module has one automatic action that always loads, no manual ones and no `change` callback.
Callbacks return options only, no values: what the view shows of a result that it drops after an
unrelated edit, while the host counts the attempt as made (`form-view.ts:653`,
`ui-requests.ts:600`), is outside the model. So are the view of a local session, which is the same code
without a connection, and answers to requests of other kinds.

## 4. Runs, bounds and fairness

TLC finishes each run on two workers in about a minute and a half at most. `PROJECT.json` gives every property a
mutant that breaks it.

| Run | Instance | What it shows |
|---|---|---|
| `gate_safety` | three processes of one host, two attempts each, two failing renames and a retry budget of one, crashes anywhere | `MutualExclusion`, `AuthorityOnDisk` and `TombstonesAreDeadOwners`: the tombstone race needs a dead owner, a reclaimer that replaces it and a delayed one, hence three processes |
| `gate_hosts` | two processes of one host, one of another; two failures, two timer retries | the refinement, `GateLeavesByRight` (no judging across domains), `ReleaseEnds`, `AbandonedIsRecovered` |
| `lock` | three processes, two of which may stop, one file each | the legacy lock excludes until a process stops (`OneHolderUntilCrash`), and orphaned files go (`OrphansGo`) |
| `lease` | two current and two older processes, one of which takes stale leases over, one file each, one retry, two of: crashes, failing calls, looks at a stale lease; states after the first robbery are not explored | while no older build took away a file somebody relied on: a lease excludes every other live process and writer (`StrictExcludes`), the file of a live owner is never lost (`AuthorityStaysVisible`), `ClaimEnds`, `DeadLeaseGoes` |
| `ledger` | two scopes, three ids, sizes 1 and 2; every limit can be exceeded | `ResendsAreKnown` (at most once, nothing running is forgotten), `AccountsAreKept` (exact counters within limits), `RefusalKeepsIds`; deadlock is checked |
| `stream` | two daemon lifetimes of five events, a journal and a queue of two, two drops, one miss | `StreamIsSound` (`NeverTorn`, `IdleIsCurrent`, `NoGapMet`, `AcksAreAcceptable`), `EventuallyCurrent` |
| `attach` | three clients, one of an older release, one serving models; two connection slots that are used again and again; two generations of the lease | `ControllerIsShown`, `LeaseIsBacked`, `LeaseMovesByRight`, `LeavingEnds` |
| `admit` | a chain of three children: a waits for b, c1 is a private turn of b and in a group with it; two places, a batch and a question each, two turns, one pause | `LimitsHold` (`WithinPlaces`, `WithinGroups`, `RoomForPrivateTurns`, `PlacesAreUsed`), `EveryoneIsAdmitted` |
| `input` | two messages of the user, two notices of which one does not wake, each kind of agent, two steps, one rebuild, one retry | `InputIsKept`, `WaitsForAReason` (also: promises are true), `EverybodyIsHeard` |
| `tools` | a turn with three calls of one key and a serial one, then a turn with one more; one call asks, one writes; two run at once | `BatchIsSound` (each call once, conflicts exclude), `OutsideViewIsTrue`, `NothingLate`, `BatchEnds` |
| `proxy` | one call with two events over two links, one replaced broker, room for one frame, with or without a timeout at each wait, a remembered cancellation that may be forgotten at any time | `CursorsAgree`, `OrphansAreStopped`, `ImplementsModelStream`, `EveryCallEnds` |
| `form` | two views one after the other, three drafts of which two share a key, three events (edits, saves, cancellations, detachments, drops, direct answers, giving up) | `FormIsSound`, `HostFollowsEditor`, `OptionsShow`, `NobodyWaits` |

Why the bounds are enough. The windows and queues of the code are counters against a limit: two
entries suffice to be below, at and beyond it, and their order is the only data. A connection slot
is free again after its end, so two slots give a client's old connection beside its new one, and
any number of connections one after another; with two slots the limit of viewers is never reached,
the limit of loading snapshots (1) is. Each bound is a constant named `Max...` and appears as a
guard of the action it bounds. Symmetry is used only in runs without liveness properties.

A view, a link, a crash or a retry is one more chance for something to arrive late, and the races of
these modules are between a thing and its successor: two views, a link and the one before it, a call
and a call of the next turn. Two links let a call be resumed with everything of the first one
still under way, by the same broker or by another; the theorems about them hold for any number of links. The three drafts of `form` are two with one key and one with
another, which is what the automatic action tells apart.

"Whatever waits stops waiting" is `P ~> ~P \/ Q`, which is the same as `[]<>(~P \/ Q)`: most liveness
properties are written in the second form, which TLC checks several times faster.

Some properties except what the code does not give. Those with a configuration in section 5: `MaxMisses`
is 1 in `stream`, the invariants of `lease` are about states in which nobody was robbed (its
`CONSTRAINT` leaves the others out), `OrphansAreStopped` excepts `GivenUpBeforeOpen`, and `OptionsShow`
excepts views whose evaluation a cancellation ended. By design: `OrphansAreStopped` also excepts a
call whose cancellation was forgotten before the link was attached (`LapsedBefore`; the broker forgets
a retained call after ten minutes too, but a shorter `proxyReconnectTimeoutMs` shortens the proxy's memory
only), and `EveryCallEnds` a call that waits for ever for a link that never comes
(`WaitsForever`), which a timeout of 0 asks for (`docs/remote-workspaces.md:126`).

`lease` has two troubles in total. With three, or with both older builds taking over, its invariants hold
as well, on up to 1.8 million states; with `Takers = {}` nobody is robbed, which `NobodyIsRobbed` proves.

Deadlock is not checked where the system may stop: all processes crashed or out of attempts, all
connections closed, the tree at rest.

Fairness, and why the code gives it:

- `FilesystemGate!FairSpec`: a live process finishes its synchronous calls, the section the gate
  protects is synchronous, and timers fire. `PollingSpec` adds callers that try again, as every
  waiting caller in the repository does; only recovery needs them. `ReleaseEnds` assumes that
  failures are no more than the automatic retries, which is what the retry delays are for.
- `LegacyFileLock!LegacyFairSpec`: callers poll (`withFileLock`), holders release, time passes.
- `RemoteStream!FairSpec`: the client reconnects (`agent-port.ts` retries), the pump runs, what was
  sent arrives unless the connection ends; drops are finite by their bound. Nothing is assumed of
  acknowledgements.
- `Attachments!FairSpec`: time passes, close handlers run, and the one-second timer of the final
  reject fires.
- `AdmissionFairSpec`: whatever is due (a microtask, a model call, a stream, tools with nothing
  left to wait for) happens eventually. Every run is bounded, so one weak fairness condition
  over all children is enough. Users, senders and pauses owe nothing: `EveryoneIsAdmitted`
  excuses waits while a child is paused.
- `AgentInput!FairSpec`: what a turn awaits settles (the model's call ends or fails, tools end), holds
  and owned operations end, the retry timer fires, and the tree wakes children that wait.
- `ToolBatch!FairSpec`: the runner's own promises settle, the grace after an abort ends, a settled
  turn ends. Tools and those who are asked owe nothing; only `BatchSettles` assumes that calls go on.
- `StrictLease!FairSpec`: synchronous calls run to their end, a claim polls until its deadline, which
  passes, timers repeat a cleanup, files of the dead grow old, and the gate is recovered (which
  `gate_hosts` shows). The deadline is looked at between attempts only, again and again: it is strongly
  fair. Holders and older builds owe nothing.
- `ModelProxy!FairSpec`: timers that were started fire (none is with a timeout of 0), what is sent over a
  working link arrives, both ends notice a broken one, providers emit, and the caller reads on. Links need
  not come back.
- `FormEditing!FairSpec`: what crosses a working connection arrives, a dropped one is made again, the
  form's callbacks return, and a client is told of the settlement. Users owe nothing.

## 5. Disagreements found

The runs are those that hold. Where a comment, a document or a test says more than the code does, a
configuration of its own checks what is said, and TLC finds a behaviour against it:
`tlc -config <configuration> <module>` replays it.

- `MCLegacyFileLock_takeover.cfg`, `OneHolder` (`core/src/file-lock.ts:74`, "Takes `lockPath` if no
  other process holds it"): a and b find the stale lock of a dead process; b removes it and takes
  the lock; a renames b's fresh lock aside (`file-lock.ts:578`); meanwhile a fourth process creates
  the lock. The put-back fails, and b and the fourth process hold the lock.
- `MCStrictLease_robbed.cfg`, `Excludes` (the same sentence, for older builds beside current ones; "Undefined
  when another live process holds it", `:86`): the gate keeps current builds from this race with each
  other, but older builds take no gate, and their delayed rename moves whatever is at the path. s1's
  release is unfinished and its record looks aged; l1 sees that age (`:566`); the release is done at
  last; s2 publishes its lease; l1 reads s2's pid, renames s2's record away (`:578`), finds the pid it
  has just read and removes the record for good. Then l1 creates its own file: two live holders.
- `MCRemoteStream_degraded.cfg`, `ConnectedClientsLearn` (`cli/src/server/journal.ts:44`, "Already
  connected clients must also learn that exact capture has degraded"): `invalidate` (`:42`) tells
  connected clients only the first time; a client that attached after it, and whose reset was named
  for its old epoch, never hears of the next failure.
- `MCAttachments_taken.cfg`, `TakenIsTold` (`docs/protocol.md:199` of the repository, "The previous
  holder receives a final `reject` with code `controller_taken` and is closed"): a frame of the fenced
  holder that arrives while the reject is being written (`cli/src/server/attachments.ts:451`) closes the
  connection first, and the reject is lost.
- `MCAttachments_presence.cfg`, `ReservationIsShown` (`attachments.ts:129`, "every roles peer gets the
  full presence after any change"): a viewer hello that hands the lease back is refused because too
  many snapshots are loading (`:332`); the others go on seeing a reserved controller until the next
  change.
- `MCAdmission_unawaited.cfg`, `EveryoneIsAdmitted` (`core/src/subagents/scheduler.ts:61`, a waiting
  child yields its place, "avoiding deadlock"): a asks in the place it lent to its child, its tool
  returns without awaiting the answer, a queues for a place again, and the end of the question's
  stream marks a as running (`:152`): with one place, a waits for the place it is recorded to hold. No
  tool of the repository does this; the extension API allows it.
- `MCAgentInput_mixed.cfg`, `FailedNoticesAreResent` (`core/src/agent/notices.ts:166`, "A turn carrying
  notices failed before the model answered them ...: send them again later"): a notice of a job and one
  of a sub-agent are joined to a message without an origin (`core/src/agent/messages.ts:18`), so the
  turn that fails does not know that it carried notices, and schedules nothing.
- `MCToolBatch_grace.cfg`, `OneGrace` (`core/src/agent/tool-runner.ts:175`, "after an abort gives tools
  only abortGraceMs to stop"): a serial tool that ignores the abort is waited for where it was started
  (`:139`) and again at the end of the batch (`:141`), a grace each.
- `MCModelProxy_cancel.cfg`, `CancellationsAreDelivered` (test
  `cli/test/remote/proxy-cancellation.test.ts:95`, "an accepted cancellation while disconnected is
  delivered on the next authorized attachment"): a call that is aborted after the next link was
  attached, but before the link was admitted and the call opened on it, sends its cancellation to the
  link before (`cli/src/remote/proxy-ai.ts:470`); `attach` (`:137`) has already sent those it knew and
  `admit` sends none, so the request runs on until another link or the end of its retention.

Two weaknesses contradict no sentence of the repository, but a reader of the properties should know
them.

`Excludes` fails in more ways than the one above, all of them through a call of an older build that takes
away a file somebody relied on. (a) l1 judges the file of a dead older process and pauses; s1 moves
that file aside and publishes; l1's rename takes s1's live record from the path. Before l1 puts it back,
another process publishes: the put-back fails, and two processes hold the lease. (b) The same, but s1
releases meanwhile, and the put-back succeeds: the record of a live process that holds nothing is at
the path, and current builds take it for a live lease until that process exits. (c) A current build moves a
stale file to the recovery name, which by then is the live lease of an older build that has just replaced
it; another older build takes the path, and the release of the first, by name, removes the file of the
second. `StrictExcludes` and `AuthorityStaysVisible` speak of behaviours up to the first such call
(`~robbed`). That the older builds heartbeat, as the comment of `tryFileLock` demands (`:81`), does not
prevent any of these.

`MCFormEditing_forgone.cfg`, `OptionsShowAgain`: a cancellation ends the evaluation of the draft that is
awaited (`cli/src/remote/agent-port-forms.ts:131`); the view takes it for failed
(`tui/src/form-view.ts:380`). If the connection drops before the cancellation is handled, both are lost, and the
reconnected client has nothing to ask again: the view stays open and ready with the options of the draft
before, until its user edits it or leaves.

## 6. Proofs

What TLC shows on one instance, the theorems show for every value of the constants. Each proof module
has an inductive invariant `IInv`, checked by TLC before it was proved, a lemma that each action
keeps it, and short theorems on top. The assumptions are the `ASSUME`s of the modules (TLC evaluates
them on every run): sets that are disjoint or finite where the code's are, bounds that are numbers.

| Component | Theorems | Statement |
|---|---|---|
| FilesystemGate | `TypeCorrect`, `MutualExclusionThm`, `AuthorityOnDiskThm`, `TombstonesThm`, `GateLeavesByRightThm`, `Refines` | every safety property of both runs, and the refinement of `AbstractGate` |
| LegacyFileLock | `ExcludesUntilCrash` | `LegacySpec => []OneHolderUntilCrash` |
| RemoteStream | `TypeCorrect`, `PositionsHold`, `SoundUntilMissed`, `StreamSound` | `Spec => []TypeOK`, `Spec => []PositionsAgree`, `Spec => [](misses <= 1 => StreamIsSound)`, and `Spec => []StreamIsSound` for `MaxMisses <= 1` |
| StrictLease | `LeaseExcludes`, `AuthorityVisible`, `NobodyIsRobbed` | `Spec => []StrictExcludes`, `Spec => []AuthorityStaysVisible`, and `Spec => [](NobodyRobbed /\ Excludes)` if `Takers = {}` |
| OperationLedger | `RunsOnce`, `AccountsKept`, `RefusalsKeepIds` | `LedgerSpec => []ResendsAreKnown`, `LedgerSpec => []AccountsAreKept`, and the action property `RefusalKeepsIds` |
| Admission | `LimitsKept`, `EveryLimitHolds` | `AdmissionSpec => [](AdmissionTypeOK /\ WithinPlaces /\ WithinGroups /\ RoomForPrivateTurns)`, and `AdmissionSpec => []LimitsHold` if `~UnawaitedQuestions` |
| Attachments | `LeaseBacked`, `ControllerShown`, `LeaseByRight` | both invariants, and the action property `LeaseMovesByRight` |
| AgentInput | `InputKept`, `WaitsForReason` | both invariants |
| ToolBatch | `BatchSound`, `OutsideViewTrue`, `NothingIsLate` | both invariants, and the action property `NothingLate` |
| ModelProxy | `CursorsSound`, `OrphansStopped`, `StreamImplemented` | both invariants, and the refinement of `ModelStream` |
| FormEditing | `FormSound`, `HostFollows` | both invariants |

### The gate

`FileLockProofs` proves, for any set of processes, any assignment of domains and any bounds
(assumptions `BoundsAssumption` and `NoDirAssumption` of `FilesystemGate`):

| Theorem | Statement |
|---|---|
| `TypeCorrect` | `Spec => []TypeOK` |
| `MutualExclusionThm`, `AuthorityOnDiskThm`, `TombstonesThm` | the three safety invariants of `gate_safety` |
| `GateLeavesByRightThm` | the action property of `gate_hosts` |
| `Refines` | `Spec => ImplementsAbstractGate`: `FilesystemGate` implements `AbstractGate` |

Mutual exclusion is not inductive: nothing in it stops a reclaimer that judged one directory from
renaming the next. `IInv` adds what the code relies on:

- `PrivateNonce`: a nonce that was not made, or that is still in its staging directory, is neither
  at the gate nor at its tombstone;
- `HasNonce`: whoever publishes, holds or releases has made a nonce;
- `Published`: a live process between publication and the end of its release owns the gate;
- `Judged`: whoever is about to recheck or bury has seen a directory whose owner is provably
  dead; whoever is about to bury either still has it at the gate, or it has its tombstone;
- `GateNotBuried`: the directory at the gate has no tombstone.

So a delayed `Bury` either meets the dead directory it judged, or its target exists and, being
nonempty, makes the rename fail. `Published` gives authority and mutual exclusion. The refinement
is one lemma (`StepRefines`), one case per action: `Publish` is `Acquire`, `RenameAway` is
`Release`, a successful `Bury` is `Recover`, all others stutter.

The argument uses from the code that a tombstone is named after the nonce it buries, stays
nonempty, and that renaming a directory onto a nonempty one fails; it does not use the recheck
(`Recheck`), which only narrows the window, nor any timing.

### The file locks

`LegacyFileLock`: until a process stops, a file ages only after its creator has left it, so nobody
judges one stale (`Undisturbed`), and the file at the path is the holder's (`LockIsHolders`). The
proof covers nothing after a stop, where the lock does not exclude (section 5). It stands beside the
gate's, in `FileLockProofs`, which extends both modules: they share no name, which is why this one's are
`LegacySpec`, `Pids`, `living` and `at`.

`StrictLease` is proved over the gate's promise, not over its implementation; `Refines` connects the
two. `IInv` is `TypeOK` and, as long as nobody was robbed, `Kept`: a current build past its judgement is under the gate
and no other one holds a lease (`JudgesAreAlone`); while one holds it, no older build does
(`HoldersAreAlone`), whose files lie at one of the two names (`AllVisible`); the recovery name is
clear from the restore to the move (`AsideIsClear`); what was judged stays abandoned, and a record that
is about to be retired stays at the path (`ProofHolds`), because its owner does not come back and taking
it is robbery. The calls of a takeover change nothing but the path (`LooseFileStep`): if nobody relied on the
file that is moved away, nobody misses it; and one is put back only where no file is, which means that no
current build holds a lease and an older build's lies at the recovery name. Where no older build takes
leases over, the file of one stays at the path as long as it holds its lease, and what a current build
has judged stays there until it moves it (`Untaken`); a release by name then removes its own file only, and
the exclusion needs no condition (`NobodyIsRobbed`).

### The stream

The frames in a connection's queue, in its replayed cut and on the wire, and the entries of the journal,
are each numbered without a gap (`Numbered`): the queue and the journal up to the last event, the cut up
to where the queue begins, the wire up to where the cut begins. A welcome comes first, then a reset if
there is one, and nothing of the connection is sent before it (`InOrder`). So the cursor stands before
the first frame on the wire, or a reset that is on its way will put it there, never behind where it is
(`CursorStands`), and acknowledgements rise from what the daemon has for applied to the cursor
(`AcksAgree`). For `Connect` this needs that the entries after a cursor which is not too old are the
suffix that starts right after it (`LaterFacts`). None of it depends on what was missed: `PositionsHold`
has no hypothesis, and the branches `Discard` and `Resync` of `ReceiveFrame`, and the refusal of an
acknowledgement, are never taken, as frames arrive in order.

`Chained` is about versions: of two frames with successive numbers, wherever they are, the second is a
fault or tells the next version; whatever has the last number tells the present one; and what the client
shows is such a predecessor too, unless it was told. It holds as long as at most one change was missed
(`misses <= 1`), which is the hypothesis of `SoundUntilMissed`: after a second one the daemon is silent
(section 5), an event may follow a version the client never had, and the property is false.

### The ledger

`LedgerInv` is about the class (`Sound`) and about what ran lately (`RecentsKnown`). A ledger is sound if
the three views of an entry agree: a scope's window lists, once each, exactly the ids that have a slot;
the settled results are exactly the live entries whose promise has settled, once each; whatever has not
settled is live; a scope without a window is not active, and none is both active and forgotten; and if
the counters count the slots and sum the bytes. Each loop of the code is a fold whose every step keeps
this, and what the loop promises besides: the oldest results go only until the reservation fits,
idle scopes go only while no id fits, a scope with something running is never among them, and nothing
but time and the window takes an id of the scope that asks.

An id that runs is new to the window, and the window ends like the history of what the scope ran
(`EndsLike`): trimming takes only tombstones older than the last `windowIds - 1`, so the id is none of the last
`windowIds`. A refused request gave up none of its scope's ids (`MakeRoomSound`): what is running is
checked before anything is given up, and then giving up the oldest results always makes room for the entry and
its bytes, so a later refusal can only be for want of ids; but the number of ids is at most `maxIds`,
so the trim of the requesting scope, had it taken any, would have made room for one.

The library's induction theorems take an operator, which no prover here can instantiate. The first part of
the ledger's proofs goes round that: `UpTo` and `OverSubsets` are induction over a *set* of numbers or
of finite sets, from the well-foundedness of `<` (`WFMin`, `NatLessThanWellFounded`);
`FoldExists` and `FoldLeftExists` are what justifies the recursion inside the community modules' folds. On these rest what `Without` returns
(`WithoutKeeps`) and the laws of finite sums (`TotalSums`, `TotalChanged`, `TotalWithout`). They need
the scopes and ids to be finite sets (`LimitsAssumption`), as a daemon's are in any finite time.

### Admission

`Streams`, what the limits are about, is not what the scheduler counts, so the invariant is about
`Holders`: whoever consults, or runs in a place it did not lend and has not ended before it began. A
place that was lent counts for nobody, unless its child is paused, and then it counts too much, never too little.
`PlacesAgree` ties the two together: whoever calls a model, or will without asking again, is a
holder, because only a batch of tools lends a place and `CallModel` gives a lent one up before it asks
anew. The queue holds exactly the entries of those who wait, once each (`QueueAgrees`).

That a pass keeps the bounds (`GrantsBounded`) is argued from its last grant and not along the queue.
Take the granted entries that count against a limit (all, the ordinary ones, or a group's) and the last of
them in the queue: it was not full, measured against the holders and everything granted before it, which is all
the others. So the limit has room for one more, that entry. Thereby no theorem about folds over the
queue is needed: the finite set of its positions has a greatest one (`LastInQueue`). The group limit counts a question
whose child has ended as the code does (`live \cup p.consulting` in `GroupFull`); the mutant that counts live
members only breaks this step.

None of that needs to know whether tools wait for their questions: `LimitsKept` has no hypothesis.
`PlacesAreUsed` does. With `UnawaitedQuestions`, a child that went on to rest gets back a place when its
question ends; the conjunct fails then, and `EveryLimitHolds` says so. `SpentFits` bounds the turns: a
child rests, and may be woken, only while it has one left.

### Attachments

A generation belongs to one connection for good (`GenerationsAreOwn`), the lease bears the last one
(`LeaseIsLast`), and a live entry is a connection of its client (`LiveIsOwn`). `ControllerIsShown`
speaks of the moment when all ends are handled; it is inductive once it says what is true before:
whoever understands roles sees the controller, or there is a connection whose end will broadcast it
(`ShownOrPending`). That is why the handler of an end broadcasts whenever the connection ever had a
generation.

### Agent input

Only a turn empties the queues, and when it takes the slot the resend is cancelled; `SlotAgrees`
says that a timer never meets a turn, and `Queued` and `Told` which queue belongs to whom and what
callers may have been told. `HasReason` strengthens
`WaitsForAReason` to sessions that are held: a notice that comes during a hold is looked at by its end.

### Tool batch

Four threads: the record of a call tells how far it got (`RunAgrees`); the counts of waits are the
numbers of the calls that wait, which needs cardinalities (`BlockedWhileWaiting`, `RoomIsKept`);
whoever returns last finds nobody pending (`LastIsOne`); and the calls that took over a key form a
chain of which at most one, the front, may execute (`KeysInOrder`).

### Model proxy

A call is opened once on a link (`OpenedOnce`), and on the link that serves it no frame is missing
between what the proxy has received and what the broker has sent (`NothingMissing`): the next frame is
always the one the proxy takes. Acknowledgements rise and stay behind what was applied (`AcksRise`).
`StopIsComing` says who will tell the broker of a call that was given up: a cancellation on its way,
the list that the next attachment sends, or one of the two excepted cases. For the refinement, each action is a
step of `ModelStream` or leaves its variables alone. The finite set of calls is used to send that
list; an answer has at least its terminal event (`MaxEvents > 0`).

### Forms

Frames arrive in the order of the views that sent them, so no frame under way is of a view before the
host's editor (`FramesAgree`), and the editor is the view mounted last as soon as that one has its
claim (`ClaimsAgree`). A callback keeps the name, editor and revision of its request, no two have the same
name (`RunsAgree`), and a running action that is current is the attempt's (`AttemptAgrees`): this is
why the `finally` of a late one cannot take its successor's attempt away. Revisions are bounded by the
edits that were made (`RevsFit`), where an edit during the claim counts towards the revision the
claim will give. A draft is kept as approved only if it passed (`ApprovalsAgree`).

## 7. What is only checked and what is not covered

Only model-checked: the liveness properties, since temporal reasoning under fairness and `ENABLED` are
beyond the prover. Every safety invariant and action property of the runs is a theorem; where one
needs a hypothesis (`~robbed`, `misses <= 1`, `~UnawaitedQuestions`), section 6 and the theorem say
which and why.

The proofs rest on the same abstractions as the runs, named below. They are about the modules; that
these are the code is shown by reading them beside the lines that `PROJECT.json` gives.

Abstracted: payloads, snapshots and results are sizes, versions or nothing at all; time is the
order of deadlines; a process is its pid and pids are not reused; bytes on the wire arrive in order
until a connection ends. Renames and links are atomic, and a crash loses nothing that a completed
call wrote.

Not modelled of the components that are: the byte limits and the payload translation of the
stream, and the exception `replay.ts` makes for stale resets of a future cursor, which an
ordered connection cannot produce; command dispatch and shutdown of the daemon; the admission of
the root and of side conversations (`subagents/root.ts`), budgets, and the drain after a network
failure; what a turn sends to the model, forks and model changes; remembered approvals and hooks that
rewrite arguments; several turns of one proxied call and the receipts of compactions; requests other
than forms, settings pages, manual actions and the dialogs mode; the evaluation of a view that was
unmounted, which its backend asks again after a reconnect and which can only raise the revision of an
editor nobody edits; an append of an older build between
another's validation and its append, which no lock prevents. A legacy file at the recovery name that
cannot be given back blocks claims for as long as it is there, by design (`DeadLeaseGoes` excepts it).
The other components, with the reason for each, are in `PROJECT.json`: most are conversion, rendering
or I/O with other programs, which is also most of the repository's lines; the plan above says which
come next.
