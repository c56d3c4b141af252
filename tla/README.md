# A TLA+ model of hello-cc

hello-cc lets several coding agents (Codex, Claude, dsh and plain terminals) work
on one project: they take locks and tasks, exchange messages, and are run and
watched through a web runtime and a native daemon. All coordination goes through
SQLite files that many short-lived processes share, so most of what can go wrong is
an interleaving of processes, a stale reading, or a process that dies half-way.

This directory models the parts of the program where that matters, checks them
with TLC on small instances, and proves the central safety properties with TLAPS
for all instances.

## The system

| Component | State | Operations | Hard behaviour | What makes it correct |
| --- | --- | --- | --- | --- |
| Terminal control lease (`lib/web/control-lease.mjs`) | per session: epoch, controller, clients, deadline, timer | connect, disconnect, claim, release, assertControl, forget, expiry timer | timers that fire early, late or after being replaced; returning clients | one writer per epoch; an abandoned lease ends, a held one does not |
| Locks and leases (`lib/cli/commands/lock.mjs`, `lib/core/coordination/*`, `lib/web/peer-actions.mjs`) | table `locks`, meta clock record | acquire, renew, release, heartbeats, gc | evidence probed outside the transaction; several implementations of one rule | no live owner and no running lease is displaced |
| Clock safety (`clock-safety.mjs`, `clock-grace.mjs`) | last observation, pending gap, grace deadline | observe | jumps of the wall clock observed by several processes in any order | owners overtaken by a jump get a grace period |
| Native delivery (`lib/runtime/native/service.mjs`, adapters) | `deliveries` in state.db, messages and ACKs in mesh.db, worker objects | send, poll, record, close, shutdown, restart | two databases, late receipts, provider errors, crashes | no message is sent or answered twice, settled rows stay |
| Native owner (`store.mjs`, `service.mjs`, `client.mjs`) | `native_owner` row with its epoch, pointer file, lock on ports | start, claim, publish, fenced write, stop; status and bound request of a command | two daemons at once, a lock lost under its holder, a hook that outlives its daemon, a runtime replaced between check and request | one daemon has the store open; writes follow the epochs; a request stays with the runtime that was checked |
| Task board (`cli/commands/task.mjs`, `team.mjs`, `core/coordination/tasks.mjs`, `results.mjs`, `web/task-results.mjs`) | tables `tasks`, `peers`, results among `events`; turn bindings in memory | create, team, dispatch, claim, next, takeover, update, file a result | takeover on evidence probed before the transaction, concurrent claims, turns that outlast their task, a runtime that forgets | tasks leave their owner openly, and for staleness only a lost one; a turn is filed once, under its own task |
| Liveness reaper (`liveness-reaper.mjs`, `tmux-sessions.mjs`, peer part of `gc.mjs`) | rows and evidence read, todo list | poll, sweep on attach, collect | a peer that comes back, dies or sleeps while it is swept | only a peer lost at that moment is marked or removed; a sleeper has its grace |
| File lock (`shared/file-lock.mjs`, `socket-lock-worker.mjs`) | loopback ports | attempt, probe, retry, release | foreign occupants, slow banners, several starters | two holders never, except by a port that changed hands behind an attempt |
| Submission journal (`cli-submissions.mjs`, `native.mjs`) | records published by hard links | save, repair, list, retry | publication races, killed writers, power failures | every record can be read; what was sent is on record |
| Codex App delivery (`codex-app-delivery.mjs`, `codex-app-cooperation.mjs`) | dispatch records and lease in meta, the App's own queue | tick: note, select, submit, save; enrol, disable, acknowledge | crash between intent and answer, lost answers, a new enrolment, collection meanwhile | a message is announced once, one at a time |
| History collection (`gc-plan.mjs`) | snapshot, planned batch | plan, finalize | rows read after planning | only what was planned, as it was planned, is deleted |
| Sessions (`cli/commands/run.mjs`, `pty-lifecycle.mjs`, `web/external-sessions.mjs`) | peer row, buffer files, the web runtime's view | publish, spawn, announce, fail, stop, close; adopt, finalize | a child that does not stop, identities never learned, starts side by side, a stale view | one session per peer; a living child is seen; files and rows of another generation are left alone |
| dsh inbox (`dsh-inbox.mjs`, `dsh-cordis.mjs`) | pending deliveries, the wake, the blocked batch, receipts; what is handed on beside the plugin | poll, steer, step, commit, claimed, discarded, idle, dispose, forget | other hooks alter or refuse what was queued, turns are cancelled, the plugin is reloaded between queueing and commit | only what was committed as it was is acknowledged; a batch that was given up does not wake the Agent again |
| Interactions (`interactions.mjs`) | pending and used requests | request, respond, expire | limits, answers after the turn | one answer per request |
| tmux and web-started sessions, web runtime lifecycle, HTTP, TLS, browser, shims, MCP, registry, buffer gc, migration | processes, files | start, stop, serve | operating-system I/O | mostly outside what a model checker shows |

The components meet in the databases. A lock or task command asks *peer evidence*
(is the process this row names still there?) and *clock safety* (did the clock just
jump?) before it takes anything from an owner; gc, the reaper and takeovers do the same.
The native daemon reads messages other programs write and acknowledges them there; it may
do so only while the owner row names its generation, and the lock it takes on the way is the
file lock. `hcc native send` keeps its journal beside it. A session writes the row and the
files that peer evidence is read from.

## Modules

    ControlLease      <- ControlLeaseProofs
    ClockSafety       <- ClockSafetyProofs
      Leases          <- MCLeases <- MCLeasesMix, LeasesProofs
      TaskBoard       <- MCTaskBoard, TaskBoardProofs
    DeliveryPromise   (abstract)
      NativeDelivery  <- MCNativeDelivery, NativeDeliveryProofs
    FencedStore       (abstract)
      NativeOwner
    SocketLock, CliSubmissions
    AppMail           <- MCAppMail, MailProofs
    RunSession        <- RunSessionProofs
    DshInbox          <- MailProofs
    MCParts           = NativeOwner, SocketLock, CliSubmissions, AppMail, RunSession, DshInbox side by side
                      <- PartsProofs (the first three; of all six, with MailProofs and RunSessionProofs)
    MCWorkers         = NativeDelivery, ControlLease side by side

**ControlLease** models the lease record of one terminal session. `Connect`,
`Disconnect`, `Claim`, `Release`, `Forget` and `Status` are the exported functions;
`Current` is `current()`, which every one of them calls first and which expires a
lapsed lease; `Write` is a socket message that passes `assertControl`. The timer is part
of the state: its callback (`TimerFires`) may run while the wall clock is still short of the
deadline, since Node's timers follow another clock, and then schedules itself again
(`ScheduleExpiry`); a timer left over from an earlier lease is told by its epoch. A
client is the fresh token of one websocket. `writes` is a history variable. At the largest epoch
`advanceEpoch` throws; what the code has changed by then stays changed, so `SetController` there
cancels the timer and nothing else, and a connection has joined. A lease that lapses at that
epoch stays lapsed, and every call that begins with `current()` fails there.

**ClockSafety** has no variables. It is the arithmetic of `observeClockSafetyInTransaction`
on the stored record [last observation, pending gap, grace deadline]: how large a step
counts as a jump, how gaps of several observers merge, which candidates a gap has
overtaken, when the grace starts and which owners' leases are renewed on the way.

**Leases** composes it with the lock table. A command is a small program: `Begin` reads the
wall clock; `Observe` captures the rows it will judge and probes their owners outside
any transaction; then one transaction captures again and either starts over
(`StartOver`), refuses (`Refuse`), grants (`Grant`), renews, or plans a collection
(`PlanGc`, `CollectGc`). The heartbeats of the command line (`ObserveClock`,
`RenewAfterwards`: two transactions), the web (`WebHeartbeat`: one) and hooks
(`NativeHook`) differ exactly as in the code. Processes die, register anew, crash between
transactions; the clock ticks, jumps and steps back. One resource with its scopes is
modelled. A peer row is the number of its registration: the other columns only make a
command start over more often. What a probe may show of each peer is a constant
(`Probes`). MCLeasesMix explores two choices of commands and probes in one run; its action constraint
keeps a behaviour to the choice it began with. The cutoffs that gc adds for history and buffers are any one boundary. Task
authority, `created_at`, `reason`, and gc of stale peers are left out, and each peer
has one command under way.

**NativeDelivery** models one peer's worker. `Poll...` is `poll()` with its `ingest()`;
`SendReturns` and `SendFails` are the two ends of `dispatch()` once the adapter was called,
`SendRefused` and `DirectoryChanged` those where nothing is handed over; `Output`, `Completed`,
`Error`, `EndsUnnoticed` are the events `record()` handles, and `CompletedTorn` the
cases where mesh.db is committed and state.db is not. `Open`, `Opened`, `OpenFails`,
`BeginClose`, `CloseDone`, `Shutdown`, `ReleaseStore`, `Crash` and `Start` are the life of
workers and daemons; `Submit` is `POST /send` with its retries; `PeerSends`,
`Acknowledge`, `Expire` (gc) and `Rebind` are what other programs do to mesh.db. An event
names the message it is about: the adapters put the submission id into every event that
settles or moves a row, and an event without ids counts for the active message, as in
`record()`. The adapter's status is `busy` from the hand-over on; idle, ready and completed
are one value. Not modelled: forks, operator interruption (its effect, an interrupted turn,
is), interactions, a close that fails and is retried, and a saved Codex thread that is
still busy when resumed.

**DeliveryPromise** is what a sender may rely on, without workers, daemons and databases: a
receipt moves one way (none, queued, working, then completed, failed or uncertain), a message
is handed over at most once and answered at most once, and `completed` stands for an
answer. NativeDelivery instantiates it with the three in-flight states as "working"; the
property `KeepsPromise` says that it implements it.

**TaskBoard** models tasks, the commands on them, and the sweeps over peers, on the same
clock arithmetic as Leases. Every command is `Begin`, which touches the row of its peer
(`Touched`), and then a transaction of its own: `Create`, `StartTeam`, `Dispatch`, `Claim` (all
the tasks named or none), `ClaimNext`, `Update`, or `GiveUp` for every way it is refused. A
takeover is `Look` (capture and probe, no transaction), `Observe` (the clock, one transaction)
and `TakeOver` or `LookAgain` (another one, comparing the capture). `StartSweep`, `JudgeSweep`,
`SweepLooks`, `Reap` and `Spare` are the three sweeps: the poll of the web runtime, the one when
a project is attached, and the peer part of gc; they differ in the rows they read, in whether
the runtime's drift probe is known to them and in what a running grace means. That probe is
`drift`: `Detected` is what `detectClockJump()` reports, the span since its last probe if the wall
clock went on by more than `DriftThreshold` beyond the monotonic one; it moves on with every poll,
also one that fails, and a restarted runtime has none. A `JumpForward` is a step of the clock the
probe would report; it counts as a sleep (`slept`) when it is longer than `GapThreshold`, the step a
process without a probe takes for one.
`StartTurn`, `FileResult` and `RuntimeRestarts` are `task-results.mjs`. What may happen in a
behaviour, and how often, is a record `mix`, so that one run covers four small mixes. `slept`
and `turns` are history. A row's identity counts its processes, also after the row was
removed. Priorities, texts, tmux panes as evidence and manual verifications are left out.

**NativeOwner** models the daemons of one project: a daemon is its generation and a stage, from
the first look at the pointer (`CheckPointer`, three times as in the code) over the ports
(`TakePorts`), the row (`Claim`) and the pointer (`Publish`) to `ClosePersistence`,
`RemovePointer` and its end; it may crash anywhere and may lose the ports while it lives
(`LosePorts`). `writing` is SQLite's writer lock: `BeginWrite` checks the row inside it, for the
daemon and for the hooks it spawned, and `Commit` or `Rollback` end it. `AskStatus`, `SendRequest`
and `Handle` are `nativeRequest()` in a command. **FencedStore** is the abstract
single-writer store; `WritesAreFenced` says that NativeOwner implements it with the row's epoch.
The failing branch of `assertRow()` has no action: while a daemon has the store open the row
cannot name another, which is what `OneOwner` proves. Pointers older than the row, and a
project directory that moves, are left out; NativeDelivery's daemons, one after another, are
the daemons of this module.

**SocketLock** models the attempts on one path: candidate ports bound in order, a busy port
probed, the same lock makes the attempt start over, anything else is passed by. `blind`
records why an attempt may have missed another. **CliSubmissions** models one submission at
the grain of system calls: temporary file, link, unlink, directory sync, the check of the
link count, the reader's repair, and power failures that undo unsynced links.

**AppMail** models one App session: dispatchers that follow one another on a lease row, the
intent saved before the App's queue is asked, the answer saved over exactly that intent, `Noted`
acknowledgements, enrolments that end and begin anew, and the collection that deletes old
messages with their reads in planned batches.

**RunSession** models `hcc run` for one peer, plain and bridged, and the web runtime that
adopts and clears away bridged sessions. A bridge publishes the buffer group and the row in one
step under the directory's lease; each later change of files or row is a step.
`ProcessState` and `Aggregate` are the evidence: a process that lives but whose identity is not
known is `unknown`, and an inspection may always fail. `lost` marks wrappers that were killed
or could not get the directory's lease, for which the code keeps no record.

**DshInbox** models the inbox of one dsh Agent and the hooks that call it. The small operators
on the plugin's record (`Adopted`, `BlockedFor`, `Acked`, `Cleared`) are the functions of the
same purpose in `dsh-inbox.mjs`; since a handler throws where its database or authority
fails, an action ends at whichever of these steps the code can end. `Poll` and `Steer` queue a copy,
`Takes` is the `claimed` hook, `AskHooks` the `await next()` of the pre-step hook, `StepRefused`,
`StepWithWake`, `StepWithContext` the three ways of `step()`, `Committed` is `commit()`, `EndTurn` the
idle hook, `Unload` and `Load` are `dispose()` and a new plugin. The Harness (what it takes, alters,
refuses, commits) is external, as is the user. The plugin may be unloaded at any moment, also while its
pre-step hook awaits the others: the hook then comes back as `StepOfUnloaded`. `shown`, `lastTaken` and
`dropped` are histories. A poll interval of 0 only removes actions.

**MCParts** puts six of these modules side by side in one run. They share no variable; `part`
says which one moves in a behaviour, so the states are the sum of theirs and not the product.
**MCWorkers** does the same with the two modules whose liveness is checked. The part that does not move
stays in its initial state, in which nothing that is owed fairness is enabled, so the fairness of
both can be assumed.

## Runs

| Run | Question | Bounds and why they suffice |
| --- | --- | --- |
| `leases_commands` | Is an owner with a live process, or a lease that runs, ever displaced; does a heartbeat leave its peer without a lapsed lease? | two mixes of work (MCLeasesMix): one with acquisitions and collections while processes die and register anew, one with every kind of renewal beside a rival's acquisitions, and a backward step of the clock; two peers, the whole lock and one scope, three commands: the shortest race needs a probe, a registration and a grant |
| `leases_jump` | Does an owner overtaken by a clock jump get its grace; are protected owners kept by the command line? | one jump forward past a lease of two ticks, a clock of five, a grace of two, three commands (one takes the lease, one observes the jump, one comes back) reading the clock before or after |
| `leases_overlap` | Do conflicting leases exclude each other? *(violated)* | as above, without jumps |
| `leases_web` | Does the web keep protected owners' leases? *(violated)* | as above |
| `task_board` | Does a task leave its owner otherwise than openly, a sweep or takeover hit a peer that is back or asleep, a turn get filed twice or under another task? | two peers and two tasks, three or four commands, two sweeps, one jump, a clock of three with limits of one and a grace of two: a takeover needs a create, a claim, a probe and a return of the owner |
| `task_impatience` | The grace of sleepers when `--stale-after` is below 120 s *(violated)* | one task, limits of one and two, a jump and one observer between the two |
| `project_parts` | The properties of NativeOwner, SocketLock, CliSubmissions, AppMail, RunSession and DshInbox | three daemons with a hook and a command (the third starts while the first ends and the second claims); three contenders, two ports, a stranger; a first command, two retries, a lister, a power failure; two messages, dispatchers and enrolments, a collection in batches of one; two bridges and a plain wrapper; three messages, one of them the Agent's own, two shown at once, two copies, one reload |
| `dsh_fresh_mail` | May a message that was never sent always wake an Agent at rest? *(violated)* | two messages, one shown at once |
| `dsh_reload_replay` | Is a batch that was committed during a reload never sent again? *(violated)* | one message shown at once, two copies, two reloads |
| `mail_collected` | Can a notice that holds back the rest always be acknowledged? *(violated)* | one dispatcher, one collection |
| `delivery_and_lease` | Native delivery: is anything sent or answered twice, a queued message forgotten; does it implement the promise? Control lease: can two clients write in one epoch, is a present holder ever expired, does an abandoned lease end? | two messages (one at work, one waiting), one submission, two daemons, two workers, one deletion; three clients (holder, claimer, bystander), epochs up to four, which is reached, a grace of two ticks and a clock that passes it |
| `native_interrupted` | The same liveness for a Claude worker *(violated)* | one daemon, one worker, two messages |

What they show:

* `leases_commands`, `leases_jump` - the second capture inside the transaction is
  what makes probing outside safe; the merge of pending gaps is what makes the grace
  independent of the order of observers; the exact-row test is what makes a planned
  collection safe. `RunningLeaseIsKept` holds as long as the clock has not stepped back.
* `leases_overlap` (finding) - `lockRenew` asks only who owns the row. A whole-resource
  lease that has expired, and beside which a scope was granted to another peer, is
  revived by its owner's renewal; the help text says the two conflict.
* `leases_web` (finding) - `webPeerLockAcquire` lacks the clause with which the command line keeps
  an expired lease whose owner's process exists but cannot be compared.
* `delivery_and_lease` - the promise of native delivery holds although `updateDelivery()` asks
  nothing about the row it overwrites: the guards are in the worker object. Of a web session, a
  client's writes carry its epoch, and no two clients ever share one; the expiry timer, however it is
  scheduled, neither takes control from somebody connected nor, below the largest epoch, is lost. The
  liveness of the lease assumes that a due timer fires and that time passes.
* `native_interrupted` (finding) - the Claude adapter rests in status `interrupted`, which `poll()`
  does not dispatch from; the peer is shown idle and its queue stands still.

* `task_board` - a task leaves its owner by a takeover or by force and by nothing else; what a
  takeover or sweep found out before its transaction is still true in it, because the row is
  compared there; a peer whose limit went by while the machine slept keeps its grace from
  every one that observes the clock after it. Each kind of decision has its own limit. The takeover's
  holds because `--stale-after` is not below the 120 s of unknown evidence (the default is 600), the
  collector's because `--older-than` is not; the help allows smaller ones. Both hold for one jump of
  the clock where a runtime polls; what two do is described below.
* `task_impatience` (finding) - the clock is asked about `last_seen + --stale-after`, the policy
  judges by the larger of that and 120 s. With a smaller `--stale-after` a jump past the larger
  limit alone opens no grace, and the sleeper is taken over at once.
* `project_parts` - the owner row alone keeps daemons apart: neither losing the ports nor a
  pointer not yet written lets two of them in. The lock on ports is exclusive except through a
  port that changed hands behind an attempt (`LockIsExclusive` names the ways; with the code's four
  ports and no stranger it takes a third contender that gives up between the failed bind and the
  probe). The journal shows no reader an invalid record and no power failure unrecords a send; a
  retry with the id seen before the first command has synced is the exception
  `SendIsOnRecord` makes. A message is announced to the App at most once, one at a time. Two
  wrappers never hold one peer, and a child that would not stop keeps the peer taken. What a dsh
  Agent's plugin acknowledges was committed as it was made, and a batch whose wake was taken or thrown
  away is not sent again by itself, also over a reload. `NotSentAgain` leaves out what comes after
  another copy, since only the last batch is remembered, and a batch that an unloaded plugin took from
  its successor (`dropped`), which is the next run's.
* `dsh_reload_replay` (finding) - if the plugin is unloaded while its pre-step hook awaits the others,
  `step()` of the dead plugin still adopts what `dispose()` had handed on, and throws after. The next
  plugin finds nothing handed on, neither waits for that batch nor blocks it, and sends it again,
  although the Agent may have been shown it meanwhile: `docs/app-bridge.md:30` says that ambiguous commits
  across a reload gap are not replayed. In the run the copy is committed after the dead plugin's
  step; with one more reload it may as well be committed before.
* `dsh_fresh_mail` (finding) - a given-up batch is recognized by the ids of the oldest five unread
  messages. While five of others stay unread they are the batch for ever, and no new message
  wakes the idle Agent, against what the comment in `idle()` and the guide say.
* `mail_collected` (finding) - history collection deletes a message by age even while its notice
  blocks later ones; acknowledging needs the message, so the session's mail stands still.

Things that were seen while modelling and that no run states. A jump that the web runtime reports
starts its gap at the runtime's own last probe and replaces the comparison with the last observation in
the database (`clock-safety.mjs:191-199`). After a restart, or after a poll that failed once its probe had
moved on (`liveness-reaper.mjs:137`), that probe may be later than a sleep nobody has observed yet; a
second sleep of more than 60 s then makes a gap that hides the first one, no grace begins, and a peer is
marked exited on waking. A mix of TaskBoard with two jumps, two polls and nothing else violates
`SleeperIsNotReaped` so: with limits, grace and gap threshold of 4 and a drift threshold of 2 (a tick of half a
minute), a sleep from 5 to 10, a restart, a sleep to 13, and the poll after it takes the row, owed its
grace until 14. It takes a project the runtime only polls; the one it was started in is swept every
five seconds without a reported jump. A wake that `dispose()` could not take back, that was claimed before the next plugin
came, and adopted by it while the Agent runs, stays outstanding, so nothing wakes the Agent until the
next reload. `docs/commands.md:214` calls `any`
the default takeover policy; `task.mjs` passes `blocked-or-stale`. A dispatch asks whether
its target is busy and then awaits the web runtime before it types. Closing a dispatcher while
cooperation is disabled leaves the lease row with the live process in it, so enabling it again
reports a conflict until that process restarts. A plain `hcc run` does not look at the buffer
files: after a bridge was killed with its child alive a plain run starts where a bridge is
refused. A provider's definitive refusal of a
prompt becomes `uncertain` for Codex and Claude, because their adapters report an error event
before `send()` throws, and `failed` for dsh. And when saving the worker fails at the end
of `record()`, the state.db transaction is rolled back after `worker.active` has been
cleared, so `closeWorker()` does not mark the row: it stays in flight until the daemon restarts.

Deadlock is checked except in the runs of Leases, TaskBoard, MCParts and DshInbox, whose commands, daemons,
messages and clock are bounded, so that they really come to an end. Counters are capped by constants named `Max...`.

## Fairness

`ControlLease!LeaseFairness`: the timer fires once it is due and the clock goes on; both are what
`setTimeout` gives. `NativeDelivery!Fairness`: the poll timer keeps running
(`setInterval`, 300 ms), a request is answered or times out, and a provider finishes a turn
it has begun. The last is an assumption about providers, made only to ask whether *HCC* then
goes on. Nothing is assumed of users, other programs, crashes or restarts. The other modules
state no liveness: their commands end when their caller gives up, and what they promise is
safety.

## Proofs

| Module | Theorem | States |
| --- | --- | --- |
| ControlLeaseProofs | `TypeCorrect`, `Fencing`, `HolderStays`, `ExpiryIsNeverLost` | every safety property of ControlLease, and that below the largest epoch an abandoned lease has its timer set (`AbandonedLeaseIsTimed`), for any clients, grace and epoch bound |
| ClockSafetyProofs | `GraceNeverShortens`, `PendingGapIsKept` | an observation never moves the grace back and forgets no boundary of a pending gap it may not clear |
| LeasesProofs | `TypeCorrect`, `LiveOwnerKept`, `ProtectedOwnerKept`, `RunningLeaseKept`, `HeartbeatCovers`, `OvertakenOwnerGetsGrace` | every property of `leases_commands` and `leases_jump`, for any peers, scopes, terms and bounds |
| NativeDeliveryProofs | `TypeCorrect`, `NeverSentTwice`, `OneTurn`, `ReceiptsAgree`, `Authority`, `SettledStays`, `Implements` | every safety property of NativeDelivery, that a settled row stays (`SettledIsFinal`), and the refinement, for any number of messages, submissions, restarts and any provider |
| PartsProofs | `OwnerTypeCorrect`, `OneOwner`, `WritesFollowEpochs`, `RequestsReachTheChecked` | NativeOwner: one open store, the refinement of FencedStore, and bound requests, for any daemons, hooks and commands |
| | `LockTypeCorrect`, `OneHolder` | SocketLock: exclusion, for any processes, ports and strangers |
| | `JournalTypeCorrect`, `EveryRecordIsRead`, `SentIsOnRecord` | CliSubmissions: readable records, and sends that survive, for any commands and power failures |
| | `EachKeepsItsPromises`, `PartsTypeCorrect` | a behaviour of the six parts side by side is one of each part, so that what is proved of a part holds in `project_parts` |
| MailProofs | `MailTypeCorrect`, `NeverTwice`, `NoFlood`, `PlansAreKept` | AppMail: announcing once and one at a time, and planned deletion, for any bounds |
| | `InboxTypeCorrect`, `OnlyShownIsAcked`, `BatchesAreSentOnce` | DshInbox: acknowledging only what was shown, and no second sending of a batch given up, whenever the plugin is unloaded, for any bounds |
| RunSessionProofs | `RunTypeCorrect`, `OneAtATime`, `LiveChildrenCount`, `FilesAreKept`, `ExitsAreTrue` | every property of RunSession, for any wrappers |
| TaskBoardProofs | `TypeCorrect`, `TasksAreKept`, `TakenOnlyFromTheLost`, `ReapedOnlyTheLost`, `FiledOnceAsBegun`, `SleepersKeepTheirTasks`, `SleepersKeepTheirRows` | every property of `task_board`, for any peers, tasks, limits and mixes |

*Fencing* needs that the epoch of every past write is at most the current one and that the
current epoch's writes are the controller's. *LiveOwnerKept* needs that an observed command's
evidence was true of the registration it captured: since the process of a registration only
dies, evidence `dead` or `unknown` of the captured registration still excludes `live` when the
second capture finds the same registration. *RunningLeaseKept* needs that a command's reading
of the clock is not ahead of the clock as long as it has not stepped back.

The grace properties are about whole behaviours: something slept, and every observation after it, by
whomever and for whatever candidates, must not forget it. Both proofs rest on one notion, in
ClockSafetyProofs: a boundary is *covered* (`Covers`) if the grace is already granted, or nobody has
observed the clock past the boundary, or the pending gap contains it. The lemmas there say when an
observation keeps a boundary covered and when it opens the grace; they need that no reading falls
inside a jump (`Clear`), and that a span the runtime reports reaches back to the boundary (`Reaches`).
*OvertakenOwnerGetsGrace* adds to them that every reading still in use is of before or of after the jump
(`Overtaken`), and that a deletion planned while nothing was known of the owner was planned after the
grace (`PlansWait`). `SleepInv` of TaskBoardProofs has the same for
sleeps: no reading is of the future or of a sleep (`Readings`), every boundary in a sleep is covered
(`SleepsCovered`), a reported span reaches back over the sleep (`ProbesReach`), and a takeover or sweep
that has judged was granted the grace of the rows it read (`TakeoversKnow`, `SweepsKnow`), which still
say what they said unless the peer came back (`ReadHolds`).

NativeDeliveryProofs has one inductive invariant, `IInv`. None of the properties is inductive
alone: *NeverSentTwice* needs that a message whose row is queued or missing was never sent;
*OneTurn* that a running turn is the active message's, or its worker is quarantined or
closing; *SettledStays* that the active message's row is in flight; *ReceiptsAgree* that
an answered message's turn is over; *Authority* that rows and intents are only of messages
already written. The argument goes by way of two step lemmas about a single message: `RowMoves` (how its
row may move in a step) and `RowEvents` (when it may be sent, run or be answered). *Implements*
reads the same two lemmas through the refinement mapping.

*OneOwner* needs no port and no pointer: a daemon in a stage that writes has the row active
under its generation (`OpenOwns`), so does whoever is inside the writer lock (`WriterOwns`), and
the row changes only inside that lock. The step simulation behind *WritesFollowEpochs* follows
from the same two. *NeverTwice* needs that a message is handed over only behind an intent that
was there first and is never blank again (`IntentFirst`); *NoFlood* that at most one record blocks
at all, acknowledged or not (`OneOpen`), since `Noted` runs in the transaction that selects the
next. *OnlyShownIsAcked* carries the receipts along: each is of a copy that was committed as it was
made, and every operator of a handler keeps that (`Honest`). *BatchesAreSentOnce* needs more of the
same plugin (`InboxSound`), and that it either still holds the batch taken or thrown away last, and nothing
else, or holds only what is queued again and remembers that batch, or knows it was shown, or that an
unloaded plugin has dropped it (`InboxCalm`). *OneHolder* needs that an attempt nothing has misled finds every port it left behind
its own or a stranger's (`BehindIsSettled`); *SentIsOnRecord* that what was synced stays, and that the
first command goes on only from there (`Kept`, `FirstIsSafe`). *OneAtATime* needs that a wrapper in session is named by a running row (`SessionNamed`)
and that a row once read as dead stays dead (`SeenIsDead`); that the web runtime does not close
such a row rests on `ViewIsHeld`: the session it remembers has its files as long as its child
lives. *TakenOnlyFromTheLost* and *ReapedOnlyTheLost* have the argument of *LiveOwnerKept* in
common (`Holds`): of the process a row names, a probe stays true until it dies. *FiledOnceAsBegun*
needs that a binding names a turn that was begun under its task (`ScopesAreTurns`).

The assumptions are those named in the modules (`LeasesAssumption` and so on): constants are
natural numbers, sets are disjoint from their null values. Three theorems assume more, each
because the property is false without it:

* *OvertakenOwnerGetsGrace* assumes that the clock does not step back (`MaxBackward = 0`). After a
  backward step within the tolerance the last observation lies in the future, a jump from there is
  measured short, and a lease is taken without grace. The runs that check it have no backward step.
* *SleepersKeepTheirTasks* and *SleepersKeepTheirRows* assume `StaleAfter` respectively `Retention` of at
  least `UnknownGrace` (`task_impatience`), and that in a behaviour where a runtime polls the machine
  sleeps once (`OneJump`; the second sleep described above). Behaviours without polls may have any number of sleeps.

Only model-checked are the two liveness properties, `AbandonedLeaseEnds` and `QueuedIsDispatched`:
liveness under fairness is out of the prover's reach, and of the first *ExpiryIsNeverLost* is the
safety half.

## Plan

1. *Done*: ControlLease, ClockSafety, Leases, NativeDelivery with the promise it implements, and their proofs.
2. *Done*: NativeOwner with FencedStore, SocketLock, CliSubmissions, AppMail, RunSession, TaskBoard, DshInbox, and
   their proofs; every safety property of a passing run is a theorem.
3. Next: interactions (limits, answers after
   the turn); buffer collection; forks and operator interruption in NativeDelivery.
4. Proofs: theorems for those modules.

## Not modelled

tmux control and the sessions the web runtime starts itself, HTTP routing, authentication and
TLS, the browser interface, installation, shims, MCP, migration and parsing: operating-system
I/O, rendering, or sequential code whose steps no other process sees. Of the repository's
68,000 lines, about a sixth is `scripts/regression.mjs`, the regression suite, and a further large part is the
interface, its texts and installers; the share of the code that coordinates processes is small, and
the map names what is modelled of it. PROJECT.json lists every component with its reason, and the
hazards with the properties that cover them or the reason why none does.
