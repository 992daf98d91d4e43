# TLA+ models of AigcForge's core

These modules specify the part of AigcForge that decides whether a user's input
is answered exactly once (the durable event log, the inbox of a Session, the
coordinator that gives a Session one drain at a time, the drain, its provider
turns and the context they show the model), and what a turn sets in motion:
permission asks, MCP servers, delegations and their background jobs, Workflow
runs, scheduled jobs and reminders. The code is TypeScript on the Effect runtime,
in `src/packages/core/src`; paths below are relative to that directory.
`PROJECT.json` maps every definition to the lines it stands for.

Effect fibers are cooperative: a fiber runs until it yields, so a stretch of
code without a yield, and a database transaction, are each one step of a model.

## 1. Inventory

AigcForge is a monorepo. `packages/core` holds the domain; `packages/aigcfroge`
is the command line, server process and the older (V1) engine; `server` the HTTP
API, `llm` the provider abstraction; `app`, `tui`, `desktop`, `ui`,
`session-ui` and `storybook` the front ends; `sdk` and `plugin` the extension
points; the rest is infrastructure and vendored code. Components of `core` with
logic of their own:

| Component | State | Operations | Hard because | Correct when |
|---|---|---|---|---|
| Event log, `event.ts` | `event`, `event_sequence` rows; in-memory wake signals of durable tails | publish, publishBatch, replay, replayAll, claim, remove, durable | several writers, replays, ownership changes, coalesced wakes, crashes | history is gapless, immutable, fenced, atomic per batch; tails see each event once and eventually |
| Inbox, `session/input.ts`, `session/projector.ts` | `session_input`, `session_message` rows | admit, admitShell, admitSkill, admitCommand, admitSynthetic, promoteSteers, promoteNextQueued, ... | clients race and retry, promotion works on a snapshot, replays promote too | receipts are honest, rows are written once, visible exactly when promoted, in order |
| Run coordinator, `session/run-coordinator.ts`, `session/execution/local.ts` | `active` map of entries; Deferreds and fibers | run, wake, interrupt; the owner fiber | a wake, an interrupt and a settlement in every order; waiters of entries that are replaced | one drain at a time, no wake lost, waiters return, idle is published |
| Runner, `session/runner/llm.ts` | loop variables of one drain; Session rows | run, runTurn, promotion, drainShell | inputs arrive between two checks; compaction and overflow restart a turn; failures, interrupts | no input is stranded, no idle request, queue discipline, step limit |
| Turn publisher and projection, `session/runner/publish-llm-event.ts`, `session/message-updater.ts` | one assistant message, its tool states | stream events, tool settlement, failures | tool fibers against the end of the turn | no tool is left running or settled twice |
| Session service, `session.ts` | Session rows | prompt, shell, skill, command, injectSynthetic, resume, interrupt, remove | admission and wake are two steps | every fresh admission wakes |
| Compaction, `session/compaction.ts`; history, `session/history.ts` | compaction messages; stuck counters per Location | compactIfNeeded, compactAfterOverflow, entriesForRunner | a summary is computed while the history grows | what is neither summarised nor retained does not exist |
| Context epochs, `session/context-epoch.ts`, `system-context/` | epoch rows with revisions | prepare, reconcile, replace | revision races | one baseline, refreshed at safe boundaries |
| Delegation, `delegation/` | event-sourced delegations, deliveries | create, appendTurn, recordDelivery, retry, close, reconcile | restart with unknown side effects, retries | each delivery settles once; recovery is explicit |
| Workflow runs, `workflow/` | run and step rows with revisions | dispatchStep, startStep, settleStep, retryStep, recoverRunning, cancelRun | compare-and-set on two rows, restart, cancellation | a step runs at most once per attempt; terminal runs are immutable |
| Background jobs, `background-job.ts` | process-local jobs | start, extend, promote, cancel, settle | several runs of one job | one terminal status, `done` completes once |
| Permissions, grants, `permission.ts`, `permission/`, `grant/store.ts` | pending asks, saved rules, scoped grants | assert, reply, grant, expire, consume | timeouts against replies, cascades | one outcome per ask, announced once, by an answer of its own |
| Work jobs, `session/scheduled-job.ts` over `session/schedule-core.ts` | task rows; an in-memory queue | arm, tick, recover; pause, resume, remove, edit | the queue is older than the table; crash between claim and settlement | nothing starts unasked, nor early or before what it depends on by what the trigger has read; nothing is left in progress; nothing due is stranded |
| Reminders, `session/schedule-service.ts` over the same | schedule and delivery rows | create, update, cancel, deliver, recover | failing deliveries against updates | exactly one delivery, bounded retry |
| MCP connections, `mcp/connection.ts` | connection map, health | connect, disconnect, callTool, shutdown | connect, disconnect and the kill switch interleave | no orphaned process, health follows its machine |
| Tools, catalog, composition | registries | lookups, resolution | little concurrency | data transformations |

How they interact: `session.ts` admits an input (`session/input.ts`), which
publishes an event (`event.ts`), whose projector writes the inbox row in the same
transaction; then it wakes the Session's execution (`session/execution/local.ts`),
i.e. the coordinator, which forks the drain (`session/runner/llm.ts`). The drain
promotes inputs by publishing events, whose projectors mark the row and append
the visible message. Clients follow the Session through durable tails of the
log. Other processes' events arrive by replay. The V1 engine writes some of the
same events (`aigcfroge/src/session/prompt.ts`). A drain's turn prepares its
context (`session/context-epoch.ts`), streams, and forks a fiber per local tool.
A tool asks for permission (`permission.ts`), calls an MCP server
(`mcp/connection.ts`), or delegates (`tool/task.ts`): the delegation's turns run in
child Sessions, as background jobs. A Workflow's owner (`workflow/`) is a
coordinator like the Session's and runs its steps in child Sessions. The two
daemons of `schedule-core.ts` start jobs and fill the inbox of reminders.

The hazards, each at its line with the properties that cover it or the reason
why none does, are listed in `PROJECT.json`.

## 2. Modules

| Module | Models | Composes |
|---|---|---|
| `DrainGate` | what the coordinator promises about one Session: idle, serving, closing, and one owed follow-up | |
| `RunCoordinator` | `session/run-coordinator.ts`, `session/execution/local.ts` for one key | implements `DrainGate` |
| `RunCoordinator_proofs` | its theorems | |
| `DurableLog` | what the event log promises: one history per aggregate that grows at its end, at most one owner | |
| `EventLog` | `event.ts`, `event/sql.ts` | implements `DurableLog` |
| `EventLog_proofs` | its theorems | |
| `SessionInbox` | `session/input.ts`, its projectors, the admissions of `session.ts` | |
| `SessionInbox_proofs` | its theorems | |
| `SessionRunner` | `SessionRunner.run` with admissions, wakes and the gate | instantiates `DrainGate` |
| `SessionRunner_proofs` | its theorems | |
| `ProviderTurn` | `runTurnAttempt`, `session/runner/publish-llm-event.ts`, tool states of `session/message-updater.ts` | |
| `SystemContext` | the algebra of `system-context/index.ts` | |
| `ContextEpoch` | `session/context-epoch.ts`, history selection, moves | instantiates `SystemContext` |
| `Turns_proofs` | theorems about `ProviderTurn` and `ContextEpoch` | extends the one, instantiates the other |
| `PermissionAsk` | `permission.ts`, `permission/saved.ts`, `grant/store.ts` | |
| `McpConnection` | `mcp/connection.ts` for one server | |
| `Tools_proofs` | theorems about `PermissionAsk` and `McpConnection` | extends the one, instantiates the other |
| `BackgroundJob` | `background-job.ts` for one id | |
| `DelegationFold` | `delegation/fold.ts`, `delegation/review.ts`, `delegation/state.ts` | |
| `DelegationLedger` | `delegation/service.ts`, the scan of `delegation/recovery.ts` | extends `DelegationFold` |
| `DelegationExecution` | `delegation/execution.ts`, the delegated part of `tool/task.ts` | extends `DelegationFold` |
| `Delegations_proofs` | theorems about `BackgroundJob`, `DelegationLedger`, `DelegationExecution` | extends the first, instantiates the others |
| `WorkflowGraph` | step graphs and the frontier's closures | |
| `WorkflowRun` | `workflow/`, the run handlers of the HTTP API | extends `WorkflowGraph` |
| `SchedulerCore` | `session/schedule-core.ts` | |
| `JobScheduler` | `session/scheduled-job.ts` | extends `SchedulerCore` |
| `Reminder` | `session/schedule-service.ts`, the reminder tools | extends `SchedulerCore` |
| `Work_proofs` | theorems about `JobScheduler`, `Reminder`, `WorkflowRun` | extends the first, instantiates the others |
| `MCRunCoordinator`, `MCEventLog`, `MCSessionInbox`, `MCSessionRunner` | the same with TLC's symmetry sets | |
| `MCTurns`, `MCTools`, `MCDelegations`, `MCWorkflows`, `MCSchedules` | several instances of related modules, see Runs | |

`SessionRunner` relies on the other three instead of repeating them: the gate it
instantiates is the one `RunCoordinator` implements, an event with its projection
is one step because `EventLog` shows a commit to be atomic, and the inbox is
reduced to "pending" because `SessionInbox` shows that pending rows, visible
messages and the order of promotion agree.

### RunCoordinator

`active` is `active.get(key)`. `entry[e]` holds an Entry's `pendingWake` and
`stopping` and the state of the fiber in `owner`; `caller` is where each call of
`run` waits (`join`: on `done`; `afterStop`: on the `done` of an entry that is
stopping, to run again); `stopper` is each `interrupt` that awaits the fiber;
`status` is the last status `onStatus` published. `Run`, `Wake` and `Interrupt`
are the public operations, `SettleFollowUp`, `SettleHandOver`,
`SettlePublishIdle` the branches of `settle`, `Close` the sync in its
`Effect.ensuring`. An interrupt sets a flag that the fiber honours at its next
interruptible point; publications are not interruptible. The ids of finished
entries are reused, so the number of entries bounds only how many are referenced
at a time. The drain is one step with any Exit.

### EventLog

`seq` and `owner` are the rows of `event_sequence`, `events` those of `event`. A
publisher's transaction is open over several steps because projectors run inside
it; the SQLite connection has one permit, so nobody else's statement runs
meanwhile (`DatabaseFree`). Replays, reads, claims and removals are one statement
or transaction. The wakes after a commit are separate steps, one per event. A
follower is one `durable` stream: `cursor` is `sequence`, `dirty` its one-slot
signal, `seen` a history of what it has read. `Crash` keeps the tables only. The
history of an aggregate in `DurableLog` is its rows by sequence (`History`): what
a transaction has staged is not there yet, and the wakes, reads and crashes of
`EventLog` leave it alone.

### SessionInbox

`inbox` and `message` are the rows of `session_input` and `session_message` (the
latter reduced to their sequence). An admission is `Find`, `Publish`, `Recover`:
look up, publish, look up again when the projector died with LifecycleConflict.
`admitWithSelection` publishes in a batch and does not look again. The drain
promotes in stages, `Steers` in the order of `runTurnAttempt`, a queued prompt
before them at an idle boundary, shell inputs on their own; between the selection
and the publication of a row, replays (`PromotedElsewhere`) and clients act.
Messages that no input stands behind (`OtherMessage`) are assumed to have ids of
their own: `insertMessage` (`projector.ts:198-214`) does not look at `session_input`,
and the ids are generated.

### SessionRunner

`state` and `owed` are the gate's. `pending`, `unanswered` and `waking` are sets
of inputs; `drain` is the loop's position and its variables (`promotion`, `step`,
`force`, `open` for `needsContinuation`). Two history variables of the drain,
`turns` and `queued`, and the history variable `excused` serve the properties:
`excused` holds the inputs that the code, by design, leaves until something asks
again, i.e. those admitted with `resume: false`, those whose wake an interrupt of
`injectSynthetic` lost, those an interrupt, a failure or a crash cut off, and
those another process has promoted.

### ProviderTurn

`turn` is the drain's place in `runTurnAttempt` with the attempt's local
variables; `tool[c]` is the publisher's entry of a call, `fiber[c]` the fiber that
executes a local call, `state[c]` and `step` what `message-updater.ts` projects.
Stream events, the ends of tools, a dismissed question, failures of the provider,
overflow, interrupts and crashes come in every order. The publisher's semaphore
makes each publication one step; text, reasoning and payloads are left out.
`outcome` is a history variable: how a call's execution really ended.

### SystemContext, ContextEpoch

`SystemContext` is the algebra (initialize, reconcile, replace) over one
observation: a function from sources to values, or unavailable. `ContextEpoch` has
the sources as they change (`world`), the Session's row (`location`), its events
as far as they matter to the history (`log`), the epoch row and the turn, whose
observation, insertion of a missing epoch, promotion, reconciliation, selection
of the history and request are separate steps. Between them sources come, go,
fail to load or change their version, the Session is moved, compacted, or the
process restarts. `revert` deletes no message the selection looks at and has no
action. A move between `prepare`'s read and its write makes the write die with
"Context Epoch not found" after an input was promoted: modelled as the drain's
failure.

### PermissionAsk

`pending` is the map of asks, `deferred[r]` an ask's Deferred, `lock` the
decisions semaphore, `pc` and `out` where a call of `assert` is and how it ended,
`client` each `reply` or `grant` with the requests it has yet to settle. The rules
of a Session are reduced to what decides an ask; whether a responder is present
is a free choice. A client announces what it has settled later, and an announcement
that dies takes the client's remaining ones with it. `asked`, `told`, `answered`
and `mute` are what clients have been told and what they said.

### McpConnection

`conns`, `health`, `routed` and `lock` are the maps and the lock of one server;
servers share only the kill switch (`enabled`). A connection is a wire with its
scope, its pipe and its own health. `op` are the fibers that connect and
disconnect, `call` the tool calls. Each await of `connect` (credential, spawn,
three handshake messages, registration) and of a call (credential, answer) is a
step boundary where interrupts, shutdowns, a dying child or another fiber act.
`CutSpawns` says whether an interrupt may arrive during the spawn itself. Closing a
server, i.e. removing its connection, failing its calls and closing its scope, is
one step (`connection.ts:704-713`).

### BackgroundJob

One id of the registry. Each update of the map is a step; the Deferreds,
scopes and forks that follow it (`owed`) are steps of their own, so a fork races
the closing of its scope, and a job the successor that takes its id. A run that
fails settles the job as an error, or as cancelled when its cause is an interrupt
only. `waiter` is the foreground caller, who waits for the end or the promotion.

### DelegationFold, DelegationLedger, DelegationExecution

`DelegationFold` is `foldDelegation`: the state, which events it accepts, what
each does. It folds one event into a state, the way the projector does inside the
transaction that appends the event. `DelegationLedger` has the operations of the
service: an operation that publishes several events holds the remaining ones in
`ops`, and the recovery scan is such an operation, with events decided on an
older state. `DelegationExecution` shows who runs a turn: the task tool
dispatches it, the drain acts on the ledger it read at its start, both through a
background job (`BackgroundJob` without its inner steps) whose id is the child
Session's. An outcome that the ledger refuses fails the job with the runs queued
behind it. After a restart the next process scans, marks what was running and
resumes only when told, or it does not scan: `recovery.ts:67` returns before the
marking unless `AIGCFROGE_EXPERIMENTAL_DELEGATION_RECOVERY` is set
(`flag/flag.ts:63-65`, off by default). `lost` holds the runs that a crash cut
off, each with whether a scan followed. The flag for persistent delegations itself
is assumed on; without it there are none. There is one participant in the
background.

### WorkflowGraph, WorkflowRun

The graph is a constant that satisfies `validateGraph`. `run` are the rows with
the revisions that their writers compare; a step of the model is one transaction
or one fiber's work between two. `owner` is the Session's owner fiber, `worker`
the fibers of its current batch, `canceller` a request that cancels, `owed` the
wakes that requests have yet to make, `begun` the attempts that were started.
`used` counts how often each kind of request and fault has happened, bounded by
`Limit`; one of the faults is a Task patch that dies after a step's settlement
(`workflow-runner.ts:683`) and takes the drain with it. The owner's coordinator is
reduced to "running, with one pending wake". The reads in front of a write that
compares the revision are merged with it, because a write in between makes the
comparison fail; `recoverRunning` compares none, so its commit is a step of its
own, after the decision to recover.

### SchedulerCore, JobScheduler, Reminder

`SchedulerCore` has the queue and the two fibers that rebuild it from the owner's
table: the minute cycle, which then triggers what is due row by row, and the
re-arm fiber. That fiber arms once per update event; since events only matter until
the arm that follows the last of them, they are one `signal`, which may outlive the
arm that answers it. A scan and its installation are two steps. A defect ends the
arm or the tick it strikes, with what was still to be triggered, and the fiber goes
on (`schedule-core.ts:126`). The owner passes in what a scan yields.

`JobScheduler` has the task rows as the scheduler, the `task_schedule` tool and the
task list's writers change them: `update` replaces the status, the schedule and the
dependencies of a row, whatever the scheduler is doing with it, unless that would
close a cycle. Time is what the code compares: a one-shot moment has come or not, a
cron match lies ahead or has come, and so has the moment of a schedule that was
replaced while a queue still holds it ("former", "past"). Any read or write of
the scheduler may die, also after it has written. `Reminder` has a clock of a few
moments, the last of which stands for all later ones; an update reads the row and
writes it later; the delivery transaction is one step that may fail as a whole, its
back-off two more.

History variables of jobs: `mine`, the rows in progress by the scheduler's claim;
`dropped`, those of them whose trigger has died; `asked`, what was last asked of a
row; `moved`, the rows whose schedule was replaced since the tick's scan; `since`,
the rows written since the trigger's reads. Of reminders: `fresh`, `tries`,
`overdue`.

## 3. Runs

| Run | Instance | States | Shows |
|---|---|---|---|
| `RunCoordinator` | 3 entries, 2 callers, 1 interrupter | 82,995 | everything about the coordinator, with liveness |
| `RunCoordinatorResume` | 2 entries, 1 caller, 1 interrupter | | a divergence, see below |
| `EventLog` | 2 aggregates, 4 ids, 2 owners, 1 publisher, 1 replayer, sequences to 2, batches of 2 | 221,923 | the stored log, which implements `DurableLog` |
| `EventLogTail` | 1 aggregate, 3 ids, 1 publisher, 1 replayer, 1 tail | 191,004 | durable tails, with liveness |
| `SessionInbox` | 2 ids, 2 clients, prompts and synthetics | 3.1 million | admission and promotion |
| `SessionInboxOrder` | 2 ids, 1 client | | a divergence, see below |
| `SessionRunner` | 2 inputs of any delivery, 2 steps | 59,749 | the drain in its environment, with liveness |
| `Turns` | `tools`: 2 local tools and a hosted one; `limited`: one of each and a step limit; `epoch`: 2 sources, one removable; `moved`: 1 source, 2 Locations, 2 values | 896,000 | provider turns and context epochs |
| `Tools` | `asks`: 2 requests of a Session; `sessions`: of 2 Sessions; `rivals`: 1 request, 2 clients; `child`, `http`: 2 managing fibers, 1 call, 2 connections; `calls`: a child, 1 fiber, 1 call; `posts`: the same over HTTP without a credential | 670,000 | permission asks and MCP servers |
| `Delegations` | `ledger`: 2 turns, 2 attempts, 1 operation in flight; `race`: 1 turn, 2 operations; `review`: a reviewer, 2 revisions; `settle`: an external reviewer; `execution`: 2 turns, 2 attempts, 1 restart with or without a scan; `drain`: 1 turn; `jobs`: 2 jobs of one id, 2 runs; `stopping`: 1 job, 3 runs, a foreground caller | 779,000 | delegations and background jobs |
| `Workflows` | fork and merge of 4 steps (`fork`: 2 submissions, kill switch, 2 step cancellations, a dying Task patch; `crashed`: crash, cancellations; `retried`: crash, retry of a run; `live`: cancellations, kill switch), `branch`: 5 steps, 2 submissions, a crash, a dying Task patch | 765,000 | Workflow runs |
| `Schedules` | `chain`: a job and its dependent, 1 write; `recurring`: a cron job, `edits`: a job that waits for a task others work on, each with 1 write, 1 death, 1 crash; `two`: 2 reminders; `updates`: 2 updates of one; `retries`: 2 failing deliveries, 1 crash; `defects`: a failing delivery, a death, a crash | 1.3 million | Work jobs and reminders |

Each of the last five runs checks the disjoint union of several instances: the
variable `instance` is chosen by `Init`, the variables of what is not chosen are
"off", and a property is the conjunction of what the component modules state for
each instance. The instances need different constants (a step limit or none, a
child or HTTP, one turn with two operations or two with one), and those in a union
share no state in the code, or are the same component under other constants, so
that nothing is lost by not interleaving them. Where components do share state
(the runner and its gate), they are composed in one module.

Why the bounds suffice. Coordinator: a settlement involves at most the entry
being settled and its successor; a third entry lets a waiter still refer to an
older one, and two callers let one join while another waits behind a stopping
entry. Event log: owner and sequence checks concern one aggregate, a second one
shows that batches and replays do not mix them up; three sequences give a first,
a next and a gap; the theorems cover every number. Tail: a wake matters relative
to one read, which two commits exhaust. Inbox: a race for an id needs two
clients, an order of promotion two ids; the kinds differ only in whether a row
promoted elsewhere is skipped (prompts) or kills the drain (the rest, of which
synthetic stands for all), and in their stage; shell inputs and the queue stage
share one selection rule and queued prompts exercise it. Runner: two inputs, one
served and one arriving at every point meanwhile; two steps give a turn that may
call tools and a last one. The safety properties of the runner also hold with
three inputs.

Provider turn: a turn treats its local tools alike; two let one publish while
the other is cut off, the hosted one has no fiber. Context: one removable source
and one that is not are the kinds there are; a compaction and a change need two
events. Asks: a reply cascades to the other requests of its Session and, if
"always", of its kind, which two requests in one and in two Sessions exhaust; the
decisions lock needs two clients. MCP: one connection, its replacement, and one
fiber that waits for the lock of the other. Delegation: a late report needs a
second attempt, a late operation a second one in flight, a completed turn a next
one. Jobs: three runs are one that works, one that queues and one that is forked
while the scope closes; two jobs let a late run meet its successor. Workflow: the
fork gives a batch, a retried step, a tolerated failure and a merge. Schedules: a
queue that is older than the table, a moment or a predecessor that changes under
the trigger and a settlement that meets another writer need one write, a claim that
is handed back one death or one crash.

Deadlock is checked for the coordinator, the inbox, the runner, `Turns` and
`Schedules`. In the event log's instances sequences and ids run out; in `Tools`,
`Delegations` and `Workflows` calls, turns and requests are used up and the system
rests.

Every property has a mutant, a defective variant of one definition that breaks
it; they are marked "Mutant" in the modules.

### Properties

Coordinator: `OneOwner`, `NoOrphan`, `QuietIsIdle`, `NoLostWake`,
`WaitersReturn`, and `GateFairSpec`, the refinement of `DrainGate` with its
fairness. Event log: `Contiguous`, `OwnerFence`, `AllOrNothing`,
`ImplementsLog` (the refinement of `DurableLog`, which says of histories what
`AppendOnly` says of rows),
`EmitsInOrder`, `TailCatchesUp`. Inbox: `VisibleIffPromoted`, `WrittenOnce`,
`NoOvertaking`, `HonestAnswers`. Runner: `NoStrandedInput`, `NoIdleRequest`,
`QueueOneAtATime`, `StepLimit`, `InputIsAnswered`. Each is stated in words above
its definition. The properties of the union runs say of every instance what its
component module states under the same name (`TurnEnds` and the other liveness
properties are put together in the `MC` modules):

| Property | Of | Parts |
|---|---|---|
| `ToolsAreHonest` | `ProviderTurn` | `ResultsBeforeRequest`, `HonestResult`, `NoStrayTool` |
| `ContextIsShown` | `ContextEpoch` | `ShownIsAdmitted`, `ShownIsCurrent`, `FreshAfterCompaction` |
| `TurnEnds` | `ProviderTurn` | `ClosesStep`, and that a turn ends |
| `AsksAreClosedOnce` | `PermissionAsk` | `OneClosure`, `GrantOwnsRequest`, `OwnAnswer`, `RejectInSession` |
| `ServersAreOwned` | `McpConnection` | `NoOrphan`, `FactsHonest` |
| `WaitsEnd` | both | `AsksEnd`, `AskedIsClosed`; `OpsEnd` of a child; `CallsEnd` of a child, and over HTTP without a credential |
| `CompletionIsTrue` | `DelegationLedger`, `DelegationExecution`, `BackgroundJob` | `CompletedWork`, `ApprovalIsCurrent`, `DispatchIsRecorded`, `RestartIsKnown`, `CompletedMeansAll`, `ErrorIsOwn`, `OneAtATime`, `DeliveredOnce` |
| `OutcomeFinal` | `DelegationLedger`, `DelegationExecution` | `KeepsOutcomes` |
| `WorkEnds` | `DelegationExecution`, `BackgroundJob` | `TurnSettles`, and that the work of an ended job stops and its caller is answered |
| `RunsAreHonest` | `WorkflowRun` | `HonestOutcome`, `NoOrphanStep`, `DependenciesFirst`, `EventsMatchRevision`, `NothingLost` and `TakenArmsOnly` where they hold |
| `DoneIsFinal` | `WorkflowRun` | `TerminalIsFinal`, `NoReplay` |
| `RunEnds` | `WorkflowRun` | `RunEnds`, without tolerated failures, crashes and dying Task patches |
| `HappensOnce` | `JobScheduler`, `Reminder` | `NoOrphan`; `ExactlyOnce`, `GivesUpLate` |
| `StartsAreAsked` | `JobScheduler` | `ClaimsAsAsked`, `ClaimsInTime`, `ClaimsUnblocked` |
| `DueEnds` | both | `DueIsTaken`, `DueIsSettled` |

### Divergences

`ResumeAfterCleanup` fails. The test "starts a resume registered during
interruption cleanup" (`packages/core/test/session-run-coordinator.test.ts:212`)
passes because its drain turns the interrupt into a success. With a drain that
ends interrupted, as the runner's does, the resume fails with the interrupted
Exit and nothing runs (`session/run-coordinator.ts:91`).

`SteersInAdmissionOrder` fails. `specs/v2/session.md:210` says "Inbox promotion
coalesces pending steers in durable admission order"; the code promotes kind by
kind (`session/runner/llm.ts:648-653`), in admission order only within a kind.

The newer modules also state what a doc or comment says and the code does not
keep. These properties have no run; each is a definition of its module, and TLC
finds the counterexample under the constants given (bounds that are not named
are those of the run's instances; liveness under the module's `FairSpec`).
ADR-18, ADR-22 and the plan are in `docs/architecture/adr` and `docs/plan`.

`ProviderTurn`
- `PersistsEveryResult` (`StepLimited`). On the last step the first tool call
  fails every unsettled tool (`llm.ts:780`), also one whose input is still
  streaming; its own call then makes it running again
  (`publish-llm-event.ts:318`) and nobody settles it before the next request.
  `specs/v2/session.md:245` says "persist every result". `ResultsBeforeRequest`
  is therefore checked without a step limit.

`ContextEpoch`
- `BaselineIsLocal` (2 Locations). The first epoch is inserted without looking at
  the Session's Location again (`context-epoch.ts:89`): a Session moved meanwhile
  gets the old Location's baseline, and the destination takes it over
  (`CONTEXT.md:133`, `specs/v2/schema-changelog.md:1055`).

`McpConnection`
- `NoOrphan` with `CutSpawns`. An interrupt during the spawn leaves the child in
  a scope nothing refers to (`connection.ts:843-867`; comment 421-426).
- `CallsEnd` with `Remote` and `Credentialed`. A remote request made after its
  connection was closed forks into the closed scope, and its Deferred is never
  completed (690; `specs/v2/schema-changelog.md:110`). `WaitsEnd` leaves this
  case, and the next, out.
- `DisconnectEnds` with `Remote`. `notifications/initialized` is awaited without a
  bound, under the lock (887; comment 955-956).
- `HealthIsOwn` (2 fibers, `Credentialed`). A call marks the connection that
  replaced its own as offline (758-768; comment 206).

`DelegationLedger`
- `AdmissionFence` (2 turns, 1 attempt, 1 operation). A delivery that fails after
  `close` takes the delegation from closing to failed, where turns are admitted
  again (`fold.ts:707`; ADR-22:191).
- `RecoveryEnds` (1 turn, 2 attempts, 1 operation). A delegation stays
  recovery_required after its retry has completed everything (`fold.ts:605`; plan
  `meta-agent-persistent-delegation-closed-loop.md:344`).

`DelegationExecution`
- `NoRerun` (1 turn, no crash). A drain with an old ledger runs a delivery again
  that the dispatch has completed (`execution.ts:159`; the plan, 387).
- `OneOwner` (1 turn, no crash). A drain woken between admission and dispatch
  prompts the turn, and so does the dispatch (`execution.ts:374`; comment
  `tool/task.ts:738`).
- `RetryRuns` (1 turn, 2 attempts, both outcomes). A failed participant stays
  failed and the drain skips it, so that a retried delivery never runs
  (`execution.ts:170`; the plan, 387).
- `NoSilentRerun` (2 turns, 1 crash), in two ways. Without the recovery flag, which
  is off by default, the next process marks nothing (`recovery.ts:67`,
  `flag/flag.ts:63-65`), and the first drain runs a delivery that was cut off again
  (`execution.ts:331-347`); ADR-22 (G9, 332) rules out a silent rerun of unknown side
  effects, and the plan (1863) says that without the flag no provider work is
  continued automatically. With it, the scan passes over approved delegations, whose
  running delivery is run again (`recovery.ts:56`). `RestartIsKnown` is what is left:
  after a scan, nothing that was cut off is run again unless the delegation was
  approved.
- With two turns, a dispatch that is dropped because a job the drain started with
  an old ledger is running can leave its turn admitted for ever; `TurnSettles` is
  therefore about one turn.

`WorkflowRun` (steps named by number; a fork is `Parallel[1] = {2, 3}`)
- `OnlyRequestedRuns` (2 submissions, 2 runs). The wake of a repeated submission
  creates and executes the Workflow once more (`workflow-runner.ts:425`;
  ADR-18:102).
- `ResultIsHandedOff` (one submission). A run that completes is not reported to
  the root Session by its drain (584; ADR-18:49).
- `RecoveryComesFirst` (a fork, a crash). A ready sibling is executed before the
  orphan is recovered (512; ADR-18:68).
- `CancelSkipsTheRest` (fork with a retried step, `cancelRun`). A retry inserted
  after `cancelRun` stays ready under a cancelled run (`workflow-run.ts:861`;
  ADR-18:70).
- `TakenArmsOnly` for two checks in a row that may both leave for step 4
  (`Arms = <<{2, 4}, {3, 4}, {}, {}>>`, no other edges). Step 4 is executed
  although neither chose it (497; ADR-18:124).
- `OwnedRunEnds`. After a crash with two steps running, the retry of one inherits
  the other as execution_unknown and can never complete (1044; a fork, 2 runs, one
  retry). A run left cancelling by a dead canceller, with a tolerated failure, is
  refused by every later drain (`workflow-runner.ts:531`; a fork with
  `Policy[2] = "continue"`, a crash, a cancellation). After a Task patch that dies
  (683), the run stays running until something wakes its Session.
- `RunEnds` with a cancelled step and a tolerated failure before a merge: refused
  as a partial success, the run stays running (536; ADR-18:89). The run checks
  `RunEnds` without toleration.

`JobScheduler`
- `StartsWhenDue` (`edits`). A job that is put off between the scan and the claim
  starts at its old moment: `update` moves `scheduledAt` of a waiting row
  (`session/task.ts:549`), the claim compares only the status
  (`scheduled-job.ts:120-122`; comment 218-220: a new schedule "takes effect
  immediately"). `ClaimsInTime` is what is left: the moment has come unless the
  schedule was replaced since the scan.
- `StartsUnblocked` (`chain`). A job that is given a predecessor, or whose
  predecessor is taken up again, between the gate and the claim starts before it
  (`task.ts:552`; comment `scheduled-job.ts:95-96`). `ClaimsUnblocked` is what is left.
- `RecurringRuns` (one cron job, no writes). Every cycle re-arms a cron job to a
  match strictly ahead just before it looks for what is due
  (`schedule-core.ts:70`, 116-126; comments 109-112 and `scheduled-job.ts:23`).
- `PauseIsKept` (one cron job, one write). The settlement overwrites a pause that
  came while the job ran (`scheduled-job.ts:153`; comment 218-220).

`Reminder`
- `NeverEarly` (`MaxTime = 3`). A reminder put off after the cycle has armed is
  delivered at its old time (`schedule-service.ts:544`; `reminder-create.ts:127`).
- `FreshTimeline` (one fault). A reminder put off while a delivery fails inherits
  the back-off (632; comment 137-138).
- `CatchUpIsMarked` (one fault, one crash). A failed first delivery loses the
  catch-up mark (557; comment 664-667).
- `KeyIsOwn` (2 editors, 2 contents). Two updates leave a key that is of neither
  (`reminder-update.ts:97`; comment `schedule-service.ts:286-288`).

Observed while modelling, with no statement of the repository to the contrary:
cancelling a terminal run interrupts the Session's owner although it may be
working on another; a retried run inherits "skipped" from steps an abort kept
from starting; a branch step may give up the step its own `next` names; a job
that depends on a recurring one is never released, and a failed recurring job is
not re-armed; the startup recovery overwrites a pause made between its scan and
its patch; `connect` returns ready although a shutdown
between tools/list and registration has removed the connection; tool calls have
no timeout.

### Fairness

The Effect scheduler runs every fiber that can run, which justifies weak fairness
on the steps of owner fibers, waiters that have been resumed, publishers after
their commit, and the uninterruptible stretch between an admission and its wake.
It also assumes that drains end: neither the coordinator nor the provider turn
has a timeout (`specs/v2/session.md:190`), so a provider that never ends its
stream keeps a Session busy, and no liveness property says otherwise. Reads of a
tail have strong fairness because they wait for the database permit, whose
semaphore is first come, first served. Clients, interrupts, failures,
compactions, replays and crashes are never fair. `WaitersReturn` therefore needs
calls to stop, and `InputIsAnswered` excuses what a failure, an interrupt or a
crash cut off, and clients whose retries keep starting drains that fail.

In the union runs fairness is stated for the instances a liveness property is
about, as the component's `FairSpec` states it, restricted to the fibers the
property needs. `TurnEnds`: the turn's own fiber and its tools'; streams and tools
end. `WaitsEnd`: fibers that can run do; a parked ask has a timeout, so its step
is enabled without any client; the two semaphores (decisions, `connectLock`) are
first come, first served, hence strong fairness of the one that waits; the
handshake is bounded in time; servers answer calls. It is about asks, a child's
connects, disconnects and calls, and calls over HTTP without a credential.
`WorkEnds`: the job's, the drain's, the watcher's and the tool's fibers; interrupts
of a closed scope arrive. `RunEnds`: the owner, its workers and a canceller go on, executors end.
`DueEnds`: the daemon's two fibers run, the process is started again, the clock
goes on. Requests, edits, faults and crashes are never fair.

## 4. Proofs

TLAPS proves, for all values of the constants that satisfy the modules'
assumptions:

- `RunCoordinator_proofs`: `TypeOK`, `OneOwner`, `NoOrphan`, `NoLostWake`,
  `QuietIsIdle`, and that `Spec` implies `GateSpec`. The inductive invariant is
  the conjunction of the first three. `NoOrphan` needs `OneOwner`: only a fiber
  whose entry is active settles, so the waiters it resumes are all there are. The
  refinement needs both: each action is shown to be a step of the gate or to leave
  `GateState` and `GateOwed` alone, and what a fiber of an inactive entry would
  do is excluded. `QuietIsIdle` rests on the order of publications: an entry that
  is about to be removed has published idle, or its publication died.
- `EventLog_proofs`: `TypeOK`, `Contiguous`, `AppendOnly`, `OwnerFence`,
  `AllOrNothing`, `EmitsInOrder`, and that `Spec` implies `DurableLog`'s
  (`ImplementsLog`), hence what that promises of histories (`PromiseKept`: no
  event id in two places, no owner without a history). `Contiguous` is not inductive, since a commit
  stores what a transaction staged steps earlier: the invariant says that while a
  transaction is open, the table together with its staged rows is a log that ends
  at the transaction's view. Nobody else writes meanwhile, because at most one
  transaction is open. `EmitsInOrder` needs that a tail's cursor is the last
  sequence it has seen, and `Contiguous`, so that the rows past the cursor are
  consecutive. The refinement rests on `TablesAreLog`: under `TypeOK` and
  `Contiguous` the entry at a place of a history is the one row with that
  sequence, so a commit extends histories by what it staged, a replay one of them
  by one event, and everything else maps to a stutter.
- `SessionInbox_proofs`: `TypeOK`, `VisibleIffPromoted`, `HonestAnswers`,
  `WrittenOnce`, `NoOvertaking`. Beside the first three the invariant says that
  sequences of rows lie within those assigned (`Numbered`); that who looks an id
  up again does so because the id is taken (`ConflictIsReal`), which makes the
  receipt of a lost race honest; and that a row of the kind and delivery the
  drain is publishing which it did not select was admitted after those it did
  (`SelectionIsOldest`), which is what `NoOvertaking` needs while clients and
  replays act between the selection and the publications.
- `SessionRunner_proofs`: `TypeOK`, `NoStrandedInput`, `StepLimit`,
  `NoIdleRequest`, `QueueOneAtATime`. The property about idle states is carried
  by two invariants about all states: every pending input is excused, or its
  wake is about to happen, or a wake is owed, or the drain still has a check in
  front of it that will find it (`PendingCovered`); every unanswered input is
  excused, or belongs to a drain that still has a turn to make
  (`UnansweredCovered`). `StepsAhead` relates the step counter, which compaction
  keeps and promotion resets, to the number of turns; `QueueSelected` and
  `TurnHasReason` say what a boundary has selected and why a turn is made.
- `Turns_proofs`, `ProviderTurn`: `TypeOK`, `HonestResult`, `NoStrayTool`,
  `StepClosed`, and `ResultsBeforeRequest` for `StepLimited = FALSE` (with a step
  limit it is false, see Divergences). `CallOk` relates the three views of one
  call, i.e. the publisher's entry, the fiber and the projected state; where tools
  are offered, a state that is running belongs to a call of this turn that
  somebody will settle (`OfferedOk`); `CallingOk`, `MessageOk` and `AllDone` say
  what holds at each place of `runTurnAttempt`.
- `Turns_proofs`, `ContextEpoch`: `TypeOK`, `ShownIsAdmitted`, `ShownIsCurrent`,
  `FreshAfterCompaction`. The invariant is about the log, not the turn: whatever
  the epoch row is, its baseline with the updates the log has past it is what its
  snapshot admits (`Told`). `Prepared` says what a turn has read that may be old
  by the time it writes, `CompactionBounds` that updates are not older than a
  compaction the epoch does not cover, `Requested` what the request is made of.
- `Tools_proofs`, `PermissionAsk`: `TypeOK`, `OneClosure`, `GrantOwnsRequest`,
  `OwnAnswer`, `RejectInSession`, and that a settled Deferred stays as it is
  (`SettledStays`). A request is settled by one of several clients and announced
  later by that client: the invariant says what a client holds under the lock is
  still open, what it announces is settled as it says and held by it alone
  (`ClientOk`, `TellersApart`), and that each settlement has its reason in what
  clients decided (`DecisionOk`, `SettledFor`).
- `Tools_proofs`, `McpConnection`: `TypeOK`, `OneBuilder`, `FactsHonest`, and
  `NoOrphan` for `CutSpawns = FALSE` (with `TRUE` it is false, see Divergences).
  Who builds or closes holds the lock (`BuildersLock`); the child that is being
  spawned is the only one (`SpawnsAlone`); a connection in its handshake is the
  one in `conns` until it is closed (`ShakenIsShown`).
- `Delegations_proofs`, `BackgroundJob`: `TypeOK`, `CompletedMeansAll`,
  `ErrorIsOwn`, `OneAtATime`, `DeliveredOnce`, and that a Deferred is resolved
  once (`ResolvedStays`). The core is `Counts`: while a job is running, `pending`
  is the number of its runs that have not settled; `Ordered` says that a run is
  reached only after those before it are over, for as long as the scope is open.
- `Delegations_proofs`, `DelegationLedger`: `TypeOK`, `CompletedWork`,
  `ApprovalIsCurrent`, `OutcomeFinal`. Two facts carry it: `foldDelegation` keeps
  a state well-formed, bounded and true to its deliveries for every event it
  accepts (`FoldOK`), and it accepts no event about an attempt that is not the
  delivery's current one or is over, which makes outcomes final whatever stale
  events an operation still holds.
- `Delegations_proofs`, `DelegationExecution`: `TypeOK`, `DispatchIsRecorded`,
  `RestartIsKnown`, and that the fold keeps outcomes here too. Its folds are
  shown equal to the ledger's, whose lemmas they reuse. The drain acts on a
  ledger read earlier, so the invariant relates that ledger to the present one;
  what works has begun in the ledger; nothing works while the recovery scan
  marks; after a scan, what a crash cut off is over, or will be marked, and no drain
  takes it up before.
- `Work_proofs`, `JobScheduler`: `TypeOK`, `NoOrphan`, `ClaimsInTime`,
  `ClaimsUnblocked`, `StartsAreAsked`. Queues and scans that are not yet installed
  are older than the table: `Queues` says what is still true of what they hold,
  `Chosen` what has come or was replaced since the tick went through it, `Known` what
  the trigger's reads are worth unless somebody has written since, `Claimed` where
  each row in progress is (with the startup that hands it back, current, or dropped).
- `Work_proofs`, `Reminder`: `TypeOK`, `ExactlyOnce`, `GivesUpLate`. A delivery
  record and the completed status of its row come and go together, and a row's
  key is its own, so no two rows deliver under one key; attempts in a row never
  run ahead of the failures there were.
- `Work_proofs`, `WorkflowRun`: `TypeOK`, `NoOrphanStep`, `HonestOutcome`,
  `EventsMatchRevision`, `DependenciesFirst`, `TerminalIsFinal`, `NoReplay`, for
  every validated graph. `RunSound` is what holds of each run by itself: its
  sequence is its revision as long as it can dispatch, nothing is in flight once
  it is over, a cancelled run starts nothing, and a step is past "pending" only
  if what it depends on has settled in its favour. `RunKeeps` is what each step
  of the model may do to a row: an attempt only grows, and one that was begun
  never returns to a status it could be begun from (`BegunOnce` ties it to the
  history). Retrying resets the descendants of a step; that no predecessor of
  what was executed is among them follows from the graph's acyclicity, because
  `Descendants` is the least set closed under successors.
- `Work_proofs`, `WorkflowRun`: `NothingLost` for graphs and bounds with
  `BranchesDecide` and `Untangled`, `TakenArmsOnly` with `OneCheck`, and with
  them all of `RunsAreHonest`. What a branch step gives up is the largest set of
  steps that other arms reach, the chosen one does not, and only the branch step
  and the set itself lead to (`AbandonedIs`). `Accounted` says of every run that
  nothing which a settled branch step gave up was begun (`Forgone`), and that what
  a step leads to that may still settle, or was executed, is skipped only with all
  its branch step gave up (`SkippedRightly`). It is carried by `RunningAhead`:
  ahead of a running step everything is still pending, so whatever arm it chooses
  gives up nothing that was begun. `Moves` is what a step of the model may do to
  the rows of one run: only a running step is completed, alone; what is skipped
  goes with its branch's whole loss; what is promoted is nobody's loss. A retried
  run copies rows, which is why the copied run has to be over and `Tidy`: nothing
  of it is still to start. For `TakenArmsOnly`, `Taken` says that everything past
  waiting was led to; were a step promoted that nothing leads to, all its
  predecessors would be given up by the one branch step, and by maximality the step
  with them (`Leading`).

Assumptions. `NoEntryAssumption`, `EventLogAssumption`, `SessionInboxAssumption`
and `StepsAssumption` are ASSUMEs of their modules. The other modules are checked
with several sets of constants at once, so theirs are definitions, hypotheses of
the theorems, and the `MC` modules ASSUME them for every instance. They say that
null values are not members and bounds are numbers, and
- `DelegationAssumption`: there are finitely many participants, none both
  implements and reviews, and a delivery has at least one attempt;
- `JobAssumption`: one-shot and recurring rows are different rows, dependencies begin
  acyclic;
- `GraphAssumption`: what `validateGraph` accepts (acyclic, every step reached
  from the first, a branch's failure not tolerated);
- two theorems have a hypothesis more, `CutSpawns = FALSE` and
  `StepLimited = FALSE`: an interrupt does not arrive during a spawn, the agent
  has no step limit;
- `BranchesDecide`: no branch step gives up what its own `next` or `parallel`
  names. `validateGraph` allows it, and then the code skips the step it names (a
  first step with `next` 2 and the arms 2 and 3, choosing 3);
- `Untangled`: runs are not both cancelled and retried while steps are retried by
  their policy. Otherwise the step of `CancelSkipsTheRest` (see Divergences) is
  executed in a run that was retried from it, and what the cancellation skipped
  stays skipped;
- `OneCheck`: one branch step, and no retried runs. With two branch steps that
  compete for a step, `TakenArmsOnly` is false (see Divergences); it is false with
  one, too, in a run that inherits "skipped" from a step an abort kept from starting.
  TLC finds each of these counterexamples when the hypothesis is dropped.

Where a component module is proved about through INSTANCE (`Led`, `Exec`, `Ctx`,
`Mcp`, `Rem`, `Wf`), the constants and variables are the proof module's own and
arbitrary. The safety properties of the union runs (`ToolsAreHonest`,
`ContextIsShown`, `AsksAreClosedOnce`, `ServersAreOwned`, `CompletionIsTrue`,
`OutcomeFinal`, `RunsAreHonest`, `DoneIsFinal`, `HappensOnce`, `StartsAreAsked`)
say of each instance what the component module states under that name, and each
such statement is a theorem about all constants (`ToolsAreHonestAlways`, ...).

Only model-checked:
- liveness (`WaitersReturn`, `GateFairSpec`'s fairness, `TailCatchesUp`,
  `InputIsAnswered`, `TurnEnds`, `WaitsEnd`, `WorkEnds`, `RunEnds`, `DueEnds`),
  which is out of this prover's reach;
- that the run's instances satisfy their assumptions.

## 5. What is abstracted or left out

- Payloads, timestamps, event versions and their encoding. A replay re-encodes
  with the latest version.
- The live, in-memory notification of listeners: not durable, and not ordered
  across publishers. Durable tails are what clients recover from. What a tail
  does when its aggregate is removed is excluded from `TailCatchesUp`: the code
  has no notion of a tail's history ending.
- In the runner: a provider turn is one step (`ProviderTurn` opens it up); the four
  reads of `hasPending` at the start of a drain are one, and so are the read of a
  shell input and its `Shell.Started`. An agent with a step limit is assumed;
  without a limit `StepLimit` says nothing. Skills, synthetics and commands are
  steers. The stuck guard of compaction depends on token estimates.
- In the inbox: `removeMessage` and `revert`, which delete message rows.
- Context: the concrete sources, their order and wording, the checks and patches
  of `move-session.ts` around its event.
- Permissions: grants for one use and grants that expire (no code issues them),
  the method `ask`, the finalizer of a Location, the question service, how a
  responder comes and goes.
- MCP: message contents, collisions of tool names between servers (registration
  succeeds or fails), the rows of the binding store, how a credential resolves
  (a choice of outcomes).
- Delegation: purge, fork, resolve and expiry commands, interrupts, execution in
  external command lines, the foreground path, budgets.
- Workflow: preparation and clean-up of child Sessions and Tasks, the idempotency
  and conflict of retry requests, the snapshot's digest, invalid branch outputs,
  the credential scan, a hand-over that fails. Of the attempts of a step only the
  latest is kept; nothing reads older ones.
- Schedules: cron arithmetic (a match always lies ahead), the inbox's read marks, the
  manual claim API, which nothing calls. A task patch is one step, because writes
  hold one process-wide lock; an update of the list is the writes of its rows, one
  by one, to rows that are there, and of the statuses that end a row it takes one. A
  one-shot moment that stays in a row beside a recurrence is forgotten.
- One Session, one key, one process; other processes appear as replays.
- Not modelled, as in `PROJECT.json`: tool registries, file mutation, catalog and
  composition (sequential transformations of configuration); the task driver for
  external command lines (child processes, pure I/O); the V1 engine, command line
  and HTTP server (adapters, and the engine that core replaces; what they write
  into a Session is `SessionInbox`'s bridge); `llm` (codecs and streaming HTTP);
  front ends, SDK, plugins, generated and vendored code (presentation and data).

## 6. Plan

Done: every component of `core` that has concurrency, failure or ordering of its
own has a module, a run and theorems. Left, in this order:

1. `WorkflowRun`: `TakenArmsOnly` for several branch steps that do not compete, i.e.
   none of which leads to what another one may give up.
2. `ContextEpoch`: `BaselineIsLocal` for one Location, from `Prepared`.
3. `DelegationExecution` with several background participants, and `OneOwner` for
   drains that begin after the dispatch.
4. Components that are partly modelled: `revert` and `removeMessage` in the
   inbox; limited and expiring grants once code issues them; the purge, fork and
   expiry commands of delegations.
