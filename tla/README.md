# A TLA+ model of Discord Agent

Discord Agent runs coding agents (Claude, Codex, OpenCode) on behalf of a Discord server.  A
message starts a *task*: a thread, a git worktree, a durable row, a provider session.  This
directory models the parts of the program that keep durable state consistent while requests,
provider callbacks, cancellations, timers and crashes interleave, checks them with TLC on small
instances and proves the main invariants with TLAPS for every size.

## 1. Inventory

The program is one Node process over one SQLite file.  A handler runs without interruption from
one `await` to the next; the handlers of different requests interleave at their awaits; a crash
loses every map and closure and keeps the committed rows.  This is the execution model of every
module here: **one action per stretch between two awaits, and crashes between any
two.**  Where a stretch makes several durable writes that a crash may part, and what follows tells
the difference, the crash between them is an action of its own (`CrashIn...`, `RestartInBootstrap`,
`Dies`).

| Component (under `src/`) | State | Operations | What is hard | What makes it correct |
| --- | --- | --- | --- | --- |
| `repositories/taskRepository.ts` | `tasks`, `task_results`, `provider_sessions`, `worktrees` | create, transition (compare and set), attach session, save result, reopen | writers that read before an await | legal moves only; one result per life; a reopening only with a session |
| `coordinator/taskCoordinator.ts` | maps of renderers, reservations, startups, interruptions; a gate per turn | start, continue, cancel, close, hand off; host callbacks `emit`, `waitForDecision` | cancellation in every await, stale completions and decisions, two continuations | every nonterminal row has a handler; no late event or decision touches another turn |
| `coordinator/taskRecovery.ts`, `services/runtimeRecovery.ts` | none | interrupt rows, release reservations | crash during recovery | nothing nonterminal, no capacity held by the dead |
| `services/scheduledLoopService.ts`, `loopRunner.ts`, `repositories/loopRepository.ts` | `scheduled_loops`; runtimes, timers | start, iterate, stop, terminalize, reconcile | stop during an iteration, restarts, missed events | one loop per channel, cadence, no loop lost or revived |
| `services/usageAdmission.ts`, `runtimeUsage.ts`, `repositories/usageRepository.ts` | snapshots, reservations, observations | reserve, attach, finish, posture, poll | concurrent admissions, old snapshots, learned estimates | admissions together keep the reserve free; an idle provider comes to admit what its account can pay for |
| `discord/interactionBroker.ts` | pending requests with deadlines | ask, collect, check the member, answer, time out | what happens while a member is looked up; deadline against answer | decided once, by who may decide, and always in the end |
| `discord/taskRenderer.ts`, `taskControlHandler.ts` | a card with its stored id and pin; a buffer, a message, an edit timer | draw, finish, dispose; delta, flush | coalesced drawings, lost answers, a turn that ends meanwhile, a turn that ends the row of another | one card that shows what its renderer was told last; all of the text, in order |
| `agents/codex/*` | a process, pending requests, the active turn of a thread, a sign-in | start, continue, cancel, notifications | exits and time-outs, events matched by thread only | every request settles; every run ends once, by its own cancellation |
| `agents/opencode/*` | a process and connection per run | open, prompt, cancel, close | cancellation in every step of the opening | no process outlives its run |
| `agents/claude/*` | streams and abort controllers | start, resume, cancel | two runs of one session | a cancellation reaches the run it is for |
| `git/worktreeManager.ts` | branches and directories; a queue per repository | create, inspect, remove | a name found free several calls before it is used | two tasks never get one branch |
| `services/projectStore.ts`, `channelManager.ts`, `commands/addProject.ts`, `removeProject.ts`, `roborev.ts` | projects, Discord channels | register, remove, switch reviews on and off | a call or a write that fails half way, a crash, commands that overlap | a registered project has its channels |
| `integrations/roborev/*` | a child process, a retry timer, a chain of reconciliations | start, reconcile, restart, dispose | projects that change while the CLI is asked | one process while it is wanted, none after |
| `factoryFloor/*` with its repositories | launches, nonces, bindings, OAuth states | launch, bootstrap, exchange, revalidate | replays, expiry, crash between redeem and use | a launch is used once, by its user, in time |
| `missions/`, `agentTeam/` | mission records, contracts with revisions | promote, transition, snapshot; compose | evidence of an earlier round; edits after a review | done means verified; no authority nobody reviewed |
| `services/settingsService.ts`, `providerOnboarding.ts`, `runtimePrimaryAgent.ts`, `commands/settings.ts`, `projectSettings.ts`, `model.ts`, `provider.ts` | settings, the active PM chat | select a provider or a model, activate, put back | a provider is asked while another change is made | the chat runs with what is stored; the model asked for last is kept |
| `primary/*`, `terminal/repl.ts` | conversation, pending proposals | propose, decide, confirm, launch | messages, clicks and lines at once; a project that changes | a proposal is launched once, with consent |
| `services/databaseBackup*.ts`, `db/*` | the database's files, staged and retained ones, backups | back up, prune, stage, activate, recover | a crash between any two file operations | the former database is never lost; no journal beside the wrong database |
| `services/runtime*.ts`, `index.ts` | the process and its two stacks of owners | start, fail, stop, exit | a signal during the start; two stops at once | what depends on something is stopped before it |
| commands, handlers, presentation, event adapters | little | routing, wording, translation | – | left to the tests |

How they interact: Discord events reach a command or message handler, which calls the coordinator
or the loop service; the coordinator calls a provider with a *host* whose callbacks come back at
any time, draws through a renderer and asks through the broker; the loop service calls the
coordinator; the admission gives the coordinator reservations which the recovery and the
cancellation also finish; a change of the projects wakes the review source; the repositories are the
only shared state that survives.

The hazards of this code, each at its line, are listed in `PROJECT.json` with the properties that
would show them going wrong.

## 2. Modules

| Module | Models |
| --- | --- |
| `TaskRepository` | the status machine and the guards of the repository's writes, as operators of the stored values |
| `TaskLifecycle` | the abstract specification: what may happen to a task's row, whoever acts |
| `TaskCoordinator` | turns, continuations, cancellations, callbacks of runs, reservations, crash and recovery |
| `ScheduledLoops` | durable loops, their timers, restarts and shutdowns |
| `UsageAdmission` | what the reservations promise together: estimates, snapshots, postures, the poll |
| `TaskCard`, `TaskStream`, `InteractionBroker` | what a task's thread shows and asks |
| `ProviderRuns` | the abstract specification: what the coordinator relies on in a provider |
| `CodexProvider` over `AppServerTransport`, `OpenCodeProvider`, `ClaudeProvider` | the three providers |
| `CodexAuth` | device sign-ins |
| `FactoryFloorBindings` | the project, surface, run and instance bindings, with the trigger that retires them |
| `ActivityLaunch` | from a `/factory-floor` interaction to a joined session, over the bindings |
| `ActivityRevalidation` | signed requests, their nonces and rate, and the decision, over the bindings |
| `MissionLifecycle`, `AgentTeam` | missions with their evidence; a team's contracts and their composition |
| `Settings`, `ProjectSettings` | the global settings with the PM chat they activate; the settings of a project |
| `PrimaryChat` | the PM chat and the terminal, from a message to the launch of a task |
| `Projects`, `RoborevWatcher` | the registration of projects; the process that streams reviews, beside it |
| `WorktreeManager` | worktrees and branches of concurrent tasks |
| `DatabaseRestore`, `DatabaseBackups` | a restore, file by file; backups and their retention |
| `RuntimeLifecycle` | start, failed start and stop of the process |
| `TaskCoordinatorProofs` | theorems about the coordinator and about the thread (`TaskCard`, `TaskStream`, `InteractionBroker`) |
| `ScheduledLoopsProofs`, `ProvidersProofs` | about the loops; about the three providers under `MCProviders` |
| `FactoryFloorBindingsProofs`, `ActivityLaunchProofs` | about the bindings; about the launches, over them |
| `LimitsProofs` | about what is limited: the requests of `ActivityRevalidation`, the turns of `UsageAdmission` |
| `PortfolioProofs` | about the parts of `MCPortfolio`: missions, teams, settings, those of a project, the PM chat |
| `OperationsProofs` | about the parts of `MCOperations`: projects, reviews, worktrees, database, backups, process |
| `MC*` | instances for TLC |

`TaskCoordinator` and `TaskLifecycle` share the operators of `TaskRepository`, and the first is
checked and proved to implement the second.  `ActivityLaunch` and `ActivityRevalidation` extend
`FactoryFloorBindings` and let any of its operations happen between their own steps;
`RoborevWatcher` extends `Projects` in the same way, and `CodexProvider` extends
`AppServerTransport`.  `MCProviders` maps the runs of all three providers to `ProviderRuns` and
checks that they implement it.

Components that share no state are checked in one run: `MCTurns`, `MCTurnLimits`, `MCProviders`,
`MCPortfolio` and `MCOperations` have a variable `part` that never changes, and a behaviour moves one part while
the others stay in an initial state.  Nothing is lost by that, since no action of one part reads
another's variables, and nothing is multiplied.

### TaskCoordinator

A *turn* is one handler that executes one provider turn.  The turn that creates a task is named by
the task (`startFromMessage`, `startInExistingThread`); a continuation (`continueInThreadInternal`)
has a name of its own.  `pc` says at which await a turn stands:

| `pc` | await in `taskCoordinator.ts` |
| --- | --- |
| `checked`, `reserved` | provider availability; the admission, then the thread and the worktree |
| `created`, `carding` / `opened` | the renderer's start, the Starting card (a continuation: the renderer) |
| `calling` | `startTask` / `continueTask` |
| `card`, `awaiting` | the running card, `run.completion` |
| `finishing` | the last card and the renderer's end |

The maps `activeReservations`, `activeRenderers`, `interruptionRequested`, `startingTasks` are
modelled with the entries the code overwrites and deletes, also those of another turn.  `run`,
`cancelReq` and `registered` are the provider as the coordinator sees it (external).  `current` and
`log` are history: the turn that opened a task last, and the turns whose events were appended since.

Where a stretch makes several durable writes, a crash between any two of them is an action of its own:
`CrashInCreate`, `CrashInReopen`, `CrashInAttach` (`taskCoordinator.ts:337` and `:356`: the session is
stored, the row still `starting`), `CrashInTerminate` and `CrashInRelease` (the next start has released
some of the stale reservations).  `TaskLifecycle` has the same two steps, `Attach` and `Progress`.

Abstracted: messages, prompts, settings, costs and the contents of events.  Usage events that find
the capacity critical are those of `EmitCriticalUsage`.  A cancelled run may end, or never notice.

### ScheduledLoops

A loop is named by the request that starts it and a project by its agent channel.  Time is relative
(`nextRun` counts the ticks that remain), so behaviours are unbounded though the state is finite.
`iteration` is 0, 1 or 2 ("a later one"): the code tells only the first iteration from the others.
`Shutdown` detaches every timer and the handlers go on until `Exit`, as in `index.ts`.  The turn of
an iteration is external: it may get a session or not, return or throw.  What the coordinator
promises for it (it ends) is `TasksTerminate`.

### FactoryFloorBindings

Each table is a function from the names of its rows; a row is `absent`, `active` or `retired`
(`retired_at`).  Each operation of the repositories is one SQLite transaction, so one action, and an
operation that throws changes nothing, so it is no step.  Only `archive` and `create` of a project,
and the attachment of an instance, are called by the program itself; the other operations are the
repository's interface, called by tests and whoever provisions the bindings.

Abstracted: a project has its own Factory Floor project and the one guild; a surface is named by its
thread (surfaces known by a message only are left out), and a project that is added again keeps its
channel.

### ActivityLaunch

A request under way is one of three, told apart by `pc`:

| `pc` | request and await | ends in |
| --- | --- | --- |
| `acknowledging` | the interaction, in `launchActivity()` (`activityLaunchHandler.ts`) | `Acknowledge` |
| `starting` | `startOAuth`, in the questions to Discord (`activityBootstrapService.ts`) | `BeginAttempt` |
| `exchanging` | `bootstrap`, in the questions to Discord and the token exchange | `ConsumeAndJoin` |

`at` is the time a request read when it came in, which the code uses for every later check of it.
`ConsumeAndJoin` is one stretch with three transactions: the attempt, the launch, the attachment.
Each is made only if the earlier ones were and none is undone; `RestartInBootstrap` stops between
them.  A restart runs the cleanup of `initializeFactoryFloorRuntime`.  A launch is named by its
interaction and its Activity instance.  What Discord says of instances, members, tokens and users
passes a check or does not (`Refuse`).  `joins` is history.

Assumed of Discord: an interaction opens one Activity instance, and is not delivered to a process
that starts later (`delivered`), though any number of times to the one that runs; the clock does not
go back.

### ActivityRevalidation

A message is one signed request; it may be delivered at any time, again, and to a later process.
`Accept` is the stretch from the signature to the question about the instance: it consumes the nonce
and counts in the rate window.  `CheckBindings` is the stretch between the two questions to Discord,
`Allow` and `Deny` are the answers.  The windows are a map of the process, the nonces a table.
`stamp` is the sender's clock, any time; `accepted` and `passed` are history.  The signature itself is
not modelled: a message is genuine.

### UsageAdmission

A *slot* is a turn with a reservation.  Capacity is counted in points of a window's hundred, and a
snapshot counts until the next one of its window: the code gives it no lifetime.  `Low` and `High`
are the estimates `reserve` takes from the last observed costs (`Remembered` of them, fifty in the
code).  `used` is what the account's windows have really been used, which the poll (`Refresh`) and a
running turn (`RateLimitEvent`) report, and which other programs use and time resets (`Account`).

A turn is admitted if it fits the readings (`Fits`) and if the table takes its estimate (`Storable`, the
CHECKs of `usage_reservations`).  `IdleProviderAdmits` says that a polled provider that stays idle comes
to admit (`Admits`) whatever an unused account could pay for (`Payable`): nothing but the learned
estimate keeps a class out.  That an estimate can do so for good is in the run: a turn may cost 95
of a window whose reserve is 10, and three dear turns put the low estimate above the high one.

### TaskCard, TaskStream, InteractionBroker

A *renderer* is that of one turn.  `TaskCard` counts versions of the row instead of showing it: a
drawing shows the version its context was read from.  Any turn that is alive changes the row and tells
its own renderer (`SyncCard`, `TurnEnds`), which takes nothing any more when it is disposed (`Tell`);
only a cancellation and the events of a run go to the one in `activeRenderers` (`CancelCard`,
`StatusCard`).  `TurnEnded` is a turn that finds the row ended and returns.  `told` is history: the renderers
that were told of the row as it is.  A request to Discord is a step that begins it
and one that ends it, with success, failure, or an effect whose answer is lost.  `TaskStream` numbers
the units of text; `WritesChunk`, `TextEditAnswered` and the timer's `Flush` interleave as the
awaits of `flush`, `drain` and `finish` let them.  `InteractionBroker` keeps the code's order:
collect one interaction, look the member up, check the role, decide or collect again with what is left
of the time; while a member is looked up, nothing is collected.

### ProviderRuns and the providers

`ProviderRuns` says: `startTask` and `continueTask` return once or throw once, a run's completion is
settled once, and as cancelled only if it was told to stop.  Each provider module begins a run when
the coordinator may: the one before is settled, refused, or cancelled - **cancelled, not ended**,
since `taskCoordinator.ts:692` does not await `cancelTask` before it terminalizes the row.  So two
runs of one session do overlap.  The server's side (`ServerBegins`, `ServerEnds`, `ServerAnswers`,
`ServerExits`) is external and as adverse as a process can be: it answers late, never, or dies.
A request of the transport is one attempt after another, each with its own id and timer.

### MissionLifecycle and AgentTeam

Both are libraries which no runtime code calls yet, so their callers are arbitrary.  Evidence is its
kind; identifiers that must be fresh are counted.  `saw` in `AgentTeam` is history: what a contract
allowed when the one that refers to it was last reviewed.  The code knows only revisions.

### Settings, ProjectSettings, PrimaryChat

A *change* (an *edit*) is one panel, modal or command under way, at the await where a provider is
asked.  `ProjectSettings` notes in `asks` what the owner asks for when he asks (`Ask`), numbered, with
the changes then in flight; a change that is refused is forgotten.  A stored model must be what was asked
for last, but of two changes in flight together either may be (`AskedLast`): their answers come in
either order.  The panel files OpenCode's models as Codex's (`PanelKey`), so `misfiled` marks the two
providers until each is stored as its own; `ModelsAreTheChosen` excepts them, and
`ModelsAreProviderScoped`, which does not, is refuted (section 3).
`Settings` marks with `crossed` and `overtaken` the two cases excepted from its property: an
activation that fails after another change was made since it began puts the older settings back,
and a `/model` that a change of provider overtook activates the former provider.
In `PrimaryChat` a message of the channel is a handler of its own and the terminal is one handler of a
queue of lines; a proposal is numbered, since one text may be proposed twice.  `consent` and
`launches` are history.

### Projects and RoborevWatcher

A *command* is one slash command under way: it makes or deletes a channel per step, and any step may
fail, the writes of the row too (`RegisterFails`, `GiveUp`); `ProcessDies` ends all of them where they
stand.  `discarded` is history: the channels a `/roborev disable` deleted, or found gone, before it
clears the row.  `RoborevWatcher` is the chain of reconciliations: one asks the CLI (`execFile`, with a
time-out) while others queue; a child exits at any time, and the counter of failures is reset when it
has stayed up.  A child that was sent SIGTERM counts as ended at once, as in the code, which forgets it.

### WorktreeManager

Every task wants the same branch name, the worst case.  The map of promises is `repositoryQueues`
with the last of each queue, and `previous` the promise a create awaits.  Git is external; `remove`
takes no part in the queue, as in the code.

### DatabaseRestore and DatabaseBackups

A database is a generation of files.  `todo` is the sequence of renames and removals that an activation
still has before it, one step each; `Fails` makes the current one fail and starts the code's undoing,
`Dies` stops between two, and `Activate` begins with the recovery of an interrupted one.  Times are
the order in which backups began.  A backup is killed in its staging directory, an artifact is damaged
at any time; `spoiled` is history: what was damaged when the prune began.

### RuntimeLifecycle

`deferred` are the two stacks of owners, of the runtime and of the provider bootstrap.  A *caller* is
who stops a stack: a failed start, a signal, the watchdog.  The code memoizes the promise of a stop,
so that a second caller waits for the first (`SharedWalk`).

## 3. What TLC checks

| Run | Instance | Shows |
| --- | --- | --- |
| `TurnInterleavings` | a first turn, two continuations, a cancellation; no crash; at most one open question to the user and one waiting interruption (`FewCallbacks`). The card: two turns' renderers, four versions of the row, two faults, not all of both (`CardBound`). The text: messages of two units, six units. 1.8 million states | `ResultMatchesStatus`, `RunningHasSession`, `NonterminalHasOwner`, `NoForeignEvents`; `CardIsFaithful`; `UndisturbedStreamIsComplete` |
| `TurnCrashes` | a first turn, a continuation, two cancellations, two crashes, also between two writes; fairness; 0.2 million states | `CrashedHoldsReleased`, `ImplementsLifecycle`, `TasksTerminate` |
| `Loops` | two loops in one channel, interval of two ticks, a restart; fairness; 0.5 million states | `OneLoopPerChannel`, `ArchivedProjectHasNoLoop`, `NoLoopIsLost`, `Cadence`, `WaitingLoopRuns` |
| `ActivityLaunch` | two interactions (one in a thread, one in its channel) for one run, two requests at a time, lifetimes of 2 and 1 ticks; 0.7 million states | `OneSessionPerLaunch`, `LaunchEndsOnce` |
| `ActivityRevalidation` | two messages of one principal for two runs, two surfaces, one instance, a limit of one per two ticks; 0.6 million states | `AcceptedOnce`, `WithinRate` |
| `TurnLimits` | two turns at a time, a polled and an unpolled provider, a reserve of 10, five remembered costs of 3 or 95, an account at 0 or 60; a text request and an approval, two members; fairness; 0.3 million states | `ReserveStaysFree`, `IdleProviderAdmits`; `DecisionIsAuthorized`, `RequestEnds` |
| `Providers` | two runs of each provider, one retry, three sign-ins; fairness; 0.1 million states | `NothingIsLeft`, `CancelFindsRun`, `RunsAreRuns` (the refinement of `ProviderRuns`), `NothingWaitsForever` |
| `Portfolio` | two missions with nine pieces of evidence at most; one member of a team with two roles, four edits; two changes at a time, three in all, of the settings; two edits at a time, three in all, of a project, with all three providers; one message, two proposals and one line; 1.0 million states | `DoneIsVerified`, `SnapshotRestores`, `AuthorityIsReviewed`, `SettingsAndPmAgree`, `ModelsAreTheChosen`, `LaunchIsAuthorized` |
| `Operations` | one name, three commands, deaths of the process at any point, two review processes, two failures; two repositories, three creates; four generations of the database; four backups of which two are kept; the process; fairness; 0.8 million states | `ChannelsOfProjectsExist`, `OneWatcher`, `ReviewsAreWatched`, `BranchIsFree`, `FormerIsKept`, `GenerationsStayApart`, `RetentionIsSafe`, `OrderlyExit` |
| `CancelDuringCard`, `EndedCardStale`, `UsageEstimates` | a disagreement each, below | refuted |

`CHECK_DEADLOCK FALSE` in the runs where the modelled system may come to rest: when every request has
been handled and no crash, command or run is left, there is nothing to do.  The Factory Floor
runs, which never rest, check deadlock.

**Bounds.**  Tasks share no state (a turn touches one row, one entry of each map, one reservation),
so one task with several requests has every interaction there is.  Two continuations let the second
pass its checks while the first is under way; a continuation after a cancelled turn is enough for
every stale callback.  Two crashes allow one in the recovery of the other.  Two loops in a channel
race for it; an interval of two ticks tells "at once" from "too early" from "on time".

Two Activity instances compete for one surface, and two requests of one instance for its launch; more
of either only repeat them.  At most one request waits for an acknowledgement and one for the checks
of an OAuth start (`OneOfEach`), so the pairs are those that write something the other reads; the
proof has no such bound.  Attempts that live shorter than launches let each expire while the other is
good, and a clock up to the longer lifetime lets both expire.  In `ActivityRevalidation` a nonce lives
one tick longer than twice the skew (five minutes and thirty seconds in the code), and the clock runs
to where it is forgotten.  A limit of one makes every window full.

Five remembered costs are the number from which the high estimate is learned, so estimates go up and
down again.  A card has at most two faults, one for what is lost and one for its repair,
and a row of four versions is opened, cancelled, opened again and ended by the older turn; a message
of two units is full, over-full and edited while it is closed.  Two runs of a session are the
one that still ends and the one that is begun, and three sign-ins two that overlap and a later one.
Nine pieces of evidence let a mission be done, sent back and done again.  Four edits change a
contract, review it, and change another above it.  Two changes of settings cross; the third makes a
rollback stale.  Three edits of a project are one that misfiles a model, one beside it, and one
after.  Three commands are two that overlap and one that comes after; two failures use
up the retries (ten in the code); three creates are a queue with a middle.  Four generations are a database, a staged one,
a second restore and its retained former one; four backups of which two are kept leave one to delete
while another is damaged or half made.

**Symmetry** is used only without liveness, over continuations, over cancellations and over the
places for requests, which the model never tells apart.

**Fairness.**  Always weak, always of what the runtime itself does, never of requests, of people, of
servers' answers or of crashes.

* `TaskCoordinator`: each handler's next stretch.  Node runs a continuation whose promise has settled,
  and promises settle: a Discord call finishes or fails, a provider call resolves or rejects (that it
  does is what `Providers` checks of the transport's requests), the broker times a decision out (`RequestEnds`).
  That a run ends is assumed of the provider; Codex's and OpenCode's runs have no time limit.
* `ScheduledLoops`: time passes, timers fire, handlers go on and a shutdown exits.
* `TransportFairness`, `AuthFairness`: the timer of a request, the pause before a retry, the expiry of
  a sign-in.  Nothing is assumed of the server.
* `BrokerFairness`: the deadline, and that discord.js answers or gives up.
* `UsageFairness` (in the instance `PollFairness`): the poll gets an answer again and again.
* `WatcherFairness`: `execFile` has a time-out, and the retry timer fires.

Every property of a passing run also has a *mutant* in `PROJECT.json`: a slip defined beside the
definition it replaces, under which TLC refutes the property.

### Disagreements with the documents and the tests

Three have a run that TLC refutes:

* `CancelDuringCard`: a cancellation during the Starting card does not reach the run that starts
  afterwards.
* `EndedCardStale`: a cancelled turn that ends after the task was opened again ends the new row, and tells
  only its own renderer, which is gone; the newer turn finds the result and returns
  (`taskCoordinator.ts:506-510`) without a word to its card, which shows the task at work for good.
* `UsageEstimates`: from three observations on the low estimate is learned, the high one from five on;
  in between a dear class violates the CHECK of `usage_reservations` and can never be reserved again.

The following are properties of the modules too, marked REFUTED in their comments.  TLC refuted them
while the modules were written; they have no run, and the checked properties beside them say
what does hold:

| Property | What a document or a test says | What the code does |
| --- | --- | --- |
| `RecoveredTasksAreTerminal` (`TaskCoordinator`) | `durable-state-and-recovery.md:30` | rows left in `created` are not recovered (`listRecoverable`) |
| `TerminalHoldsNothing` (`TaskCoordinator`) | `usage-admission.md:17` | a completion during the cancellation's card drops the map entry by which the reservation would be released (`taskCoordinator.ts:508`) |
| `LoopHasContinuation` (`ScheduledLoops`) | `scheduledLoopService.failure.test.ts:76` | a first iteration that fails without throwing, or dies in a crash, leaves a loop that can never continue |
| `AllowedIsBound` (`ActivityRevalidation`) | `discord-activity-revalidation.md:28` | the bindings are looked at before the member is awaited, not after; what was retired meanwhile is still allowed |
| `StreamedTextIsShown` (`TaskStream`) | `README.md:13` | a full message that is edited while it is being closed loses its text (`taskRenderer.ts:270`) |
| `OutcomeIsOfTheTurn` (`CodexProvider`) | `task-and-project-states.md:16` | outcomes are matched by thread: the end of a cancelled turn ends the next one, whose own turn goes on or has not begun (`codexProvider.ts:167`) |
| `PriorIsRetained` (`DatabaseRestore`) | `back-up-and-restore-state.md:50` | a `-wal` whose main file was removed is retained as if it were the former database's (`databaseBackup.ts:410`) |
| `WatchesForSomeProject` (`RoborevWatcher`) | the reconciliation after each change (`roborevReviewSource.ts:198`) | a process is spawned although the last project's reviews were switched off while the CLI was asked |
| `ModelsAreProviderScoped` (`ProjectSettings`) | `projectSettings.test.ts` | the project panel stores OpenCode's model as Codex's (`projectSettings.ts:309`) |
| `PmUsesTheDefault` (`Settings`) | the answer of `/provider` (`provider.ts:89`) | `/model` activates the provider that was the default when it began (`model.ts:113`) |
| `IntakeStopsFirst` (`RuntimeLifecycle`) | `factory-floor-activity-boundary.md:121` | a shutdown during the start has looked for the broker before there was one; the start goes on and opens it over a closed store (`index.ts:159`, `:302`) |

### Met while modelling

Behaviours no document speaks of, kept in the models as they are.

* *Factory Floor.*  A bootstrap that consumed its attempt but not its launch leaves a pending launch
  nobody can use until it expires or the process restarts.  An Activity opened in a channel, for a run
  whose surface has a thread, is launched and joined but never passes the revalidation.
* *Usage.*  The capacity of a provider that is not polled is never refreshed while it is idle: a last
  snapshot near the limit refuses turns until some turn reports another.  A snapshot without a
  utilization makes the posture unknown.  What a result states as utilization is recorded as the cost of the turn.
  A percentage of at most 1 is read as a fraction.
* *Providers.*  `codexProvider.ts:151` deletes whichever run is active.  OpenCode's `finally` (`:226`)
  and `cancelTask` (`:96`) delete the entry of a later run.  A cancellation during the start of a
  Codex turn does not reach it.
* *Database.*  The service's start does not call the recovery of an interrupted restore; only the
  maintenance command does.
* *Missions.*  Any transition may name another owner.
* *Coordinator.*  A turn that ends deletes the entry of `activeRenderers` whoever's it is (`:496`, `:508`,
  `:542`, `:712`): the events of a newer turn are dropped from then on (`emit`, `:415`).
* *Settings.*  The profile for MCP survives the removal and registration of a project.
* *Projects.*  Of two concurrent registrations of one name the loser's channels stay; so does a channel for reviews of two
  concurrent `enable`s.  A channel that cannot be fetched counts as deleted.
  A `/roborev disable` whose write fails, or whose process dies, after the channel was deleted leaves a row that
  names it until the command is given again (`roborev.ts:107-115`).
* *RoboRev.*  The count of failures is kept when reviews are switched off while no child runs.  A source disposed
  before its start returned is not disposed.
* *Worktrees.*  Repositories share the base directory, and a path is found free before it is made: two repositories can
  choose the same, and the second `git worktree add` fails.
* *PM chat.*  A "1" typed ahead in the terminal confirms a proposal that was not seen.  A proposal to
  fast-forward is launched as an ordinary task.
* *Process.*  A signal that comes before `startRuntime` returned exits at once; the start does not ask
  whether a shutdown began.
* *Not modelled, but read.*  A held task is deleted at the end of the turn it starts
  (`pendingTaskService.ts:55`), so it can start twice and can take a newer one with it.  A handoff
  checks that the source is clean several awaits before it uses it (`taskCoordinator.ts:754`).

## 4. What TLAPS proves

For every set of tasks, requests, loops, channels, names, commands, repositories, missions,
contracts, providers and backups, every interval, estimate and length of a message, and every bound
on crashes and failures.  Each theorem about a state rests on an inductive invariant that is named
below, with a lemma for the initial states and steps or lemmas for the actions.

* `TypeCorrect` of the coordinator, the launches and the revalidation, by one step per action; the
  types of the other components are part of their invariants.
* `TaskCoordinatorProofs!Invariance`: `Spec => []Inv`.  The properties are not inductive alone.
  `NonterminalHasOwner` needs to know *which* turn owns a starting row (the one that opened it last,
  `OwnerFacts`), that a continuation exists only for a task with a session (`ContinuationFacts`), that
  a row cannot leave `starting` before the provider returned to its first turn (`StartFacts`), and
  that a terminal row with a turn under way has a result (`ResultRecorded`, by which a stale
  completion is told from a live one).  `NoForeignEvents` needs `RendererFacts`, the reservations
  `HoldFacts`.  From it `ResultCorrect`, `SessionCorrect`, `OwnerCorrect`, `WaitingCorrect`,
  `EventsCorrect`, `CrashedHoldsCorrect`, the action property `HoldsCorrect`, and the refinement
  `LifecycleCorrect`: every step of the coordinator is a step of `TaskLifecycle` or a stutter, a crash
  between two writes of one stretch among them (the first of the two is then the step).
* `ScheduledLoopsProofs!Invariance`, with `HandlerFacts` (where a handler stands tells what its row
  may say), `ResumableFacts` (nobody else knows a row that is still to be reconciled), `DrivenFacts`
  (each other row has its handler or timer) and `DueFacts` (ticks since the start and ticks to go
  make an interval); from it `ChannelCorrect`, `ArchivedCorrect`, `TimersCorrect`, `LostCorrect`,
  `EndedCorrect` and `CadenceCorrect`.
* `FactoryFloorBindingsProofs`: every operation keeps `BindingsInv`, which adds to `ActiveChain` that
  a surface has one active run and an instance one surface.  Both other proofs use it by name.
* `ActivityLaunchProofs!Invariance`.  `OneSessionPerLaunch` is not inductive: `JoinedIsOver` says that
  the launch of a joined instance is consumed, or was cleaned up in a later process than its
  interaction was delivered to, so that it cannot be created again.  From it `SessionCorrect`,
  `AttemptCorrect`, `ChainCorrect` and the action properties `EndCorrect` and `InstanceCorrect`.
* `LimitsProofs!Invariance`.  `AcceptedOnce` needs `NonceOutlives`: an accepted message
  is too old, or its nonce is kept until it is, for which the code's lifetime of a nonce must exceed
  twice the skew (`LimitAssumption`).  From it `ReplayCorrect`, and from the bindings `RunCorrect`.
* `OperationsProofs!ProjectsHaveChannels`.  A command may delete only channels that no row names.
  That needs to know whose a channel is: `RowsOK` (a channel is named by one row, and a row names only what a command gave up) and
  `CommandsOK` (what a command has made and not registered is its own; what it is about to delete is
  no longer in a row, or is a channel for reviews of that row).  The theorem includes writes that fail
  and deaths of the process, hence its exception for channels in `discarded`.
* `OperationsProofs!OneWatcherRuns`, over the same commands: a process is spawned only by the
  reconciliation under way, and only when there is none (`WatcherInv`).
* `OperationsProofs!BranchesAreFree`.  The map of promises is a queue per repository: there is a
  sequence of the creates that joined and did not leave, in which each waits for the one before it
  (`QueueOf`).  Only its first works (`OneWorks`), so nobody else adds the branch it found free.
* `ProvidersProofs!RunsImplementContract`: the runs of all three providers, under the mapping of
  `MCProviders`, implement `ProviderRuns`, for any number of runs; with `NothingIsLeftBehind` and
  `CancelsFindRuns`.  `Inv` has a part per provider.  Codex: a run at work is the active one or is
  ending, and of two at work both have met (`Driven`, `HaveMet`).  OpenCode: until runs are mixed up,
  one is at work, and it is the active one unless it was cancelled (`OneAtWork`).  Claude: a run
  begins when all before it have a session (`ClaudeOrder`), so that the one that registers last is
  the newest.  The transport plays no part: a request may end in any way at any time.  Codex's
  statuses of a turn do not include "cancelled" (`Statuses`): with it a foreign outcome could break
  the contract.

The thread of a task (`TaskCoordinatorProofs`):

* `DecisionsAuthorized`.  `DecisionIsAuthorized` speaks of answers that were given; `BrokerKept` adds
  that the member who is being looked up acted on a control of that request (`ActorsAre`), and that a
  decision still to be acknowledged is in the record of what members did (`DecisionsStand`).
* `CardFaithful`.  `CardKept` follows a drawing through its awaits: what is scheduled or drawn belongs
  to a renderer that has not finished (`WorkIsWorked`), one that was told of the row has it as its latest
  context (`ToldIsLatest`), what is taken from it is what it draws (`TakenIsLatest`) and then shows
  until another renderer draws there (`DrawnIsShown`).  One card: while no two renderers were at work at
  once, whoever draws has the stored card or none, and sends only if the stored one is gone
  (`StoredIsKnown`), so that every other card is one whose answer was lost (`StraysCounted`).
* `StreamComplete`.  `StreamKept` says where each unit of the text is: the messages that are edited no
  more are the first units, cut into pieces (`PiecedUpTo`); after them comes a full message that is
  being closed, if there is one; the buffer, or in `finish` the chunks, has the rest.  What the message
  still being edited shows does not matter, since it is written over: a message is edited only while
  the buffer is not empty.  That chunks of a buffer are its pieces is `ChunksSplit`; that pieces put
  together are the text is `PiecesAreText`.

What is limited (`LimitsProofs`):

* `RateCorrect`.  `WithinRate` sums the requests of any stretch of time as long as the window.  `Counted`
  adds that the counter is the requests since the window began, one of them at its begin, and that a
  stretch that ends before this window misses the first request of the window before: so a stretch
  meets at most two windows and less than all of the two.
* `ReserveKeptFree`.  `LeavesReserve` is the property; what it needs is how a sum over reservations changes when
  one is added, and when some are removed (`PromisedMore`, `PromisedLess`).

What surrounds the tasks (`PortfolioProofs`):

* `SnapshotAccepted` and `DoneAfterItsRound`.  Each state of a mission has the evidence of the round
  that led to it, in order (`RoundOK`: `RoutedOK` ... `CompletedOK`), in the repository and in what was
  saved of it; what is bound to a mission stays bound.
* `AuthorityReviewed`.  A contract pins no revision that is still to come, and one that pins the
  current revision saw what it allows (`PinOK`); so what a composition accepts was reviewed.
* `PmIsTheSelected`.  Nearly inductive: `PmAgrees` adds that a PM is registered once it is created,
  and that no field of the settings is lost.
* `ChoicesAreStored`, for all three providers.  A change writes one model into the row as it is at that
  moment, not as it was read.  `ChoicesKept` adds that changes in flight and things asked for are numbered in
  their order (`EditsNumbered`, `AsksNumbered`), that a change in flight is in `asks` as it will be stored
  (`AsksStand`), and that a model the panel asks about is that of a provider it can name (`PanelAsks`).  So what
  is stored was asked for, and whatever was asked for later and is done was begun while it was in flight.
* `LaunchAuthorized`.  `ChatInv`: a proposal is with one message or line at a time, or was launched, and
  nowhere twice (`Apart`); one about to be launched was agreed to as it is, for a portfolio with one of
  the capabilities that were offered for it (`Granted`, `WorkOK`).

Around the process (`OperationsProofs`):

* `RetentionCorrect` (an action property).  What is listed is complete and what is found good was not
  damaged when the prune began (`SpoiledOK`); once the deletable artifacts are fixed, they are among those
  found good, and `Keep` newer ones of those are not among them (`Kept`); nothing else deletes, but a backup
  that fails and removes its own staging directory.
* `ExitIsOrderly`.  A lifecycle has one walk, whoever asked for it first (`StopOK`); what is above its
  cursor is released and what is below untouched (`WalkOK`); where the start stands tells what is
  acquired (`StartOK`), so nothing is acquired behind a walk's back.
* `FormerKept` and `ApartAlways`.  `RestoreInv` lists, for each phase of an activation and each file still
  to be moved or removed, which generation is at which path: the former database is at the active path
  or at the rollback path, and the -wal it needs is with it or still to follow.

How sums and sequences are reasoned about.  The induction theorems of the library cannot be used, as
they take an operator.  `WFMin`, which takes a set, can: a lemma about all subsets of a finite set, or all
indices of a sequence, is proved by taking a least one for which it fails (`OverSubsets`,
`GreatestExists`, `PiecesAreText`).  So the sums of `UsageAdmission` and `ActivityRevalidation`
(`MapThenSumSet`, `FoldFunctionOnSet`), the greatest elements of sets and `FlattenSeq` are reasoned about from the
definitions of the community modules.

The assumptions are those of the modules: `RequestAssumption`, `CrashAssumption`, `CardAssumption`,
`StreamAssumption`, `RequestKinds`, `LoopAssumption`, `NoneAssumption`, `OriginAssumption`, `TtlAssumption`,
`MessageAssumption`, `LimitAssumption`, `UsageAssumption`, `MissionAssumption`, `TeamAssumption`,
`ReferentsAssumption`, `SettingsAssumption`, `ProjectSettingsAssumption`, `ChatAssumption`,
`ProjectsAssumption`, `WatcherAssumption`, `WorktreeAssumption`, `RestoreAssumption`, `BackupAssumption`,
`CodexAssumption`, `AcpAssumption` and `ClaudeAssumption`.  Most give the constants their shapes.  These
say more:

* `LimitAssumption`: the lifetime of a nonce exceeds twice the skew, as the service's defaults do.
* `UsageAssumption` and `BackupAssumption`: the windows of a provider and the artifacts in the directory
  are finitely many.
* `MissionAssumption` and `SettingsAssumption`: the names that stand for "nobody" and "none" are no
  mission and no provider.
* `ReferentsAssumption`: a contract refers to others, so where contracts of a kind exist there is one of
  each kind they refer to.

Proved, and in no run: `WaitingIsAsked`, `HoldsFinishOnce`, `TimersAreLive`, `EndedStaysEnded`,
`ActiveChain`, `AttemptOfLaunch`, `InstanceStays`, `OneRunPerInstance` and the type invariants.

Only model-checked:

* liveness (`TasksTerminate`, `WaitingLoopRuns`, `IdleProviderAdmits`, `RequestEnds`,
  `NothingWaitsForever`, `ReviewsAreWatched`), since fairness and ENABLED are out of this prover's reach;
* that the properties of the parts hold in the instances that put parts side by side (`MCTurns`,
  `MCTurnLimits`, `MCPortfolio`, `MCOperations`): the theorems are about the specification of each part;
* what a median or percentile is (`SortSeq`): `ReserveKeptFree` needs of an estimate only that it is
  an interval of numbers, which the guard of `Admit` checks as the columns of the code's table do.

## 5. Not modelled

See the components of `PROJECT.json`.  In the modelled parts:

* the handoff to another provider, `closeTask` (which only a test calls), the held tasks of
  `pendingTaskService.ts`, the failure of `usage.attach`;
* the message and interaction handlers, which route; their textual `/model` and `/provider` write a
  project's settings like the commands in `ProjectSettings`;
* the event adapters, the usage display, capability tables, wording and layout: data without state;
* what providers, Discord, git and the `roborev` CLI do inside; an operation of theirs succeeds,
  fails, or has an effect whose answer is lost where a module says so;
* the SQLite engine: a transaction is atomic and durable, and an orderly close removes the journal.

## 6. What is left

The handoff as further actions of `TaskCoordinator` (its proofs grow with it) and held tasks beside
it.  Every safety property that a run checks is proved.  `DeletedThreadEndsLoop` of `ScheduledLoops`
holds in an instance with one loop, and has no run beside `WaitingLoopRuns`.
