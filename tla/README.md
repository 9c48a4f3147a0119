# Murrmure: a TLA+ model of the kernel and of the hub

Murrmure is a local hub on which people, agents and scripts run *flows* in *spaces*. One Node process (the
daemon) owns two SQLite databases, the files of the runs and one event loop. All of its concurrency is therefore the
interleaving of asynchronous functions at their `await`s, the timers, the child processes, the clients that retry, and
the process that dies and boots again. That is what these modules model: **a step of a model is what the code runs
between two awaits.** The persistence ports are asynchronous interfaces (`PersistencePort`, `HubPersistencePort`); that the bundled
driver answers in a microtask is not part of their contract, so any interleaving at an `await` is taken as possible.
Calls that overlap are real: `run-capacity-races.test.ts` starts runs with `Promise.all`, and the HTTP server serves
requests concurrently.

Paths below are relative to the repository root. `PROJECT.json` maps every definition to the lines it models.

## 1. Inventory

| Component | State it keeps | Operations | Talks to | What is hard about it |
|---|---|---|---|---|
| Kernel command ingress and commit (`packages/runtime-kernel/src/command/handler.ts`) | none of its own; `compoundProgress` and the promises of blocked calls in memory | `execute` (create, transition, append, wait.*, reaction.*), `appendSpaceJournal` | store, policy / schema / condition ports, fan-out | a transaction awaits between its reads and only the flush is atomic; retries of one `command_id` |
| Kernel SQLite store (`packages/runtime-persistence`) | journal, seq counter, snapshots, idempotency rows, checkpoints, outbox, waits, dedup ledger, reaction queue, projections | `withTransaction`, `tailJournal`, `claimFanoutBatch`, `claimReactionBatch`, ... | SQLite | seq allocated without a lock; claims without leases |
| Kernel fan-out (`fanout/dispatch.ts`, `reactions`, `projections`, `waiters`) | the rows above | `dispatchFanout`, queue drain, `ackFanout` | called by `execute` and by the recovery; calls the action port | two calls share a tail; denials; at-least-once versus dedup |
| Wait conditions (`waiters/match.ts`) | per-wait progress, in memory | `matchesWaitCondition` | fan-out | recursive conditions over many entries; restarts |
| Outbox recovery and HTTP adapter (`packages/runtime-adapter-http`) | `up` | `drainOutbox`, then `serve`; builds the provenance | kernel | one failing entry of a batch |
| Run admission and space guard (`packages/hub-core/src/run`, `flow-engine/run-service.ts`) | promise chains per space, in memory; run rows, index | start, create, retry, attach, invoke, apply | persistence, routes, triggers, invoke service | counting before inserting; an apply under a starting run; paths that do not take the guard |
| Orchestration attach and bind (`orchestration/`) | run, gate, ephemeral index entry | attach, approve, reject | admission, gates | read-modify-write of the whole index outside the guard |
| Runs, sessions and gates (`run/service.ts`, `gates/service.ts`, `session/`, `boot-recover.ts`) | `runs.lifecycle`, `gates.status`, `sessions.status`, step memos, the cancel timer | create, cancel, fail, report, gate, resolve, cancelSession, boot passes | everything in the hub | every writer is an unconditional UPDATE after a read |
| Flow step engine (`flow-engine/step-*.ts`, `open-child-step.ts`, `exec-context.ts`) | the compiled catalog, step memos, the execution context, the locks per parent | compile and lint, open, resolve, loop back, yield, resume, complete, fail, append output | runs, invoke service | the context is one column that every writer replaces whole; backward routes; nested steps |
| Action invocation and executors (`invoke/`, `hub-daemon/src/invoke-service.ts`, `packages/executors`) | memo store, queued invokes, credentials, process handles, poll store, timeouts | invoke, flush, poll, complete, cancel, sweep | step engine, runs (reports) | late answers, process trees that ignore signals, retries under one key |
| Meetings (`meetings/`, `live-assignments.ts`) | room snapshot, message numbers, live seats, pending turns, terminals, receipts | convene, say, close, resume, boot passes | invoke service, step engine | nothing serialises the calls on a room; turns in order over three paths |
| Artifacts, uploads and retention (`upload-intent-service.ts`, `step-artifacts.ts`, `consumer-copy.ts`, `artifact-service.ts`) | intents in memory and on disk, work and slot directories, the exchange with its rows | issue, put, cancel, resolve, dispatch, store, load, collect | step engine, file system | several files and rows written one after the other, crashes in between, leases |
| Hooks, triggers and scheduler (`hooks/dispatch.ts`, `trigger-dispatcher.ts`, `flow-scheduler-cron.ts`) | run rows under delivery keys, delivery log, the minutes fired, in memory | post an event, deliver, alert, tick | admission, invoke service | redelivery, partial failure, recursion of alerts, overlapping ticks |
| Hub persistence (`packages/hub-persistence`) | the rows of all hub components | one statement each | SQLite | no transaction spans two awaits |
| Matrix lanes and join (`advance-runner.ts`) | lane runs | create a lane, join | admission | not reachable: see section 7 |
| Federation and cross-space; grants and tokens; notifications and control bus; memory proxy; hub configuration; MCP bridge; contracts; CLI, shell, desktop and view SDK | see `PROJECT.json` | | | see section 7 |

What makes each modelled component correct:

* *kernel*: the journal is dense and append-only and a command has one result; an aggregate moves only along its rule; a committed
  entry is fanned out before it leaves the outbox, crash or not; a wait resolves when, and not before, its condition is satisfied;
* *runs*: a flow never has more active runs than its policy allows, is never re-indexed under an active run and has one run per key; a
  run that has ended stays ended, one that waits has somebody to wait for, and a cancelled session has no active run left;
* *steps*: a working run always has exactly one step that can be resolved, children open once, a completed run has completed its steps;
* *executors*: an assignment is carried out once, reported once, and nothing of a run goes on after its end;
* *meetings*: turns arrive once and in order, receipts are true, a closed room leaves no process and no waiting step behind;
* *artifacts*: accepted bytes are kept, reservations are bounded and given back, a resolved step has its files;
* *delivery*: an event starts what it starts once, and its answer says what happened.

## 2. Modules

| Module | Models | Used by |
|---|---|---|
| `AggregateSpec` | abstract: what the kernel promises of an aggregate (created once; moves along declared transitions, one revision at a time) | refined by `KernelCommit` |
| `KernelCommit` | `RuntimeKernel.execute` up to and including its commit | `MCKernelCommit`, `KernelCommitProofs` |
| `KernelFanout` | `execute` around the commit: block wait, fan-out, queue, acknowledgement; outbox recovery | `MCKernelFanout`, `KernelFanoutProofs` |
| `WaitMatch` | `matchesWaitCondition` with its progress, against a reference definition `Satisfied` | `MCWaitMatch` |
| `RunAdmission` | space guard, starts, applies, and the paths that bypass the guard | `MCRunAdmission`, `RunAdmissionProofs` |
| `RunLifecycle` | every writer of `runs.lifecycle`, `gates.status`, `sessions.status`; boot passes | `MCRunLifecycle`, `RunLifecycleProofs` |
| `StepContracts` | the compiler of step contracts: default branches, routes, catalog; what apply refuses; the lint of dead steps | `StepFlow` |
| `StepFlow` | the step engine on one run, over any flow that `StepContracts` accepts | `MCStepFlow` |
| `Executors` | one step from `invokeAction` to its executor and back: shell, queue and MCP | `MCExecutors`, `ExecutorsProofs` |
| `Meetings` | one room, its seats and their terminals | `MCMeetings`, `MeetingsProofs` |
| `Artifacts` | uploads, resolve, promotion, consumer copies and the exchange | `MCArtifacts`, `ArtifactsProofs` |
| `Delivery` | what an event or the clock sets going in a space | `MCDelivery`, `DeliveryProofs` |

How they fit together: each module has the whole of its own component and the others as the steps it can observe.
`KernelFanout` has the commit of `KernelCommit` as one step: the proofs about `KernelCommit` (the journal is dense, what
is committed never changes) are what justifies a journal that is a sequence there. `RunAdmission` lets a run that has not ended
move freely (`RequireInput`, `Resume`, `EndRun`); `RunLifecycle` has the detail of those writes. `StepFlow` has an executor as
the holder of an assignment that may report; `Executors` has how the assignment gets there and how late a report may come.
`Delivery` has the section of the space guard as one step, which `RunAdmission` opens up. `Artifacts` has the memo and the context of one
step, which `StepFlow` has for all. Deliveries to the seats of a meeting are in `Meetings`.

### KernelCommit

A process is a call of `execute`. Its steps: `CheckIdempotency`, `EvaluatePolicy`, `HandleCreate` or
`LoadSnapshot` + `DecideTransition` / `DecideEventAppend`, then the transaction: `TxAppend` (reads the next seq),
`TxCas` (reads the snapshot's revision; a conflict drafts the denial *beside* the success entry, as
`commitSuccess` does), `TxInsertIdempotency`, and `FlushOk` / `FlushThrows`, the only atomic part. The flush throws when
the seq has been taken by another transaction: the primary key of `journal_events` is the only concurrency control there
is. `Crash` drops calls and drafts. Policy, schema and guard expressions are nondeterministic verdicts; payloads are left
out. `MaxSeq` bounds the journal (`Room`: a call appends at most two entries).

### KernelFanout

A worker is a call or the recovery (`Rec`). A call registers its block wait (`RegisterBlockWait`, `RegisterDeferred`),
reads the maximum seq (`ReadMaxSeq`), commits (`CommitEntry` and one action per wait and reaction command),
reads the tail after that seq (`TailJournal`, so also what *others* committed), and per entry settles waits (`UpdateWait`),
queues reactions behind the dedup ledger (`ListReactions`, `DedupRead`, `EnqueueReaction`) and projects
(`MarkProjection`, `LoadProjection`, `FlushProjection`); it then drains the reaction queue, acknowledges the tail and
returns, or awaits its promise (`Unblock`). The recovery does the same for the outbox rows that are due, and the daemon
serves only afterwards. `Slots` is the number of calls that run at the same time, `MaxCrashes` and `MaxThrows` bound
the failures; `After` lets an instance say which call a client makes after which answer. Reactions are taken with
`dedup.required` and a window that does not expire. The LIMIT 1000 of `tailJournal` is not modelled.

### WaitMatch

`Match` is the recursive matcher; the progress set is one mutable object in the code, so nested calls receive and return
it. `Conditions` in the passing run: `all_of` and `any_of` over one to three leaves and `all_of` over `any_of`, for all
sequences of four kinds of entry.

### RunAdmission

`guard` holds the promise chains, one per space *and per guard object*: `main.ts` creates one guard for routes,
triggers and applies, the invoke service uses the module's default. `With` enqueues a section; a section runs when its
call is the head (`Holds`) and awaits between its steps. `start` is `startFlowRun` (idempotency key, entry, run key,
policy, count, insert), `create` / `retry` / `attach` / `invoke` are `admitAndCreateRun`, `apply` is the apply route
(quiescence, candidate, commit). Outside the guard: `LaneRead` / `LaneCreate` (matrix lanes), `BindRead` ... `StartBoundRun`
(orchestration bind), `ParkRun`, and the lifecycle of runs. A run is named after the call that inserted it. `Restart` is
the death of the daemon together with `failOrphanedWorkingRuns`; the code runs that pass beside the listener, and
that interleaving is in `RunLifecycle`. Runs bound to a meeting, which that pass skips, are not distinguished.

### RunLifecycle

One session, its runs and gates. A worker is an API call or one of the two boot passes. Each action is one await-free
piece of `createRun`, `attachOrchestration`, `createPendingGate`, `resolveGate`, `bindOrchestrationToRun`, `cancelRun`,
`failRunWithNotification`, `resolveFlowStep` (its lifecycle writes only), the journal route's memo update,
`maybeCompleteHeadlessRun`, `refreshSessionStatus`, `cancelSession` with its timer, `failOrphanedWorkingRuns` and
`reconcileHeadlessRuns`. `SetLife` is unconditional, as `updateRunLifecycle` is. A behaviour follows one of the
`Scenarios`: which calls are made, how many at a time, after which, and how many crashes.

### StepContracts and StepFlow

`StepContracts` is pure: `compileStepContractCatalog` fills the default branches, gives every branch its route (`compileBranchRoutes`,
`resolveTopLevelDefaultRoutes`) and records ancestors; `validateSpaceApplyBundle` is what apply refuses, `lintDeadSteps` what it
reports. A manifest is data: steps, their parents, the control of each declared branch.

`StepFlow` runs one flow. `life` is the run row, `memo` the rows of the steps, `ctx` the column `exec_context` (iterations, requests
to open a child, outputs), `assigned` who has been handed a step, `lock` the in-memory locks of `openChildStep`. Clients call resolve, open
a child, cancel, or report as the executor of a step they hold; a stream appends executor output and writes back the whole
context it read. `Resolve` is `resolveFlowStep` (row, memos, memo write, context, ancestors), `applyResolvedRoutes` its routes,
`openStepContract` the activation of a step, `openChildStep` the locked section with `transitionNestedChild`. A report only comes from the holder
of an assignment; late reports are `Executors`' subject. `MaxOpens` bounds the loops. `Exclusive` names the kinds of call that the
instance does not overlap, `PerParent` keeps overlapping requests to one parent: the lock is per parent and the context per run.

### Executors

One run at one step with an executor, which may yield to a nested human step and be assigned again when that resumes it. `setup` is
what the index says (executor type, `fail_fast` or `queue_until_executor`, completion `explicit`, `auto` or `auto_nested`, last
step). `Invoke` ... `DispatchRemote` is `invokeAction` from its lookup of the memo to the port of the executor (`ClientInvoke` is the same from
outside, by the API or relayed by a peer hub), `McpConnect`, `FlushNext` and `FlushThrows` the queued invokes, `ProcessExits`, `ProcessCloses`,
`ProcessTimesOut` and `Escalate` the shell's process group (a leader, and a descendant that may ignore SIGTERM), `Poll`, `GoAway`,
`QueueAnswer` and `completeDispatchedAction` the workers, `ProjectRead` / `ProjectWrite` the journal projection of a report,
`SweepExpired` ... `FailRunEnd` the timeout sweep, and `OpenChild`, `ResumeParent`, `ResolveStep`, `CompleteRun`, `CancelRun` what the engine does to
the step meanwhile. `Calls` bounds the invokes.

### Meetings

`status` and `bound` are the room and the flow step that convened it; `row` and `passed` the journal rows of messages and their numbers,
which are allocated before the row exists; `seat` and `pending` are the maps of `InMemoryLiveAssignments`, `proc` the terminals.
Convene, resume, close and say check, journal and write in separate steps; a dispatch goes from target to target, a message in the order of its
list and a wake in that of the roster (`Target`: `FindLive`, `notify`, or
`Admit`, `StartSeat`, `Invoke`); `attachController` hands the pending turns to the terminal, `PtyIdle` types the next one. `Crash`,
`failOrphanedWorkingRuns` and `rehydrateOpenMeetings` are the death of the hub and its boot, with a boot pass for each crash (`Boots`), whose dispatches are
known by it. `Plans` says which calls meet. The roster is not empty (`contracts/src/entities/meeting.ts:29`) and has no seat twice (`rejectDuplicateSeats`).

### Artifacts

`live`, `idem` and `obj` are the maps of `UploadIntentService` (a record object outlives its place in the map, as in the code), `disk` and
`held` its files, `reap` the lease sweeper; `work`, `stable` and `inputs` the directories of the step and of its consumer; `memo` and `bag` what the run
knows; `rows` and `bytes` the exchange. Issue is serialised (`lock`), everything else checks and then awaits the file system: `AcceptCheck` ...
`AcceptPersist` (put), `prepareResolve` ... `PreparedPersist`, `resolveFlowStep`, `PromoteRead` / `PromoteCopy` / `PromoteUnlink`, `ResolveMemo`,
`ResolveExec`, `materializeConsumerCopy`, `PutFind` ... `PutRow`, `GcList` ... `GcRow`, `LoadRow` / `LoadBytes`. Files have size one. `Crash` may come between any two.

### Delivery

A post journals its event, then delivers to the listeners in order (`dispatchHook`, `createSession`, `CreateHookRun`, `invokeAction`,
`startFlowFromHook`, `handlerDelivered`, or `deliveryThrows`), then to the triggers (`executeTrigger`, `emitIntegrationFailure`, nested dispatches on
`stack`), then starts flows (`startFlowRun`, `dispatchFlowSteps`), then answers. A tick notes a schedule as fired and starts its flow.
`MaxThrows`, `MaxCrashes`, `MaxMinute` are bounds; `MaxDepth` is the depth at which nested dispatches are no longer told apart (the
stack stays at that depth, so an endless recursion is a cycle that never answers); `FiredCap` is the code's 10000.

## 3. Runs

`tlc -workers 2 -config <cfg> <module>` repeats any of them; the longest takes a little over two minutes.

| Run | Instance | Shows |
|---|---|---|
| `kernel_commit` | 2 processes, 4 commands (a creation, two transitions that branch from one state, an append), 2 aggregates, `MaxSeq` 5, any number of crashes; processes symmetric; 1.4 M states | `TypeOK`, `JournalDense`, `CommittedIsForever`, `OneResultPerCommand`, `SnapshotIsLastWon`, and `AggregateRefinement` (implements `AggregateSpec`) |
| `kernel_fanout` | 2 slots: register; then a wait and a transition that overlap; then cancel, disable; 1 crash, 1 throw; 1.4 M states | `AckedIsFannedOut`, `BootDrainsOutbox` |
| `kernel_fanout_serial` | 1 slot: register, a call blocked on its own entry, a replay, a call blocked on a later approval; 1 crash, 1 throw; fair; 96 k states | `OneDelivery`, `ProjectionComplete`, `NoLostWakeup`, `RestartFansOut`, `BlockedCallReturns` |
| `wait_match` | 4 kinds of entry, conditions to depth two, 1 restart | `ResolvedExactly` |
| `run_admission` | two starts with one key, a retry, a create, an apply that moves the limit between two and one; any number of restarts; 0.8 M states | `CapacityRespected`, `PinnedToApplied`, `OneRunPerKey`, `ApplyIsQuiescent` |
| `run_admission_bypasses` | attach, bind, lane and two starts with one run key; fair; 74 k states | `QueuedCallReturns` |
| `run_lifecycle` | four scenarios: a session cancel beside an attach, its approval and its rejection (3 slots); gates, cancel, step and create (1 slot); reports and a timeout, or a session cancel, with a crash and both boot passes (1 slot); fair; 288 k states | `InputHasGate`, `CompletedAsReported`, `CancelReachesRuns` |
| `step_flow` | two top-level steps, the first with a child and a grandchild, under every control that a custom branch may have and apply accepts; 2 clients, 1 stream, 2 keys, 2 openings of a step; 0.7 M states | `AtRest`, `ChildrenOpenOnce`, `CompletedInFull` |
| `executors` | 2 invokes, 2 workers, all executor types, deliveries and completion modes; workers symmetric; 2.7 M states | `SignalledTreeIsReaped`, `EndedIsQuiet`, `CarriedOutOnce` |
| `meetings` | two seats, one without a handler; three plans: two messages meet, a room is closed and resumed under a message, the hub crashes; fair; 145 k states | `TurnsInOrder`, `ReceiptsAreTrue`, `ReachableProcess`, `ClosedEndsStep` |
| `artifacts` | 2 intents, 2 files, 3 transfers; six plans (requests for intents, an interrupted client, transfers against a cancel, resolves that meet, a retry against a cancel, stores against a collector); fair; 165 k states | `AcceptedIsHeld`, `ReservationsBounded`, `ResolvedHasFiles`, `ReadersSeeWhole`, `ReservationsReleased` |
| `delivery` | an event posted twice to a handler and two hooks, a trigger and a flow; or three ticks over three minutes of the clock, two schedules; 1 throw, 1 crash; fair; 303 k states | `StartedOnce`, `AnswersAreTrue`, `PostIsAnswered` |

Some of these are conjunctions of parts that have names and comments of their own, and that can be checked one by one:

| Property | Parts |
|---|---|
| `WaitMatch.ResolvedExactly` | `NeverEarly`, `ProgressKept` |
| `StepFlow.AtRest` | `OneOpenStep`, `NoStaleAssignment`, `DeadStepsStayClosed` |
| `StepFlow.ChildrenOpenOnce` | `OneChildPerParent`, `KeyOpensOnce`, `IterationsCounted` |
| `Executors.CarriedOutOnce` | `OneDispatchPerKey`, `QueuedIsKept`, `OneReportPerTask` |
| `Meetings.ReceiptsAreTrue` | `OneReceipt`, `DeliveredIsHeld` |
| `Artifacts.ReservationsBounded` | `OneIntentPerKey`, `CeilingKept` |
| `Artifacts.ResolvedHasFiles` | `ListedIsStored`, `OkHasFiles` |
| `Artifacts.ReadersSeeWhole` | `HandlerSeesWhole`, `ReferenceServes` |
| `Delivery.StartedOnce` | `OneRunPerDelivery`, `OneStartPerMinute` |
| `Delivery.AnswersAreTrue` | `ResultsAreTrue`, `EveryListenerServed` |

Every module with state but `WaitMatch` has a `TypeOK`. It is checked by `kernel_commit` and proved for `KernelCommit`, `KernelFanout`, `RunAdmission`,
`RunLifecycle`, `Executors`, `Artifacts` and `Meetings`; the others are documentation of the state and hold in the runs above when they are added as an `INVARIANT`.

**Exceptions inside properties.** A property that the code has only while certain calls do not overlap says so with a history variable
(`overlap`, `doubled`, `undead`, `cut`, `raced`, `reput`, `overtaken`) instead of leaving those behaviours out of the model; section 6 has the property
without the exception and what then goes wrong.

**Why the bounds are enough.** The protocols are between *pairs* of workers over one row: two processes and two branching
transitions already give every order of reads and flushes on one aggregate, and the theorems of section 5 lift most of the
invariants to every number of calls. A start, its retry and a create against a limit that falls from two to one reach the
limit from both sides. Three levels of steps and two openings give a yield below a yield and a loop back over both. One crash can hit every step of
every call; a crash during the recovery needs two, and `kernel_fanout` with
`MaxCrashes = 2` finds no error either (4.3 M states, four and a half minutes, which is why the configuration has one). A bound that hides something is a bound that a mutant survives: every property, and almost every
part of a conjunction, has a mutant of the modelled code (operators marked *Mutant*, listed in `PROJECT.json`) that it catches in the same instance.

**What "serial" means.** Several properties hold only while one call runs at a time, and the code does not ensure that. They are
checked for one slot, with crashes, because that is what the code does promise there, and the overlapping case that breaks them
is kept as a configuration of its own (section 6). In `step_flow` the calls that resolve, cancel and report do not overlap one another, while requests to open a child and the
stream overlap freely.

**Fairness.** Weak fairness of the continuations of each call, of the timers and sweeps, of the boot passes and of the SIGKILL that follows a
stopped terminal: the event loop runs a continuation that is ready, and `setTimeout` fires. None on clients, crashes, exceptions,
retries that fall due or processes that end by themselves.
Deadlock is not checked: the system rests when all its calls have been answered.

## 4. Properties and hazards

`PROJECT.json` lists the hazards with the line where each bites. They fall in six groups.

* *Reads that are old when they are used*: seq, revision and idempotency row (`KernelCommit`), flow entry, policy and count
  (`RunAdmission`), lifecycle and memo (`RunLifecycle`), the whole execution context (`StepFlow`), the record of an intent (`Artifacts`).
* *Work shared by two workers*: overlapping tails (`AckedIsFannedOut`, `OneDelivery`, `ProjectionComplete`), requests for one
  child or one intent (`ChildrenOpenOnce`, `ReservationsBounded`), two dispatches to one seat (`ReachableProcess`).
* *Crash between two writes*: commit and fan-out, claim and delivery, gate and lifecycle, session mark and sweep, file and
  record (`AcceptedIsHeld`), room and step (`ClosedEndsStep`), run and receipt (`StartedOnce`).
* *Late and repeated answers*: timeouts against completions (`CompletedAsReported`, `CarriedOutOnce`), redelivered events, retried resolves (`ResolvedHasFiles`).
* *One of several fails*: targets of a message, listeners of an event, entries of a recovery batch, queued invokes of a flush.
* *Somebody waits*: blocked calls, chains of the guard, runs that wait for a person, cancelled sessions, reservations of
  clients that went away, a post whose alerts set off triggers.

## 5. Proofs

Checked by TLAPS (`tlapm <module>.tla`), for every value of the constants that satisfies the `ASSUME` of the model. Eight modules hold
them, one for each model: `KernelCommitProofs`, `KernelFanoutProofs`, `RunAdmissionProofs`, `RunLifecycleProofs`, `ExecutorsProofs`,
`DeliveryProofs`, `ArtifactsProofs`, `MeetingsProofs`. Each has an inductive invariant made of named parts, which TLC checked on the instances of section 3 before it was
proved, and one lemma per action and part. A theorem with `ASSUME <hypothesis> PROVE` says under which use of the system
the property holds; the hypothesis is there because the code breaks the property without it, and TLC shows how.

| Theorem | Property | Hypothesis |
|---|---|---|
| `KernelCommitProofs` `TypeCorrect`, `JournalIsDense`, `CommandsHaveOneResult`, `SnapshotFollowsJournal`, `NothingCommittedChanges`, `ImplementsAggregate` | all of `kernel_commit` | |
| `KernelFanoutProofs` `FanoutTypes`, `ServesDrained` | `TypeOK`, `BootDrainsOutbox` | |
| `KernelFanoutProofs` `AckedHasFannedOut` | `AckedIsFannedOut` | `Unblocked` |
| `KernelFanoutProofs` `EffectsHappenOnce`, `ProjectionsAreComplete`, `NoWakeupIsLost` | `OneDelivery`, `ProjectionComplete`, `NoLostWakeup` | `Slots = 1` |
| `RunAdmissionProofs` `TypeCorrect` | `TypeOK` | |
| `RunAdmissionProofs` `CapacityHolds`, `RunsStayPinned`, `AppliesAreQuiescent` | `CapacityRespected`, `PinnedToApplied`, `ApplyIsQuiescent` | `Serialised` |
| `RunAdmissionProofs` `KeysDeduplicate` | `OneRunPerKey` | `KeysAreLocal` |
| `RunLifecycleProofs` `LifecycleTypes` | `TypeOK` | |
| `RunLifecycleProofs` `CompletedRunsAreReported` | `CompletedAsReported` | `ReportsApart` |
| `RunLifecycleProofs` `WaitingRunsHaveGates` | `InputHasGate` | `NoAttach` |
| `ExecutorsProofs` `ExecutorsTypes`, `TreeIsReaped`, `RunEndsQuietly`, `InvokeIsCarriedOutOnce` | `TypeOK`, `SignalledTreeIsReaped`, `EndedIsQuiet`, `CarriedOutOnce` | |
| `DeliveryProofs` `AnswersHold` | `AnswersAreTrue` | |
| `DeliveryProofs` `NothingStartsTwice` (from `DeliveredOnce`, `ScheduledOnce`) | `StartedOnce` | `Redelivered`, `FiredFits` |
| `ArtifactsProofs` `ArtifactTypes`, `AcceptedFilesAreHeld`, `ReservationsAreBounded`, `ResolvedStepsHaveFiles` | `TypeOK`, `AcceptedIsHeld`, `ReservationsBounded`, `ResolvedHasFiles` | |
| `ArtifactsProofs` `ReadersAreGivenWhole` | `ReadersSeeWhole` | `OneDispatch`, `SweepsApart` |
| `MeetingsProofs` `MeetingTypes`, `TurnsAreInOrder`, `ReceiptsTellTruth`, `ProcessesAreReachable` | `TypeOK`, `TurnsInOrder`, `ReceiptsAreTrue`, `ReachableProcess` | |

**KernelCommitProofs.** From `RuleAssumption`, `CmdAssumption`, `MaxSeqAssumption`, `NoneAssumption` (the rule's transitions are between its
states, commands have their shape, null is a value of its own): `TypeCorrect`, `JournalIsDense`, `CommandsHaveOneResult`,
`SnapshotFollowsJournal`, `NothingCommittedChanges`, and `ImplementsAggregate` (`Spec => AggregateRefinement`).
None of these is inductive alone: a flush is right only if what the transaction read is still true. The strengthening `IInv` adds

* `SeqOK`: a transaction's seq is at most the next one, and `DraftSeqs` follow it;
* `ReadsFresh`: *if* the seq a transaction holds is still free, then nothing has been committed since it read it, so its
  compare-and-set verdict and its idempotency read are those of the current rows;
* `ViewOK`, `MoveOK`, `CreationOK`, `WorkOK`: the write a call is about to make follows the rule from the snapshot it loaded, and a
  creation has an id nobody else has.

In other words, the primary key on `seq` works as an optimistic lock over the whole database: every transaction allocates a seq, so any
commit in between makes the flush throw. This is what the refinement rests on too: a flush that succeeds is a `Create` or an `Apply` of
`AggregateSpec`, everything else is a stutter.

**RunAdmissionProofs.** From `AdmissionAssumption`: `TypeCorrect` for all kinds of calls; and under `Serialised` (every call is a start,
create, retry or apply, that is, all of them use the daemon's guard) `CapacityHolds`, `RunsStayPinned` and `AppliesAreQuiescent`. `Serialised` is
needed: section 6 shows what each bypass breaks. The strengthening says that whoever is inside a section is the head of the
space's chain (`HoldsInside`) and what it has read is still so: `EntryFresh`, `PolicyFresh`, `RoomLeft` (the number of active runs is below the
limit at an insert), `StillQuiescent` (no active run at an index commit). Between a head's read and its write only it can insert a
run or replace the index, and what happens outside (runs ending, waiting, resuming, the daemon restarting) only lowers the number of active
runs or leaves it.

That one run is made under an idempotency key (`KeysDeduplicate`) does not need `Serialised`: only a start stores a key, so
the calls that bypass the guard do no harm. It needs `KeysAreLocal`, that starts of one flow under one key are made in one space, because the look-up
goes across spaces and each space has a chain of its own. The invariant says that a start past its look-up is the head of its chain, so
no other start with its key can be past the same look-up.

**KernelFanoutProofs.** `TypeInv` has the types of the tables and of the locals of each worker (`LocalTypes`) and what a worker's reads have to do
with the rows they came from (`WorkOK`, `CallWork`). Two arguments follow, of opposite kinds.

*Any number of calls.* `AckedIsFannedOut` rests on `FanInv`: for the entry that a worker is at, everything that the entry still
needs is in the worker's `todo`; entries before it in the tail are done; what is done for an entry stays done, whoever did it. `Unblocked` is the
hypothesis (no call blocks, each reaction is registered once): a blocked call that is denied skips the rest of its tail, which is then
acknowledged, and registering a reaction again moves its watermark, so that entries an earlier registration owed are no longer matched.

*One call at a time* (`Slots = 1`). `EffectsOK` (an item of the queue is in the ledger, and a claimed one that was delivered is the one its worker is about to complete), `ProjOK` (the
prior state that a worker loaded is still the stored one) and `WakeOK` (a wait row is resolved only after the promise of its call, and a call makes its promise
while its wait is pending). With two calls each of these is read by one, changed by the other and then written: section 6 has the runs. Crashes and throws are
without bound in both.

**RunLifecycleProofs.** Every writer of a run is an unconditional update, so `Inv` only has where a call can be and on which run it works
(`Types`, `Places`, `RoutesFlow`), that with one slot nobody else is inside a handler (`Alone`), that a call begins after those it waits for
(`Ordered`), and that the boot passes rest until a crash (`BootRests`). `MemosFresh` adds for `CompletedAsReported` that a report
writes back the memo that is stored, for which `ReportsApart` is needed: two reports of one run that overlap overwrite each
other's memo after the run was completed. `Waits` adds for `InputHasGate` that a run which waits has a pending gate or is in the hands of the call that decided
it; `NoAttach` leaves out the bind that is refused after its gate was approved (section 6, `InputHasGate`).

**ExecutorsProofs.** No hypothesis. `Types` and `JobsOK` say what a worker's record can be at each of its steps; `TreesOK` that a signalled
process tree which is alive has a kill timer, which is all of `SignalledTreeIsReaped`; `Overtaken`, `TasksOK`, `KeyOK` and `QueuedOK` say where the
calls under one idempotency key can be between their first step and the executor: of calls that do not overlap one is on its way or queued, and none gets past the memo once one was sent (`history.overlap`
is the exception the property names).

**DeliveryProofs.** `Types`, and one part per promise. `Answers`: the list of outcomes is as long as the listeners that were passed, and each
outcome is backed by rows that no step removes. `Deliveries`: a post that is about to make a run knows that the delivery has none;
`Redelivered` (an event is posted again only by a client whose post has ended) is needed because overlapping posts both miss the run.
`Schedule`: a tick that is about to start a flow noted the minute itself; `FiredFits` says that the flows and minutes there are fit the
memory of the scheduler, which is emptied when it grows past `FiredCap`: a tick in the same minute after that would start its flow again.

**ArtifactsProofs.** The invariant goes along the life of a file. `Base` (`Types`, `Places`, `Records`, `Removals`): the directory of an intent is deleted
only after the intent has left the map, and only by who removed it. `Transfer`: a transfer writes before it marks, so a marked file is held (`AcceptedIsHeld`).
`Fresh` and `Issues`: an issue holds the lock from its sum to its record, so its sum is an upper bound until it inserts. `Room`: what is
promoted was reserved, by an intent that is prepared and still in the map. These give `ReservationsBounded`. `Serve` (`Lists`, `Promotion`,
`ListedIsStored`, `Answered`): the files a resolve has passed are in the slot directory, and a completed memo has the files in the
context or a call that is about to write them. `Given`, `Sweeps` and `Registering` are for the readers: a consumer's directory has what
its dispatch has copied, an expired row is only deleted by a sweep that listed it, and a registration writes bytes that nobody else writes
before it inserts the row. `OneDispatch`: a second dispatch clears the directory the first consumer was given. `SweepsApart`: of two sweeps that overlap, one
may delete the bytes of an id that was collected by the other and stored again.

**MeetingsProofs.** From `MeetingAssumption`, without a hypothesis, for any roster, any number of calls at once and any plan. `Base`: a dispatch
launches a process only for the seat its loop is at, so a process exists only behind a loop (`Launched`), and a boot pass that is still to come
has launched none (`ToCome`); a seat with a controller has nothing pending, and one without has notified nothing (`Seatings`). `Tells`: at each step of the loop the
receipts of a message are those of the targets it has come past (`Receipts`), and whatever is pending or notified has its receipt (`Noted`), so that
a message is never taken for one that was notified already; what leaves a queue is given or recorded as dropped (`DeliveredIsHeld`). `OrderKept`: what is pending, and
what a process was given followed by its queue, are each the notifies of the seat with some left out. `Seatings` is what makes the two fit: when a
process is attached it is given all that is pending and nothing is left there, and from then on turns are typed directly. `Reaches`: a seat that is being started by one
dispatch only has no controller when its process is attached, so none is overwritten. The actions share five frames
(`Advance`, `InLoop`, `Cleared`, `Notified`, `Attached`); order is an embedding of positions (`IsSubSeq`), for which four lemmas about
sequences (`EmptyWithin`, `WithinLonger`, `BothLonger`, `PartWithin`) are enough.

*What the proofs changed in the models.* `CeilingKept` used to say that the ceiling is kept *between* resolves. The proof did not go
through and a larger instance (ceiling 2, one file per intent, three intents) shows why: a cancel removes an intent while its resolve is still
staging, an issue takes the room that was given back, and then the promotion lands. The property now names that exception (`history.cut`). In
`KernelFanout` the tail, the entries left and the claimed items are sets of seqs and of queue positions instead of sequences: the code always
takes the smallest, and a set says that without an induction over lists. In `Meetings` the targets left are a set for the same reason, taken in
the order of the message (it was that of the roster for every dispatch); a hub that crashes twice has two boot passes, where the one pass
there was would have given the processes of a second boot the names of the first one's; and a subsequence is an embedding of positions instead of a recursive comparison.

**Only model-checked**: liveness (`RestartFansOut`, `BlockedCallReturns`, `QueuedCallReturns`, `CancelReachesRuns`, `ClosedEndsStep`,
`ReservationsReleased`, `PostIsAnswered`), since fairness and `ENABLED` are out of the prover's reach; `WaitMatch`, whose recursion on
nested conditions needs induction over data; and the invariants of `StepFlow`, which need facts about every catalog that the compiler
produces (reachability through its routes): the next part of the plan.

## 6. Where code and documents disagree

Each row is reproduced by the configuration named: it activates one property, and the others it lists are commented out, to be
checked one at a time. `spec` is `studio-specs/current/kernel/spec.md`, `product` is `studio-specs/current/product/spec.md`, `handlers`,
`flow-engine`, `step-contract` and `artifacts` are files of `studio-specs/current/bridges/`, `meetings` and `triggers` are the `spec.md` of
`studio-specs/current/meetings` and `triggers`.

### Kernel

| Property | Code | Document | Configuration |
|---|---|---|---|
| `SnapshotIsFold` | `handler.ts:535` commits the denial of a lost compare-and-set together with the success entry; the fold counts both | spec:429 "abort TX, retry as denial", spec:391 "Snapshot = fold(journal)" | `MCKernelCommit_Docs` |
| `OneEffectPerCommand` | `handler.ts:547`: the second of two calls with one `command_id` returns the stored result and still flushes its entry | spec:521 K12 | `MCKernelCommit_Docs` |
| `DenialReachesItsOwner` | `dispatch.ts:42` tests that a wait is bound, not to whom | spec:466 K14 | `MCKernelFanout_Racing` |
| `ReturnedIsFannedOut` | `handler.ts:83` returns a policy denial before the fan-out | spec:441 "Prohibited: skipping step 4 for denials" | `MCKernelFanout_Racing` |
| `AckedIsFannedOut` | `dispatch.ts:35` skips a denied blocking call's whole tail, which is then acknowledged | spec:524 K15 | `MCKernelFanout_Racing` |
| `NoLostWakeup` | `handler.ts:252`: the wait row precedes the promise, and `execute` registers a second promise over it | spec:463 | `MCKernelFanout_Racing` |
| `OneDelivery` | `dispatch.ts:77` reads the ledger, writes it at the flush | spec:527 K18 | `MCKernelFanout_Reacting` |
| `ProjectionComplete` | `projections/dispatcher.ts:36`: two transactions extend the same prior state | `incremental-rebuild.test.ts:22` "incremental matches rebuild (K9)" | `MCKernelFanout_Reacting` |
| `DeliveredOnceAcked` | `store.ts:555`: a claimed item is never returned to pending; after a crash the ledger keeps it from being queued again | spec:43 "at-least-once" | `MCKernelFanout_Reacting` |
| `BlockedCallReturns` | `handler.ts:244`: the wait's aggregate comes from the provenance, which the HTTP adapter leaves empty | spec:463 "hold until match OR bound denial OR timeout" | `MCKernelFanout_OverHttp` |
| `NeverEarly` | `match.ts:48`: a nested `all_of` shares its parent's keys | spec:458 | `MCWaitMatch_Docs` |
| `ResolvedWhenSatisfied` | `handler.ts:58`: progress is in memory only | spec:458 | `MCWaitMatch_Docs` |

### Runs and steps

| Property | Code | Document | Configuration |
|---|---|---|---|
| `ApplyIsQuiescent` | `invoke-service.ts:675` passes no guard, the apply route has another one | `run/service.ts:308` "still holds the guard so apply quiescence is sound" | `MCRunAdmission_ApplyIsQuiescent` |
| `CapacityRespected` | `advance-runner.ts:255` inserts lanes without admission | handlers:72, `space-guard.ts:6` | `MCRunAdmission_CapacityRespected` |
| `PinnedToApplied` | `bind.ts:30` replaces the index from an old copy, outside the guard | handlers:142 | `MCRunAdmission_PinnedToApplied` |
| `AnswerIsOwnFlow` | `run-service.ts:81` looks the key up across flows | product:411 "`Idempotency-Key` + `flow_id`" | `MCRunAdmission_AnswerIsOwnFlow` |
| `OneRunPerKey` | the same look-up, in two spaces with two chains | product:419 | `MCRunAdmission_OneRunPerKey` |
| `NeverRestarted` | `gates/service.ts:90` parks a run that has ended | product:202 "never restarted" | `MCRunLifecycle_Docs` |
| `GateAnsweredOnce` | `gates/service.ts:220` checks, awaits, and writes unconditionally | `gates/service.ts:223` "Gate already resolved" | `MCRunLifecycle_Docs` |
| `InputHasGate` | `gates/service.ts:286`: a bind error after the gate is approved | product:632, product:209 | `MCRunLifecycle_Docs` |
| `MonotonicMemos` | `routes/sessions/index.ts:758`: memo read before awaits, upserted after | step-contract:392 "never regress" | `MCRunLifecycle_Docs` |
| `CancelReachesRuns` | `run/service.ts:438`: the second sweep is a `setTimeout`; boot visits working runs only | product:249 | `MCRunLifecycle_Docs` |
| `CompletedRouteEndsRun` | `step-resolve.ts:650` returns unless every top-level step is done, also for a branch with that route | step-contract:125 "`route: { run: completed }` \| Run ends successfully", flow-engine:47 | `MCStepFlow_Docs` |
| `FreshAssignment` | `idempotency.ts:18`: the assignment after a resume has the key of the first and is answered from its memo | flow-engine:49 "return creates a fresh parent assignment", step-contract:396 | `MCExecutors_Docs` |
| `YieldKeepsRun` | the exit of the process that the yield stopped is reported as a failure of the run | flow-engine:59, step-contract:147 | `MCExecutors_Docs` |
| `HumanWaitExcluded` | `timeout-sweep.ts:34` reads the memo, awaits, and fails the run | `timeout-scheduler.ts:155` "Human review wait time is excluded from this limit." | `MCExecutors_Docs` |

### Meetings, artifacts, delivery

| Property | Code | Document | Configuration |
|---|---|---|---|
| `JoinOnce` | two dispatches find no live seat and each starts a process | meetings:433 "in one runtime-owned PTY" | `MCMeetings_Docs` |
| `ClosedIsQuiet` | a dispatch that began before the close starts a seat after it | meetings:320 "Close revokes every live seat immediately" | `MCMeetings_Docs` |
| `ReplacementKept` | `invoke-service.ts:491`: the exit of the old process revokes the seat of the new one | meetings:349 "starts a replacement process" | `MCMeetings_Docs` |
| `TranscriptComplete` | `meetings/journal.ts:22`: the number is allocated first and reaches the row last, so a reader's cursor can pass it | meetings:375 `up_to_seq` | `MCMeetings_Docs` |
| `CancelledIsReleased` | a removal leaves the map before the directory, and a request that began earlier may write its record again; after a crash the boot loads the intent | artifacts:240 "releases reservations" | `MCArtifacts_Docs` |
| `StableAfterResolve` | two resolves that overlap promote and unlink each other's files | step-contract:407 "Stable after resolve" | `MCArtifacts_Docs` |
| `ReplayMismatchRejected` | two transfers of a file overlap; the bytes of one and the digest of the other stay | artifacts:227 "replay mismatches are rejected" | `MCArtifacts_Docs` |
| `RetryReconciles` | a crash after the memo and before the context: the retry is answered ok, the files are not listed | artifacts:243 "a post-commit retry reconciles" | `MCArtifacts_Docs` |
| `ImmutableReference` | `artifact-service.ts:170`: a put with a `transfer_id` in use replaces its bytes | artifacts:187 "immutable artifact references" | `MCArtifacts_Docs` |
| `OneRunPerDelivery` | overlapping posts of one event both miss the run | product:419 "must not produce duplicate hook effects **and** a duplicate Run" | `MCDelivery_Docs` |
| `OneFlowStartPerEvent` | `matchFlowEventStarts` passes no key | product:419 | `MCDelivery_Docs` |
| `FailureIsAnnounced` | a failed listener leaves no alert | triggers:71, triggers:132 "`integration_failure` event" | `MCDelivery_Docs` |
| `DuplicateIsDropped` | `checkDedup` looks for an outcome that is never written | triggers:126 "dedup drop in delivery log" | `MCDelivery_Docs` |
| `DeliveredFlowIsStarted` | a hook's flow start is answered with the hook's own run (same key), and the dispatch of its steps is ignored | triggers:120 (acceptance: "starts downstream work via a flow trigger") | `MCDelivery_Docs` |
| `PostIsAnswered` | `trigger-dispatcher.ts:155`: a trigger on `integration_failure` that fails alerts itself | none: the recursion has no bound | `MCDelivery_Docs` |

Also met while reading, without a property: `createHubKernel` (hub-core) never drains the outbox, only the HTTP adapter's `wire.ts` does;
`appendSpaceJournal` journals and leaves its outbox row to the next boot; an exception of an event handler cuts off the listeners after it
(only hooks catch); a tick of the scheduler that rejects ends the daemon; a schedule is noted as fired before its flow is started; the
boot pass lists at most 500 working runs; an offer whose poll response was lost is never made again; a shell process that exits with 0
without resolving an explicit step leaves the step open until its timeout; `refreshSessionStatus` writes a status derived from a list that may be old.

## 7. Not modelled

The models stand for the code that keeps and changes shared state: about 11,000 of the 80,000 implementation lines (14%), two
thirds of `runtime-kernel`, the store's operations on the rows above, and the paths of `hub-core`, `hub-daemon` and `executors` that decide. The rest, by reason:

* **Clients and presentation** (`cli`, `shell-client` and the web shell, `desktop`, `view-sdk`; more than a quarter of the lines):
  they call the API and render its answers, and keep no state that another part reads. A model of them would restate what the API does.
* **Data shapes** (`contracts`: Zod schemas and types): no behaviour. The enumerations the models need are mapped where they are used.
* **Formatting and parsing** inside modelled components: prompts, command lines, environment, transcripts, manifests' YAML, payload
  templates, the slices of a catalog shown to people. They are functions of data that no property here tells apart.
* **Predicates** (grants, capabilities, policy, schema and guard expressions): nondeterministic verdicts.
* **Matrix lanes and join** (`advance-runner.ts`): the compiler of step contracts emits no matrix, so no flow that apply accepts reaches the join.
  The insertion of a lane outside the guard is an action of `RunAdmission`.
* **Federation**: the ingress of a relayed invoke is in `Executors`. Pairing and the wire client depend on a remote hub, with the peer
  table as the only local state.
* **Notifications, control bus, memory proxy, hub configuration, MCP bridge**: best-effort messages, proxies of external servers, or single
  statements on rows of their own; nothing modelled waits for them.
* **Test doubles and migrations** (`hub-persistence/src/memory.ts`, `migrate.ts`).

Inside the modelled parts: payloads and metadata, expiring dedup windows, the LIMIT 1000 of `tailJournal`, leases of outbox claims,
projection rebuild, the parent of a called flow, a lane's own idempotency key, retention of scratch directories, replay of a trigger.

## 8. Plan

1. *(done)* `KernelCommit` + `AggregateSpec` with proofs; `KernelFanout`; `WaitMatch`; `RunAdmission` with proofs; `RunLifecycle`.
2. *(done)* `StepContracts` and `StepFlow`; `Executors`; `Meetings`; `Artifacts`; `Delivery`.
3. *(done)* Proofs about `KernelFanout`, `RunLifecycle`, `Executors`, `Delivery`, `Artifacts`, `Meetings`, and the keys of `RunAdmission`.
4. Proofs about `StepFlow`: `ChildrenOpenOnce` and `CompletedInFull`, then `AtRest`, from the facts about a catalog that `validateSpaceApplyBundle` ensures.
5. Later: the parent of a called flow; the status of a session at rest.
