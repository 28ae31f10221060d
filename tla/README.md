# PulSeed, specified

TLA+ specifications of PulSeed (the code under `src/src`; the repository is
called Moxen), the TLC configurations that check them on small instances, and
proofs that TLAPS checks. Every definition is translated from the TypeScript
source; `PROJECT.json` maps each one to its lines.

PulSeed takes a long-term goal, observes how far the world is from it, and has
agents do tasks until the gap is closed. All its memory is JSON files; all its
judgement is asked of language models. In the specifications a model's answer,
an agent's result and a measured value are free choices: what is specified is
what the program does with them.

## 1. Inventory

| Part | State it keeps | Operations | Talks to |
|---|---|---|---|
| Core loop (`core-loop.ts`, `loop/`) | stop request, consecutive counters, iteration budget; `goals/<id>/checkpoint.json` | `run`, one iteration in phases, checkpoint save and restore, post-loop hooks | everything below, by call |
| Tree loop (`loop/tree-loop-runner.ts`, `goal/tree-loop-orchestrator.ts`, `goal/state-aggregator.ts`) | `loop_status`, `children_ids`, `node_type`, `status` and the parent's values in the goal files; consumption per node | select a node, iterate it, complete it, cascade upwards, aggregate | core loop, satisficing judge, refiner |
| Satisficing judge (`drive/satisficing-*.ts`) | confirmation streak per goal, in memory | `isDimensionSatisfied`, `isGoalComplete`, `judgeTreeCompletion` | state manager |
| Gaps and drive scores (`drive/gap-calculator.ts`, `drive-scorer.ts`) | none | gaps of dimensions and goals, scores, the dimension a task is aimed at | core loop, task generation |
| Stall detector (`drive/stall-detector.ts`) | `stalls/<goal>.json`: escalation levels | judge gap histories, raise and reset levels | core loop |
| State manager (`state-manager.ts`, `utils/json-io.ts`) | every file | read, write `<file>.tmp` and rename, read-append-write of logs, archive, delete | all parts, all processes |
| Goal refinement and tree manager (`goal/goal-refiner.ts`, `goal-tree-*.ts`) | the goal files of a tree | refine, decompose, prune | models, state manager |
| Negotiation (`goal/goal-negotiator.ts`, `negotiator-*.ts`) | goal file, negotiation log | negotiate under a timer, assess, respond, save | models, ethics gate, command line |
| Dependencies (`goal/goal-dependency-graph.ts`) | `dependency-graph.json`, kept in memory too | add, resolve, update, remove edges; which goals are blocked | sessions, models |
| Data sources (`cli/commands/goal-utils.ts`, `config.ts`, `observation/observation-datasource.ts`) | `datasources/*.json` | add, register for a goal, remove, remove duplicates, choose one for a dimension | goal registration, observation, command line |
| Observation (`observation/observation-*.ts`) | observation log, dimension values and confidences | observe a dimension through sources, models and caches; apply | data sources, models |
| Capabilities (`observation/capability-*.ts`, `loop/core-loop-capability.ts`) | `capability_registry.json`; failures in memory | detect a lack, acquire, verify, register, escalate; order | adapters, models, reports |
| Task lifecycle (`execution/task-*.ts`) | the task file, task history, last failure context, verification result | generate, check, approve, execute, verify by a command and by reviews, carry out the verdict, revert | adapters, models, sessions, trust, ethics, state manager |
| Trust (`traits/trust-manager.ts`) | trust balances, overrides, gates | success, failure, is approval needed | state manager |
| Ethics gate (`traits/ethics-gate.ts`) | `ethics/ethics-log.json` | rules, model, confidence override, log | models |
| Parallel groups (`execution/parallel-executor.ts`, `loop/parallel-dispatch.ts`) | a group's results, in memory | split, order in waves, run under a limit, fold the verdicts | pipeline executor |
| Pipeline and breaker (`execution/pipeline-executor.ts`, `adapter-layer.ts`) | `pipelines/<task>.json`; failure counts in memory | stages, plan gate, retry, escalation, resume; open, half-open, closed | adapters |
| Sessions and stage checkpoints (`execution/session-manager.ts`, `checkpoint-manager.ts`) | a file each and an index | create, end, list; save, load, delete; fill the context | dependency graph |
| Strategies (`strategy/`) | `strategies/<goal>/portfolio.json`, `strategy-history.json` | generate, activate, pivot, terminate | stall detector, core loop |
| Knowledge, memory, learning (`knowledge/`) | raw entries, lessons, indexes, statistics; domain knowledge and vector index; decisions; patterns, transfers, pair trust | record, compress, close, select; save, share, search; learn, share, transfer, tune | models, embeddings |
| Curiosity (`traits/curiosity-*.ts`) | `curiosity/state.json`, kept in memory too | triggers, proposals, approve, reject, expire | models, ethics gate |
| Adapters (`adapters/`) | child processes, requests under way | ACP, A2A, command-line agents, issues, models as agents | outside programs |
| Language-model clients (`llm/`) | none | send with retries, parse (Anthropic's client with one more try), codex as a process | providers |
| Drive system, event server (`drive/drive-system.ts`, `runtime/event-server.ts`) | event files | which goals are due, receive, watch, copy, archive events | daemon |
| Daemon (`runtime/daemon-runner.ts`, `runtime/pid-manager.ts`) | pid file, `daemon-state.json`, `shutdown-state.json` | start, loop over goals, shut down, recover | core loop, drive system |
| Reports and notifications (`reporting-engine.ts`, `runtime/notification-dispatcher.ts`) | report files; last delivery per type, in memory | save, sum up days and weeks, deliver under cooldown and quiet hours | channels |
| Log file (`runtime/logger.ts`) | `pulseed.log` and the files put aside; a stream and a queue in memory | write, put aside by day and by size | all parts |
| Terminal interface (`tui/`) | running flag, poll, approval request on screen | commands, start, stop, ask, answer | core loop |
| Command line (`cli/`) | none | start, stop, reset, add, archive, show | core loop, state manager |

`PROJECT.json` lists all of these, and the parts that are not modelled, under
"components" with their files and what of each is modelled or why it is not.

### What is hard here

* **Awaits as preemption points.** One process is single-threaded, but every
  `await` lets a signal handler, another command, a second request or a second
  process in. Several services do not even await their own saves.
* **Files as shared memory.** Goal files are read, changed and written back
  whole by the loop, the verifier, the completion cascade and the command line;
  indexes are kept beside the files they list.
* **Crashes.** A task's verdict is carried out in six separate writes, a node is
  marked running before its iteration and idle after it, a checkpoint is saved
  after the task, an archived tree is moved goal by goal.
* **Timers that do not cancel.** A negotiation, an agent, a remote task and a
  child process go on after the timer that gave them up.
* **Counters that must be consecutive or cumulative**: errors, denials,
  escalations, the confirmation streak, failures of an adapter or a capability.
* **The same question answered in two places.** `isGoalComplete` runs before and
  after the task of one iteration; the gap and the judge have each their own
  arithmetic; two stall checks have the same thresholds.
* **Answers nobody vetted**: cyclic dependencies, ids that do not exist, verdicts
  that contradict each other, scores without evidence.

What would make each modelled part correct is stated below, run by run. The list
"hazards" in `PROJECT.json` has the places in the code where these bite hardest.

## 2. Modules

| Module | Models | Composes |
|---|---|---|
| `CoreLoop` | `CoreLoop.run()` and `runOneIteration` for one goal | the judge's streak, the budget, the checkpoint |
| `TreeLoop` | `runTreeIteration`, selection, completion and cascade for one tree | the flat iteration of `CoreLoop`, reduced to its judgement |
| `TaskCycle` | `runTaskCycle` for one goal, with trust and the verdict's writes | |
| `Review` | how a task is judged: command, reviews with timer and retries, revert | what is a verdict in `TaskCycle` |
| `StallDetector` | the judgements on gap histories, as operators | |
| `Strategy` | the answer to a stall: pivot, escalate, wait; portfolio, history and level files | extends `StallDetector` |
| `Daemon` | `DaemonRunner`, the pid file, the commands start and stop | a run of the core loop, reduced to success or error |
| `AppendLog` | what a log file promises to those who append to it | abstract specification |
| `AtomicFile` | append down to open, write and rename | implements `AppendLog` |
| `ParallelGroup` | task groups: generation, waves, workers, verdicts | a pipeline of one stage |
| `Pipeline` | a task as stages; the breaker of an adapter | |
| `Sessions` | sessions, stage checkpoints, the slots of a context | |
| `Events` | event files between server, drive system and daemon | |
| `Reports` | reports and their sums; the dispatcher of notifications | |
| `LogFile` | the log file of a process | |
| `Agents` | ACP, A2A and the issue adapter, each with its timer | |
| `Processes` | one call of a child process and of a model in its place | |
| `Models` | a call of a model with its retries; the ethics gate | |
| `Terminal` | commands, the loop controller and the approval overlay | runs of the core loop, reduced to begin, ask and end |
| `GoalTree` | the goal files of a tree and every walk over them | refiner, tree manager, pruner, archive |
| `Negotiation` | how a goal comes to be | |
| `GoalDeps` | the graph of dependencies | |
| `Observation` | `observe()` and `applyObservation()` for one dimension | |
| `Sources` | the data sources and the choice of one | |
| `Aggregation` | a parent's gap from its children | |
| `Gap` | gaps, scores and target of an iteration, beside the judge | gap calculator, drive scorer, selector, judge |
| `Capability` | acquiring what a task lacks; the order of acquisition | |
| `Curiosity` | proposals of goals and their review | |
| `Memory` | the memory of one goal: raw entries, lessons, statistics, archive | |
| `WorkingMemory` | the indexes and the selection | |
| `Knowledge` | knowledge files with their vector index; decisions | |
| `Learning` | patterns, sharing, transfer, trust in a pair, tuning | |
| `*Proofs` | theorems about the module they extend | |
| `MC*` | constants for TLC | |

`MCServices`, `MCGoals` and `MCKnowledge` each check several modules that share
no variable in one run: the variable `part` says which of them moves in a
behaviour, the others stand still, and what their initial states choose is
settled. So the states of the parts add up and do not multiply, and a property
of the run says, part by part, what must hold.

### CoreLoop
`pc` is the await the run is at; each phase function of
`core-loop-phases*.ts` is an action. `goal` and `ckpt` are files and survive
`Crash`; `stopped`, `streak` and the budget are memory; the rest are locals of
`run()`. A dimension is reduced to its value relative to its threshold (`null`,
short, met) and to whether its confidence is sufficient, which is all that the
gap's being zero and the judge's verdict depend on (`Gap` has the arithmetic).
`Restore` puts the checkpoint's numbers over the goal file. `Decide` asks what
ends the run in the order of the code's breaks. `Reset` and `CompletedElsewhere`
are other processes. `Throw` is an exception out of `run()` where nothing catches
it: at the reset of the escalations, the reload after a decomposition and the
reload on the skip path. `unread` records that the run could not restore the
checkpoint it found. Reports, learning and curiosity hooks change nothing
`run()` reads.

### TreeLoop
The goal files of a tree: which nodes are split, leaves, completed, running,
met. A decomposition may leave any tree that `decomposeGoal` or the refiner can
save, also when it throws half-way. `SelectNode` is `_selectEligibleNodeId` with
its preference and the skipped node that keeps its slot; `Iterate` is an
iteration of `CoreLoop` reduced to its judgement; `Release` is
`onNodeCompleted` with `checkCompletionCascade`.

### AtomicFile and AppendLog
Names refer to inodes. `Open` truncates whatever `<file>.tmp` is, `Rename` moves
it, and both names are the same for every writer. `Exclusive` says whether the
writers take turns (the awaits of one process) or not (two processes).
`RemoveGoal` is `deleteGoal` or `archiveGoal` in another process, cut off anywhere.
`StateManager.atomicWrite` swallows `ENOENT` (`state-manager.ts:83`), so an append
whose directory or temporary file has gone returns as written (`Skip`, `Rename`);
`late` has the appends that were under way at a removal, `erased` the entries that
went with the log. `Fail` is any other error.
`AtomicFile` implements `AppendLog` with `log` mapped to the content of the
inode the file name refers to; a removal is a step of `AppendLog` too.

### TaskCycle
The whole cycle: selection, ethics, capability and approval checks in the
code's order, the adapter, the resolution of the three layers, the contradiction
check, then the writes (failure context, trust, task, goal, history) one by
one. Numbers are hundredths, so the code's 0.15, 0.2, 0.3 and 30 % are exact.
`Throw` may leave the cycle after any write, `Crash` too, and `Edit` writes the
goal file between any two steps. All tasks have the category that `generateTask`
gives them, hence one trust balance.

### Review
`verifyTask` in detail. `given` is what the verification finds: an adapter, a
command as criterion, the URL of an issue in the output. A review opens a session,
asks, is given up by a timer and tries again; a call given up stays in `unanswered`
and may be answered at any later time. `CloseReview` ends the session within the
`try` that reads the answer. `Resolve` puts the command's result before the
review's; `StartRevert` to `Mark` are `attemptRevert` and
`setDimensionIntegrity`.

### StallDetector and Strategy
`StallDetector` has no state: `DimensionStall`, `GlobalStall` and `Recommended`
are the detector's methods on a sequence of gaps in hundredths, the variance in
whole numbers. `Strategy` is `detectStallsAndRebalance()` for one goal: `Measure`
appends a gap of each dimension, `Detect` finds the first dimension that stalls
(or the goal) and decides, `Terminate`, `Archive`, `Generate` and `Activate` are
the writes of `onStallDetected()`, `Count` is `incrementPivotCount()` and `Raise`
`incrementEscalation()`. `Fail`, `FailToPivot` and `End` (a run that ends or a
process that dies) may come between any two of them. The five files are
`hist`, `state`, `pivots`, `history` and `level`; `seen` and `lost` only record
what happened. The write that raises `consecutive_stall_count` is left out
because only `rebalance()` reads it, and the loop never reaches `rebalance()`.

### Daemon
`pc[p]` is the await at which `start()` of process `p` is: before the loop one
action per file it reads or writes, then `runLoop` (`Begin`, `RunGoal`,
`RunEnds`, `SaveCycle`, `Rest`, `Wake`), then the three steps of `cleanup()`
(`Clean`, `Unlink`, `End`). `pid`, `state` and `marker` are the files; `running`
and `shutting` are the two flags of the loop, as sets of processes. `Interrupt`
is a signal from a terminal, `StopRead`, `StopProbe` and `StopSend` are the stop
command, `StopCall` is the method `stop()`, which only the tests call. A process
that has ended leaves its slot to another as soon as nothing names its pid, so
two slots stand for any number of daemons. A start or stop command looks at the
pid file and acts on what it saw some awaits later, and nothing in the code keeps
two of them apart: a stop command reads the file twice (`StopRead`,
`StopReadAgain`), and starts, stops, takeovers and removals interleave at every
await. `late` records, of each command and process, who has written the file since
it last looked. Two starts that both find no file may even both run; `Overlap` says
whether a daemon may come up while another is up. The run sets it to FALSE, the
theorems hold for both values; `doubled` records that it happened, and what the
state file and the marker tell is claimed only until then.

### ParallelGroup, Pipeline
`Generate` lets the model answer with any dependencies and any files;
`validateFileOwnership` refuses a group, and the iteration falls back to a single
task. The waves depend on the dependencies alone, so the next one is computed
when it starts. `End` is one pipeline of a single stage, which can only pass or
fail. `Pipeline` is that pipeline in full: `pipePc` is the await of
`PipelineExecutor.run`, `pipeFile` the file written after every stage, and a
stage is tried, tried again with another adapter, and then only if a human
agrees. A breaker counts the failures of one adapter in a row.

### Sessions, Events, Reports
Each has files and an index, or copies of a file, written one after the other:
every write is an action, and a crash or a failing write may come in between.
`Sessions` also has the slots of a context with their priorities and the order
in which a budget drops them. In `Events` a file is known by the event it holds,
and the steps of `processEventFile` interleave with the daemon's reading and
archiving. In `Reports` time is in hours; `Dispatch` steps go from channel to
channel, several notifications at once, because `deliverReport` is not awaited.

### LogFile
A line is its number. The stream's buffer, the queue that fills during a rotation
and the size that is asked for without being awaited are the record `logger`;
rotation goes rename by rename, and an end of the process may come between any
two.

### Agents, Processes, Models
Requests, tasks and issues with the timer of each, and an outside that answers
late, twice or never, dies, or does not listen to a signal. `Processes` has the
two events `error` and `close` in every order Node can give them. `Models` has a
call with its retries by provider and the ethics gate with overlapping checks; a
client other than Anthropic's has no `callLLMRaw`, so an answer that does not parse
is asked for again only there.

### Terminal
`LoopController` as it is: a flag `running` and a poll, both separate from the
runs, which are begun, ask and end on their own; the request kept in a reference
and the one drawn on the screen; commands under way that overtake each other. "start"
may name a goal or leave the choice to the program, and a refresh that rejects ends
the process, because nothing handles it.

### GoalTree, Negotiation, GoalDeps
A walk of `GoalTree` is a stack of frames and every action writes at most one
goal; `live`, `archive` and `side` (tasks and strategies) are directories.
A leaf with a dimension of the kind "api" stays unvalidated when it is refined.
`Negotiation` has the steps of `_negotiate()`, the timer, the caller, and what
`goal add` does with the answer. `GoalDeps` has the edges in memory and in the
file, in the order in which they were added.

### Observation, Sources, Aggregation, Gap
`Observation` follows one dimension through `observe()`: pre-check, data source
with cross validation, model with or without workspace, the entries that could
not be saved, and `applyObservation()`. In `Sources` every command is a process
that looks at the directory and writes later; a source is its type, its number
(its goal's, or one of the user's) and the dimensions it measures. `Aggregation`
loads the children one by one while they change. `Gap` computes in whole
numbers, fractions in parts of `Unit`: the raw, normalised and weighted gap, the
scores with decay and urgency as tables, the target, and beside them the judge's
own comparison.

### Capability, Curiosity
`Capability` has the registry file with every write of it, the failures counted
in memory, and names that share an id. `Curiosity` has the state in memory, the
saves under way that may overtake each other, and a generation that waits for the
model and the ethics gate between its items.

### Memory, WorkingMemory, Knowledge, Learning
Reading a file and writing it back are two steps everywhere, the lessons of a goal
included, so recordings, compressions, closings, touches, saves and shares overlap
as they can: the later write restores what it had read. A write that meets `ENOENT`
is skipped and reported as done. `raced` and `mislaid` record in `Memory` that this
happened and which entries it left out. `Knowledge` has the index of the process
(`vectors`) beside the index of the file (`indexed`): `VectorIndex.add` changes the
first, then saves the second, which may throw, and neither
of the two calls is rolled back then; `stray` are
the facts that a failed step, a crash or an older copy may have left in one place
only. A fact is saved once, because the only caller of `saveKnowledge`
(`reflection-generator.ts:142`) gives every entry a new id;
`saveToSharedKnowledgeBase` has no caller in `src/src` and is modelled as it would be
called. In `Learning` the writes of a score and of a history may each be lost
without an error, so an evaluation counts once it is on record. What a
model extracts is a choice among subsets of what it was given. Ages, trust and
confidences are small numbers that lie on both sides of the code's limits.

## 3. Runs

All bounds are constants of the modules or lines of their cfg files.
`CHECK_DEADLOCK FALSE` is set in every run because the bounds (and, in the code,
the end of a run) stop the system.

| Run | Instance | Shows |
|---|---|---|
| `coreloop_run` | 1 run of 3 iterations, 1 dimension, private budget, skips | a run ends only for the reason it reports (`FinalStatusJustified`), does not go past a limit it reached (`NoOverrun`), two judgements in a row complete it (`MetTwiceCompletes`) |
| `coreloop_restart` | 2 runs, a crash, an outside write, a shared budget | completion is confirmed in two different iterations, also across runs (`TwoCycleConfirmation`); the checkpoint does not go back, but for the first save of a run that could not restore the one it found (`CheckpointAdvances`); the file is completed only after the loop saw it (`CompletedOnlyWhenSeen`) |
| `treeloop` | 5 nodes on 4 levels, 2 runs, a crash | `TreeVerdictSound`, `CascadeSound`, `FreshRunUnblocked` |
| `taskcycle` | 2 dimensions (a minimum, a maximum), 2 cycles, an outside write, a crash | `Consent`, `UpdateBounded` |
| `daemon` | any number of daemons, one up at a time with starts and stop commands that overlap, 2 goals, 1 retry, a crash, a failed write | `PidNames`, `MarkerTrue`, `EndRecorded`, `InterruptedRestored`, and `StoppingEnds` |
| `goals` | see below | `TreeSound`, `WalksEnd`, `RegisteredAsTold`, `NoWaitingCircle`, `GroundsHold` |
| `knowledge` | see below | `OneActive`, `HistoryKept`, `FirstStallWaits`, `MemorySound`, `KnowledgeSound`, `OutcomeSettled`, `PairSilenced`, `SteadyTuning` |
| `services` | see below | `Whole`, `AcknowledgedKept`, `LogImplemented`, `DispatchSound`, `OutcomeHonest`, `ServicesSound`, `WorkEnds` |
| `treeloop_root`, `strategy_pivots`, `aggregation`, `review_command` | | each finds one statement of the documentation violated (section 6) |

What the three composed runs show, part by part:

* `goals`. *tree*: what a tree lists can be loaded, below an archived goal
  nothing is live, nothing active is unlisted, wherever walks and crashes
  stopped (`ListedGoalsLoad`, `ArchivedBottomUp`, `NoOrphans`), and every walk
  ends (`WalksEnd`). *negotiation*: the disk holds what the user was told, also
  when the timer or an exit came first (`RegisteredAsTold`). *deps*: goals never
  wait for each other in a circle (`NoWaitingCircle`). *observation*: no value
  and no completing confidence without evidence (`GainNeedsEvidence`,
  `ConfidenceEarned`). *sources*: a dimension found measured stays so, although
  registrations and the search for duplicates overlap (`StaysMeasured`).
  *aggregation*: a parent is no surer and no further than its children
  (`ParentNotAhead`). *capability* and *order*: available means verified, failed
  means reported, prerequisites come first (`StatusEarned`,
  `AcquisitionOrdered`). *curiosity*: the limit holds and what was rejected
  stays out (`ProposalsBounded`, `RejectedStayOut`, `QuickCheckAgrees`). *gap*:
  the task is skipped only if the judge finds all met, is never aimed at a met
  dimension, and full progress means met (`SkipsWhenMet`, `TargetIsUnmet`,
  `FullMeansMet`).
* `knowledge`. *strategy* (2 dimensions, 5 measurements, 4 strategies, 2 runs, a
  failed write, an end anywhere): one strategy is active at a time, none is lost
  from the history, the first stall of a dimension only waits (`OneActive`,
  `HistoryKept`, `FirstStallWaits`). *memory*, *working*: a recorded failure is
  kept, counted once and found (`FailureKept`, `CountedOnce`, `Findable`).
  *knowledge*: what is stored can be
  searched, now and by the next process, and but for the cases `stray` records a
  search finds the file and the index holds nothing else (`SearchExact`). *decisions*: an
  outcome stays (`OutcomeSettled`). *transfer*, *feedback*: nothing is handed back to
  the goal it came from (`NoEcho`), a useless pair falls silent, a suggestion
  never turns round on one sample.
* `services`. *file*: a log stays whole and keeps what was acknowledged, over
  failures, crashes and a removal of the goal, as `AppendLog` says; only an append
  under way at the removal may be told written and not be there. *group*: order,
  limit and verdict of a group. *summary*,
  *notice*: sums agree, notifications keep their distance. *events*: an event is
  there until handled. *session*, *checkpoint*: within budget, found, loadable.
  *log*: the files tell what happened in its order, nothing missing without a cause
  (`LogOrdered`). *review*: a good verdict is earned by an answer in time and no
  failing command, a verdict leaves no session open and is on the disk
  (`RulingEarned`, `NothingLeftOpen`).
  *pipeline*, *breaker*: plan first, verdict sound, file up to date, a failing
  adapter left alone. *acp*, *a2a*, *issue*, *process*: an answer is that of its
  request, a success is one, an issue is created once, a caller is told once.
  *call*, *gate*: a refused request is not repeated, a passed means was judged.
  *terminal*: approved as shown, no question lost, the dashboard tells the truth.
  `WorkEnds`: a group, a request over ACP, a call through codex and the reviews of a
  task come to an end.

Several of these hold only with a condition the property names ("unless two
operations overlapped", "as long as no stop has overtaken a run"). The condition
is not a convenience: without it the code does break the property, and section 6
lists the case. What is shown is that nothing else breaks it.

Why the bounds suffice. `coreloop_run`: the smallest limits whose counters can
be interrupted and resumed (2 errors, 3 denials or escalations in 3 iterations,
1 skip). `coreloop_restart`: the streak is memory and the checkpoint a file, so
what matters is one restart and one foreign write between two runs. `treeloop`:
four levels make the cascade and the recursive judgement work over two steps;
two slots and two turns per node let a slot leak. `taskcycle`: values 0 and 5.00
lie on both sides of what 0.3 and 30 % allow. `daemon`: one
daemon is up and another process starts, is refused or takes over, so two slots
suffice; one crash and one failed write may fall between any two writes, and one
retry tells an error from one too many. `goals`: four goals make
a tree of three levels with a sibling, three operations let a prune or an
archive meet the tree a cut-off refinement left, and one crash may fall
anywhere; three dependency goals make a circle that is longer than an edge and
its reverse; four observations let a cached entry be cached again; two children
with gaps 0 and 4, three changes between their loads; three capability names of
one id and three failures (the code's limit) with one failed write; a limit of
one proposal with two saves under way, which is where overtaking begins; one
free dimension beside a companion in each state the target may prefer; two goals
that share dimensions, sources added by hand and one fault. `knowledge`: two
operations on one file are what overlapping takes, one crash or failed write
what a cut-off takes, four evaluations go past the three that silence a pair,
six samples past the window that tuning looks at. A stall window of 1 (the
code's is 5 to 10) lets five measurements hold two stalls that pivot and one
that only notifies; four strategies let a candidate be left over from one pivot
to the next. `services`: three writers (two meet, the third sees what they
left); three subtasks make chains, forks and a wave larger than the worker
limit, two dependencies a cycle with an outsider; days of three hours let a week
be summed; two notifications in flight; sizes 1 and 3 under a budget of 4; two
stages and three tries; the breaker's threshold is the code's; two requests, so
that a late answer meets another; two runs, two questions and three commands, so
that a start can follow a stop that a run has not yet noticed; files of one
line, three of them and five lines over two days, so that rotations by day and
by size meet a queue; two tries of a review, so that a late answer meets the
next one, and two faults, so that both ends of a session may fail.

Each property has mutants in `PROJECT.json`, one at least and one for most parts
of a composed property: a plausible mistake (a dropped guard, a limit off by one,
a missing reset) under which TLC finds the property violated. The mutated forms
stand beside the originals as `Mut...`.

### Fairness
Only steps that the program or the operating system takes by itself are fair, and
always weakly unless said otherwise.

* `ParallelGroup!Work`, the steps of the executor: every adapter call has a
  timeout and a settled promise is resumed by the event loop. Crashes and new
  groups carry no fairness. The part *group* of `WorkEnds` then says that no
  dependencies, cyclic ones included, make the executor loop or wait for a
  subtask that nobody runs.
* `Agents!OnAbort(i)`, the timer of an ACP request, and of `Processes` the events
  of a child, its timer and the last signal: timers fire and a killed process
  closes. The agent's answers carry none, so these parts of `WorkEnds` hold
  whether it answers or not. (An agent behind `spawn-helper.ts`, which only sends
  SIGTERM, need not end, and nothing is claimed of it.)
* `Review!ReviewMoves`: file operations return, timers fire and what is tried again
  is tried after a fixed time. The model's answers carry none. The adapter that runs
  the command has a timer of its own, so the claim begins when the command has
  returned; the revert has no timer, and nothing is claimed of it.
* `GoalTree!WalkStep`: file operations and bounded calls of a model return.
  `WalksEnd` says that depth, retries and the token budget bound every walk.
* `Daemon`: the steps of each process that has started and of a stop command that
  has begun: file operations return, `sleep` has a timer, and a run of the core
  loop ends because its iterations are bounded and its calls have timeouts.
  Signals,
  `stop()`, the force-stop timer and crashes carry no fairness. `StoppingEnds`
  says that a daemon told to stop ends wherever that finds it.

The other modules claim no liveness: whether a goal is ever reached depends on the
world.

## 4. Proofs

TLC checks instances; the theorems hold for all constants that satisfy the
modules' assumptions. Those say that sets the code enumerates are finite, that
limits are natural numbers, positive where the code's defaults and schema make
them so, and in a few modules what the data are like: the tree of `TreeLoop` is a
tree and its preorder meets every node; a unit of `Gap` is fine enough for the
thresholds in use; a kind of notification in `Reports` is no name of a report; the
log of `LogFile` has at least one day; the mark of a missing file in `GoalTree` is
no goal.

* `CoreLoopProofs`. `TypeCorrect` is inductive as it stands. `Confirmation`
  needs `ConfirmInv`: the judgement that began the streak is of an earlier
  iteration until this one has judged (`BeganEarlier`), and an iteration that
  goes on to a task was judged unmet (`UnmetBeforeTask`), so its second
  judgement meets an empty streak. `CheckpointsAdvance` follows from the index
  never being below the saved cycle in a run that restored it, or found none
  (`CheckpointBehind`). `ExitsJustified` and `NoRunGoesOn` rest on
  `CountInv`: each counter is the length of the row of its kind at the end of
  the results (`RowGrows`, `RowBreaks`). `SecondJudgementCompletes` relates the
  streak to the last two results; `CompletedAsSeen` says that the file is
  completed only by the loop that saw the judgement.
* `TreeLoopProofs`. `TreeInv` adds to the types who may hold a slot between
  selection and the end of an iteration (`TurnInv`); then `TreeVerdictHolds`,
  `CascadeHolds` and `FreshRunHolds`, for trees of any shape and size. The
  recursion of the judgement and of the ancestors ends because every set of
  nodes without the root has a node whose parent is outside it.
* `TaskCycleProofs`. `CycleInv` adds to the types that a task fails late in its
  cycle and that consent is given before what it is needed for. `ConsentFirst`
  and `UpdatesBounded` follow; the latter from the clamp's arithmetic
  (`ClampedBounds`): it never turns an increase into a decrease.
* `DaemonProofs`, for any number of processes, crashes and failed writes, and for
  both values of `Overlap`. `PidInv`: of a daemon that the pid file names, whoever has
  read or written the file since has read its pid, and so leaves the file alone.
  `PidAlwaysNames` follows: only a command or a daemon under way already when the
  file was written can take it away. With `OneUp` (until two have been up, one is) and
  `FileInv`, which relates the memory of that daemon to state and marker, come
  `MarkerAlwaysTrue`, `EndAlwaysRecorded` and `InterruptedAlwaysRestored`.
* `StrategyProofs`. `StrategyInv`: between the end of one strategy and the
  activation of the next none is active (`LocalsOK`), and a level above zero was
  raised in this run (`LevelOK`). Hence `OneStrategyActive`, `HistoryComplete`,
  `StrategiesGoForward` and `FirstStallNotifies`. The last needs
  `GlobalNeverAlone`: a global stall would skip the wait, but for any window and
  any histories some dimension stalls whenever the goal does, and it is asked
  first.
* `KnowledgeProofs`, of the run `knowledge`, part by part as `GoalsProofs` below.
  `MemInv`: whatever a job has read is recorded and of its type, what it is about
  to drop already has a lesson, nothing is archived before the first close, and
  what the statistics count, or are about to, is neither on file nor due
  (`CountsApart`). With `WorkInv` (what an operation takes off the index is gone
  from the files for good) this gives `KeptRemembered`. `KnowInv`: every
  stored entry is in both indexes (`Lasting`), no two saves hold the same one
  (`SavedOnce`), and an entry that is not stray has the place that the file and the
  save or share under way give it (`Agreed`). `TransferInv`: every copy of a pattern
  names the goal it
  was drawn from (`Traced`), and the history of a pair, cut to six effects, still
  shows the last three (`StreakKnown`); hence `KeptExact` and `PairsSilenced`.
  `TuningSteady` needs no invariant but arithmetic (`Outvoted`): with five
  observations or more, six tenths on one side before a new one and six tenths on
  the other after it would be more observations than there are.
* `GoalsProofs`, of the run `goals`. Each part has an invariant and a lemma that
  its steps keep it; a step of the whole is a step of one part (`PartSteps`), so
  `GoalsInv` is their conjunction. `NoCircleHolds`: a new edge that would close a
  circle is refused, for any number of goals. `RegisteredHolds`: the file is
  written after the last answer the user's is drawn from and before the log.
  `GroundsAlways` is the conjunction of what the other parts must keep; among the
  strengthenings are that what the search for duplicates will remove, and what a
  registration under way has found covered, is kept by another source (`SrcInv`);
  that the limit on proposals holds of memory, file and every save under way
  (`CurBounded`); and what the gap calculator, the scorer and the judge say of the
  same value (`GapWorked`, by the arithmetic of each threshold).
  `TreeSoundHolds` is the longest argument. A walk is a stack of calls, so
  `TreeInv` says what each frame below the top relies on. Of the files it says that
  parents have smaller numbers than their children, that no two goals list the same
  one, and that an active goal is listed or a link of it is on the stack
  (`Grounded`, `OneList`, `Listed`). Of a walk that grows the tree: children are
  written before the frame that lists them, and nothing stands above the writing
  (`SaveOK`, `LinkOK`). Of one that archives or deletes: the numbers of the frames
  that copy and remove fall from the top down, so what is met again is gone already;
  a copy is followed by its removal; and a goal about to be removed has its children
  above it or gone (`Downward`, `Visits`, `TakeOK`). Of one that prunes: what is
  about to be unlisted is cancelled or has its cancelling above it (`PruneOK`). A
  crash drops the stack and keeps the files, whose part of the invariant needs no
  stack once `cut` is set. `TypesHold` gathers the types of all parts.
* `ServicesProofs`, of the run `services`, laid out in the same way. `ServicesTyped`
  and `ServicesHold` are about all fourteen parts outside the two below at once.
  The strengthenings that matter: an active session is listed, about to be, or
  was cut off (`AwaitedIds`), and a listed checkpoint is stored, about to be taken
  off the list, or was cut off (`StoredChecks`); sums of a week and of a budget are
  folds over finite sets, taken apart one element at a time (`RepInv`, `SlotsHeld`);
  the lines of the log rise from the oldest file to the newest and on through
  stream and queue, and every line is there or was lost to a cause (`FilesRise`,
  `FilesFollow`, `MemoryLast`, `AllKept`); an event file that was written anew has
  a later one with the same event (`CopiedOn`); stages come in order and none goes
  on after a failure that should stop it (`StagesInOrder`); an open question is
  waited for by the run that asked it (`QuestionsHeld`).
  The part *group* has `GroupInv`: what runs or waits is ready, or caught in a
  knot of subtasks that wait for each other or for no subtask (`WaveOrdered`);
  `StuckIsKnot` shows that a wave forced by the code is such a knot. The part
  *file* has `FileInv`: the temporary file is never the file, the one busy writer
  holds it alone unless the goal was removed meanwhile, and the log is still what it
  loaded but for that. Then `FileWhole`,
  `AppendsKept` and the refinement `ImplementsLog`, all under `Exclusive`.
  This module takes about a quarter of an hour from nothing.

Induction over finite sets and over numbers goes by the smallest set, or the
least number, without the property, which `WellFoundedInduction` provides
without an operator for a parameter. So what a fold or a recursive function
computes is proved wherever one of these theorems needs it.

Proved and no longer part of a run, since a theorem says more: the types of
`CoreLoop`, `TreeLoop`, `TaskCycle` and `Daemon`, `StrategiesGoForward`,
`GlobalNeverAlone`. Every invariant and action property of the passing runs is
now a theorem. Only model-checked are the liveness properties `WorkEnds`, `WalksEnd`
and `StoppingEnds`: the prover has no rule for fairness and `ENABLED`.

## 5. Plan

1. `TrustStore`: two processes sharing the trust file, the hourly limit; several
   goals in one process (`runMultiGoalIteration`, the sticky `treeMode`).
2. `Portfolio`, once something in the program constructs one.

## 6. Where the code and its documentation differ

The four runs with an expected violation; `PROJECT.json` quotes the lines.

* `treeloop_root`: one completed leaf completes the root.
* `strategy_pivots`: the pivot count stays with the strategy that was dropped, so
  its limit is never reached.
* `aggregation`: the default rule puts a parent where its best child is.
* `review_command`: neither `cli/setup.ts:131` nor `tui/entry.ts:103` hands a
  registry of adapters to the task lifecycle, so a criterion that is a command is
  "assumed pass" (`task-verifier.ts:692`) and the reviewer's word decides.

Met while modelling, and not given a run:

**Core loop and tree loop**
* `goal reset` leaves the checkpoint, so the next run restores the old values and
  cycle number over the cleared ones (`checkpoint-manager-loop.ts:74`;
  `cli/utils.ts:38` says "Reset goal state for re-running").
* What another process writes between the judgement and the mark "completed", a
  reset for instance, is overwritten (`post-loop-hooks.ts:34`).
* Two judgements that confirm a goal may have a cycle with an open gap between
  them, if that cycle ends before the judge (`satisficing-judge.ts:320` says "2
  consecutive cycles").
* `minIterations` is compared with an index that counts earlier runs too.
* A run resumed from a checkpoint does not free the slots of nodes left running,
  because the reset is tied to index 0 (`tree-loop-runner.ts:28`).
* The deepest leaf that comes first is selected on every turn while it stays
  active (`tree-loop-orchestrator.ts:270`), and automatic decomposition leaves tree
  mode on for later goals of the same process (`core-loop.ts:347`).
* Thresholds below zero make a gap negative, because it is divided by the
  threshold (`gap-calculator.ts:112`): the goal's gap may then be 0 while the judge
  finds a dimension unmet, and no task is ever made. `Gap` leaves them out. A
  normalised "max" gap may exceed 1 before weighting.
* `decay` counts from the last observation, not the last attempt
  (`core-loop-types.ts:346`), and no opportunity reaches the scores.
* The aggregation's "max" is inverted as "min" is; `registerAggregationRule`,
  `propagateStateDown` and `propagateSubgoalCompletion` have no caller.

**Stalls and strategies**
* A gap of 0 that stays is never a stall, because the dimension counts as
  achieved (`stall-detector.ts:139`), although `core-loop.ts:436` leaves it to
  stall detection to escalate there.
* The branch for a stall of the whole goal (`core-loop-phases-b.ts:309`) is never
  taken: a dimension is always reported first (`GlobalIsLocal`).
* If no candidate can be generated after the old strategy was terminated, the
  goal is left without an active one.
* Reordering candidates by past decisions writes each back to its own place in
  the list, so the ranking has no effect (`strategy-manager-base.ts:335`).
* The re-refinement of a leaf waits for a cause "information_deficit" that the two
  checks the loop calls never report (`core-loop-phases-b.ts:201`).
* Escalation levels are reset for the run's own goal only (`core-loop.ts:149`).

**Tasks, groups, pipelines**
* The update of a dimension loads and saves the goal file in two steps: a change that
  another process makes in between is lost (`task-verifier.ts:472-498`).
* `state_integrity` is written when a revert fails (`task-verifier.ts:994`) and
  read nowhere, so the dimension is selected again
  (`docs/design/execution/task-lifecycle.md:400` says it is not).
* The update of a verified success is cut at 1 whatever the scale of the
  dimension (`task-verifier.ts:285`), so a success can lower a count.
* Escalation after three failures of one task is never reached, because every
  cycle makes a new task (`task-verifier.ts:589`).
* Subtasks that own the same file may run together: the test at
  `parallel-executor.ts:118` is the wrong way round (`task-generation.ts:524`).
* The parallel path runs subtasks without `runPreExecutionChecks`
  (`docs/design/execution/multi-agent-delegation.md:184` wants approval of
  irreversible tasks even there).
* No code writes a pipeline's status "interrupted", so a pipeline is never
  resumed after a crash but starts again; a denied plan returns the verdict of the
  last completed stage; `task-pipeline-cycle.ts:138` passes neither an approval
  function nor another adapter, so a required plan is always denied and a stage is
  tried once. The breaker and `selectByCapability` have no caller.
* The URL of an issue anywhere in the output of a success passes the task without a
  check, and that verdict is not saved; a good answer whose session cannot be ended
  becomes a failure; the revert has no timer and leaves its session open when the
  model's call throws.
* An exception in a review leaves its session active; a deletion cut off between
  file and index makes `loadCheckpoint` return null although older ones exist.

**Files, daemon, events**
* Two processes that write one file share its temporary file
  (`json-io.ts:18`): `AtomicFile` with `Exclusive = FALSE` violates `Whole`, while
  `state-manager.ts:30` says "All writes are atomic".
* An append to a log whose goal another process deletes meanwhile is told as written
  (`state-manager.ts:83` takes every `ENOENT` for a removed base directory).
* Two starts that both find no pid file both run (`pid-manager.ts:36`); the one whose
  pid was overwritten is not found by stop.
* The trust store is cached per process: two processes overwrite each other's
  balances (`trust-manager.ts:69`).
* A daemon signalled during a run sleeps an interval before it ends
  (`daemon-runner.ts:275`). A signal does not record interrupted goals, only
  `stop()` does, and nothing in `src/src` calls it; a daemon that gives up after
  `max_retries` errors leaves a clean marker (`daemon-runner.ts:458`).
* `processEventFile` writes a new file into the directory it watches before it
  moves the old one, so every event is dispatched again and again
  (`event-server.ts:138`); a POST is answered before the write; a wake-up while the
  daemon is not asleep is lost.
* Nothing calls `Logger.close()`, so the end of a process loses what its stream
  still holds; the file of a day before is not put aside after a restart; two
  loggers on one directory can overwrite the file of a day (`LogFile` has one at
  a time).

**Goals**
* `options.maxDepth ?? this.maxDepth` overrides `config.max_depth`
  (`goal-tree-manager.ts:294`, against the comment at 272); a refined leaf may keep
  its children; the ethics gate given to the refiner is never used.
* `deduplicateDimensionKeys` turns `a, a, a_2` into duplicates
  (`goal-validation.ts:67`).
* A negotiation that lost to its timer goes on and saves its goal.
* An edge set active again is not checked for a circle (`updateEdgeStatus`).
* Deleting a goal leaves its tasks and strategies.

**Observation and capabilities**
* A lower layer's value is taken while the higher layer's confidence stays
  (`observation-apply.ts`, against `observation.md`: "Results from a higher layer
  are not overridden by a lower layer"); a suppressed jump without context raises
  confidence to 0.50 (`observation-llm.ts:292`); a dimension without a source of its
  own may be given another goal's, although its mapped file is another one
  (`observation-datasource.ts:36` calls such sources identical).
* One data source that cannot be read stops the loading of the others
  (`setup.ts:96`); the search for duplicates, which `goal cleanup` calls too
  (`goal-write.ts:367`), keeps one source of each of the types file, HTTP and
  issues, whatever the others measure; `enabled` is never read; a running daemon
  does not see later sources.
* "escalate" is never the answer of a verification, because the count of attempts
  is in a task made anew each cycle; the failures are not reset after an
  escalation; names that differ in case share an id; `setCapabilityStatus` may put
  an available capability back to "acquiring".

**Knowledge, memory, learning**
* A second closing of a goal overwrites its archive (`memory-lifecycle.ts:513`) and
  a failed compression is swallowed (`:494`), against
  `docs/design/knowledge/memory-lifecycle.md:605` and 262; the retention policy has
  no caller.
* An exception in the second embedding, or a failed save of the index in either
  (`vector-index.ts:52`), leaves an indexed entry without a file
  (`knowledge-manager.ts:358`); overlapping saves, and an overlapping
  compression and closing (`memory-index.ts:151`), lose entries; sharing gives the
  vector another goal's id.
* A failed write of a pair's score or history is swallowed
  (`transfer-trust.ts:153`, `knowledge-transfer-evaluate.ts:116`), so a useless pair
  may take longer to fall silent.
* Applying a transfer automatically marks it applied although it failed; judging a
  transfer twice counts twice; the check "already shared" compares ids that copies
  do not have.

**Curiosity, reports, notifications** (none of `CuriosityEngine`,
`NotificationDispatcher`, `EventServer`, `PluginLoader` and the portfolio managers
is constructed in `src/src`; their modules describe what they do when they are)
* `rejection_cooldown_until` is never read (`curiosity.md:105`), `goal_id` never
  set, so an approved proposal counts against the limit for ever and
  "auto_closed" is never reached; proposals of transfers skip the ethics gate;
  approval is possible after the expiry.
* Two notifications under way both pass the cooldown; the first channel that
  succeeds suppresses the later ones' next; a week counts a day twice when it has
  two summaries; suppressed notifications are not batched (`reporting.md:319`).

**Agents, models, terminal**
* An ACP child killed by a signal keeps `exitCode` null and is taken for alive
  (`openclaw-acp.ts:85`); a timeout does not stop the agent; an agent that ignores
  SIGTERM is waited for without end (`spawn-helper.ts`); the A2A timer does not
  cancel the remote task; an open issue that could not be looked for counts as none.
* `openai-client.ts` looks for an error text nothing throws, so a refused request is
  sent again; the ethics log loses entries of overlapping checks
  (`ethics-gate.ts:68`).
* In the terminal a start after a stop launches a second run beside the first,
  whose end then takes the dashboard (`use-loop.ts:160`); a stop during the start's
  refresh is lost; a refresh that rejects ends the process (`use-loop.ts:133`);
  a second run's question overwrites the first; "Dismiss report
  overlay on any input" (`app.tsx:143`) cannot happen.

## 7. Not modelled

* Text: prompts, the prompt gateway, wording of reports and screens, embeddings,
  rules of the ethics gate. A model's answer, wherever the program acts on it, is
  a choice.
* Outside services: providers, agents, channels, data sources, trackers. `Agents`
  has what the adapters rely on, marked external in `PROJECT.json`.
* The portfolio managers, which nothing in the program constructs; reflection,
  whose text only enters prompts; guardrail hooks, which come from plugins
  (`TaskCycle` and `Models` take their verdict as a choice); data types, levels and
  formats of the log, the web interface.
* Time, but for the hours of `Reports`, `Curiosity` and the days of `Gap`: it
  appears as the order of events. The trust rate limit is not modelled.
* Floating-point rounding: numbers are whole or in fixed parts.

`PROJECT.json` says under "components" what is left out of each modelled part.
