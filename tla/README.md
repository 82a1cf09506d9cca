# A TLA+ verification project for noex-rules

noex-rules is a rule engine in TypeScript on one Node.js thread. Events, facts
and timers trigger rules, rules evaluate conditions and execute actions, and
actions raise further triggers. Around that core are durable timers, persistence and
versioning of rules, hot reload from files or storage, temporal patterns, baselines,
an audit log, tracing and debugging, loaders and builders of rules, a test runner, and
REST, GraphQL and webhook interfaces.

What makes it hard is not the arithmetic of single functions but awaits. Every
`await` is a place where another caller, a timer or a reload gets its turn, and
most components read some state before one and use it after. The modules here
model these components at that grain: what happens between two awaits is one
step, and steps of different calls interleave freely. Components without an await
(stores, indexes, validation, builders) are modelled for their long sequences of
legal calls, and for the definitions that must agree with one another.

Paths below are relative to the repository's `src/` unless they begin with
`docs/` or `tests/`.

## 1. Inventory

### The core

| Component | State | Operations | Hard behaviour | Correct when |
|---|---|---|---|---|
| Trigger processing (`core/rule-engine.ts`, `evaluation/action-executor.ts`) | `running`, `processingQueue` (a chain of promises), `processingDepth` (one counter for the engine) | `emit`, `emitCorrelated`, `setFact`, timer expiry, the actions of rules, `stop` | a trigger is chained, processed at once, or dropped depending on what other rules are doing; rules await cascades they raise; `stop()` in the middle | the counter is right on every way out; who raises a trigger awaits the whole cascade; recursion is bounded; stop lets nothing begin and drains the queue |
| Timer manager (`core/timer-manager.ts`) | `timers`, `handles`, `metadata`, its stored copy | `setTimer`, `cancelTimer`, expiry, `stop`, restore | overlapping calls for one name; expiry handlers that write back after an awaited callback; crash between schedule and save | an entered timer can fire; storage describes what is active; one-shot timers fire once; limits are kept |
| Rules and groups (`core/rule-manager.ts`, engine operations) | `rules`, indexes by trigger, tag and group, `groups`, `nextVersion` | register, unregister, enable, disable, update, roll back, group operations | long sequences of legal calls keep five indexes in step; restore rebuilds counters | every registered rule is found by its trigger; versions are distinct |
| Rule persistence (`persistence/rule-persistence.ts`) | one stored key, a debounce timer | debounced save, final save, load | a save that fails, a stop or crash before it fires | what is not stored is scheduled to be |
| Version store (`versioning/rule-version-store.ts`) | history per rule, the dirty set, the set of rules loaded | record, flush, load, clean up, stop, queries, diffs | overlapping flushes, loads and cleanups, failing saves, restart with an empty cache | versions in order; nothing unsaved is forgotten; only what is too old or too much is dropped |
| Hot reload (`core/hot-reload/watcher.ts`) | `ruleHashes`, a timer | check: load, compare, validate, wait, apply | differences are older than their application; registering can fail half way | hashes and rules agree; other rules are left alone; after failures rules and sources come together |

### Around it

| Component | What it keeps and does | Hard behaviour | Module |
|---|---|---|---|
| Temporal processor (`core/temporal-processor.ts`) | pattern instances with timers; the engine does not start it | timers racing events, instances held over an await | `Temporal` |
| Pattern matchers (`patterns/`) | instances and windows without timers | calls that overlap at callbacks, late events | `Matchers`, `Windows` |
| Fact store, event store (`core/fact-store.ts`, `core/event-store.ts`) | maps with indexes, pruning | indexes that only grow, wildcards | `FactStore`, `EventStore` |
| Lookups (`evaluation/data-resolver.ts`, `lookup-cache.ts`) | parallel service calls, a cache by age | concurrent misses of one key | `Lookups` |
| Baselines (`baseline/`) | statistics of metrics, by group, as facts | recalculations overlapping removal | `Baselines`, `Statistics` |
| Actions (`evaluation/action-executor.ts`) | nested actions and their variables | errors and variables across nesting | `Actions` |
| Backward chainer (`backward/`) | a bounded search with backtracking | limits that cut a search off | `Backward` |
| Audit log (`audit/audit-log-service.ts`) | ring buffer, indexes, flushes into buckets | flushes that overlap and fail | `AuditLog` |
| SSE managers (`api/notifications/`) | clients with filters | clients that leave during a broadcast | `SseStreams` |
| Webhooks (`api/notifications/webhook-manager.ts`) | deliveries with retries | retries beside unregistration | `Webhooks` |
| Subscriptions (`core/rule-engine.ts`, `api/graphql/`) | handlers by pattern, push queues | pushes and pulls in any order | `Subscriptions` |
| Tracing, profiler, metrics, OpenTelemetry (`debugging/`, `observability/`) | a ring of entries, counters, open spans | executions that take turns; observers that come late | `Traces`, `Observers` |
| Debugger (`debugging/debug-controller.ts`) | sessions, breakpoints, snapshots | sessions beside the engine | `Debugger` |
| History (`debugging/history-service.ts`) | answers from events and traces | causes that are pruned or of another correlation | `History` |
| YAML loader, validator (`dsl/yaml/schema.ts`, `validation/`) | pure functions | two definitions of a rule that must agree | `RuleSchema`, `RuleShapes` |
| Builders, tagged rules (`dsl/`) | half-built rules | methods in any order, shared lists | `RuleBuilders` |
| Templates (`dsl/template/`) | parameters and blueprints | what is checked, and when | `Templates` |
| Test runner (`cli/services/test-runner.ts`) | scenarios, each with an engine | a timeout that stops nothing | `TestRunner` |
| REST and GraphQL requests, CLI | translation of requests | none of their own | not modelled |

### How they interact

```
 callers, REST, GraphQL                sources (files, storage)
   |  emit, setFact, rules, groups        |  load (YAML loader, validator)
   v                                      v
 RuleEngine  <------ waitForProcessingQueue, (un)registerRule ------ HotReloadWatcher
   |   ^  \
   |   |   +--> RuleManager --debounce--> RulePersistence --> StorageAdapter
   |   |   +--> RuleVersionStore --flush interval---------->  StorageAdapter
   |   +------- onExpire (awaited) ------ TimerManager -----> TimerService, StorageAdapter
   +--> DataResolver --> services, LookupCache;  BaselineStore --> EventStore, FactStore
   +--> ActionExecutor --emit_event--> RuleEngine (awaited, nested)
   |                   --set_fact----> FactStore  (no trigger)
   |                   --set_timer---> TimerManager
   +--> subscribers (awaited): SSE, webhooks, GraphQL, TemporalProcessor of a caller
   +--> TraceCollector --> Profiler, MetricsCollector, OTel bridge, DebugController, history
   +--> AuditLogService --flush interval, full batch, stop--> StorageAdapter
```

`StorageAdapter`, `TimerService` and `GenServer` come from `@hamicek/noex`, which is
not in the repository. They are modelled from how `src/` uses them: a save takes
its contents when it is called, saves are carried out in the order they are
called, and any of them may be rejected, which leaves storage as it was; a
TimerService entry that is due is cast to its receiver and, unless it repeats,
removed; a GenServer handles its messages one at a time, in order, and goes on with
the next when the handling of one throws. Calls of TimerService itself (`schedule`,
`cancel`, `get`) may be slow but are answered.

## 2. The modules

| Module | What it is |
|---|---|
| `Cascade` | abstract: the forest of triggers that `await engine.emit()` promises |
| `Dispatch` | trigger processing; implements `Cascade` |
| `Timers` | the timer manager in both modes |
| `RuleRegistry` | `RuleManager` as functions from registry to registry |
| `RuleLifecycle` | the engine's operations over it, with persistence, versions, stop, crash and restart |
| `HotReload` | the watcher beside callers |
| `Temporal`, `Matchers`, `Windows` | temporal patterns, in the processor and in the four matchers |
| `AuditLog`, `RuleVersions`, `FactStore`, `EventStore`, `History` | what is recorded and asked for |
| `SseStreams`, `Subscriptions`, `Webhooks` | who is told of events |
| `Lookups`, `Baselines`, `Statistics` | what conditions read |
| `Backward`, `Actions`, `TestRunner` | the search for goals, nested actions, scenarios of tests |
| `Traces`, `Observers`, `Debugger` | what is told of executions |
| `RuleShapes`, `RuleSchema`, `RuleBuilders`, `Templates` | rules as data: valid, loaded, built, instantiated |
| `DispatchProofs`, `TimersProofs`, `RuleProofs`, `HotReloadProofs` | proofs about `Dispatch`, `Timers`, `RuleLifecycle` with its registry, `HotReload` |
| `MatcherProofs`, `WindowProofs` | proofs about `Matchers`, `Windows` |
| `TemporalProofs` | proofs about `Temporal` |
| `Services` | the nine services that `ServiceProofs` is about, side by side with their constants |
| `ServiceProofs` | proofs about `Services` |
| `MC_Dispatch`, `MC_Timers`, `MC_RuleLifecycle`, `MC_HotReload` | instances of one module each for TLC |
| `MC_Patterns` | `Temporal` and instances of `Matchers` and `Windows`, one of the three per behaviour, on common patterns |
| `MC_Services` | values for the constants of `Services`, and instances of the other modules, one per behaviour |

### Dispatch

`Emit`, `SetFact` and `TimerExpired` are the callers' triggers. `HandleInternalEvent`
raises an event and awaits its subscribers, and `Notified` continues.
`ProcessTrigger` is the three-way choice of `processTrigger`: dropped, processed at
once, or chained. `Dequeue` is the continuation of a link of the chain. `StartChunk`
starts up to `maxConcurrency` rules in one synchronous step, `ChunkDone` is the
`Promise.all` behind them, and `LookupsResolved`, `ExecuteEmit`, `EmitReturns`,
`ExecuteOther`, `RuleExecuted` and `RuleRejected` take a rule through
`evaluateAndExecuteRule`: the last two leave it by the `finally` that gives up the depth,
after the last action or when `execute` rejects because an action's input cannot be built.
`StopCalled`, `StopAwaits` and `StopReturns` are the awaits of `stop()`;
`ReloadAwaits` and `ReloadApplies` are the watcher's. Conditions hold or not by
choice; failures of actions differ from successes by nothing that is modelled.
The order of continuations is the one of JavaScript promises where it matters:
who awaits a link of the chain runs before the next link (`WaiterReady`).

`Cascade` says what the awaits are for: a trigger arises under an open one, and
closes after everything below it has closed. `Dispatch` maps its trigger states to
`none`, `open` and `over`.

### Timers

A timer is named by the `setTimer` call that made it; a shot is a `setTimeout`
handle or a TimerService entry. `SetTimer` runs up to its first await;
`CancelTimer`, `SetTimerResumes` and the scheduling of the durable mode are the
steps behind it, so that two calls for one name really overlap. `HandleFires` and
`HandlerReturns` bracket the awaited callback of the fallback mode, `Receive`
and `ReceiverReturns` that of the durable mode, whose receiver is busy in between.
Behind the callback `FollowUp` counts the firing and drops the timer or enters it
again; when TimerService is asked for something in between (to cancel a repeating timer
at its limit, to schedule the next entry of a cron timer) the expiry is `counted`, with
the count written, until `FollowedUp`. Every save of the metadata is carried out or
rejected (`Persist`): a rejected one fails the call (`failed`) or ends the expiry, with
what is in memory as it was changed, and `unsaved` remembers it. `Crash`, `Restart`,
`RestoreEntry` and `Restored` are the ways out of and back into the process; a process
may die at any point, inside the restore too, and what TimerService was asked to cancel
by then is cancelled or not. A save that is rejected at the end of a restore fails the
start, which is as good as a crash. When a shot is due is open: any order of expiries is
possible.

### RuleRegistry and RuleLifecycle

The trigger of a rule stands for everything it is indexed by. Operations are
synchronous and so single steps; a refused call changes nothing and is a disabled
action. `SaveFires` is the debounced save, `FlushBegins`, `FlushSaves` and `FlushFails`
are the version store's, `StopCalled`, `StopPersists` and `StopFlushes` the awaits of
`stop()`, `Exit` the end of the process with or without it, and `Start` restores.

### HotReload

A rule is a name (what the hash of a rule shows), a body (what it does not show)
and a group. `CheckBegins`, `SourceLoaded` for each source, and `Apply` are the steps of
`performCheck`. Between them callers register, unregister and update rules, create
and delete groups, edit sources and stop the engine. Applying is one synchronous
pass: `ApplySucceeds`, or `ApplyFails` at the first rule whose group does not exist,
with what came before it done. In which order the rules of a list come is open.
`outOfStep` and `known` are history variables the properties speak about.

### Temporal, Matchers, Windows

`Temporal` is the processor: a call of `processEvent` visits the rules and awaits
between them, so that `ProcessRule` is one visit, `MatchReturns` and `RuleReturns`
the awaits behind it; either may reject, and the call with it (`CallFails`). Instances stay in the sequence `instances` when they have left
the map, as suspended calls may hold them; `armed`, `setting` and `due` are where the
timer of an instance is, and one that `setTimer` refused a timer is in none of them. A match
awaits `onMatch`, `HandleTimeout` is the timer's callback, and rules are registered,
removed, switched and cleared in between. A rule that is registered again may have another
pattern, of another type too: its instances stay, later events advance them by the new
pattern, and `taken` records by which pattern each event was taken.
`Matchers` has the sequence and absence matchers and `Windows` the count and
aggregate matchers. These have no timers: late instances and windows are found by the
next event (`LookSequence`, `LookAbsence`, `ProcessTumblingWindow`) or ended by the
caller (`HandleTimeout`, `HandleWindowEnd`). Time is a small clock that a call reads
once, as the code does; an event carries the timestamp of its sender, which is `Ages`
older than the call, and it is the timestamp that a sliding window is pruned by (`Pruned`).
The callbacks of windows may throw (`CallbackThrows`), which leaves a sliding window
"triggered", so that ending it drops it without a report, and loses the event that ended
a tumbling one.

### The stores: AuditLog, RuleVersions, FactStore, EventStore, History

All entries ever made are in a history variable, and what the code keeps are sets or
sequences of their numbers. `AuditLog`: `Record` appends and may start a batch,
`Load` and `Save` are the two awaits of a flush for each bucket, `StopAudit` flushes
once more, and cleanup lists and deletes buckets. `RuleVersions`: `storeOps` holds the
flushes, cleanups and loads that await storage. Queries are operators that follow the
code (choose an index, resolve the ids, filter the rest) and are compared with a scan
of everything in `QueryExact`, `FactQueryExact`, `EventsExact`, `TracesExact` and
`VersionsExact`.

### Who is told: SseStreams, Subscriptions, Webhooks

A broadcast of `SseStreams` is one step over all clients, some of which throw and are
removed while it goes on. `Subscriptions` keeps the `Set` of each pattern by identity,
as an unsubscribe holds on to the one it was made with, and has the push queue of a
GraphQL subscription with its waiting reader. In `Webhooks` each delivery is a process
of its own: attempt, pause, attempt.

### What conditions read: Lookups, Baselines, Statistics

`Resolve` asks the cache for all lookups of a rule and calls the services that missed;
`Answer` and `LookupFails` come in any order. In `Baselines` statistics are the number
of the recalculation that made them, which is what staleness needs; `Statistics`
has the numbers: windows of the training period, sums, minima, variance, percentiles
and the weighted average, as integers in units of 1/`Scale`. Quotients and roots are
compared by multiples and squares.

### What runs: Actions, Backward, TestRunner

`Actions` has a stack of blocks: a list of actions, the block of a loop, a branch, the
three blocks of a `try_catch`, each with the variables it sets and removes. An action
may fail inside its `try`, which the list notes and goes on, or reject before it, when its
input cannot be built: then the block it is in is given up (`BlockRejects`), and the action
that block belongs to fails where it stands, with its catch and finally blocks left out and
the variable of its loop left set. A condition that throws fails its action. `Backward`
writes the search as a recursive function that threads the state of the code (visited
rules, how many were explored) and compares the answer with the chains of rules that
there are. `TestRunner` has the two sides of `Promise.race`: the scenario's own steps
and those of the runner after the timeout.

### What is told of executions: Traces, Observers, Debugger

`Traces` has the ring of entries with its indexes and the executions that record
entries, which take turns. An entry reaches the profiler, the counters, the spans of the
OpenTelemetry bridge and the sessions of the debugger in the step that records it.

### Rules as data: RuleShapes, RuleSchema, RuleBuilders, Templates

`RuleShapes` gives for each kind of object (rule, trigger, condition, each action, ...)
what `RuleInputValidator` accepts of each field, by classes of values. `RuleSchema`
gives what the YAML loader makes of the same fields, and `RuleBuilders` what the fluent
builders and the tagged template do: which method sets which field, what it checks,
what `build()` requires. `Templates` has parameters, references to them, and what is
checked at definition and at instantiation.

## 3. What is checked

| Run | Question | Result |
|---|---|---|
| `dispatch_cascade` | counter, awaited cascades, chunks, recursion, stop and reload, refinement of `Cascade`; also with a lookup service that calls back into the engine | holds |
| `dispatch_live` | without such services every trigger ends, `stop()` and the reload's wait return, there is no deadlock | holds |
| `timers_safe` | entered timers can fire, one-shots fire once | holds |
| `timers_live` | active timers fire or are withdrawn; calls return and restarts complete; storage agrees and limits are kept, also with saves that are rejected | holds |
| `timers_lost` | is a timer that was set there until it fires or is withdrawn? | no |
| `timers_restart` | does storage have every armed timer when nothing is under way? | no |
| `rules_lifecycle` | index, versions, history, saves, stop, crash and restart | holds |
| `rules_lookup` | has a rule that is looked up by a trigger that trigger? | no |
| `reload_sync` | hashes and rules agree, only sound rules, other rules left alone, recovery after failures | holds |
| `reload_edits` | is every edit of a source applied in the end? | no |
| `patterns` | in the processor matches fit the patterns, instances end once, and no time limit is forgotten; an instance of a matcher ends once, by an event of its window or timed out after it; an event is in one tumbling window, and a sliding window counts what its length leaves | holds |
| `services` | the twenty-five small instances of `MC_Services`, see below | holds |

Processor, matchers and windows share no state either: a behaviour of `patterns` has the
steps of the one that `focus` names. What the run calls `MatchersEnd` and `WindowsExact`
are those of the instances of `Matchers` and `Windows`, of which `MatcherProofs` and
`WindowProofs` prove them.

The modules of `services` share no state. A behaviour has the steps of the one that
`focus` names, so that the run is the sum of its instances and not their product. Its
properties join what the modules state. `Services` has the ones that are proved about:
the audit log with and without storage, the facts and the baselines over them, lookups, the event
store, streams, subscriptions and webhooks. `MC_Services` adds the others, each with its
own variables, and its specification `AllSpec` implies `ServicesSpec`: initial states and
steps are conjunctions, of what `Services` says of its variables and what `MC_Services`
says of the rest. So what is proved of `ServicesSpec` holds in the run.

| Property | What it joins |
|---|---|
| `EntriesKept` | an audit entry is pending, under way, stored or lost in a flush that failed, in one of them only; the event store keeps the newest events, up to its limit |
| `QueriesExact` | queries of the audit log and of the facts are answered as a scan would |
| `HistoriesExact` | versions leave for their age or number only, and what is unsaved is in the dirty set; queries of versions, of events by topic and correlation and of the history are answered as a scan would |
| `ListenersServed` | streams, subscribers and webhooks get what they asked for, each item once |
| `ObservationsExact` | profiles, counters and spans agree with the entries heard; traces, sessions of the debugger and statistics with what there was |
| `ReadsCurrent` | cached values are within the age they are kept for; statistics belong to a metric that is registered and to the facts |
| `ActionsRun` | loops, branches and try blocks do their parts in order with the right variables; the result of a scenario is its own; a goal is achievable when a chain of rules is |
| `WhatIsBuilt` | what the YAML loader and the builders return the validator accepts, but for named lists of exceptions; instances of templates have allowed values |

### What the runs that find a violation show

* `timers_lost`: a one-shot timer that is set again in its own callback, the usual
  way to make a reminder, is deleted by name when the callback returns.
* `timers_restart`: while a restart goes through the stored timers, storage still has the
  entries it has cancelled; when the process dies before the save behind the loop,
  these timers are gone.
* `rules_lookup`: `register()` of an id that exists leaves the old index entries.
* `reload_edits`: the hash of a rule does not cover the contents of its trigger,
  conditions and actions, so that a change of only these is never applied.

### Statements that do not hold

The modules also define statements that a reader may expect and that TLC refutes on the
instances of the runs when they are made a property; no run repeats them. Each says what the code does not promise.

| Statement | Why not |
|---|---|
| `Dispatch.DropOnlyDeep` | `processingDepth` counts all rules that execute anywhere: while `maxForwardDepth` rules of one chunk execute, an event of an unrelated caller is dropped without an error (`types/index.ts:120`) |
| `Dispatch.StopWaitsForRules` | a trigger that arrives while some rule executes is processed outside the queue, and `stop()` awaits the queue only (`docs/reference/01-rule-engine.md:763`) |
| `RuleLifecycle.StoredHistoryKept` | nothing loads the stored history at start; the first flush after a restart replaces it by one numbered from 1 (`docs/learn/06-organization/03-versioning.md:228`) |
| `RuleVersions.DiffComplete` | diffs do not compare `lookups` (needs two snapshots that differ in them; `services` has one) |
| `Baselines.FactsCleared` | `unregisterMetric` removes `baseline:name:*`, which never matches the longer keys of groups (`docs/reference/22-baseline.md:135`) |
| `AuditLog.MergedWithExisting` | two flushes that overlap on a bucket both load it, and the second save overwrites the entries of the first |
| `Lookups.OwnTtlKept` | a value cached for a lookup with a longer `ttl` is returned to one with a shorter |
| `Statistics.PercentileDetects` | statistics keep five percentiles (`baseline/statistics.ts:94`), and a comparison with any other, such as the documented `belowPercentile(10)`, never finds an anomaly (`docs/reference/11-dsl-conditions.md:488`, `:525`) |
| `Actions.FinallyRuns` | the input of an action is built outside of the `try` around it: when a reference in the try, catch or finally block names no source, the `try_catch` fails where it stands and the blocks behind are left out (`evaluation/action-executor.ts:323`, "always runs") |
| `Actions.ShadowingEnds` | an inner `for_each` or `catch` with the variable name of an outer one deletes the outer variable at its end |
| `History.TriggeredRulesFound` | no entry of a rule names the event as its cause, so that `triggeredRules` of `enrichWithContext` is always empty |
| `RuleSchema.CronNeedsNoDuration` | the validator requires `duration` of `set_timer` also with `cron` (`validation/validators/action.ts:159`, against `types/timer.ts`) |
| `TestRunner.TimersSeen`, `EventsSeen` | a timer that expires within the action that set it is not seen, nor are events that the initial facts lead to |
| `Temporal.StepsInOrder` | "events arrive in a specific order" (`docs/learn/05-cep/02-sequence-and-absence.md:16`): an event whose call awaits the match of an earlier instance is added to a later one after the event that came behind it; with the steps a, b, b the report has its events as 3, 5, 4 (needs three steps and five events, more than `patterns` has) |
| `Temporal.LimitsSet` | an instance is entered before its timer is set, and stays when `setTimer` rejects (`core/temporal-processor.ts:326`): it has no time limit, and blocks its group until an event ends it |
| `Temporal.MatchesOwnPattern` | a rule that is registered again replaces its pattern under the instances it has (`core/temporal-processor.ts:112`), and a match that was begun by one pattern is completed by the other and reported with the first |
| `Windows.NothingOldCounted` | pruning stops at the first event that is young enough, so that a late event behind it is counted although it is older than the window (`patterns/count.ts:448`) |
| `Temporal.AbsenceMeansAbsent`, `Windows.OneOpenWindow`, `Windows.InWindow` | an expected event whose call is still on its way does not cancel an absence; overlapping calls open two tumbling windows of a group, and put an event into a window that ended |

### Other things seen while modelling

Trigger processing and rules: `set_fact` raises no trigger, so that chains over facts
stop after one link, contrary to `docs/learn/06-organization/02-priority-and-ordering.md`;
`maxConcurrency` limits the chunk of one trigger and not the engine; `debounceMs` is
read and used nowhere; `rollbackRule` does not look whether the group of the snapshot
exists; `deleteGroup` changes rules without recording a version; after a re-registration
into another group `byGroup` still has the rule under the old one
(`core/rule-manager.ts:479`); the version of a rule that was unregistered before a
restart can be given again; a failing flush of versions loses them until the rule
changes again; overlapping flushes of one rule can leave the older state in storage; a
rule whose versions are all cleaned up is numbered from 1 again; when the final save
fails `stop()` rejects with the version store, audit log and timers not stopped
(`core/rule-engine.ts:1130`); five implementations of topic patterns disagree about
`*`. `atomicReload` is stored and never read (`docs/reference/24-hot-reload.md:158`): a
reload that failed half way stays half done when the sources take their change back.

Temporal patterns: events without the field to group by all form one group; counts and
aggregates over a wildcard topic never match in the processor; `expiresAt` is never
checked there, only the timer ends an instance; `unregisterRule` leaves timers and
suspended calls; a count with `eq` can be passed over by events that overlap;
`addPattern` of an id that exists empties what is known of its instances.

Audit log and observers: the entries of a flush that fails are in no later one, and the
rejection of `void flush()` is handled by nobody; a query with `types: []` finds nothing;
`TraceCollector.query` drops a filter by one type when a correlation or rule is given;
causes that form a cycle would not end `causationChain`, which no API can make;
the OpenTelemetry bridge overwrites, and never ends, the span of a correlation at its
second event and of a rule at its second execution in it; `rules_failed_total` counts
failed actions; a paused debug session pauses nothing, and `stepMode` is never read.

Streams and webhooks: connections can be added after `stop()`; a GraphQL subscription
gets an event once for each pattern that matches it; the engine's `order.*` matches
`order` and the streams' does not; a second call of an unsubscribe function can delete a
newer Set of the pattern (`core/rule-engine.ts:845`); retries go on after a webhook is
removed, and events can overtake each other.

Stores, lookups, baselines: with `maxEvents` below 10 nothing is ever pruned; indexes of
events are never pruned; a pattern with a partial wildcard in its first segment misses
facts; a cached `undefined` is never a hit; groups without events keep old statistics;
loops over groups go on after `stop()`; windows without events are left out, also of
counts; with no deviation any difference is critical.

Search and actions: at `maxExploredRules` the answer is `all_paths_failed` like any
other; `buildActionInput` is outside of the `try` of an action, so that an error in it
rejects the whole list.

Rules as data: the loader returns rules that the validator refuses (blank names,
thresholds below 1, two rules of one id, `cron` timers); fields of `for_each` and `repeat`
are validated by nothing; durations of digits only pass the validator and throw in
`parseDuration`; a second `elseIf` drops the first; what `build()` returned shares its
lists with the builder; YAML templates drop `group` and `lookups`, and so does the `test`
command; `TemplateBuilder.build` does not look for undeclared parameters in description,
tags and `enabled`, although `dsl/template/template-builder.ts:339` says all.

Server and test runner: when `listen` fails, the engine that the server started stays;
the actions of a scenario that timed out go on beside the next one.

### Bounds

* Dispatch: two external triggers and up to six altogether, depth limit 2, two rules,
  `maxConcurrency` 1 so that there are several chunks; rules of different triggers overlap.
  Two external triggers suffice for one to overtake, to be nested beside and to be
  stopped behind the other; six are more than a self-triggering rule can raise under
  this limit. `stop()` and the reload happen at most once each.
* Timers: three calls on two names without a crash for what concerns handles and
  expiries, as a third call is what comes between the two that overlap; two calls and two
  crashes for storage and for liveness, so that the second crash falls into the restore
  from the first; `timers_restart` needs one of each. Any save may be rejected, any number of
  times. Six shots are never all in use. No name has both a
  repeating and a cron timer (a leaked repeating entry then multiplies cron entries
  without a bound), and one expiry per name waits in the mailbox.
* Rules: three operations on two rules, two triggers and one group, two versions
  kept per rule so that trimming happens, one crash. Ids and triggers are
  symmetric, which the safety properties do not notice. Deadlock is not checked,
  as after the last stop or crash everything rests.
* HotReload: three changes outside the watcher, any number of checks, two rules,
  two sources, one group, five definitions (same hash with another body, another
  name, another group, an invalid one). A reload that fails half way needs two
  changes, its repair a third. Deadlock is not checked, as a stopped watcher rests.
* Patterns: three events or changes together (at most one change), two topics, one
  group and none, one to three patterns of the eleven in `MC_Patterns`, windows of one
  tick. Two events complete a sequence; the third overtakes, strays or comes late. The
  clock goes up to one in the processor (and on while timers are set), to two in the
  matchers. Events of the windows may be two ticks old when they come, so that some are
  too old; no property of the processor depends on timestamps, so there they are the time
  of the call. The rule `sequence` may be registered again, strict or as an absence. That a
  call is held up so long that its event joins a later instance out of turn (`HeldUp` in
  `MatchesFit`) takes three steps and five events; the run does not reach it, the proof
  covers it. Adding a pattern of a matcher again adds the one it had. Deadlock is not
  checked, as a processor without events rests.
* Services: `Services.cfg` and each instance in `MC_Services` name their bounds. They are chosen so that
  every limit of the code is reached: a buffer of two entries gets three or four, of ten
  events twelve; two flushes overlap on one bucket; two listeners, of which one leaves;
  three attempts of a delivery; two versions kept of three; searches that meet either
  limit; every class of value in every field, two fields at a time where one decides
  about the other. Deadlock is not checked, as services without calls rest.

### Fairness

`dispatch_live` assumes weak fairness of the engine's steps together: the event loop
runs some continuation that is ready, and services and subscribers return. Callers
are not obliged to anything. `timers_live` assumes it per call, per name for due
shots and returning callbacks, for the receiver and for the restart: timers come
due, callbacks return, and storage and TimerService answer, if with a rejection. `reload_sync` assumes it of the watcher's steps: its timer
fires, loads return or fail, and the queue becomes empty, which `dispatch_live`
checks (`WaitsReturn`). No strong fairness is used, and the services are checked for
safety only.

## 4. What is proved

Theorems hold for all values of the constants under the named assumptions, which
fix their types, say that the markers for absence (`NoRule`, `NoGroup`, `Other`)
differ from what they mark, and for patterns that windows are numbers and the steps of a
sequence a list of matchers (`PatternsTyped`, which `validation/` sees to), and for services that keys and patterns of facts have
segments and the name of a metric no wildcard (`FactsTyped`, `NamesTyped`), that audit
entries have a type, a webhook is tried once at least, ages and limits are numbers, and what
a rule or a subscription asks for is finite (`AuditTyped`, `HooksTyped`, `LimitTyped`,
`LookupsTyped`, `SubsTyped`). For
`Windows` it also says that a tumbling window has a length; the code does not refuse
`"0s"`, and computes `NaN` for the start of such a window, of which nothing is said here.
TLC evaluates the assumptions on the instances of the runs. Every proof of
an invariant has the same form: an inductive invariant that is stronger, one lemma for
each action or for each of its conjuncts, and the theorems as consequences.

* `DispatchProofs`. The inductive invariant `Inv` of `Dispatch` joins the types, the
  depth counter (`DepthIsActing`), rules starting in order and living only in
  running triggers (`StartedInOrder`), awaited cascades (`ParentWaits`), and what
  the chain and the numbering of triggers hold (`QueueIsQueued`, `UsedTriggers`,
  `KeyKnown`). The counter alone is not inductive: that a started chunk adds as
  many acting rules as it counts needs that none of them had started. Each action
  has a lemma on its effect. From `Inv`: `TypeCorrect`, `DepthCorrect`,
  `CascadesAwaited`, `CascadeImplemented` (each step is a step of `Cascade` or a
  stutter, the closing step by `ParentWaits` and `StartedInOrder`), and
  `StoppedBeginsNothing`.
  `OrderInv` has three parts beside `Inv`. `ChunksInOrder`: a
  trigger with rules left has started a multiple of `maxConcurrency` of them, without
  which two rules of one chunk could not be told from two of different ones; from it
  `ChunksAwaited`. `ChainSound`: whoever awaits the chain up to a link (`Ahead`) has that
  link queued, being processed, or over with nothing begun behind it; from it
  `QueueDrained` and `ReloadedBetweenLinks`. `Nested`: each open trigger has a set of
  executions above it (`Path`), of which `level` are acting and all are counted in
  `processingDepth`; as the depth was below the limit when the trigger was admitted,
  `RecursionBounded` follows.
* `TimersProofs`. Both modes at once: which conjuncts say something depends on
  `useDurable`. `TypeOK` and `References` (shots, entries, metadata and expiries name calls and
  timers that exist) carry the rest. Fallback mode: an entered timer has an
  armed handle, or a call or expiry that is about to arm one (`EnteredIsServed`), and
  a handle clears only its own name's shots (`HandlesNamed`). Durable mode: no shot is referred to by
  two names (`NoClash`), metadata has a live entry, message or expiry (`MetadataBacked`),
  an expiry has read metadata as they are, with the count it has written (`ReadIsCurrent`),
  a repeating entry stays (`RepeatArmed`), storage after a save is memory, memory before the
  count of an expiry that awaits the service, or what a restart leaves out (`StorageFollows`),
  and metadata at its limit, in either, is of such an expiry, of one that a crash has cut
  off, or without its entry (`LimitsKept`). `CrashSafe` alone is not inductive, since a save
  is carried out after other calls have gone on: it needs all of these. From them `EnteredTimersAreArmed`,
  `ActiveTimersAreBacked`, `CrashesAreSafe`, `LimitsAreKept`, `OneShotsFireOnce`.
* `RuleProofs`. `Good(reg)` says that the index has every rule, versions are
  distinct and below the next one; `GoodContent(stored)` says it of what a restart
  will restore. Each registry operation preserves `Good`, restoring makes it from
  `GoodContent`, and the stored versions stay below the counter, without which a
  restart in between could repeat one. That the counter is the maximum plus one is
  proved by well-founded minimisation rather than induction. From it:
  `IndexIsComplete`, `VersionsAreDistinct`.
  `KeptInv` joins histories and saves: versions are numbered
  without gaps and the latest shows the registered rule (`HistorySound`), what no flush has to
  save is stored (`FlushedUnlessDirty`), a change is scheduled or the last save failed
  (`SaveScheduled`), the final save has everything (`StopKeepsRules`), and an engine that is
  down has nothing in memory (`DownIsEmpty`), which is what makes the others survive
  a crash. `RestartFindsSaved` is the action property of `start()`.
* `HotReloadProofs`. `Inv` adds to the properties that a list which is to be applied
  was accepted, and still is as neither it nor the hashes change before
  (`AppliedIsAccepted`), and that what is listed, loaded or remembered is known
  (`Mentioned`). From it: `RememberedCorrect`, `RegisteredAreSound`,
  `ForeignRulesKept`. `StoppedRulesUnchanged` needs no invariant: applying is refused
  by the first operation once the engine does not run.
* `TemporalProofs`. `IInv` says of each instance that its events are ones its rule has
  processed (`Begun`), fit the steps of the patterns they were taken for, in turn or held up
  (`Fitting`), are different unless rules change (`Distinct`), that an active one has its timer
  or was refused one (`TimeoutCovered`), and that an active absence has seen nothing it waits for
  (`Observed`); of each report that it is about an instance that has ended for good
  (`Reported`); and of each call that awaits a callback inside the loop what it may still
  do to the instances it holds (`Suspended`). The last is the heart: the list was read
  before the await, and only what the histories say of it then makes the rest of the
  loop sound. From it `InstancesSoundHolds`, `MatchesFitHolds`, `AbsenceObservedHolds`.
* `MatcherProofs`. `IInv` says that an instance in the Map is open and expires a window
  after its first event (`Timed`), that a call inside the loop holds instances there are
  (`Holds`), and that an ending keeps for ever the state and the cause it has (`Ended`). A
  call that goes on after a callback looks at the state of an instance again, which is
  why the stale list does no harm: each step either ends one open instance or ends none
  (`EndStep`, `NewStep`). From it `MatchersEndHolds`.
* `WindowProofs`. A call is at each pattern once (`Visited`), a pattern takes up its event
  in that step (`Pushed`), and the event is in the window that `byGroup` names from then on
  (`Placed`). For tumbling windows: no two have an event in common (`Apart`), and the first
  event is not before the start (`Ranged`), so that as long as events are taken up in order
  no later one is. For sliding windows: what is held is what the length left when the group was
  taken up last (`SlidingHeld`), which is the strengthening. What is left is an event that is
  young enough by its timestamp, and what came behind one (`InLength`, `Recent`): pruning
  takes from the front, whatever the timestamps are, so that this is what pruning a list in
  order computes (`PrunedIsRecent`), and what an earlier pruning took can never be left by a
  later one as the times of calls do not go back (`Timely`). From it `WindowsExactHolds`.
* `ServiceProofs`. Each service has an inductive invariant of its own, and `ServicesInv` is
  that of the one that takes steps (`ServicesSound`). Sums, counts and filtered lists that
  the properties compute by recursive functions are met in the proofs by their recursion: one step of the
  function for the item, the client or the delivery that is new, the rest unchanged.
  - The audit log with storage (`StoredInv`): what a flush loaded from a bucket was stored
    then, so it is in storage still, deleted or overwritten. Without it two flushes on one
    bucket could bring an entry back. From it `InOnePlace`.
  - The audit log in memory (`MemoryInv`): the five indexes are, field by field, exactly the
    entries in memory. Record, eviction, cleanup and clear keep that, and whichever index a
    query starts from, the remaining filters make it the scan.
  - The facts (`StoreInv`): the prefix index has each key under its first segment and has no
    others. A pattern whose first segment is no wildcard is covered by it.
  - Baselines (`BaselineInv`): a metric is registered once, and statistics are of a registered
    metric and those in the facts. A recalculation that was under way when its metric
    was removed looks it up again, and that is what keeps this.
  - Lookups (`LookInv`): a cached value is the answer of a call for its key, with the time of
    the answer, and a resolution holds calls made for the keys of its rule. The slower of
    two calls overwrites the cache with an answer that is no older.
  - The event store (`EventsInv`): what is there are the newest events (`NewestAre`), and times
    grow with the numbers. Pruning a tenth takes from the oldest, pruning by age too, because
    of that order.
  - Server-sent events (`StreamInv`): what a client was sent is what is due to it (`Due`) up
    to the last item, or up to when it left; `totalSent` is the sum over clients
    (`Counted`). A broadcast that removes a client that throws changes no other.
  - Subscriptions (`SubInv`): the set of a pattern is shared by those who hold it, and no two
    patterns have one (`Placed`); what was delivered and what is queued is what
    is expected, and a reader that sleeps has an empty queue (`SubSound`).
  - Webhooks (`HookInv`): an event and a hook have one delivery; its attempts are apart by at
    least the pauses, its end is within the sum of pauses and timeouts (`Timed`), and the
    totals count the deliveries that are over (`Over`).

  From it the four properties of `services` that are about these: `EntriesAreKept`,
  `QueriesAreExact`, `ListenersAreServed`, `ReadsAreCurrent`.

Only model-checked:

* liveness, with fairness and ENABLED beyond the prover: `dispatch_live`, `timers_live`,
  and what `reload_sync` says of recovery;
* `HistoriesExact`, `ObservationsExact`, `ActionsRun` and `WhatIsBuilt` of `services`: what
  a query of versions and timelines, a profile, a search or a list of actions returns is folds
  and recursion over data of any depth, and what they are compared with is, too; that
  loaded and built rules are valid is a table of fields, which TLC goes through in full;
* that the statements under *Statements that do not hold* are refuted, which is TLC's.

## 5. What is not modelled

* REST routes and schemas, GraphQL queries and mutations, the CLI and its output: they
  translate requests into the operations modelled here and keep nothing.
* Start and stop of the server.
* Texts: interpolation, parsing of durations, patterns and template lines into words,
  wording of errors, the Mermaid diagram, the text that Prometheus reads.
* Averages, gauges, histograms and durations of profiles and metrics; attributes of spans.
* Inside the modules: contents of conditions, events and facts (except where a module
  is about them), wall-clock time in the core (durations, debounce intervals),
  `validateBeforeApply: false`, change listeners of the fact store, which nothing
  registers.
* Conditions: the operators that the backward chainer uses are in `Backward`; those of
  `ConditionEvaluator` that differ only by the comparison of two values are a choice in
  `Dispatch`.

## 6. Plan

Done: trigger processing, timers, rules with persistence and versions, hot reload;
temporal patterns; every service around the engine; proofs of every safety property
that the runs check of the core, of temporal patterns, and of the services that keep state
over an await, a queue, an index or a cache.

Left, in this order:

1. Proofs of the version store (`VersionsKept`, `SavedUnlessUnsaved`) and of templates
   (`InstantiatedSound`), whose state is small; then of profiles and counters.
2. Composition: rules that set timers inside `Dispatch`; the reload's pass over
   `RuleRegistry`; a temporal processor on what `Timers` promises.
3. The start and stop of the server with the services it owns.
