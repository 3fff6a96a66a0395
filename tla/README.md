# Verification of TradeAgent

TradeAgent (`src/backend`) is a cryptocurrency trading platform written in
Python: a FastAPI server and a set of *runtimes* (ingestion, features,
strategies, execution, replay) that run as tasks of one asyncio event loop.
This directory holds TLA+ models of the parts of it that keep state across
suspensions and failures, the TLC configurations that check them on small
instances, and TLAPS proofs that hold for every value of their constants.

All paths below are relative to `src/backend`.

## Reading guide

| File | Content |
|---|---|
| `OrderStateMachine.tla` | one order's life: table of transitions, retries, idempotency keys |
| `OrderExecution.tla` | the engine and the reconciliation loop around it, with the exchange |
| `OrderPromise.tla` | what the engine promises about orders, without its mechanism |
| `OrderExecutionRefines.tla` | the mapping under which `OrderExecution` implements `OrderPromise` |
| `EventJournal.tla` | the event journal's buffer, flushes and stop |
| `JournalReplay.tla` | queries and replays beside it |
| `DependencyGraph.tla` | in which order runtimes start and stop, as operators |
| `Orchestrator.tla` | starting and stopping the runtimes of a mode |
| `TradingMode.tla` | transitions between backtest, paper and live, and the order router |
| `CircuitBreaker.tla` | the breaker around the collectors' calls |
| `OrchestratorCommandProofs.tla` | theorems about what commands do to the types they work through |
| other `*Proofs.tla` | theorems about the module they are named after |
| `MC*.tla`, `MC*.cfg` | instances for TLC |

An operator whose comment begins with "A mutant of" is not part of the model.
It is a plausible bug in the operator that follows it; with it in that
operator's place the property it is paired with in `PROJECT.json` fails. The
mutants show that each property can tell right code from wrong code.

## Inventory

What the system consists of, with the state each part keeps, how the parts
meet, and what is hard about them. `PROJECT.json` lists every component with
its source files, also those that are not modelled and why.

**Orders** (`domain/execution/state_machine`). `OrderStateMachine` keeps the
orders, a retry counter per order, idempotency entries with an expiry, and an
order journal. `ExecutionEngineWithStateMachine` submits and cancels through
exchange adapters and handles fills and rejections that arrive on the user
stream. `OrderReconciliation` asks the exchange for the state of every active
order every few seconds, in batches. They share the order objects. Hard:
fills may come before the reply to the submission, replies may get lost, a
`get_order` reply may be old when it is applied, two calls may carry the same
key. Correct means: the engine never claims what the exchange did not do, an
end is final, a key's outcome is remembered, and what was missed is repaired.

**Event journal** (`infrastructure/messaging/event_journal.py`). A buffer in
front of ClickHouse or a file. Every event published on the `RuntimeBus` spawns
an append; a timer, each query and `stop()` flush. Hard: several flushes at
once, failing inserts, the cancellation of the timer, and a lock that the code
takes twice; a replay reads page after page while all of this goes on. Correct
means: nothing accepted is dropped or written twice, and a replay misses nothing
that was there.

**Trading mode** (`domain/trading_mode`, with the commands in
`application/commands` and the router in `domain/event/kernel_event/router.py`).
The mode, a state and the adapter of the mode. Hard: a transition suspends
twice and others overtake it; there are four ways to ask for one, which treat
the confirmation differently. Correct means: real trading needs a
confirmation, the adapter belongs to the mode, and transitions end.

**Circuit breaker** (`infrastructure/utilities/resilience/circuit_breaker.py`).
Three states, counters and a clock. Hard: answers arrive in a state other than
the one that admitted the call, and calls may be cancelled. Correct means: the
thresholds hold, one period does not leak into the next, and the breaker does
not stay open or half-open for good.

**Orchestrator** (`application/workflows/orchestrator`,
`application/workflows/lifecycle`). Starts the runtimes of a mode along a
dependency graph, watches their tasks, stops them in reverse, and restarts all
of them when the mode changes. It keeps the same fact in several places: the
registry's state, the state machine's state, the task, `_is_running`. Hard:
`start`, `stop` and the mode-change callback interleave at every await, a task
may end at any time, and its callback may come late. Correct means: the records
agree with the tasks, a start or stop forgets nobody, dependencies come first.

**Other stateful parts.** Operation idempotency store
(`infrastructure/persistence/idempotency.py`), replay task manager
(`runtime/replay_runtime/shared_replay/replay_manager.py`), scheduler
(`infrastructure/scheduling/scheduler.py`), Kafka consumers
(`infrastructure/messaging/consumer.py`), event ordering by watermark
(`domain/event/kernel_event`), degradation manager, caches with a Redis lock
and rate limiter, snapshots and recovery. Each has one or two interleavings
worth a model; the most important are among the hazards of `PROJECT.json`.

**Parts without behaviour for a model checker.** Indicators, features,
strategies, risk and PnL (arithmetic on floating-point numbers), optimisation,
machine learning, backtests and research (numerical, sequential), collectors,
language models, data lake, HTTP API, monitoring and the web frontend (input,
output, layout).

How the parts meet: the API's commands reach the mode manager and the
orchestrator; the mode manager calls the orchestrator back on every change;
the orchestrator starts the runtimes and opens and stops the journal; runtimes
publish on the bus, which spawns journal appends, and send orders through the
router (by mode) to an execution engine, which talks to the exchange; collectors
call their sources through breakers.

## Orders

`OrderStateMachine` has one action per method. `status` also takes the value
`ABSENT`, for an order that has not been created. `keyStatus`/`keyOrder` are
the entries of `IdempotencyManager`; `Register` may find any entry expired.
The table `ValidTransitions` is the code's. A refused transition raises
`ValueError` in the code and is `Refused` here, because callers go on.

`OrderExecution` adds the engine, the reconciliation and the exchange. Calls
are cut where the code awaits an adapter: `SubmitOrder` runs up to the await,
`SubmitAccepted` and `SubmitFailed` are what follows it, and likewise for
`cancel_order` and `reconcile_order`. Between two awaits nothing else runs: the
code has one event loop, and its asyncio locks are never held across an adapter
call, so they never suspend. The exchange (external) accepts, refuses, fills,
rejects, expires and cancels, and its messages and replies may be lost or late.
A submission may fail, with an error the engine retries or one it does not,
whether or not the exchange opened the order; a cancel call may return although
nothing was cancelled, since an adapter answers `False` and the engine does not
look. An adapter is assumed to return an `orderId` when it accepts, and one
reconciliation pass runs at a time, as in the code's loop. The adapter's interface
is the one the engine calls: `submit_order`, `cancel_order`, `get_order`. The
adapters in `engines/adapters/exchange` have `create_order` in place of
`submit_order`, and nothing at this commit joins the two. Left out: published
events, slippage records, the order journal, `total_volume` and the counters of
the reconciliation. `cleanup_orphan_orders` is an action although the loop does
not call it; it is a public method.

`OrderPromise` says what remains true for a caller: an order is worked on and
then has one outcome for ever, and "filled" is reported only when an exchange
order opened for it was executed. "Closed" promises less: the exchange may
execute an order the engine has given up. The refinement is checked by TLC and
proved.

| Run | Instance | Shows |
|---|---|---|
| `order_machine` | 3 orders, one key, every method at any time | outcomes are final, reach the key's entry, and "completed" was earned by a fill |
| `order_keyed` | 2 calls, one key, 2 lots, one cancellation, one retry | types; a working order has an exchange order of its own; counters add up; `OrderPromise` is implemented |
| `order_pair` | 2 orders, one per batch, with fairness | the engine reports only what the exchange did, also from stale replies; missed outcomes get repaired, and no order starves behind another |
| `order_retry` | 1 order | finding: a scheduled retry never happens |
| `order_replay` | 2 calls, one key | finding: a replay opens a second order |

Two orders suffice for everything that happens between two calls with the same
key: one owns the entry, the other finds it. Three in `order_machine` allow an
entry to expire and be re-registered between them. A quantity of two makes a
partial fill possible. `order_pair`, which checks liveness and needs the
reconciliation loop, has one lot, no keys and no cancellation; one lot or one
cancellation more make it a million states, too many for its liveness property.
Its `LocalBacked` is proved (`EngineBacked`) for any quantity, with keys and
cancellations; `order_keyed` has no reconciliation loop, and the refinement it
checks is proved with one (`PromiseKept`). What has no proof and lies outside
`order_pair` is the repair of a cancelled or partly filled order. The number of
retries is 0 or 1 because the counter is only compared with its limit.

*Fairness* (`order_pair`, `order_retry`): the loop's steps are weakly fair,
since it sleeps and goes on while it runs and asyncio runs every ready task; a
query to the exchange that is repeated again and again is answered at last
(strong fairness of `XAnswer`). Nothing is assumed about submissions, fills or
messages.

*Findings.* (1) `fail()` logs that it schedules a retry, counts it, and then
tries PENDING to PENDING, which the table lacks; nothing reads the list of
pending retries. The order stays PENDING without an exchange id, so the
reconciliation cannot see it either. (2) `create_order` returns the existing
order of a known key, but `submit_order` does not notice and submits it again:
a second order is opened at the exchange, and its id overwrites the first one's.

## Event journal

The model is one journal object's life, from `initialize()` to the end of
`stop()`. `Take`/`WriteDone`/`WriteFails` are a flush into ClickHouse, cut at
the insert; `FlushFile` writes a file and never suspends. A failed batch goes
back behind newer events (`Requeue`). History variables record what the code
gives up: `lost` (a partly written file, a flush cancelled by `stop()`) and
`doubtful` (an insert that was applied and reported a failure). The properties
say that nothing else is lost or repeated.

`append()` calls `_flush_pending()` while it holds the lock that this asks for
again. The append that fills the buffer therefore never returns, and every later
append, flush, query and `stop()` waits for it. `FullBufferIsFrozen` states this.
Hence also the exceptions in `AcceptedIsStored`: an accepted event reaches the
journal unless the buffer filled up, the journal was stopped or the write lost it.

`JournalReplay` adds the queries of a replay: flush, read a page, move the
cursor (`NextCursor`), until a page is empty or the cursor has reached the end of
the window. A plain query is a replay that is not asked for a second page. The
history variable `wanted` holds what was in the journal when the replay began
and has not been read yet. `Rows` are the places in the journal of the rows of a
window, `Precedes` is the order in which a backend returns them (ClickHouse by time
and id, a file as it was written), and a `Page` holds those with fewer than `Limit`
others before them. `cut` records a read that went wrong: one that failed, which
the code answers like an empty page (`ReadFails`), or one that lost some rows, since
a row or line that cannot be parsed is dropped and a file that cannot be read to its
end gives what came before (`ReadInPart`). ClickHouse has counted such a row against
the limit, a file has not (`PartOfPage`).

A file is named by the UTC day of its events. When `query()` leaves out the files
outside its window, it takes the name for a day of the host's own time
(`FileStart`, `FileEnd`, `Opened`). On a host ahead of UTC by some hours, a file
therefore seems to end those hours too early: once a replay's cursor is past that
end, the rest of the day's file is skipped, and the replay ends without its
events. On a host behind UTC, a file may seem to begin after a window that its
first events are in. `Hidden` names the events this may cost.

`ReplayMissesNothing` says that a replay that was not cut short ends with nothing
in `wanted` but hidden events. Its exceptions are the cases in which the code does
miss events: a failed or partial read (`cut`), a
millisecond with more rows than a page (`FitsPage`), a file whose lines are not in
time order (`InTimeOrder`), and a file hidden by the reading of its name
(`Hidden`), which on a host in UTC is none. It speaks of events in the journal,
not of accepted ones: a query does not wait for the batch another flush is writing.

`journal` checks both with three events, of which three fill the buffer, a
replay in pages of two beside the timer and `stop()`, and one failing write on
either backend (two are too many for the liveness properties). Three events allow
a batch in flight, one requeued behind it and one arriving; two of them share a
millisecond, so that a page ends within it. A day has four milliseconds, the window
reaches into two of them, and the host is half a day ahead of UTC: the file of the
second day seems to end before its events, and a page that takes the cursor to their
millisecond hides what is left of them. *Fairness*: the timer's flush (it
wakes every two seconds), the answers to inserts, each spawned append, and a
reader that goes on asking. Failed writes are bounded by `MaxFaults`, which
stands for "inserts do not fail for ever". Not modelled: a query's filters by type,
symbol and trace, the failure counter, and a change of the host's offset from UTC
(daylight saving time).

## Trading mode

A request is a task in `transition_to`; `phase` is where it is suspended. Each
command is an action (`SwitchMode`, `StartLive`, `TransitionMode`) that runs to
the first suspension; `Disconnected`, `Connected`, `ConnectRaises` and
`CallbacksDone` continue it. `force=True` is treated like `confirmed=True`.
`adapter` names the request that created the adapter. `Execute` is the router's
gate and choice of adapter, which nothing interrupts. Statistics, history,
portfolios and `set_exchange` are left out; what the callbacks do belongs to
the orchestrator.

| Run | Instance | Shows |
|---|---|---|
| `mode_overlap` | 3 requests, 1 order, raising adapters, symmetry | types; LIVE only after a confirmation; the adapter in use is the mode's |
| `mode_ends` | 2 requests, 1 order, fairness, adapters that do not raise | transitions end, and no order leaves while one is between two modes |
| `mode_confirm` | 2 requests | finding: a confirmed START_LIVE is still asked to confirm |
| `mode_safe` | 2 requests | finding: LIVE is declared safe although connect() answered False |

Each request asks once, which is enough: a caller that asks twice is two
requests. Three can overlap so that one fails while the second disconnects and
the third enters. In `mode_ends` connect() never raises (`ConnectMayRaise` is
FALSE), as every adapter in the repository catches its own exceptions and
answers False; with a raising one the state may leave TRANSITIONING while
another transition disconnects. *Fairness*: adapters answer, callbacks return. The
second is an assumption: the orchestrator's callback stops the journal, which a full
buffer holds for ever (`FullBufferIsFrozen`). What then happens to the command is in
`Orchestrator`.

## Circuit breaker

A call has two steps: admission, and its answer. Each is a critical section of
`_lock` and does not suspend, with one exception: a rejected call awaits the fallback
while it holds the lock. Others wait meanwhile, but the breaker does not change, so
the fallback is left out; it is assumed to return. `call[c]` remembers whether the
call was admitted while CLOSED, in this HALF_OPEN period, or in an earlier one. `expired` is the
clock's comparison. Reading a status property moves OPEN to HALF_OPEN
(`ReadState`). `Lost` is a call that is cancelled or raises an exception that is
not expected: it is never counted and its probe place is not given back. The
history variables let one run check what holds in general and what holds while
nobody interferes: `cut` says that some call was cut off, `ordered` that an operator
(`force_open`, `force_close`, `reset`) put the breaker into the state it is in, until
it next changes its state by itself. A late answer is counted like any other;
nothing in the repository says that it must not be, so no property does.

`breaker` has four callers, thresholds 3 and 2, and 3 probes: enough for a late
answer of an earlier period beside a full set of probes. `HalfOpenResolves` needs
`half_open_max_calls >= success_threshold`, as in the defaults (the cfg's 3 and
2); the environment may set them otherwise. `ExhaustedIsStuck` is the reverse of
it: when all probes have been used and lost, every call is rejected until an
operator steps in. *Fairness*: the callers call again and again, calls end, and
time passes. Left out: the fallback, the statistics, the registry of breakers.

## Orchestrator

Commands (`START_ALL`, `STOP_ALL`, a change of mode) are tasks of one event loop.
`pc` says where a command is, and `loop` which command is running: it is `Free`
whenever that command has suspended, so nothing interleaves with a command that
runs. `Suspends` and `GoesOn` are the two ways a step may end. What suspends:
opening and closing the journal, `sleep(0)` after the creation of a `start()`
task, `instance.stop()`, the wait for the task, and the half second between the
stop and the start of a mode change. Everything else in `start` and `stop` runs
through. A stop that meets a journal whose buffer is full goes to `held`, which it
never leaves; `BufferFills` is the event that fills the buffer, and takes with it a
stop whose last flush has not begun. A task that does not end within ten seconds of
`instance.stop()` is cancelled (`DrainTimeout`), and the stop waits in `cancelling`
until it has ended, which may take the task some time or for ever:
`RuntimeContainer.start()` awaits in its `finally`. `ModeChanged` may also end the
command at once: when the new adapter cannot be made or connected, the mode has
changed and no callback runs. The journal is there even when its `initialize()`
fails, as `get_event_journal` has published the object by then; the branch of
`start()` that goes on without one then only logs.

The same fact is kept four times, and the model keeps it so: `state` (registry),
`tracked` (state machine), `live`/`ended` (the task), `attached`/`due` (its done
callback). `StartLaunches` and `Launched` are `lifecycle.start` before and after
its `sleep(0)`; `StopHalts`, `Halted`, `Drained` and `DrainTimeout` are
`lifecycle.stop` cut at its awaits. A type has at most one runtime, as the
catalogue registers them. `Service` types have `start()` and `stop()`, others
neither. A factory that raises is a type that is not `Buildable`, and an
application may register instances of its own before it starts. At this commit the
package cannot even be imported: `catalog.py` names `RuntimeType.INGESTION` and others, and
the enumeration it imports (`runtime/kernel/runtime_context.py`) has only LIVE,
BACKTEST and REPLAY. The model takes the enumeration to have the members that the
catalogue names; everything else is as the code says.

`DependencyGraph` states the sorted queue of `get_startup_order` as "the type of
the highest priority among those whose dependencies are placed", which is what
the queue's head is at every turn when priorities differ and there is no cycle,
as in the catalogue (`GraphAssumption`).

| Property | Hazard |
|---|---|
| `OneTask`, `StoppedMeansEnded` | overlapping commands launch a service twice, or over a task that is left |
| `RunningIsLive` | a task ends while the runtime is being stopped or started; a `start()` that returns within the `sleep(0)` gets no callback and stays RUNNING, so it is excepted (`attached`) |
| `SkippedForCause`, `StartAccountsForAll` | the order, or an absent or optional dependency, makes a start forget a runtime |
| `DependentsStopFirst` | a runtime loses its source while it runs |
| `StopIsComplete` | a stop leaves a runtime going up or down, or a task live that it has not tried in vain to halt |
| `TrackersAgree` | a failed stop, a late callback or a second start leaves the records apart |
| `CommandsEnd` | a service never ends by itself; nothing but a frozen journal or a cancelled task keeps a command from its end |

`StopIsComplete` speaks of the tasks as well as of the records. When
`instance.stop()` raises, the runtime becomes FAILED with its task still live, and
nothing in the code stops it afterwards; `unhalted` records those types, and they are
the only ones whose task may outlive a stop, but for `left` (below).

`StopIsComplete`, `TrackersAgree` and `DependentsStopFirst` are false when
commands overlap: two starts may both pass the guard while the journal is opened,
and the second one reports as failed what the first one runs. They are stated for
behaviours in which no command was given while another was under way
(`overlapped`); the other properties hold in general. What an overlap does to the
records is therefore seen in the model and promised by no property. The first two
also except `left`, the runtimes that ran when a mode without them came: `stop()`
asks for the runtimes of the new mode, so nobody stops these until a stop under a
mode that has them.

`orchestrator` has two callers and four commands over four types and three modes
of the catalogue: one of the modes lacks a dependency (feature without
ingestion), one has no buildable type, which makes the empty set of targets mean
all types, and one has a chain of three with an optional end. Ingestion is the
service. Two callers make every overlap of two commands; four commands are a
start, a change of mode, its overlap and what comes after. An instance with two
services was checked for safety alone, before the journal's buffer was part of the
model (9.75 million states, too many to repeat).

*Fairness* is weak fairness of `LoopRuns`: asyncio runs every ready task, and what the
code awaits returns: `instance.stop()`, the adapter's connect, the opening of the
journal, and its last flush while its buffer is not full (answers to inserts, as in
`EventJournal`). Nothing is assumed of the end of a service, of a task that was
cancelled, of a frozen journal, nor of anybody giving commands. Hence
`CommandsEnd` is stated up to `Settled`: each command has ended, is held by a frozen
journal, or waits for a task that it has cancelled and that is still live.

Left out: `restart`, `pause`, `resume` and `recover`, which nothing calls; the
supervisor, which nothing starts; health checks, event handlers, statistics; the
cancellation of a `start()` task from outside; changes to the graph.

## Proofs

All theorems are checked by TLAPS from the modules' named assumptions on
constants and nothing else (`OrdersKeepToTheMode` and `OnlyCutsExhaust` add one
each, which they state). They hold for any number of orders, keys, requests
and callers, and for any limits.

*Orders.* In `OrderStateMachineProofs`: type correctness (with the bounds on
retries and filled quantity), `KeysAgree` (a key's entry names an order of that
key and records its outcome; `CompletionsAreFills`) and `OutcomesFinal`. In
`OrderExecutionProofs` the property that matters, `LocalBacked`, is not inductive: a
message, reply or snapshot in flight may still change an order. The invariant adds that everything
on its way to an order is true of an exchange order opened for it: `TypeInv`
(`ExecTypeOK`, `CallsInv`, `IdsInv`, `AskedInv`) and `TruthInv`
(`SnapshotsInv`, `UpdatesInv`, `LocalBacked`, `WorkingHasExchangeOrder`). The
proof rests on one lemma about the exchange, *Forward*: it never takes back what
it did, so what was true when a reply was sent is true when it is applied.
`PromiseKept` uses the invariant for the refinement: every step of the
engine, the reconciliation and the exchange is a step of `OrderPromise` or a
stutter. `CountersAgree` proves `StatsConsistent` by naming what has been counted
(`Counted`): the calls that have returned and whose order is no longer working at
the exchange, or never was. A message that ends an order adds its call to that
set, since an order with an exchange id has a call that returned.

*Event journal.* `JournalInv` holds the types and three facts: batches exist only
while ClickHouse is the backend and their flush is under way (`BatchesInv`), what
an append has not accepted is nowhere (`PlacesInv`), and a journal loses its
backend only at the end (`LifeInv`). On it rest three inductive invariants.
`Kept` is `NothingDropped` itself: every step that takes an event from one place
puts it into another. `Copies` strengthens `WrittenOnce`, which counts, to the
places: an event occurs once in the buffer, once in the journal or once in one
batch, and in one of these only; appending it a second time is excluded by
`PlacesInv`, as a task appends once. `Ordered` strengthens `FileInOrder` to the
file followed by the buffer; a partly written batch (`Remains`) leaves gaps and
keeps the order. `JournalFreezes` needs the types only. The theorems hold for
`ReplaySpec` too, because every step of a replay is a step of the journal or
leaves it alone (`ReplayIsJournal`).

`ReplayMissesNothingEver` follows from `SoughtInv`: what a replay still wants is in
the journal, in its window and, while pages fit and rows are in time order, not
before its cursor, unless it is hidden or the replay was cut.
`ReplayMissesNothingInUTC` adds that nothing is hidden on a host whose local time is
UTC. The crux is `CursorPassesNone`. A page that does not hold all
rows ends with a row of some millisecond; the rows up to it are in the page
(`PageIsFirst`), so none is left behind when the cursor moves to that millisecond,
and when it moves past it, the page began there too and would have held all of its
rows, which are no more than `Limit`. The journal may grow between two pages:
`JournalGrows` says that it grows at its end and keeps its backend, and `RowsWere`
that a journal which meets the two conditions met them before, so the invariant
may state them about the present. `ReplayAdvances` is the part of `ReplayEnds`
that fairness has no part in: a page after which the replay goes on moves the
cursor forward inside the window.

*Trading mode.* Neither property is inductive alone: a suspended transition
will still set its target mode. `ModeInv` adds that a transition to LIVE which is
disconnecting was confirmed (`DoorInv`), and that a request which has not started has
neither a confirmation nor an adapter, so that starting it takes nothing away
(`IdleInv`). From it follow `AdapterFits` and `RealTradingNeedsApproval`, also
for adapters that raise. `OrdersKeepToTheMode` needs that none does: then at most
one transition waits for the old adapter and the state says so (`GateInv`); when
connect() raises the state is overwritten and the property is false.
Two theorems are what `TransitionsEnd` owes to the code and not to fairness, and
hold with raising adapters too: `TransitionsAreHeldOpen` (a manager that is
TRANSITIONING has a transition waiting to end that, so it is never left refusing
everything) and `TransitionsAdvance` (a transition goes through its stages once, and
once more for a second attempt).

*Circuit breaker.* `TypeOK /\ ClosedBelowThreshold` is inductive.
`ProbesStayLimited` counts a set: a step adds at most the caller it is about, and
a period begins with none. `OpenForgets` strengthens "OPEN" to "not HALF_OPEN".
`ExhaustedStaysStuck` is an action property and needs no invariant.
`OnlyCutsExhaust` is what `HalfOpenResolves` owes to the code: with
`half_open_max_calls >= success_threshold` a HALF_OPEN breaker whose calls all
return has a probe under way or admits another. The invariant is `ProbesCounted`: no
more probes have been admitted than are under way or counted as successes. Answers
that come late from an earlier period only add to the successes.

*Dependency graph.* `StartupOrderSorts` says what the recursive function in
`StartupOrder` computes for any catalogue that meets `GraphAssumption`: each target
once, and a dependency that is a target before what depends on it. The function
exists because the types are finite in number; its value has the property because,
if it had not for some set of types already placed, there would be a largest such
set (`LeastSubset`), at which the foremost ready type gives a contradiction, and
some type is ready because dependencies have no cycle (`SomeReady`).
`ShutdownOrderReverses` is the same for the order of a stop.

*Orchestrator, tasks* (`OrchestratorProofs`). `OneTask` is not inductive: two starts
may be about to launch the same service, and only the registry's state, read and set
without a suspension in between, keeps them apart. `LifecycleInv` says for every
runtime which commands are in the middle of it (launched, halting, draining: at most
one) and what its state, its task and its callback then are. From it follow
`OneTask`, `StoppedMeansEnded` and `RunningIsLive`, for any graph, any number of
callers and commands, and however they overlap.

*Orchestrator, commands* (`OrchestratorCommandProofs`). `PlanInv` relates what a
start has before it to what it has done: each target is to come or has an outcome,
and so has each dependency of a type to come, or it comes earlier. That is where the
order enters. From it follow `StartAccountsForAll`, `SkippedForCause` and
`OnlyFailuresSkip` (a start in which nothing fails skips nothing), however commands
overlap. The other invariant is `CommandInv`:

| Part | Says |
|---|---|
| `TurnInv` | a command at its next type runs: nobody moves between the guard of a start or stop and its effect |
| `StopPlanInv` | a stop never meets a type before one that depends on it |
| `HeldInv` | a runtime that is STARTING or STOPPING has a command that waits for it |
| `BuiltInv` | only types with a factory that works have a record or a callback |
| `HaltInv` | a runtime that is FAILED has a live task only if its `instance.stop()` raised, or while a command is about to look at its launch |
| `SerialInv` | while no command has overlapped another: one command at a time; a start has nothing before it that runs; a stop has before it all that runs; what runs is tracked as running and is of the mode (`RunningKnown`, but for `left`) |

`HaltInv` is why the second half of `StopIsComplete` holds: the step that makes a
runtime FAILED either follows the end of its task or puts it among the `unhalted`.
From the invariant follow `StopIsComplete`, `TrackersAgree` and
`DependentsStopFirst`. A mode none of whose types can be built makes the set of targets empty, which means all
types: hence `Wanted`. `CommandsAdvance` is what `CommandsEnd` owes to the code:
every step of a command lowers a measure (its phase, then the number of types before
it, then how far it is with the first), and nobody else's step touches the command,
except that a buffer that fills may hold a stop.

*Only model-checked:* the liveness properties `ReconciliationRepairs`,
`AcceptedIsStored`, `ReplayEnds`, `TransitionsEnd`, `HalfOpenResolves`,
`OpenRecovers` and `CommandsEnd`. Liveness under fairness is out of the prover's
reach, as is ENABLED; `ReplayAdvances`, `TransitionsAdvance` and `CommandsAdvance`
prove that three of them cannot fail by going round, `OnlyCutsExhaust` that a fourth
cannot fail by running out of probes; TLC shows that nothing stops for good. The
findings are counterexamples and have no theorem. Every other
property of a run is a theorem. Inductions over finite sets and numbers are done as
the search for a least counterexample, with `WFMin`, since the library's induction
theorems take an operator as a parameter, which the installed provers do not
support; modules with theorems reach no RECURSIVE operator.

## Plan

Done: orders, journal, trading mode, breaker, the orchestrator over the dependency
graph and replays of the journal, with proofs of all they are checked for but
liveness. What is left, in this order:

1. Proofs: measures as for commands and transitions, for a HALF_OPEN period and
   for a pass of the reconciliation.
2. `ReplayTasks`: pause, resume and cancel against the runner's awaits
   (`runtime/replay_runtime/shared_replay/replay_manager.py`).
3. `Scheduler`: overlapping spawns behind the semaphore
   (`infrastructure/scheduling/scheduler.py`).
4. `RuntimeBus`: its namespace is that of the mode when `subscribe` or `publish`
   is called, so that a change of mode parts publishers and subscribers.

## Not modelled

See `components` in `PROJECT.json`: 30 parts have a reason there. Some look like
candidates and are not used by the program at this commit: the operation
idempotency store has no caller, the base Kafka consumer no subclass, the
supervisor is never started, and the replay runtime imports a package that the
repository does not contain. A model of them would have no environment to be
faithful to. Most of the rest is arithmetic on floating-point numbers
(indicators, strategies, risk, backtests, research), which is by far the largest
part of the code, or input and output. Prices, sizes and every other
floating-point computation are left out throughout.
