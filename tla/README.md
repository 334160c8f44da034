# Verification of asyncr

asyncr is a small single-threaded async runtime: an executor with a ready queue
fed by wakers, spawned tasks with join handles, and timers. This directory holds
TLA+ models of its components, TLC configurations that check them on small
instances, and TLAPS proofs of the safety of every component. Paths such as
`src/src/executor.rs` are relative to the directory above.

## Inventory

| Component | State it keeps | Operations | Hard behaviour | What makes it correct |
|---|---|---|---|---|
| Task schedule (`scheduling/`) | one of Idle, Queued, Running, Running and notified, Complete per task, under a mutex; an mpsc channel of ready ids | `request_schedule`, `poll` (begin and finish), wakes from any thread | the id is sent after the mutex is released; wakes race with the poll and with each other | no wake is lost, no id is duplicated, only queued tasks are polled, finished tasks never |
| Executor (`executor.rs`, `runtime.rs`, `task.rs`) | admitted tasks, pending spawns, the channel's receiver, `closed`, the id counter | `block_on`, `next_ready_id`, `poll_task`, `submit`, drop | two queues (admission and scheduling); panics that unwind `block_on`; reuse for another `block_on`; destructors that run user code during shutdown | ids taken from the channel are admitted; no root id survives its `block_on`; no task starves; shutdown cancels everything |
| Join handles (`join.rs`, `handle.rs`, `catch.rs`) | Pending with a waker, Ready, or Consumed per task | `spawn`, `poll`, `publish`, drop of handle and sender | completion, panic, abandonment and shutdown all complete the same state; the waiter changes | exactly one truthful result; the latest waiter is woken; dropping the handle only detaches |
| Timers (`time/driver.rs`, `sleep.rs`, `clock.rs`) | a heap of deadlines, registrations by id, each Sleep's id and deadline, the clock | `register`, `update_waker`, `cancel`, `reschedule`, `process_expired`, `next_deadline`, `Sleep::poll/reset/drop`, pausing | lazy deletion; a Sleep learns late that it fired; time moves between expiry and poll | an alarm goes off once, not early and not never; `update_waker` finds its registration; a paused clock never moves back |
| Interval (`time/interval.rs`) | a Sleep, a period, a missed-tick behaviour | `poll_tick`, resets | Burst, Skip and Delay arithmetic, the 5 ms grace, two readings of the clock, resets of an awaited tick | ticks on the schedule each behaviour promises; an awaited tick is never lost |
| Timeout (`time/timeout.rs`) | a future and a Sleep, both dropped at the end | `poll` | both ready in one poll, or one between the polls of the other; another task polls it | a ready future wins; both are dropped together; the last polling task is woken |
| Context (`context.rs`, `runtime.rs`, `EnterGuard`) | a thread-local handle | `enter`, guard drop, `block_on`, `spawn`, `current` | nesting, unwinding, guards and handles that outlive their runtime, destructors that run in another context | set exactly while one guard lives; code finds the runtime that runs it; nothing waits in a closed runtime |
| Test utilities (`test_utils.rs`) | counters | wakers for tests | none | not part of the runtime |

How they interact: `Handle::spawn` wraps a future so that its panic is caught and
its result published to the JoinState, and submits it to the executor, which
admits it in the next round of `next_ready_id` and polls it with the waker of its
TaskSchedule. That waker may be cloned to any thread, to a JoinState (when the
task awaits a handle) or to a timer registration (when it awaits a Sleep).
Calling it puts the task's id into the channel on which the executor blocks, for
at most the time to the next deadline. Everything but the schedules and the
sending half of the channel stays on the runtime thread (`Rc`, `RefCell`).

## Modules

| Module | Models | State and actions |
|---|---|---|
| `ScheduleState` | `scheduling/state.rs` | pure operators; each transition is its next state and "does it enqueue" |
| `TaskSchedule` | `scheduling/mod.rs` at thread granularity | `sending[p]` is the id a thread holds between unlock and send; `RequestSchedule`, `Send`, `Recv`, `BeginPoll`, `FinishPoll`, `PollUnwinds` |
| `WakeContract` | what wakers promise | one bit per task; abstract specification of `TaskSchedule`, and of the schedules in `Executor` |
| `ScheduleStateProofs`, `TaskScheduleProofs`, `ExecutorProofs`, `TimersProofs`, `TimerContractProofs`, `IntervalProofs`, `TimeoutProofs`, `RuntimeProofs` | theorems about the module they are named after (`TimerContractProofs`: that `Timers` implements it) | inductive invariants, action properties and refinements |
| `Executor` | `executor.rs`, `join.rs`, `handle.rs`, `catch.rs` | `pc` is where the runtime thread is; one schedule per task and per `block_on` call (`Roots`), all roots under id 0; `RootPanics`, `TaskEscapes`, `PublishEscapes`, `WakerPanics` and `LookupPanics` are the ways to unwind `block_on`; shutdown in the steps of the Rust drop order |
| `SpawnContract` | what `spawn` promises | one fate per future; abstract specification of `Executor` |
| `Timers` | `driver.rs`, `sleep.rs`, `clock.rs` | heap as a set of pairs, registrations and sleeps as separate records; one round of `next_ready_id` is `ProcessExpired`, a `CallWaker` per fired registration (or `WakerPanics`), then an id, a timeout or an advance of the paused clock |
| `TimerContract` | what timers promise | alarms; abstract specification of `Timers` |
| `Interval` | `interval.rs` | `intervals[s]` is the struct; `poll_tick` is `PollTickPending`, or `PollTickElapsed` and then `PollTickReady` at a later reading of the clock; `alarm` of `TimerContract` stands for the Sleep's registration |
| `Timeout` | `timeout.rs` | `futures` and `alive` are the two Options; `poll` is `PollFutureReady`, or `PollFuturePending` and then `PollSleepReady` or `PollSleepPending`; `TakePanicsReady` and `TakePanicsElapsed` are the ends cut short by the future's destructor; `alarm` as in `Interval` |
| `Runtime` | `context.rs`, `runtime.rs`, `EnterGuard` | `context` is the thread-local; `frames` the stack of `block_on` calls and drops in which user code runs |
| `MC*` | instances | model values, symmetry |

`Interval` and `Timeout` are built on `TimerContract`, the specification that
`Timers` is shown to implement, as `Timers` is built on the set of woken tasks
that `WakeContract` promises. `Runtime` takes of the executor only whose tasks
are polled and dropped where; what happens to them is in `Executor`.

Operators named in a comment as `Mutation:` are plausible wrong versions of the
definition that follows them. They are in no specification; they are there to be
put in the place of that definition, and each property fails under one of them.

Abstractions that matter:

- `Executor` makes a `request_schedule` of the runtime thread one step. That
  thread alone takes ids from the channel, so nothing can tell its unlock from
  its send; `TaskSchedule` keeps the two apart and shows they may be.
- In `Executor` any schedule that exists may be woken at any moment user code
  runs, and by any other thread: wakers may be cloned without limit.
- A poll is `BeginPoll`, any number of user steps (wakes, spawns, join polls,
  handle drops), and one `EndPoll` alternative. A destructor is the same user
  steps inside the shutdown phases.
- `Escaping` names tasks whose poll may unwind past `CatchUnwind`, in one of two
  places. `TaskEscapes`: the wrapper drops the finished future itself, and its
  destructor panics before the result is published; the sender, dropped by the
  unwinding, publishes Cancelled. `PublishEscapes`: inside `publish_inner`, after
  the result is stored, the waker of the waiter or the destructor of an output
  without a handle panics (`join.rs:97-107`); the result stands. Either way the
  task stays in the map, Running for ever. The user code that runs in a publication
  is the user steps of the place `finish`.
- `CustomWakers` of `Executor` says what a waker called by the timer driver may do:
  any user step, a spawn among them (`reenter`), or panic and so unwind `block_on`
  (`panic`, `WakerPanics`; this stands for every panic in the expiry, also that of
  the assertion of `advance_to`, see `TimersProofs`). The runtime's own wakers do
  neither; custom ones may.
- `waiter` in `Executor` is no state of the code. It records who polled a handle last,
  no guard reads it, and the properties compare it with the waker that is stored.
- `TaskSchedule` gives each root an id of its own, so that a root id left over by an
  earlier `block_on` is visible in `Executor` only.
- Polling a JoinHandle after it returned breaks the `Future` contract (the code
  panics) and is not modelled. A poisoned schedule mutex is not either: the
  model stops at the failed assertion that would poison it.
- `Timers` takes the locked part of a round's expiry as one step and then calls
  the wakers one by one, in any order and one per task: a second wake of a
  queued task does nothing. The heap is a set, so equal entries are one; the
  second of two equal entries is stale when it is popped. Ids do not wrap (2^64
  registrations).
- `CustomWakers` of `Timers` says what such a waker may do to the timers when the
  expiry calls it: create, reset and drop sleeps and, in a test, move the clock
  (`reenter`), or panic.
- In `Interval` one task awaits the ticks in a loop, and any task may reset the
  interval meanwhile. A duration whose addition leaves the range of `Instant`
  (here `MaxTime`) panics in `deadline_after`, which ends the awaiting task.
- `Panicking` names timeouts whose future's destructor may panic. The panic leaves
  the Timeout between its two `take` calls, the future gone and the sleep alive
  (`torn`), until the Timeout is dropped.
- In `Timeout` the task that polled a timeout last polls it again in each of its
  polls, which is what awaiting it means; another task may take it over.
- `Runtime` has one thread: `Handle`, `EnterGuard` and `Runtime` hold an `Rc` and
  stay on theirs. Panics come from the calls that panic (`enter`, `current`).
  Left out are destructors that, during an unwind, enter a runtime, call `block_on`
  or panic and catch it (a second panic that is not caught aborts the process),
  and panics that get past the `CatchUnwind` of a task, which `Executor` has. What a
  collection does after the drop of an element panicked is a choice.
- `Timers` uses the set of woken tasks for scheduling, in any order; that the
  queue behaves like this set is what `WakeContract` is for.

## Runs

| Run | Instance | Shows |
|---|---|---|
| `task_schedule` | 3 tasks, 2 threads | state and channel agree; no duplicate id; the assertion of `begin_poll`; the proofs' invariant; refinement of `WakeContract` with liveness: every wake is answered by a poll |
| `executor` | 2 tasks, 1 other thread, 2 `block_on` calls, no escaping panic, no custom timer wakers, symmetric | admission, both assertions of a poll, root ids; the proofs' invariant |
| `executor_live` | the same, 1 `block_on` call | no starvation, refinement of `SpawnContract`, the waiter is woken |
| `executor_unwind` | escaping panics, re-entrant and panicking timer wakers, 2 `block_on` calls | every join is resolved once, truthfully, and by shutdown at the latest; refinement of `SpawnContract` |
| `stale_root` | an escaping task, 2 `block_on` calls | finding, below |
| `unadmitted` | re-entrant timer wakers | finding, below |
| `timers` | 2 sleeps, 1 task, time 0..2, 3 registrations, pausable clock, panicking wakers | heap, registrations and sleeps agree; assertions of `update_waker` and `advance_to`; the wait is for the earliest alarm |
| `timers_contract` | 2 sleeps, 2 tasks, 2 registrations, re-entrant wakers | refinement of `TimerContract` |
| `timers_live` | 2 sleeps, 1 task, running clock | every pending sleep ends |
| `interval` | 1 interval, periods 1 and 3, grace 1, time 0..7, 2 tasks | the tick schedule, the promise of each behaviour, an awaited tick is armed, an awaited interval goes on ticking |
| `timeout` | 2 timeouts, one with a panicking destructor, 2 tasks, time 0..2 | parts end together, or with the Timeout after that panic; the last polling task is armed; a ready future wins; an awaited timeout ends by its deadline |
| `runtime` | 3 runtimes, 2 tasks, 2 guards, symmetric | context, guards and stack agree; no task waits in a closed runtime |

Why the bounds suffice: a task's schedule interacts with others only through
the channel's order and the polling thread, so three tasks (one polled, one
queued, one in flight) show every pair; two threads race on one schedule and on
two. Two `block_on` calls are enough for state to leak from one to the next. Two
tasks give a joiner and a joined task, or one pending and one admitted spawn at
shutdown. Two sleeps and three registrations let a sleep fire, register again,
and meet a stale entry of itself and one of another sleep; time 0..2 has a
past, a present and a future. For `Interval`, a period that divides the grace and
one that exceeds it, and a time long enough for several ticks, a tick missed by
more than two periods, and a sum that leaves the range. Two timeouts and two
tasks let each task await one, both, or take over the other's. Three runtimes
are one to run, one to nest in it and one to drop in either; two guards show
that a second one never comes to be. `MaxBlockOns`, `MaxTime` and `MaxTimers`
bound counters that grow for ever in the code. Deadlock checking is off
because the models may stop: all tasks done, the executor dropped, a root
waiting for a wake that nobody gives, a bound reached.

Fairness: weak fairness of every step of the runtime thread and of the send
after an unlock, because threads are scheduled and polls are assumed to return or
unwind; weak fairness of `Tick`, because a running clock runs. None is
assumed of wakes, spawns, results of polls, `block_on` calls or the drop.
`Interval` and `Timeout` assume strong fairness of `GoOff` and of beginning the poll
of a woken task, because `block_on` looks at the timers before every id it takes
(`executor.rs:79`) and `executor_live` shows that a queued task is polled; and
that a task polls again what it awaits before its poll returns. They do not
assume that a future in a Timeout becomes ready, that an interval is not reset,
or that a timeout stays with one task.
`PendingSleepsEnd` is checked with the clock of a production build: a paused
test clock stands still while any task is ready.

## Findings

- `stale_root`: when `block_on` is unwound by something else than its root while the
  root id is in the channel, the next `block_on` of the same runtime fails with "only
  Queued tasks should be polled". Ids of roots are not told apart and the channel
  is not emptied on unwind (`executor.rs:60-73`). The run takes a panic of a task
  past its panic boundary; a panic in its publication, a timer waker that
  panics after another woke the root, and the failed lookup below do the same.
- `unadmitted`: `next_ready_id` drains the pending spawns before it calls timer
  wakers (`executor.rs:78-81`), so a waker that spawns makes "ready queue
  contained a task that was not admitted" fail, and the task is lost.

Both need unusual programs: a destructor or a waker that panics, a custom waker that
spawns. `executor` shows on its instance, and `PollAssertionHolds` and `AdmissionHolds`
for any, that the two assertions hold when no task panics past its boundary and
no custom waker is registered with a timer.

## Proofs

Every safety property of the passing runs is also a theorem, for any sets of
tasks, threads, sleeps, intervals, timeouts, runtimes and guards and any bounds.
The assumptions are those of the modules: the bounds are natural numbers,
periods are positive, ids of tasks are not the numbers of roots, the named thread
or task is what it says, and `None` is none of the values it is kept apart from.
Each module has one theorem `Inductive` for an invariant `IndInv` that the runs
also check; the others follow from it. `IndInv` contains the type invariant.

**`TaskScheduleProofs`.** `QueuedIffRepresented` alone is not inductive: that a
receive leaves the task's state justified needs its id to be nowhere else
(`RepresentedOnce`), and that `finish_poll` and `wake` see the states their case
analyses cover needs `PolledIsRunning`. The step is proved in parts (`TypeStep`,
`RunningStep`, `QueueStep`), the last over a notion common to all locked
transitions, `LockedChange`. `QueuedSchedulesAreReachable`, `IdsAreUnique` and
`PollAssertionHolds` follow, and `ImplementsWakeContract`: every step is a step of
`WakeContract` or none, under `phase` and `notified` read off the state.

**`ExecutorProofs`.** Also with panics that escape before or after publication and
timer wakers that spawn or panic. To the join properties the invariant adds
`PlaceTellsQueues` (what the place of the runtime thread implies for the queues
and the schedule under poll), `FuturesHaveOnePlace` (a future is pending or
admitted, not both, and unfinished ones have their sender) and `IdIsUnique` for
tasks. Steps are split by what they touch: wakes (`OnlyWakes`), joins, spawns, the
end of a future, shutdown, rounds.
  - `JoinsResolveOnce`, `FuturesAreOwned`, `ShutdownIsComplete`, `WaitersAreWoken`:
    unconditional.
  - `AdmissionHolds` supposes that timer wakers do not run user code (`"reenter"`);
    panicking ones are allowed. `PollAssertionHolds` and `RootIdsEndWithBlockOn`
    suppose `OnlyRootsUnwind`: no task panics past its boundary and no timer waker is a
    custom one. The hypotheses exclude what the findings above need; without them the
    runs `unadmitted` and `stale_root` refute the conclusions. Under `OnlyRootsUnwind`,
    `RootIdsAreCurrent` is part of the invariant.
  - `ImplementsSpawnContract`: the safety of `SpawnContract`; a fate changes
    once, to what the future did, and is delivered once.
  - `ImplementsWakeContract`: the same wakeup contract as for `TaskSchedule`, now for
    tasks and roots that are spawned, panic, are abandoned and shut down. No run
    checks this one by itself; the invariants it rests on are checked.

**`TimersProofs`** adds to the properties of the run `DroppedSleepsHoldNothing` (a
new Sleep in the place of a dropped one holds no id) and `PausedRoundsAreAhead`
(after the expiry of a round no registration is due on a paused clock).
Most steps leave registrations alone (`Quiet`); the others expire, forget,
register or move one, a lemma each. `ExecutorWaitsForTheEarliest` needs that a
non-empty set of deadlines has a least one (`LeastNumber`).
`AdvanceAssertionHolds` supposes that the wakers called by the expiry leave sleeps
and clock alone: one that resets a sleep to the past, or advances the clock past
a deadline, does so between the expiry and the advance of a round, and the
assertion of `Clock::advance_to` (`clock.rs:114`) fails. This takes a custom
waker and a paused clock, which only tests have.
**`TimerContractProofs`** proves `ImplementsTimerContract`, re-entrant wakers
included, for wakers that do not panic: when one does, `process_expired` drops
the wakers it has collected, and alarms that went off wake nobody.

**`IntervalProofs`.** `TicksDoNotDrift` and `BehaviorsKeepTheirPromise` rest on
arithmetic that the solver does not find by itself: `NextMultiple` says that
rounding up with a remainder gives the first multiple above, and `GridGoesOn` that
a step by a multiple of the period stays on the grid. Besides the two
properties the invariant has `PollsSeeTheTruth`: between the two readings of the
clock the tick stays elapsed and unarmed, and what was polled pending is armed.

**`TimeoutProofs`.** `PollsArmAsTheyGo` says what a poll has established so far,
because `AwaitersAreArmed` speaks of the time between polls only: a timeout it
went through is armed with its task, or this task was woken meanwhile. Its clause
on the half-polled timeout is what `ReadyBeatsElapsed` needs. `PartsEndTogether` has one
exception, a Timeout torn by its future's destructor, whose sleep ends with it.

**`RuntimeProofs`.** `ContextFollowsGuards` and `CodeRunsInItsRuntime` are inductive
only together with `BlockOnHoldsItsGuard`: a `block_on` on the stack has a guard that
user code can neither drop nor leak. The lemmas on the stack (`PushFacts`,
`FrontFacts`, `SetTopFacts`) say which frames and tasks a call, a return and a
change of the top keep.

Only model-checked:

- Everything with fairness, as the prover's back ends have no rule for it:
  `KeepsWakeContract`, `KeepsSpawnContract` and `AlarmsGoOff` (their safety parts
  are proved, the liveness is not), `QueuedIsPolled`, `PendingSleepsEnd`, `TicksGoOn`
  and `AwaitedTimeoutsEnd`.
- `AlarmsGoOff` is checked without custom wakers; `KeepsTimerContract` with
  re-entrant ones, as in the theorem.

## Not modelled

- Wrap-around of the 64-bit counters for task and timer ids: out of reach.
- The growth of the timer heap by frequent resets: a cost, no promise bounds it.
- Custom wakers whose clone or drop runs user code while the driver or a
  JoinState is borrowed. The wakers modelled act when they are called.
- Destructors, or wakers of waiters, that panic during the drop of an Executor:
  `Runtime` allows both outcomes, `Executor` leaves them out, since the standard
  library decides.
- Sleeps awaited by a task of another runtime than their own: they fire when
  their own runtime runs; each module has one driver.
- The values of futures, panics and results, `Display` of errors, and
  `test_utils.rs`.

## Plan

1. Theorems about the abstract specifications themselves, cited through the
   refinements: that a fate of `SpawnContract` is final and that `delivered` implies a
   fate, that a task of `WakeContract` that is Done stays so.
2. Shorter proofs where several theorems need the same facts about sequences.
3. Wherever the fairness of one component is the liveness of another
   (`block_on` polls what is woken, `GoOff`), say so as a property of both.
