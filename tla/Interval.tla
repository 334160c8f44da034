------------------------------ MODULE Interval ------------------------------
(***************************************************************************)
(* The Interval of src/time/interval.rs over the alarms of TimerContract:  *)
(* a Sleep that poll_tick resets to the next tick each time it elapses.    *)
(*                                                                         *)
(* One task awaits the ticks in a loop.  It may be late by any time, and   *)
(* the clock moves between the check that the Sleep has elapsed and the    *)
(* reading from which the next tick is computed.  Every task may reset an  *)
(* interval or change its MissedTickBehavior while the tick is awaited.    *)
(***************************************************************************)
EXTENDS Naturals

CONSTANTS
  Intervals,  \* the Intervals that may ever exist
  Tasks,      \* the tasks of the runtime
  Awaiter,    \* the task that awaits the ticks
  Periods,    \* the periods an interval may have
  Grace,      \* Interval::MISSED_TICK_GRACE_DELAY
  MaxTime,    \* the largest Instant
  None        \* no interval, no alarm, no task

Time == 0 .. MaxTime
MissedTickBehavior == {"Burst", "Skip", "Delay"}
Interval == [deadline : Time, period : Periods, behavior : MissedTickBehavior]
Alarm == [deadline : Time, waker : {Awaiter}]
History == [start : Time, ticks : Nat, skipped : BOOLEAN]

ASSUME IntervalAssumption ==
  /\ Periods \subseteq Nat \ {0}
  /\ Grace \in Nat
  /\ MaxTime \in Nat
  /\ Awaiter \in Tasks
  /\ None \notin Tasks \union Intervals \union Interval \union Alarm \union History

VARIABLES
  now, alarm, woken,  \* of TimerContract
  intervals,          \* deadline of the Sleep, period and behavior, or None
  poller,             \* the task under poll
  ticking,            \* the interval whose Sleep has elapsed in this poll_tick
  awaited,            \* the intervals whose poll_tick returned Pending in this poll
  history             \* since creation or reset: first tick, number of ticks, skipped?

vars == <<now, alarm, woken, intervals, poller, ticking, awaited, history>>

alive == {s \in Intervals : intervals[s] # None}
running == TRUE  \* block_on runs throughout
Timer == INSTANCE TimerContract WITH Sleeps <- Intervals, NoAlarm <- None

Init ==
  /\ now = 0
  /\ alarm = [s \in Intervals |-> None]
  /\ woken = {}
  /\ intervals = [s \in Intervals |-> None]
  /\ poller = None
  /\ ticking = None
  /\ awaited = {}
  /\ history = [s \in Intervals |-> None]

UserCode == poller # None /\ ticking = None

\* The Interval after Sleep::reset
at(i, d) == [deadline |-> d, period |-> i.period, behavior |-> i.behavior]

\* For history: a schedule begins at d; the tick that is due has been missed.
Since(d) == [start |-> d, ticks |-> 0, skipped |-> FALSE]
Missed(i) == now > i.deadline + Grace
-----------------------------------------------------------------------------
(* The next tick *)

\* Mutation: one period too early.
skip_too_early(d, t, period) == t - ((t - d) % period)

\* Skip: from t on to the next multiple of the period after d.
skip(d, t, period) == t + (period - ((t - d) % period))

\* MissedTickBehavior::next_deadline
next_deadline(behavior, d, t, period) ==
  CASE behavior = "Burst" -> d + period
    [] behavior = "Delay" -> t + period
    [] behavior = "Skip"  -> skip(d, t, period)

\* Mutation: a late tick follows the behavior without any grace.
late_at_once(d, t) == t > d

late(d, t) == t - d > Grace

NextTick(i, t) ==
  IF late(i.deadline, t)
  THEN next_deadline(i.behavior, i.deadline, t, i.period)
  ELSE i.deadline + i.period
-----------------------------------------------------------------------------
(* Interval *)

\* Mutation: the alarm of an interval that is gone stays.
cancel_nothing(s) == alarm

cancel(s) == [alarm EXCEPT ![s] = None]

\* Mutation: a reset forgets the alarm, as if the interval had just ticked.
reschedule_disarms(s, d) == cancel(s)

reschedule(s, d) == IF alarm[s] = None THEN alarm ELSE [alarm EXCEPT ![s] = [deadline |-> d, waker |-> @.waker]]

\* Interval::new, which asserts that the period is not zero.
New(s, start, period) ==
  /\ poller = Awaiter /\ UserCode
  /\ intervals[s] = None
  /\ intervals' =
       [intervals EXCEPT ![s] = [deadline |-> start, period |-> period, behavior |-> "Burst"]]
  /\ history' = [history EXCEPT ![s] = Since(start)]
  /\ UNCHANGED <<now, alarm, woken, poller, ticking, awaited>>

interval(s, period) == New(s, now, period)
interval_at(s, start, period) == New(s, start, period)

\* poll_tick while the Sleep is pending.
PollTickPending(s) ==
  /\ poller = Awaiter /\ UserCode
  /\ UNCHANGED <<intervals, poller, ticking, history>>
  /\ s \in alive
  /\ Timer!Set(s, intervals[s].deadline, poller)
  /\ awaited' = awaited \union {s}

\* poll_tick once the Sleep has elapsed, up to the second look at the clock ...
PollTickElapsed(s) ==
  /\ poller = Awaiter /\ UserCode
  /\ s \in alive
  /\ now >= intervals[s].deadline
  /\ alarm' = cancel(s)
  /\ ticking' = s
  /\ awaited' = awaited \ {s}
  /\ UNCHANGED <<now, woken, intervals, poller, history>>

\* ... which computes the next tick, resets the Sleep and returns.
PollTickReady ==
  /\ ticking # None
  /\ LET i == intervals[ticking]
         next == NextTick(i, now)
     IN  /\ next \in Time
         /\ intervals' = [intervals EXCEPT ![ticking] = at(i, next)]
         /\ history' = [history EXCEPT ![ticking] =
              IF Missed(i) /\ i.behavior = "Delay" THEN Since(next)
              ELSE [start   |-> @.start,
                    ticks   |-> @.ticks + 1,
                    skipped |-> @.skipped \/ (Missed(i) /\ i.behavior = "Skip")]]
  /\ ticking' = None
  /\ UNCHANGED <<now, alarm, woken, poller, awaited>>

\* The next tick exceeds the range of Instant: deadline_after panics, which
\* drops the awaiting task's future and all it owns.
PollTickPanics ==
  /\ ticking # None
  /\ NextTick(intervals[ticking], now) \notin Time
  /\ intervals' = [s \in Intervals |-> None]
  /\ history' = [s \in Intervals |-> None]
  /\ alarm' = [s \in Intervals |-> None]
  /\ ticking' = None
  /\ awaited' = {}
  /\ UNCHANGED <<now, woken, poller>>

reset_at(s, d) ==
  /\ UserCode /\ s \in alive
  /\ intervals' = [intervals EXCEPT ![s] = at(@, d)]
  /\ alarm' = reschedule(s, d)
  /\ history' = [history EXCEPT ![s] = Since(d)]
  /\ UNCHANGED <<now, woken, poller, ticking, awaited>>

\* Beyond the range of Instant deadline_after panics, and nothing is reset.
reset_after(s, after) == now + after \in Time /\ reset_at(s, now + after)

reset(s) == s \in alive /\ reset_after(s, intervals[s].period)

reset_immediately(s) == reset_at(s, now)

set_missed_tick_behavior(s, behavior) ==
  /\ UserCode /\ s \in alive
  /\ intervals' = [intervals EXCEPT ![s] =
       [deadline |-> @.deadline, period |-> @.period, behavior |-> behavior]]
  /\ UNCHANGED <<now, alarm, woken, poller, ticking, awaited, history>>

\* Drop of an interval, on its own or with the future of a task that unwinds.
DropInterval(s) ==
  /\ UserCode /\ s \in alive
  /\ intervals' = [intervals EXCEPT ![s] = None]
  /\ history' = [history EXCEPT ![s] = None]
  /\ alarm' = cancel(s)
  /\ awaited' = awaited \ {s}
  /\ UNCHANGED <<now, woken, poller, ticking>>
-----------------------------------------------------------------------------
(* The runtime around it *)

BeginPoll(task) ==
  /\ poller = None
  /\ UNCHANGED <<intervals, ticking, awaited, history>>
  /\ task \in woken
  /\ Timer!Poll(task)
  /\ poller' = task

\* The awaiting task returns Pending because every poll_tick did; an interval
\* that was reset after its poll_tick is not polled again.
EndPoll ==
  /\ UserCode
  /\ poller = Awaiter => alive \subseteq awaited
  /\ poller' = None
  /\ awaited' = {}
  /\ UNCHANGED <<now, alarm, woken, intervals, ticking, history>>

GoOff ==
  /\ poller = None
  /\ UNCHANGED <<intervals, poller, ticking, awaited, history>>
  /\ Timer!GoOff

Wake(task) == UNCHANGED <<intervals, poller, ticking, awaited, history>> /\ Timer!Wake(task)

Tick ==
  /\ now < MaxTime
  /\ now' = now + 1
  /\ UNCHANGED <<alarm, woken, intervals, poller, ticking, awaited, history>>

PollTick ==
  \/ \E s \in Intervals : PollTickPending(s) \/ PollTickElapsed(s)
  \/ PollTickReady
  \/ PollTickPanics

Next ==
  \/ PollTick
  \/ \E s \in Intervals :
       \/ \E period \in Periods :
            interval(s, period) \/ \E start \in Time : interval_at(s, start, period)
       \/ \E d \in Time : reset_at(s, d)
       \/ \E after \in Time : reset_after(s, after)
       \/ reset(s) \/ reset_immediately(s) \/ DropInterval(s)
       \/ \E behavior \in MissedTickBehavior : set_missed_tick_behavior(s, behavior)
  \/ \E task \in Tasks : BeginPoll(task) \/ Wake(task)
  \/ EndPoll \/ GoOff \/ Tick

\* The runtime thread runs and polls return; the awaiting task polls every
\* tick it awaits; block_on looks at the timers before every task it takes,
\* and takes every queued task in turn; time passes.
Fairness ==
  /\ WF_vars(PollTick) /\ WF_vars(EndPoll) /\ SF_vars(GoOff) /\ WF_vars(Tick)
  /\ \A task \in Tasks : SF_vars(BeginPoll(task))

SafeSpec == Init /\ [][Next]_vars

Spec == SafeSpec /\ Fairness
-----------------------------------------------------------------------------
\* Every variable has its type, only the awaiting task polls ticks, and an
\* alarm belongs to an interval that lives and is set to its deadline.
TypeOK ==
  /\ now \in Time
  /\ alarm \in [Intervals -> Alarm \union {None}]
  /\ woken \subseteq Tasks
  /\ intervals \in [Intervals -> Interval \union {None}]
  /\ poller \in Tasks \union {None}
  /\ ticking \in alive \union {None}
  /\ awaited \subseteq alive
  /\ \A s \in Intervals :
       alarm[s] # None => s \in alive /\ alarm[s].deadline = intervals[s].deadline
  /\ ticking # None \/ awaited # {} => poller = Awaiter
  /\ history \in [Intervals -> History \union {None}]

\* However late the polls are and wherever the clock moves, ticks stay on the
\* grid that starts at the first tick (Delay begins a new one when a tick is
\* missed by more than the grace), a tick has its own grid point, and without
\* Skip none is left out: the n-th tick is n periods after the first.
TicksStayOnSchedule ==
  \A s \in alive :
    LET i == intervals[s]
        h == history[s]
    IN  /\ i.deadline >= h.start + h.ticks * i.period
        /\ (i.deadline - h.start) % i.period = 0
        /\ ~h.skipped => i.deadline = h.start + h.ticks * i.period

\* What a tick taken at time now promises about the next one.  Burst: one
\* period later.  Skip: the first one still to come.  Delay: one period from
\* now.  The last two may be behind that by the grace, and never by more.
MissedTickPromise ==
  [][\A s \in alive :
       ticking = s /\ ticking' = None /\ s \in alive' =>
         LET i == intervals[s]
             next == intervals'[s].deadline
         IN  /\ next > i.deadline
             /\ i.behavior = "Burst" => next = i.deadline + i.period
             /\ i.behavior = "Skip" =>
                  /\ next <= now + i.period
                  /\ next > now \/ now - i.deadline <= Grace
             /\ i.behavior = "Delay" =>
                  /\ next <= now + i.period
                  /\ next + Grace >= now + i.period]_vars

\* No tick is lost while it is awaited: outside its own polls the awaiting
\* task is woken already, or the alarm will wake it at the latest deadline,
\* whoever has reset the interval.
AwaitedTicksAreArmed ==
  \A s \in alive :
    poller = Awaiter \/ Awaiter \in woken
      \/ alarm[s] = [deadline |-> intervals[s].deadline, waker |-> Awaiter]

\* What a poll has seen holds until it ends: the tick it takes has elapsed,
\* and the intervals it awaits have alarms.
PollsSeeTheTruth ==
  /\ ticking # None => now >= intervals[ticking].deadline /\ alarm[ticking] = None
  /\ \A s \in awaited : alarm[s] # None
  /\ \A s \in Intervals : intervals[s] = None <=> history[s] = None

\* The inductive invariant of the intervals.
IndInv ==
  /\ TypeOK
  /\ PollsSeeTheTruth
  /\ TicksStayOnSchedule
  /\ AwaitedTicksAreArmed

\* An interval that is awaited goes on ticking: its deadline is reached and
\* replaced by the next one, unless it is reset or dropped.
TicksGoOn ==
  \A s \in Intervals, d \in Time :
    intervals[s] # None /\ intervals[s].deadline = d
      ~> intervals[s] = None \/ intervals[s].deadline # d
=============================================================================
