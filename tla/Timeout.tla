------------------------------ MODULE Timeout ------------------------------
(***************************************************************************)
(* The Timeout of src/time/timeout.rs over the alarms of TimerContract: a  *)
(* future and a Sleep that are polled one after the other.                 *)
(*                                                                         *)
(* The clock moves, other threads wake tasks and the future becomes ready  *)
(* between the two polls.  A Timeout may be polled by one task and later   *)
(* by another: what it owes a wakeup to is the task that polled it last.   *)
(***************************************************************************)
EXTENDS Naturals

CONSTANTS
  Timeouts,  \* the Timeouts that may ever exist
  Tasks,     \* the tasks that may poll them
  Durations, \* the durations given to timeout
  MaxTime,   \* the largest Instant
  Panicking, \* the timeouts whose future may panic in its destructor
  None       \* no task, no alarm, no timeout

ASSUME TimeoutAssumption ==
  /\ Durations \subseteq Nat
  /\ MaxTime \in Nat
  /\ Panicking \subseteq Timeouts
  /\ None \notin Tasks \union Timeouts \union [deadline : Nat, waker : Tasks]

Time == 0 .. MaxTime

VARIABLES
  now, alive, alarm, woken,  \* of TimerContract; alive: sleep is Some
  futures,    \* the timeouts whose future is Some
  deadline,   \* of the Sleep
  ready,      \* the timeouts whose future can complete
  waker,      \* the task whose waker the future holds
  outcome,    \* what became of the timeout
  awaiter,    \* the task that polled the timeout last
  poller,     \* the task under poll
  polled,     \* the timeouts polled so far in this poll
  offered,    \* the futures that could complete when this poll began
  half        \* the timeout whose future has returned Pending and whose sleep is next

timer == <<now, alive, alarm, woken>>
parts == <<futures, deadline, ready, waker, outcome>>
polling == <<awaiter, poller, polled, offered, half>>
vars == <<timer, parts, polling>>

\* "torn": a destructor has panicked and left the sleep without its future.
Outcome == {"none", "live", "ok", "elapsed", "torn", "dropped"}

running == TRUE  \* block_on runs throughout
Timer == INSTANCE TimerContract WITH Sleeps <- Timeouts, NoAlarm <- None

Init ==
  /\ now = 0
  /\ alive = {}
  /\ alarm = [s \in Timeouts |-> None]
  /\ woken = {}
  /\ futures = {}
  /\ deadline = [s \in Timeouts |-> 0]
  /\ ready = {}
  /\ waker = [s \in Timeouts |-> None]
  /\ outcome = [s \in Timeouts |-> "none"]
  /\ awaiter = [s \in Timeouts |-> None]
  /\ poller = None
  /\ polled = {}
  /\ offered = {}
  /\ half = None

UserCode == poller # None /\ half = None
-----------------------------------------------------------------------------
(* Timeout *)

\* Timeout::new
New(s, d) ==
  /\ UserCode
  /\ outcome[s] = "none"
  /\ outcome' = [outcome EXCEPT ![s] = "live"]
  /\ futures' = futures \union {s}
  /\ deadline' = [deadline EXCEPT ![s] = d]
  /\ Timer!Create(s)
  /\ UNCHANGED <<ready, waker, polling>>

\* Mutation: a deadline beyond the range of Instant is accepted.
deadline_after_unchecked(d) == TRUE

\* The addition in deadline_after does not panic.
deadline_after_allowed(d) == d \in Time

timeout(s, duration) ==
  /\ deadline_after_allowed(now + duration)
  /\ New(s, now + duration)

timeout_at(s, d) == New(s, d)

\* The future is dropped, with the waker it holds.
DropFuture(s) ==
  /\ futures' = futures \ {s}
  /\ ready' = ready \ {s}
  /\ waker' = [waker EXCEPT ![s] = None]

\* Mutation: the Sleep stays in a Timeout that has returned Ready.
TakeFutureOnly(s) == DropFuture(s) /\ UNCHANGED timer

\* self.future.take() and self.sleep.take()
TakeBoth(s) == DropFuture(s) /\ Timer!Drop(s)

\* The future is gone and its destructor panics: the Sleep is not taken.
TakePanics(s) ==
  /\ s \in Panicking
  /\ DropFuture(s)
  /\ outcome' = [outcome EXCEPT ![s] = "torn"]

\* Mutation: the Sleep is polled before the future.
CompletesUnlessElapsed(s) == s \in ready /\ now < deadline[s]

Completes(s) == s \in ready

\* Timeout::poll, when the future completes ...
PollFutureReady(s) ==
  /\ UserCode
  /\ s \in futures
  /\ Completes(s)
  /\ TakeBoth(s)
  /\ outcome' = [outcome EXCEPT ![s] = "ok"]
  /\ UNCHANGED <<deadline, polling>>

\* ... and panics when it is dropped ...
TakePanicsReady(s) ==
  /\ UserCode
  /\ s \in futures
  /\ Completes(s)
  /\ TakePanics(s)
  /\ UNCHANGED <<timer, deadline, polling>>

\* ... when it does not complete, and keeps the waker of this poll ...
PollFuturePending(s) ==
  /\ UserCode
  /\ s \in futures
  /\ ~Completes(s)
  /\ waker' = [waker EXCEPT ![s] = poller]
  /\ half' = s
  /\ awaiter' = [awaiter EXCEPT ![s] = poller]
  /\ UNCHANGED <<timer, futures, deadline, ready, outcome, poller, polled, offered>>

\* ... and the Sleep has elapsed ...
PollSleepReady ==
  /\ half # None
  /\ now >= deadline[half]
  /\ TakeBoth(half)
  /\ outcome' = [outcome EXCEPT ![half] = "elapsed"]
  /\ half' = None
  /\ UNCHANGED <<deadline, awaiter, poller, polled, offered>>

\* ... which has ended its registration if the future panics now ...
TakePanicsElapsed ==
  /\ half # None
  /\ now >= deadline[half]
  /\ TakePanics(half)
  /\ alarm' = [alarm EXCEPT ![half] = None]
  /\ half' = None
  /\ UNCHANGED <<now, alive, woken, deadline, awaiter, poller, polled, offered>>

\* Mutation: the Sleep is polled once and keeps the waker of that poll.
SleepIsPolledOnce(s) ==
  IF alarm[s] # None THEN now < deadline[s] /\ UNCHANGED timer
                     ELSE Timer!Set(s, deadline[s], poller)

\* Sleep::poll before the deadline.
SleepIsPolled(s) == Timer!Set(s, deadline[s], poller)

\* ... or is pending as well.
PollSleepPending ==
  /\ half # None
  /\ SleepIsPolled(half)
  /\ polled' = polled \union {half}
  /\ half' = None
  /\ UNCHANGED <<parts, awaiter, poller, offered>>

\* Drop of a Timeout, also when the future's poll panics, which unwinds the
\* task that owns it, and of what a panicking destructor has left.
DropTimeout(s) ==
  /\ UserCode
  /\ s \in futures \/ outcome[s] = "torn"
  /\ TakeBoth(s)
  /\ outcome' = [outcome EXCEPT ![s] = "dropped"]
  /\ UNCHANGED <<deadline, polling>>
-----------------------------------------------------------------------------
(* The runtime and the future around it *)

\* Something completes the future and calls the waker it holds, if any.
BecomeReady(s) ==
  /\ s \in futures \ ready
  /\ ready' = ready \union {s}
  /\ woken' = woken \union ({waker[s]} \ {None})
  /\ UNCHANGED <<now, alive, alarm, futures, deadline, waker, outcome, polling>>

BeginPoll(task) ==
  /\ poller = None
  /\ task \in woken
  /\ Timer!Poll(task)
  /\ poller' = task
  /\ offered' = ready
  /\ UNCHANGED <<parts, awaiter, polled, half>>

\* The task returns Pending, having polled again what it awaits.
EndPoll ==
  /\ UserCode
  /\ \A s \in futures : awaiter[s] = poller => s \in polled
  /\ poller' = None
  /\ polled' = {}
  /\ offered' = {}
  /\ UNCHANGED <<timer, parts, awaiter, half>>

GoOff == poller = None /\ Timer!GoOff /\ UNCHANGED <<parts, polling>>

Wake(task) == Timer!Wake(task) /\ UNCHANGED <<parts, polling>>

Tick ==
  /\ now < MaxTime
  /\ now' = now + 1
  /\ UNCHANGED <<alive, alarm, woken, parts, polling>>

PollTimeout ==
  \/ \E s \in Timeouts : PollFutureReady(s) \/ TakePanicsReady(s) \/ PollFuturePending(s)
  \/ PollSleepReady
  \/ TakePanicsElapsed
  \/ PollSleepPending

Next ==
  \/ PollTimeout
  \/ \E s \in Timeouts :
       \/ \E duration \in Durations : timeout(s, duration)
       \/ \E d \in Time : timeout_at(s, d)
       \/ DropTimeout(s) \/ BecomeReady(s)
  \/ \E task \in Tasks : BeginPoll(task) \/ Wake(task)
  \/ EndPoll \/ GoOff \/ Tick

\* A poll polls what the task awaits and returns; block_on looks at the timers
\* before every task it takes, and takes every queued task in turn; time
\* passes.  No future needs to become ready.
PollsEnd ==
  /\ WF_vars(PollSleepReady \/ TakePanicsElapsed \/ PollSleepPending)
  /\ WF_vars(EndPoll)

Fairness ==
  /\ PollsEnd
  /\ \A s \in Timeouts :
       WF_vars(s \notin polled /\ awaiter[s] = poller
                 /\ (PollFutureReady(s) \/ TakePanicsReady(s) \/ PollFuturePending(s)))
  /\ SF_vars(GoOff) /\ WF_vars(Tick)
  /\ \A task \in Tasks : SF_vars(BeginPoll(task))

SafeSpec == Init /\ [][Next]_vars

Spec == SafeSpec /\ Fairness
-----------------------------------------------------------------------------
\* Every variable has its type; deadlines are instants.
TypeOK ==
  /\ now \in Time
  /\ alive \subseteq Timeouts /\ futures \subseteq Timeouts /\ ready \subseteq Timeouts
  /\ alarm \in [Timeouts -> [deadline : Time, waker : Tasks] \union {None}]
  /\ woken \subseteq Tasks
  /\ deadline \in [Timeouts -> Time]
  /\ waker \in [Timeouts -> Tasks \union {None}]
  /\ outcome \in [Timeouts -> Outcome]
  /\ awaiter \in [Timeouts -> Tasks \union {None}]
  /\ poller \in Tasks \union {None}
  /\ polled \subseteq Timeouts /\ offered \subseteq Timeouts
  /\ half \in futures \union {None}

\* The assertion on the sleep in Timeout::poll cannot fail, and nothing
\* outlives the timeout: future and sleep are there until it resolves or is
\* dropped and gone after it, together with the alarm in the driver.  A future
\* that panics when it is dropped leaves the sleep to the drop of the Timeout.
PartsLiveTogether ==
  \A s \in Timeouts :
    /\ s \in futures <=> outcome[s] = "live"
    /\ s \in alive <=> outcome[s] = "live" \/ (outcome[s] = "torn" /\ s \in Panicking)
    /\ alarm[s] # None => s \in alive

\* A future that could complete when the task began its poll is never timed
\* out by this poll, however late it is, and no timeout elapses early.
ReadyFutureWins ==
  [][\A s \in Timeouts :
       outcome[s] = "live" /\ outcome'[s] = "elapsed" =>
         s \notin offered /\ now >= deadline[s]]_vars

\* The future and the alarm hold the waker of the task that polled last.
Armed(s) ==
  /\ alarm[s] = [deadline |-> deadline[s], waker |-> awaiter[s]]
  /\ waker[s] = awaiter[s] /\ s \notin ready

\* No wakeup is lost: while nobody polls it, the task that polled the timeout
\* last is woken already, or both the future and the alarm, at the right
\* deadline, hold its waker - whatever task had polled the timeout before.
AwaitersAreArmed ==
  \A s \in futures :
    awaiter[s] \notin woken \union {None, poller} => Armed(s)

\* What a poll has done so far: the timeouts it went through are armed, and
\* the one whose future has returned Pending could not complete before.
PollsArmAsTheyGo ==
  /\ poller = None => polled = {} /\ offered = {} /\ half = None
  /\ futures \intersect offered \subseteq ready
  /\ \A s \in futures \intersect polled :
       awaiter[s] = poller /\ (poller \notin woken => Armed(s))
  /\ half # None =>
       /\ awaiter[half] = poller /\ waker[half] = poller
       /\ half \notin offered /\ (half \in ready => poller \in woken)

NewTimeoutsAreUntouched ==
  \A s \in Timeouts :
    outcome[s] = "none" => awaiter[s] = None /\ s \notin ready \union polled \union offered

\* The inductive invariant of the timeouts.
IndInv ==
  /\ TypeOK
  /\ PartsLiveTogether
  /\ PollsArmAsTheyGo
  /\ NewTimeoutsAreUntouched
  /\ AwaitersAreArmed

\* A timeout that is awaited ends by its deadline, although its future may
\* never become ready.
AwaitedTimeoutsEnd ==
  \A s \in Timeouts :
    outcome[s] = "live" /\ awaiter[s] # None ~> outcome[s] # "live"
=============================================================================
