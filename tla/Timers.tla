-------------------------------- MODULE Timers --------------------------------
(***************************************************************************)
(* The timer driver of src/time/driver.rs, the Sleep future of             *)
(* src/time/sleep.rs and the clock of src/time/clock.rs, driven by the     *)
(* rounds of Executor::next_ready_id.                                      *)
(*                                                                         *)
(* Everything here happens on the runtime thread, except that time passes  *)
(* and other threads wake tasks.  A Sleep and its registration are two     *)
(* records of one alarm: the driver forgets a registration when it fires   *)
(* and the Sleep finds out at its next poll, while cancelled and           *)
(* rescheduled deadlines stay in the heap until they reach its top.  The   *)
(* wakers of fired registrations are called one by one afterwards; they    *)
(* may be code of the user.  Scheduling is that of WakeContract: the set   *)
(* of woken tasks.                                                         *)
(***************************************************************************)
EXTENDS Naturals

CONSTANTS
  Sleeps,        \* the Sleep futures that may ever exist
  Tasks,         \* the tasks that poll them
  MaxTime,       \* bound on the time, and on deadlines
  MaxTimers,     \* bound on the number of registrations (2^64 in the code)
  TestClock,     \* is Clock the pausable one of a test build?
  CustomWakers,  \* what wakers other than the runtime's own do: "reenter", "panic"
  None           \* no registration, no task

ASSUME TimersAssumption ==
  /\ MaxTime \in Nat
  /\ MaxTimers \in Nat
  /\ TestClock \in BOOLEAN
  /\ CustomWakers \subseteq {"reenter", "panic"}
  /\ None \notin Tasks \union Nat \union [deadline : Nat, waker : Tasks]

Time == 0 .. MaxTime
TimerIds == 0 .. MaxTimers - 1

VARIABLES
  now,            \* what Clock::now returns
  paused,         \* the clock is Paused
  deadlines,      \* TimerState.deadlines: the pairs <<deadline, id>> in the heap
  registrations,  \* TimerState.registrations, None where there is none
  next_id,        \* TimerState.next_id
  alive,          \* sleeps created and not dropped
  deadline,       \* Sleep.deadline, 0 where there is no sleep
  registration,   \* Sleep.registration
  woken,          \* tasks whose id is in the ready channel
  firing,         \* the wakers process_expired has collected and not called
  pc,             \* runtime thread: "out" of block_on, at the start of a "round",
                  \* "firing", "idle" (expired) or in a poll, "user"
  poller          \* the task under poll

clock == <<now, paused>>
driver == <<deadlines, registrations, next_id>>
sleeps == <<alive, deadline, registration>>
thread == <<woken, firing, pc, poller>>
vars == <<clock, driver, sleeps, thread>>

Registration == [deadline : Time, waker : Tasks]

\* Clock::new, and new_paused of a test build.
NewClock ==
  /\ now = 0
  /\ paused \in (IF TestClock THEN BOOLEAN ELSE {FALSE})

Init ==
  /\ NewClock
  /\ deadlines = {}
  /\ registrations = [id \in TimerIds |-> None]
  /\ next_id = 0
  /\ alive = {}
  /\ deadline = [s \in Sleeps |-> 0]
  /\ registration = [s \in Sleeps |-> None]
  /\ woken = {}
  /\ firing = {}
  /\ pc = "out"
  /\ poller = None

Registered(s) == registration[s] # None /\ registrations[registration[s]] # None

\* Where user code runs on the runtime thread, with no borrow held.
UserCode == pc \in {"out", "user"} \/ (pc = "firing" /\ "reenter" \in CustomWakers)
-----------------------------------------------------------------------------
(* TimerHandle *)

\* Mutation: next_id is not advanced.
register_same_id(d, task) ==
  /\ next_id < MaxTimers
  /\ deadlines' = deadlines \union {<<d, next_id>>}
  /\ registrations' = [registrations EXCEPT ![next_id] = [deadline |-> d, waker |-> task]]
  /\ UNCHANGED next_id

\* register, with the id that next_id yields.
register(d, task) ==
  /\ next_id < MaxTimers
  /\ next_id' = next_id + 1
  /\ deadlines' = deadlines \union {<<d, next_id>>}
  /\ registrations' = [registrations EXCEPT ![next_id] = [deadline |-> d, waker |-> task]]

\* update_waker, whose `expect` needs the registration to be there still.
update_waker(id, task) ==
  /\ registrations[id] # None
  /\ registrations' = [registrations EXCEPT ![id] = [deadline |-> @.deadline, waker |-> task]]
  /\ UNCHANGED <<deadlines, next_id>>

\* Mutation: the sleep forgets its registration without cancelling it.
cancel_nothing(id) == UNCHANGED driver

\* cancel; the id, if any, may be that of a registration that has fired.
cancel(id) ==
  /\ registrations' = [i \in TimerIds |-> IF i = id THEN None ELSE registrations[i]]
  /\ UNCHANGED <<deadlines, next_id>>

\* Mutation: the registration changes but no heap entry is pushed.
reschedule_only(id, d) ==
  /\ registrations' = [registrations EXCEPT ![id] = [deadline |-> d, waker |-> @.waker]]
  /\ UNCHANGED <<deadlines, next_id>>

\* reschedule of a registration that exists; the old heap entry stays.
reschedule(id, d) ==
  /\ registrations' = [registrations EXCEPT ![id] = [deadline |-> d, waker |-> @.waker]]
  /\ deadlines' = deadlines \union {<<d, id>>}
  /\ UNCHANGED next_id
-----------------------------------------------------------------------------
(* TimerDriver *)

\* A heap entry counts only while it is the deadline of its registration.
IsCurrent(entry) ==
  /\ registrations[entry[2]] # None
  /\ registrations[entry[2]].deadline = entry[1]

\* Mutation: an entry fires whatever became of its registration's deadline.
FiresIfRegistered(id) == \E d \in 0 .. now : <<d, id>> \in deadlines

\* Mutation: a timer fires after its deadline, but leaves the heap at it.
FiresLate(id) == \E d \in 0 .. now : d < now /\ <<d, id>> \in deadlines /\ IsCurrent(<<d, id>>)

\* The registrations that process_expired removes.
Fires(id) == \E d \in 0 .. now : <<d, id>> \in deadlines /\ IsCurrent(<<d, id>>)

\* process_expired, the locked part: every due entry leaves the heap, and those
\* that are current take their registration with them and yield its waker.
ProcessExpired ==
  /\ pc = "round"
  /\ LET expired == {id \in TimerIds : registrations[id] # None /\ Fires(id)}
     IN  /\ registrations' =
              [id \in TimerIds |-> IF id \in expired THEN None ELSE registrations[id]]
         /\ firing' = {registrations[id].waker : id \in expired}
  /\ deadlines' = {entry \in deadlines : entry[1] > now}
  /\ pc' = IF firing' = {} THEN "idle" ELSE "firing"
  /\ UNCHANGED <<clock, next_id, sleeps, woken, poller>>

\* ... and the loop after it, one waker at a time.
CallWaker(task) ==
  /\ pc = "firing"
  /\ task \in firing
  /\ woken' = woken \union {task}
  /\ firing' = firing \ {task}
  /\ pc' = IF firing' = {} THEN "idle" ELSE "firing"
  /\ UNCHANGED <<clock, driver, sleeps, poller>>

\* A waker panics: the others are dropped uncalled and block_on unwinds.
WakerPanics ==
  /\ pc = "firing"
  /\ "panic" \in CustomWakers
  /\ firing' = {}
  /\ pc' = "out"
  /\ UNCHANGED <<clock, driver, sleeps, woken, poller>>

Earlier(e, f) == e[1] < f[1] \/ (e[1] = f[1] /\ e[2] < f[2])

\* next_deadline pops what is not current from the top of the heap ...
Pruned ==
  {entry \in deadlines :
     \E top \in deadlines : IsCurrent(top) /\ (top = entry \/ Earlier(top, entry))}

\* Mutation: the top of the heap is taken for the next deadline, as if
\* nothing was ever cancelled or rescheduled.
IsHeapTop(d) ==
  \E id \in TimerIds :
    /\ <<d, id>> \in deadlines
    /\ \A entry \in deadlines : ~Earlier(entry, <<d, id>>)

\* ... and d, the deadline then at the top, is its result.
IsNextDeadline(d) ==
  \E id \in TimerIds :
    /\ <<d, id>> \in Pruned
    /\ \A entry \in Pruned : ~Earlier(entry, <<d, id>>)
-----------------------------------------------------------------------------
(* The rounds of next_ready_id *)

BlockOn ==
  /\ pc = "out"
  /\ pc' = "round"
  /\ UNCHANGED <<clock, driver, sleeps, woken, firing, poller>>

\* try_recv or recv returns the id of a woken task, which is polled.
TakeId(task) ==
  /\ pc = "idle"
  /\ task \in woken
  /\ woken' = woken \ {task}
  /\ poller' = task
  /\ pc' = "user"
  /\ UNCHANGED <<clock, driver, sleeps, firing>>

\* No task is ready and d is the result of next_deadline.
NothingBefore(d) ==
  /\ pc = "idle"
  /\ woken = {}
  /\ IsNextDeadline(d)
  /\ deadlines' = Pruned
  /\ UNCHANGED <<paused, registrations, next_id, sleeps, woken, firing, poller>>

\* Clock::advance_to does not panic.
advance_to_allowed(d) == paused /\ d >= now

\* advance_to_next_deadline_if_paused: the round starts again, unless the
\* assertion of advance_to fails and unwinds block_on.
AdvanceIfPaused ==
  /\ paused
  /\ \E d \in Time :
       /\ NothingBefore(d)
       /\ now' = IF advance_to_allowed(d) THEN d ELSE now
       /\ pc' = IF advance_to_allowed(d) THEN "round" ELSE "out"

\* recv_timeout waits for the time that time_until_next_deadline returned and
\* times out: the round starts again.
RecvTimeout ==
  /\ ~paused
  /\ \E d \in 0 .. now : NothingBefore(d)
  /\ pc' = "round"
  /\ UNCHANGED now

\* Mutation: the next round looks at the channel before it expires timers.
EndPollSkipsExpiry ==
  /\ pc = "user"
  /\ pc' \in {"idle", "out"}
  /\ poller' = None
  /\ UNCHANGED <<clock, driver, sleeps, woken, firing>>

\* The poll returns and the next round begins, or block_on ends with it.
EndPoll ==
  /\ pc = "user"
  /\ pc' \in {"round", "out"}
  /\ poller' = None
  /\ UNCHANGED <<clock, driver, sleeps, woken, firing>>
-----------------------------------------------------------------------------
(* Sleep *)

\* sleep and sleep_until: nothing is registered before the first poll, and
\* the deadline may be in the past.
NewSleep(s, d) ==
  /\ UserCode
  /\ s \notin alive
  /\ alive' = alive \union {s}
  /\ deadline' = [deadline EXCEPT ![s] = d]
  /\ UNCHANGED <<clock, driver, registration, thread>>

is_elapsed(s) == now >= deadline[s]

Polls(s) == pc = "user" /\ s \in alive

\* poll at or after the deadline.
PollElapsed(s) ==
  /\ Polls(s)
  /\ is_elapsed(s)
  /\ registration' = [registration EXCEPT ![s] = None]
  /\ cancel(registration[s])
  /\ UNCHANGED <<clock, alive, deadline, thread>>

\* poll before the deadline, for the first time ...
PollRegisters(s) ==
  /\ Polls(s)
  /\ ~is_elapsed(s)
  /\ registration[s] = None
  /\ register(deadline[s], poller)
  /\ registration' = [registration EXCEPT ![s] = next_id]
  /\ UNCHANGED <<clock, alive, deadline, thread>>

\* ... and again.
PollUpdatesWaker(s) ==
  /\ Polls(s)
  /\ ~is_elapsed(s)
  /\ registration[s] # None
  /\ update_waker(registration[s], poller)
  /\ UNCHANGED <<clock, sleeps, thread>>

\* Mutation: a registration that has fired is kept by the sleep.
ResetKeepsFired(s, d) ==
  /\ UserCode
  /\ s \in alive
  /\ deadline' = [deadline EXCEPT ![s] = d]
  /\ IF Registered(s) THEN reschedule(registration[s], d) ELSE UNCHANGED driver
  /\ UNCHANGED <<clock, alive, registration, thread>>

\* reset: a live registration moves to the new deadline under its id, one
\* that has fired is forgotten.
Reset(s, d) ==
  /\ UserCode
  /\ s \in alive
  /\ deadline' = [deadline EXCEPT ![s] = d]
  /\ IF Registered(s)
     THEN reschedule(registration[s], d) /\ UNCHANGED registration
     ELSE registration' = [registration EXCEPT ![s] = None] /\ UNCHANGED driver
  /\ UNCHANGED <<clock, alive, thread>>

\* drop.
DropSleep(s) ==
  /\ UserCode
  /\ s \in alive
  /\ alive' = alive \ {s}
  /\ deadline' = [deadline EXCEPT ![s] = 0]
  /\ registration' = [registration EXCEPT ![s] = None]
  /\ cancel(registration[s])
  /\ UNCHANGED <<clock, thread>>
-----------------------------------------------------------------------------
(* Time, and everybody else *)

\* A task is woken by something that is no timer, on any thread.
Wake(task) ==
  /\ woken' = woken \union {task}
  /\ UNCHANGED <<clock, driver, sleeps, firing, pc, poller>>

\* A running clock moves at any moment.
Tick ==
  /\ ~paused
  /\ now < MaxTime
  /\ now' = now + 1
  /\ UNCHANGED <<paused, driver, sleeps, thread>>

\* Clock::pause and Clock::resume; each panics if there is nothing to do.
Pause ==
  /\ TestClock /\ UserCode
  /\ ~paused
  /\ paused' = TRUE
  /\ UNCHANGED <<now, driver, sleeps, thread>>

Resume ==
  /\ TestClock /\ UserCode
  /\ paused
  /\ paused' = FALSE
  /\ UNCHANGED <<now, driver, sleeps, thread>>

\* Clock::advance of a paused clock.
Advance ==
  /\ TestClock /\ UserCode
  /\ paused
  /\ now' \in now .. MaxTime
  /\ UNCHANGED <<paused, driver, sleeps, thread>>
-----------------------------------------------------------------------------
Next ==
  \/ BlockOn \/ ProcessExpired \/ AdvanceIfPaused \/ RecvTimeout \/ EndPoll
  \/ \E task \in Tasks : CallWaker(task) \/ TakeId(task) \/ Wake(task)
  \/ WakerPanics
  \/ \E s \in Sleeps, d \in Time : NewSleep(s, d) \/ Reset(s, d)
  \/ \E s \in Sleeps :
       PollElapsed(s) \/ PollRegisters(s) \/ PollUpdatesWaker(s) \/ DropSleep(s)
  \/ Tick \/ Pause \/ Resume \/ Advance

\* A running clock moves, the runtime thread runs, and polls return; nobody
\* promises to call block_on.
Fairness ==
  /\ WF_vars(Tick)
  /\ WF_vars(ProcessExpired) /\ WF_vars(AdvanceIfPaused) /\ WF_vars(RecvTimeout)
  /\ WF_vars(\E task \in Tasks : CallWaker(task))
  /\ WF_vars(\E task \in Tasks : TakeId(task)) /\ WF_vars(EndPoll)

SafeSpec == Init /\ [][Next]_vars

Spec == SafeSpec /\ Fairness
-----------------------------------------------------------------------------
\* Every variable has its type; an id is in use only after it was handed out.
TypeOK ==
  /\ now \in Time
  /\ paused \in BOOLEAN
  /\ deadlines \subseteq Time \X (0 .. next_id - 1)
  /\ registrations \in [TimerIds -> Registration \union {None}]
  /\ next_id \in 0 .. MaxTimers
  /\ \A id \in TimerIds : id >= next_id => registrations[id] = None
  /\ alive \subseteq Sleeps
  /\ deadline \in [Sleeps -> Time]
  /\ registration \in [Sleeps -> (0 .. next_id - 1) \union {None}]
  /\ woken \subseteq Tasks
  /\ firing \subseteq Tasks
  /\ pc \in {"out", "round", "firing", "idle", "user"}
  /\ pc # "firing" => firing = {}
  /\ poller \in (IF pc = "user" THEN Tasks ELSE {None})

\* Lazy deletion never loses a timer: a registration has its own deadline in
\* the heap, however often it was rescheduled, so it will reach the top.
HeapCoversRegistrations ==
  \A id \in TimerIds :
    registrations[id] # None => <<registrations[id].deadline, id>> \in deadlines

\* The Sleep and the driver agree on the deadline, no two sleeps share a
\* registration, and no registration outlives its sleep.
RegistrationsBelongToSleeps ==
  /\ \A s, t \in Sleeps : registration[s] = registration[t] => s = t \/ registration[s] = None
  /\ \A s \in Sleeps :
       Registered(s) => s \in alive /\ registrations[registration[s]].deadline = deadline[s]
  /\ \A id \in TimerIds :
       registrations[id] # None => \E s \in Sleeps : registration[s] = id

\* The `expect` of update_waker: a sleep that holds the id of a registration
\* that is gone has elapsed, so its next poll does not ask for it.
FiredSleepsHaveElapsed ==
  \A s \in Sleeps : registration[s] # None /\ ~Registered(s) => now >= deadline[s]

\* The assertion of advance_to: the deadline a paused clock is moved to is
\* not in the past, although sleeps may be reset to past deadlines.
PausedClockMovesForward ==
  pc = "idle" /\ paused => \A d \in Time : IsNextDeadline(d) => d >= now

\* The executor never waits past the earliest alarm, nor for a stale one:
\* what next_deadline finds is the least deadline of a registration.
NextDeadlineIsEarliest ==
  \A d \in Time :
    IsNextDeadline(d) <=>
      /\ \E id \in TimerIds : registrations[id] # None /\ registrations[id].deadline = d
      /\ \A id \in TimerIds : registrations[id] # None => registrations[id].deadline >= d

\* A sleep that was dropped leaves nothing behind that a later sleep in its
\* place could mistake for its own registration.
DroppedSleepsHoldNothing == \A s \in Sleeps \ alive : registration[s] = None

\* Once a round has expired the timers of a paused clock, none is due until
\* user code runs again.
PausedRoundsAreAhead ==
  "reenter" \notin CustomWakers /\ paused /\ pc \in {"firing", "idle"} =>
    \A id \in TimerIds : registrations[id] # None => registrations[id].deadline > now

\* The inductive invariant of the timers.
IndInv ==
  /\ TypeOK
  /\ HeapCoversRegistrations
  /\ RegistrationsBelongToSleeps
  /\ FiredSleepsHaveElapsed
  /\ DroppedSleepsHoldNothing
  /\ PausedRoundsAreAhead

\* The alarms of the contract; one has gone off once its waker is collected.
Alarm(s) == IF Registered(s) THEN registrations[registration[s]] ELSE None
Contract == INSTANCE TimerContract WITH
  NoAlarm <- None, alarm <- [s \in Sleeps |-> Alarm(s)],
  woken <- woken \union firing, running <- pc # "out"

\* The heap and the ids implement alarms: one alarm per pending sleep, that
\* goes off once, not before its latest deadline, with the waker it holds,
\* whatever the wakers that are called meanwhile do to the sleeps.
KeepsTimerContract == Contract!SafeSpec

\* ... and that goes off when its deadline has come and block_on runs.
AlarmsGoOff == Contract!Spec

\* While block_on runs, a sleep that was polled pending wakes its task unless
\* it is reset or polled meanwhile, though the thread may block in recv_timeout.
PendingSleepsEnd ==
  \A s \in Sleeps, d \in Time :
    Registered(s) /\ deadline[s] = d ~> ~Registered(s) \/ deadline[s] # d \/ pc = "out"
=============================================================================
