---------------------------- MODULE TaskSchedule -----------------------------
(***************************************************************************)
(* The wakeup protocol of src/scheduling/mod.rs at thread granularity.     *)
(*                                                                         *)
(* Every task has one TaskSchedule, shared by the executor and by every    *)
(* clone of the task's waker.  Its state is under a mutex, its ready queue *)
(* is an mpsc channel, and the two are NOT updated together: both          *)
(* request_schedule and poll release the mutex before they send the id, so *)
(* any thread may run between the state change and the send.  `sending`    *)
(* records, for each thread, the task whose id it still has to send.       *)
(*                                                                         *)
(* The runtime thread (Executor) pops ids, polls, and runs user code: the  *)
(* futures it polls may wake any task, spawn tasks, hand out wakers and    *)
(* unwind.  The other Threads only wake.                                   *)
(***************************************************************************)
EXTENDS ScheduleState, Sequences, Naturals

CONSTANTS
  Tasks,     \* the tasks that may ever be created, root futures included
  Threads,   \* threads other than the runtime thread that hold wakers
  Executor,  \* the runtime thread
  NoTask     \* "no task": a thread with nothing to send, no poll under way

ASSUME TaskScheduleAssumption ==
  /\ Executor \notin Threads
  /\ NoTask \notin Tasks

Procs == Threads \union {Executor}

VARIABLES
  created,  \* tasks whose TaskSchedule exists
  state,    \* TaskSchedule.state of each task
  ready,    \* the mpsc channel of ready ids
  sending,  \* per thread, a task made Queued whose id is not sent yet
  wakers,   \* tasks whose waker was cloned out of a poll
  pc,       \* runtime thread: "idle", "begin" (id popped) or "poll"
  current   \* the task popped or polled, NoTask when idle

vars == <<created, state, ready, sending, wakers, pc, current>>

Init ==
  /\ created = {}
  /\ state = [t \in Tasks |-> "Idle"]
  /\ ready = <<>>
  /\ sending = [p \in Procs |-> NoTask]
  /\ wakers = {}
  /\ pc = "idle"
  /\ current = NoTask
-----------------------------------------------------------------------------
\* The locked half of request_schedule, on thread p.
RequestSchedule(p, t) ==
  /\ sending[p] = NoTask
  /\ state' = [state EXCEPT ![t] = wake(@)]
  /\ sending' = [sending EXCEPT ![p] = IF wake_enqueues(state[t]) THEN t ELSE @]

\* TaskSchedule::new followed by request_schedule: the runtime thread spawns
\* a task, from outside or inside a poll, or starts a root future.
Submit(t) ==
  /\ pc \in {"idle", "poll"}
  /\ t \notin created
  /\ created' = created \union {t}
  /\ RequestSchedule(Executor, t)
  /\ UNCHANGED <<ready, wakers, pc, current>>

\* A cloned waker is called on another thread.
Wake(p, t) ==
  /\ p \in Threads
  /\ t \in wakers
  /\ RequestSchedule(p, t)
  /\ UNCHANGED <<created, ready, wakers, pc, current>>

\* A waker is called on the runtime thread: by the timer driver between two
\* polls, or by a future that wakes itself or another task.
LocalWake(t) ==
  /\ \/ pc = "idle" /\ t \in wakers
     \/ pc = "poll" /\ t \in wakers \union {current}
  /\ RequestSchedule(Executor, t)
  /\ UNCHANGED <<created, ready, wakers, pc, current>>

\* The unlocked half of request_schedule and of poll: ready_tx.send(id).
Send(p) ==
  /\ sending[p] # NoTask
  /\ ready' = Append(ready, sending[p])
  /\ sending' = [sending EXCEPT ![p] = NoTask]
  /\ UNCHANGED <<created, state, wakers, pc, current>>
-----------------------------------------------------------------------------
\* The executor takes the oldest id; it blocks while the channel is empty.
Recv ==
  /\ pc = "idle"
  /\ sending[Executor] = NoTask
  /\ ready # <<>>
  /\ current' = Head(ready)
  /\ ready' = Tail(ready)
  /\ pc' = "begin"
  /\ UNCHANGED <<created, state, sending, wakers>>

\* The first lock of TaskSchedule::poll.
BeginPoll ==
  /\ pc = "begin"
  /\ begin_poll_allowed(state[current])
  /\ state' = [state EXCEPT ![current] = "Running"]
  /\ pc' = "poll"
  /\ UNCHANGED <<created, ready, sending, wakers, current>>

\* The polled future clones the waker of its Context and keeps it somewhere.
ShareWaker ==
  /\ pc = "poll"
  /\ wakers' = wakers \union {current}
  /\ UNCHANGED <<created, state, ready, sending, pc, current>>

\* The second lock of TaskSchedule::poll, once the future has returned.
FinishPoll(isReady) ==
  /\ pc = "poll"
  /\ sending[Executor] = NoTask
  /\ state' = [state EXCEPT ![current] = finish_poll(@, isReady)]
  /\ sending' = [sending EXCEPT ![Executor] =
                   IF finish_poll_enqueues(state[current], isReady) THEN current ELSE @]
  /\ pc' = "idle"
  /\ current' = NoTask
  /\ UNCHANGED <<created, ready, wakers>>

\* Mutation: a guard resets the state to Idle while the panic unwinds, as if
\* the poll had returned Pending, and forgets a notification it held.
PollUnwindsToIdle ==
  /\ pc = "poll"
  /\ sending[Executor] = NoTask
  /\ state' = [state EXCEPT ![current] = "Idle"]
  /\ pc' = "idle"
  /\ current' = NoTask
  /\ UNCHANGED <<created, ready, sending, wakers>>

\* The future panics: poll unwinds past finish_poll, the state stays Running.
PollUnwinds ==
  /\ pc = "poll"
  /\ sending[Executor] = NoTask
  /\ pc' = "idle"
  /\ current' = NoTask
  /\ UNCHANGED <<created, state, ready, sending, wakers>>
-----------------------------------------------------------------------------
Next ==
  \/ \E t \in Tasks : Submit(t) \/ LocalWake(t)
  \/ \E p \in Threads, t \in Tasks : Wake(p, t)
  \/ \E p \in Procs : Send(p)
  \/ Recv
  \/ BeginPoll
  \/ ShareWaker
  \/ \E isReady \in BOOLEAN : FinishPoll(isReady)
  \/ PollUnwinds

\* Threads are not suspended for ever between the unlock and the send, the
\* runtime thread keeps driving block_on, and every poll returns or unwinds.
\* Nothing is assumed of wakes, spawns or the result of a poll.
Fairness ==
  /\ \A p \in Procs : WF_vars(Send(p))
  /\ WF_vars(Recv)
  /\ WF_vars(BeginPoll)
  /\ WF_vars((\E isReady \in BOOLEAN : FinishPoll(isReady)) \/ PollUnwinds)

SafeSpec == Init /\ [][Next]_vars

Spec == SafeSpec /\ Fairness
-----------------------------------------------------------------------------
\* Every variable has its type, and only schedules that exist are queued,
\* in flight, polled or wakeable.
TypeOK ==
  /\ created \subseteq Tasks
  /\ state \in [Tasks -> ScheduleState]
  /\ ready \in Seq(created)
  /\ sending \in [Procs -> created \union {NoTask}]
  /\ wakers \subseteq created
  /\ pc \in {"idle", "begin", "poll"}
  /\ current \in (IF pc = "idle" THEN {NoTask} ELSE created)

InChannel(t) == \E i \in DOMAIN ready : ready[i] = t
InFlight(t)  == \E p \in Procs : sending[p] = t
Popped(t)    == pc = "begin" /\ current = t

\* The state and the queue agree although they are not updated together: a
\* schedule is Queued exactly when its id is in the channel, or on its way
\* into it, or just taken out of it.  A Queued task with no id anywhere would
\* swallow every later wake (wake() of Queued is a no-op) and sleep for ever.
QueuedIffRepresented ==
  \A t \in Tasks :
    state[t] = "Queued" <=> InChannel(t) \/ InFlight(t) \/ Popped(t)

\* At most one id of a task exists: not twice in the channel, not on its way
\* from two threads, and in no two of the three places at once.
RepresentedOnce ==
  /\ \A i, j \in DOMAIN ready : ready[i] = ready[j] => i = j
  /\ \A p, q \in Procs : sending[p] = sending[q] => p = q \/ sending[p] = NoTask
  /\ \A t \in Tasks :
       /\ ~(InChannel(t) /\ InFlight(t))
       /\ ~(InChannel(t) /\ Popped(t))
       /\ ~(InFlight(t) /\ Popped(t))

\* The schedule being polled is in one of the two Running states until the
\* poll returns, and a schedule that was not created is untouched.
PolledIsRunning ==
  /\ pc = "poll" => state[current] \in {"Running", "Notified"}
  /\ \A t \in Tasks \ created : state[t] = "Idle"

\* The inductive invariant of the protocol.
IndInv == TypeOK /\ QueuedIffRepresented /\ RepresentedOnce /\ PolledIsRunning

\* The assertion of begin_poll, "only Queued tasks should be polled": an id
\* that the executor has popped belongs to a schedule that is still Queued,
\* whatever other threads did since it was sent.
OnlyQueuedIsPolled == pc = "begin" => begin_poll_allowed(state[current])

\* The wakeup contract, with its liveness: a refinement of WakeContract in
\* which the notification bit is the pair of states Queued and Notified.
ContractPhase(t) == IF t \in created THEN PhaseOf[state[t]] ELSE "New"

Contract == INSTANCE WakeContract WITH
  phase    <- [t \in Tasks |-> ContractPhase(t)],
  notified <- {t \in Tasks : state[t] \in {"Queued", "Notified"}}

KeepsWakeContract == Contract!Spec

\* The safety part alone: every poll answers a wake that no earlier poll
\* answered, and no step forgets a wake or polls a finished task.
KeepsWakeSafety == Contract!SafeSpec
=============================================================================
