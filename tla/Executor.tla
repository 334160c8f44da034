------------------------------- MODULE Executor -------------------------------
(***************************************************************************)
(* The single-threaded executor of src/executor.rs with the tasks it owns, *)
(* the JoinHandles of src/join.rs and src/handle.rs, and the root futures  *)
(* of its block_on calls.                                                  *)
(*                                                                         *)
(* The runtime thread runs block_on, user code (inside polls, between two  *)
(* block_on calls, and in destructors) and the drop of the executor.  Its  *)
(* own request_schedule is one step here: it is the only thread that takes *)
(* ids from the channel, so nothing distinguishes its unlock from its send *)
(* (TaskSchedule keeps the two apart).  Other threads only wake, in two    *)
(* steps.  Timers appear as wakes on the runtime thread.                   *)
(***************************************************************************)
EXTENDS ScheduleState, Sequences, Naturals

CONSTANTS
  Tasks,        \* the tasks that may be spawned
  Threads,      \* the other threads that hold wakers
  MaxBlockOns,  \* bound on the number of block_on calls
  Escaping,     \* tasks whose poll may unwind past CatchUnwind
  CustomWakers, \* what wakers the timer driver calls may do: "reenter", "panic"
  None          \* no schedule: no waker, nothing to send, nothing polled

ASSUME ExecutorAssumption ==
  /\ MaxBlockOns \in Nat
  /\ Escaping \subseteq Tasks
  /\ CustomWakers \subseteq {"reenter", "panic"}
  /\ Tasks \cap Nat = {}
  /\ None \notin Tasks \union Nat

\* One TaskSchedule per task and one per block_on call; every root future is
\* scheduled under the same id.
Roots == 1 .. MaxBlockOns
Schedules == Tasks \union Roots
ROOT_TASK_ID == 0
Id(s) == IF s \in Roots THEN ROOT_TASK_ID ELSE s

VARIABLES
  created,         \* the schedules that exist
  state,           \* TaskSchedule.state
  ready,           \* the channel behind ready_tx and ready_rx, oldest first
  sending,         \* per other thread, the schedule whose id it is to send
  pending_spawns,  \* SpawnState.pending_spawns
  tasks,           \* Executor.tasks, the admitted tasks
  closed,          \* SpawnState.closed
  join,            \* result in each JoinState, "Pending" until published
  consumed,        \* JoinStates that are Consumed
  senders,         \* tasks whose JoinSender has not published
  waker,           \* the schedule whose waker a Pending JoinState holds
  waiter,          \* for the properties: the last to poll a handle in vain
  handles,         \* tasks whose JoinHandle is not dropped
  root,            \* number of block_on calls so far, the latest root
  pc,              \* where the runtime thread is
  current          \* the schedule popped or polled

joins == <<join, consumed, senders, waker, waiter, handles>>
queue == <<created, state, ready>>
vars == <<created, state, ready, sending, pending_spawns, tasks, closed, joins, root,
          pc, current>>

Init ==
  /\ created = {}
  /\ state = [s \in Schedules |-> "Idle"]
  /\ ready = <<>>
  /\ sending = [p \in Threads |-> None]
  /\ pending_spawns = <<>>
  /\ tasks = {}
  /\ closed = FALSE
  /\ join = [t \in Tasks |-> "Unspawned"]
  /\ consumed = {}
  /\ senders = {}
  /\ waker = [t \in Tasks |-> None]
  /\ waiter = [t \in Tasks |-> None]
  /\ handles = {}
  /\ root = 0
  /\ pc = "out"
  /\ current = None

\* Where user code can run on the runtime thread: outside block_on, inside a
\* poll, when a result is published (the waiter's waker, the destructor of an
\* output nobody awaits), in the destructors of a shutdown and after it, and in
\* the wakers of expired timers.
UserCode ==
  \/ pc \in {"out", "poll", "finish", "clearing", "dropping", "dropped"}
  \/ pc = "recv" /\ "reenter" \in CustomWakers
-----------------------------------------------------------------------------
(* Scheduling requests *)

\* Mutation: the channel is a stack.
push_front(id) == <<id>> \o ready

\* A send on the channel.
push(id) == Append(ready, id)

\* request_schedule on the runtime thread: the locked half and the send.
RequestSchedule(s) ==
  /\ created' = created \union {s}
  /\ state' = [state EXCEPT ![s] = wake(@)]
  /\ ready' = IF wake_enqueues(state[s]) /\ pc # "dropped"
              THEN push(Id(s)) ELSE ready

\* A waker is called on the runtime thread, by user code or by an expired
\* timer between two polls.
WakeLocal(s) ==
  /\ UserCode \/ pc = "recv"
  /\ s \in created
  /\ RequestSchedule(s)
  /\ UNCHANGED <<sending, pending_spawns, tasks, closed, joins, root, pc, current>>

\* A waker is called on another thread, up to the unlock.
WakeRemote(p, s) ==
  /\ sending[p] = None
  /\ s \in created
  /\ state' = [state EXCEPT ![s] = wake(@)]
  /\ sending' = [sending EXCEPT ![p] = IF wake_enqueues(state[s]) THEN s ELSE None]
  /\ UNCHANGED <<created, ready, pending_spawns, tasks, closed, joins, root, pc, current>>

\* The send that follows; it fails, ignored, once the receiver is dropped.
SendRemote(p) ==
  /\ sending[p] # None
  /\ ready' = IF pc = "dropped" THEN ready ELSE push(Id(sending[p]))
  /\ sending' = [sending EXCEPT ![p] = None]
  /\ UNCHANGED <<created, state, pending_spawns, tasks, closed, joins, root, pc, current>>
-----------------------------------------------------------------------------
(* Join handles *)

\* Mutation: the sender keeps its state, so its Drop publishes once more.
take_state_never(t) == UNCHANGED senders

\* The Option in the JoinSender; whoever finds it empty does nothing.
take_state(t) == senders' = senders \ {t}

\* JoinState::complete, which panics unless the JoinState is Pending.
complete(t, result) ==
  /\ join' = [join EXCEPT ![t] = result]
  /\ waker' = [waker EXCEPT ![t] = None]
  /\ waiter' = [waiter EXCEPT ![t] = None]

WakeWaiter(t) == IF waker[t] # None THEN RequestSchedule(waker[t]) ELSE UNCHANGED queue

\* JoinSender::publish_inner, called by publish and by the sender's drop.
Publish(t, result) ==
  IF t \in senders THEN take_state(t) /\ complete(t, result) /\ WakeWaiter(t)
                   ELSE UNCHANGED <<senders, join, waker, waiter, queue>>

\* Mutation: the JoinState keeps the waker of the first poll.
register_first(t) == waker' = IF waker[t] = None THEN [waker EXCEPT ![t] = current] ELSE waker

register_waker(t) == waker' = [waker EXCEPT ![t] = current]

\* JoinHandle::poll by the future under poll.  Polling a handle that has
\* returned its result breaks the Future contract and is not modelled.
PollJoin(t) ==
  /\ pc = "poll"
  /\ t \in handles \ consumed
  /\ \/ /\ join[t] = "Pending"
        /\ register_waker(t)
        /\ waiter' = [waiter EXCEPT ![t] = current]
        /\ UNCHANGED consumed
     \/ /\ join[t] # "Pending"
        /\ consumed' = consumed \union {t}
        /\ UNCHANGED <<waker, waiter>>
  /\ UNCHANGED <<queue, sending, pending_spawns, tasks, closed, join, senders, handles,
                 root, pc, current>>

\* Mutation: dropping the handle cancels the task.
DetachCancels(t) == Publish(t, "Cancelled")

\* A task is detached by forgetting who waits for it.
Detach(t) ==
  /\ waker' = IF join[t] = "Pending" THEN [waker EXCEPT ![t] = None] ELSE waker
  /\ waiter' = [waiter EXCEPT ![t] = None]
  /\ UNCHANGED <<queue, join, senders>>

\* JoinHandle::drop
DropHandle(t) ==
  /\ UserCode
  /\ t \in handles
  /\ handles' = handles \ {t}
  /\ Detach(t)
  /\ UNCHANGED <<sending, pending_spawns, tasks, closed, consumed, root, pc, current>>
-----------------------------------------------------------------------------
(* Spawning *)

\* join_pair: a fresh JoinState, whose sender moves into the spawned future.
JoinPair(t, result) ==
  /\ join' = [join EXCEPT ![t] = result]
  /\ handles' = handles \union {t}
  /\ UNCHANGED <<consumed, waker, waiter>>

\* next_id never yields an id again, nor that of the root.
NewId(t) == join[t] = "Unspawned"

\* Mutation: submit does not look at `closed`.
accepts_always == TRUE

accepts == ~closed

\* SpawnState::submit; what it does not accept is dropped, with the sender.
submit(t) ==
  \/ /\ accepts
     /\ JoinPair(t, "Pending")
     /\ senders' = senders \union {t}
     /\ pending_spawns' = Append(pending_spawns, t)
     /\ RequestSchedule(t)
  \/ /\ ~accepts
     /\ JoinPair(t, "Cancelled")
     /\ UNCHANGED <<senders, pending_spawns, queue>>

\* Handle::spawn: a future that publishes the result of the spawned one.
Spawn(t) ==
  /\ NewId(t)
  /\ UserCode
  /\ submit(t)
  /\ UNCHANGED <<sending, tasks, closed, root, pc, current>>
-----------------------------------------------------------------------------
(* block_on *)

\* Mutation: the schedule of the first call serves the later ones too.
first_root == 1

new_root == root + 1

\* The call: a new schedule under the root id, requested at once.
BlockOn ==
  /\ pc = "out"
  /\ ~closed
  /\ root < MaxBlockOns
  /\ root' = root + 1
  /\ RequestSchedule(new_root)
  /\ pc' = "next"
  /\ UNCHANGED <<sending, pending_spawns, tasks, closed, joins, current>>

\* drain_pending_spawns, first thing in every round of next_ready_id.
DrainPendingSpawns ==
  /\ pc = "next"
  /\ tasks' = tasks \union {pending_spawns[i] : i \in DOMAIN pending_spawns}
  /\ pending_spawns' = <<>>
  /\ pc' = "recv"
  /\ UNCHANGED <<queue, sending, closed, joins, root, current>>

\* try_recv, recv or recv_timeout returns an id; the root id stands for the
\* schedule of the block_on that receives it.
Recv ==
  /\ pc = "recv"
  /\ ready # <<>>
  /\ current' = IF Head(ready) = ROOT_TASK_ID THEN root ELSE Head(ready)
  /\ ready' = Tail(ready)
  /\ pc' = "begin"
  /\ UNCHANGED <<created, state, sending, pending_spawns, tasks, closed, joins, root>>

\* recv_timeout reaches the next deadline, or a paused clock is advanced to
\* it: the next round expires the timer.
RecvTimeout ==
  /\ pc = "recv"
  /\ ready = <<>>
  /\ pc' = "next"
  /\ UNCHANGED <<queue, sending, pending_spawns, tasks, closed, joins, root, current>>

\* A waker that process_expired calls panics and unwinds block_on, which leaves
\* the channel and the schedules as they are.
WakerPanics ==
  /\ pc = "recv"
  /\ "panic" \in CustomWakers
  /\ pc' = "out"
  /\ UNCHANGED <<queue, sending, pending_spawns, tasks, closed, joins, root, current>>

\* The lookup of poll_task and the first lock of TaskSchedule::poll.
Admitted(s) == s \in Roots \union tasks
BeginPoll ==
  /\ pc = "begin"
  /\ Admitted(current)
  /\ begin_poll_allowed(state[current])
  /\ state' = [state EXCEPT ![current] = "Running"]
  /\ pc' = "poll"
  /\ UNCHANGED <<created, ready, sending, pending_spawns, tasks, closed, joins, root, current>>

\* The `expect` of poll_task fails and unwinds block_on.
LookupPanics ==
  /\ pc = "begin"
  /\ ~Admitted(current)
  /\ pc' = "out"
  /\ current' = None
  /\ UNCHANGED <<queue, sending, pending_spawns, tasks, closed, joins, root>>

\* Mutation: spawns are admitted when block_on begins, and not in each round.
round_without_drain == "recv"

\* The loop of block_on goes on with another call of next_ready_id.
round == "next"

\* The future returned Pending: finish_poll, and the send it may ask for.
FinishPending ==
  /\ pc = "poll"
  /\ state' = [state EXCEPT ![current] = finish_poll(@, FALSE)]
  /\ ready' = IF finish_poll_enqueues(state[current], FALSE)
              THEN push(Id(current)) ELSE ready
  /\ pc' = round
  /\ current' = None
  /\ UNCHANGED <<created, sending, pending_spawns, tasks, closed, joins, root>>

\* The spawned future returned, or panicked inside CatchUnwind: the wrapper
\* of Handle::spawn publishes the result before its own poll returns Ready.
PublishResult(result) ==
  /\ pc = "poll"
  /\ current \in Tasks
  /\ Publish(current, result)
  /\ pc' = "finish"
  /\ UNCHANGED <<sending, pending_spawns, tasks, closed, consumed, handles, root, current>>

\* Mutation: poll_task keeps the completed task.
remove_nothing(t) == UNCHANGED tasks

remove(t) == tasks' = tasks \ {t}

\* finish_poll of a completed task, and its removal.
FinishReady ==
  /\ pc = "finish"
  /\ state' = [state EXCEPT ![current] = finish_poll(@, TRUE)]
  /\ remove(current)
  /\ pc' = round
  /\ current' = None
  /\ UNCHANGED <<created, ready, sending, pending_spawns, closed, joins, root>>

\* A panic outside the panic boundary, as in the destructor of the future:
\* unwinding drops the sender unpublished and leaves block_on; the task stays
\* in the map, Running for ever.
TaskEscapes ==
  /\ pc = "poll"
  /\ current \in Escaping
  /\ Publish(current, "Cancelled")
  /\ pc' = "out"
  /\ current' = None
  /\ UNCHANGED <<sending, pending_spawns, tasks, closed, consumed, handles, root>>

\* The same once the result is stored: the waker of the waiter, or the
\* destructor of the output when there is no handle, panics in publish_inner.
PublishEscapes ==
  /\ pc = "finish"
  /\ current \in Escaping
  /\ pc' = "out"
  /\ current' = None
  /\ UNCHANGED <<queue, sending, pending_spawns, tasks, closed, joins, root>>

\* The root future is ready and block_on returns.
RootReady ==
  /\ pc = "poll"
  /\ current \in Roots
  /\ state' = [state EXCEPT ![current] = finish_poll(@, TRUE)]
  /\ pc' = "out"
  /\ current' = None
  /\ UNCHANGED <<created, ready, sending, pending_spawns, tasks, closed, joins, root>>

\* Mutation: a guard requests the schedule again while block_on unwinds.
abandon_requests ==
  /\ state' = [state EXCEPT ![current] = "Queued"]
  /\ ready' = push(ROOT_TASK_ID)
  /\ UNCHANGED created

\* Nothing restores a schedule whose poll unwinds.
abandon == UNCHANGED queue

\* The root future panics: block_on unwinds, its schedule stays Running.
RootPanics ==
  /\ pc = "poll"
  /\ current \in Roots
  /\ pc' = "out"
  /\ current' = None
  /\ abandon
  /\ UNCHANGED <<sending, pending_spawns, tasks, closed, joins, root>>
-----------------------------------------------------------------------------
(* Shutdown *)

\* Mutation: the executor is torn down without being marked closed.
close_never == UNCHANGED closed

close == closed' = TRUE

\* Executor::drop begins: from here on submit rejects every future.
DropExecutor ==
  /\ pc = "out"
  /\ ~closed
  /\ close
  /\ pc' = "clearing"
  /\ UNCHANGED <<queue, sending, pending_spawns, tasks, joins, root, current>>

\* pending_spawns.clear() drops one task that was never admitted.
ClearPendingSpawn ==
  /\ pc = "clearing"
  /\ pending_spawns # <<>>
  /\ pending_spawns' = Tail(pending_spawns)
  /\ Publish(Head(pending_spawns), "Cancelled")
  /\ UNCHANGED <<sending, tasks, closed, consumed, handles, root, pc, current>>

\* Drop::drop returns; the fields of the executor are dropped in order.
PendingSpawnsCleared ==
  /\ pc = "clearing"
  /\ pending_spawns = <<>>
  /\ pc' = "dropping"
  /\ UNCHANGED <<queue, sending, pending_spawns, tasks, closed, joins, root, current>>

\* The map is dropped, one admitted task after another in any order.
DropTask(t) ==
  /\ pc = "dropping"
  /\ t \in tasks
  /\ tasks' = tasks \ {t}
  /\ Publish(t, "Cancelled")
  /\ UNCHANGED <<sending, pending_spawns, closed, consumed, handles, root, pc, current>>

\* The receiver goes last, with every id it still holds.
DropReceiver ==
  /\ pc = "dropping"
  /\ tasks = {}
  /\ ready' = <<>>
  /\ pc' = "dropped"
  /\ UNCHANGED <<created, state, sending, pending_spawns, tasks, closed, joins, root, current>>
-----------------------------------------------------------------------------
EndPoll ==
  \/ FinishPending
  \/ \E result \in {"Ok", "Panic"} : PublishResult(result)
  \/ TaskEscapes
  \/ RootReady
  \/ RootPanics

Shutdown ==
  \/ ClearPendingSpawn
  \/ PendingSpawnsCleared
  \/ \E t \in Tasks : DropTask(t)
  \/ DropReceiver

Next ==
  \/ \E s \in Schedules : WakeLocal(s)
  \/ \E p \in Threads, s \in Schedules : WakeRemote(p, s)
  \/ \E p \in Threads : SendRemote(p)
  \/ \E t \in Tasks : PollJoin(t) \/ DropHandle(t) \/ Spawn(t)
  \/ BlockOn \/ DrainPendingSpawns \/ Recv \/ RecvTimeout \/ WakerPanics
  \/ BeginPoll \/ LookupPanics \/ EndPoll \/ FinishReady \/ PublishEscapes
  \/ DropExecutor \/ Shutdown

\* The runtime thread is not suspended inside block_on or in a drop, every
\* poll returns or unwinds, and a thread that unlocked goes on to send.
Fairness ==
  /\ \A p \in Threads : WF_vars(SendRemote(p))
  /\ WF_vars(DrainPendingSpawns) /\ WF_vars(Recv) /\ WF_vars(RecvTimeout)
  /\ WF_vars(BeginPoll) /\ WF_vars(LookupPanics)
  /\ WF_vars(EndPoll) /\ WF_vars(FinishReady)
  /\ WF_vars(Shutdown)

SafeSpec == Init /\ [][Next]_vars

Spec == SafeSpec /\ Fairness
-----------------------------------------------------------------------------
\* Every variable has its type; a schedule exists for each future that was
\* ever accepted, and only for those.
TypeOK ==
  /\ created \subseteq Schedules
  /\ state \in [Schedules -> ScheduleState]
  /\ ready \in Seq({Id(s) : s \in created})
  /\ sending \in [Threads -> created \union {None}]
  /\ pending_spawns \in Seq(Tasks \cap created)
  /\ tasks \subseteq Tasks \cap created
  /\ closed \in BOOLEAN
  /\ join \in [Tasks -> {"Unspawned", "Pending", "Ok", "Panic", "Cancelled"}]
  /\ consumed \subseteq Tasks
  /\ senders \subseteq Tasks \cap created
  /\ waker \in [Tasks -> created \union {None}]
  /\ waiter \in [Tasks -> created \union {None}]
  /\ handles \subseteq Tasks
  /\ root \in 0 .. MaxBlockOns /\ created \cap Roots = 1 .. root
  /\ pc \in {"out", "next", "recv", "begin", "poll", "finish",
             "clearing", "dropping", "dropped"}
  /\ current \in (IF pc \in {"begin", "poll", "finish"} THEN created ELSE {None})

Pending(t) == \E i \in DOMAIN pending_spawns : pending_spawns[i] = t
Owned(t) == t \in tasks \/ Pending(t)

\* The `expect` of poll_task: an id taken from the channel is the root's or
\* an admitted task's.  Admission happens in another queue than scheduling,
\* so this is about which of the two the executor looks at first.
PoppedIsAdmitted == pc = "begin" => Admitted(current)

\* The assertion of begin_poll: what the executor polls is Queued.  For the
\* root it needs every root id in the channel to be the current root's.
OnlyQueuedIsPolled == pc = "begin" => begin_poll_allowed(state[current])

\* Between block_on calls no root id waits in the channel or on a thread: it
\* would be mistaken for the next root future.
NoStaleRootId ==
  pc = "out" =>
    /\ \A i \in DOMAIN ready : ready[i] # ROOT_TASK_ID
    /\ \A p \in Threads : sending[p] \notin Roots

\* A JoinState is Pending exactly while its sender can still publish, so the
\* panic of JoinState::complete is unreachable.  Only a Pending JoinState holds
\* a waker, only for a handle that is still there, and that of its last poll.
OneSenderPerPendingJoin ==
  \A t \in Tasks :
    /\ join[t] = "Pending" <=> t \in senders
    /\ waker[t] # None => t \in senders /\ t \in handles
    /\ waker[t] = waiter[t]

\* A future whose result is awaited is owned by the executor until it ends,
\* also when its handle is dropped (the task is detached, not cancelled).
\* It is Complete only with its result published, and a result is published
\* only once its last poll has begun: it stays Running, in the map and never
\* polled again, if the publication panics.
PendingJoinsAreOwned ==
  \A t \in Tasks :
    /\ t \in senders => Owned(t)
    /\ state[t] = "Complete" => join[t] \in {"Ok", "Panic"} /\ ~Owned(t)
    /\ join[t] \in {"Ok", "Panic"} =>
         /\ t \in created
         /\ \/ state[t] = "Complete"
            \/ /\ state[t] \in {"Running", "Notified"}
               /\ t \in tasks \/ closed
               /\ t \in Escaping \/ (pc = "finish" /\ current = t)

\* When the executor is gone every join is resolved, whatever the order of
\* the drops and whatever the destructors did meanwhile.
ShutdownResolvesJoins ==
  pc = "dropped" => senders = {} /\ pending_spawns = <<>> /\ tasks = {}

\* Resolving a join in any way wakes the schedule that polled the handle last:
\* it is polled again, unless it has finished by itself.
ResolvingWakesTheWaiter ==
  [][\A t \in Tasks :
       t \in senders /\ t \notin senders' /\ waiter[t] # None
         => state'[waiter[t]] \in {"Queued", "Notified", "Complete"}]_vars

\* Spawning keeps its promise to the holder of the JoinHandle.
Promise == INSTANCE SpawnContract WITH
  fate <- join, delivered <- consumed, open <- ~closed
KeepsSpawnContract == Promise!Spec

\* The part of the contract that the invariant below implies.
KeepsSpawnSafety == Promise!SafeSpec

\* The wakeup contract of each schedule, as in TaskSchedule, for tasks and
\* roots that come and go, under panics and shutdown.
ContractPhase(s) == IF s \in created THEN PhaseOf[state[s]] ELSE "New"

Contract == INSTANCE WakeContract WITH
  Tasks    <- Schedules,
  phase    <- [s \in Schedules |-> ContractPhase(s)],
  notified <- {s \in Schedules : state[s] \in {"Queued", "Notified"}}

\* Every poll answers a wake that no earlier poll answered, no step of the
\* executor forgets a wake, and no future is polled after its end.
KeepsWakeSafety == Contract!SafeSpec

InBlockOn == pc \in {"next", "recv", "begin", "poll", "finish"}

\* Where the runtime thread is, in terms of the queues and of what it holds.
PlaceTellsQueues ==
  /\ closed <=> pc \in {"clearing", "dropping", "dropped"}
  /\ pc \in {"dropping", "dropped"} => pending_spawns = <<>>
  /\ pc = "dropped" => tasks = {}
  /\ pc \in {"recv", "begin"} /\ "reenter" \notin CustomWakers => pending_spawns = <<>>
  /\ InBlockOn => root \in created
  /\ current \in Roots => current = root
  /\ pc \in {"poll", "finish"} =>
       /\ state[current] \in {"Running", "Notified"}
       /\ current \in Roots \/ current \in tasks
  /\ pc = "poll" => current \in Roots \/ current \in senders
  /\ pc = "finish" => current \in Tasks /\ join[current] \in {"Ok", "Panic"}

\* A future is in one place only, from its spawn until its end.
FuturesHaveOnePlace ==
  /\ \A s \in Schedules \ created : state[s] = "Idle"
  /\ \A t \in Tasks : t \in created \/ t \in handles => join[t] # "Unspawned"
  /\ \A i, j \in DOMAIN pending_spawns : pending_spawns[i] = pending_spawns[j] => i = j
  /\ \A t \in Tasks : Pending(t) => t \in senders /\ t \notin tasks
  /\ \A t \in tasks : state[t] \in {"Idle", "Queued"} => t \in senders
  /\ ~closed => \A t \in Tasks \cap created : state[t] = "Complete" \/ Owned(t)

InChannel(s) == \E i \in DOMAIN ready : ready[i] = Id(s)
InFlight(s)  == \E p \in Threads : sending[p] = s
Popped(s)    == pc = "begin" /\ current = s

\* The id of a schedule exists once at most, and only while it is Queued.
IdIsUnique(s) ==
  /\ \A i, j \in DOMAIN ready : ready[i] = Id(s) /\ ready[j] = Id(s) => i = j
  /\ \A p, q \in Threads : sending[p] = s /\ sending[q] = s => p = q
  /\ ~(InChannel(s) /\ InFlight(s))
  /\ ~(InChannel(s) /\ Popped(s))
  /\ ~(InFlight(s) /\ Popped(s))
  /\ InChannel(s) \/ InFlight(s) \/ Popped(s) => state[s] = "Queued"

\* A root id is that of the current block_on, whose root future is the only
\* one that can be Queued.
RootIdsAreCurrent ==
  /\ InBlockOn => IdIsUnique(root)
  /\ ~InBlockOn => \A r \in Roots : ~InChannel(r)
  /\ \A r \in Roots : InFlight(r) => InBlockOn /\ r = root
  /\ \A r \in Roots \cap created :
       (InBlockOn /\ r = root) \/ state[r] \in {"Running", "Notified", "Complete"}

\* block_on can be left by its root future only.
OnlyRootsUnwind == Escaping = {} /\ CustomWakers = {}

\* The inductive invariant of the executor.
IndInv ==
  /\ TypeOK
  /\ PlaceTellsQueues
  /\ FuturesHaveOnePlace
  /\ OneSenderPerPendingJoin
  /\ PendingJoinsAreOwned
  /\ \A t \in Tasks : IdIsUnique(t)
  /\ OnlyRootsUnwind => RootIdsAreCurrent

\* No starvation: while block_on runs, a queued schedule is polled after
\* finitely many other polls, even if these wake themselves every time.
QueuedIsPolled ==
  \A s \in Schedules :
    InBlockOn /\ state[s] = "Queued" ~> ~InBlockOn \/ state[s] # "Queued"
=============================================================================
