------------------------- MODULE TaskScheduleProofs --------------------------
(***************************************************************************)
(* Proofs about TaskSchedule, for any set of tasks and of threads.         *)
(***************************************************************************)
EXTENDS TaskSchedule, ScheduleStateProofs, SequenceTheorems

\* The typing part of the induction.
LEMMA TypeStep == IndInv /\ [Next]_vars => TypeOK'
<1> SUFFICES ASSUME TypeOK, PolledIsRunning, [Next]_vars
             PROVE  TypeOK'
  BY DEF IndInv
<1> USE TaskScheduleAssumption DEF TypeOK
<1>1. ASSUME NEW t \in Tasks, Submit(t)
      PROVE  TypeOK'
  <2>1. ready \in Seq(created \union {t})
    BY SeqMonotonic
  <2>2. wake(state[t]) \in ScheduleState
    BY WakeFacts
  <2> QED BY <1>1, <2>1, <2>2 DEF Submit, RequestSchedule, Procs
<1>2. ASSUME NEW t \in Tasks, LocalWake(t)
      PROVE  TypeOK'
  BY <1>2, WakeFacts DEF LocalWake, RequestSchedule, Procs
<1>3. ASSUME NEW p \in Threads, NEW t \in Tasks, Wake(p, t)
      PROVE  TypeOK'
  BY <1>3, WakeFacts DEF Wake, RequestSchedule, Procs
<1>4. ASSUME NEW p \in Procs, Send(p)
      PROVE  TypeOK'
  BY <1>4, AppendFacts DEF Send
<1>5. CASE Recv
  BY <1>5, TailFacts DEF Recv
<1>6. CASE BeginPoll
  BY <1>6 DEF BeginPoll, ScheduleState
<1>7. CASE ShareWaker
  BY <1>7 DEF ShareWaker
<1>8. ASSUME NEW isReady \in BOOLEAN, FinishPoll(isReady)
      PROVE  TypeOK'
  <2>1. finish_poll(state[current], isReady) \in ScheduleState
    BY <1>8, FinishPollFacts DEF FinishPoll, PolledIsRunning
  <2> QED BY <1>8, <2>1 DEF FinishPoll, Procs
<1>9. CASE PollUnwinds
  BY <1>9 DEF PollUnwinds
<1>10. CASE UNCHANGED vars
  BY <1>10 DEF vars
<1> QED
  BY <1>1, <1>2, <1>3, <1>4, <1>5, <1>6, <1>7, <1>8, <1>9, <1>10 DEF Next

\* The part of the induction about the schedule under poll.
LEMMA RunningStep == IndInv /\ [Next]_vars => PolledIsRunning'
<1> SUFFICES ASSUME TypeOK, QueuedIffRepresented, PolledIsRunning, [Next]_vars
             PROVE  PolledIsRunning'
  BY DEF IndInv
<1> USE TaskScheduleAssumption DEF TypeOK, PolledIsRunning
<1>1. ASSUME NEW t \in Tasks, Submit(t)
      PROVE  PolledIsRunning'
  BY <1>1 DEF Submit, RequestSchedule
<1>2. ASSUME NEW t \in Tasks, LocalWake(t)
      PROVE  PolledIsRunning'
  BY <1>2, WakeFacts DEF LocalWake, RequestSchedule
<1>3. ASSUME NEW p \in Threads, NEW t \in Tasks, Wake(p, t)
      PROVE  PolledIsRunning'
  BY <1>3, WakeFacts DEF Wake, RequestSchedule
<1>4. ASSUME NEW p \in Procs, Send(p)
      PROVE  PolledIsRunning'
  BY <1>4 DEF Send
<1>5. CASE Recv
  BY <1>5 DEF Recv
<1>6. CASE BeginPoll
  BY <1>6 DEF BeginPoll
<1>7. CASE ShareWaker
  BY <1>7 DEF ShareWaker
<1>8. ASSUME NEW isReady \in BOOLEAN, FinishPoll(isReady)
      PROVE  PolledIsRunning'
  BY <1>8 DEF FinishPoll
<1>9. CASE PollUnwinds
  BY <1>9 DEF PollUnwinds
<1>10. CASE UNCHANGED vars
  BY <1>10 DEF vars
<1> QED
  BY <1>1, <1>2, <1>3, <1>4, <1>5, <1>6, <1>7, <1>8, <1>9, <1>10 DEF Next

-----------------------------------------------------------------------------
\* Where the id of a schedule can be: what appending does to the first place.
LEMMA SendRepresents ==
  ASSUME TypeOK, NEW p \in Procs, Send(p), NEW t \in Tasks
  PROVE  InChannel(t)' <=> InChannel(t) \/ sending[p] = t
<1>1. /\ sending[p] \in created
      /\ ready \in Seq(created)
      /\ ready' = Append(ready, sending[p])
  BY TaskScheduleAssumption DEF TypeOK, Send
<1>2. /\ DOMAIN ready' = 1 .. Len(ready) + 1
      /\ DOMAIN ready = 1 .. Len(ready)
      /\ Len(ready) \in Nat
      /\ \A i \in 1 .. Len(ready) : ready'[i] = ready[i]
      /\ ready'[Len(ready) + 1] = sending[p]
  BY <1>1, AppendFacts
<1> QED BY <1>2 DEF InChannel

\* Taking the oldest id removes that id, and no other, from the channel.
LEMMA RecvRepresents ==
  ASSUME TypeOK, RepresentedOnce, Recv, NEW t \in Tasks
  PROVE  InChannel(t) <=> InChannel(t)' \/ Popped(t)'
<1>1. /\ ready \in Seq(created)
      /\ ready # <<>>
      /\ ready' = Tail(ready)
      /\ current' = Head(ready)
      /\ pc' = "begin"
  BY DEF TypeOK, Recv
<1>2. /\ Head(ready) = ready[1]
      /\ Len(ready) \in Nat \ {0}
      /\ DOMAIN ready = 1 .. Len(ready)
      /\ DOMAIN Tail(ready) = 1 .. Len(ready) - 1
      /\ \A i \in 1 .. Len(ready) - 1 : Tail(ready)[i] = ready[i + 1]
  BY <1>1, TailFacts
<1>3. ASSUME NEW i \in 1 .. Len(ready), ready[i] = t, i # 1
      PROVE  InChannel(t)'
  <2>1. i - 1 \in 1 .. Len(ready) - 1 /\ (i - 1) + 1 = i
    BY <1>2, <1>3
  <2>2. ready'[i - 1] = t
    BY <1>1, <1>2, <1>3, <2>1
  <2> QED BY <1>1, <1>2, <2>1, <2>2 DEF InChannel
<1>4. InChannel(t) => InChannel(t)' \/ Popped(t)'
  BY <1>1, <1>2, <1>3 DEF InChannel, Popped
<1>5. InChannel(t)' => InChannel(t)
  BY <1>1, <1>2 DEF InChannel
<1>6. Popped(t)' => InChannel(t)
  BY <1>1, <1>2 DEF InChannel, Popped
<1> QED BY <1>4, <1>5, <1>6

\* A wake, a first request or the end of a poll changes the state of one
\* schedule under its lock: the schedule becomes Queued and its id goes in
\* flight on that thread, or neither happens.
LockedChange(p, t, next) ==
  /\ sending[p] = NoTask
  /\ state' = [state EXCEPT ![t] = next]
  /\ \/ next # "Queued" /\ state[t] # "Queued" /\ sending' = sending
     \/ next = "Queued" /\ state[t] = "Queued" /\ sending' = sending
     \/ next = "Queued" /\ state[t] # "Queued" /\ sending' = [sending EXCEPT ![p] = t]
  /\ ready' = ready
  /\ \A u \in Tasks : Popped(u)' <=> Popped(u)

\* Every wake, and every first request, is a locked change.
LEMMA RequestIsLocked ==
  ASSUME TypeOK, NEW p \in Procs, NEW t \in Tasks, RequestSchedule(p, t),
         ready' = ready, pc' = pc, current' = current
  PROVE  LockedChange(p, t, wake(state[t]))
<1>1. state[t] \in ScheduleState
  BY DEF TypeOK
<1>2. sending' = [sending EXCEPT ![p] = IF wake_enqueues(state[t]) THEN t ELSE @]
  BY DEF RequestSchedule
<1>3. CASE wake_enqueues(state[t])
  <2>1. sending' = [sending EXCEPT ![p] = t]
    BY <1>2, <1>3
  <2>2. wake(state[t]) = "Queued" /\ state[t] # "Queued"
    BY <1>1, <1>3, WakeFacts
  <2> QED BY <2>1, <2>2 DEF LockedChange, RequestSchedule, Popped
<1>4. CASE ~wake_enqueues(state[t])
  <2>1. sending' = sending
    BY <1>2, <1>4 DEF TypeOK
  <2>2. wake(state[t]) = "Queued" <=> state[t] = "Queued"
    BY <1>1, <1>4, WakeFacts
  <2> QED BY <2>1, <2>2 DEF LockedChange, RequestSchedule, Popped
<1> QED BY <1>3, <1>4

\* A locked change keeps state and queue in agreement.
LEMMA LockedKeepsQueue ==
  ASSUME IndInv, NEW p \in Procs, NEW t \in Tasks, NEW next, LockedChange(p, t, next)
  PROVE  QueuedIffRepresented' /\ RepresentedOnce'
<1> USE TaskScheduleAssumption DEF LockedChange
<1>1. /\ state \in [Tasks -> ScheduleState]
      /\ sending \in [Procs -> created \union {NoTask}]
      /\ QueuedIffRepresented
      /\ RepresentedOnce
      /\ t # NoTask
  BY DEF IndInv, TypeOK
<1>2. \A u \in Tasks : InChannel(u)' <=> InChannel(u)
  BY DEF InChannel
<1>3. CASE sending' = sending
  <2>1. \A u \in Tasks : (state[u] = "Queued")' <=> state[u] = "Queued"
    BY <1>1, <1>3
  <2>2. \A u \in Tasks : InFlight(u)' <=> InFlight(u)
    BY <1>3 DEF InFlight
  <2> QED BY <1>1, <1>2, <1>3, <2>1, <2>2 DEF QueuedIffRepresented, RepresentedOnce
<1>4. CASE state[t] # "Queued" /\ next = "Queued" /\ sending' = [sending EXCEPT ![p] = t]
  <2>1. \A u \in Tasks : (state[u] = "Queued")' <=> state[u] = "Queued" \/ u = t
    BY <1>1, <1>4
  <2>2. \A u \in Tasks : InFlight(u)' <=> InFlight(u) \/ u = t
    BY <1>1, <1>4 DEF InFlight
  <2>3. ~InChannel(t) /\ ~InFlight(t) /\ ~Popped(t)
    BY <1>1, <1>4 DEF QueuedIffRepresented
  <2>4. \A q \in Procs : sending[q] # t
    BY <2>3 DEF InFlight
  <2>5. QueuedIffRepresented'
    BY <1>1, <1>2, <2>1, <2>2 DEF QueuedIffRepresented
  <2>6. \A q, r \in Procs : sending'[q] = sending'[r] => q = r \/ sending'[q] = NoTask
    BY <1>1, <1>4, <2>4 DEF RepresentedOnce
  <2> QED BY <1>1, <1>2, <2>2, <2>3, <2>5, <2>6 DEF RepresentedOnce
<1> QED BY <1>1, <1>3, <1>4

\* Sending moves one id from in flight to the channel.
LEMMA SendKeepsQueue ==
  ASSUME IndInv, NEW p \in Procs, Send(p)
  PROVE  QueuedIffRepresented' /\ RepresentedOnce'
<1>1. /\ TypeOK
      /\ QueuedIffRepresented
      /\ RepresentedOnce
      /\ sending \in [Procs -> created \union {NoTask}]
      /\ sending[p] \in created
      /\ ready \in Seq(created)
      /\ created \subseteq Tasks
  BY TaskScheduleAssumption DEF IndInv, TypeOK, Send
<1>2. \A t \in Tasks : InChannel(t)' <=> InChannel(t) \/ sending[p] = t
  BY <1>1, SendRepresents
<1>3. \A t \in Tasks : InFlight(t)' <=> InFlight(t) /\ sending[p] # t
  BY <1>1, TaskScheduleAssumption DEF InFlight, Send, RepresentedOnce
<1>4. \A t \in Tasks : (Popped(t)' <=> Popped(t)) /\ (sending[p] = t => InFlight(t))
  BY DEF Send, Popped, InFlight
<1>5. state' = state
  BY DEF Send
<1>6. ~InChannel(sending[p])
  BY <1>1, <1>4 DEF RepresentedOnce
<1>7. \A i, j \in DOMAIN ready' : ready'[i] = ready'[j] => i = j
  <2>1. ready' = Append(ready, sending[p])
    BY DEF Send
  <2>2. /\ DOMAIN ready' = 1 .. Len(ready) + 1
        /\ DOMAIN ready = 1 .. Len(ready)
        /\ Len(ready) \in Nat
        /\ \A i \in 1 .. Len(ready) : ready'[i] = ready[i]
        /\ ready'[Len(ready) + 1] = sending[p]
    BY <1>1, <2>1, AppendFacts
  <2> QED BY <1>1, <1>6, <2>2 DEF RepresentedOnce, InChannel
<1>8. \A q, r \in Procs : sending'[q] = sending'[r] => q = r \/ sending'[q] = NoTask
  BY <1>1 DEF Send, RepresentedOnce
<1> QED
  BY <1>1, <1>2, <1>3, <1>4, <1>5, <1>7, <1>8 DEF QueuedIffRepresented, RepresentedOnce

\* Receiving moves one id from the channel to the executor.
LEMMA RecvKeepsQueue ==
  ASSUME IndInv, Recv
  PROVE  QueuedIffRepresented' /\ RepresentedOnce'
<1>1. TypeOK /\ QueuedIffRepresented /\ RepresentedOnce
  BY DEF IndInv
<1>2. \A t \in Tasks : InChannel(t) <=> InChannel(t)' \/ Popped(t)'
  BY <1>1, RecvRepresents
<1>3. \A t \in Tasks : (InFlight(t)' <=> InFlight(t)) /\ ~Popped(t)
  BY DEF Recv, InFlight, Popped
<1>4. state' = state /\ sending' = sending
  BY DEF Recv
<1>5. /\ ready \in Seq(created)
      /\ ready # <<>>
      /\ ready' = Tail(ready)
      /\ current' = Head(ready)
  BY <1>1 DEF TypeOK, Recv
<1>6. /\ Head(ready) = ready[1]
      /\ Len(ready) \in Nat \ {0}
      /\ DOMAIN ready = 1 .. Len(ready)
      /\ DOMAIN Tail(ready) = 1 .. Len(ready) - 1
      /\ \A i \in 1 .. Len(ready) - 1 : Tail(ready)[i] = ready[i + 1]
  BY <1>5, TailFacts
<1>7. \A i, j \in DOMAIN ready' : ready'[i] = ready'[j] => i = j
  BY <1>1, <1>5, <1>6 DEF RepresentedOnce
<1>8. \A t \in Tasks : ~(InChannel(t)' /\ Popped(t)')
  BY <1>1, <1>5, <1>6 DEF RepresentedOnce, InChannel, Popped
<1> QED
  BY <1>1, <1>2, <1>3, <1>4, <1>7, <1>8 DEF QueuedIffRepresented, RepresentedOnce

\* The start of a poll takes the schedule out of Queued with its last id.
LEMMA BeginKeepsQueue ==
  ASSUME IndInv, BeginPoll
  PROVE  QueuedIffRepresented' /\ RepresentedOnce'
<1>1. TypeOK /\ QueuedIffRepresented /\ RepresentedOnce
  BY DEF IndInv
<1>2. /\ \A t \in Tasks : InChannel(t)' <=> InChannel(t)
      /\ \A t \in Tasks : InFlight(t)' <=> InFlight(t)
      /\ \A t \in Tasks : Popped(t) <=> t = current
      /\ \A t \in Tasks : ~Popped(t)'
  BY <1>1 DEF BeginPoll, InChannel, InFlight, Popped
<1>3. \A t \in Tasks : (state[t] = "Queued")' <=> state[t] = "Queued" /\ t # current
  BY <1>1 DEF BeginPoll, TypeOK
<1> QED
  BY <1>1, <1>2, <1>3 DEF QueuedIffRepresented, RepresentedOnce, BeginPoll

\* The part of the induction about state and queue, action by action.
LEMMA QueueStep == IndInv /\ [Next]_vars => QueuedIffRepresented' /\ RepresentedOnce'
<1> SUFFICES ASSUME IndInv, [Next]_vars
             PROVE  QueuedIffRepresented' /\ RepresentedOnce'
  OBVIOUS
<1>t. TypeOK /\ Executor \in Procs
  BY DEF IndInv, Procs
<1>1. ASSUME NEW t \in Tasks, Submit(t)
      PROVE  QueuedIffRepresented' /\ RepresentedOnce'
  BY <1>1, <1>t, RequestIsLocked, LockedKeepsQueue DEF Submit
<1>2. ASSUME NEW t \in Tasks, LocalWake(t)
      PROVE  QueuedIffRepresented' /\ RepresentedOnce'
  BY <1>2, <1>t, RequestIsLocked, LockedKeepsQueue DEF LocalWake
<1>3. ASSUME NEW p \in Threads, NEW t \in Tasks, Wake(p, t)
      PROVE  QueuedIffRepresented' /\ RepresentedOnce'
  BY <1>3, <1>t, RequestIsLocked, LockedKeepsQueue DEF Wake, Procs
<1>4. ASSUME NEW p \in Procs, Send(p)
      PROVE  QueuedIffRepresented' /\ RepresentedOnce'
  BY <1>4, SendKeepsQueue
<1>5. CASE Recv
  BY <1>5, RecvKeepsQueue
<1>6. CASE BeginPoll
  BY <1>6, BeginKeepsQueue
<1>8. ASSUME NEW isReady \in BOOLEAN, FinishPoll(isReady)
      PROVE  QueuedIffRepresented' /\ RepresentedOnce'
  <2>1. current \in Tasks /\ state[current] \in {"Running", "Notified"}
    BY <1>8 DEF IndInv, TypeOK, PolledIsRunning, FinishPoll
  <2>2. finish_poll(state[current], isReady) = "Queued"
          <=> finish_poll_enqueues(state[current], isReady)
    BY <2>1, FinishPollFacts
  <2>3. ~finish_poll_enqueues(state[current], isReady) => sending' = sending
    BY <1>8 DEF IndInv, TypeOK, FinishPoll
  <2>4. \A u \in Tasks : ~Popped(u)' /\ ~Popped(u)
    BY <1>8 DEF FinishPoll, Popped
  <2>5. LockedChange(Executor, current, finish_poll(state[current], isReady))
    BY <1>8, <2>1, <2>2, <2>3, <2>4 DEF FinishPoll, LockedChange
  <2> QED BY <1>t, <2>1, <2>5, LockedKeepsQueue
<1>9. CASE ShareWaker \/ PollUnwinds \/ UNCHANGED vars
  <2>1. /\ state' = state /\ ready' = ready /\ sending' = sending
        /\ \A t \in Tasks : Popped(t)' <=> Popped(t)
    BY <1>9 DEF ShareWaker, PollUnwinds, vars, Popped
  <2> QED
    BY <2>1 DEF IndInv, QueuedIffRepresented, RepresentedOnce, InChannel, InFlight
<1> QED
  BY <1>1, <1>2, <1>3, <1>4, <1>5, <1>6, <1>8, <1>9 DEF Next
-----------------------------------------------------------------------------
\* The invariant of the protocol is inductive, for any number of tasks and
\* threads and however their unlocked sends interleave.
THEOREM Inductive == SafeSpec => []IndInv
<1>1. Init => IndInv
  BY TaskScheduleAssumption
  DEF Init, IndInv, TypeOK, ScheduleState, QueuedIffRepresented, RepresentedOnce,
      PolledIsRunning, InChannel, InFlight, Popped
<1>2. IndInv /\ [Next]_vars => IndInv'
  BY TypeStep, QueueStep, RunningStep DEF IndInv
<1> QED BY <1>1, <1>2, PTL DEF SafeSpec

\* A schedule is Queued exactly while its id is in, or on its way into or out
\* of, the ready channel: the unlocked send can lose no wake.
THEOREM QueuedSchedulesAreReachable == SafeSpec => []QueuedIffRepresented
<1>1. IndInv => QueuedIffRepresented
  BY DEF IndInv
<1> QED BY <1>1, Inductive, PTL

\* The unlocked send duplicates no id.
THEOREM IdsAreUnique == SafeSpec => []RepresentedOnce
<1>1. IndInv => RepresentedOnce
  BY DEF IndInv
<1> QED BY <1>1, Inductive, PTL

\* The `unreachable!` of begin_poll is unreachable.
THEOREM PollAssertionHolds == SafeSpec => []OnlyQueuedIsPolled
<1>1. IndInv => OnlyQueuedIsPolled
  BY DEF IndInv, TypeOK, QueuedIffRepresented, Popped, OnlyQueuedIsPolled,
         begin_poll_allowed
<1> QED BY <1>1, Inductive, PTL

-----------------------------------------------------------------------------
\* A wake of an existing schedule is a Notify of the contract, or no step.
LEMMA RequestNotifies ==
  ASSUME IndInv, NEW p \in Procs, NEW t \in created, RequestSchedule(p, t),
         created' = created
  PROVE  Contract!Notify(t) \/ UNCHANGED Contract!vars
<1>1. state \in [Tasks -> ScheduleState] /\ t \in Tasks
  BY DEF IndInv, TypeOK
<1>2. state' = [state EXCEPT ![t] = wake(state[t])]
  BY DEF RequestSchedule
<1>3. CASE state[t] = "Idle"
  <2>1. state' = [state EXCEPT ![t] = "Queued"]
    BY <1>2, <1>3 DEF wake
  <2>2. \A u \in Tasks : ContractPhase(u)' = ContractPhase(u)
    BY <1>1, <1>3, <2>1 DEF ContractPhase, PhaseOf
  <2> QED BY <1>1, <1>3, <2>1, <2>2 DEF Contract!Notify, ContractPhase, PhaseOf
<1>4. CASE state[t] = "Running"
  <2>1. state' = [state EXCEPT ![t] = "Notified"]
    BY <1>2, <1>4 DEF wake
  <2>2. \A u \in Tasks : ContractPhase(u)' = ContractPhase(u)
    BY <1>1, <1>4, <2>1 DEF ContractPhase, PhaseOf
  <2> QED BY <1>1, <1>4, <2>1, <2>2 DEF Contract!Notify, ContractPhase, PhaseOf
<1>5. CASE state[t] \notin {"Idle", "Running"}
  <2>1. wake(state[t]) = state[t]
    BY <1>5 DEF wake
  <2>2. state' = state
    BY <1>1, <1>2, <2>1
  <2> QED BY <2>2 DEF Contract!vars, ContractPhase, PhaseOf
<1> QED BY <1>3, <1>4, <1>5

\* Every poll answers a wake that no earlier poll answered, no step forgets a
\* wake, and a finished task is never polled again.
THEOREM ImplementsWakeContract == SafeSpec => KeepsWakeSafety
<1>1. Init => Contract!Init
  BY DEF Init, Contract!Init, ContractPhase, PhaseOf
<1>2. IndInv /\ [Next]_vars => [Contract!Next]_Contract!vars
  <2> SUFFICES ASSUME IndInv, [Next]_vars
               PROVE  Contract!Next \/ UNCHANGED Contract!vars
    OBVIOUS
  <2>t. /\ created \subseteq Tasks
        /\ state \in [Tasks -> ScheduleState]
        /\ wakers \subseteq created
        /\ pc # "idle" => current \in created
        /\ Executor \in Procs
    BY DEF IndInv, TypeOK, Procs
  <2>1. ASSUME NEW t \in Tasks, Submit(t)
        PROVE  Contract!Next \/ UNCHANGED Contract!vars
    <3>1. state[t] = "Idle"
      BY <2>1 DEF IndInv, PolledIsRunning, Submit
    <3>2. state' = [state EXCEPT ![t] = "Queued"] /\ created' = created \union {t}
      BY <2>1, <3>1 DEF Submit, RequestSchedule, wake
    <3>3. \A u \in Tasks : u # t => ContractPhase(u)' = ContractPhase(u)
      BY <2>t, <3>2 DEF ContractPhase, PhaseOf
    <3>4. ContractPhase(t) = "New" /\ ContractPhase(t)' = "Waiting"
      BY <2>t, <2>1, <3>2 DEF Submit, ContractPhase, PhaseOf
    <3>5. Contract!Submit(t)
      BY <2>t, <3>2, <3>3, <3>4 DEF Contract!Submit
    <3> QED BY <3>5 DEF Contract!Next
  <2>2. ASSUME NEW t \in Tasks, LocalWake(t)
        PROVE  Contract!Next \/ UNCHANGED Contract!vars
    <3>1. t \in created /\ RequestSchedule(Executor, t) /\ created' = created
      BY <2>t, <2>2 DEF LocalWake
    <3> QED BY <2>t, <2>2, <3>1, RequestNotifies DEF Contract!Next
  <2>3. ASSUME NEW p \in Threads, NEW t \in Tasks, Wake(p, t)
        PROVE  Contract!Next \/ UNCHANGED Contract!vars
    <3>1. t \in created /\ RequestSchedule(p, t) /\ created' = created /\ p \in Procs
      BY <2>t, <2>3 DEF Wake, Procs
    <3> QED BY <2>3, <3>1, RequestNotifies DEF Contract!Next
  <2>4. CASE BeginPoll
    <3> PICK t \in created : t = current
      BY <2>t, <2>4 DEF BeginPoll
    <3>1. state[t] = "Queued" /\ t \in created
      BY <2>4 DEF BeginPoll, begin_poll_allowed
    <3>2. state' = [state EXCEPT ![t] = "Running"] /\ created' = created
      BY <2>4 DEF BeginPoll
    <3>3. \A u \in Tasks : u # t => ContractPhase(u)' = ContractPhase(u)
      BY <2>t, <3>2 DEF ContractPhase, PhaseOf
    <3>4. ContractPhase(t) = "Waiting" /\ ContractPhase(t)' = "Polling"
      BY <2>t, <3>1, <3>2 DEF ContractPhase, PhaseOf
    <3>5. Contract!StartPoll(t)
      BY <2>t, <3>1, <3>2, <3>3, <3>4 DEF Contract!StartPoll
    <3> QED BY <2>t, <3>1, <3>5 DEF Contract!Next
  <2>5. ASSUME NEW isReady \in BOOLEAN, FinishPoll(isReady)
        PROVE  Contract!Next \/ UNCHANGED Contract!vars
    <3> PICK t \in created : t = current
      BY <2>t, <2>5 DEF FinishPoll
    <3>1. t \in created /\ state[t] \in {"Running", "Notified"}
      BY <2>t, <2>5 DEF FinishPoll, IndInv, PolledIsRunning
    <3>2. /\ state' = [state EXCEPT ![t] = finish_poll(state[t], isReady)]
          /\ created' = created
      BY <2>5 DEF FinishPoll
    <3>3. \A u \in Tasks : u # t => ContractPhase(u)' = ContractPhase(u)
      BY <2>t, <3>2 DEF ContractPhase, PhaseOf
    <3>4. ContractPhase(t) = "Polling"
      BY <3>1 DEF ContractPhase, PhaseOf
    <3>5. CASE isReady
      <4>1. finish_poll(state[t], isReady) = "Complete"
        BY <3>5 DEF finish_poll
      <4>2. state' = [state EXCEPT ![t] = "Complete"]
        BY <3>2, <4>1
      <4>3. ContractPhase(t)' = "Done"
        BY <2>t, <3>1, <3>2, <4>2 DEF ContractPhase, PhaseOf
      <4>4. Contract!Finish(t)
        BY <2>t, <3>1, <3>3, <3>4, <4>2, <4>3 DEF Contract!Finish
      <4> QED BY <2>t, <3>1, <4>4 DEF Contract!Next
    <3>6. CASE ~isReady
      <4>1. finish_poll(state[t], isReady)
              = IF state[t] = "Notified" THEN "Queued" ELSE "Idle"
        BY <3>1, <3>6 DEF finish_poll
      <4>2. state'[t] = IF state[t] = "Notified" THEN "Queued" ELSE "Idle"
        BY <2>t, <3>1, <3>2, <4>1
      <4>3. ContractPhase(t)' = "Waiting"
        BY <3>1, <3>2, <4>2 DEF ContractPhase, PhaseOf
      <4>4. \A u \in Tasks : state'[u] \in {"Queued", "Notified"}
                               <=> state[u] \in {"Queued", "Notified"}
        BY <2>t, <3>1, <3>2, <4>2
      <4>5. Contract!Suspend(t)
        BY <2>t, <3>1, <3>3, <3>4, <4>3, <4>4 DEF Contract!Suspend
      <4> QED BY <2>t, <3>1, <4>5 DEF Contract!Next
    <3> QED BY <3>5, <3>6
  <2>6. CASE \/ \E p \in Procs : Send(p)
             \/ Recv \/ ShareWaker \/ PollUnwinds \/ UNCHANGED vars
    <3>1. state' = state /\ created' = created
      BY <2>6 DEF Send, Recv, ShareWaker, PollUnwinds, vars
    <3> QED BY <3>1 DEF Contract!vars, ContractPhase, PhaseOf
  <2> QED BY <2>1, <2>2, <2>3, <2>4, <2>5, <2>6 DEF Next
<1> QED BY <1>1, <1>2, Inductive, PTL DEF SafeSpec, KeepsWakeSafety, Contract!SafeSpec
=============================================================================
