-------------------------- MODULE TimerContractProofs --------------------------
(***************************************************************************)
(* Proof that Timers implements TimerContract, for any sleeps, tasks and   *)
(* bounds, as long as no waker panics: a panic drops the wakers that       *)
(* process_expired has collected and not called.                           *)
(***************************************************************************)
EXTENDS TimersProofs

Alarms == [s \in Sleeps |-> Alarm(s)]

LEMMA AlarmFacts ==
  ASSUME IndInv, NEW s \in Sleeps
  PROVE  /\ Alarm(s) # None <=> Registered(s)
         /\ Registered(s) => /\ registration[s] \in TimerIds
                             /\ Alarm(s) = registrations[registration[s]]
                             /\ Alarm(s) \in Registration
                             /\ Alarm(s).deadline = deadline[s]
                             /\ s \in alive
<1>1. ASSUME Registered(s)
      PROVE  /\ registration[s] \in TimerIds
             /\ Alarm(s) = registrations[registration[s]]
             /\ Alarm(s) \in Registration
             /\ Alarm(s).deadline = deadline[s]
             /\ s \in alive
  <2>1. registration[s] \in TimerIds
    BY <1>1, SleepsHoldTimerIds DEF Registered, IndInv
  <2> QED BY <1>1, <2>1 DEF Alarm, Registered, IndInv, TypeOK, RegistrationsBelongToSleeps
<1> QED BY <1>1, NoneIsNothing DEF Alarm

\* A step of one sleep that leaves the registrations of the others alone.
LEMMA OtherAlarms ==
  ASSUME IndInv, NEW s \in Sleeps,
         \A t \in Sleeps \ {s} : registration'[t] = registration[t],
         \A id \in TimerIds \ {registration[s]} :
           registrations[id] # None => registrations'[id] = registrations[id],
         \A t \in Sleeps \ {s} : registration[t] # None /\ ~Registered(t) =>
           registrations'[registration[t]] = None
  PROVE  Alarms' = [Alarms EXCEPT ![s] = Alarm(s)']
<1>1. ASSUME NEW t \in Sleeps \ {s}
      PROVE  Alarm(t)' = Alarm(t)
  <2>1. CASE Registered(t)
    <3>1. registration[t] \in TimerIds /\ registration[t] # registration[s]
      BY <2>1, AlarmFacts DEF Registered, IndInv, RegistrationsBelongToSleeps
    <3> QED BY <2>1, <3>1 DEF Registered, Alarm
  <2>2. CASE ~Registered(t)
    BY <2>2 DEF Registered, Alarm
  <2> QED BY <2>1, <2>2
<1> QED BY <1>1 DEF Alarms

\* process_expired is what makes alarms go off, if any is due.
LEMMA ExpiryGoesOff ==
  ASSUME IndInv, ProcessExpired
  PROVE  [Contract!Next]_(Contract!vars)
<1> DEFINE expired == {id \in TimerIds : registrations[id] # None /\ Fires(id)}
           due == {s \in Sleeps : Alarm(s) # None /\ Alarm(s).deadline <= now}
<1>1. \A id \in TimerIds :
        id \in expired <=> registrations[id] # None /\ registrations[id].deadline <= now
  <2> SUFFICES ASSUME NEW id \in TimerIds, registrations[id] # None
               PROVE  Fires(id) <=> registrations[id].deadline <= now
    OBVIOUS
  <2>1. now \in Nat /\ registrations[id].deadline \in Nat
    BY NoneIsNothing DEF IndInv, TypeOK, Registration
  <2>2. ASSUME registrations[id].deadline <= now
        PROVE  Fires(id)
    <3>1. registrations[id].deadline \in 0 .. now
      BY <2>1, <2>2
    <3> QED BY <3>1, CoveredIsCurrent DEF Fires, IndInv
  <2>3. ASSUME Fires(id)
        PROVE  registrations[id].deadline <= now
    <3>1. PICK d \in 0 .. now : IsCurrent(<<d, id>>)
      BY <2>3 DEF Fires
    <3> QED BY <2>1, <3>1 DEF IsCurrent
  <2> QED BY <2>2, <2>3
<1>2. /\ registrations' = [id \in TimerIds |-> IF id \in expired THEN None ELSE registrations[id]]
      /\ firing' = {registrations[id].waker : id \in expired}
      /\ firing = {}
      /\ pc # "out" /\ pc' # "out"
      /\ UNCHANGED <<now, alive, registration, woken>>
  BY DEF ProcessExpired, IndInv, TypeOK, clock, sleeps
<1> HIDE DEF expired
<1>3. \A s \in Sleeps : Registered(s) => (s \in due <=> registration[s] \in expired)
  BY <1>1, AlarmFacts
<1>4. \A s \in due : Registered(s)
  BY AlarmFacts
<1>5. \A s \in Sleeps : Alarm(s)' = IF s \in due THEN None ELSE Alarm(s)
  <2> TAKE s \in Sleeps
  <2>1. CASE Registered(s)
    BY <1>2, <1>3, <2>1, AlarmFacts DEF Alarm, Registered
  <2>2. CASE ~Registered(s)
    <3>1. registration[s] # None => registration[s] \in TimerIds
      BY SleepsHoldTimerIds DEF IndInv
    <3> QED BY <1>2, <1>4, <2>2, <3>1 DEF Alarm, Registered
  <2> QED BY <2>1, <2>2
<1>6. firing' = {Alarm(s).waker : s \in due}
  <2>1. \A id \in expired : \E s \in due : registration[s] = id /\ Alarm(s) = registrations[id]
    <3> TAKE id \in expired
    <3>1. id \in TimerIds /\ registrations[id] # None
      BY DEF expired
    <3>2. PICK s \in Sleeps : registration[s] = id
      BY <3>1 DEF IndInv, RegistrationsBelongToSleeps
    <3>3. Registered(s)
      BY <3>1, <3>2, NoneIsNothing DEF Registered
    <3> QED BY <1>3, <3>2, <3>3, AlarmFacts
  <2>2. \A s \in due : registration[s] \in expired /\ Alarm(s) = registrations[registration[s]]
    BY <1>3, <1>4, AlarmFacts
  <2> HIDE DEF due
  <2> QED BY <1>2, <2>1, <2>2
<1>7. Contract!Due = due
  BY DEF Contract!Due
<1>8. CASE due = {}
  <2>1. firing' = {} /\ \A s \in Sleeps : Alarm(s)' = Alarm(s)
    BY <1>5, <1>6, <1>8
  <2> QED BY <1>2, <2>1 DEF Contract!vars
<1>9. CASE due # {}
  <2>1. woken' \union firing' =
          (woken \union firing) \union {[s \in Sleeps |-> Alarm(s)][t].waker : t \in due}
    BY <1>2, <1>6
  <2>2. [s \in Sleeps |-> Alarm(s)]' =
          [s \in Sleeps |-> IF s \in due THEN None ELSE [t \in Sleeps |-> Alarm(t)][s]]
    BY <1>5
  <2> HIDE DEF due
  <2>3. Contract!GoOff
    BY <1>2, <1>7, <1>9, <2>1, <2>2 DEF Contract!GoOff
  <2> QED BY <1>2, <2>3 DEF Contract!Next, Contract!Serve
<1> QED BY <1>8, <1>9

\* What an operation of one sleep does to its alarm.
LEMMA SleepStep ==
  ASSUME IndInv, IndInv', [Next]_vars, NEW s \in Sleeps, NEW d \in Time,
         \/ NewSleep(s, d) \/ Reset(s, d) \/ DropSleep(s)
         \/ PollElapsed(s) \/ PollRegisters(s) \/ PollUpdatesWaker(s)
  PROVE  [Contract!Next]_(Contract!vars)
<1> USE DEF clock, driver, sleeps, thread
<1> DEFINE running == pc # "out"
<1>1. UNCHANGED <<now, woken, firing, pc>>
  BY DEF NewSleep, Reset, DropSleep, PollElapsed, PollRegisters, PollUpdatesWaker
<1>2. /\ \A t \in Sleeps \ {s} : registration'[t] = registration[t]
      /\ registration[s] # None => registration[s] \in TimerIds
  BY SleepsHoldTimerIds DEF IndInv, TypeOK, NewSleep, Reset, DropSleep, PollElapsed,
                            PollRegisters, PollUpdatesWaker
<1>3. \A id \in TimerIds \ {registration[s]} :
        registrations[id] # None => registrations'[id] = registrations[id]
  <2>1. registrations[next_id] = None \/ ~PollRegisters(s)
    BY TimersAssumption DEF IndInv, TypeOK, TimerIds, PollRegisters, register
  <2> QED BY <2>1
     DEF IndInv, TypeOK, NewSleep, Reset, DropSleep, PollElapsed, PollRegisters, register,
         PollUpdatesWaker, reschedule, cancel, update_waker
<1>4. ASSUME NEW t \in Sleeps \ {s}, registration[t] # None, ~Registered(t)
      PROVE  registrations'[registration[t]] = None
  <2>1. registration[t] \in TimerIds /\ registration[t] # registration[s]
    BY <1>4, SleepsHoldTimerIds DEF IndInv, RegistrationsBelongToSleeps
  <2>2. registration[t] # next_id
    BY <1>4, NoneIsNothing DEF IndInv, TypeOK
  <2> QED BY <1>4, <2>1, <2>2
     DEF IndInv, TypeOK, NewSleep, Reset, DropSleep, PollElapsed, PollRegisters, register,
         PollUpdatesWaker, reschedule, cancel, update_waker, Registered
<1>5. [t \in Sleeps |-> Alarm(t)]' = [[t \in Sleeps |-> Alarm(t)] EXCEPT ![s] = Alarm(s)']
  BY <1>2, <1>3, <1>4, OtherAlarms DEF Alarms
<1>6. Alarm(s) = [t \in Sleeps |-> Alarm(t)][s]
  OBVIOUS
<1>a. ASSUME NEW new, Alarm(s)' = new
      PROVE  [t \in Sleeps |-> Alarm(t)]' = [[t \in Sleeps |-> Alarm(t)] EXCEPT ![s] = new]
  BY <1>5, <1>a
<1>b. ASSUME Alarm(s)' = Alarm(s)
      PROVE  [t \in Sleeps |-> Alarm(t)]' = [t \in Sleeps |-> Alarm(t)]
  BY <1>5, <1>b
<1>7. CASE NewSleep(s, d)
  <2>1. Alarm(s)' = Alarm(s)
    BY <1>7 DEF NewSleep, Alarm, Registered
  <2>2. Contract!Create(s)
    BY <1>1, <1>7, <1>b, <2>1 DEF Contract!Create, NewSleep
  <2> QED BY <1>1, <2>2 DEF Contract!Next, Contract!Serve
<1>8. CASE Reset(s, d)
  <2>1. CASE Registered(s)
    <3>1. registration'[s] = registration[s] /\ registration[s] \in TimerIds
      BY <1>2, <1>8, <2>1 DEF Reset, Registered
    <3>2. /\ Alarm(s) # None /\ Alarm(s) = registrations[registration[s]]
          /\ Alarm(s)' = [deadline |-> d, waker |-> Alarm(s).waker]
      <4>1. registrations'[registration[s]] = [deadline |-> d, waker |-> Alarm(s).waker]
        BY <1>8, <2>1, <3>1, AlarmFacts DEF Reset, reschedule, IndInv, TypeOK
      <4>2. registrations'[registration[s]] # None
        BY <3>1, <4>1, AlarmFacts, <2>1, NoneIsNothing DEF Registration
      <4> QED BY <2>1, <3>1, <4>1, <4>2, AlarmFacts DEF Alarm, Registered
    <3>3. UNCHANGED alive
      BY <1>8 DEF Reset
    <3>4. Contract!Move(s, d)
      BY <1>1, <1>5, <1>6, <3>2, <3>3 DEF Contract!Move
    <3> QED BY <1>1, <3>4 DEF Contract!Next, Contract!Serve
  <2>2. CASE ~Registered(s)
    <3>1. Alarm(s)' = Alarm(s)
      BY <1>8, <2>2 DEF Reset, Registered, Alarm, IndInv, TypeOK
    <3>2. UNCHANGED alive
      BY <1>8 DEF Reset
    <3> QED BY <1>1, <1>b, <3>1, <3>2 DEF Contract!vars
  <2> QED BY <2>1, <2>2
<1>9. CASE DropSleep(s)
  <2>1. Alarm(s)' = None
    BY <1>9 DEF DropSleep, Alarm, Registered, IndInv, TypeOK
  <2>2. Contract!Drop(s)
    BY <1>1, <1>9, <1>a, <2>1 DEF Contract!Drop, DropSleep
  <2> QED BY <1>1, <2>2 DEF Contract!Next, Contract!Serve
<1>10. CASE PollElapsed(s)
  <2>1. Alarm(s)' = None /\ UNCHANGED alive
    BY <1>10 DEF PollElapsed, Alarm, Registered, IndInv, TypeOK
  <2>2. CASE Registered(s)
    <3>1. Alarm(s) # None /\ now >= Alarm(s).deadline
      BY <1>10, <2>2, AlarmFacts DEF PollElapsed, is_elapsed
    <3>2. Contract!Finish(s)
      BY <1>1, <1>a, <1>6, <2>1, <3>1 DEF Contract!Finish
    <3> QED BY <1>1, <3>2 DEF Contract!Next, Contract!Serve
  <2>3. CASE ~Registered(s)
    BY <1>1, <1>b, <2>1, <2>3 DEF Contract!vars, Alarm
  <2> QED BY <2>2, <2>3
<1>11. CASE PollRegisters(s) \/ PollUpdatesWaker(s)
  <2>1. /\ s \in alive /\ poller \in Tasks /\ deadline[s] \in Time /\ now < deadline[s]
        /\ UNCHANGED <<alive, deadline>>
    <3>1. ~(now >= deadline[s]) /\ now \in Nat /\ deadline[s] \in Nat
      BY <1>11, NoneIsNothing
      DEF PollRegisters, PollUpdatesWaker, is_elapsed, IndInv, TypeOK
    <3> QED BY <1>11, <3>1 DEF PollRegisters, PollUpdatesWaker, Polls, IndInv, TypeOK
  <2>2. Alarm(s) # None => Alarm(s).deadline = deadline[s]
    BY AlarmFacts
  <2>3. Alarm(s)' = [deadline |-> deadline[s], waker |-> poller]
    <3>1. [deadline |-> deadline[s], waker |-> poller] # None
      BY <2>1, NoneIsNothing DEF Registration
    <3>2. CASE PollRegisters(s)
      <4>1. next_id \in TimerIds /\ next_id # None
        BY <3>2, TimersAssumption, NoneIsNothing
        DEF PollRegisters, register, IndInv, TypeOK, TimerIds
      <4> QED BY <3>1, <3>2, <4>1
         DEF PollRegisters, register, Alarm, Registered, IndInv, TypeOK
    <3>3. CASE PollUpdatesWaker(s)
      <4>1. Registered(s) /\ registration[s] \in TimerIds /\ UNCHANGED registration
        BY <1>2, <3>3 DEF PollUpdatesWaker, update_waker, Registered
      <4>2. registrations[registration[s]].deadline = deadline[s]
        BY <4>1, AlarmFacts
      <4>3. registrations'[registration[s]] = [deadline |-> deadline[s], waker |-> poller]
        BY <3>3, <4>1, <4>2 DEF PollUpdatesWaker, update_waker, IndInv, TypeOK
      <4> QED BY <3>1, <4>1, <4>3 DEF Alarm, Registered
    <3> QED BY <1>11, <3>2, <3>3
  <2>4. Contract!Set(s, deadline[s], poller)
    BY <1>1, <1>a, <1>6, <2>1, <2>2, <2>3 DEF Contract!Set
  <2> QED BY <1>1, <2>1, <2>4 DEF Contract!Next, Contract!Serve
<1> QED BY <1>7, <1>8, <1>9, <1>10, <1>11
-----------------------------------------------------------------------------
\* Every step is one of the contract, or invisible to the tasks.
LEMMA ContractStep ==
  ASSUME "panic" \notin CustomWakers, IndInv, IndInv', [Next]_vars
  PROVE  [Contract!Next]_(Contract!vars)
<1> USE DEF clock, driver, sleeps, thread
<1>0. ASSUME UNCHANGED <<registrations, registration>>
      PROVE  [s \in Sleeps |-> Alarm(s)]' = [s \in Sleeps |-> Alarm(s)]
  BY <1>0 DEF Alarm, Registered
<1>1. CASE ProcessExpired
  BY <1>1, ExpiryGoesOff
<1>2. ASSUME NEW s \in Sleeps, NEW d \in Time,
             \/ NewSleep(s, d) \/ Reset(s, d) \/ DropSleep(s)
             \/ PollElapsed(s) \/ PollRegisters(s) \/ PollUpdatesWaker(s)
      PROVE  [Contract!Next]_(Contract!vars)
  BY <1>2, SleepStep
<1>3. CASE \/ RecvTimeout \/ Pause \/ Resume \/ UNCHANGED vars
           \/ \E task \in Tasks : CallWaker(task)
  <2>1. UNCHANGED <<now, alive, woken \union firing, pc # "out">>
    BY <1>3 DEF RecvTimeout, NothingBefore, Pause, Resume, vars, CallWaker
  <2>2. UNCHANGED <<registrations, registration>>
    BY <1>3 DEF RecvTimeout, NothingBefore, Pause, Resume, vars, CallWaker
  <2> QED BY <1>0, <2>1, <2>2 DEF Contract!vars
<1>4. CASE BlockOn \/ EndPoll
  <2>1. UNCHANGED <<now, alive, registrations, registration, woken, firing>>
    BY <1>4 DEF BlockOn, EndPoll
  <2> QED BY <1>0, <2>1 DEF Contract!Next, Contract!StartOrStop, Contract!vars
<1>5. CASE Tick \/ Advance \/ AdvanceIfPaused
  <2>1. /\ UNCHANGED <<alive, registrations, registration, woken, firing>>
        /\ now' = now \/ (now' > now /\ (pc' = "out" <=> pc = "out"))
    <3>1. now \in Nat /\ now' \in Nat
      BY NoneIsNothing DEF IndInv, TypeOK
    <3> QED BY <1>5, <3>1
       DEF Tick, Advance, AdvanceIfPaused, NothingBefore, advance_to_allowed
  <2>2. CASE now' = now
    BY <1>0, <2>1, <2>2 DEF Contract!Next, Contract!StartOrStop, Contract!vars
  <2>3. CASE now' > now /\ (pc' = "out" <=> pc = "out")
    <3>1. Contract!TimePasses
      BY <1>0, <2>1, <2>3 DEF Contract!TimePasses
    <3> QED BY <2>3, <3>1 DEF Contract!Next, Contract!Serve
  <2> QED BY <2>1, <2>2, <2>3
<1>6. ASSUME NEW task \in Tasks, TakeId(task) \/ Wake(task)
      PROVE  [Contract!Next]_(Contract!vars)
  <2>1. UNCHANGED <<now, alive, registrations, registration, pc # "out">>
    BY <1>6 DEF TakeId, Wake
  <2>2. CASE TakeId(task)
    <3>1. woken' \union firing' = (woken \union firing) \ {task}
      BY <2>2 DEF TakeId, IndInv, TypeOK
    <3>2. Contract!Poll(task)
      BY <1>0, <2>1, <3>1 DEF Contract!Poll
    <3> QED BY <2>1, <3>2 DEF Contract!Next, Contract!Serve
  <2>3. CASE Wake(task)
    <3>1. woken' \union firing' = (woken \union firing) \union {task}
      BY <2>3 DEF Wake
    <3>2. Contract!Wake(task)
      BY <1>0, <2>1, <3>1 DEF Contract!Wake
    <3> QED BY <2>1, <3>2 DEF Contract!Next, Contract!Serve
  <2> QED BY <1>6, <2>2, <2>3
<1>7. ~WakerPanics
  BY DEF WakerPanics
<1> QED
  <2>1. \E d \in Time : TRUE
    BY TimersAssumption DEF Time
  <2> QED BY <1>1, <1>2, <1>3, <1>4, <1>5, <1>6, <1>7, <2>1 DEF Next

\* The heap with its stale entries, the ids and the fired registrations
\* implement one alarm per pending sleep, which goes off once, at its latest
\* deadline, with the latest waker.
THEOREM ImplementsTimerContract ==
  "panic" \notin CustomWakers /\ SafeSpec => KeepsTimerContract
<1> SUFFICES ASSUME "panic" \notin CustomWakers
             PROVE  SafeSpec => KeepsTimerContract
  OBVIOUS
<1>1. Init => Contract!Init
  BY DEF Init, NewClock, Contract!Init, Alarm, Registered
<1>2. IndInv /\ IndInv' /\ [Next]_vars => [Contract!Next]_(Contract!vars)
  BY ContractStep
<1> QED BY <1>1, <1>2, Inductive, PTL DEF SafeSpec, KeepsTimerContract, Contract!SafeSpec
=============================================================================
