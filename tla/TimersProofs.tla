----------------------------- MODULE TimersProofs -----------------------------
(***************************************************************************)
(* Proofs about Timers, for any sleeps, tasks and bounds.                  *)
(***************************************************************************)
EXTENDS Timers, WellFoundedInduction, TLAPS

\* A set of numbers has a least element: which of several registrations with
\* the same deadline is at the top of the heap.
LEMMA LeastNumber ==
  ASSUME NEW S, S \subseteq Nat, S # {}
  PROVE  \E x \in S : \A y \in S : x <= y
<1> DEFINE R == OpToRel(<, Nat)
<1>1. IsWellFoundedOn(R, Nat)
  BY NatLessThanWellFounded
<1>2. \A x, y \in Nat : x < y => <<x, y>> \in R
  BY DEF OpToRel
<1> HIDE DEF R
<1>3. PICK x \in S : \A y \in S : ~ (<<y, x>> \in R)
  BY <1>1, WFMin
<1>4. ASSUME NEW y \in S
      PROVE  x <= y
  <2>1. ~ (y < x)
    BY <1>2, <1>3
  <2> QED BY <2>1
<1> QED BY <1>4

\* None cannot be mistaken for a registration, a task or a timer id.
LEMMA NoneIsNothing ==
  /\ None \notin Registration
  /\ None \notin Tasks
  /\ \A id \in Nat : id # None
  /\ TimerIds \subseteq Nat
  /\ Time \subseteq Nat
  BY TimersAssumption DEF Registration, Time, TimerIds

\* The typing part of the induction.
LEMMA TypeStep == IndInv /\ [Next]_vars => TypeOK'
<1> SUFFICES ASSUME TypeOK, RegistrationsBelongToSleeps, [Next]_vars
             PROVE  TypeOK'
  BY DEF IndInv
<1> USE TimersAssumption, NoneIsNothing DEF TypeOK, clock, driver, sleeps, thread
<1>1. CASE BlockOn
  BY <1>1 DEF BlockOn
<1>2. CASE ProcessExpired
  BY <1>2 DEF ProcessExpired, Registration
<1>3. CASE AdvanceIfPaused
  BY <1>3 DEF AdvanceIfPaused, NothingBefore, Pruned
<1>4. CASE RecvTimeout
  BY <1>4 DEF RecvTimeout, NothingBefore, Pruned
<1>5. CASE EndPoll
  BY <1>5 DEF EndPoll
<1>6. ASSUME NEW task \in Tasks, CallWaker(task)
      PROVE  TypeOK'
  BY <1>6 DEF CallWaker
<1>7. ASSUME NEW task \in Tasks, TakeId(task)
      PROVE  TypeOK'
  BY <1>7 DEF TakeId
<1>8. ASSUME NEW task \in Tasks, Wake(task)
      PROVE  TypeOK'
  BY <1>8 DEF Wake
<1>9. CASE WakerPanics
  BY <1>9 DEF WakerPanics
<1>10. ASSUME NEW s \in Sleeps, NEW d \in Time, NewSleep(s, d)
       PROVE  TypeOK'
  BY <1>10 DEF NewSleep
<1>11. ASSUME NEW s \in Sleeps, NEW d \in Time, Reset(s, d)
       PROVE  TypeOK'
  BY <1>11 DEF Reset, reschedule, Registered, Registration
<1>12. ASSUME NEW s \in Sleeps, PollElapsed(s)
       PROVE  TypeOK'
  BY <1>12 DEF PollElapsed, cancel
<1>13. ASSUME NEW s \in Sleeps, PollRegisters(s)
       PROVE  TypeOK'
  <2>1. poller \in Tasks /\ deadline[s] \in Time
    BY <1>13 DEF PollRegisters, Polls
  <2> QED BY <1>13, <2>1 DEF PollRegisters, register, Registration, TimerIds
<1>14. ASSUME NEW s \in Sleeps, PollUpdatesWaker(s)
       PROVE  TypeOK'
  <2>1. registrations[registration[s]] \in Registration
    BY <1>14 DEF PollUpdatesWaker, update_waker, TimerIds
  <2> QED BY <1>14, <2>1 DEF PollUpdatesWaker, update_waker, Registration, Polls
<1>15. ASSUME NEW s \in Sleeps, DropSleep(s)
       PROVE  TypeOK'
  BY <1>15 DEF DropSleep, cancel, Time
<1>16. CASE Tick
  BY <1>16 DEF Tick, Time
<1>17. CASE Pause \/ Resume \/ Advance
  <2>1. now' \in Time
    BY <1>17 DEF Pause, Resume, Advance, Time
  <2>2. paused' \in BOOLEAN
    BY <1>17 DEF Pause, Resume, Advance
  <2> QED BY <1>17, <2>1, <2>2 DEF Pause, Resume, Advance
<1>18. CASE UNCHANGED vars
  BY <1>18 DEF vars
<1> QED
  BY <1>1, <1>2, <1>3, <1>4, <1>5, <1>6, <1>7, <1>8, <1>9, <1>10, <1>11, <1>12,
     <1>13, <1>14, <1>15, <1>16, <1>17, <1>18 DEF Next
-----------------------------------------------------------------------------
\* What the sleeps and the driver know of each other.
DriverInv ==
  /\ HeapCoversRegistrations
  /\ RegistrationsBelongToSleeps
  /\ FiredSleepsHaveElapsed
  /\ DroppedSleepsHoldNothing

\* A step that leaves sleeps and registrations alone, at a later time, and
\* removes at most stale entries from the heap.
Quiet ==
  /\ UNCHANGED <<registrations, next_id, alive, deadline, registration>>
  /\ now' >= now
  /\ \A entry \in deadlines : IsCurrent(entry) => entry \in deadlines'

\* The entry of a registration in the heap is current.
LEMMA CoveredIsCurrent ==
  ASSUME TypeOK, HeapCoversRegistrations, NEW id \in TimerIds, registrations[id] # None
  PROVE  LET entry == <<registrations[id].deadline, id>>
         IN  entry \in deadlines /\ IsCurrent(entry)
  BY DEF HeapCoversRegistrations, IsCurrent

\* A sleep holds no id but those of registrations.
LEMMA SleepsHoldTimerIds ==
  ASSUME TypeOK, NEW s \in Sleeps, registration[s] # None
  PROVE  registration[s] \in TimerIds
  BY TimersAssumption DEF TypeOK, TimerIds

LEMMA QuietStep == TypeOK /\ TypeOK' /\ DriverInv /\ Quiet => DriverInv'
<1> SUFFICES ASSUME TypeOK, TypeOK', DriverInv, Quiet
             PROVE  DriverInv'
  OBVIOUS
<1>1. HeapCoversRegistrations'
  BY CoveredIsCurrent DEF DriverInv, Quiet, HeapCoversRegistrations
<1>2. RegistrationsBelongToSleeps'
  BY DEF DriverInv, Quiet, RegistrationsBelongToSleeps, Registered
<1>3. FiredSleepsHaveElapsed'
  <2>1. now \in Nat /\ now' >= now /\ \A s \in Sleeps : deadline[s] \in Nat
    BY NoneIsNothing DEF TypeOK, Quiet
  <2>2. \A s \in Sleeps :
          /\ registration'[s] = registration[s] /\ deadline'[s] = deadline[s]
          /\ Registered(s)' <=> Registered(s)
    BY DEF Quiet, Registered
  <2>3. now' \in Nat
    BY NoneIsNothing DEF TypeOK
  <2> QED BY <2>1, <2>2, <2>3 DEF DriverInv, FiredSleepsHaveElapsed
<1>4. DroppedSleepsHoldNothing'
  BY DEF DriverInv, Quiet, DroppedSleepsHoldNothing
<1> QED BY <1>1, <1>2, <1>3, <1>4 DEF DriverInv

\* process_expired fires sleeps whose deadline has come.
LEMMA ExpiryStep == TypeOK /\ DriverInv /\ ProcessExpired => DriverInv'
<1> SUFFICES ASSUME TypeOK, DriverInv, ProcessExpired
             PROVE  DriverInv'
  OBVIOUS
<1>1. \A id \in TimerIds :
        \/ registrations'[id] = registrations[id]
        \/ /\ registrations'[id] = None
           /\ registrations[id] # None /\ registrations[id].deadline <= now
  <2> TAKE id \in TimerIds
  <2>1. CASE registrations[id] # None /\ Fires(id)
    <3>1. PICK d \in 0 .. now : IsCurrent(<<d, id>>)
      BY <2>1 DEF Fires
    <3>2. registrations[id].deadline <= now
      BY <3>1, NoneIsNothing DEF IsCurrent, TypeOK
    <3> QED BY <2>1, <3>2 DEF ProcessExpired
  <2>2. CASE ~(registrations[id] # None /\ Fires(id))
    BY <2>2 DEF ProcessExpired
  <2> QED BY <2>1, <2>2
<1>2. \A id \in TimerIds :
        registrations'[id] # None => registrations[id].deadline > now
  <2> SUFFICES ASSUME NEW id \in TimerIds, registrations[id] # None,
                      ~(registrations[id].deadline > now)
               PROVE  Fires(id)
    BY DEF ProcessExpired
  <2>1. registrations[id].deadline \in 0 .. now
    BY NoneIsNothing DEF TypeOK, Registration
  <2> QED BY <2>1, CoveredIsCurrent DEF Fires, DriverInv
<1>3. UNCHANGED <<now, next_id, sleeps>>
  BY DEF ProcessExpired, clock
<1>4. HeapCoversRegistrations'
  <2> SUFFICES ASSUME NEW id \in TimerIds, registrations'[id] # None
               PROVE  <<registrations'[id].deadline, id>> \in deadlines'
    BY DEF HeapCoversRegistrations
  <2>1. registrations'[id] = registrations[id] /\ registrations[id].deadline > now
    BY <1>1, <1>2
  <2>2. <<registrations[id].deadline, id>> \in deadlines
    BY <2>1 DEF DriverInv, HeapCoversRegistrations
  <2> QED BY <2>1, <2>2 DEF ProcessExpired
<1>5. \A s \in Sleeps : /\ registration'[s] = registration[s]
                        /\ registration[s] # None => registration[s] \in TimerIds
                        /\ Registered(s)' =>
                             /\ Registered(s)
                             /\ registrations'[registration[s]] = registrations[registration[s]]
  BY <1>1, <1>3, SleepsHoldTimerIds DEF Registered, sleeps
<1>6. RegistrationsBelongToSleeps'
  BY <1>1, <1>3, <1>5
  DEF DriverInv, RegistrationsBelongToSleeps, Registered, sleeps
<1>7. FiredSleepsHaveElapsed'
  BY <1>1, <1>3, <1>5
  DEF DriverInv, FiredSleepsHaveElapsed, RegistrationsBelongToSleeps, Registered, sleeps
<1>8. DroppedSleepsHoldNothing'
  BY <1>3 DEF DriverInv, DroppedSleepsHoldNothing, sleeps
<1> QED BY <1>4, <1>6, <1>7, <1>8 DEF DriverInv

\* Dropping a registration together with the id that the sleep holds.
LEMMA ForgetStep ==
  ASSUME TypeOK, DriverInv, NEW s \in Sleeps,
         registration' = [registration EXCEPT ![s] = None],
         cancel(registration[s]), now' = now,
         \A t \in Sleeps \ {s} : deadline'[t] = deadline[t] /\ (t \in alive' <=> t \in alive)
  PROVE  DriverInv'
<1> USE DEF DriverInv
<1>1. \A id \in TimerIds :
        registrations'[id] = IF id = registration[s] THEN None ELSE registrations[id]
  BY DEF cancel
<1>2. registration'[s] = None /\ \A t \in Sleeps \ {s} : registration'[t] = registration[t]
  BY DEF TypeOK
<1>3. \A t \in Sleeps : registration[t] # None => registration[t] \in TimerIds
  BY SleepsHoldTimerIds
<1>4. \A t \in Sleeps \ {s} : registration[t] = registration[s] => registration[t] = None
  BY DEF RegistrationsBelongToSleeps
<1>5. \A t \in Sleeps \ {s} : registration[t] # None =>
        registrations'[registration[t]] = registrations[registration[t]]
  BY <1>1, <1>3, <1>4
<1>6. HeapCoversRegistrations'
  BY <1>1 DEF HeapCoversRegistrations, cancel
<1>7. RegistrationsBelongToSleeps'
  BY <1>1, <1>2, <1>5 DEF RegistrationsBelongToSleeps, Registered
<1>8. FiredSleepsHaveElapsed'
  BY <1>2, <1>5 DEF FiredSleepsHaveElapsed, Registered
<1>9. DroppedSleepsHoldNothing'
  BY <1>2 DEF DroppedSleepsHoldNothing
<1> QED BY <1>6, <1>7, <1>8, <1>9

\* The first poll of a sleep registers it under a fresh id.
LEMMA RegisterStep ==
  ASSUME TypeOK, DriverInv, NEW s \in Sleeps, PollRegisters(s)
  PROVE  DriverInv'
<1> USE DEF DriverInv
<1>1. /\ next_id \in TimerIds
      /\ registrations[next_id] = None
      /\ \A t \in Sleeps : registration[t] # next_id
  BY TimersAssumption, NoneIsNothing DEF TypeOK, PollRegisters, register, TimerIds
<1>2. /\ registration' = [registration EXCEPT ![s] = next_id]
      /\ registration[s] = None
      /\ s \in alive
      /\ UNCHANGED <<now, alive, deadline>>
  BY DEF PollRegisters, Polls, clock
<1>3. [deadline |-> deadline[s], waker |-> poller] \in Registration
  BY DEF TypeOK, PollRegisters, Polls, Registration
<1> DEFINE new == [deadline |-> deadline[s], waker |-> poller]
<1>4. /\ registrations' = [registrations EXCEPT ![next_id] = new]
      /\ deadlines' = deadlines \union {<<new.deadline, next_id>>}
      /\ new # None /\ new.deadline = deadline[s]
  BY <1>3, NoneIsNothing DEF PollRegisters, register
<1> HIDE DEF new
<1>5. /\ registrations'[next_id] = new
      /\ \A id \in TimerIds \ {next_id} : registrations'[id] = registrations[id]
  BY <1>1, <1>4 DEF TypeOK
<1>6. /\ registration'[s] = next_id
      /\ \A t \in Sleeps \ {s} : registration'[t] = registration[t]
  BY <1>2 DEF TypeOK
<1>7. \A t \in Sleeps : registration[t] # None => registration[t] \in TimerIds \ {next_id}
  BY <1>1, SleepsHoldTimerIds
<1>8. HeapCoversRegistrations'
  BY <1>4, <1>5 DEF HeapCoversRegistrations
<1>9. RegistrationsBelongToSleeps'
  <2>1. \A t, u \in Sleeps :
          registration'[t] = registration'[u] => t = u \/ registration'[t] = None
    BY <1>6, <1>7 DEF RegistrationsBelongToSleeps
  <2>2. \A t \in Sleeps : Registered(t)' =>
          t \in alive' /\ registrations'[registration'[t]].deadline = deadline'[t]
    BY <1>2, <1>4, <1>5, <1>6, <1>7 DEF RegistrationsBelongToSleeps, Registered
  <2>3. \A id \in TimerIds :
          registrations'[id] # None => \E t \in Sleeps : registration'[t] = id
    BY <1>2, <1>5, <1>6, NoneIsNothing DEF RegistrationsBelongToSleeps
  <2> QED BY <2>1, <2>2, <2>3 DEF RegistrationsBelongToSleeps
<1>10. FiredSleepsHaveElapsed'
  BY <1>2, <1>4, <1>5, <1>6, <1>7 DEF FiredSleepsHaveElapsed, Registered
<1>11. DroppedSleepsHoldNothing'
  BY <1>2, <1>6 DEF DroppedSleepsHoldNothing
<1> QED BY <1>8, <1>9, <1>10, <1>11

\* A registration changes its waker, or its deadline together with the sleep.
LEMMA MoveStep ==
  ASSUME TypeOK, DriverInv, NEW s \in Sleeps, Registered(s), NEW new \in Registration,
         registrations' = [registrations EXCEPT ![registration[s]] = new],
         deadlines' = deadlines \union {<<new.deadline, registration[s]>>},
         deadline' = [deadline EXCEPT ![s] = new.deadline],
         UNCHANGED <<now, alive, registration>>
  PROVE  DriverInv'
<1> USE DEF DriverInv
<1>1. registration[s] \in TimerIds /\ new # None
  BY SleepsHoldTimerIds, NoneIsNothing DEF Registered
<1>2. /\ registrations'[registration[s]] = new
      /\ \A id \in TimerIds \ {registration[s]} : registrations'[id] = registrations[id]
  BY <1>1 DEF TypeOK
<1>3. /\ deadline'[s] = new.deadline
      /\ \A t \in Sleeps \ {s} : deadline'[t] = deadline[t]
  BY DEF TypeOK
<1>4. \A t \in Sleeps \ {s} : registration[t] # None =>
        registration[t] \in TimerIds \ {registration[s]}
  BY <1>1, SleepsHoldTimerIds DEF RegistrationsBelongToSleeps
<1>5. \A t \in Sleeps : Registered(t)' <=> Registered(t)
  BY <1>1, <1>2, <1>4 DEF Registered
<1>6. HeapCoversRegistrations'
  BY <1>1, <1>2 DEF HeapCoversRegistrations
<1>7. RegistrationsBelongToSleeps'
  BY <1>1, <1>2, <1>3, <1>4, <1>5 DEF RegistrationsBelongToSleeps, Registered
<1>8. FiredSleepsHaveElapsed'
  BY <1>3, <1>5 DEF FiredSleepsHaveElapsed
<1>9. DroppedSleepsHoldNothing'
  BY DEF DroppedSleepsHoldNothing
<1> QED BY <1>6, <1>7, <1>8, <1>9

\* The part of the induction about sleeps and driver, action by action.
LEMMA DriverStep == TypeOK /\ TypeOK' /\ DriverInv /\ [Next]_vars => DriverInv'
<1> SUFFICES ASSUME TypeOK, TypeOK', DriverInv, [Next]_vars
             PROVE  DriverInv'
  OBVIOUS
<1> USE DEF clock, driver, sleeps, thread
<1>n. now \in Nat /\ now' \in Nat
  BY NoneIsNothing DEF TypeOK
<1>1. CASE ProcessExpired
  BY <1>1, ExpiryStep
<1>2. CASE AdvanceIfPaused \/ RecvTimeout
  <2>1. \A entry \in deadlines : IsCurrent(entry) => entry \in deadlines'
    BY <1>2 DEF AdvanceIfPaused, RecvTimeout, NothingBefore, Pruned
  <2>2. now' >= now
    BY <1>2, <1>n DEF AdvanceIfPaused, RecvTimeout, NothingBefore, advance_to_allowed
  <2>3. Quiet
    BY <1>2, <2>1, <2>2 DEF Quiet, AdvanceIfPaused, RecvTimeout, NothingBefore
  <2> QED BY <2>3, QuietStep
<1>3. CASE \/ BlockOn \/ EndPoll \/ WakerPanics \/ UNCHANGED vars
           \/ \E task \in Tasks : CallWaker(task) \/ TakeId(task) \/ Wake(task)
           \/ Tick \/ Pause \/ Resume \/ Advance
  <2>1. UNCHANGED <<driver, sleeps>>
    BY <1>3 DEF BlockOn, EndPoll, WakerPanics, vars, CallWaker, TakeId, Wake,
                Tick, Pause, Resume, Advance
  <2>2. now' >= now
    BY <1>3, <1>n DEF BlockOn, EndPoll, WakerPanics, vars, CallWaker, TakeId, Wake,
                      Tick, Pause, Resume, Advance
  <2> QED BY <2>1, <2>2, QuietStep DEF Quiet
<1>4. ASSUME NEW s \in Sleeps, NEW d \in Time, NewSleep(s, d)
      PROVE  DriverInv'
  <2>1. /\ registration[s] = None
        /\ UNCHANGED <<now, driver, registration>>
        /\ alive' = alive \union {s}
        /\ deadline' = [deadline EXCEPT ![s] = d]
    BY <1>4 DEF NewSleep, DriverInv, DroppedSleepsHoldNothing
  <2>2. \A t \in Sleeps : Registered(t)' <=> Registered(t)
    BY <2>1 DEF Registered
  <2>3. \A t \in Sleeps : registration[t] # None => deadline'[t] = deadline[t]
    BY <2>1 DEF TypeOK
  <2>4. HeapCoversRegistrations' /\ RegistrationsBelongToSleeps'
    BY <2>1, <2>2, <2>3
    DEF DriverInv, HeapCoversRegistrations, RegistrationsBelongToSleeps, Registered
  <2>5. FiredSleepsHaveElapsed' /\ DroppedSleepsHoldNothing'
    BY <2>1, <2>2, <2>3 DEF DriverInv, FiredSleepsHaveElapsed, DroppedSleepsHoldNothing
  <2> QED BY <2>4, <2>5 DEF DriverInv
<1>5. ASSUME NEW s \in Sleeps, NEW d \in Time, Reset(s, d)
      PROVE  DriverInv'
  <2>1. CASE Registered(s)
    <3> DEFINE new == [deadline |-> d, waker |-> registrations[registration[s]].waker]
    <3>1. registrations[registration[s]] \in Registration
      BY <2>1, SleepsHoldTimerIds DEF TypeOK, Registered
    <3>2. new \in Registration /\ new.deadline = d
      BY <3>1 DEF Registration
    <3>3. /\ registrations' = [registrations EXCEPT ![registration[s]] = new]
          /\ deadlines' = deadlines \union {<<d, registration[s]>>}
          /\ deadline' = [deadline EXCEPT ![s] = d]
          /\ UNCHANGED <<now, alive, registration>>
      BY <1>5, <2>1 DEF Reset, reschedule
    <3> HIDE DEF new
    <3> QED BY <2>1, <3>2, <3>3, MoveStep
  <2>2. CASE ~Registered(s)
    <3>1. /\ registration' = [registration EXCEPT ![s] = None]
          /\ deadline' = [deadline EXCEPT ![s] = d]
          /\ UNCHANGED <<now, alive, driver>>
      BY <1>5, <2>2 DEF Reset
    <3>2. registration'[s] = None /\ \A t \in Sleeps \ {s} : registration'[t] = registration[t]
      BY <3>1 DEF TypeOK
    <3>3. \A t \in Sleeps \ {s} : deadline'[t] = deadline[t]
      BY <3>1 DEF TypeOK
    <3>4. \A id \in TimerIds : registrations[id] # None => registration[s] # id
      BY <2>2, NoneIsNothing DEF Registered
    <3>5. HeapCoversRegistrations'
      BY <3>1 DEF DriverInv, HeapCoversRegistrations
    <3>6. RegistrationsBelongToSleeps'
      BY <3>1, <3>2, <3>3, <3>4 DEF DriverInv, RegistrationsBelongToSleeps, Registered
    <3>7. FiredSleepsHaveElapsed' /\ DroppedSleepsHoldNothing'
      BY <3>1, <3>2, <3>3
      DEF DriverInv, FiredSleepsHaveElapsed, DroppedSleepsHoldNothing, Registered
    <3> QED BY <3>5, <3>6, <3>7 DEF DriverInv
  <2> QED BY <2>1, <2>2
<1>6. ASSUME NEW s \in Sleeps, PollElapsed(s)
      PROVE  DriverInv'
  BY <1>6, ForgetStep DEF PollElapsed
<1>7. ASSUME NEW s \in Sleeps, PollRegisters(s)
      PROVE  DriverInv'
  BY <1>7, RegisterStep
<1>8. ASSUME NEW s \in Sleeps, PollUpdatesWaker(s)
      PROVE  DriverInv'
  <2> DEFINE new == [deadline |-> deadline[s], waker |-> poller]
  <2>1. Registered(s) /\ registration[s] \in TimerIds
    BY <1>8, SleepsHoldTimerIds DEF PollUpdatesWaker, update_waker, Registered
  <2>2. registrations[registration[s]].deadline = deadline[s]
    BY <2>1 DEF DriverInv, RegistrationsBelongToSleeps
  <2>3. new \in Registration /\ new.deadline = deadline[s]
    BY <1>8 DEF PollUpdatesWaker, Polls, TypeOK, Registration
  <2>4. registrations' = [registrations EXCEPT ![registration[s]] = new]
    BY <1>8, <2>2 DEF PollUpdatesWaker, update_waker
  <2>5. <<deadline[s], registration[s]>> \in deadlines
    BY <2>1, <2>2 DEF DriverInv, HeapCoversRegistrations, Registered
  <2>6. /\ deadlines' = deadlines \union {<<deadline[s], registration[s]>>}
        /\ deadline' = [deadline EXCEPT ![s] = deadline[s]]
        /\ UNCHANGED <<now, alive, registration>>
    BY <1>8, <2>5 DEF PollUpdatesWaker, update_waker, TypeOK
  <2> HIDE DEF new
  <2> QED BY <2>1, <2>3, <2>4, <2>6, MoveStep
<1>9. ASSUME NEW s \in Sleeps, DropSleep(s)
      PROVE  DriverInv'
  <2>1. \A t \in Sleeps \ {s} : deadline'[t] = deadline[t] /\ (t \in alive' <=> t \in alive)
    BY <1>9 DEF DropSleep, TypeOK
  <2> QED BY <1>9, <2>1, ForgetStep DEF DropSleep
<1> QED
  BY <1>1, <1>2, <1>3, <1>4, <1>5, <1>6, <1>7, <1>8, <1>9 DEF Next

\* No timer comes due in a round of a paused clock once they were expired.
LEMMA PausedStep == IndInv /\ TypeOK' /\ [Next]_vars => PausedRoundsAreAhead'
<1> SUFFICES ASSUME TypeOK, HeapCoversRegistrations, PausedRoundsAreAhead, [Next]_vars,
                    "reenter" \notin CustomWakers, paused', pc' \in {"firing", "idle"},
                    NEW id \in TimerIds, registrations'[id] # None
             PROVE  registrations'[id].deadline > now'
  BY DEF IndInv, PausedRoundsAreAhead
<1> USE DEF clock, driver, sleeps, thread
<1>1. CASE ProcessExpired
  <2>1. registrations'[id] = registrations[id] /\ ~Fires(id) /\ now' = now
    BY <1>1 DEF ProcessExpired
  <2>2. registrations[id].deadline \notin 0 .. now
    BY <2>1, CoveredIsCurrent DEF Fires
  <2>3. now \in Nat /\ registrations[id].deadline \in Nat
    BY <2>1, NoneIsNothing DEF TypeOK, Registration
  <2> QED BY <2>1, <2>2, <2>3
<1>2. CASE ~ProcessExpired
  <2>1. ~UserCode => /\ paused /\ pc \in {"firing", "idle"}
                     /\ UNCHANGED <<registrations, now>>
    BY <1>2 DEF Next, vars, UserCode, BlockOn, AdvanceIfPaused, RecvTimeout, NothingBefore,
       EndPoll, CallWaker, TakeId, Wake, WakerPanics, NewSleep, Reset, Tick,
       Pause, Resume, Advance, PollElapsed, PollRegisters, PollUpdatesWaker, DropSleep, Polls
  <2>2. ~UserCode
    BY <1>2 DEF Next, vars, UserCode, BlockOn, AdvanceIfPaused, RecvTimeout, NothingBefore,
       EndPoll, CallWaker, TakeId, Wake, WakerPanics, NewSleep, Reset, Tick,
       Pause, Resume, Advance, PollElapsed, PollRegisters, PollUpdatesWaker, DropSleep, Polls
  <2> QED BY <2>1, <2>2 DEF PausedRoundsAreAhead
<1> QED BY <1>1, <1>2

-----------------------------------------------------------------------------
\* Heap, registrations and sleeps stay consistent, for any number of sleeps,
\* whatever is polled, reset, dropped or woken and however time moves.
THEOREM Inductive == SafeSpec => []IndInv
<1>1. Init => IndInv
  <2> SUFFICES ASSUME Init
               PROVE  IndInv
    OBVIOUS
  <2>1. TypeOK
    <3>1. now \in Time /\ 0 \in Time /\ next_id \in 0 .. MaxTimers
      BY TimersAssumption DEF Init, NewClock, Time
    <3>2. paused \in BOOLEAN
      BY TimersAssumption DEF Init, NewClock
    <3> QED BY <3>1, <3>2 DEF Init, TypeOK
  <2>2. DriverInv /\ PausedRoundsAreAhead
    BY DEF Init, DriverInv, HeapCoversRegistrations, RegistrationsBelongToSleeps,
           FiredSleepsHaveElapsed, DroppedSleepsHoldNothing, Registered, PausedRoundsAreAhead
  <2> QED BY <2>1, <2>2 DEF DriverInv, IndInv
<1>2. IndInv /\ [Next]_vars => IndInv'
  BY TypeStep, DriverStep, PausedStep DEF IndInv, DriverInv
<1> QED BY <1>1, <1>2, PTL DEF SafeSpec

\* A registered timer keeps its own entry in the heap through any number of
\* resets, so it will reach the top.
THEOREM NoTimerIsLost == SafeSpec => []HeapCoversRegistrations
<1>1. IndInv => HeapCoversRegistrations
  BY DEF IndInv
<1> QED BY <1>1, Inductive, PTL

\* No registration is shared, outlives its sleep or has another deadline.
THEOREM SleepsAndDriverAgree == SafeSpec => []RegistrationsBelongToSleeps
<1>1. IndInv => RegistrationsBelongToSleeps
  BY DEF IndInv
<1> QED BY <1>1, Inductive, PTL

\* The `expect` of update_waker cannot fail.
THEOREM WakerUpdateFindsItsTimer == SafeSpec => []FiredSleepsHaveElapsed
<1>1. IndInv => FiredSleepsHaveElapsed
  BY DEF IndInv
<1> QED BY <1>1, Inductive, PTL

\* The entries that next_deadline leaves in the heap and is to choose from.
LEMMA NextDeadlineIsLeast ==
  ASSUME IndInv, NEW d \in Time
  PROVE  IsNextDeadline(d) <=>
           /\ \E id \in TimerIds : registrations[id] # None /\ registrations[id].deadline = d
           /\ \A id \in TimerIds : registrations[id] # None => registrations[id].deadline >= d
<1>t. /\ TypeOK
      /\ HeapCoversRegistrations
      /\ \A entry \in deadlines : /\ entry = <<entry[1], entry[2]>>
                                  /\ entry[1] \in Nat
                                  /\ entry[2] \in TimerIds
      /\ TimerIds \subseteq Nat
      /\ d \in Nat
      /\ \A id \in TimerIds : registrations[id] # None => registrations[id].deadline \in Nat
  BY TimersAssumption, NoneIsNothing DEF IndInv, TypeOK, TimerIds, Registration
<1>1. ASSUME NEW id \in TimerIds, registrations[id] # None
      PROVE  <<registrations[id].deadline, id>> \in Pruned
  BY <1>1, <1>t, CoveredIsCurrent DEF Pruned
<1>2. ASSUME IsNextDeadline(d)
      PROVE  /\ \E id \in TimerIds : registrations[id] # None /\ registrations[id].deadline = d
             /\ \A id \in TimerIds : registrations[id] # None => registrations[id].deadline >= d
  <2>1. PICK id \in TimerIds :
          <<d, id>> \in Pruned /\ \A entry \in Pruned : ~Earlier(entry, <<d, id>>)
    BY <1>2 DEF IsNextDeadline
  <2>2. PICK top \in deadlines :
          IsCurrent(top) /\ (top = <<d, id>> \/ Earlier(top, <<d, id>>))
    BY <2>1 DEF Pruned
  <2>3. top \in Pruned
    BY <2>2 DEF Pruned
  <2>4. IsCurrent(<<d, id>>)
    BY <2>1, <2>2, <2>3
  <2>5. ASSUME NEW other \in TimerIds, registrations[other] # None
        PROVE  registrations[other].deadline >= d
    <3>1. ~Earlier(<<registrations[other].deadline, other>>, <<d, id>>)
      BY <1>1, <2>1, <2>5
    <3> QED BY <1>t, <2>5, <3>1 DEF Earlier
  <2> QED BY <2>4, <2>5 DEF IsCurrent
<1>3. ASSUME NEW first \in TimerIds, registrations[first] # None,
             registrations[first].deadline = d,
             \A id \in TimerIds : registrations[id] # None => registrations[id].deadline >= d
      PROVE  IsNextDeadline(d)
  <2> DEFINE S == {id \in TimerIds : registrations[id] # None /\ registrations[id].deadline = d}
  <2>1. PICK id \in S : \A other \in S : id <= other
    <3>1. S \subseteq Nat /\ S # {}
      BY <1>t, <1>3
    <3> QED BY <3>1, LeastNumber
  <2>2. <<d, id>> \in Pruned
    BY <1>1, <2>1
  <2>3. ASSUME NEW entry \in Pruned
        PROVE  ~Earlier(entry, <<d, id>>)
    <3>1. PICK top \in deadlines : IsCurrent(top) /\ (top = entry \/ Earlier(top, entry))
      BY <2>3 DEF Pruned
    <3>2. top[2] \in TimerIds /\ registrations[top[2]] # None
            /\ registrations[top[2]].deadline = top[1] /\ top[1] >= d
      BY <1>t, <1>3, <3>1 DEF IsCurrent
    <3>3. top[1] = d => id <= top[2]
      BY <2>1, <3>2
    <3>4. entry \in deadlines
      BY <2>3 DEF Pruned
    <3> QED BY <1>t, <3>1, <3>2, <3>3, <3>4 DEF Earlier
  <2> QED BY <2>1, <2>2, <2>3 DEF IsNextDeadline
<1> QED BY <1>2, <1>3

\* The executor sleeps until the earliest registered deadline, however many
\* stale entries are in the heap.
THEOREM ExecutorWaitsForTheEarliest == SafeSpec => []NextDeadlineIsEarliest
<1>1. IndInv => NextDeadlineIsEarliest
  BY NextDeadlineIsLeast DEF NextDeadlineIsEarliest
<1> QED BY <1>1, Inductive, PTL

\* The assertion of advance_to cannot fail as long as the wakers that a round
\* calls leave the sleeps and the clock alone.
THEOREM AdvanceAssertionHolds ==
  "reenter" \notin CustomWakers /\ SafeSpec => []PausedClockMovesForward
<1> SUFFICES ASSUME "reenter" \notin CustomWakers
             PROVE  SafeSpec => []PausedClockMovesForward
  OBVIOUS
<1>1. IndInv => PausedClockMovesForward
  <2> SUFFICES ASSUME IndInv, pc = "idle", paused, NEW d \in Time, IsNextDeadline(d)
               PROVE  d >= now
    BY DEF PausedClockMovesForward
  <2>1. PICK id \in TimerIds : registrations[id] # None /\ registrations[id].deadline = d
    BY NextDeadlineIsLeast
  <2>2. d > now
    BY <2>1 DEF IndInv, PausedRoundsAreAhead
  <2> QED BY <2>2, NoneIsNothing DEF IndInv, TypeOK
<1> QED BY <1>1, Inductive, PTL
=============================================================================
