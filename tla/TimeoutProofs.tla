---------------------------- MODULE TimeoutProofs ----------------------------
(***************************************************************************)
(* Proofs about Timeout for any timeouts, tasks, durations and times.      *)
(***************************************************************************)
EXTENDS Timeout, TLAPS

LEMMA NoneIsNothing ==
  /\ \A d \in Time, task \in Tasks : [deadline |-> d, waker |-> task] # None
  /\ \A task \in Tasks : task # None
  /\ \A s \in Timeouts : s # None
<1>1. Time \subseteq Nat
  BY TimeoutAssumption DEF Time
<1>2. \A d \in Time, task \in Tasks :
        [deadline |-> d, waker |-> task] \in [deadline : Nat, waker : Tasks]
  BY <1>1
<1> QED BY <1>2, TimeoutAssumption

\* A timeout begins with a deadline in the range of Instant.
LEMMA NewDeadline ==
  ASSUME NEW s \in Timeouts,
         (\E duration \in Durations : timeout(s, duration)) \/ (\E d \in Time : timeout_at(s, d))
  PROVE  \E d \in Time : New(s, d)
BY DEF timeout, timeout_at, deadline_after_allowed

LEMMA TypeStep ==
  ASSUME TypeOK, PollsArmAsTheyGo, [Next]_vars
  PROVE  TypeOK'
<1> USE NoneIsNothing, TimeoutAssumption
<1>1. ASSUME NEW s \in Timeouts, NEW d \in Time, New(s, d)
      PROVE  TypeOK'
  BY <1>1 DEF New, UserCode, TypeOK, polling, Outcome, Timer!Create
<1>2. ASSUME NEW s \in Timeouts, PollFutureReady(s) \/ TakePanicsReady(s) \/ DropTimeout(s)
      PROVE  TypeOK'
  <2>1. /\ futures' = futures \ {s} /\ ready' = ready \ {s}
        /\ waker' = [waker EXCEPT ![s] = None]
        /\ \E o \in Outcome : outcome' = [outcome EXCEPT ![s] = o]
        /\ alive' \subseteq alive /\ (alarm' = alarm \/ alarm' = [alarm EXCEPT ![s] = None])
        /\ half = None
        /\ UNCHANGED <<now, woken, deadline, awaiter, poller, polled, offered, half>>
    BY <1>2 DEF PollFutureReady, TakePanicsReady, TakePanics, DropTimeout, UserCode, TakeBoth,
                DropFuture, polling, timer, Outcome, Timer!Drop
  <2> QED BY <2>1 DEF TypeOK
<1>3. ASSUME NEW s \in Timeouts, PollFuturePending(s)
      PROVE  TypeOK'
  BY <1>3 DEF PollFuturePending, UserCode, TypeOK, timer
<1>4. CASE PollSleepReady \/ TakePanicsElapsed
  <2>1. half \in Timeouts
    BY <1>4 DEF PollSleepReady, TakePanicsElapsed, TypeOK
  <2>2. /\ futures' = futures \ {half} /\ ready' = ready \ {half}
        /\ waker' = [waker EXCEPT ![half] = None]
        /\ \E o \in Outcome : outcome' = [outcome EXCEPT ![half] = o]
        /\ alive' \subseteq alive /\ alarm' = [alarm EXCEPT ![half] = None]
        /\ half' = None
        /\ UNCHANGED <<now, woken, deadline, awaiter, poller, polled, offered>>
    BY <1>4 DEF PollSleepReady, TakePanicsElapsed, TakePanics, TakeBoth, DropFuture, Outcome,
                Timer!Drop
  <2> QED BY <2>1, <2>2 DEF TypeOK
<1>5. CASE PollSleepPending
  <2>1. half \in Timeouts /\ poller \in Tasks
    BY <1>5 DEF PollSleepPending, TypeOK, PollsArmAsTheyGo
  <2>2. alarm' = [alarm EXCEPT ![half] = [deadline |-> deadline[half], waker |-> poller]]
    BY <1>5 DEF PollSleepPending, SleepIsPolled, Timer!Set
  <2> QED BY <1>5, <2>1, <2>2 DEF PollSleepPending, SleepIsPolled, TypeOK, parts, Timer!Set
<1>6. ASSUME NEW s \in Timeouts, BecomeReady(s)
      PROVE  TypeOK'
  <2>1. woken' \subseteq Tasks
    BY <1>6 DEF BecomeReady, TypeOK
  <2> QED BY <1>6, <2>1 DEF BecomeReady, TypeOK, polling
<1>7. ASSUME NEW task \in Tasks, BeginPoll(task) \/ Wake(task)
      PROVE  TypeOK'
  BY <1>7 DEF BeginPoll, Wake, TypeOK, parts, polling, Timer!Poll, Timer!Wake
<1>8. CASE EndPoll
  BY <1>8 DEF EndPoll, UserCode, TypeOK, timer, parts
<1>9. CASE GoOff
  <2>1. woken' \subseteq Tasks
    <3>1. \A s \in Timer!Due : alarm[s].waker \in Tasks
      BY DEF Timer!Due, TypeOK
    <3> QED BY <1>9, <3>1 DEF GoOff, TypeOK, Timer!GoOff
  <2>2. alarm' \in [Timeouts -> [deadline : Time, waker : Tasks] \union {None}]
    BY <1>9 DEF GoOff, TypeOK, Timer!GoOff
  <2> QED BY <1>9, <2>1, <2>2 DEF GoOff, TypeOK, parts, polling, Timer!GoOff
<1>10. CASE Tick
  <2>1. now' \in Time
    BY <1>10 DEF Tick, TypeOK, Time
  <2> QED BY <1>10, <2>1 DEF Tick, TypeOK, parts, polling
<1>11. CASE UNCHANGED vars
  BY <1>11 DEF TypeOK, vars, timer, parts, polling
<1> QED
  BY <1>1, <1>2, <1>3, <1>4, <1>5, <1>6, <1>7, <1>8, <1>9, <1>10, <1>11, NewDeadline
  DEF Next, PollTimeout

LEMMA PartsStep ==
  ASSUME TypeOK, PartsLiveTogether, [Next]_vars
  PROVE  PartsLiveTogether'
<1> USE NoneIsNothing
<1>1. ASSUME NEW s \in Timeouts, NEW d \in Time, New(s, d)
      PROVE  PartsLiveTogether'
  BY <1>1 DEF New, TypeOK, PartsLiveTogether, Timer!Create
<1>2. ASSUME NEW s \in Timeouts, TakeBoth(s), NEW o \in Outcome \ {"live", "torn"},
             outcome' = [outcome EXCEPT ![s] = o]
      PROVE  PartsLiveTogether'
  BY <1>2 DEF TakeBoth, DropFuture, TypeOK, PartsLiveTogether, Timer!Drop
<1>3. CASE \E s \in Timeouts : PollFutureReady(s) \/ DropTimeout(s)
  <2>1. "ok" \in Outcome \ {"live", "torn"} /\ "dropped" \in Outcome \ {"live", "torn"}
    BY DEF Outcome
  <2> QED BY <1>2, <1>3, <2>1 DEF PollFutureReady, DropTimeout
<1>4. CASE PollSleepReady
  <2>1. "elapsed" \in Outcome \ {"live", "torn"} /\ half \in Timeouts
    BY <1>4 DEF Outcome, PollSleepReady, TypeOK
  <2> QED BY <1>2, <1>4, <2>1 DEF PollSleepReady
<1>5. CASE PollSleepPending
  BY <1>5 DEF PollSleepPending, SleepIsPolled, Timer!Set, TypeOK, parts, PartsLiveTogether
<1>6. CASE GoOff
  BY <1>6 DEF GoOff, Timer!GoOff, TypeOK, parts, PartsLiveTogether
<1>7. CASE UNCHANGED <<futures, alive, alarm, outcome>>
  BY <1>7 DEF PartsLiveTogether
<1>8. CASE (\E task \in Tasks : BeginPoll(task) \/ Wake(task)) \/ Tick \/ EndPoll
  BY <1>7, <1>8 DEF BeginPoll, Wake, Timer!Poll, Timer!Wake, Tick, EndPoll, timer, parts
<1>9. CASE \E s \in Timeouts : PollFuturePending(s) \/ BecomeReady(s)
  BY <1>7, <1>9 DEF PollFuturePending, BecomeReady, timer
<1>10. ASSUME NEW s \in futures, TakePanics(s), alive' = alive,
              alarm' = alarm \/ alarm' = [alarm EXCEPT ![s] = None]
       PROVE  PartsLiveTogether'
  BY <1>10 DEF TakePanics, DropFuture, TypeOK, PartsLiveTogether
<1>11. CASE TakePanicsElapsed \/ \E s \in Timeouts : TakePanicsReady(s)
  BY <1>10, <1>11 DEF TakePanicsElapsed, TakePanicsReady, timer, TypeOK
<1> QED
  BY <1>1, <1>3, <1>4, <1>5, <1>6, <1>7, <1>8, <1>9, <1>11, NewDeadline
  DEF Next, PollTimeout, vars, timer, parts

\* A poll leaves everything of the other timeouts alone.
LEMMA PollStep ==
  ASSUME IndInv, [Next]_vars
  PROVE  PollsArmAsTheyGo' /\ NewTimeoutsAreUntouched'
<1> USE NoneIsNothing DEF IndInv
<1>1. ASSUME NEW s \in Timeouts, NEW d \in Time, New(s, d)
      PROVE  PollsArmAsTheyGo' /\ NewTimeoutsAreUntouched'
  BY <1>1 DEF New, UserCode, polling, Timer!Create, TypeOK, PollsArmAsTheyGo,
              NewTimeoutsAreUntouched, Armed
<1>2. ASSUME NEW s \in Timeouts, DropFuture(s), half' = None, s = half \/ half = None,
             alarm' = alarm \/ alarm' = [alarm EXCEPT ![s] = None], woken' = woken,
             NEW o \in Outcome \ {"none"}, outcome' = [outcome EXCEPT ![s] = o],
             UNCHANGED <<deadline, awaiter, poller, polled, offered>>
      PROVE  PollsArmAsTheyGo' /\ NewTimeoutsAreUntouched'
  BY <1>2 DEF DropFuture, TypeOK, PollsArmAsTheyGo, NewTimeoutsAreUntouched, Armed
<1>o. {"ok", "elapsed", "torn", "dropped"} \subseteq Outcome \ {"none"}
  BY DEF Outcome
<1>3. CASE \E s \in Timeouts : PollFutureReady(s) \/ TakePanicsReady(s) \/ DropTimeout(s)
  BY <1>2, <1>3, <1>o
  DEF PollFutureReady, TakePanicsReady, TakePanics, DropTimeout, TakeBoth, Timer!Drop, UserCode,
      polling, timer
<1>4. CASE PollSleepReady \/ TakePanicsElapsed
  <2>1. half \in Timeouts
    BY <1>4 DEF PollSleepReady, TakePanicsElapsed, TypeOK
  <2> QED BY <1>2, <1>4, <1>o, <2>1
          DEF PollSleepReady, TakePanicsElapsed, TakePanics, TakeBoth, Timer!Drop
<1>5. ASSUME NEW s \in Timeouts, PollFuturePending(s)
      PROVE  PollsArmAsTheyGo' /\ NewTimeoutsAreUntouched'
  <2>1. outcome[s] = "live" /\ s \notin ready
    BY <1>5 DEF PollFuturePending, Completes, PartsLiveTogether
  <2> QED BY <1>5, <2>1 DEF PollFuturePending, UserCode, timer, TypeOK, PollsArmAsTheyGo,
                            NewTimeoutsAreUntouched, Armed
<1>6. CASE PollSleepPending
  <2>1. half \in futures /\ outcome[half] = "live" /\ half' = None
    BY <1>6 DEF PollSleepPending, TypeOK, PartsLiveTogether
  <2>2. /\ alarm' = [alarm EXCEPT ![half] = [deadline |-> deadline[half], waker |-> poller]]
        /\ woken' = woken
    BY <1>6 DEF PollSleepPending, SleepIsPolled, Timer!Set
  <2> QED BY <1>6, <2>1, <2>2 DEF PollSleepPending, parts, TypeOK, PollsArmAsTheyGo,
                                  NewTimeoutsAreUntouched, Armed
<1>7. ASSUME NEW s \in Timeouts, BecomeReady(s)
      PROVE  PollsArmAsTheyGo' /\ NewTimeoutsAreUntouched'
  <2>1. outcome[s] = "live"
    BY <1>7 DEF BecomeReady, PartsLiveTogether
  <2>2. waker[s] # None => waker[s] \in woken'
    BY <1>7 DEF BecomeReady
  <2> QED BY <1>7, <2>1, <2>2 DEF BecomeReady, polling, TypeOK, PollsArmAsTheyGo,
                                  NewTimeoutsAreUntouched, Armed
<1>8. ASSUME NEW task \in Tasks, BeginPoll(task)
      PROVE  PollsArmAsTheyGo' /\ NewTimeoutsAreUntouched'
  BY <1>8 DEF BeginPoll, parts, PollsArmAsTheyGo, NewTimeoutsAreUntouched
<1>9. CASE EndPoll
  BY <1>9 DEF EndPoll, UserCode, timer, parts, PollsArmAsTheyGo, NewTimeoutsAreUntouched
<1>10. CASE GoOff
  BY <1>10 DEF GoOff, parts, polling, PollsArmAsTheyGo, NewTimeoutsAreUntouched
<1>11. CASE UNCHANGED <<parts, polling, alarm>> /\ woken \subseteq woken'
  BY <1>11 DEF parts, polling, PollsArmAsTheyGo, NewTimeoutsAreUntouched, Armed
<1>12. CASE (\E task \in Tasks : Wake(task)) \/ Tick
  BY <1>11, <1>12 DEF Wake, Timer!Wake, Tick
<1> QED
  BY <1>1, <1>3, <1>4, <1>5, <1>6, <1>7, <1>8, <1>9, <1>10, <1>11, <1>12, NewDeadline
  DEF Next, PollTimeout, vars, timer

LEMMA ArmedStep ==
  ASSUME IndInv, [Next]_vars
  PROVE  AwaitersAreArmed'
<1> USE NoneIsNothing DEF IndInv
<1>1. ASSUME NEW s \in Timeouts, NEW d \in Time, New(s, d)
      PROVE  AwaitersAreArmed'
  BY <1>1 DEF New, polling, Timer!Create, TypeOK, NewTimeoutsAreUntouched, AwaitersAreArmed, Armed
<1>2. ASSUME NEW s \in Timeouts, DropFuture(s), woken' = woken,
             alarm' = alarm \/ alarm' = [alarm EXCEPT ![s] = None],
             UNCHANGED <<deadline, awaiter, poller>>
      PROVE  AwaitersAreArmed'
  BY <1>2 DEF DropFuture, TypeOK, AwaitersAreArmed, Armed
<1>3. CASE \E s \in Timeouts : PollFutureReady(s) \/ TakePanicsReady(s) \/ DropTimeout(s)
  BY <1>2, <1>3 DEF PollFutureReady, TakePanicsReady, TakePanics, DropTimeout, TakeBoth,
                    Timer!Drop, polling, timer
<1>4. CASE PollSleepReady \/ TakePanicsElapsed
  BY <1>2, <1>4 DEF PollSleepReady, TakePanicsElapsed, TakePanics, TakeBoth, Timer!Drop, TypeOK
<1>5. ASSUME NEW s \in Timeouts, PollFuturePending(s)
      PROVE  AwaitersAreArmed'
  BY <1>5 DEF PollFuturePending, timer, TypeOK, AwaitersAreArmed, Armed
<1>6. CASE PollSleepPending
  <2>1. half \in futures /\ awaiter[half] = poller
    BY <1>6 DEF PollSleepPending, TypeOK, PollsArmAsTheyGo
  <2> QED BY <1>6, <2>1 DEF PollSleepPending, SleepIsPolled, Timer!Set, parts, TypeOK,
                            AwaitersAreArmed, Armed
\* Who makes the future ready calls the waker of the last poll.
<1>7. ASSUME NEW s \in Timeouts, BecomeReady(s)
      PROVE  AwaitersAreArmed'
  <2>1. waker[s] # None => waker[s] \in woken'
    BY <1>7 DEF BecomeReady
  <2> QED BY <1>7, <2>1 DEF BecomeReady, polling, AwaitersAreArmed, Armed
<1>8. ASSUME NEW task \in Tasks, BeginPoll(task)
      PROVE  AwaitersAreArmed'
  BY <1>8 DEF BeginPoll, Timer!Poll, parts, AwaitersAreArmed, Armed
\* The task that has polled has polled all that it awaits.
<1>9. CASE EndPoll
  BY <1>9 DEF EndPoll, UserCode, timer, parts, PollsArmAsTheyGo, AwaitersAreArmed, Armed
\* An alarm that goes off wakes the task that polled last.
<1>10. CASE GoOff
  <2>1. ASSUME NEW s \in futures, awaiter[s] \notin woken' \union {None, poller}
        PROVE  Armed(s)'
    <3>1. Armed(s)
      BY <1>10, <2>1 DEF GoOff, Timer!GoOff, AwaitersAreArmed
    <3>2. s \notin Timer!Due
      BY <1>10, <2>1, <3>1 DEF GoOff, Timer!GoOff, Armed
    <3> QED BY <1>10, <3>1, <3>2 DEF GoOff, Timer!GoOff, TypeOK, parts, polling, Armed
  <2> QED BY <1>10, <2>1 DEF GoOff, parts, polling, AwaitersAreArmed
<1>11. CASE UNCHANGED <<parts, polling, alarm>> /\ woken \subseteq woken'
  BY <1>11 DEF parts, polling, AwaitersAreArmed, Armed
<1>12. CASE (\E task \in Tasks : Wake(task)) \/ Tick
  BY <1>11, <1>12 DEF Wake, Timer!Wake, Tick
<1> QED
  BY <1>1, <1>3, <1>4, <1>5, <1>6, <1>7, <1>8, <1>9, <1>10, <1>11, <1>12, NewDeadline
  DEF Next, PollTimeout, vars, timer

-----------------------------------------------------------------------------
\* Futures, sleeps, alarms and polls stay consistent.
THEOREM Inductive == SafeSpec => []IndInv
<1>1. Init => IndInv
  <2> SUFFICES ASSUME Init
               PROVE  IndInv
    OBVIOUS
  <2> USE TimeoutAssumption DEF Init
  <2>1. TypeOK
    BY DEF TypeOK, Time, Outcome
  <2>2. PartsLiveTogether /\ PollsArmAsTheyGo /\ NewTimeoutsAreUntouched /\ AwaitersAreArmed
    BY DEF PartsLiveTogether, PollsArmAsTheyGo, NewTimeoutsAreUntouched, AwaitersAreArmed
  <2> QED BY <2>1, <2>2 DEF IndInv
<1>2. IndInv /\ [Next]_vars => IndInv'
  BY TypeStep, PartsStep, PollStep, ArmedStep DEF IndInv
<1> QED BY <1>1, <1>2, PTL DEF SafeSpec

\* The assertion of Timeout::poll on its sleep holds, and nothing outlives
\* the timeout, also when the destructor of the future panics between the two
\* parts.
THEOREM PartsEndTogether == SafeSpec => []PartsLiveTogether
<1>1. IndInv => PartsLiveTogether
  BY DEF IndInv
<1> QED BY <1>1, Inductive, PTL

\* Whatever task polled a timeout last is woken by its future and its alarm.
THEOREM NoWakeupIsLost == SafeSpec => []AwaitersAreArmed
<1>1. IndInv => AwaitersAreArmed
  BY DEF IndInv
<1> QED BY <1>1, Inductive, PTL

\* A future that is ready when a late poll begins is not timed out by it.
THEOREM ReadyBeatsElapsed == SafeSpec => ReadyFutureWins
<1>1. IndInv /\ [Next]_vars
        => [\A s \in Timeouts :
              outcome[s] = "live" /\ outcome'[s] = "elapsed" =>
                s \notin offered /\ now >= deadline[s]]_vars
  <2> SUFFICES ASSUME IndInv, Next, NEW s \in Timeouts,
                      outcome[s] = "live", outcome'[s] = "elapsed"
               PROVE  s \notin offered /\ now >= deadline[s]
    OBVIOUS
  <2> USE DEF IndInv, TypeOK
  <2>1. CASE PollSleepReady
    <3>1. half = s
      BY <2>1 DEF PollSleepReady
    <3> QED BY <2>1, <3>1 DEF PollSleepReady, PollsArmAsTheyGo
  <2>2. ASSUME NEW t \in Timeouts, NEW o, o # "elapsed", outcome' = [outcome EXCEPT ![t] = o]
        PROVE  FALSE
    BY <2>2
  <2>3. CASE TakePanicsElapsed
             \/ \E t \in Timeouts : PollFutureReady(t) \/ TakePanicsReady(t) \/ DropTimeout(t)
    BY <2>2, <2>3 DEF PollFutureReady, TakePanicsReady, TakePanicsElapsed, TakePanics, DropTimeout
  <2>4. CASE \E t \in Timeouts, d \in Time : New(t, d)
    BY <2>2, <2>4 DEF New
  <2>5. CASE UNCHANGED outcome
    BY <2>5
  <2> QED
    BY <2>1, <2>3, <2>4, <2>5, NewDeadline
    DEF Next, PollTimeout, PollFuturePending, PollSleepPending, BecomeReady, BeginPoll, Wake,
        EndPoll, GoOff, Tick, parts
<1> QED BY <1>1, Inductive, PTL DEF SafeSpec, ReadyFutureWins
=============================================================================
