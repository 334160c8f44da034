---------------------------- MODULE IntervalProofs ----------------------------
(***************************************************************************)
(* Proofs about Interval for any intervals, tasks, periods, grace and      *)
(* times.                                                                  *)
(***************************************************************************)
EXTENDS Interval, Integers, TLAPS

(* Multiples of a period *)

LEMMA DivMod ==
  ASSUME NEW p \in Nat \ {0}, NEW x \in Int
  PROVE  /\ x = p * (x \div p) + (x % p)
         /\ x % p \in 0 .. p - 1
         /\ x \div p \in Int
OBVIOUS

LEMMA Multiple ==
  ASSUME NEW p \in Nat \ {0}, NEW q \in Int
  PROVE  (p * q) % p = 0
OBVIOUS

LEMMA Distributes ==
  ASSUME NEW p \in Int, NEW q \in Int, NEW r \in Int
  PROVE  p * q + p * r = p * (q + r) /\ q + r \in Int
OBVIOUS

LEMMA SumOfMultiples ==
  ASSUME NEW p \in Nat \ {0}, NEW x \in Int, NEW y \in Int, x % p = 0, y % p = 0
  PROVE  (x + y) % p = 0
<1>a. /\ x = p * (x \div p) /\ x \div p \in Int
      /\ y = p * (y \div p) /\ y \div p \in Int
  BY DivMod
<1>1. PICK q \in Int : x = p * q
  BY <1>a
<1>2. PICK r \in Int : y = p * r
  BY <1>a
<1>3. x + y = p * (q + r) /\ q + r \in Int
  BY <1>1, <1>2, Distributes
<1> QED BY <1>3, Multiple

\* The first multiple of the period after x.
LEMMA NextMultiple ==
  ASSUME NEW p \in Nat \ {0}, NEW x \in Nat, NEW n, n = x + (p - (x % p))
  PROVE  n \in Nat /\ n > x /\ n <= x + p /\ n >= p /\ n % p = 0
<1>1. x = p * (x \div p) + (x % p) /\ x % p \in 0 .. p - 1 /\ (x \div p) \in Nat
  <2>1. (x \div p) \in Nat
    OBVIOUS
  <2> QED BY <2>1, DivMod
<1>2. PICK q \in Nat, r \in 0 .. p - 1 : x = p * q + r /\ r = x % p
  BY <1>1
<1>3. n = p * q + p /\ p * q \in Nat
  BY <1>2
<1>4. n = p * (q + 1) /\ q + 1 \in Int
  BY <1>3
<1>5. n % p = 0
  BY <1>4, Multiple
<1>6. n \in Nat /\ n > x /\ n <= x + p /\ n >= p
  BY <1>2, <1>3
<1> QED BY <1>5, <1>6

-----------------------------------------------------------------------------
(* The next tick *)

LEMMA NextDeadline ==
  ASSUME NEW d, NEW t, NEW p
  PROVE  /\ next_deadline("Burst", d, t, p) = d + p
         /\ next_deadline("Delay", d, t, p) = t + p
         /\ next_deadline("Skip", d, t, p) = skip(d, t, p)
BY Zenon DEF next_deadline

LEMMA IntervalFacts ==
  ASSUME NEW i \in Interval
  PROVE  i.deadline \in Nat /\ i.period \in Nat \ {0} /\ i.behavior \in MissedTickBehavior
<1>1. i.deadline \in Time /\ i.period \in Periods /\ i.behavior \in MissedTickBehavior
  BY DEF Interval
<1>2. Time \subseteq Nat /\ Periods \subseteq Nat \ {0}
  BY IntervalAssumption DEF Time
<1> QED BY <1>1, <1>2

\* A tick skipped to is on the grid and the first after t.
LEMMA SkipFacts ==
  ASSUME NEW d \in Nat, NEW t \in Nat, t >= d, NEW p \in Nat \ {0}
  PROVE  /\ skip(d, t, p) \in Nat
         /\ skip(d, t, p) > t /\ skip(d, t, p) <= t + p /\ skip(d, t, p) >= d + p
         /\ (skip(d, t, p) - d) % p = 0
<1>1. t - d \in Nat /\ (t - d) % p \in 0 .. p - 1
  BY DivMod
<1>2. PICK r \in 0 .. p - 1 : r = (t - d) % p
  BY <1>1
<1>3. PICK n \in Int : n = (t - d) + (p - r)
  BY <1>1, <1>2
<1>4. n \in Nat /\ n > t - d /\ n <= (t - d) + p /\ n >= p /\ n % p = 0
  BY <1>1, <1>2, <1>3, NextMultiple
<1>5. skip(d, t, p) = t + (p - r)
  BY <1>2 DEF skip
<1>6. skip(d, t, p) = n + d /\ skip(d, t, p) - d = n
  BY <1>2, <1>3, <1>5
<1> QED BY <1>4, <1>6

\* A tick taken at t is followed by the next one, or by what the behavior says.
LEMMA NextTickFacts ==
  ASSUME NEW i \in Interval, NEW t \in Nat, t >= i.deadline
  PROVE  /\ NextTick(i, t) \in Nat
         /\ ~late(i.deadline, t) \/ i.behavior = "Burst" => NextTick(i, t) = i.deadline + i.period
         /\ late(i.deadline, t) /\ i.behavior = "Delay" => NextTick(i, t) = t + i.period
         /\ late(i.deadline, t) /\ i.behavior = "Skip" =>
              /\ NextTick(i, t) > t
              /\ NextTick(i, t) <= t + i.period
              /\ NextTick(i, t) >= i.deadline + i.period
              /\ (NextTick(i, t) - i.deadline) % i.period = 0
<1> USE IntervalFacts
<1>1. /\ next_deadline("Burst", i.deadline, t, i.period) = i.deadline + i.period
      /\ next_deadline("Delay", i.deadline, t, i.period) = t + i.period
      /\ next_deadline("Skip", i.deadline, t, i.period) = skip(i.deadline, t, i.period)
  BY NextDeadline
<1>2. i.behavior = "Burst" \/ i.behavior = "Delay" \/ i.behavior = "Skip"
  BY DEF MissedTickBehavior
<1>3. CASE ~late(i.deadline, t)
  BY <1>3 DEF NextTick
<1>4. CASE late(i.deadline, t) /\ i.behavior = "Burst"
  BY <1>1, <1>4 DEF NextTick
<1>5. CASE late(i.deadline, t) /\ i.behavior = "Delay"
  BY <1>1, <1>5 DEF NextTick
<1>6. CASE late(i.deadline, t) /\ i.behavior = "Skip"
  <2>1. NextTick(i, t) = skip(i.deadline, t, i.period)
    BY <1>1, <1>6 DEF NextTick
  <2> QED BY <1>6, <2>1, SkipFacts
<1> QED BY <1>2, <1>3, <1>4, <1>5, <1>6

\* Whatever the behavior, the next tick is later, and on the grid unless the
\* grid begins anew.
LEMMA NextTickOnGrid ==
  ASSUME NEW i \in Interval, NEW t \in Nat, t >= i.deadline,
         ~(late(i.deadline, t) /\ i.behavior = "Delay")
  PROVE  /\ NextTick(i, t) >= i.deadline + i.period
         /\ (NextTick(i, t) - i.deadline) % i.period = 0
         /\ ~(late(i.deadline, t) /\ i.behavior = "Skip")
              => NextTick(i, t) = i.deadline + i.period
<1> USE IntervalFacts
<1>1. i.behavior = "Burst" \/ i.behavior = "Delay" \/ i.behavior = "Skip"
  BY DEF MissedTickBehavior
<1>2. CASE late(i.deadline, t) /\ i.behavior = "Skip"
  BY <1>2, NextTickFacts
<1>3. CASE ~(late(i.deadline, t) /\ i.behavior = "Skip")
  <2>1. NextTick(i, t) = i.deadline + i.period
    BY <1>1, <1>3, NextTickFacts
  <2>2. (i.period * 1) % i.period = 0 /\ i.period * 1 = i.period
    BY Multiple
  <2>3. NextTick(i, t) - i.deadline = i.period
    BY <2>1
  <2> QED BY <2>1, <2>2, <2>3
<1> QED BY <1>2, <1>3

-----------------------------------------------------------------------------
(* Types *)

LEMMA NoneIsNothing ==
  /\ \A i \in Interval : i # None
  /\ \A a \in Alarm : a # None
  /\ \A h \in History : h # None
  /\ \A task \in Tasks : task # None
  /\ \A s \in Intervals : s # None
  /\ Awaiter # None /\ Awaiter \in Tasks
BY IntervalAssumption

LEMMA AliveFacts ==
  ASSUME TypeOK, NEW s \in alive
  PROVE  s \in Intervals /\ intervals[s] \in Interval
BY DEF alive, TypeOK

\* What a sleep is set to leaves the rest of the interval.
LEMMA AtFacts ==
  ASSUME NEW i \in Interval, NEW d \in Time
  PROVE  /\ at(i, d) \in Interval
         /\ at(i, d).deadline = d
         /\ at(i, d).period = i.period
         /\ at(i, d).behavior = i.behavior
BY DEF at, Interval

LEMMA PutFacts ==
  ASSUME TypeOK, NEW s \in Intervals, NEW i \in Interval,
         intervals' = [intervals EXCEPT ![s] = i]
  PROVE  /\ intervals' \in [Intervals -> Interval \union {None}]
         /\ alive' = alive \union {s}
         /\ intervals'[s] = i
         /\ \A u \in Intervals \ {s} : intervals'[u] = intervals[u]
<1>1. /\ intervals' \in [Intervals -> Interval \union {None}]
      /\ intervals'[s] = i
      /\ \A u \in Intervals \ {s} : intervals'[u] = intervals[u]
  BY DEF TypeOK
<1> QED BY <1>1, NoneIsNothing DEF alive

LEMMA RemoveFacts ==
  ASSUME TypeOK, NEW s \in Intervals, intervals' = [intervals EXCEPT ![s] = None]
  PROVE  /\ intervals' \in [Intervals -> Interval \union {None}]
         /\ alive' = alive \ {s}
         /\ intervals'[s] = None
         /\ \A u \in Intervals \ {s} : intervals'[u] = intervals[u]
BY DEF TypeOK, alive

LEMMA SinceFacts ==
  ASSUME NEW d \in Time
  PROVE  /\ Since(d) \in History
         /\ Since(d).start = d /\ Since(d).ticks = 0 /\ Since(d).skipped = FALSE
BY DEF Since, History

\* An interval begins at an instant.
LEMMA NewInterval ==
  ASSUME TypeOK, NEW s \in Intervals, NEW period \in Periods,
         interval(s, period) \/ \E start \in Time : interval_at(s, start, period)
  PROVE  \E start \in Time : New(s, start, period)
BY DEF interval, interval_at, TypeOK

\* So does the schedule after a reset.
LEMMA ResetInterval ==
  ASSUME TypeOK, NEW s \in Intervals,
         \/ \E d \in Time : reset_at(s, d)
         \/ \E after \in Time : reset_after(s, after)
         \/ reset(s) \/ reset_immediately(s)
  PROVE  \E d \in Time : reset_at(s, d)
BY DEF reset_after, reset, reset_immediately, TypeOK

\* What reset_at does to the alarm.
LEMMA RescheduleFacts ==
  ASSUME TypeOK, NEW s \in Intervals, NEW d \in Time, alarm' = reschedule(s, d)
  PROVE  /\ alarm' \in [Intervals -> Alarm \union {None}]
         /\ alarm'[s] # None <=> alarm[s] # None
         /\ alarm'[s] # None => alarm'[s].deadline = d
         /\ \A u \in Intervals \ {s} : alarm'[u] = alarm[u]
<1>1. CASE alarm[s] = None
  BY <1>1 DEF reschedule, TypeOK
<1>2. CASE alarm[s] # None
  <2>1. alarm[s] \in Alarm
    BY <1>2 DEF TypeOK
  <2>2. [deadline |-> d, waker |-> alarm[s].waker] \in Alarm
    BY <2>1 DEF Alarm
  <2>3. alarm' = [alarm EXCEPT ![s] = [deadline |-> d, waker |-> alarm[s].waker]]
    BY <1>2 DEF reschedule
  <2>4. alarm'[s] = [deadline |-> d, waker |-> alarm[s].waker] /\ alarm'[s] # None
    BY <2>2, <2>3, NoneIsNothing DEF TypeOK
  <2>5. alarm'[s].deadline = d
    BY <2>4
  <2> QED BY <1>2, <2>2, <2>3, <2>4, <2>5 DEF TypeOK
<1> QED BY <1>1, <1>2

\* The history of an interval that ticks on.
LEMMA TickedFacts ==
  ASSUME NEW h \in History, NEW b \in BOOLEAN,
         NEW g, g = [start |-> h.start, ticks |-> h.ticks + 1, skipped |-> h.skipped \/ b]
  PROVE  /\ g \in History
         /\ g.start = h.start /\ g.ticks = h.ticks + 1
         /\ g.skipped <=> h.skipped \/ b
<1>1. h.start \in Time /\ h.ticks \in Nat /\ h.skipped \in BOOLEAN
  BY DEF History
<1>2. (h.skipped \/ b) \in BOOLEAN
  BY <1>1
<1>3. PICK c \in BOOLEAN : c = (h.skipped \/ b)
  BY <1>2
<1>4. g = [start |-> h.start, ticks |-> h.ticks + 1, skipped |-> c]
  BY <1>3
<1>5. h.ticks + 1 \in Nat
  BY <1>1
<1> QED BY <1>1, <1>3, <1>4, <1>5 DEF History

\* What PollTickReady does to the interval and its history.
LEMMA TickReadyFacts ==
  ASSUME TypeOK, PollsSeeTheTruth, PollTickReady,
         NEW s, NEW i, NEW h, NEW next, s = ticking, i = intervals[s], h = history[s],
         next = NextTick(i, now)
  PROVE  /\ s \in alive /\ i \in Interval /\ h \in History
         /\ now \in Nat /\ now >= i.deadline
         /\ next \in Time
         /\ intervals' = [intervals EXCEPT ![s] = at(i, next)]
         /\ \A u \in Intervals \ {s} : history'[u] = history[u]
         /\ history' \in [Intervals -> History \union {None}]
         /\ history'[s] \in History
         /\ Missed(i) <=> late(i.deadline, now)
         /\ Missed(i) /\ i.behavior = "Delay" => history'[s] = Since(next)
         /\ ~(Missed(i) /\ i.behavior = "Delay") =>
              /\ history'[s].start = h.start
              /\ history'[s].ticks = h.ticks + 1
              /\ history'[s].skipped <=> h.skipped \/ (Missed(i) /\ i.behavior = "Skip")
<1>1. s \in alive /\ s \in Intervals /\ i \in Interval /\ now \in Nat /\ now >= i.deadline
  BY AliveFacts, IntervalAssumption DEF PollTickReady, TypeOK, PollsSeeTheTruth, Time
<1>2. h \in History
  BY <1>1, NoneIsNothing DEF TypeOK, PollsSeeTheTruth
<1>3. Missed(i) <=> late(i.deadline, now)
  BY <1>1, IntervalFacts, IntervalAssumption DEF Missed, late
<1> DEFINE delayed == Missed(i) /\ i.behavior = "Delay"
           b == Missed(i) /\ i.behavior = "Skip"
           ticked == [start |-> h.start, ticks |-> h.ticks + 1, skipped |-> h.skipped \/ b]
<1>4. /\ next \in Time
      /\ intervals' = [intervals EXCEPT ![s] = at(i, next)]
      /\ history' = [history EXCEPT ![s] = IF delayed THEN Since(next) ELSE ticked]
  BY DEF PollTickReady
<1>5. b \in BOOLEAN
  BY Zenon DEF Missed
<1> HIDE DEF b
<1>6. ticked \in History /\ ticked.start = h.start /\ ticked.ticks = h.ticks + 1
      /\ (ticked.skipped <=> h.skipped \/ b)
  BY <1>2, <1>5, TickedFacts
<1> HIDE DEF ticked, delayed
<1>7. Since(next) \in History
  BY <1>4, SinceFacts
<1>8. /\ history' \in [Intervals -> History \union {None}]
      /\ history'[s] = IF delayed THEN Since(next) ELSE ticked
      /\ \A u \in Intervals \ {s} : history'[u] = history[u]
  BY <1>1, <1>4, <1>6, <1>7 DEF TypeOK
<1>9. history'[s] \in History
  BY <1>6, <1>7, <1>8
<1>10. delayed => history'[s] = Since(next)
  BY <1>8
<1>11. ~delayed => /\ history'[s].start = h.start
                   /\ history'[s].ticks = h.ticks + 1
                   /\ history'[s].skipped <=> h.skipped \/ b
  BY <1>6, <1>8
<1> QED BY <1>1, <1>2, <1>3, <1>4, <1>8, <1>9, <1>10, <1>11 DEF delayed, b

-----------------------------------------------------------------------------
(* The steps *)

\* The conjuncts of TypeOK that tie alarms to intervals.
AlarmsAreSet ==
  \A s \in Intervals :
    alarm[s] # None => s \in alive /\ alarm[s].deadline = intervals[s].deadline

LEMMA TypeStep ==
  ASSUME TypeOK, PollsSeeTheTruth, [Next]_vars
  PROVE  TypeOK'
<1> USE NoneIsNothing, IntervalAssumption
<1>a. AlarmsAreSet
  BY DEF TypeOK, AlarmsAreSet
<1>1. ASSUME NEW s \in Intervals, NEW d \in Time, NEW p \in Periods, New(s, d, p)
      PROVE  TypeOK'
  <2>1. [deadline |-> d, period |-> p, behavior |-> "Burst"] \in Interval
    BY DEF Interval, MissedTickBehavior
  <2>2. /\ intervals' \in [Intervals -> Interval \union {None}] /\ alive' = alive \union {s}
        /\ \A u \in Intervals \ {s} : intervals'[u] = intervals[u]
    BY <1>1, <2>1, PutFacts DEF New
  <2>3. history' \in [Intervals -> History \union {None}]
    BY <1>1, SinceFacts DEF New, TypeOK
  <2>4. alarm[s] = None
    BY <1>1, <1>a DEF New, alive, AlarmsAreSet
  <2>5. AlarmsAreSet'
    BY <1>1, <1>a, <2>2, <2>4 DEF New, AlarmsAreSet
  <2> QED BY <1>1, <2>2, <2>3, <2>5 DEF New, TypeOK, AlarmsAreSet
<1>2. ASSUME NEW s \in Intervals, PollTickPending(s)
      PROVE  TypeOK'
  <2>1. s \in alive /\ intervals[s] \in Interval /\ intervals[s].deadline \in Time
    BY <1>2, AliveFacts DEF PollTickPending, Interval
  <2>2. [deadline |-> intervals[s].deadline, waker |-> Awaiter] \in Alarm
    BY <2>1 DEF Alarm
  <2>3. alarm' = [alarm EXCEPT ![s] = [deadline |-> intervals[s].deadline, waker |-> Awaiter]]
    BY <1>2 DEF PollTickPending, Timer!Set
  <2>4. alarm' \in [Intervals -> Alarm \union {None}]
    BY <2>2, <2>3 DEF TypeOK
  <2>5. /\ alive' = alive /\ now' = now /\ woken' = woken
        /\ UNCHANGED <<intervals, poller, ticking, history>>
    BY <1>2 DEF PollTickPending, Timer!Set
  <2>6. alarm'[s].deadline = intervals[s].deadline
        /\ \A u \in Intervals \ {s} : alarm'[u] = alarm[u]
    BY <2>3 DEF TypeOK
  <2>7. AlarmsAreSet'
    BY <1>a, <2>1, <2>5, <2>6 DEF AlarmsAreSet
  <2>8. awaited' \subseteq alive' /\ poller' = Awaiter
    BY <1>2, <2>1, <2>5 DEF PollTickPending, TypeOK
  <2> QED BY <2>4, <2>5, <2>7, <2>8 DEF TypeOK, AlarmsAreSet
<1>3. ASSUME NEW s \in Intervals, PollTickElapsed(s)
      PROVE  TypeOK'
  <2>1. /\ alarm' \in [Intervals -> Alarm \union {None}] /\ alive' = alive /\ alarm'[s] = None
        /\ \A u \in Intervals \ {s} : alarm'[u] = alarm[u]
    BY <1>3 DEF PollTickElapsed, cancel, TypeOK, alive
  <2>2. AlarmsAreSet'
    BY <1>3, <1>a, <2>1 DEF PollTickElapsed, AlarmsAreSet
  <2> QED BY <1>3, <2>1, <2>2 DEF PollTickElapsed, TypeOK, AlarmsAreSet
<1>4. CASE PollTickReady
  <2>1. PICK s, i, h, next : s = ticking /\ i = intervals[s] /\ h = history[s] /\ next = NextTick(i, now)
    OBVIOUS
  <2>2. /\ s \in Intervals /\ i \in Interval /\ s \in alive /\ next \in Time
        /\ intervals' = [intervals EXCEPT ![s] = at(i, next)]
        /\ history' \in [Intervals -> History \union {None}]
    BY <1>4, <2>1, TickReadyFacts, AliveFacts
  <2>3. /\ intervals' \in [Intervals -> Interval \union {None}] /\ alive' = alive \union {s}
        /\ \A u \in Intervals \ {s} : intervals'[u] = intervals[u]
    BY <2>2, AtFacts, PutFacts
  <2>4. alive' = alive
    BY <2>2, <2>3
  \* The Sleep that has elapsed has no alarm.
  <2>5. alarm[s] = None
    BY <1>4, <2>1 DEF PollsSeeTheTruth, PollTickReady
  <2>6. AlarmsAreSet'
    BY <1>4, <1>a, <2>3, <2>4, <2>5 DEF PollTickReady, AlarmsAreSet
  <2> QED BY <1>4, <2>2, <2>3, <2>4, <2>6 DEF PollTickReady, TypeOK, AlarmsAreSet
<1>5. CASE PollTickPanics
  <2>1. alive' = {}
    BY <1>5 DEF PollTickPanics, alive
  <2>2. AlarmsAreSet'
    BY <1>5 DEF PollTickPanics, AlarmsAreSet
  <2> QED BY <1>5, <2>1, <2>2 DEF PollTickPanics, TypeOK, AlarmsAreSet
<1>6. ASSUME NEW s \in Intervals, NEW d \in Time, reset_at(s, d)
      PROVE  TypeOK'
  <2>1. s \in alive /\ intervals[s] \in Interval /\ at(intervals[s], d) \in Interval
        /\ at(intervals[s], d).deadline = d
    BY <1>6, AliveFacts, AtFacts DEF reset_at
  <2>2. /\ intervals' \in [Intervals -> Interval \union {None}] /\ alive' = alive \union {s}
        /\ intervals'[s].deadline = d
        /\ \A u \in Intervals \ {s} : intervals'[u] = intervals[u]
    BY <1>6, <2>1, PutFacts DEF reset_at
  <2>3. alive' = alive
    BY <2>1, <2>2
  <2>4. /\ alarm' \in [Intervals -> Alarm \union {None}]
        /\ alarm'[s] # None => alarm'[s].deadline = d
        /\ \A u \in Intervals \ {s} : alarm'[u] = alarm[u]
    BY <1>6, RescheduleFacts DEF reset_at
  <2>5. AlarmsAreSet'
    BY <1>a, <2>1, <2>2, <2>3, <2>4 DEF AlarmsAreSet
  <2>6. history' \in [Intervals -> History \union {None}]
    BY <1>6, SinceFacts DEF reset_at, TypeOK
  <2> QED BY <1>6, <2>2, <2>3, <2>4, <2>5, <2>6 DEF reset_at, TypeOK, AlarmsAreSet
<1>7. ASSUME NEW s \in Intervals, NEW behavior \in MissedTickBehavior,
             set_missed_tick_behavior(s, behavior)
      PROVE  TypeOK'
  <2>1. PICK i \in Interval : i = intervals[s] /\ s \in alive
    BY <1>7, AliveFacts DEF set_missed_tick_behavior
  <2>2. PICK j : j = [deadline |-> i.deadline, period |-> i.period, behavior |-> behavior]
    OBVIOUS
  <2>3. j \in Interval /\ j.deadline = i.deadline
    BY <2>2 DEF Interval
  <2>4. /\ intervals' \in [Intervals -> Interval \union {None}] /\ alive' = alive \union {s}
        /\ intervals'[s].deadline = intervals[s].deadline
        /\ \A u \in Intervals \ {s} : intervals'[u] = intervals[u]
    BY <1>7, <2>1, <2>2, <2>3, PutFacts DEF set_missed_tick_behavior
  <2>5. alive' = alive
    BY <2>1, <2>4
  <2>6. AlarmsAreSet'
    BY <1>7, <1>a, <2>4, <2>5 DEF set_missed_tick_behavior, AlarmsAreSet
  <2> QED BY <1>7, <2>4, <2>5, <2>6 DEF set_missed_tick_behavior, TypeOK, AlarmsAreSet
<1>8. ASSUME NEW s \in Intervals, DropInterval(s)
      PROVE  TypeOK'
  <2>1. /\ intervals' \in [Intervals -> Interval \union {None}] /\ alive' = alive \ {s}
        /\ \A u \in Intervals \ {s} : intervals'[u] = intervals[u]
    BY <1>8, RemoveFacts DEF DropInterval
  <2>2. /\ alarm' \in [Intervals -> Alarm \union {None}] /\ alarm'[s] = None
        /\ \A u \in Intervals \ {s} : alarm'[u] = alarm[u]
    BY <1>8 DEF DropInterval, cancel, TypeOK
  <2>3. AlarmsAreSet'
    BY <1>a, <2>1, <2>2 DEF AlarmsAreSet
  <2>4. history' \in [Intervals -> History \union {None}]
    BY <1>8 DEF DropInterval, TypeOK
  <2>5. ticking' = None /\ awaited' \subseteq alive'
        /\ (awaited' # {} => poller' = Awaiter) /\ UNCHANGED <<now, woken, poller>>
    BY <1>8, <2>1 DEF DropInterval, UserCode, TypeOK
  <2> QED BY <2>1, <2>2, <2>3, <2>4, <2>5 DEF TypeOK, AlarmsAreSet
<1>9. CASE GoOff
  <2>1. woken' \subseteq Tasks
    <3>1. \A s \in Timer!Due : alarm[s].waker \in Tasks
      BY DEF Timer!Due, TypeOK, Alarm
    <3> QED BY <1>9, <3>1 DEF GoOff, TypeOK, Timer!GoOff
  <2>2. /\ alarm' \in [Intervals -> Alarm \union {None}]
        /\ \A s \in Intervals : alarm'[s] = alarm[s] \/ alarm'[s] = None
    BY <1>9 DEF GoOff, TypeOK, Timer!GoOff
  <2>3. alive' = alive /\ now' = now /\ UNCHANGED <<intervals, poller, ticking, awaited, history>>
    BY <1>9 DEF GoOff, Timer!GoOff
  <2>4. AlarmsAreSet'
    BY <1>a, <2>2, <2>3 DEF AlarmsAreSet
  <2> QED BY <2>1, <2>2, <2>3, <2>4 DEF TypeOK, AlarmsAreSet
<1>10. ASSUME NEW task \in Tasks, BeginPoll(task) \/ Wake(task)
       PROVE  TypeOK'
  <2>1. /\ woken' \subseteq Tasks
        /\ poller' = poller \/ (poller = None /\ poller' = task)
        /\ UNCHANGED <<now, alarm, intervals, ticking, awaited, history>>
    BY <1>10 DEF BeginPoll, Wake, Timer!Poll, Timer!Wake, TypeOK
  <2>2. alive' = alive
    BY <2>1 DEF alive
  <2>3. AlarmsAreSet'
    BY <1>a, <2>1, <2>2 DEF AlarmsAreSet
  <2> QED BY <2>1, <2>2, <2>3 DEF TypeOK, AlarmsAreSet
<1>11. CASE EndPoll
  <2>1. alive' = alive
    BY <1>11 DEF EndPoll, alive
  <2>2. AlarmsAreSet'
    BY <1>11, <1>a, <2>1 DEF EndPoll, AlarmsAreSet
  <2> QED BY <1>11, <2>1, <2>2 DEF EndPoll, UserCode, TypeOK, AlarmsAreSet
<1>12. CASE Tick \/ UNCHANGED vars
  <2>1. now' \in Time
    BY <1>12 DEF Tick, vars, TypeOK, Time
  <2>2. UNCHANGED <<alarm, woken, intervals, poller, ticking, awaited, history>>
    BY <1>12 DEF Tick, vars
  <2>3. alive' = alive
    BY <2>2 DEF alive
  <2>4. AlarmsAreSet'
    BY <1>a, <2>2, <2>3 DEF AlarmsAreSet
  <2> QED BY <2>1, <2>2, <2>3, <2>4 DEF TypeOK, AlarmsAreSet
<1> QED
  BY <1>1, <1>2, <1>3, <1>4, <1>5, <1>6, <1>7, <1>8, <1>9, <1>10, <1>11, <1>12,
     NewInterval, ResetInterval
  DEF Next, PollTick

LEMMA TruthStep ==
  ASSUME TypeOK, PollsSeeTheTruth, [Next]_vars
  PROVE  PollsSeeTheTruth'
<1> USE NoneIsNothing, IntervalAssumption
<1>1. ASSUME NEW s \in Intervals, NEW d \in Time, NEW p \in Periods, New(s, d, p)
      PROVE  PollsSeeTheTruth'
  <2>1. [deadline |-> d, period |-> p, behavior |-> "Burst"] \in Interval
    BY DEF Interval, MissedTickBehavior
  <2>2. /\ intervals'[s] # None /\ history'[s] # None
        /\ \A u \in Intervals \ {s} : intervals'[u] = intervals[u] /\ history'[u] = history[u]
    BY <1>1, <2>1, SinceFacts DEF New, TypeOK
  <2> QED BY <1>1, <2>2 DEF New, UserCode, PollsSeeTheTruth
<1>2. ASSUME NEW s \in Intervals, PollTickPending(s)
      PROVE  PollsSeeTheTruth'
  <2>1. s \in alive /\ intervals[s].deadline \in Time
    BY <1>2, AliveFacts DEF PollTickPending, Interval
  <2>2. [deadline |-> intervals[s].deadline, waker |-> Awaiter] \in Alarm
    BY <2>1 DEF Alarm
  <2>3. alarm' = [alarm EXCEPT ![s] = [deadline |-> intervals[s].deadline, waker |-> Awaiter]]
    BY <1>2 DEF PollTickPending, Timer!Set
  <2>4. alarm'[s] # None /\ \A u \in Intervals \ {s} : alarm'[u] = alarm[u]
    BY <2>2, <2>3 DEF TypeOK
  <2>5. awaited \subseteq Intervals
    BY DEF TypeOK, alive
  <2> QED BY <1>2, <2>4, <2>5 DEF PollTickPending, UserCode, PollsSeeTheTruth
<1>3. ASSUME NEW s \in Intervals, PollTickElapsed(s)
      PROVE  PollsSeeTheTruth'
  <2>1. alarm'[s] = None /\ \A u \in Intervals \ {s} : alarm'[u] = alarm[u]
    BY <1>3 DEF PollTickElapsed, cancel, TypeOK
  <2>2. awaited \subseteq Intervals
    BY DEF TypeOK, alive
  <2> QED BY <1>3, <2>1, <2>2 DEF PollTickElapsed, PollsSeeTheTruth
<1>4. CASE PollTickReady
  <2>1. PICK s, i, h, next : s = ticking /\ i = intervals[s] /\ h = history[s] /\ next = NextTick(i, now)
    OBVIOUS
  <2>2. /\ s \in Intervals /\ i \in Interval /\ next \in Time
        /\ intervals' = [intervals EXCEPT ![s] = at(i, next)]
        /\ history'[s] \in History
        /\ \A u \in Intervals \ {s} : history'[u] = history[u]
    BY <1>4, <2>1, TickReadyFacts, AliveFacts
  <2>3. /\ intervals'[s] # None
        /\ \A u \in Intervals \ {s} : intervals'[u] = intervals[u]
    BY <2>2, AtFacts, PutFacts
  <2> QED BY <1>4, <2>2, <2>3 DEF PollTickReady, PollsSeeTheTruth
<1>5. CASE PollTickPanics
  BY <1>5 DEF PollTickPanics, PollsSeeTheTruth
<1>6. ASSUME NEW s \in Intervals, NEW d \in Time, reset_at(s, d)
      PROVE  PollsSeeTheTruth'
  <2>1. s \in alive /\ intervals[s] \in Interval /\ at(intervals[s], d) \in Interval
    BY <1>6, AliveFacts, AtFacts DEF reset_at
  <2>2. /\ intervals'[s] # None
        /\ \A u \in Intervals \ {s} : intervals'[u] = intervals[u]
    BY <1>6, <2>1, PutFacts DEF reset_at
  <2>3. /\ alarm'[s] # None <=> alarm[s] # None
        /\ \A u \in Intervals \ {s} : alarm'[u] = alarm[u]
    BY <1>6, RescheduleFacts DEF reset_at
  <2>4. history'[s] # None /\ \A u \in Intervals \ {s} : history'[u] = history[u]
    BY <1>6, SinceFacts DEF reset_at, TypeOK
  <2>5. awaited \subseteq Intervals
    BY DEF TypeOK, alive
  <2> QED BY <1>6, <2>2, <2>3, <2>4, <2>5 DEF reset_at, UserCode, PollsSeeTheTruth
<1>7. ASSUME NEW s \in Intervals, NEW behavior \in MissedTickBehavior,
             set_missed_tick_behavior(s, behavior)
      PROVE  PollsSeeTheTruth'
  <2>1. PICK i \in Interval : i = intervals[s] /\ s \in alive
    BY <1>7, AliveFacts DEF set_missed_tick_behavior
  <2>2. [deadline |-> i.deadline, period |-> i.period, behavior |-> behavior] \in Interval
    BY <2>1 DEF Interval
  <2>3. /\ intervals'[s] # None /\ intervals[s] # None
        /\ \A u \in Intervals \ {s} : intervals'[u] = intervals[u]
    BY <1>7, <2>1, <2>2 DEF set_missed_tick_behavior, TypeOK
  <2> QED BY <1>7, <2>3 DEF set_missed_tick_behavior, UserCode, PollsSeeTheTruth
<1>8. ASSUME NEW s \in Intervals, DropInterval(s)
      PROVE  PollsSeeTheTruth'
  <2>1. /\ intervals'[s] = None /\ history'[s] = None
        /\ \A u \in Intervals \ {s} :
             intervals'[u] = intervals[u] /\ history'[u] = history[u] /\ alarm'[u] = alarm[u]
    BY <1>8 DEF DropInterval, cancel, TypeOK
  <2>2. awaited \subseteq Intervals
    BY DEF TypeOK, alive
  <2> QED BY <1>8, <2>1, <2>2 DEF DropInterval, UserCode, PollsSeeTheTruth
<1>9. CASE GoOff
  <2>1. ticking = None /\ awaited = {}
    BY <1>9 DEF GoOff, TypeOK
  <2> QED BY <1>9, <2>1 DEF GoOff, PollsSeeTheTruth
<1>10. CASE \/ \E task \in Tasks : BeginPoll(task) \/ Wake(task)
            \/ EndPoll \/ UNCHANGED vars
  BY <1>10 DEF BeginPoll, Wake, EndPoll, Timer!Poll, Timer!Wake, UserCode, vars, PollsSeeTheTruth
<1>11. CASE Tick
  <2>1. ticking # None => intervals[ticking] \in Interval
    BY AliveFacts DEF TypeOK
  <2>2. now \in Nat /\ (ticking # None => intervals[ticking].deadline \in Nat)
    BY <2>1, IntervalFacts DEF TypeOK, Time
  <2>3. ticking # None => now + 1 >= intervals[ticking].deadline
    BY <2>2 DEF PollsSeeTheTruth
  <2> QED BY <1>11, <2>3 DEF Tick, PollsSeeTheTruth
<1> QED
  BY <1>1, <1>2, <1>3, <1>4, <1>5, <1>6, <1>7, <1>8, <1>9, <1>10, <1>11,
     NewInterval, ResetInterval
  DEF Next, PollTick

LEMMA ArmedStep ==
  ASSUME TypeOK, TypeOK', PollsSeeTheTruth, AwaitedTicksAreArmed, [Next]_vars
  PROVE  AwaitedTicksAreArmed'
<1> USE NoneIsNothing
\* An alarm of an interval is the right one.
<1>a. \A s \in Intervals :
        alarm'[s] # None => alarm'[s] = [deadline |-> intervals'[s].deadline, waker |-> Awaiter]
  BY DEF TypeOK, Alarm
<1>b. \A s \in alive : alarm[s] # None \/ poller = Awaiter \/ Awaiter \in woken
  <2>1. ASSUME NEW s \in alive,
               alarm[s] = [deadline |-> intervals[s].deadline, waker |-> Awaiter]
        PROVE  alarm[s] # None
    <3>1. intervals[s].deadline \in Time
      BY AliveFacts DEF Interval
    <3> QED BY <2>1, <3>1 DEF Alarm
  <2> QED BY <2>1 DEF AwaitedTicksAreArmed
<1>1. CASE poller' = Awaiter
  BY <1>1 DEF AwaitedTicksAreArmed
<1>2. CASE Awaiter \in woken'
  BY <1>2 DEF AwaitedTicksAreArmed
<1>c. ASSUME \A s \in alive' : alarm'[s] # None
      PROVE  AwaitedTicksAreArmed'
  BY <1>a, <1>c DEF AwaitedTicksAreArmed, alive
<1>3. CASE poller' # Awaiter /\ Awaiter \notin woken'
  <2>1. CASE EndPoll
    <3>1. \A s \in alive : alarm[s] # None
      BY <1>3, <1>b, <2>1 DEF EndPoll, PollsSeeTheTruth
    <3>2. alive' = alive /\ alarm' = alarm
      BY <2>1 DEF EndPoll, alive
    <3> QED BY <1>c, <3>1, <3>2
  <2>2. CASE GoOff
    <3>1. \A s \in alive : alarm[s] # None
      BY <1>3, <1>b, <2>2 DEF GoOff, Timer!GoOff
    <3>2. \A s \in Timer!Due : alarm[s].waker = Awaiter
      BY DEF Timer!Due, TypeOK, Alarm
    <3>3. Timer!Due = {}
      BY <1>3, <2>2, <3>2 DEF GoOff, Timer!GoOff
    <3> QED BY <2>2, <3>3 DEF GoOff, Timer!GoOff
  <2>3. CASE \E s \in Intervals : DropInterval(s)
    <3>1. PICK s \in Intervals : DropInterval(s)
      BY <2>3
    <3>2. \A u \in alive' : u \in alive /\ u \in Intervals \ {s}
      BY <3>1, RemoveFacts DEF DropInterval, alive
    <3>3. \A u \in Intervals \ {s} : alarm'[u] = alarm[u]
      BY <3>1 DEF DropInterval, cancel, TypeOK
    <3> QED BY <1>3, <1>b, <1>c, <3>1, <3>2, <3>3 DEF DropInterval
  <2>4. CASE \E s \in Intervals, d \in Time : reset_at(s, d)
    <3>1. PICK s \in Intervals, d \in Time : reset_at(s, d)
      BY <2>4
    <3>2. alive' = alive
      <4>1. s \in alive /\ at(intervals[s], d) \in Interval
        BY <3>1, AliveFacts, AtFacts DEF reset_at
      <4>2. intervals' = [intervals EXCEPT ![s] = at(intervals[s], d)]
        BY <3>1 DEF reset_at
      <4>3. alive' = alive \union {s}
        BY <4>1, <4>2, PutFacts
      <4> QED BY <4>1, <4>3
    <3>3. \A u \in Intervals : alarm[u] # None => alarm'[u] # None
      BY <3>1, RescheduleFacts DEF reset_at
    <3> QED BY <1>3, <1>b, <1>c, <3>1, <3>2, <3>3 DEF reset_at, alive
  <2>5. CASE \E s \in Intervals, behavior \in MissedTickBehavior :
               set_missed_tick_behavior(s, behavior)
    <3>1. PICK s \in Intervals, behavior \in MissedTickBehavior :
            set_missed_tick_behavior(s, behavior)
      BY <2>5
    <3>2. alive' \subseteq alive
      BY <3>1 DEF set_missed_tick_behavior, TypeOK, alive
    <3> QED BY <1>3, <1>b, <1>c, <3>1, <3>2 DEF set_missed_tick_behavior
  <2>6. CASE UNCHANGED <<alarm, intervals, poller>> /\ woken \subseteq woken'
    BY <1>3, <1>b, <1>c, <2>6 DEF alive
  <2>7. CASE \E task \in Tasks : BeginPoll(task)
    BY <1>3, <1>b, <1>c, <2>7 DEF BeginPoll, Timer!Poll, alive
  <2>8. CASE (\E task \in Tasks : Wake(task)) \/ Tick \/ UNCHANGED vars
    BY <2>6, <2>8 DEF Wake, Timer!Wake, Tick, vars
  <2>9. CASE \E s \in Intervals : PollTickPending(s) \/ PollTickElapsed(s)
    BY <1>3, <2>9 DEF PollTickPending, PollTickElapsed
  <2>10. CASE \E s \in Intervals, d \in Time, p \in Periods : New(s, d, p)
    BY <1>3, <2>10 DEF New
  <2>11. CASE PollTickReady \/ PollTickPanics
    BY <1>3, <2>11 DEF PollTickReady, PollTickPanics, TypeOK
  <2> QED
    BY <2>1, <2>2, <2>3, <2>4, <2>5, <2>7, <2>8, <2>9, <2>10, <2>11, NewInterval, ResetInterval
    DEF Next, PollTick
<1> QED BY <1>1, <1>2, <1>3

-----------------------------------------------------------------------------
(* The schedule of the ticks *)

OnGrid(i, h) ==
  /\ i.deadline >= h.start + h.ticks * i.period
  /\ (i.deadline - h.start) % i.period = 0
  /\ ~h.skipped => i.deadline = h.start + h.ticks * i.period

LEMMA HistoryFacts ==
  ASSUME NEW h \in History
  PROVE  h.start \in Nat /\ h.ticks \in Nat /\ h.skipped \in BOOLEAN
BY IntervalAssumption DEF History, Time

\* A schedule begins on its grid.
LEMMA GridBegins ==
  ASSUME NEW i \in Interval, NEW d \in Time, i.deadline = d
  PROVE  OnGrid(i, Since(d))
<1>1. i.deadline \in Nat /\ i.period \in Nat \ {0}
  BY IntervalFacts
<1>2. Since(d).start = i.deadline /\ Since(d).ticks = 0
  BY SinceFacts
<1>3. (i.period * 0) % i.period = 0 /\ i.period * 0 = 0 /\ 0 * i.period = 0
  BY <1>1, Multiple
<1> QED BY <1>1, <1>2, <1>3 DEF OnGrid

\* A tick and the next one are grid points in order.
LEMMA GridGoesOn ==
  ASSUME NEW i \in Interval, NEW h \in History, OnGrid(i, h),
         NEW j \in Interval, NEW g \in History,
         j.period = i.period, j.deadline >= i.deadline + i.period,
         (j.deadline - i.deadline) % i.period = 0,
         g.start = h.start, g.ticks = h.ticks + 1,
         ~g.skipped => ~h.skipped /\ j.deadline = i.deadline + i.period
  PROVE  OnGrid(j, g)
<1>1. PICK d \in Nat, e \in Nat, p \in Nat \ {0}, st \in Nat, n \in Nat :
        /\ d = i.deadline /\ e = j.deadline /\ p = i.period /\ st = h.start /\ n = h.ticks
  BY IntervalFacts, HistoryFacts
<1>2. d >= st + n * p /\ (d - st) % p = 0 /\ (e - d) % p = 0 /\ e >= d + p
  BY <1>1 DEF OnGrid
<1>3. (n + 1) * p = n * p + p /\ n * p \in Nat
  OBVIOUS
<1>4. e >= st + (n + 1) * p
  BY <1>2, <1>3
<1>5. (e - st) % p = 0
  <2>1. PICK x \in Int, y \in Int : x = e - d /\ y = d - st
    OBVIOUS
  <2>2. (x + y) % p = 0
    BY <1>2, <2>1, SumOfMultiples
  <2>3. x + y = e - st
    BY <2>1
  <2> QED BY <2>2, <2>3
<1>6. ~g.skipped => e = st + (n + 1) * p
  <2> SUFFICES ASSUME ~g.skipped
               PROVE  e = st + (n + 1) * p
    OBVIOUS
  <2>1. ~h.skipped /\ e = d + p
    BY <1>1
  <2>2. d = st + n * p
    BY <1>1, <2>1 DEF OnGrid
  <2> QED BY <1>3, <2>1, <2>2
<1> QED BY <1>1, <1>4, <1>5, <1>6 DEF OnGrid

LEMMA ScheduleFacts ==
  TicksStayOnSchedule <=> \A s \in alive : OnGrid(intervals[s], history[s])
BY DEF TicksStayOnSchedule, OnGrid

LEMMA ScheduleStep ==
  ASSUME TypeOK, PollsSeeTheTruth, TicksStayOnSchedule, [Next]_vars
  PROVE  TicksStayOnSchedule'
<1> USE NoneIsNothing
<1> SUFFICES ASSUME NEW u \in alive'
             PROVE  OnGrid(intervals'[u], history'[u])
  BY DEF TicksStayOnSchedule, OnGrid
<1>u. u \in Intervals /\ intervals'[u] # None
  BY DEF alive
<1>a. u \in alive => OnGrid(intervals[u], history[u])
  BY ScheduleFacts
<1>b. ASSUME intervals'[u] = intervals[u], history'[u] = history[u]
      PROVE  OnGrid(intervals'[u], history'[u])
  BY <1>a, <1>b, <1>u DEF alive
<1>1. ASSUME NEW s \in Intervals, NEW d \in Time, NEW p \in Periods, New(s, d, p)
      PROVE  OnGrid(intervals'[u], history'[u])
  <2>1. PICK i \in Interval : i = [deadline |-> d, period |-> p, behavior |-> "Burst"]
    BY DEF Interval, MissedTickBehavior
  <2>2. /\ intervals' = [intervals EXCEPT ![s] = i]
        /\ history' = [history EXCEPT ![s] = Since(d)]
    BY <1>1, <2>1 DEF New
  <2>3. CASE u = s
    <3>1. intervals'[u] = i /\ history'[u] = Since(d) /\ i.deadline = d
      BY <2>1, <2>2, <2>3 DEF TypeOK
    <3> QED BY <3>1, GridBegins
  <2>4. CASE u # s
    <3>1. intervals'[u] = intervals[u] /\ history'[u] = history[u]
      BY <1>u, <2>2, <2>4 DEF TypeOK
    <3> QED BY <1>b, <3>1
  <2> QED BY <2>3, <2>4
<1>2. ASSUME NEW s \in Intervals, NEW d \in Time, reset_at(s, d)
      PROVE  OnGrid(intervals'[u], history'[u])
  <2>1. /\ s \in alive /\ intervals' = [intervals EXCEPT ![s] = at(intervals[s], d)]
        /\ history' = [history EXCEPT ![s] = Since(d)]
    BY <1>2 DEF reset_at
  <2>2. CASE u = s
    <3>1. PICK i \in Interval : i = at(intervals[s], d) /\ i.deadline = d
      BY <2>1, AliveFacts, AtFacts
    <3>2. intervals'[u] = i /\ history'[u] = Since(d)
      BY <2>1, <2>2, <3>1 DEF TypeOK
    <3> QED BY <3>1, <3>2, GridBegins
  <2>3. CASE u # s
    <3>1. intervals'[u] = intervals[u] /\ history'[u] = history[u]
      BY <1>u, <2>1, <2>3 DEF TypeOK
    <3> QED BY <1>b, <3>1
  <2> QED BY <2>2, <2>3
<1>3. CASE PollTickReady
  <2>1. PICK s, i, h, next : s = ticking /\ i = intervals[s] /\ h = history[s] /\ next = NextTick(i, now)
    OBVIOUS
  <2>2. /\ s \in alive /\ s \in Intervals /\ i \in Interval /\ h \in History
        /\ now \in Nat /\ now >= i.deadline
        /\ next \in Time
        /\ intervals' = [intervals EXCEPT ![s] = at(i, next)]
        /\ history'[s] \in History
        /\ \A v \in Intervals \ {s} : history'[v] = history[v]
        /\ Missed(i) <=> late(i.deadline, now)
        /\ Missed(i) /\ i.behavior = "Delay" => history'[s] = Since(next)
        /\ ~(Missed(i) /\ i.behavior = "Delay") =>
              /\ history'[s].start = h.start
              /\ history'[s].ticks = h.ticks + 1
              /\ history'[s].skipped <=> h.skipped \/ (Missed(i) /\ i.behavior = "Skip")
    BY <1>3, <2>1, TickReadyFacts, AliveFacts
  <2>3. PICK j \in Interval : /\ j = at(i, next) /\ j.deadline = next /\ j.period = i.period
    BY <2>2, AtFacts
  <2>4. intervals'[s] = j /\ \A v \in Intervals \ {s} : intervals'[v] = intervals[v]
    BY <2>2, <2>3, PutFacts
  <2>5. CASE u = s
    <3>1. CASE Missed(i) /\ i.behavior = "Delay"
      BY <2>2, <2>3, <2>4, <2>5, <3>1, GridBegins
    <3>2. CASE ~(Missed(i) /\ i.behavior = "Delay")
      <4>1. /\ next >= i.deadline + i.period /\ (next - i.deadline) % i.period = 0
            /\ ~(Missed(i) /\ i.behavior = "Skip") => next = i.deadline + i.period
        BY <2>1, <2>2, <3>2, NextTickOnGrid
      <4>2. OnGrid(i, h)
        BY <1>a, <2>1, <2>2, <2>5
      <4>3. PICK g \in History : g = history'[s]
        BY <2>2
      <4>4. /\ g.start = h.start /\ g.ticks = h.ticks + 1
            /\ ~g.skipped => ~h.skipped /\ ~(Missed(i) /\ i.behavior = "Skip")
        BY <2>2, <3>2, <4>3
      <4>5. OnGrid(j, g)
        BY <2>2, <2>3, <4>1, <4>2, <4>4, GridGoesOn
      <4> QED BY <2>4, <2>5, <4>3, <4>5
    <3> QED BY <3>1, <3>2
  <2>6. CASE u # s
    BY <1>b, <1>u, <2>2, <2>4, <2>6
  <2> QED BY <2>5, <2>6
<1>4. CASE PollTickPanics
  BY <1>4, <1>u DEF PollTickPanics
<1>5. ASSUME NEW s \in Intervals, NEW behavior \in MissedTickBehavior,
             set_missed_tick_behavior(s, behavior)
      PROVE  OnGrid(intervals'[u], history'[u])
  <2>1. PICK i \in Interval : i = intervals[s] /\ s \in alive
    BY <1>5, AliveFacts DEF set_missed_tick_behavior
  <2>2. PICK j : j = [deadline |-> i.deadline, period |-> i.period, behavior |-> behavior]
    OBVIOUS
  <2>3. j.deadline = i.deadline /\ j.period = i.period
    BY <2>2
  <2>4. intervals' = [intervals EXCEPT ![s] = j] /\ history' = history
    BY <1>5, <2>1, <2>2 DEF set_missed_tick_behavior
  <2>5. CASE u = s
    <3>1. OnGrid(i, history[s]) /\ intervals'[u] = j
      BY <1>a, <2>1, <2>4, <2>5 DEF TypeOK
    <3> QED BY <2>3, <2>4, <2>5, <3>1 DEF OnGrid
  <2>6. CASE u # s
    BY <1>b, <1>u, <2>4, <2>6 DEF TypeOK
  <2> QED BY <2>5, <2>6
<1>6. ASSUME NEW s \in Intervals, DropInterval(s)
      PROVE  OnGrid(intervals'[u], history'[u])
  <2>1. u # s
    BY <1>6, <1>u DEF DropInterval, TypeOK
  <2> QED BY <1>6, <1>b, <1>u, <2>1 DEF DropInterval, TypeOK
<1>7. CASE UNCHANGED <<intervals, history>>
  BY <1>7, <1>b
<1> QED
  BY <1>1, <1>2, <1>3, <1>4, <1>5, <1>6, <1>7, NewInterval, ResetInterval
  DEF Next, PollTick, vars, PollTickPending, PollTickElapsed, BeginPoll, Wake, EndPoll, GoOff, Tick

-----------------------------------------------------------------------------
\* Intervals, alarms, polls and schedules stay consistent.
THEOREM Inductive == SafeSpec => []IndInv
<1>1. Init => IndInv
  <2> SUFFICES ASSUME Init
               PROVE  IndInv
    OBVIOUS
  <2> USE IntervalAssumption DEF Init
  <2>1. alive = {}
    BY DEF alive
  <2>2. TypeOK
    BY <2>1 DEF TypeOK, Time
  <2>3. PollsSeeTheTruth /\ TicksStayOnSchedule /\ AwaitedTicksAreArmed
    BY <2>1 DEF PollsSeeTheTruth, TicksStayOnSchedule, AwaitedTicksAreArmed
  <2> QED BY <2>2, <2>3 DEF IndInv
<1>2. IndInv /\ [Next]_vars => IndInv'
  BY TypeStep, TruthStep, ScheduleStep, ArmedStep DEF IndInv
<1> QED BY <1>1, <1>2, PTL DEF SafeSpec

\* Ticks never drift from the grid that the first of them begins.
THEOREM TicksDoNotDrift == SafeSpec => []TicksStayOnSchedule
<1>1. IndInv => TicksStayOnSchedule
  BY DEF IndInv
<1> QED BY <1>1, Inductive, PTL

\* Whoever resets an interval, the task that awaits its tick will be woken.
THEOREM NoTickIsLost == SafeSpec => []AwaitedTicksAreArmed
<1>1. IndInv => AwaitedTicksAreArmed
  BY DEF IndInv
<1> QED BY <1>1, Inductive, PTL

\* Burst, Skip and Delay each keep what they promise about the next tick.
THEOREM BehaviorsKeepTheirPromise == SafeSpec => MissedTickPromise
<1>1. IndInv /\ [Next]_vars
        => [\A s \in alive :
              ticking = s /\ ticking' = None /\ s \in alive' =>
                LET i == intervals[s]
                    next == intervals'[s].deadline
                IN  /\ next > i.deadline
                    /\ i.behavior = "Burst" => next = i.deadline + i.period
                    /\ i.behavior = "Skip" =>
                         /\ next <= now + i.period
                         /\ next > now \/ now - i.deadline <= Grace
                    /\ i.behavior = "Delay" =>
                         /\ next <= now + i.period
                         /\ next + Grace >= now + i.period]_vars
  <2> SUFFICES ASSUME IndInv, Next, NEW s \in alive, ticking = s, ticking' = None, s \in alive',
                      NEW i, i = intervals[s], NEW next, next = intervals'[s].deadline
               PROVE  /\ next > i.deadline
                      /\ i.behavior = "Burst" => next = i.deadline + i.period
                      /\ i.behavior = "Skip" =>
                           /\ next <= now + i.period
                           /\ next > now \/ now - i.deadline <= Grace
                      /\ i.behavior = "Delay" =>
                           /\ next <= now + i.period
                           /\ next + Grace >= now + i.period
    OBVIOUS
  <2> USE DEF IndInv
  <2>1. s \in Intervals /\ s # None
    BY NoneIsNothing DEF alive
  <2>2. PollTickReady
    <3>1. ~PollTickPanics
      BY DEF PollTickPanics, alive
    <3> QED
      BY <2>1, <3>1, NewInterval, ResetInterval
      DEF Next, PollTick, New, PollTickPending, PollTickElapsed, reset_at, UserCode,
          set_missed_tick_behavior, DropInterval, BeginPoll, Wake, EndPoll, GoOff, Tick
  <2>3. PICK h : h = history[s]
    OBVIOUS
  <2>4. /\ i \in Interval /\ now \in Nat /\ now >= i.deadline /\ NextTick(i, now) \in Time
        /\ intervals' = [intervals EXCEPT ![s] = at(i, NextTick(i, now))]
    BY <2>2, <2>3, TickReadyFacts
  <2>5. next = NextTick(i, now)
    <3>1. PICK j \in Interval : j = at(i, NextTick(i, now)) /\ j.deadline = NextTick(i, now)
      BY <2>4, AtFacts
    <3>2. intervals'[s] = j
      BY <2>1, <2>4, <3>1, PutFacts
    <3> QED BY <3>1, <3>2
  <2>6. Grace \in Nat /\ i.deadline \in Nat /\ i.period \in Nat \ {0}
    BY <2>4, IntervalFacts, IntervalAssumption
  <2>7. CASE ~late(i.deadline, now)
    <3>1. next = i.deadline + i.period
      BY <2>4, <2>5, <2>7, NextTickFacts
    <3>2. now - i.deadline <= Grace
      BY <2>4, <2>6, <2>7 DEF late
    <3> QED BY <2>4, <2>6, <3>1, <3>2
  <2>8. CASE late(i.deadline, now)
    <3>1. CASE i.behavior = "Burst"
      <4>1. next = i.deadline + i.period
        BY <2>4, <2>5, <3>1, NextTickFacts
      <4> QED BY <2>6, <3>1, <4>1
    <3>2. CASE i.behavior = "Skip"
      <4>1. next \in Nat /\ next > now /\ next <= now + i.period
        BY <2>4, <2>5, <2>8, <3>2, NextTickFacts
      <4> QED BY <2>4, <2>6, <3>2, <4>1
    <3>3. CASE i.behavior = "Delay"
      <4>1. next = now + i.period
        BY <2>4, <2>5, <2>8, <3>3, NextTickFacts
      <4> QED BY <2>4, <2>6, <3>3, <4>1
    <3> QED BY <2>4, <3>1, <3>2, <3>3, IntervalFacts DEF MissedTickBehavior
  <2> QED BY <2>7, <2>8
<1> QED BY <1>1, Inductive, PTL DEF SafeSpec, MissedTickPromise
=============================================================================
