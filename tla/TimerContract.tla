---------------------------- MODULE TimerContract ----------------------------
(***************************************************************************)
(* What the timers promise to the tasks that sleep, with no heap, no ids   *)
(* and no lazy deletion: a sleep that returned Pending is an alarm that    *)
(* remembers one waker and the latest deadline.  While block_on runs, an   *)
(* alarm goes off once, never before its deadline, and then calls the      *)
(* waker it holds; a sleep that is dropped or has returned Ready has no    *)
(* alarm.                                                                  *)
(***************************************************************************)
EXTENDS Naturals

CONSTANTS
  Sleeps,  \* the Sleep futures
  Tasks,   \* the tasks whose wakers are passed to polls
  Time,    \* the instants
  NoAlarm

VARIABLES
  now,     \* the time
  alive,   \* the sleeps that were created and not dropped
  alarm,   \* per sleep its alarm
  woken,   \* tasks that are to be polled
  running  \* the runtime is inside block_on

vars == <<now, alive, alarm, woken, running>>

Init ==
  /\ now = 0
  /\ alive = {}
  /\ alarm = [s \in Sleeps |-> NoAlarm]
  /\ woken = {}
  /\ running = FALSE

Create(s) ==
  /\ alive' = alive \union {s}
  /\ UNCHANGED <<now, alarm, woken>>

\* A poll before the deadline: from now on the alarm calls this waker.
Set(s, deadline, task) ==
  /\ s \in alive
  /\ now < deadline
  /\ alarm[s] # NoAlarm => alarm[s].deadline = deadline
  /\ alarm' = [alarm EXCEPT ![s] = [deadline |-> deadline, waker |-> task]]
  /\ UNCHANGED <<now, alive, woken>>

Move(s, deadline) ==
  /\ alarm[s] # NoAlarm
  /\ alarm' = [alarm EXCEPT ![s] = [deadline |-> deadline, waker |-> @.waker]]
  /\ UNCHANGED <<now, alive, woken>>

\* A poll at or after the deadline returns Ready and needs no alarm.
Finish(s) ==
  /\ alarm[s] # NoAlarm
  /\ now >= alarm[s].deadline
  /\ alarm' = [alarm EXCEPT ![s] = NoAlarm]
  /\ UNCHANGED <<now, alive, woken>>

Drop(s) ==
  /\ alive' = alive \ {s}
  /\ alarm' = [alarm EXCEPT ![s] = NoAlarm]
  /\ UNCHANGED <<now, woken>>

Due == {s \in Sleeps : alarm[s] # NoAlarm /\ alarm[s].deadline <= now}

GoOff ==
  /\ running
  /\ Due # {}
  /\ woken' = woken \union {alarm[s].waker : s \in Due}
  /\ alarm' = [s \in Sleeps |-> IF s \in Due THEN NoAlarm ELSE alarm[s]]
  /\ UNCHANGED <<now, alive>>

Wake(task) == woken' = woken \union {task} /\ UNCHANGED <<now, alive, alarm>>

Poll(task) == woken' = woken \ {task} /\ UNCHANGED <<now, alive, alarm>>

StartOrStop == running' = ~running /\ UNCHANGED <<now, alive, alarm, woken>>

TimePasses == now' > now /\ UNCHANGED <<alive, alarm, woken>>

Serve ==
  \/ \E s \in Sleeps : Create(s) \/ Finish(s) \/ Drop(s)
  \/ \E s \in Sleeps, d \in Time : Move(s, d) \/ \E task \in Tasks : Set(s, d, task)
  \/ GoOff
  \/ \E task \in Tasks : Wake(task) \/ Poll(task)
  \/ TimePasses

Next == (Serve /\ running' = running) \/ StartOrStop

SafeSpec == Init /\ [][Next]_vars

\* An alarm whose deadline has come goes off while block_on runs.
Spec == SafeSpec /\ WF_vars(GoOff /\ running' = running)
=============================================================================
