---------------------------- MODULE ScheduleState ----------------------------
(***************************************************************************)
(* The per-task scheduling state machine of src/scheduling/state.rs.       *)
(*                                                                         *)
(* `Running { notified: false }` is "Running" and                          *)
(* `Running { notified: true }` is "Notified".  Each transition of the     *)
(* source mutates the state and returns a ScheduleAction; here the new     *)
(* state and "is the action Enqueue?" are two operators.  The actions None *)
(* and Complete are not told apart: no caller does.                        *)
(***************************************************************************)
ScheduleState == {"Idle", "Queued", "Running", "Notified", "Complete"}

\* ScheduleState::wake, the state it leaves behind.
wake(s) ==
  CASE s = "Idle"    -> "Queued"
    [] s = "Running" -> "Notified"
    [] OTHER         -> s

\* Mutation: waking a task that is already queued enqueues it again.
wake_enqueues_twice(s) == s \in {"Idle", "Queued"}

\* Mutation: waking a running task also enqueues it at once.
wake_enqueues_running(s) == s \in {"Idle", "Running"}

\* Mutation: the wake changes the state but nobody enqueues the task.
wake_enqueues_never(s) == FALSE

\* ScheduleState::wake, whether it returns ScheduleAction::Enqueue.
wake_enqueues(s) == s = "Idle"

\* ScheduleState::begin_poll; any state but Queued is `unreachable!`.
begin_poll_allowed(s) == s = "Queued"

\* Mutation: a completed task that was woken during its last poll is
\* requeued like a pending one.
finish_poll_requeues(s, isReady) ==
  CASE s = "Notified" -> "Queued"
    [] s = "Running"  -> IF isReady THEN "Complete" ELSE "Idle"

\* ScheduleState::finish_poll of a running task, the state it leaves behind.
finish_poll(s, isReady) ==
  CASE isReady                    -> "Complete"
    [] ~isReady /\ s = "Running"  -> "Idle"
    [] ~isReady /\ s = "Notified" -> "Queued"

\* Mutation: the task returns to Queued but is not sent to the executor.
finish_poll_never_enqueues(s, isReady) == FALSE

\* ScheduleState::finish_poll, whether it returns ScheduleAction::Enqueue.
finish_poll_enqueues(s, isReady) == ~isReady /\ s = "Notified"

\* What a state means in WakeContract, where Queued and Notified are one bit.
PhaseOf == [Idle |-> "Waiting", Queued |-> "Waiting", Running |-> "Polling",
            Notified |-> "Polling", Complete |-> "Done"]
=============================================================================
