---------------------------- MODULE WakeContract -----------------------------
(***************************************************************************)
(* What the scheduling component promises, with no queue, no lock and no   *)
(* thread: `Pending` means "poll me after I signal readiness".  A task     *)
(* carries one bit, notified.  A wake sets it, the start of a poll clears  *)
(* it, and a poll starts only when it is set; so every poll answers a      *)
(* wake, any number of wakes before a poll coalesce into that one poll,    *)
(* and a wake during a poll asks for one more.  A finished task is never   *)
(* polled again, and wakes that reach it are ignored.                      *)
(***************************************************************************)
CONSTANT Tasks

VARIABLES phase, notified

vars == <<phase, notified>>

Phase == {"New", "Waiting", "Polling", "Done"}

TypeOK ==
  /\ phase \in [Tasks -> Phase]
  /\ notified \subseteq Tasks

Init ==
  /\ phase = [t \in Tasks |-> "New"]
  /\ notified = {}

\* A new task starts out notified: it owes its first poll to nobody's wake.
Submit(t) ==
  /\ phase[t] = "New"
  /\ phase' = [phase EXCEPT ![t] = "Waiting"]
  /\ notified' = notified \union {t}

Notify(t) ==
  /\ phase[t] \in {"Waiting", "Polling"}
  /\ notified' = notified \union {t}
  /\ UNCHANGED phase

StartPoll(t) ==
  /\ phase[t] = "Waiting"
  /\ t \in notified
  /\ phase' = [phase EXCEPT ![t] = "Polling"]
  /\ notified' = notified \ {t}

\* The poll returned Pending: a wake that arrived meanwhile stays recorded.
Suspend(t) ==
  /\ phase[t] = "Polling"
  /\ phase' = [phase EXCEPT ![t] = "Waiting"]
  /\ UNCHANGED notified

\* The poll returned Ready.
Finish(t) ==
  /\ phase[t] = "Polling"
  /\ phase' = [phase EXCEPT ![t] = "Done"]
  /\ notified' = notified \ {t}

Next ==
  \E t \in Tasks :
    Submit(t) \/ Notify(t) \/ StartPoll(t) \/ Suspend(t) \/ Finish(t)

SafeSpec == Init /\ [][Next]_vars

\* No notification is lost: a task that waits with the bit set is polled.
Spec == SafeSpec /\ \A t \in Tasks : WF_vars(StartPoll(t))
=============================================================================
