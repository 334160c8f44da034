---------------------------- MODULE SpawnContract ----------------------------
(***************************************************************************)
(* What spawning promises to the holder of a JoinHandle, with no queue and *)
(* no waker: a spawned future has exactly one fate.  While the runtime is  *)
(* open the future lives until it finishes by itself (its output or its    *)
(* caught panic); closing the runtime cancels what still lives and what is *)
(* spawned later.  The handle delivers that fate once, and dropping the    *)
(* handle changes nothing about it.                                        *)
(***************************************************************************)
CONSTANTS
  Tasks,    \* the futures that may be spawned
  Escaping  \* those whose polling may unwind past the panic boundary

VARIABLES
  fate,       \* what became of each future
  delivered,  \* the futures whose fate was handed to the awaiter
  open        \* the runtime accepts and runs futures

vars == <<fate, delivered, open>>

Fate == {"Unspawned", "Pending", "Ok", "Panic", "Cancelled"}

Init ==
  /\ fate = [t \in Tasks |-> "Unspawned"]
  /\ delivered = {}
  /\ open = TRUE

Spawn(t) ==
  /\ fate[t] = "Unspawned"
  /\ fate' = [fate EXCEPT ![t] = IF open THEN "Pending" ELSE "Cancelled"]
  /\ UNCHANGED <<delivered, open>>

Finish(t, result) ==
  /\ open
  /\ fate[t] = "Pending"
  /\ fate' = [fate EXCEPT ![t] = result]
  /\ UNCHANGED <<delivered, open>>

Cancel(t) ==
  /\ ~open \/ t \in Escaping
  /\ fate[t] = "Pending"
  /\ fate' = [fate EXCEPT ![t] = "Cancelled"]
  /\ UNCHANGED <<delivered, open>>

Deliver(t) ==
  /\ fate[t] \notin {"Unspawned", "Pending"}
  /\ t \notin delivered
  /\ delivered' = delivered \union {t}
  /\ UNCHANGED <<fate, open>>

Close ==
  /\ open
  /\ open' = FALSE
  /\ UNCHANGED <<fate, delivered>>

Next ==
  \/ \E t \in Tasks : Spawn(t) \/ Cancel(t) \/ Deliver(t)
  \/ \E t \in Tasks, result \in {"Ok", "Panic"} : Finish(t, result)
  \/ Close

SafeSpec == Init /\ [][Next]_vars

\* A closed runtime leaves nobody waiting.
Spec == SafeSpec /\ \A t \in Tasks : WF_vars(~open /\ Cancel(t))
=============================================================================
