-------------------------- MODULE ScheduleStateProofs --------------------------
(***************************************************************************)
(* Lemmas about the transitions of ScheduleState and about the channel of  *)
(* ids, on which the proofs about TaskSchedule and Executor rest.          *)
(***************************************************************************)
EXTENDS ScheduleState, Sequences, Naturals, TLAPS

\* What Append does to a channel of ids, used by every send.
LEMMA AppendFacts ==
  ASSUME NEW S, NEW s \in Seq(S), NEW e \in S
  PROVE  /\ Append(s, e) \in Seq(S)
         /\ DOMAIN Append(s, e) = 1 .. Len(s) + 1
         /\ DOMAIN s = 1 .. Len(s)
         /\ Len(s) \in Nat
         /\ \A i \in 1 .. Len(s) : Append(s, e)[i] = s[i]
         /\ Append(s, e)[Len(s) + 1] = e
  OBVIOUS

\* What taking the oldest id leaves in the channel, used by Recv.
LEMMA TailFacts ==
  ASSUME NEW S, NEW s \in Seq(S), s # <<>>
  PROVE  /\ Head(s) \in S
         /\ Head(s) = s[1]
         /\ Tail(s) \in Seq(S)
         /\ Len(s) \in Nat \ {0}
         /\ DOMAIN s = 1 .. Len(s)
         /\ DOMAIN Tail(s) = 1 .. Len(s) - 1
         /\ \A i \in 1 .. Len(s) - 1 : Tail(s)[i] = s[i + 1]
  OBVIOUS

-----------------------------------------------------------------------------
\* finish_poll of a running schedule yields a schedule state: the case
\* analysis of the source leaves out no state a poll can end in.
LEMMA FinishPollFacts ==
  ASSUME NEW s \in {"Running", "Notified"}, NEW isReady \in BOOLEAN
  PROVE  /\ finish_poll(s, isReady) \in ScheduleState
         /\ finish_poll(s, isReady) = "Queued" <=> finish_poll_enqueues(s, isReady)
         /\ finish_poll(s, isReady)
              \in (IF isReady THEN {"Complete"} ELSE {"Idle", "Queued"})
  BY DEF finish_poll, finish_poll_enqueues, ScheduleState

\* A wake queues exactly the schedules that were Queued or that it enqueues.
LEMMA WakeFacts ==
  ASSUME NEW s \in ScheduleState
  PROVE  /\ wake(s) \in ScheduleState
         /\ wake(s) = "Queued" <=> s = "Queued" \/ wake_enqueues(s)
         /\ wake_enqueues(s) => s = "Idle"
         /\ wake_enqueues(s) \in BOOLEAN
         /\ wake(s) \in {"Queued", "Notified", "Complete"}
         /\ wake(s) = "Complete" <=> s = "Complete"
         /\ wake(s) = "Notified" <=> s \in {"Running", "Notified"}
  BY DEF wake, wake_enqueues, ScheduleState
=============================================================================
