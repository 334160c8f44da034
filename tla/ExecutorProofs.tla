----------------------------- MODULE ExecutorProofs -----------------------------
(***************************************************************************)
(* Proofs about Executor, for any tasks, any other threads and any number  *)
(* of block_on calls.                                                      *)
(***************************************************************************)
EXTENDS Executor, ScheduleStateProofs, SequenceTheorems

Ids(S) == {Id(s) : s \in S}

LEMMA Names ==
  /\ None \notin Schedules
  /\ Roots \subseteq Nat /\ Tasks \cap Roots = {}
  /\ \A s \in Tasks : Id(s) = s
  /\ \A r \in Roots : Id(r) = ROOT_TASK_ID
  /\ ROOT_TASK_ID \notin Tasks
  /\ \A s \in Schedules : Id(s) # None
  BY ExecutorAssumption DEF Schedules, Roots, Id, ROOT_TASK_ID

\* A step that may wake schedules that exist, and does nothing else to the
\* schedules and their queue.
OnlyWakes ==
  /\ created' = created
  /\ state' \in [Schedules -> ScheduleState]
  /\ ready' \in Seq(Ids(created))
  /\ \A s \in Schedules :
       /\ s \notin created => state'[s] = state[s]
       /\ state[s] \in {"Running", "Notified"} => state'[s] \in {"Running", "Notified"}
       /\ state'[s] \in {"Idle", "Queued"} => state[s] \in {"Idle", "Queued"}
       /\ state'[s] = "Complete" <=> state[s] = "Complete"

LEMMA RequestOnlyWakes ==
  ASSUME TypeOK, NEW s \in created, RequestSchedule(s)
  PROVE  OnlyWakes
<1>1. /\ state \in [Schedules -> ScheduleState] /\ s \in Schedules
      /\ ready \in Seq(Ids(created)) /\ Id(s) \in Ids(created)
  BY DEF TypeOK, Ids
<1>2. /\ created' = created
      /\ state' = [state EXCEPT ![s] = wake(state[s])]
      /\ ready' = ready \/ ready' = Append(ready, Id(s))
  BY DEF RequestSchedule, push
<1>3. ready' \in Seq(Ids(created))
  BY <1>1, <1>2, AppendFacts
<1>4. /\ wake(state[s]) \in ScheduleState
      /\ wake(state[s]) \in {"Queued", "Notified", "Complete"}
      /\ wake(state[s]) = "Complete" <=> state[s] = "Complete"
      /\ wake(state[s]) = "Notified" <=> state[s] \in {"Running", "Notified"}
  BY <1>1, WakeFacts
<1> QED BY <1>1, <1>2, <1>3, <1>4 DEF OnlyWakes, ScheduleState

\* Publishing a result, or dropping a sender, wakes the waiter at most.
LEMMA PublishOnlyWakes ==
  ASSUME TypeOK, NEW t \in Tasks, NEW result, Publish(t, result)
  PROVE  OnlyWakes
<1>1. CASE UNCHANGED queue
  BY <1>1 DEF TypeOK, OnlyWakes, queue, Ids
<1>2. CASE ~UNCHANGED queue
  <2>1. waker[t] # None /\ RequestSchedule(waker[t])
    BY <1>2 DEF Publish, WakeWaiter, queue
  <2>2. waker[t] \in created
    BY <2>1 DEF TypeOK
  <2> QED BY <2>1, <2>2, RequestOnlyWakes
<1> QED BY <1>1, <1>2

\* What it does to the joins.
LEMMA PublishTakesSender ==
  ASSUME TypeOK, NEW t \in Tasks, NEW result, Publish(t, result)
  PROVE  /\ senders' = senders \ {t}
         /\ t \in senders => /\ join' = [join EXCEPT ![t] = result]
                             /\ waker' = [waker EXCEPT ![t] = None]
                             /\ waiter' = [waiter EXCEPT ![t] = None]
         /\ t \notin senders => UNCHANGED <<join, waker, waiter>>
  BY DEF Publish, take_state, complete

\* A fresh schedule is requested, by spawn or by block_on.
LEMMA RequestFresh ==
  ASSUME TypeOK, FuturesHaveOnePlace, NEW s \in Schedules \ created, RequestSchedule(s)
  PROVE  /\ created' = created \union {s}
         /\ state' = [state EXCEPT ![s] = "Queued"]
         /\ ready' \in Seq(Ids(created'))
<1>1. state[s] = "Idle"
  BY DEF FuturesHaveOnePlace
<1>2. wake("Idle") = "Queued"
  BY DEF wake
<1>3. ready \in Seq(Ids(created')) /\ Id(s) \in Ids(created')
  <2>1. ready \in Seq(Ids(created))
    BY DEF TypeOK, Ids
  <2>2. Ids(created) \subseteq Ids(created') /\ Id(s) \in Ids(created')
    BY DEF RequestSchedule, Ids
  <2> QED BY <2>1, <2>2, SeqMonotonic
<1>4. ready' = ready \/ ready' = Append(ready, Id(s))
  BY DEF RequestSchedule, push
<1>5. ready' \in Seq(Ids(created'))
  <2> DEFINE S == Ids(created')
  <2> HIDE DEF S
  <2>1. ready \in Seq(S) /\ Id(s) \in S
    BY <1>3 DEF S
  <2>2. Append(ready, Id(s)) \in Seq(S)
    BY <2>1, AppendFacts
  <2> QED BY <1>4, <2>1, <2>2 DEF S
<1> QED BY <1>1, <1>2, <1>5 DEF RequestSchedule, TypeOK

\* The typing part of the induction.
LEMMA TypeStep == IndInv /\ [Next]_vars => TypeOK'
<1> SUFFICES ASSUME IndInv, [Next]_vars
             PROVE  TypeOK'
  OBVIOUS
<1>t. /\ TypeOK /\ FuturesHaveOnePlace /\ PlaceTellsQueues
      /\ ready \in Seq(Ids(created)) /\ state \in [Schedules -> ScheduleState]
  BY DEF IndInv, TypeOK, Ids
<1> USE ExecutorAssumption DEF joins, queue
<1>w. ASSUME OnlyWakes, UNCHANGED <<sending, closed, consumed, handles, root>>,
             pending_spawns' \in Seq(Tasks \cap created), tasks' \subseteq tasks,
             join' \in [Tasks -> {"Unspawned", "Pending", "Ok", "Panic", "Cancelled"}],
             senders' \subseteq senders, waker' \in [Tasks -> created \union {None}],
             waiter' \in [Tasks -> created \union {None}],
             pc' \in {"out", "recv", "poll", "finish", "clearing", "dropping", "dropped"},
             current' \in (IF pc' \in {"poll", "finish"} THEN created ELSE {None})
      PROVE  TypeOK'
  BY <1>t, <1>w DEF TypeOK, OnlyWakes, Ids
<1>u. ASSUME NEW t \in Tasks, NEW result \in {"Ok", "Panic", "Cancelled"}, Publish(t, result)
      PROVE  /\ OnlyWakes /\ senders' \subseteq senders
             /\ join' \in [Tasks -> {"Unspawned", "Pending", "Ok", "Panic", "Cancelled"}]
             /\ waker' \in [Tasks -> created \union {None}]
             /\ waiter' \in [Tasks -> created \union {None}]
  <2>1. OnlyWakes
    BY <1>t, <1>u, PublishOnlyWakes
  <2>2. /\ senders' = senders \ {t}
        /\ join' = join \/ join' = [join EXCEPT ![t] = result]
        /\ waker' = waker \/ waker' = [waker EXCEPT ![t] = None]
        /\ waiter' = waiter \/ waiter' = [waiter EXCEPT ![t] = None]
    BY <1>t, <1>u, PublishTakesSender
  <2>3. waker' \in [Tasks -> created \union {None}]
    BY <1>t, <2>2 DEF TypeOK
  <2>4. waiter' \in [Tasks -> created \union {None}]
    BY <1>t, <2>2 DEF TypeOK
  <2> QED BY <1>t, <2>1, <2>2, <2>3, <2>4 DEF TypeOK
<1>1. ASSUME NEW s \in Schedules, WakeLocal(s)
      PROVE  TypeOK'
  <2>1. OnlyWakes
    BY <1>1, <1>t, RequestOnlyWakes DEF WakeLocal
  <2> QED BY <1>1, <1>t, <2>1 DEF WakeLocal, TypeOK, OnlyWakes, Ids
<1>2. ASSUME NEW p \in Threads, NEW s \in Schedules, WakeRemote(p, s)
      PROVE  TypeOK'
  <2>1. wake(state[s]) \in ScheduleState
    BY <1>t, WakeFacts
  <2> QED BY <1>2, <1>t, <2>1 DEF WakeRemote, TypeOK
<1>3. ASSUME NEW p \in Threads, SendRemote(p)
      PROVE  TypeOK'
  <2>1. Id(sending[p]) \in Ids(created)
    BY <1>3, <1>t DEF SendRemote, TypeOK, Ids
  <2>2. ready' \in Seq(Ids(created))
    BY <1>3, <1>t, <2>1, AppendFacts DEF SendRemote, push
  <2> QED BY <1>3, <1>t, <2>2 DEF SendRemote, TypeOK, Ids
<1>4. ASSUME NEW t \in Tasks, PollJoin(t) \/ DropHandle(t)
      PROVE  TypeOK'
  <2>1. CASE PollJoin(t)
    BY <1>t, <2>1 DEF PollJoin, register_waker, TypeOK
  <2>2. CASE DropHandle(t)
    BY <1>t, <2>2 DEF DropHandle, Detach, TypeOK
  <2> QED BY <1>4, <2>1, <2>2
<1>5. ASSUME NEW t \in Tasks, Spawn(t)
      PROVE  TypeOK'
  <2>1. CASE accepts
    <3>1. t \in Schedules \ created
      BY <1>5, <1>t DEF Spawn, NewId, FuturesHaveOnePlace, Schedules
    <3>2. /\ RequestSchedule(t) /\ JoinPair(t, "Pending")
          /\ senders' = senders \union {t} /\ pending_spawns' = Append(pending_spawns, t)
          /\ UNCHANGED <<sending, tasks, closed, root, pc, current>>
      BY <1>5, <2>1 DEF Spawn, submit
    <3>3. /\ created' = created \union {t}
          /\ state' = [state EXCEPT ![t] = "Queued"]
          /\ ready' \in Seq(Ids(created'))
      BY <1>t, <3>1, <3>2, RequestFresh
    <3>4. pending_spawns' \in Seq(Tasks \cap created')
      <4>1. pending_spawns \in Seq(Tasks \cap created')
        BY <1>t, <3>3, SeqMonotonic DEF TypeOK
      <4> QED BY <3>2, <3>3, <4>1, AppendFacts
    <3>5. created' \subseteq Schedules /\ created' \cap Roots = 1 .. root'
      BY <1>t, <3>1, <3>2, <3>3, Names DEF TypeOK
    <3>6. state' \in [Schedules -> ScheduleState]
      BY <1>t, <3>3 DEF ScheduleState
    <3>7. /\ join' \in [Tasks -> {"Unspawned", "Pending", "Ok", "Panic", "Cancelled"}]
          /\ handles' \subseteq Tasks /\ UNCHANGED <<consumed, waker, waiter>>
      BY <1>t, <3>2 DEF JoinPair, TypeOK
    <3> QED BY <1>t, <3>2, <3>3, <3>4, <3>5, <3>6, <3>7 DEF TypeOK, Ids
  <2>2. CASE ~accepts
    BY <1>5, <1>t, <2>2 DEF Spawn, submit, JoinPair, TypeOK
  <2> QED BY <2>1, <2>2
<1>6. CASE BlockOn
  <2>1. /\ root + 1 \in Roots /\ root + 1 \in Schedules \ created
        /\ (created \union {root + 1}) \cap Roots = 1 .. root + 1
    BY <1>6, <1>t DEF BlockOn, TypeOK, Schedules, Roots
  <2>2. /\ created' = created \union {root + 1}
        /\ state' = [state EXCEPT ![root + 1] = "Queued"]
        /\ ready' \in Seq(Ids(created'))
    BY <1>6, <1>t, <2>1, RequestFresh DEF BlockOn, new_root
  <2>3. pending_spawns \in Seq(Tasks \cap created')
    BY <1>t, <2>2, SeqMonotonic DEF TypeOK
  <2>4. root' \in 0 .. MaxBlockOns
    BY <1>6, <1>t DEF BlockOn, TypeOK
  <2>5. state' \in [Schedules -> ScheduleState]
    BY <1>t, <2>2 DEF ScheduleState
  <2> QED BY <1>6, <1>t, <2>1, <2>2, <2>3, <2>4, <2>5 DEF BlockOn, TypeOK, Ids
<1>7. CASE DrainPendingSpawns
  BY <1>7, <1>t DEF DrainPendingSpawns, TypeOK
<1>8. CASE Recv
  <2>1. Head(ready) \in Ids(created) /\ Tail(ready) \in Seq(Ids(created))
    BY <1>8, <1>t, TailFacts DEF Recv
  <2>2. current' \in created
    <3>1. CASE Head(ready) = ROOT_TASK_ID
      BY <1>8, <1>t, <3>1 DEF Recv, PlaceTellsQueues, InBlockOn
    <3>2. CASE Head(ready) # ROOT_TASK_ID
      BY <1>8, <2>1, <3>2 DEF Recv, Ids, Id
    <3> QED BY <3>1, <3>2
  <2> QED BY <1>8, <1>t, <2>1, <2>2 DEF Recv, TypeOK, Ids
<1>9. CASE \/ RecvTimeout \/ WakerPanics \/ LookupPanics \/ PublishEscapes
           \/ DropExecutor \/ PendingSpawnsCleared \/ RootPanics
  BY <1>9, <1>t DEF RecvTimeout, WakerPanics, LookupPanics, PublishEscapes, DropExecutor, close,
                    PendingSpawnsCleared, RootPanics, abandon, TypeOK
<1>10. CASE BeginPoll
  BY <1>10, <1>t DEF BeginPoll, TypeOK, ScheduleState
<1>11. CASE FinishPending
  <2>1. /\ current \in created /\ current \in Schedules
        /\ finish_poll(state[current], FALSE) \in ScheduleState
    BY <1>11, <1>t, FinishPollFacts DEF FinishPending, PlaceTellsQueues, TypeOK
  <2>2. ready' \in Seq(Ids(created))
    BY <1>11, <1>t, <2>1, AppendFacts DEF FinishPending, push, Ids
  <2> QED BY <1>11, <1>t, <2>1, <2>2 DEF FinishPending, round, TypeOK, Ids
<1>12. ASSUME NEW result \in {"Ok", "Panic"}, PublishResult(result)
       PROVE  TypeOK'
  BY <1>12, <1>t, <1>u, <1>w DEF PublishResult, TypeOK
<1>13. CASE FinishReady \/ RootReady
  <2>1. finish_poll(state[current], TRUE) \in ScheduleState
    BY <1>13, <1>t, FinishPollFacts DEF FinishReady, RootReady, PlaceTellsQueues, TypeOK
  <2>2. CASE FinishReady
    BY <1>t, <2>1, <2>2 DEF FinishReady, remove, round, TypeOK
  <2>3. CASE RootReady
    BY <1>t, <2>1, <2>3 DEF RootReady, TypeOK
  <2> QED BY <1>13, <2>2, <2>3
<1>14. CASE TaskEscapes
  BY <1>14, <1>t, <1>u, <1>w DEF TaskEscapes, TypeOK
<1>15. CASE ClearPendingSpawn
  <2>1. Head(pending_spawns) \in Tasks /\ Tail(pending_spawns) \in Seq(Tasks \cap created)
    BY <1>15, <1>t, TailFacts DEF ClearPendingSpawn, TypeOK
  <2> QED BY <1>15, <1>t, <1>u, <1>w, <2>1 DEF ClearPendingSpawn, TypeOK
<1>16. ASSUME NEW t \in Tasks, DropTask(t)
       PROVE  TypeOK'
  BY <1>16, <1>t, <1>u, <1>w DEF DropTask, TypeOK
<1>17. CASE DropReceiver
  BY <1>17, <1>t DEF DropReceiver, TypeOK
<1>18. CASE UNCHANGED vars
  BY <1>18, <1>t DEF vars, TypeOK
<1> QED
  BY <1>1, <1>2, <1>3, <1>4, <1>5, <1>6, <1>7, <1>8, <1>9, <1>10, <1>11, <1>12, <1>13,
     <1>14, <1>15, <1>16, <1>17, <1>18 DEF Next, EndPoll, Shutdown

-----------------------------------------------------------------------------
\* What the executor, its queue of spawns and the joins know of each other.
LifeInv ==
  /\ PlaceTellsQueues
  /\ FuturesHaveOnePlace
  /\ OneSenderPerPendingJoin
  /\ PendingJoinsAreOwned

\* Pending spawns at a spawn ...
LEMMA AppendPending ==
  ASSUME NEW t \in Tasks, pending_spawns \in Seq(Tasks),
         pending_spawns' = Append(pending_spawns, t), ~Pending(t),
         \A i, j \in DOMAIN pending_spawns : pending_spawns[i] = pending_spawns[j] => i = j
  PROVE  /\ \A u \in Tasks : Pending(u)' <=> Pending(u) \/ u = t
         /\ (\A i, j \in DOMAIN pending_spawns :
               pending_spawns[i] = pending_spawns[j] => i = j)'
<1>1. /\ DOMAIN pending_spawns' = 1 .. Len(pending_spawns) + 1
      /\ DOMAIN pending_spawns = 1 .. Len(pending_spawns)
      /\ Len(pending_spawns) \in Nat
      /\ \A i \in 1 .. Len(pending_spawns) : pending_spawns'[i] = pending_spawns[i]
      /\ pending_spawns'[Len(pending_spawns) + 1] = t
  BY AppendFacts
<1> QED BY <1>1 DEF Pending

\* ... and when the oldest one is dropped.
LEMMA TailPending ==
  ASSUME pending_spawns \in Seq(Tasks), pending_spawns # <<>>,
         pending_spawns' = Tail(pending_spawns),
         \A i, j \in DOMAIN pending_spawns : pending_spawns[i] = pending_spawns[j] => i = j
  PROVE  /\ Head(pending_spawns) \in Tasks /\ Pending(Head(pending_spawns))
         /\ \A u \in Tasks : Pending(u)' <=> Pending(u) /\ u # Head(pending_spawns)
         /\ (\A i, j \in DOMAIN pending_spawns :
               pending_spawns[i] = pending_spawns[j] => i = j)'
<1>1. /\ Head(pending_spawns) \in Tasks
      /\ Head(pending_spawns) = pending_spawns[1]
      /\ Len(pending_spawns) \in Nat \ {0}
      /\ DOMAIN pending_spawns = 1 .. Len(pending_spawns)
      /\ DOMAIN pending_spawns' = 1 .. Len(pending_spawns) - 1
      /\ \A i \in 1 .. Len(pending_spawns) - 1 : pending_spawns'[i] = pending_spawns[i + 1]
  BY TailFacts
<1>2. \A i \in 2 .. Len(pending_spawns) :
        i - 1 \in 1 .. Len(pending_spawns) - 1 /\ (i - 1) + 1 = i
  BY <1>1
<1>3. \A i \in 2 .. Len(pending_spawns) : pending_spawns'[i - 1] = pending_spawns[i]
  BY <1>1, <1>2
<1>4. ASSUME NEW u \in Tasks, Pending(u), u # Head(pending_spawns)
      PROVE  Pending(u)'
  <2>1. PICK i \in 2 .. Len(pending_spawns) : pending_spawns[i] = u
    BY <1>1, <1>4 DEF Pending
  <2> QED BY <1>1, <1>2, <1>3, <2>1 DEF Pending
<1>5. ASSUME NEW u \in Tasks, Pending(u)'
      PROVE  Pending(u) /\ u # Head(pending_spawns)
  BY <1>1, <1>5 DEF Pending
<1> QED BY <1>1, <1>4, <1>5 DEF Pending

\* Wakes of existing schedules change nothing in the life of a future.
LEMMA WakesKeepLife ==
  ASSUME TypeOK, LifeInv, OnlyWakes,
         UNCHANGED <<pending_spawns, tasks, closed, join, senders, waker, waiter, handles, root,
                     pc, current>>
  PROVE  LifeInv'
<1> USE DEF LifeInv, OnlyWakes
<1>1. /\ current \notin Roots => current \in Tasks \union {None}
      /\ current \in Schedules \/ pc \notin {"poll", "finish"}
  BY Names DEF TypeOK, Schedules
<1>2. \A t \in Tasks : t \in Schedules /\ (Pending(t)' <=> Pending(t)) /\ (Owned(t)' <=> Owned(t))
  BY DEF Schedules, Pending, Owned
<1>3. PlaceTellsQueues'
  BY <1>1 DEF PlaceTellsQueues, InBlockOn
<1>4. FuturesHaveOnePlace'
  BY <1>2 DEF FuturesHaveOnePlace, TypeOK
<1>5. OneSenderPerPendingJoin' /\ PendingJoinsAreOwned'
  BY <1>2 DEF OneSenderPerPendingJoin, PendingJoinsAreOwned
<1> QED BY <1>3, <1>4, <1>5

\* Joining: a waker is registered, or forgotten with its handle.
LEMMA JoinKeepsLife ==
  ASSUME TypeOK, LifeInv, NEW t \in Tasks, PollJoin(t) \/ DropHandle(t)
  PROVE  LifeInv'
<1> USE DEF LifeInv, joins, queue
<1>1. /\ UNCHANGED <<created, state, pending_spawns, tasks, closed, join, senders, root, pc,
                     current>>
      /\ \A u \in Tasks \ {t} : /\ waker'[u] = waker[u] /\ waiter'[u] = waiter[u]
                                /\ u \in handles' <=> u \in handles
      /\ handles' \subseteq handles
      /\ waker'[t] # None => t \in senders /\ t \in handles'
      /\ waker'[t] = waiter'[t]
  <2>1. CASE PollJoin(t)
    BY <2>1 DEF PollJoin, register_waker, TypeOK, OneSenderPerPendingJoin
  <2>2. CASE DropHandle(t)
    BY <2>2 DEF DropHandle, Detach, TypeOK, OneSenderPerPendingJoin
  <2> QED BY <2>1, <2>2
<1>2. \A u \in Tasks : (Pending(u)' <=> Pending(u)) /\ (Owned(u)' <=> Owned(u))
  BY <1>1 DEF Pending, Owned
<1>3. PlaceTellsQueues'
  BY <1>1 DEF PlaceTellsQueues, InBlockOn
<1>4. FuturesHaveOnePlace'
  BY <1>1, <1>2 DEF FuturesHaveOnePlace
<1>5. OneSenderPerPendingJoin'
  <2>1. ASSUME NEW u \in Tasks
        PROVE  /\ waker'[u] # None => u \in senders /\ u \in handles'
               /\ waker'[u] = waiter'[u]
    <3>1. CASE u = t
      BY <1>1, <3>1
    <3>2. CASE u # t
      BY <1>1, <3>2 DEF OneSenderPerPendingJoin
    <3> QED BY <3>1, <3>2
  <2> QED BY <1>1, <2>1 DEF OneSenderPerPendingJoin
<1>6. PendingJoinsAreOwned'
  BY <1>1, <1>2 DEF PendingJoinsAreOwned
<1> QED BY <1>3, <1>4, <1>5, <1>6

\* A spawned future starts with everything it needs, or not at all.
LEMMA SpawnKeepsLife ==
  ASSUME TypeOK, LifeInv, NEW t \in Tasks, Spawn(t)
  PROVE  LifeInv'
<1> USE DEF LifeInv
<1>1. /\ join[t] = "Unspawned" /\ t \in Schedules \ created
      /\ t \notin senders /\ ~Pending(t) /\ t \notin tasks
      /\ waker[t] = None /\ state[t] = "Idle"
  BY DEF Spawn, NewId, FuturesHaveOnePlace, OneSenderPerPendingJoin, Schedules, TypeOK
<1>2. CASE accepts
  <2>1. /\ ~closed /\ RequestSchedule(t) /\ JoinPair(t, "Pending")
        /\ senders' = senders \union {t} /\ pending_spawns' = Append(pending_spawns, t)
        /\ UNCHANGED <<sending, tasks, closed, root, pc, current>>
    BY <1>2 DEF Spawn, submit, accepts
  <2>2. /\ created' = created \union {t}
        /\ state' = [state EXCEPT ![t] = "Queued"]
    BY <1>1, <2>1, RequestFresh
  <2>3. /\ join' = [join EXCEPT ![t] = "Pending"]
        /\ handles' = handles \union {t}
        /\ UNCHANGED <<waker, waiter>>
    BY <2>1 DEF JoinPair
  <2>4. /\ \A u \in Tasks : Pending(u)' <=> Pending(u) \/ u = t
        /\ (\A i, j \in DOMAIN pending_spawns :
              pending_spawns[i] = pending_spawns[j] => i = j)'
    <3>1. pending_spawns \in Seq(Tasks)
      BY SeqMonotonic DEF TypeOK
    <3> QED BY <1>1, <2>1, <3>1, AppendPending DEF FuturesHaveOnePlace
  <2>5. pc \in {"out", "poll", "finish"} \/ (pc = "recv" /\ "reenter" \in CustomWakers)
    BY <2>1 DEF Spawn, UserCode, PlaceTellsQueues
  <2>6. PlaceTellsQueues'
    <3>1. current # t \/ pc \notin {"poll", "finish"}
      BY <1>1 DEF TypeOK
    <3>2. pc \in {"poll", "finish"} => state'[current] = state[current]
      BY <2>2, <3>1 DEF TypeOK
    <3>3. pc = "finish" => join'[current] = join[current]
      BY <2>3, <3>1 DEF TypeOK, PlaceTellsQueues
    <3> QED BY <2>1, <2>2, <2>5, <3>2, <3>3 DEF PlaceTellsQueues, InBlockOn
  <2>7. FuturesHaveOnePlace'
    <3>1. \A u \in Tasks \ {t} : (u \in created' <=> u \in created) /\ state'[u] = state[u]
            /\ join'[u] = join[u]
      BY <2>2, <2>3 DEF TypeOK
    <3>2. join'[t] = "Pending" /\ Owned(t)'
      BY <2>3, <2>4 DEF TypeOK, Owned
    <3>3. \A s \in Schedules \ created' : state'[s] = "Idle"
      BY <2>2 DEF FuturesHaveOnePlace, TypeOK
    <3> QED BY <1>1, <2>1, <2>2, <2>3, <2>4, <3>1, <3>2, <3>3 DEF FuturesHaveOnePlace, Owned
  <2>8. OneSenderPerPendingJoin'
    BY <1>1, <2>1, <2>3 DEF OneSenderPerPendingJoin, TypeOK
  <2>9. PendingJoinsAreOwned'
    <3>1. \A u \in Tasks \ {t} : (u \in created' <=> u \in created) /\ state'[u] = state[u]
            /\ join'[u] = join[u] /\ (Owned(u)' <=> Owned(u))
      BY <2>1, <2>2, <2>3, <2>4 DEF TypeOK, Owned
    <3>2. join'[t] = "Pending" /\ Owned(t)' /\ state'[t] = "Queued" /\ current # t
      <4>1. current # t
        BY <1>1, Names DEF TypeOK, Schedules
      <4> QED BY <1>1, <2>2, <2>3, <2>4, <4>1 DEF TypeOK, Owned
    <3> QED BY <2>1, <2>3, <3>1, <3>2 DEF PendingJoinsAreOwned
  <2> QED BY <2>6, <2>7, <2>8, <2>9
<1>3. CASE ~accepts
  <2>1. /\ closed
        /\ join' = [join EXCEPT ![t] = "Cancelled"]
        /\ handles' = handles \union {t}
        /\ UNCHANGED <<waker, waiter, senders, pending_spawns, created, state, tasks, closed,
                       root, pc, current>>
    BY <1>3 DEF Spawn, submit, accepts, JoinPair, queue
  <2>2. \A u \in Tasks : (Pending(u)' <=> Pending(u)) /\ (Owned(u)' <=> Owned(u))
    BY <2>1 DEF Pending, Owned
  <2>3. PlaceTellsQueues'
    BY <2>1 DEF PlaceTellsQueues, InBlockOn
  <2>4. FuturesHaveOnePlace'
    BY <1>1, <2>1, <2>2 DEF FuturesHaveOnePlace, TypeOK
  <2>5. OneSenderPerPendingJoin'
    BY <1>1, <2>1 DEF OneSenderPerPendingJoin, TypeOK
  <2>6. PendingJoinsAreOwned'
    <3>1. \A u \in Tasks \ {t} : join'[u] = join[u]
      BY <2>1 DEF TypeOK
    <3>2. join'[t] = "Cancelled"
      BY <2>1 DEF TypeOK
    <3> QED BY <1>1, <2>1, <2>2, <3>1, <3>2 DEF PendingJoinsAreOwned
  <2> QED BY <2>3, <2>4, <2>5, <2>6
<1> QED BY <1>2, <1>3

\* Resolving a join takes its sender and its waker together.
LEMMA PublishKeepsJoins ==
  ASSUME TypeOK, LifeInv, NEW t \in Tasks, NEW result \in {"Ok", "Panic", "Cancelled"},
         Publish(t, result), handles' = handles
  PROVE  /\ OneSenderPerPendingJoin'
         /\ senders' = senders \ {t}
         /\ \A u \in Tasks \ {t} : join'[u] = join[u]
         /\ join'[t] = IF t \in senders THEN result ELSE join[t]
<1>1. /\ senders' = senders \ {t}
      /\ t \in senders => /\ join' = [join EXCEPT ![t] = result]
                          /\ waker' = [waker EXCEPT ![t] = None]
                          /\ waiter' = [waiter EXCEPT ![t] = None]
      /\ t \notin senders => UNCHANGED <<join, waker, waiter>>
  BY PublishTakesSender
<1> QED BY <1>1 DEF LifeInv, OneSenderPerPendingJoin, TypeOK

\* The end of a future, by its result or by a panic nobody catches.
LEMMA EndKeepsLife ==
  ASSUME TypeOK, LifeInv, TaskEscapes \/ \E result \in {"Ok", "Panic"} : PublishResult(result)
  PROVE  LifeInv'
<1> USE DEF LifeInv
<1>1. PICK result \in {"Ok", "Panic", "Cancelled"} :
        /\ pc = "poll" /\ current \in Tasks
        /\ Publish(current, result)
        /\ UNCHANGED <<sending, pending_spawns, tasks, closed, consumed, handles, root>>
        /\ \/ result # "Cancelled" /\ pc' = "finish" /\ UNCHANGED current
           \/ result = "Cancelled" /\ pc' = "out" /\ current' = None
  BY ExecutorAssumption DEF TaskEscapes, PublishResult
<1>2. /\ OnlyWakes
      /\ OneSenderPerPendingJoin'
      /\ senders' = senders \ {current}
      /\ \A u \in Tasks \ {current} : join'[u] = join[u]
      /\ join'[current] = IF current \in senders THEN result ELSE join[current]
  BY <1>1, PublishOnlyWakes, PublishKeepsJoins
<1>3. /\ current \in senders /\ current \in tasks /\ current \in Schedules /\ current \in created
      /\ state[current] \in {"Running", "Notified"}
      /\ state'[current] \in {"Running", "Notified"}
      /\ join[current] = "Pending" /\ ~closed
      /\ current \notin Roots /\ None \notin Roots /\ None \notin Tasks
  BY <1>1, <1>2, Names
  DEF PlaceTellsQueues, TypeOK, OnlyWakes, OneSenderPerPendingJoin, Schedules
<1>4. \A u \in Tasks : u \in Schedules /\ (Pending(u)' <=> Pending(u)) /\ (Owned(u)' <=> Owned(u))
  BY <1>1 DEF Schedules, Pending, Owned
<1>5. PlaceTellsQueues'
  BY <1>1, <1>2, <1>3 DEF PlaceTellsQueues, InBlockOn, OnlyWakes
<1>6. FuturesHaveOnePlace'
  BY <1>1, <1>2, <1>3, <1>4 DEF FuturesHaveOnePlace, OnlyWakes, TypeOK
<1>7. PendingJoinsAreOwned'
  BY <1>1, <1>2, <1>3, <1>4 DEF PendingJoinsAreOwned, OnlyWakes, TypeOK
<1> QED BY <1>2, <1>5, <1>6, <1>7

\* The executor is dropped: what it still owns is cancelled.
LEMMA ShutdownKeepsLife ==
  ASSUME TypeOK, LifeInv, ClearPendingSpawn \/ \E t \in Tasks : DropTask(t)
  PROVE  LifeInv'
<1> USE DEF LifeInv
<1>1. pending_spawns \in Seq(Tasks)
  BY SeqMonotonic DEF TypeOK
<1>2. PICK t \in Tasks :
        /\ pc \in {"clearing", "dropping"}
        /\ Publish(t, "Cancelled")
        /\ UNCHANGED <<sending, closed, consumed, handles, root, pc, current>>
        /\ \A u \in Tasks : Owned(u)' <=> Owned(u) /\ u # t
        /\ \A u \in Tasks : Pending(u)' => Pending(u) /\ u # t
        /\ (\A i, j \in DOMAIN pending_spawns :
              pending_spawns[i] = pending_spawns[j] => i = j)'
        /\ tasks' \subseteq tasks
        /\ pc = "dropping" => pending_spawns' = pending_spawns
  <2>1. CASE ClearPendingSpawn
    <3> DEFINE t == Head(pending_spawns)
    <3>1. /\ pending_spawns # <<>> /\ pending_spawns' = Tail(pending_spawns)
          /\ pc = "clearing" /\ Publish(t, "Cancelled") /\ tasks' = tasks
          /\ UNCHANGED <<sending, closed, consumed, handles, root, pc, current>>
      BY <2>1 DEF ClearPendingSpawn
    <3>2. /\ t \in Tasks /\ Pending(t)
          /\ \A u \in Tasks : Pending(u)' <=> Pending(u) /\ u # t
          /\ (\A i, j \in DOMAIN pending_spawns :
                pending_spawns[i] = pending_spawns[j] => i = j)'
      BY <1>1, <3>1, TailPending DEF FuturesHaveOnePlace
    <3>3. t \notin tasks
      BY <3>2 DEF FuturesHaveOnePlace
    <3> HIDE DEF t
    <3> QED BY <3>1, <3>2, <3>3 DEF Owned
  <2>2. ASSUME NEW t \in Tasks, DropTask(t)
        PROVE  /\ pc = "dropping"
               /\ Publish(t, "Cancelled")
               /\ UNCHANGED <<sending, closed, consumed, handles, root, pc, current,
                              pending_spawns>>
               /\ \A u \in Tasks : Owned(u)' <=> Owned(u) /\ u # t
               /\ \A u \in Tasks : Pending(u)' => Pending(u) /\ u # t
               /\ (\A i, j \in DOMAIN pending_spawns :
                     pending_spawns[i] = pending_spawns[j] => i = j)'
               /\ tasks' \subseteq tasks
    BY <2>2 DEF DropTask, Owned, Pending, FuturesHaveOnePlace
  <2> QED BY <2>1, <2>2
<1>3. /\ OnlyWakes
      /\ OneSenderPerPendingJoin'
      /\ senders' = senders \ {t}
      /\ \A u \in Tasks \ {t} : join'[u] = join[u]
      /\ join'[t] = IF t \in senders THEN "Cancelled" ELSE join[t]
  BY <1>2, PublishOnlyWakes, PublishKeepsJoins
<1>4. \A u \in Tasks : u \in Schedules
  BY DEF Schedules
<1>5. PlaceTellsQueues'
  BY <1>2, <1>3, Names DEF PlaceTellsQueues, InBlockOn, OnlyWakes, TypeOK
<1>6. FuturesHaveOnePlace'
  <2>1. closed' /\ t \notin tasks' /\ tasks' \subseteq tasks /\ tasks \subseteq Tasks
    BY <1>2 DEF PlaceTellsQueues, Owned, TypeOK
  <2> QED BY <1>2, <1>3, <1>4, <2>1 DEF FuturesHaveOnePlace, OnlyWakes
<1>7. PendingJoinsAreOwned'
  <2>1. closed' /\ pc # "finish"
    BY <1>2 DEF PlaceTellsQueues
  <2>2. \A u \in Tasks : join'[u] \in {"Ok", "Panic"} => join[u] \in {"Ok", "Panic"}
    BY <1>3
  <2> QED BY <1>2, <1>3, <1>4, <2>1, <2>2 DEF PendingJoinsAreOwned, OnlyWakes
<1> QED BY <1>3, <1>5, <1>6, <1>7

\* The rounds of block_on and the polls that leave the joins alone.
LEMMA RoundKeepsLife ==
  ASSUME TypeOK, LifeInv,
         \/ BlockOn \/ DrainPendingSpawns \/ Recv \/ RecvTimeout \/ WakerPanics \/ BeginPoll
         \/ LookupPanics \/ FinishPending \/ FinishReady \/ PublishEscapes \/ RootReady
         \/ RootPanics \/ DropExecutor \/ PendingSpawnsCleared \/ DropReceiver
  PROVE  LifeInv'
<1> USE DEF LifeInv, joins, queue
<1>n. /\ None \notin Roots /\ None \notin Tasks /\ Tasks \cap Roots = {}
      /\ Tasks \subseteq Schedules /\ Roots \subseteq Schedules
      /\ \A s \in Schedules : s \in Tasks \/ s \in Roots
  BY Names DEF Schedules
<1>j. UNCHANGED <<join, senders, waker, waiter, handles>>
  BY DEF BlockOn, DrainPendingSpawns, Recv, RecvTimeout, WakerPanics, BeginPoll, LookupPanics,
         FinishPending, FinishReady, PublishEscapes, RootReady, RootPanics, DropExecutor,
         PendingSpawnsCleared, DropReceiver
<1>o. OneSenderPerPendingJoin'
  BY <1>j DEF OneSenderPerPendingJoin
<1>1. CASE BlockOn
  <2>1. root + 1 \in Schedules \ created /\ root + 1 \in Roots
    BY <1>1, ExecutorAssumption DEF BlockOn, TypeOK, Schedules, Roots
  <2>2. /\ created' = created \union {root + 1}
        /\ state' = [state EXCEPT ![root + 1] = "Queued"]
    BY <1>1, <2>1, RequestFresh DEF BlockOn, new_root
  <2>3. /\ \A t \in Tasks : state'[t] = state[t] /\ (t \in created' <=> t \in created)
        /\ \A s \in Schedules \ created' : state'[s] = state[s]
    BY <1>n, <2>1, <2>2 DEF TypeOK
  <2>4. /\ pc = "out" /\ pc' = "next" /\ ~closed /\ root' = root + 1 /\ current = None
        /\ UNCHANGED <<pending_spawns, tasks, closed, current>>
    BY <1>1 DEF BlockOn, TypeOK
  <2>5. \A t \in Tasks : (Pending(t)' <=> Pending(t)) /\ (Owned(t)' <=> Owned(t))
    BY <2>4 DEF Pending, Owned
  <2>6. PlaceTellsQueues'
    BY <1>n, <2>2, <2>4 DEF PlaceTellsQueues, InBlockOn
  <2>7. FuturesHaveOnePlace'
    BY <1>j, <1>n, <2>2, <2>3, <2>4, <2>5 DEF FuturesHaveOnePlace, TypeOK
  <2>8. PendingJoinsAreOwned'
    BY <1>j, <1>n, <2>3, <2>4, <2>5 DEF PendingJoinsAreOwned
  <2> QED BY <1>o, <2>6, <2>7, <2>8
<1>2. CASE DrainPendingSpawns
  <2>1. /\ \A t \in Tasks : t \in tasks' <=> t \in tasks \/ Pending(t)
        /\ \A t \in Tasks : ~Pending(t)'
        /\ pending_spawns' = <<>> /\ DOMAIN pending_spawns' = {}
        /\ pc = "next" /\ pc' = "recv"
        /\ tasks' \subseteq Tasks
        /\ UNCHANGED <<created, state, closed, root, current>>
    <3>1. \A i \in DOMAIN pending_spawns : pending_spawns[i] \in Tasks
      BY DEF TypeOK
    <3> QED BY <1>2, <3>1 DEF DrainPendingSpawns, Pending, TypeOK
  <2>2. \A t \in Tasks : Owned(t)' <=> Owned(t)
    BY <2>1 DEF Owned
  <2>3. PlaceTellsQueues'
    BY <2>1 DEF PlaceTellsQueues, InBlockOn
  <2>4. FuturesHaveOnePlace'
    BY <1>j, <2>1, <2>2 DEF FuturesHaveOnePlace
  <2>5. PendingJoinsAreOwned'
    BY <1>j, <2>1, <2>2 DEF PendingJoinsAreOwned
  <2> QED BY <1>o, <2>3, <2>4, <2>5
<1>3. CASE \/ Recv \/ RecvTimeout \/ WakerPanics \/ BeginPoll \/ LookupPanics \/ RootPanics
           \/ DropExecutor \/ PendingSpawnsCleared \/ DropReceiver
  <2>1. /\ UNCHANGED <<created, pending_spawns, tasks, root>>
        /\ pc # "finish" /\ pc' # "finish"
        /\ \A s \in Schedules :
             \/ state'[s] = state[s]
             \/ state[s] = "Queued" /\ state'[s] = "Running" /\ s = current /\ s \in created
    BY <1>3 DEF Recv, RecvTimeout, WakerPanics, BeginPoll, LookupPanics, RootPanics, abandon,
                DropExecutor, PendingSpawnsCleared, DropReceiver, begin_poll_allowed, TypeOK
  <2>2. \A t \in Tasks : (Pending(t)' <=> Pending(t)) /\ (Owned(t)' <=> Owned(t))
    BY <2>1 DEF Pending, Owned
  <2>3. closed => closed'
    BY <1>3 DEF Recv, RecvTimeout, WakerPanics, BeginPoll, LookupPanics, RootPanics, abandon,
                DropExecutor, close, PendingSpawnsCleared, DropReceiver
  <2>4. FuturesHaveOnePlace'
    BY <1>j, <1>n, <2>1, <2>2, <2>3 DEF FuturesHaveOnePlace, TypeOK
  <2>5. PendingJoinsAreOwned'
    BY <1>j, <1>n, <2>1, <2>2, <2>3 DEF PendingJoinsAreOwned
  <2>6. PlaceTellsQueues'
    <3>1. CASE Recv
      <4>1. current' \in Roots => current' = root
        <5>1. Head(ready) \in Ids(created)
          BY <3>1, TailFacts DEF Recv, TypeOK, Ids
        <5>2. Head(ready) # ROOT_TASK_ID => Head(ready) \in Tasks
          BY <5>1, <1>n, Names DEF Ids, TypeOK
        <5> QED BY <3>1, <5>2, <1>n DEF Recv
      <4> QED BY <3>1, <4>1 DEF Recv, PlaceTellsQueues, InBlockOn
    <3>2. CASE BeginPoll
      <4>1. /\ current \in Roots \/ (current \in tasks /\ current \in senders)
            /\ state'[current] = "Running"
        BY <3>2 DEF BeginPoll, Admitted, begin_poll_allowed, TypeOK, FuturesHaveOnePlace
      <4> QED BY <3>2, <4>1 DEF BeginPoll, PlaceTellsQueues, InBlockOn
    <3>3. CASE ~Recv /\ ~BeginPoll
      BY <1>3, <1>n, <3>3
      DEF RecvTimeout, WakerPanics, LookupPanics, RootPanics, abandon, DropExecutor, close,
          PendingSpawnsCleared, DropReceiver, PlaceTellsQueues, InBlockOn
    <3> QED BY <3>1, <3>2, <3>3
  <2> QED BY <1>o, <2>4, <2>5, <2>6
<1>4. CASE FinishPending \/ FinishReady \/ RootReady
  <2>1. /\ pc \in {"poll", "finish"} /\ current \in created /\ current \in Schedules
        /\ state[current] \in {"Running", "Notified"}
        /\ \A isReady \in BOOLEAN :
             finish_poll(state[current], isReady)
               \in (IF isReady THEN {"Complete"} ELSE {"Idle", "Queued"})
    BY <1>4, FinishPollFacts
    DEF FinishPending, FinishReady, RootReady, PlaceTellsQueues, TypeOK
  <2>2. /\ UNCHANGED <<created, pending_spawns, closed, root>> /\ current' = None
        /\ \A s \in Schedules \ {current} : state'[s] = state[s]
    BY <1>4 DEF FinishPending, FinishReady, RootReady, TypeOK
  <2>3. \A t \in Tasks : Pending(t)' <=> Pending(t)
    BY <2>2 DEF Pending
  <2>4. CASE FinishPending
    <3>1. /\ tasks' = tasks /\ state'[current] \in {"Idle", "Queued"}
          /\ pc = "poll" /\ pc' = "next"
      BY <2>1, <2>4 DEF FinishPending, round, TypeOK
    <3>2. \A t \in Tasks : Owned(t)' <=> Owned(t)
      BY <2>3, <3>1 DEF Owned
    <3>3. PlaceTellsQueues'
      BY <1>n, <2>2, <3>1 DEF PlaceTellsQueues, InBlockOn
    <3>4. FuturesHaveOnePlace'
      <4>1. /\ current \in tasks => current \in senders
            /\ current \in Tasks => Owned(current)
        BY <1>n, <3>1 DEF PlaceTellsQueues, Owned, TypeOK
      <4>2. \A t \in tasks : t \in Schedules
        BY <1>n DEF TypeOK
      <4> QED BY <1>j, <1>n, <2>1, <2>2, <2>3, <3>1, <3>2, <4>1, <4>2 DEF FuturesHaveOnePlace
    <3>5. PendingJoinsAreOwned'
      <4>1. current \in Tasks => join[current] = "Pending"
        BY <1>n, <3>1 DEF PlaceTellsQueues, OneSenderPerPendingJoin
      <4> QED BY <1>j, <1>n, <2>1, <2>2, <3>1, <3>2, <4>1 DEF PendingJoinsAreOwned
    <3> QED BY <1>o, <3>3, <3>4, <3>5
  <2>5. CASE FinishReady
    <3>1. /\ tasks' = tasks \ {current} /\ state'[current] = "Complete"
          /\ pc = "finish" /\ pc' = "next" /\ current \in Tasks /\ current \in tasks
      BY <1>n, <2>1, <2>5 DEF FinishReady, remove, round, TypeOK, PlaceTellsQueues
    <3>2. /\ ~Pending(current) /\ join[current] \in {"Ok", "Panic"} /\ current \notin senders
          /\ \A t \in Tasks : Owned(t)' <=> Owned(t) /\ t # current
      BY <2>3, <3>1 DEF Owned, FuturesHaveOnePlace, PlaceTellsQueues, OneSenderPerPendingJoin
    <3>3. PlaceTellsQueues'
      BY <1>n, <2>2, <3>1 DEF PlaceTellsQueues, InBlockOn
    <3>4. FuturesHaveOnePlace'
      BY <1>j, <1>n, <2>1, <2>2, <2>3, <3>1, <3>2 DEF FuturesHaveOnePlace, TypeOK
    <3>5. PendingJoinsAreOwned'
      BY <1>j, <1>n, <2>1, <2>2, <3>1, <3>2 DEF PendingJoinsAreOwned, TypeOK
    <3> QED BY <1>o, <3>3, <3>4, <3>5
  <2>6. CASE RootReady
    <3>1. /\ tasks' = tasks /\ current \in Roots /\ current \notin Tasks
          /\ pc = "poll" /\ pc' = "out"
      BY <1>n, <2>6 DEF RootReady
    <3>2. \A t \in Tasks : t \in Schedules /\ state'[t] = state[t] /\ (Owned(t)' <=> Owned(t))
      BY <1>n, <2>2, <2>3, <3>1 DEF Owned
    <3>3. PlaceTellsQueues'
      BY <1>n, <2>2, <3>1 DEF PlaceTellsQueues, InBlockOn
    <3>4. FuturesHaveOnePlace'
      BY <1>j, <1>n, <2>1, <2>2, <2>3, <3>1, <3>2 DEF FuturesHaveOnePlace, TypeOK
    <3>5. PendingJoinsAreOwned'
      BY <1>j, <1>n, <2>2, <3>1, <3>2 DEF PendingJoinsAreOwned
    <3> QED BY <1>o, <3>3, <3>4, <3>5
  <2> QED BY <1>4, <2>4, <2>5, <2>6
<1>5. CASE PublishEscapes
  <2>1. /\ UNCHANGED <<created, state, pending_spawns, tasks, closed, root>>
        /\ pc = "finish" /\ current \in Escaping /\ pc' = "out" /\ current' = None
    BY <1>5 DEF PublishEscapes
  <2>2. \A t \in Tasks : (Pending(t)' <=> Pending(t)) /\ (Owned(t)' <=> Owned(t))
    BY <2>1 DEF Pending, Owned
  <2>3. PlaceTellsQueues'
    BY <1>n, <2>1 DEF PlaceTellsQueues, InBlockOn
  <2>4. FuturesHaveOnePlace'
    BY <1>j, <2>1, <2>2 DEF FuturesHaveOnePlace
  <2>5. PendingJoinsAreOwned'
    BY <1>j, <2>1, <2>2 DEF PendingJoinsAreOwned
  <2> QED BY <1>o, <2>3, <2>4, <2>5
<1> QED BY <1>1, <1>2, <1>3, <1>4, <1>5

\* The part of the induction about the life of futures, action by action.
LEMMA LifeStep == TypeOK /\ TypeOK' /\ LifeInv /\ [Next]_vars => LifeInv'
<1> SUFFICES ASSUME TypeOK, TypeOK', LifeInv, [Next]_vars
             PROVE  LifeInv'
  OBVIOUS
<1>t. ready' \in Seq(Ids(created')) /\ state \in [Schedules -> ScheduleState]
  BY DEF TypeOK, Ids
<1>1. ASSUME NEW s \in Schedules, WakeLocal(s)
      PROVE  LifeInv'
  BY <1>1, RequestOnlyWakes, WakesKeepLife DEF WakeLocal, joins
<1>2. ASSUME NEW p \in Threads, NEW s \in Schedules, WakeRemote(p, s)
      PROVE  LifeInv'
  <2>1. /\ wake(state[s]) \in ScheduleState
        /\ wake(state[s]) \in {"Queued", "Notified", "Complete"}
        /\ wake(state[s]) = "Complete" <=> state[s] = "Complete"
        /\ wake(state[s]) = "Notified" <=> state[s] \in {"Running", "Notified"}
    BY <1>t, WakeFacts
  <2>2. /\ state' = [state EXCEPT ![s] = wake(state[s])] /\ s \in created
        /\ UNCHANGED <<created, ready, pending_spawns, tasks, closed, join, senders, waker,
                       waiter, handles, root, pc, current>>
    BY <1>2 DEF WakeRemote, joins
  <2>3. OnlyWakes
    BY <1>t, <2>1, <2>2 DEF OnlyWakes, ScheduleState
  <2> QED BY <2>2, <2>3, WakesKeepLife
<1>3. CASE (\E p \in Threads : SendRemote(p)) \/ UNCHANGED vars
  <2>1. UNCHANGED <<created, state, pending_spawns, tasks, closed, join, senders, waker,
                    waiter, handles, root, pc, current>>
    BY <1>3 DEF SendRemote, joins, vars
  <2>2. OnlyWakes
    BY <1>t, <2>1 DEF OnlyWakes
  <2> QED BY <2>1, <2>2, WakesKeepLife
<1>4. ASSUME NEW t \in Tasks, PollJoin(t) \/ DropHandle(t)
      PROVE  LifeInv'
  BY <1>4, JoinKeepsLife
<1>5. ASSUME NEW t \in Tasks, Spawn(t)
      PROVE  LifeInv'
  BY <1>5, SpawnKeepsLife
<1>6. CASE TaskEscapes \/ \E result \in {"Ok", "Panic"} : PublishResult(result)
  BY <1>6, EndKeepsLife
<1>7. CASE ClearPendingSpawn \/ \E t \in Tasks : DropTask(t)
  BY <1>7, ShutdownKeepsLife
<1>8. CASE \/ BlockOn \/ DrainPendingSpawns \/ Recv \/ RecvTimeout \/ WakerPanics \/ BeginPoll
           \/ LookupPanics \/ FinishPending \/ FinishReady \/ PublishEscapes \/ RootReady
           \/ RootPanics \/ DropExecutor \/ PendingSpawnsCleared \/ DropReceiver
  BY <1>8, RoundKeepsLife
<1> QED
  BY <1>1, <1>2, <1>3, <1>4, <1>5, <1>6, <1>7, <1>8 DEF Next, EndPoll, Shutdown
-----------------------------------------------------------------------------
\* A schedule changes its state under its lock and its id enters the channel
\* exactly when the schedule becomes Queued.
LEMMA RequestKeepsIds ==
  ASSUME TypeOK, NEW s \in Schedules, IdIsUnique(s), NEW t \in Schedules, NEW next,
         state' = [state EXCEPT ![t] = next],
         state[t] = "Queued" => next = "Queued",
         \/ ready' = ready
         \/ /\ ready' = Append(ready, Id(t)) /\ state[t] # "Queued" /\ next = "Queued"
            /\ t = s \/ Id(t) # Id(s),
         sending' = sending, Popped(s)' => Popped(s)
  PROVE  IdIsUnique(s)'
<1>1. state[s] = "Queued" => state'[s] = "Queued"
  BY DEF TypeOK
<1>2. CASE ready' = ready
  <2>1. (InChannel(s)' <=> InChannel(s)) /\ (InFlight(s)' <=> InFlight(s))
    BY <1>2 DEF InChannel, InFlight
  <2> QED BY <1>1, <1>2, <2>1 DEF IdIsUnique
<1>3. CASE /\ ready' = Append(ready, Id(t)) /\ state[t] # "Queued" /\ next = "Queued"
           /\ t = s \/ Id(t) # Id(s)
  <2>1. /\ DOMAIN ready' = 1 .. Len(ready) + 1
        /\ DOMAIN ready = 1 .. Len(ready)
        /\ Len(ready) \in Nat
        /\ \A i \in 1 .. Len(ready) : ready'[i] = ready[i]
        /\ ready'[Len(ready) + 1] = Id(t)
    <3> DEFINE S == Ids(created) \union {Id(t)}
    <3>1. ready \in Seq(Ids(created)) /\ Ids(created) \subseteq S /\ Id(t) \in S
      BY DEF TypeOK, Ids
    <3> HIDE DEF S
    <3>2. ready \in Seq(S)
      BY <3>1, SeqMonotonic
    <3> QED BY <1>3, <3>1, <3>2, AppendFacts
  <2>2. InFlight(s)' <=> InFlight(s)
    BY DEF InFlight
  <2>3. CASE t = s
    <3>1. ~InChannel(s) /\ ~InFlight(s) /\ ~Popped(s) /\ state'[s] = "Queued"
      BY <1>3, <2>3 DEF IdIsUnique, TypeOK
    <3> QED BY <2>1, <2>2, <3>1 DEF IdIsUnique, InChannel
  <2>4. CASE Id(t) # Id(s)
    <3>1. state'[s] = state[s]
      BY <2>4 DEF TypeOK
    <3>2. InChannel(s)' <=> InChannel(s)
      <4>1. \A i \in DOMAIN ready' : ready'[i] = Id(s) => i \in 1 .. Len(ready)
        BY <2>1, <2>4
      <4> QED BY <2>1, <4>1 DEF InChannel
    <3> QED BY <2>1, <2>2, <2>4, <3>1, <3>2 DEF IdIsUnique
  <2> QED BY <1>3, <2>3, <2>4
<1> QED BY <1>2, <1>3

\* A request, by whoever makes it on the runtime thread.
LEMMA RequestIds ==
  ASSUME TypeOK, NEW s \in Schedules, IdIsUnique(s), NEW t \in Schedules, RequestSchedule(t),
         t = s \/ Id(t) # Id(s) \/ state[t] # "Idle",
         sending' = sending, Popped(s)' => Popped(s)
  PROVE  IdIsUnique(s)'
<1>1. state[t] \in ScheduleState
  BY DEF TypeOK
<1>2. /\ wake(state[t]) = "Queued" <=> state[t] = "Queued" \/ wake_enqueues(state[t])
      /\ wake_enqueues(state[t]) => state[t] = "Idle"
  BY <1>1, WakeFacts
<1>3. state' = [state EXCEPT ![t] = wake(state[t])]
  BY DEF RequestSchedule
<1>4. CASE ready' = ready
  BY <1>2, <1>3, <1>4, RequestKeepsIds
<1>5. CASE ready' # ready
  <2>1. ready' = Append(ready, Id(t)) /\ state[t] = "Idle" /\ wake(state[t]) = "Queued"
    BY <1>2, <1>5 DEF RequestSchedule, push
  <2> QED BY <1>3, <2>1, RequestKeepsIds
<1> QED BY <1>4, <1>5

\* A step that touches neither schedules nor channel, or ends a poll.
LEMMA QuietIds ==
  ASSUME TypeOK, NEW s \in Schedules, IdIsUnique(s),
         ready' = ready, sending' = sending, Popped(s)' => Popped(s),
         state[s] = "Queued" => state'[s] = "Queued"
  PROVE  IdIsUnique(s)'
<1>1. (InChannel(s)' <=> InChannel(s)) /\ (InFlight(s)' <=> InFlight(s))
  BY DEF InChannel, InFlight
<1> QED BY <1>1 DEF IdIsUnique

\* A wake on another thread puts the id in flight ...
LEMMA WakeRemoteIds ==
  ASSUME TypeOK, NEW s \in Schedules, IdIsUnique(s), NEW p \in Threads, NEW t \in Schedules,
         WakeRemote(p, t)
  PROVE  IdIsUnique(s)'
<1>1. state[t] \in ScheduleState /\ t # None
  BY Names DEF TypeOK
<1>2. /\ wake(state[t]) = "Queued" <=> state[t] = "Queued" \/ wake_enqueues(state[t])
      /\ wake_enqueues(state[t]) => state[t] = "Idle"
  BY <1>1, WakeFacts
<1>3. /\ state' = [state EXCEPT ![t] = wake(state[t])] /\ sending[p] = None
      /\ sending' = [sending EXCEPT ![p] = IF wake_enqueues(state[t]) THEN t ELSE None]
      /\ UNCHANGED <<ready, pc, current>>
  BY DEF WakeRemote
<1>4. (InChannel(s)' <=> InChannel(s)) /\ (Popped(s)' <=> Popped(s))
  BY <1>3 DEF InChannel, Popped
<1>5. CASE ~wake_enqueues(state[t]) \/ t # s
  <2>1. state[s] = "Queued" => state'[s] = "Queued"
    BY <1>2, <1>3 DEF TypeOK
  <2>2. \A q \in Threads : sending'[q] = s <=> sending[q] = s
    BY <1>3, <1>5, Names DEF TypeOK
  <2>3. InFlight(s)' <=> InFlight(s)
    BY <2>2 DEF InFlight
  <2> QED BY <1>3, <1>4, <2>1, <2>2, <2>3 DEF IdIsUnique
<1>6. CASE wake_enqueues(state[t]) /\ t = s
  <2>1. /\ ~InChannel(s) /\ ~InFlight(s) /\ ~Popped(s)
        /\ state'[s] = "Queued"
    BY <1>2, <1>3, <1>6 DEF IdIsUnique, TypeOK
  <2>2. \A q \in Threads : sending'[q] = s <=> q = p
    BY <1>3, <1>6, <2>1 DEF TypeOK, InFlight
  <2> QED BY <1>3, <1>4, <2>1, <2>2 DEF IdIsUnique
<1> QED BY <1>5, <1>6

\* ... and its send takes it to the channel.
LEMMA SendRemoteIds ==
  ASSUME TypeOK, NEW s \in Schedules, IdIsUnique(s), NEW p \in Threads, SendRemote(p),
         sending[p] = s \/ Id(sending[p]) # Id(s)
  PROVE  IdIsUnique(s)'
<1>1. /\ sending' = [sending EXCEPT ![p] = None] /\ sending[p] \in created
      /\ ready \in Seq(Ids(created)) /\ Id(sending[p]) \in Ids(created)
      /\ ready' = ready \/ ready' = Append(ready, Id(sending[p]))
      /\ UNCHANGED <<state, pc, current>>
  BY DEF SendRemote, TypeOK, push, Ids
<1>2. \A q \in Threads : sending'[q] = s <=> sending[q] = s /\ q # p
  BY <1>1, Names DEF TypeOK
<1>3. (InFlight(s)' => InFlight(s)) /\ (Popped(s)' <=> Popped(s))
  BY <1>1, <1>2 DEF InFlight, Popped
<1>4. sending[p] = s => ~InFlight(s)' /\ InFlight(s) /\ ~InChannel(s) /\ ~Popped(s)
  BY <1>2 DEF IdIsUnique, InFlight
<1>5. CASE ready' = ready
  <2>1. InChannel(s)' <=> InChannel(s)
    BY <1>5 DEF InChannel
  <2> QED BY <1>1, <1>2, <1>3, <1>5, <2>1 DEF IdIsUnique
<1>6. CASE ready' = Append(ready, Id(sending[p]))
  <2>1. /\ DOMAIN ready' = 1 .. Len(ready) + 1
        /\ DOMAIN ready = 1 .. Len(ready)
        /\ Len(ready) \in Nat
        /\ \A i \in 1 .. Len(ready) : ready'[i] = ready[i]
        /\ ready'[Len(ready) + 1] = Id(sending[p])
    BY <1>1, <1>6, AppendFacts
  <2>2. CASE sending[p] = s
    <3>1. \A i \in 1 .. Len(ready) : ready[i] # Id(s)
      BY <1>4, <2>1, <2>2 DEF InChannel
    <3>2. \A i \in DOMAIN ready' : ready'[i] = Id(s) => i = Len(ready) + 1
      BY <2>1, <3>1
    <3>3. ~InFlight(s)' /\ ~Popped(s)' /\ state'[s] = "Queued"
      BY <1>1, <1>3, <1>4, <2>2 DEF IdIsUnique
    <3> QED BY <1>2, <2>2, <3>2, <3>3 DEF IdIsUnique
  <2>3. CASE Id(sending[p]) # Id(s)
    <3>1. \A i \in DOMAIN ready' : ready'[i] = Id(s) => i \in 1 .. Len(ready)
      BY <2>1, <2>3
    <3>2. InChannel(s)' <=> InChannel(s)
      BY <2>1, <3>1 DEF InChannel
    <3> QED BY <1>1, <1>2, <1>3, <2>1, <3>1, <3>2 DEF IdIsUnique
  <2> QED BY <2>2, <2>3
<1> QED BY <1>1, <1>5, <1>6

\* The executor pops the oldest id.
LEMMA RecvIds ==
  ASSUME TypeOK, NEW s \in Schedules, IdIsUnique(s), Recv,
         current' = s <=> Head(ready) = Id(s)
  PROVE  IdIsUnique(s)'
<1>1. /\ pc' = "begin" /\ pc = "recv" /\ ready' = Tail(ready)
      /\ UNCHANGED <<state, sending>>
      /\ ready \in Seq(Ids(created)) /\ ready # <<>>
  BY DEF Recv, TypeOK, Ids
<1>2. /\ Head(ready) = ready[1]
      /\ Len(ready) \in Nat \ {0}
      /\ DOMAIN ready = 1 .. Len(ready)
      /\ DOMAIN ready' = 1 .. Len(ready) - 1
      /\ \A i \in 1 .. Len(ready) - 1 : ready'[i] = ready[i + 1]
  BY <1>1, TailFacts
<1>3. (InFlight(s)' <=> InFlight(s)) /\ (Popped(s)' <=> ready[1] = Id(s))
  BY <1>1, <1>2 DEF InFlight, Popped
<1>4. InChannel(s)' => InChannel(s) /\ ready[1] # Id(s)
  BY <1>2 DEF InChannel, IdIsUnique
<1>5. Popped(s)' => InChannel(s)
  BY <1>2, <1>3 DEF InChannel
<1>6. \A i, j \in DOMAIN ready' : ready'[i] = Id(s) /\ ready'[j] = Id(s) => i = j
  BY <1>2 DEF IdIsUnique
<1> QED BY <1>1, <1>3, <1>4, <1>5, <1>6 DEF IdIsUnique

\* Whichever step is taken, a task or the current root keeps its one id, as
\* long as no other schedule sends the same id.
LEMMA UniqueStep ==
  ASSUME TypeOK, LifeInv, [Next]_vars,
         NEW s \in Schedules, IdIsUnique(s),
         s \in Tasks \/ (s = root /\ ~BlockOn),
         \A t \in Schedules \ {s} :
           Id(t) = Id(s) => ~InFlight(t) /\ (t \in created => state[t] # "Idle")
  PROVE  IdIsUnique(s)'
<1> USE DEF queue
<1>n. /\ Tasks \cap Roots = {} /\ Tasks \subseteq Schedules /\ Roots \subseteq Schedules
      /\ \A t \in Schedules : t \in Tasks \/ t \in Roots
      /\ \A t \in Tasks : Id(t) = t
      /\ \A r \in Roots : Id(r) = ROOT_TASK_ID
      /\ ROOT_TASK_ID \notin Tasks /\ None \notin Schedules
  BY Names DEF Schedules
<1>c. \A t \in created : t \in Schedules /\ (t = s \/ Id(t) # Id(s) \/ state[t] # "Idle")
  BY DEF TypeOK
<1>u. ASSUME NEW t \in Tasks, NEW result, Publish(t, result), sending' = sending,
             pc # "begin", pc' # "begin"
      PROVE  IdIsUnique(s)'
  <2>1. Popped(s)' => Popped(s)
    BY <1>u DEF Popped
  <2>2. CASE UNCHANGED queue
    BY <1>u, <2>1, <2>2, QuietIds
  <2>3. CASE ~UNCHANGED queue
    <3>1. RequestSchedule(waker[t]) /\ waker[t] \in created
      BY <1>u, <2>3 DEF Publish, WakeWaiter, TypeOK
    <3> QED BY <1>c, <1>u, <2>1, <3>1, RequestIds
  <2> QED BY <2>2, <2>3
<1>1. ASSUME NEW t \in Schedules, WakeLocal(t)
      PROVE  IdIsUnique(s)'
  <2>1. t \in created /\ RequestSchedule(t) /\ sending' = sending /\ (Popped(s)' => Popped(s))
    BY <1>1 DEF WakeLocal, Popped
  <2> QED BY <1>c, <2>1, RequestIds
<1>2. ASSUME NEW p \in Threads, NEW t \in Schedules, WakeRemote(p, t)
      PROVE  IdIsUnique(s)'
  BY <1>2, WakeRemoteIds
<1>3. ASSUME NEW p \in Threads, SendRemote(p)
      PROVE  IdIsUnique(s)'
  <2>1. sending[p] \in Schedules /\ InFlight(sending[p])
    BY <1>3 DEF SendRemote, TypeOK, InFlight
  <2> QED BY <1>3, <2>1, SendRemoteIds
<1>4. ASSUME NEW t \in Tasks, Spawn(t)
      PROVE  IdIsUnique(s)'
  <2>1. sending' = sending /\ (Popped(s)' => Popped(s)) /\ submit(t)
    BY <1>4 DEF Spawn, Popped
  <2>2. CASE RequestSchedule(t)
    <3>1. t = s \/ Id(t) # Id(s)
      BY <1>n DEF TypeOK
    <3> QED BY <1>n, <2>1, <2>2, <3>1, RequestIds
  <2>3. CASE ~RequestSchedule(t)
    BY <2>1, <2>3, QuietIds DEF submit
  <2> QED BY <2>2, <2>3
<1>5. CASE BlockOn
  <2>1. root + 1 \in Roots /\ RequestSchedule(root + 1) /\ s \in Tasks
    BY <1>5, ExecutorAssumption DEF BlockOn, new_root, InBlockOn, TypeOK, Roots
  <2>2. sending' = sending /\ (Popped(s)' => Popped(s))
    BY <1>5 DEF BlockOn, Popped
  <2> QED BY <1>n, <2>1, <2>2, RequestIds
<1>6. CASE Recv
  <2>1. Head(ready) \in Ids(created)
    BY <1>6, TailFacts DEF Recv, TypeOK, Ids
  <2>2. current' = s <=> Head(ready) = Id(s)
    <3>1. root \in Roots
      <4>1. root \in created /\ root \in Nat
        BY <1>6, ExecutorAssumption DEF Recv, TypeOK, LifeInv, PlaceTellsQueues, InBlockOn
      <4> QED BY <1>n, <4>1, ExecutorAssumption DEF TypeOK
    <3>2. Head(ready) \in Tasks \/ Head(ready) = ROOT_TASK_ID
      BY <1>n, <2>1 DEF Ids, TypeOK
    <3> QED BY <1>6, <1>n, <3>1, <3>2 DEF Recv
  <2> QED BY <1>6, <2>2, RecvIds
<1>7. CASE BeginPoll
  <2>1. /\ UNCHANGED <<ready, sending>> /\ ~Popped(s)'
        /\ (InChannel(s)' <=> InChannel(s)) /\ (InFlight(s)' <=> InFlight(s))
    BY <1>7 DEF BeginPoll, Popped, InChannel, InFlight
  <2>2. s # current => state'[s] = state[s]
    BY <1>7 DEF BeginPoll, TypeOK
  <2>3. s = current => ~InChannel(s) /\ ~InFlight(s)
    BY <1>7 DEF BeginPoll, Popped, IdIsUnique
  <2> QED BY <2>1, <2>2, <2>3 DEF IdIsUnique
<1>8. CASE FinishPending \/ FinishReady \/ RootReady
  <2>1. /\ current \in Schedules /\ state[current] \in {"Running", "Notified"}
        /\ sending' = sending /\ ~Popped(s)'
    BY <1>8 DEF FinishPending, FinishReady, RootReady, LifeInv, PlaceTellsQueues, TypeOK,
                Popped, round
  <2>2. finish_poll(state[current], FALSE) = "Queued"
          <=> finish_poll_enqueues(state[current], FALSE)
    BY <2>1, FinishPollFacts
  <2>3. current = s \/ Id(current) # Id(s)
    BY <1>n, <2>1 DEF LifeInv, PlaceTellsQueues
  <2>4. CASE FinishPending
    BY <2>1, <2>2, <2>3, <2>4, RequestKeepsIds DEF FinishPending, push
  <2>5. CASE ~FinishPending
    <3>1. ready' = ready /\ (state[s] = "Queued" => state'[s] = "Queued")
      BY <1>8, <2>1, <2>5 DEF FinishReady, RootReady, TypeOK
    <3> QED BY <2>1, <3>1, QuietIds
  <2> QED BY <2>4, <2>5
<1>9. CASE TaskEscapes \/ \E result \in {"Ok", "Panic"} : PublishResult(result)
  BY <1>9, <1>u, ExecutorAssumption DEF TaskEscapes, PublishResult
<1>10. CASE ClearPendingSpawn
  <2>1. Head(pending_spawns) \in Tasks
    BY <1>10, TailFacts DEF ClearPendingSpawn, TypeOK
  <2> QED BY <1>10, <1>u, <2>1 DEF ClearPendingSpawn
<1>11. ASSUME NEW t \in Tasks, DropTask(t)
       PROVE  IdIsUnique(s)'
  BY <1>11, <1>u DEF DropTask
<1>12. CASE DropReceiver
  <2>1. ready' = <<>> /\ sending' = sending /\ state' = state /\ ~Popped(s)' /\ DOMAIN ready' = {}
    BY <1>12 DEF DropReceiver, Popped
  <2>2. ~InChannel(s)' /\ (InFlight(s)' <=> InFlight(s))
    BY <2>1 DEF InChannel, InFlight
  <2> QED BY <2>1, <2>2 DEF IdIsUnique
<1>13. CASE \/ \E t \in Tasks : PollJoin(t) \/ DropHandle(t)
            \/ DrainPendingSpawns \/ RecvTimeout \/ WakerPanics \/ LookupPanics
            \/ PublishEscapes \/ RootPanics
            \/ DropExecutor \/ PendingSpawnsCleared \/ UNCHANGED vars
  <2>1. UNCHANGED <<state, ready, sending>> /\ (Popped(s)' => Popped(s))
    BY <1>13 DEF PollJoin, DropHandle, Detach, DrainPendingSpawns, RecvTimeout, WakerPanics,
                 LookupPanics, PublishEscapes, RootPanics, abandon, DropExecutor,
                 PendingSpawnsCleared, vars, Popped
  <2> QED BY <2>1, QuietIds
<1> QED
  BY <1>1, <1>2, <1>3, <1>4, <1>5, <1>6, <1>7, <1>8, <1>9, <1>10, <1>11, <1>12, <1>13
  DEF Next, EndPoll, Shutdown

\* Only the schedule under poll changes its state other than by a wake, and
\* only idle schedules go in flight.
LEMMA StateFrame ==
  ASSUME TypeOK, [Next]_vars, NEW s \in Schedules
  PROVE  /\ s = current \/ state'[s] = state[s] \/ state'[s] = wake(state[s])
         /\ InFlight(s)' => InFlight(s) \/ (s \in created /\ state[s] = "Idle")
<1> USE DEF queue
<1>1. CASE \E p \in Threads, t \in Schedules : WakeRemote(p, t)
  <2>1. PICK p \in Threads, t \in Schedules : WakeRemote(p, t)
    BY <1>1
  <2>2. wake_enqueues(state[t]) => state[t] = "Idle"
    BY DEF wake_enqueues
  <2>3. \A q \in Threads : sending'[q] = s => sending[q] = s \/ (t = s /\ wake_enqueues(state[t]))
    BY <2>1, Names DEF WakeRemote, TypeOK
  <2> QED BY <2>1, <2>2, <2>3 DEF WakeRemote, TypeOK, InFlight
<1>2. CASE \E p \in Threads : SendRemote(p)
  <2>1. \A q \in Threads : sending'[q] = s => sending[q] = s
    BY <1>2, Names DEF SendRemote, TypeOK
  <2> QED BY <1>2, <2>1 DEF SendRemote, InFlight
<1>3. CASE ~\E p \in Threads : SendRemote(p) \/ \E t \in Schedules : WakeRemote(p, t)
  <2>r. ASSUME NEW t, RequestSchedule(t)
        PROVE  state'[s] = state[s] \/ state'[s] = wake(state[s])
    BY <2>r DEF RequestSchedule, TypeOK
  <2>p. ASSUME NEW t, NEW result, Publish(t, result)
        PROVE  state'[s] = state[s] \/ state'[s] = wake(state[s])
    BY <2>p, <2>r DEF Publish, WakeWaiter
  <2>1. sending' = sending
    BY <1>3 DEF Next, EndPoll, Shutdown, vars, WakeLocal, PollJoin, DropHandle, Spawn, BlockOn,
       DrainPendingSpawns, Recv, RecvTimeout, WakerPanics, BeginPoll, LookupPanics, FinishPending,
       PublishResult, PublishEscapes, TaskEscapes, RootReady, RootPanics, FinishReady, DropExecutor,
       ClearPendingSpawn, PendingSpawnsCleared, DropTask, DropReceiver
  <2>2. s = current \/ state'[s] = state[s] \/ state'[s] = wake(state[s])
    <3>1. CASE BlockOn \/ (\E t \in Schedules : WakeLocal(t)) \/ \E t \in Tasks : Spawn(t)
      BY <3>1, <2>r DEF WakeLocal, Spawn, submit, BlockOn
    <3>2. CASE \/ \E result \in {"Ok", "Panic"} : PublishResult(result)
               \/ TaskEscapes \/ ClearPendingSpawn \/ \E t \in Tasks : DropTask(t)
      BY <3>2, <2>p DEF PublishResult, TaskEscapes, ClearPendingSpawn, DropTask
    <3>3. CASE BeginPoll \/ FinishPending \/ FinishReady \/ RootReady
      BY <3>3 DEF BeginPoll, FinishPending, FinishReady, RootReady, TypeOK
    <3>4. CASE \/ \E t \in Tasks : PollJoin(t) \/ DropHandle(t)
               \/ DrainPendingSpawns \/ Recv \/ RecvTimeout \/ WakerPanics \/ LookupPanics
               \/ PublishEscapes \/ RootPanics
               \/ DropExecutor \/ PendingSpawnsCleared \/ DropReceiver \/ UNCHANGED vars
      BY <3>4 DEF PollJoin, DropHandle, Detach, DrainPendingSpawns, Recv, RecvTimeout,
         WakerPanics, LookupPanics, PublishEscapes, RootPanics, abandon, DropExecutor,
         PendingSpawnsCleared, DropReceiver, vars
    <3> QED BY <1>3, <3>1, <3>2, <3>3, <3>4 DEF Next, EndPoll, Shutdown
  <2> QED BY <2>1, <2>2 DEF InFlight
<1> QED BY <1>1, <1>2, <1>3

\* A task whose id is popped was admitted, as only the rounds spawn nothing.
LEMMA PoppedWasAdmitted ==
  ASSUME IndInv, "reenter" \notin CustomWakers
  PROVE  PoppedIsAdmitted
<1> SUFFICES ASSUME pc = "begin", current \in Tasks
             PROVE  current \in tasks
  BY DEF PoppedIsAdmitted, Admitted, IndInv, TypeOK, Schedules
<1>1. state[current] = "Queued"
  BY DEF IndInv, IdIsUnique, Popped
<1>2. /\ pending_spawns = <<>> /\ ~closed
      /\ current \in created /\ DOMAIN pending_spawns = {}
  BY DEF IndInv, PlaceTellsQueues, TypeOK
<1> QED BY <1>1, <1>2 DEF IndInv, FuturesHaveOnePlace, Owned, Pending

\* Root ids stay with the current block_on: it is left only when its root
\* future ends, which is not Queued then.
LEMMA RootStep ==
  ASSUME IndInv, TypeOK', LifeInv', OnlyRootsUnwind, [Next]_vars
  PROVE  RootIdsAreCurrent'
<1>t. TypeOK /\ LifeInv /\ RootIdsAreCurrent /\ FuturesHaveOnePlace
  BY DEF IndInv, LifeInv
<1>n. /\ Roots \subseteq Schedules
      /\ \A r \in Roots : Id(r) = ROOT_TASK_ID
      /\ root \in Nat /\ created \subseteq Schedules
      /\ \A r \in Roots : r \notin Tasks
      /\ created \cap Roots = 1 .. root
      /\ root \in Schedules => root \in Roots
  <2>1. root \in Nat /\ root \notin Tasks
    BY <1>t, ExecutorAssumption DEF TypeOK
  <2> QED BY <1>t, <2>1, Names DEF TypeOK, Schedules
<1>a. ~TaskEscapes /\ ~PublishEscapes /\ ~WakerPanics /\ ~LookupPanics
  BY PoppedWasAdmitted
  DEF OnlyRootsUnwind, TaskEscapes, PublishEscapes, WakerPanics, LookupPanics, PoppedIsAdmitted
<1>w. \A x \in {"Running", "Notified", "Complete"} : wake(x) \in {"Running", "Notified", "Complete"}
  <2> TAKE x \in {"Running", "Notified", "Complete"}
  <2>1. x \in ScheduleState
    BY DEF ScheduleState
  <2> QED BY <2>1, WakeFacts
<1>1. CASE BlockOn
  <2>1. PICK new \in Roots : new = root + 1
    BY <1>1, <1>t, ExecutorAssumption DEF BlockOn, TypeOK, Roots
  <2>2. new \in Schedules \ created
    BY <1>n, <2>1
  <2>3. /\ RequestSchedule(new) /\ root' = new
        /\ pc = "out" /\ pc' = "next" /\ sending' = sending /\ ~InBlockOn
    BY <1>1, <2>1 DEF BlockOn, new_root, InBlockOn
  <2>4. /\ created' = created \union {new}
        /\ state' = [state EXCEPT ![new] = "Queued"]
    BY <1>t, <2>2, <2>3, RequestFresh
  <2>5. ~InChannel(new) /\ ~InFlight(new) /\ ~Popped(new) /\ ~Popped(new)'
    BY <1>t, <2>3 DEF RootIdsAreCurrent, Popped
  <2>6. IdIsUnique(new)
    BY <2>5 DEF IdIsUnique, InChannel, InFlight
  <2>7. IdIsUnique(new)'
    BY <1>t, <2>2, <2>3, <2>5, <2>6, RequestIds
  <2>8. \A r \in Roots : ~InFlight(r)'
    BY <1>t, <2>3 DEF RootIdsAreCurrent, InFlight
  <2>9. ASSUME NEW r \in Roots \cap created', r # new
        PROVE  state'[r] \in {"Running", "Notified", "Complete"}
    <3>1. r \in Roots \cap created /\ r \in Schedules
      BY <1>n, <2>4, <2>9
    <3>2. state'[r] = state[r]
      BY <1>t, <2>4, <2>9, <3>1 DEF TypeOK
    <3> QED BY <1>t, <2>3, <3>1, <3>2 DEF RootIdsAreCurrent
  <2>10. InBlockOn'
    BY <2>3 DEF InBlockOn
  <2> QED BY <2>3, <2>7, <2>8, <2>9, <2>10 DEF RootIdsAreCurrent
<1>2. CASE ~BlockOn
  <2>1. root' = root /\ created' \cap Roots = 1 .. root /\ (InBlockOn' => InBlockOn)
    <3>1. root' = root /\ (InBlockOn' => InBlockOn)
      BY <1>2 DEF Next, EndPoll, Shutdown, vars, WakeLocal, WakeRemote, SendRemote, PollJoin,
         DropHandle, Spawn, DrainPendingSpawns, Recv, RecvTimeout, WakerPanics, BeginPoll,
         LookupPanics, FinishPending, PublishResult, PublishEscapes, TaskEscapes, RootReady,
         RootPanics, FinishReady, DropExecutor, ClearPendingSpawn, PendingSpawnsCleared, DropTask, DropReceiver, InBlockOn
    <3> QED BY <3>1 DEF TypeOK
  <2>2. \A r \in Roots : InFlight(r)' => InBlockOn /\ r = root
    BY <1>n, <1>t, StateFrame DEF RootIdsAreCurrent
  <2>3. \A r \in Roots \cap created :
          (InBlockOn /\ r = root) \/ state'[r] \in {"Running", "Notified", "Complete"}
    <3> TAKE r \in Roots \cap created
    <3>1. CASE InBlockOn /\ r = root
      BY <3>1
    <3>2. CASE ~(InBlockOn /\ r = root)
      <4>1. r # current
        BY <1>n, <1>t, <3>2, Names DEF LifeInv, PlaceTellsQueues, TypeOK, InBlockOn
      <4>2. state[r] \in {"Running", "Notified", "Complete"}
        BY <1>t, <3>2 DEF RootIdsAreCurrent
      <4>3. state'[r] = state[r] \/ state'[r] = wake(state[r])
        BY <1>n, <1>t, <4>1, StateFrame
      <4> QED BY <1>w, <4>2, <4>3
    <3> QED BY <3>1, <3>2
  <2>r. PICK r0 \in Nat : r0 = root
    BY <1>n
  <2>4. r0 \in created => IdIsUnique(r0)'
    <3> SUFFICES ASSUME r0 \in created
                 PROVE  IdIsUnique(r0)'
      OBVIOUS
    <3>1. r0 \in Roots /\ r0 \in Schedules
      BY <1>n, <2>r
    <3>2. IdIsUnique(r0)
      <4>1. CASE InBlockOn
        BY <1>t, <2>r, <4>1 DEF RootIdsAreCurrent
      <4>2. CASE ~InBlockOn
        <5>1. ~InChannel(r0) /\ ~InFlight(r0) /\ ~Popped(r0)
          BY <1>t, <3>1, <4>2 DEF RootIdsAreCurrent, Popped, InBlockOn
        <5> QED BY <5>1 DEF IdIsUnique, InChannel, InFlight
      <4> QED BY <4>1, <4>2
    <3>3. \A t \in Schedules \ {r0} :
            Id(t) = Id(r0) => ~InFlight(t) /\ (t \in created => state[t] # "Idle")
      <4> SUFFICES ASSUME NEW t \in Schedules \ {r0}, Id(t) = Id(r0)
                   PROVE  ~InFlight(t) /\ (t \in created => state[t] # "Idle")
        OBVIOUS
      <4>1. t \in Roots
        BY <3>1, Names DEF Schedules
      <4> QED BY <1>t, <2>r, <4>1 DEF RootIdsAreCurrent
    <3> QED BY <1>2, <1>t, <2>r, <3>1, <3>2, <3>3, UniqueStep
  <2>5. CASE InBlockOn'
    <3>1. root \in created
      BY <1>t, <2>1, <2>5 DEF LifeInv, PlaceTellsQueues
    <3>2. (IdIsUnique(root))'
      BY <2>1, <2>4, <2>r, <3>1 DEF IdIsUnique, InChannel, InFlight, Popped
    <3> QED BY <1>n, <2>1, <2>2, <2>3, <2>5, <3>2 DEF RootIdsAreCurrent
  <2>6. CASE ~InBlockOn'
    <3>1. InBlockOn => /\ state'[root] \in {"Running", "Notified", "Complete"}
                       /\ root \in created
      <4> SUFFICES ASSUME InBlockOn
                   PROVE  /\ state'[root] \in {"Running", "Notified", "Complete"}
                          /\ root \in created
        OBVIOUS
      <4>1. RootReady \/ RootPanics
        BY <1>2, <1>a, <2>6 DEF Next, EndPoll, Shutdown, vars, WakeLocal, WakeRemote, SendRemote,
           PollJoin, DropHandle, Spawn, DrainPendingSpawns, Recv, RecvTimeout, BeginPoll,
           FinishPending, round, PublishResult, FinishReady, DropExecutor, ClearPendingSpawn,
           PendingSpawnsCleared, DropTask, DropReceiver, InBlockOn
      <4>2. current = root /\ state[root] \in {"Running", "Notified"} /\ root \in created
        BY <1>t, <4>1 DEF RootReady, RootPanics, LifeInv, PlaceTellsQueues, TypeOK
      <4>3. finish_poll(state[root], TRUE) = "Complete"
        BY <4>2, FinishPollFacts
      <4> QED BY <1>n, <1>t, <4>1, <4>2, <4>3 DEF RootReady, RootPanics, abandon, queue, TypeOK
    <3>2. \A r \in Roots \cap created' : state'[r] \in {"Running", "Notified", "Complete"}
      BY <1>n, <2>1, <2>3, <3>1
    <3>3. \A r \in Roots : ~InChannel(r)' /\ ~InFlight(r)'
      <4>1. CASE root \in created
        <5>1. r0 \in Roots \cap created'
          BY <1>n, <2>1, <2>r, <4>1
        <5>2. ~InChannel(r0)' /\ ~InFlight(r0)'
          BY <2>4, <2>r, <3>2, <4>1, <5>1 DEF IdIsUnique
        <5> QED BY <1>n, <2>2, <2>r, <5>1, <5>2 DEF InChannel
      <4>2. CASE root \notin created
        <5>1. created' \cap Roots = {}
          <6>1. root = 0
            BY <1>n, <4>2
          <6> QED BY <2>1, <6>1
        <5>2. ROOT_TASK_ID \notin Ids(created')
          BY <5>1, Names DEF Ids, TypeOK, Schedules
        <5>3. \A i \in DOMAIN ready' : ready'[i] \in Ids(created')
          BY DEF TypeOK, Ids
        <5>4. ~InBlockOn
          BY <1>t, <4>2 DEF LifeInv, PlaceTellsQueues
        <5> QED BY <1>n, <2>2, <5>2, <5>3, <5>4 DEF InChannel
      <4> QED BY <4>1, <4>2
    <3> QED BY <2>1, <2>6, <3>2, <3>3 DEF RootIdsAreCurrent
  <2> QED BY <2>5, <2>6
<1> QED BY <1>1, <1>2

-----------------------------------------------------------------------------
\* Queues, joins and schedules stay consistent, whatever tasks, wakers and
\* other threads do and whenever the executor is dropped.
THEOREM Inductive == SafeSpec => []IndInv
<1>1. Init => IndInv
  <2> SUFFICES ASSUME Init
               PROVE  IndInv
    OBVIOUS
  <2> USE ExecutorAssumption DEF Init
  <2>1. TypeOK
    <3>1. root \in 0 .. MaxBlockOns /\ created \cap Roots = 1 .. root
      OBVIOUS
    <3>2. state \in [Schedules -> ScheduleState]
      BY DEF ScheduleState
    <3>3. ready \in Seq({Id(s) : s \in created}) /\ pending_spawns \in Seq(Tasks \cap created)
      OBVIOUS
    <3>4. /\ sending \in [Threads -> created \union {None}]
          /\ waker \in [Tasks -> created \union {None}]
          /\ waiter \in [Tasks -> created \union {None}]
          /\ join \in [Tasks -> {"Unspawned", "Pending", "Ok", "Panic", "Cancelled"}]
      OBVIOUS
    <3>5. current \in (IF pc \in {"begin", "poll", "finish"} THEN created ELSE {None})
      OBVIOUS
    <3> QED BY <3>1, <3>2, <3>3, <3>4, <3>5 DEF TypeOK
  <2>2. PlaceTellsQueues
    BY Names DEF PlaceTellsQueues, InBlockOn
  <2>3. FuturesHaveOnePlace
    BY DEF FuturesHaveOnePlace, Pending
  <2>4. OneSenderPerPendingJoin
    BY DEF OneSenderPerPendingJoin
  <2>5. PendingJoinsAreOwned
    BY DEF PendingJoinsAreOwned, Owned, Schedules
  <2>6. \A t \in Schedules : IdIsUnique(t) /\ ~InChannel(t) /\ ~InFlight(t)
    BY Names DEF IdIsUnique, InChannel, InFlight, Popped
  <2>7. RootIdsAreCurrent
    BY <2>6, Names DEF RootIdsAreCurrent, InBlockOn, Schedules
  <2> QED BY <2>1, <2>2, <2>3, <2>4, <2>5, <2>6, <2>7 DEF IndInv, Schedules
<1>2. IndInv /\ [Next]_vars => IndInv'
  <2> SUFFICES ASSUME IndInv, [Next]_vars
               PROVE  IndInv'
    OBVIOUS
  <2>1. TypeOK'
    BY TypeStep
  <2>2. LifeInv'
    BY <2>1, LifeStep DEF IndInv, LifeInv
  <2>3. ASSUME NEW s \in Tasks
        PROVE  IdIsUnique(s)'
    <3>1. \A t \in Schedules \ {s} : Id(t) # Id(s)
      BY Names DEF Schedules
    <3> QED BY <3>1, UniqueStep DEF IndInv, LifeInv, Schedules
  <2>4. OnlyRootsUnwind => RootIdsAreCurrent'
    BY <2>1, <2>2, RootStep
  <2>5. OnlyRootsUnwind' <=> OnlyRootsUnwind
    BY DEF OnlyRootsUnwind
  <2> QED BY <2>1, <2>2, <2>3, <2>4, <2>5 DEF IndInv, LifeInv
<1> QED BY <1>1, <1>2, PTL DEF SafeSpec

\* JoinState::complete never panics, and wakers belong to live handles.
THEOREM JoinsResolveOnce == SafeSpec => []OneSenderPerPendingJoin
<1>1. IndInv => OneSenderPerPendingJoin
  BY DEF IndInv
<1> QED BY <1>1, Inductive, PTL

\* Detached or awaited, a future is owned until it ends, and ends truthfully.
THEOREM FuturesAreOwned == SafeSpec => []PendingJoinsAreOwned
<1>1. IndInv => PendingJoinsAreOwned
  BY DEF IndInv
<1> QED BY <1>1, Inductive, PTL

\* No join outlives the executor unresolved.
THEOREM ShutdownIsComplete == SafeSpec => []ShutdownResolvesJoins
<1>1. IndInv => ShutdownResolvesJoins
  <2> SUFFICES ASSUME IndInv, pc = "dropped"
               PROVE  senders = {} /\ pending_spawns = <<>> /\ tasks = {}
    BY DEF ShutdownResolvesJoins
  <2>1. pending_spawns = <<>> /\ DOMAIN pending_spawns = {} /\ tasks = {}
    BY DEF IndInv, PlaceTellsQueues
  <2> QED BY <2>1 DEF IndInv, TypeOK, PendingJoinsAreOwned, Owned, Pending
<1> QED BY <1>1, Inductive, PTL

\* The `expect` of poll_task holds unless a waker that an expired timer calls
\* spawns a task, which the admission of the round has missed.
THEOREM AdmissionHolds == "reenter" \notin CustomWakers /\ SafeSpec => []PoppedIsAdmitted
<1> SUFFICES ASSUME "reenter" \notin CustomWakers
             PROVE  SafeSpec => []PoppedIsAdmitted
  OBVIOUS
<1>1. IndInv => PoppedIsAdmitted
  BY PoppedWasAdmitted
<1> QED BY <1>1, Inductive, PTL

\* The assertion of begin_poll holds as long as block_on is left by its own
\* root future only ...
THEOREM PollAssertionHolds == OnlyRootsUnwind /\ SafeSpec => []OnlyQueuedIsPolled
<1> SUFFICES ASSUME OnlyRootsUnwind
             PROVE  SafeSpec => []OnlyQueuedIsPolled
  OBVIOUS
<1>1. IndInv => OnlyQueuedIsPolled
  <2> SUFFICES ASSUME IndInv, pc = "begin"
               PROVE  state[current] = "Queued"
    BY DEF OnlyQueuedIsPolled, begin_poll_allowed
  <2>1. current \in Tasks \/ current = root
    BY DEF IndInv, TypeOK, Schedules, PlaceTellsQueues
  <2> QED BY <2>1 DEF IndInv, RootIdsAreCurrent, IdIsUnique, Popped, InBlockOn
<1> QED BY <1>1, Inductive, PTL

\* ... because no root id is left behind then.
THEOREM RootIdsEndWithBlockOn == OnlyRootsUnwind /\ SafeSpec => []NoStaleRootId
<1> SUFFICES ASSUME OnlyRootsUnwind
             PROVE  SafeSpec => []NoStaleRootId
  OBVIOUS
<1>1. IndInv => NoStaleRootId
  <2> SUFFICES ASSUME IndInv, pc = "out"
               PROVE  /\ \A i \in DOMAIN ready : ready[i] # ROOT_TASK_ID
                      /\ \A p \in Threads : sending[p] \notin Roots
    BY DEF NoStaleRootId
  <2>1. RootIdsAreCurrent /\ ~InBlockOn /\ TypeOK
    BY DEF IndInv, InBlockOn
  <2>2. ASSUME NEW i \in DOMAIN ready, ready[i] = ROOT_TASK_ID
        PROVE  FALSE
    <3>1. ROOT_TASK_ID \in Ids(created)
      BY <2>1, <2>2 DEF TypeOK, Ids
    <3>2. PICK r \in Roots : Id(r) = ROOT_TASK_ID
      BY <2>1, <3>1, Names DEF Ids, TypeOK, Schedules
    <3> QED BY <2>1, <2>2, <3>2 DEF RootIdsAreCurrent, InChannel
  <2>3. \A p \in Threads : sending[p] \notin Roots
    BY <2>1 DEF RootIdsAreCurrent, InFlight
  <2> QED BY <2>2, <2>3
<1> QED BY <1>1, Inductive, PTL

\* Nobody who awaits a JoinHandle sleeps on after its join is resolved.
THEOREM WaitersAreWoken == SafeSpec => ResolvingWakesTheWaiter
<1>1. IndInv /\ [Next]_vars
        => [\A t \in Tasks :
              t \in senders /\ t \notin senders' /\ waiter[t] # None
                => state'[waiter[t]] \in {"Queued", "Notified", "Complete"}]_vars
  <2> SUFFICES ASSUME IndInv, Next, NEW t \in Tasks,
                      t \in senders, t \notin senders', waiter[t] # None
               PROVE  state'[waiter[t]] \in {"Queued", "Notified", "Complete"}
    BY DEF vars, joins, queue
  <2>t. /\ waker[t] = waiter[t]
        /\ waiter[t] \in Schedules /\ state \in [Schedules -> ScheduleState]
    BY DEF IndInv, TypeOK, OneSenderPerPendingJoin
  <2>1. ASSUME NEW u \in Tasks, NEW result, Publish(u, result)
        PROVE  state'[waiter[t]] \in {"Queued", "Notified", "Complete"}
    <3>1. u = t /\ RequestSchedule(waiter[t])
      BY <2>t, <2>1 DEF Publish, take_state, WakeWaiter
    <3>2. state'[waiter[t]] = wake(state[waiter[t]])
      BY <2>t, <3>1 DEF RequestSchedule
    <3> QED BY <2>t, <3>2, WakeFacts
  <2>2. CASE \E result \in {"Ok", "Panic"} : PublishResult(result)
    BY <2>1, <2>2 DEF PublishResult, IndInv, TypeOK
  <2>3. CASE TaskEscapes
    BY <2>1, <2>3, ExecutorAssumption DEF TaskEscapes
  <2>4. CASE ClearPendingSpawn
    <3>1. Head(pending_spawns) \in Tasks
      BY <2>4 DEF ClearPendingSpawn, IndInv, TypeOK
    <3> QED BY <2>1, <2>4, <3>1 DEF ClearPendingSpawn
  <2>5. CASE \E u \in Tasks : DropTask(u)
    BY <2>1, <2>5 DEF DropTask
  <2>6. CASE \E u \in Tasks : Spawn(u)
    BY <2>6 DEF Spawn, submit
  <2>7. CASE UNCHANGED senders
    BY <2>7
  <2> QED
    BY <2>2, <2>3, <2>4, <2>5, <2>6, <2>7
    DEF Next, EndPoll, Shutdown, joins, WakeLocal, WakeRemote, SendRemote, PollJoin,
        DropHandle, Detach, BlockOn, DrainPendingSpawns, Recv, RecvTimeout, WakerPanics,
        BeginPoll, LookupPanics, FinishPending, RootReady, RootPanics, FinishReady,
        PublishEscapes, DropExecutor, PendingSpawnsCleared, DropReceiver
<1> QED BY <1>1, Inductive, PTL DEF SafeSpec, ResolvingWakesTheWaiter

-----------------------------------------------------------------------------
(* The refinement of SpawnContract, step by step *)

\* A resolved join is a finished or a cancelled fate.
LEMMA PublishFate ==
  ASSUME IndInv, NEW t \in Tasks, NEW result, Publish(t, result)
  PROVE  \/ join[t] = "Pending" /\ join' = [join EXCEPT ![t] = result]
         \/ UNCHANGED join
BY DEF Publish, complete, IndInv, OneSenderPerPendingJoin

\* Each step of the executor is one step of the contract, or none.
LEMMA ContractStep ==
  ASSUME IndInv, [Next]_vars
  PROVE  [Promise!Next]_(Promise!vars)
<1> USE DEF Promise!vars
<1> SUFFICES ASSUME Next
             PROVE  Promise!Next \/ UNCHANGED <<join, consumed, closed>>
  BY DEF vars, joins
<1>c. closed \in BOOLEAN /\ (closed <=> pc \in {"clearing", "dropping", "dropped"})
  BY DEF IndInv, TypeOK, PlaceTellsQueues
<1>1. ASSUME NEW t \in Tasks, Spawn(t)
      PROVE  Promise!Spawn(t)
  BY <1>1 DEF Spawn, NewId, submit, accepts, JoinPair, Promise!Spawn
<1>2. ASSUME NEW t \in Tasks, PollJoin(t)
      PROVE  Promise!Deliver(t) \/ UNCHANGED <<join, consumed, closed>>
  <2>1. join[t] # "Unspawned"
    BY <1>2 DEF PollJoin, IndInv, FuturesHaveOnePlace
  <2> QED BY <1>2, <2>1 DEF PollJoin, Promise!Deliver
<1>3. ASSUME NEW result \in {"Ok", "Panic"}, PublishResult(result)
      PROVE  Promise!Finish(current, result) \/ UNCHANGED <<join, consumed, closed>>
  <2>1. current \in Tasks /\ ~closed
    BY <1>c, <1>3 DEF PublishResult
  <2> QED BY <1>3, <2>1, PublishFate DEF PublishResult, Promise!Finish
<1>4. ASSUME NEW t \in Tasks, Publish(t, "Cancelled"), closed \/ t \in Escaping,
             UNCHANGED <<consumed, closed>>
      PROVE  Promise!Cancel(t) \/ UNCHANGED <<join, consumed, closed>>
  BY <1>4, PublishFate DEF Promise!Cancel
<1>5. CASE TaskEscapes
  <2>1. current \in Tasks
    BY <1>5, ExecutorAssumption DEF TaskEscapes
  <2>2. Promise!Cancel(current) \/ UNCHANGED <<join, consumed, closed>>
    BY <1>4, <1>5, <2>1 DEF TaskEscapes
  <2> QED BY <2>1, <2>2 DEF Promise!Next
<1>6. CASE ClearPendingSpawn
  <2>1. PICK t \in Tasks : t = Head(pending_spawns)
    BY <1>6 DEF ClearPendingSpawn, IndInv, TypeOK
  <2>2. Promise!Cancel(t) \/ UNCHANGED <<join, consumed, closed>>
    BY <1>c, <1>4, <1>6, <2>1 DEF ClearPendingSpawn
  <2> QED BY <2>2 DEF Promise!Next
<1>7. ASSUME NEW t \in Tasks, DropTask(t)
      PROVE  Promise!Cancel(t) \/ UNCHANGED <<join, consumed, closed>>
  BY <1>c, <1>4, <1>7 DEF DropTask
<1>8. CASE DropExecutor
  BY <1>8 DEF DropExecutor, close, joins, Promise!Next, Promise!Close
<1>9. CASE UNCHANGED <<join, consumed, closed>>
  BY <1>9
<1>10. CASE \E result \in {"Ok", "Panic"} : PublishResult(result)
  <2>1. current \in Tasks
    BY <1>10 DEF PublishResult
  <2> QED BY <1>3, <1>10, <2>1 DEF Promise!Next
<1>11. CASE \E t \in Tasks : Spawn(t) \/ PollJoin(t) \/ DropTask(t)
  BY <1>1, <1>2, <1>7, <1>11 DEF Promise!Next
<1> QED
  BY <1>5, <1>6, <1>8, <1>9, <1>10, <1>11
  DEF Next, EndPoll, Shutdown, joins, WakeLocal, WakeRemote, SendRemote, DropHandle,
      Detach, BlockOn, DrainPendingSpawns, Recv, RecvTimeout, WakerPanics, BeginPoll,
      LookupPanics, FinishPending, RootReady, RootPanics, FinishReady, PublishEscapes,
      PendingSpawnsCleared, DropReceiver

\* Queues, wakers and the order of a shutdown do not show through a JoinHandle:
\* every future has one fate, delivered once, and only closing the executor or
\* unwinding past the panic boundary cancels it.
THEOREM ImplementsSpawnContract == SafeSpec => KeepsSpawnSafety
<1>1. Init => Promise!Init
  BY DEF Init, Promise!Init
<1> QED
  BY <1>1, ContractStep, Inductive, PTL DEF SafeSpec, KeepsSpawnSafety, Promise!SafeSpec

-----------------------------------------------------------------------------
(* The refinement of WakeContract, step by step *)

Wakes(s) == Contract!Notify(s) \/ UNCHANGED Contract!vars

\* A wake of an existing schedule is a Notify of the contract, or no step.
LEMMA WakeNotifies ==
  ASSUME TypeOK, NEW s \in created, created' = created,
         state' = [state EXCEPT ![s] = wake(state[s])]
  PROVE  Wakes(s)
<1>1. state \in [Schedules -> ScheduleState] /\ s \in Schedules
  BY DEF TypeOK
<1>2. CASE state[s] = "Idle"
  <2>1. state' = [state EXCEPT ![s] = "Queued"]
    BY <1>2 DEF wake
  <2>2. \A u \in Schedules : ContractPhase(u)' = ContractPhase(u)
    BY <1>1, <1>2, <2>1 DEF ContractPhase, PhaseOf
  <2> QED BY <1>1, <1>2, <2>1, <2>2 DEF Wakes, Contract!Notify, ContractPhase, PhaseOf
<1>3. CASE state[s] = "Running"
  <2>1. state' = [state EXCEPT ![s] = "Notified"]
    BY <1>3 DEF wake
  <2>2. \A u \in Schedules : ContractPhase(u)' = ContractPhase(u)
    BY <1>1, <1>3, <2>1 DEF ContractPhase, PhaseOf
  <2> QED BY <1>1, <1>3, <2>1, <2>2 DEF Wakes, Contract!Notify, ContractPhase, PhaseOf
<1>4. CASE state[s] \notin {"Idle", "Running"}
  <2>1. state' = state
    BY <1>1, <1>4 DEF wake
  <2> QED BY <2>1 DEF Wakes, Contract!vars, ContractPhase, PhaseOf
<1> QED BY <1>2, <1>3, <1>4

\* Whoever is woken by a result is notified.
LEMMA PublishNotifies ==
  ASSUME TypeOK, NEW t \in Tasks, NEW result, Publish(t, result)
  PROVE  (\E s \in Schedules : Wakes(s)) \/ UNCHANGED Contract!vars
<1>1. CASE UNCHANGED queue
  BY <1>1 DEF queue, Contract!vars, ContractPhase, PhaseOf
<1>2. CASE ~UNCHANGED queue
  <2>1. waker[t] # None /\ RequestSchedule(waker[t])
    BY <1>2 DEF Publish, WakeWaiter, queue
  <2>2. PICK s \in created : s = waker[t]
    BY <2>1 DEF TypeOK
  <2>3. created' = created /\ state' = [state EXCEPT ![s] = wake(state[s])]
    BY <2>1, <2>2 DEF RequestSchedule
  <2> QED BY <2>3, WakeNotifies DEF TypeOK
<1> QED BY <1>1, <1>2

\* A spawn or a call of block_on submits a schedule, notified from the start.
LEMMA FreshSubmits ==
  ASSUME IndInv, NEW s \in Schedules \ created, RequestSchedule(s)
  PROVE  Contract!Submit(s)
<1>1. created' = created \union {s} /\ state' = [state EXCEPT ![s] = "Queued"]
  BY RequestFresh DEF IndInv
<1>2. state \in [Schedules -> ScheduleState]
  BY DEF IndInv, TypeOK
<1>3. \A u \in Schedules : u # s => ContractPhase(u)' = ContractPhase(u)
  BY <1>1, <1>2 DEF ContractPhase, PhaseOf
<1>4. ContractPhase(s) = "New" /\ ContractPhase(s)' = "Waiting"
  BY <1>1, <1>2 DEF ContractPhase, PhaseOf
<1> QED BY <1>1, <1>2, <1>3, <1>4 DEF Contract!Submit

\* The schedule whose poll begins or ends takes the step of the contract.
LEMMA PollTurns ==
  ASSUME TypeOK, NEW s \in created, created' = created
  PROVE  /\ state[s] = "Queued" /\ state' = [state EXCEPT ![s] = "Running"]
              => Contract!StartPoll(s)
         /\ state[s] \in {"Running", "Notified"}
            /\ state' = [state EXCEPT ![s] = finish_poll(state[s], FALSE)]
              => Contract!Suspend(s)
         /\ state[s] \in {"Running", "Notified"}
            /\ state' = [state EXCEPT ![s] = finish_poll(state[s], TRUE)]
              => Contract!Finish(s)
<1>1. state \in [Schedules -> ScheduleState] /\ s \in Schedules
  BY DEF TypeOK
<1>2. ASSUME NEW to, state' = [state EXCEPT ![s] = to]
      PROVE  \A u \in Schedules : u # s => ContractPhase(u)' = ContractPhase(u)
  BY <1>1, <1>2 DEF ContractPhase, PhaseOf
<1>3. ASSUME state[s] = "Queued", state' = [state EXCEPT ![s] = "Running"]
      PROVE  Contract!StartPoll(s)
  <2>1. ContractPhase(s) = "Waiting" /\ ContractPhase(s)' = "Polling"
    BY <1>1, <1>3 DEF ContractPhase, PhaseOf
  <2> QED BY <1>1, <1>2, <1>3, <2>1 DEF Contract!StartPoll
<1>4. ASSUME state[s] \in {"Running", "Notified"}
      PROVE  ContractPhase(s) = "Polling"
  BY <1>4 DEF ContractPhase, PhaseOf
<1>5. ASSUME state[s] \in {"Running", "Notified"},
             state' = [state EXCEPT ![s] = finish_poll(state[s], FALSE)]
      PROVE  Contract!Suspend(s)
  <2>1. finish_poll(state[s], FALSE) = IF state[s] = "Notified" THEN "Queued" ELSE "Idle"
    BY <1>5 DEF finish_poll
  <2>2. state'[s] = IF state[s] = "Notified" THEN "Queued" ELSE "Idle"
    BY <1>1, <1>5, <2>1
  <2>3. ContractPhase(s)' = "Waiting"
    BY <2>2 DEF ContractPhase, PhaseOf
  <2>4. \A u \in Schedules : state'[u] \in {"Queued", "Notified"}
                               <=> state[u] \in {"Queued", "Notified"}
    BY <1>1, <1>5, <2>2
  <2> QED BY <1>1, <1>2, <1>4, <1>5, <2>3, <2>4 DEF Contract!Suspend
<1>6. ASSUME state[s] \in {"Running", "Notified"},
             state' = [state EXCEPT ![s] = finish_poll(state[s], TRUE)]
      PROVE  Contract!Finish(s)
  <2>1. finish_poll(state[s], TRUE) = "Complete"
    BY <1>6 DEF finish_poll
  <2>2. state' = [state EXCEPT ![s] = "Complete"]
    BY <1>6, <2>1
  <2>3. ContractPhase(s)' = "Done"
    BY <1>1, <2>2 DEF ContractPhase, PhaseOf
  <2> QED BY <1>1, <1>2, <1>4, <1>6, <2>2, <2>3 DEF Contract!Finish
<1> QED BY <1>3, <1>5, <1>6

\* Each step of the executor is one step of the contract, or none.
LEMMA WakeStep ==
  ASSUME IndInv, [Next]_vars
  PROVE  [Contract!Next]_(Contract!vars)
<1> SUFFICES Contract!Next \/ UNCHANGED Contract!vars
  OBVIOUS
<1>t. TypeOK /\ created \subseteq Schedules /\ Tasks \subseteq Schedules
  BY DEF IndInv, TypeOK, Schedules
<1>w. ASSUME NEW s \in Schedules, Wakes(s)
      PROVE  Contract!Next \/ UNCHANGED Contract!vars
  BY <1>w DEF Wakes, Contract!Next
<1>p. ASSUME NEW t \in Tasks, NEW result, Publish(t, result)
      PROVE  Contract!Next \/ UNCHANGED Contract!vars
  BY <1>t, <1>p, <1>w, PublishNotifies
<1>q. ASSUME NEW s \in created, created' = created,
             \/ state[s] = "Queued" /\ state' = [state EXCEPT ![s] = "Running"]
             \/ /\ state[s] \in {"Running", "Notified"}
                /\ \E isReady \in BOOLEAN :
                     state' = [state EXCEPT ![s] = finish_poll(state[s], isReady)]
      PROVE  Contract!Next
  <2>1. Contract!StartPoll(s) \/ Contract!Suspend(s) \/ Contract!Finish(s)
    BY <1>t, <1>q, PollTurns
  <2> QED BY <1>t, <2>1 DEF Contract!Next
<1>1. ASSUME NEW s \in Schedules, WakeLocal(s)
      PROVE  Contract!Next \/ UNCHANGED Contract!vars
  <2>1. s \in created /\ created' = created /\ state' = [state EXCEPT ![s] = wake(state[s])]
    BY <1>1 DEF WakeLocal, RequestSchedule
  <2> QED BY <1>t, <1>w, <2>1, WakeNotifies
<1>2. ASSUME NEW p \in Threads, NEW s \in Schedules, WakeRemote(p, s)
      PROVE  Contract!Next \/ UNCHANGED Contract!vars
  <2>1. s \in created /\ created' = created /\ state' = [state EXCEPT ![s] = wake(state[s])]
    BY <1>2 DEF WakeRemote
  <2> QED BY <1>t, <1>w, <2>1, WakeNotifies
<1>3. ASSUME NEW t \in Tasks, Spawn(t)
      PROVE  Contract!Next \/ UNCHANGED Contract!vars
  <2>1. CASE UNCHANGED queue
    BY <2>1 DEF queue, Contract!vars, ContractPhase, PhaseOf
  <2>2. CASE RequestSchedule(t)
    <3>1. t \notin created
      BY <1>3 DEF Spawn, NewId, IndInv, FuturesHaveOnePlace
    <3> QED BY <1>t, <2>2, <3>1, FreshSubmits DEF Contract!Next
  <2> QED BY <1>3, <2>1, <2>2 DEF Spawn, submit
<1>4. CASE BlockOn
  <2>1. new_root \in Schedules \ created
    <3>1. root \in 0 .. MaxBlockOns /\ created \cap Roots = 1 .. root /\ root < MaxBlockOns
      BY <1>4 DEF BlockOn, IndInv, TypeOK
    <3>2. root + 1 \in Roots /\ root + 1 \notin 1 .. root
      BY <3>1, ExecutorAssumption DEF Roots
    <3> QED BY <3>1, <3>2 DEF new_root, Schedules
  <2>2. RequestSchedule(new_root)
    BY <1>4 DEF BlockOn
  <2> QED BY <2>1, <2>2, FreshSubmits DEF Contract!Next
<1>5. CASE BeginPoll \/ FinishPending \/ FinishReady \/ RootReady
  <2>1. PICK s \in created : s = current
    BY <1>5 DEF BeginPoll, FinishPending, FinishReady, RootReady, IndInv, TypeOK
  <2>2. created' = created
    BY <1>5 DEF BeginPoll, FinishPending, FinishReady, RootReady
  <2>3. CASE BeginPoll
    BY <1>q, <2>1, <2>2, <2>3 DEF BeginPoll, begin_poll_allowed
  <2>4. CASE FinishPending \/ FinishReady \/ RootReady
    <3>1. state[s] \in {"Running", "Notified"}
      BY <2>1, <2>4 DEF FinishPending, FinishReady, RootReady, IndInv, PlaceTellsQueues
    <3>2. \E isReady \in BOOLEAN :
            state' = [state EXCEPT ![s] = finish_poll(state[s], isReady)]
      BY <2>1, <2>4 DEF FinishPending, FinishReady, RootReady
    <3> QED BY <1>q, <2>2, <3>1, <3>2
  <2> QED BY <1>5, <2>3, <2>4
<1>6. CASE \/ \E result \in {"Ok", "Panic"} : PublishResult(result)
           \/ TaskEscapes \/ ClearPendingSpawn \/ \E t \in Tasks : DropTask(t)
  <2>1. CASE \E result \in {"Ok", "Panic"} : PublishResult(result)
    BY <1>p, <2>1 DEF PublishResult
  <2>2. CASE TaskEscapes
    BY <1>p, <2>2, ExecutorAssumption DEF TaskEscapes
  <2>3. CASE ClearPendingSpawn
    <3>1. Head(pending_spawns) \in Tasks
      BY <2>3 DEF ClearPendingSpawn, IndInv, TypeOK
    <3> QED BY <1>p, <2>3, <3>1 DEF ClearPendingSpawn
  <2>4. CASE \E t \in Tasks : DropTask(t)
    BY <1>p, <2>4 DEF DropTask
  <2> QED BY <1>6, <2>1, <2>2, <2>3, <2>4
<1>7. CASE UNCHANGED <<created, state>>
  BY <1>7 DEF Contract!vars, ContractPhase, PhaseOf
<1>8. CASE \/ \E p \in Threads : SendRemote(p)
           \/ \E t \in Tasks : PollJoin(t) \/ DropHandle(t)
           \/ DrainPendingSpawns \/ Recv \/ RecvTimeout \/ WakerPanics \/ LookupPanics
           \/ PublishEscapes \/ RootPanics
           \/ DropExecutor \/ PendingSpawnsCleared \/ DropReceiver \/ UNCHANGED vars
  BY <1>7, <1>8
  DEF SendRemote, PollJoin, DropHandle, Detach, DrainPendingSpawns, Recv, RecvTimeout,
      WakerPanics, LookupPanics, PublishEscapes, RootPanics, abandon, DropExecutor, PendingSpawnsCleared, DropReceiver,
      vars, queue
<1> QED
  BY <1>1, <1>2, <1>3, <1>4, <1>5, <1>6, <1>8 DEF Next, EndPoll, Shutdown

\* No wake of a task or a root is forgotten, answered twice, or answered by a
\* poll of a future that has ended, through panics, shutdown and timer wakes.
THEOREM ImplementsWakeContract == SafeSpec => KeepsWakeSafety
<1>1. Init => Contract!Init
  BY DEF Init, Contract!Init, ContractPhase, PhaseOf
<1> QED
  BY <1>1, WakeStep, Inductive, PTL DEF SafeSpec, KeepsWakeSafety, Contract!SafeSpec
=============================================================================
