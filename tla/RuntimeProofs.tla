---------------------------- MODULE RuntimeProofs ----------------------------
(***************************************************************************)
(* Proofs about the runtime context of a thread, for any runtimes, tasks   *)
(* and guards and for stacks of any depth.                                 *)
(***************************************************************************)
EXTENDS Runtime, SequenceTheorems, TLAPS

(* The stack of frames *)

LEMMA FramesAreTyped ==
  ASSUME TypeOK
  PROVE  \A i \in DOMAIN frames : frames[i] \in Frame /\ frames[i].rt \in Runtimes
<1>1. \A i \in DOMAIN frames : frames[i] \in Frame
  <2>1. frames \in Seq(Frame)
    BY DEF TypeOK
  <2> QED BY <2>1
<1> QED BY <1>1 DEF Frame

\* Calling a function leaves the frames below as they are.
LEMMA PushFacts ==
  ASSUME TypeOK, NEW kind \in {"block_on", "drop"}, NEW r \in Runtimes
  PROVE  /\ Push(kind, r) \in Seq(Frame)
         /\ Len(Push(kind, r)) = Len(frames) + 1
         /\ DOMAIN Push(kind, r) = DOMAIN frames \union {Len(frames) + 1}
         /\ Len(frames) + 1 \notin DOMAIN frames
         /\ \A i \in DOMAIN frames : Push(kind, r)[i] = frames[i]
         /\ Push(kind, r)[Len(frames) + 1]
              = [kind |-> kind, rt |-> r, task |-> None, during |-> unwinding]
<1> DEFINE new == [kind |-> kind, rt |-> r, task |-> None, during |-> unwinding]
<1>1. new \in Frame
  BY DEF TypeOK, Frame
<1>2. frames \in Seq(Frame) /\ Push(kind, r) = Append(frames, new)
  BY DEF TypeOK, Push
<1> HIDE DEF new
<1>3. /\ Append(frames, new) \in Seq(Frame)
      /\ Len(Append(frames, new)) = Len(frames) + 1
      /\ \A i \in 1 .. Len(frames) : Append(frames, new)[i] = frames[i]
      /\ Append(frames, new)[Len(frames) + 1] = new
  BY <1>1, <1>2
<1>4. /\ DOMAIN Append(frames, new) = 1 .. Len(frames) + 1
      /\ DOMAIN frames = 1 .. Len(frames)
      /\ Len(frames) \in Nat
  BY <1>1, <1>2
<1>5. 1 .. Len(frames) + 1 = 1 .. Len(frames) \union {Len(frames) + 1}
  BY <1>4
<1> QED BY <1>2, <1>3, <1>4, <1>5 DEF new

\* The innermost frame.
LEMMA TopFacts ==
  ASSUME TypeOK, frames # <<>>
  PROVE  /\ Len(frames) \in Nat \ {0}
         /\ DOMAIN frames = 1 .. Len(frames)
         /\ Len(frames) \in DOMAIN frames
         /\ Top = frames[Len(frames)]
         /\ Top \in Frame
<1>1. Len(frames) \in Nat \ {0} /\ DOMAIN frames = 1 .. Len(frames)
  BY DEF TypeOK
<1> QED BY <1>1 DEF TypeOK, Top, Last

\* Returning from it leaves the others.
LEMMA FrontFacts ==
  ASSUME TypeOK, frames # <<>>
  PROVE  /\ Front(frames) \in Seq(Frame)
         /\ DOMAIN Front(frames) = DOMAIN frames \ {Len(frames)}
         /\ \A i \in DOMAIN Front(frames) : Front(frames)[i] = frames[i]
<1>1. frames \in Seq(Frame) /\ Len(frames) \in Nat \ {0}
  BY TopFacts DEF TypeOK
<1>2. DOMAIN frames = 1 .. Len(frames)
  BY <1>1
<1>3. /\ Len(SubSeq(frames, 1, Len(frames) - 1)) = Len(frames) - 1
      /\ SubSeq(frames, 1, Len(frames) - 1) \in Seq(Frame)
      /\ \A i \in 1 .. Len(frames) - 1 : SubSeq(frames, 1, Len(frames) - 1)[i] = frames[i]
  <2>1. \A i \in 1 .. Len(frames) - 1 : frames[i] \in Frame
    BY <1>1
  <2>2. 1 \in Int /\ Len(frames) - 1 \in Int
    BY <1>1
  <2>3. /\ SubSeq(frames, 1, Len(frames) - 1) \in Seq(Frame)
        /\ Len(SubSeq(frames, 1, Len(frames) - 1))
             = IF 1 <= Len(frames) - 1 THEN Len(frames) - 1 - 1 + 1 ELSE 0
        /\ \A i \in 1 .. Len(frames) - 1 - 1 + 1 :
             SubSeq(frames, 1, Len(frames) - 1)[i] = frames[1 + i - 1]
    BY <2>1, <2>2, SubSeqProperties
  <2>4. \A n \in Nat \ {0} :
          /\ (IF 1 <= n - 1 THEN n - 1 - 1 + 1 ELSE 0) = n - 1 /\ n - 1 - 1 + 1 = n - 1
          /\ \A i \in 1 .. n - 1 : 1 + i - 1 = i
    OBVIOUS
  <2> QED BY <1>1, <2>3, <2>4
<1>4. DOMAIN SubSeq(frames, 1, Len(frames) - 1) = 1 .. Len(frames) - 1
  BY <1>1, <1>3
<1>5. 1 .. Len(frames) - 1 = (1 .. Len(frames)) \ {Len(frames)}
  BY <1>1
<1> QED BY <1>2, <1>3, <1>4, <1>5 DEF Front

\* A poll or a destructor begins or ends in it.
LEMMA SetTopFacts ==
  ASSUME TypeOK, frames # <<>>, NEW t \in Tasks \union {None}
  PROVE  /\ SetTopTask(t) \in Seq(Frame)
         /\ DOMAIN SetTopTask(t) = DOMAIN frames
         /\ \A i \in DOMAIN frames :
              /\ SetTopTask(t)[i].kind = frames[i].kind
              /\ SetTopTask(t)[i].rt = frames[i].rt
              /\ i # Len(frames) => SetTopTask(t)[i] = frames[i]
         /\ SetTopTask(t)[Len(frames)].task = t
<1> DEFINE new == [Top EXCEPT !.task = t]
<1>1. new \in Frame /\ new.kind = Top.kind /\ new.rt = Top.rt /\ new.task = t
  BY TopFacts DEF Frame
<1>2. SetTopTask(t) = [frames EXCEPT ![Len(frames)] = new]
  BY DEF SetTopTask
<1> HIDE DEF new
<1>3. frames \in Seq(Frame)
  BY DEF TypeOK
<1>4. [frames EXCEPT ![Len(frames)] = new] \in Seq(Frame)
  BY <1>1, <1>3
<1> QED BY <1>1, <1>2, <1>3, <1>4, TopFacts

Returns == frames # <<>> /\ frames' = Front(frames)
Retasks == frames # <<>> /\ \E t \in Tasks \union {None} : frames' = SetTopTask(t)
Calls(kind, r) == ~InUse(r) /\ frames' = Push(kind, r)

\* A call puts a frame for its runtime on top of the others.
LEMMA CallFacts ==
  ASSUME TypeOK, NEW kind \in {"block_on", "drop"}, NEW r \in Runtimes, Calls(kind, r)
  PROVE  /\ frames' \in Seq(Frame)
         /\ DOMAIN frames' = DOMAIN frames \union {Len(frames) + 1}
         /\ Len(frames) + 1 \notin DOMAIN frames
         /\ \A i \in DOMAIN frames : frames'[i] = frames[i] /\ frames[i].rt # r
         /\ frames'[Len(frames) + 1].kind = kind
         /\ frames'[Len(frames) + 1].rt = r
         /\ frames'[Len(frames) + 1].task = None
<1>1. frames' = Push(kind, r) /\ \A i \in DOMAIN frames : frames[i].rt # r
  BY DEF Calls, InUse
<1>2. frames'[Len(frames) + 1] = [kind |-> kind, rt |-> r, task |-> None, during |-> unwinding]
  BY <1>1, PushFacts
<1>3. /\ frames'[Len(frames) + 1].kind = kind
      /\ frames'[Len(frames) + 1].rt = r
      /\ frames'[Len(frames) + 1].task = None
  BY <1>2
<1>4. /\ frames' \in Seq(Frame)
      /\ DOMAIN frames' = DOMAIN frames \union {Len(frames) + 1}
      /\ Len(frames) + 1 \notin DOMAIN frames
      /\ \A i \in DOMAIN frames : frames'[i] = frames[i]
  BY <1>1, PushFacts
<1> QED BY <1>1, <1>3, <1>4

\* Each action leaves the stack alone or does one of these to it.
LEMMA StackStep ==
  ASSUME TypeOK, [Next]_vars
  PROVE  \/ UNCHANGED frames \/ Returns \/ Retasks
         \/ \E r \in Runtimes, g \in Guards : block_on(r, g) /\ Calls("block_on", r)
         \/ \E r \in Runtimes : DropRuntime(r) /\ Calls("drop", r)
<1>1. CASE \E t \in Tasks : PollTask(t) \/ BeginDropTask(t)
  BY <1>1 DEF PollTask, BeginDropTask, TopIs, Retasks
<1>2. CASE PollPending \/ FinishTask \/ EndDropTask
  BY <1>2 DEF PollPending, FinishTask, EndDropTask, Retasks
<1>3. CASE \E g \in Guards : EndBlockOn(g)
  BY <1>3 DEF EndBlockOn, TopIs, Returns
<1>4. CASE EndDropRuntime \/ AbandonDropRuntime
  BY <1>4 DEF EndDropRuntime, AbandonDropRuntime, TopIs, Returns
<1>5. CASE \E r \in Runtimes, g \in Guards : block_on(r, g)
  BY <1>5 DEF block_on, Calls
<1>6. CASE \E r \in Runtimes : DropRuntime(r)
  BY <1>6 DEF DropRuntime, Calls
<1>7. CASE UNCHANGED frames
  BY <1>7
<1> QED
  BY <1>1, <1>2, <1>3, <1>4, <1>5, <1>6, <1>7
  DEF Next, vars, NewRuntime, enter, DropGuard, LeakGuard, EnterPanics, CurrentPanics,
      Catch, spawn, SpawnTo, submit

\* No frame changes its kind or its runtime.
LEMMA FramesKeepTheirRuntime ==
  ASSUME TypeOK, UNCHANGED frames \/ Returns \/ Retasks
  PROVE  /\ frames' \in Seq(Frame)
         /\ DOMAIN frames' \subseteq DOMAIN frames
         /\ \A i \in DOMAIN frames' :
              frames'[i].kind = frames[i].kind /\ frames'[i].rt = frames[i].rt
<1>1. CASE UNCHANGED frames
  BY <1>1 DEF TypeOK
<1>2. CASE Returns
  BY <1>2, FrontFacts DEF Returns
<1>3. CASE Retasks
  BY <1>3, SetTopFacts DEF Retasks
<1> QED BY <1>1, <1>2, <1>3

-----------------------------------------------------------------------------
(* Types, and the tasks on the stack *)

\* The task of a frame waits in the runtime of the frame.
Stacked(i) == frames[i].task \in TasksOf(frames[i].rt)

LEMMA KeepTasks ==
  ASSUME NEW i, Stacked(i), frames'[i] = frames[i],
         tasks'[frames[i].task] = tasks[frames[i].task]
  PROVE  Stacked(i)'
BY DEF Stacked, TasksOf

LEMMA StackedTasksStep ==
  ASSUME TypeOK, [Next]_vars
  PROVE  \A i \in DOMAIN frames' : frames'[i].task # None => Stacked(i)'
<1> SUFFICES ASSUME NEW i \in DOMAIN frames', frames'[i].task # None
             PROVE  Stacked(i)'
  OBVIOUS
<1>t. /\ \A j, k \in DOMAIN frames : frames[j].rt = frames[k].rt => j = k
      /\ \A j \in DOMAIN frames : frames[j].task # None => Stacked(j)
  BY DEF TypeOK, Stacked
<1>1. CASE UNCHANGED <<tasks, frames>>
  BY <1>t, <1>1, KeepTasks
<1>2. ASSUME NEW r, NEW t \in Tasks, submit(r, t)
      PROVE  Stacked(i)'
  <2>1. frames'[i] = frames[i] /\ i \in DOMAIN frames
    BY <1>2 DEF submit
  <2>2. frames[i].task \in Tasks /\ tasks[frames[i].task].state = "queued"
    <3>1. /\ frames[i].task \in Tasks
          /\ tasks[frames[i].task] = [state |-> "queued", rt |-> frames[i].rt]
      BY <1>t, <2>1 DEF Stacked, TasksOf
    <3> QED BY <3>1
  <2>3. tasks'[frames[i].task] = tasks[frames[i].task]
    BY <1>2, <2>2 DEF submit, TypeOK
  <2> QED BY <1>t, <2>1, <2>3, KeepTasks
<1>3. ASSUME NEW kind \in {"block_on", "drop"}, NEW r \in Runtimes, Calls(kind, r),
             UNCHANGED tasks
      PROVE  Stacked(i)'
  <2>1. i \in DOMAIN frames /\ frames'[i] = frames[i]
    BY <1>3, CallFacts
  <2> QED BY <1>3, <1>t, <2>1, KeepTasks
<1>4. CASE Returns /\ UNCHANGED tasks
  <2>1. i \in DOMAIN frames /\ frames'[i] = frames[i]
    BY <1>4, FrontFacts DEF Returns
  <2> QED BY <1>4, <1>t, <2>1, KeepTasks
<1>5. CASE AbandonDropRuntime
  <2>1. /\ i \in DOMAIN frames /\ frames'[i] = frames[i] /\ i # Len(frames)
        /\ Len(frames) \in DOMAIN frames /\ Top = frames[Len(frames)]
    BY <1>5, FrontFacts, TopFacts DEF AbandonDropRuntime
  <2>2. frames[i].rt # Top.rt /\ frames[i].task \in TasksOf(frames[i].rt)
    BY <1>t, <2>1 DEF Stacked
  <2>3. frames[i].task \in Tasks /\ tasks'[frames[i].task] = tasks[frames[i].task]
    <3>1. frames[i].task \in Tasks /\ frames[i].task \notin TasksOf(Top.rt)
      BY <2>2 DEF TasksOf
    <3> QED BY <1>5, <3>1 DEF AbandonDropRuntime
  <2> QED BY <1>t, <2>1, <2>3, KeepTasks
<1>6. ASSUME NEW t \in Tasks, frames # <<>>, t \in TasksOf(Top.rt),
             frames' = SetTopTask(t), UNCHANGED tasks
      PROVE  Stacked(i)'
  <2>1. /\ i \in DOMAIN frames /\ frames'[i].rt = frames[i].rt
        /\ i # Len(frames) => frames'[i] = frames[i]
        /\ i = Len(frames) => frames'[i].task = t /\ frames[i] = Top
    BY <1>6, SetTopFacts, TopFacts
  <2> QED BY <1>6, <1>t, <2>1, KeepTasks DEF Stacked, TasksOf
<1>7. ASSUME frames # <<>>, frames' = SetTopTask(None),
             \A t \in Tasks : t # Top.task => tasks'[t] = tasks[t]
      PROVE  Stacked(i)'
  <2>1. /\ i \in DOMAIN frames /\ i # Len(frames) /\ frames'[i] = frames[i]
        /\ Len(frames) \in DOMAIN frames /\ Top = frames[Len(frames)]
    BY <1>7, SetTopFacts, TopFacts
  <2>2. frames[i].task \in TasksOf(frames[i].rt) /\ frames[i].rt # Top.rt
    BY <1>t, <2>1 DEF Stacked
  <2>3. Top.task # None => Top.task \in TasksOf(Top.rt)
    BY <1>t, <2>1 DEF Stacked
  <2>4. frames[i].task \in Tasks /\ frames[i].task # Top.task
    <3>1. frames[i].task \in Tasks /\ tasks[frames[i].task].rt = frames[i].rt
      BY <2>2 DEF TasksOf
    <3>2. Top.task # None => tasks[Top.task].rt = Top.rt
      BY <2>3 DEF TasksOf
    <3> QED BY <2>1, <2>2, <3>1, <3>2
  <2> QED BY <1>7, <1>t, <2>1, <2>4, KeepTasks
<1>8. CASE \E t \in Tasks : PollTask(t) \/ BeginDropTask(t)
  BY <1>6, <1>8 DEF PollTask, BeginDropTask, TopIs
<1>9. CASE PollPending \/ FinishTask \/ EndDropTask
  <2>1. frames # <<>> /\ frames' = SetTopTask(None)
    BY <1>9 DEF PollPending, FinishTask, EndDropTask
  <2>2. \A t \in Tasks : t # Top.task => tasks'[t] = tasks[t]
    BY <1>9 DEF PollPending, FinishTask, EndDropTask, TypeOK
  <2> QED BY <1>7, <2>1, <2>2
<1>10. CASE (\E g \in Guards : EndBlockOn(g)) \/ EndDropRuntime
  BY <1>4, <1>10 DEF EndBlockOn, EndDropRuntime, TopIs, Returns
<1>11. CASE (\E r \in Runtimes, g \in Guards : block_on(r, g)) \/ \E r \in Runtimes : DropRuntime(r)
  BY <1>3, <1>11 DEF block_on, DropRuntime, Calls
<1>12. CASE (\E t \in Tasks : spawn(t)) \/ \E r \in Runtimes, t \in Tasks : SpawnTo(r, t)
  BY <1>2, <1>12 DEF spawn, SpawnTo
<1> QED
  BY <1>1, <1>5, <1>8, <1>9, <1>10, <1>11, <1>12
  DEF Next, vars, NewRuntime, enter, DropGuard, LeakGuard, EnterPanics, CurrentPanics, Catch

LEMMA TypeStep ==
  ASSUME TypeOK, [Next]_vars
  PROVE  TypeOK'
<1> USE RuntimeAssumption
<1>1. /\ context' \in Runtimes \union {None} /\ guards' \in [Guards -> EnterGuard \union {None}]
      /\ runtimes' \in [Runtimes -> {"none", "open", "closed"}] /\ unwinding' \in BOOLEAN
  <2>1. ASSUME NEW r \in Runtimes, NewRuntime(r) \/ DropRuntime(r)
        PROVE  <1>1!:
    BY <2>1 DEF NewRuntime, DropRuntime, TypeOK
  <2>2. ASSUME NEW r \in Runtimes, NEW g \in Guards, enter(r, g) \/ block_on(r, g)
        PROVE  <1>1!:
    BY <2>2 DEF enter, block_on, try_set_current, TypeOK, EnterGuard
  <2>3. ASSUME NEW g \in Guards, DropGuard(g) \/ EndBlockOn(g)
        PROVE  <1>1!:
    BY <2>3 DEF DropGuard, EndBlockOn, clear_current, TypeOK
  <2>4. ASSUME NEW g \in Guards, LeakGuard(g)
        PROVE  <1>1!:
    <3>1. guards[g] \in EnterGuard
      BY <2>4 DEF LeakGuard, TypeOK
    <3>2. [rt |-> guards[g].rt, place |-> "leaked"] \in EnterGuard
      BY <3>1 DEF EnterGuard
    <3> QED BY <2>4, <3>2 DEF LeakGuard, TypeOK
  <2>5. CASE EnterPanics \/ CurrentPanics \/ Catch \/ FinishTask
    BY <2>5 DEF EnterPanics, refused, CurrentPanics, Catch, FinishTask, TypeOK
  <2>6. CASE UNCHANGED <<context, guards, runtimes, unwinding>>
    BY <2>6 DEF TypeOK
  <2> QED
    BY <2>1, <2>2, <2>3, <2>4, <2>5, <2>6
    DEF Next, vars, spawn, SpawnTo, submit, PollTask, PollPending, BeginDropTask, EndDropTask,
        EndDropRuntime, AbandonDropRuntime
<1>2. tasks' \in [Tasks -> Task]
  <2>1. ASSUME NEW r \in Runtimes, NEW t \in Tasks, submit(r, t)
        PROVE  tasks' \in [Tasks -> Task]
    BY <2>1 DEF submit, TypeOK, Task
  <2>2. CASE FinishTask \/ EndDropTask
    <3>1. Top.task \in Tasks
      BY <2>2, TopFacts DEF FinishTask, EndDropTask, Frame
    <3>2. /\ [state |-> "done", rt |-> tasks[Top.task].rt] \in Task
          /\ [state |-> "dropped", rt |-> tasks[Top.task].rt] \in Task
      BY <3>1 DEF TypeOK, Task
    <3> QED BY <2>2, <3>1, <3>2 DEF FinishTask, EndDropTask, TypeOK
  <2>3. CASE AbandonDropRuntime
    <3>1. [state |-> "leaked", rt |-> Top.rt] \in Task
      BY <2>3, TopFacts DEF AbandonDropRuntime, Frame, Task
    <3> QED BY <2>3, <3>1 DEF AbandonDropRuntime, TypeOK
  <2>4. ASSUME NEW t \in Tasks, spawn(t)
        PROVE  tasks' \in [Tasks -> Task]
    BY <2>1, <2>4 DEF spawn, entered, TypeOK
  <2>5. CASE UNCHANGED tasks
    BY <2>5 DEF TypeOK
  <2> QED
    BY <2>1, <2>2, <2>3, <2>4, <2>5
    DEF Next, vars, NewRuntime, enter, block_on, DropGuard, LeakGuard, EndBlockOn, EnterPanics,
        CurrentPanics, Catch, SpawnTo, PollTask, PollPending, BeginDropTask, DropRuntime,
        EndDropRuntime
<1>3. frames' \in Seq(Frame) /\ \A i, j \in DOMAIN frames' : frames'[i].rt = frames'[j].rt => i = j
  <2>1. ASSUME NEW kind \in {"block_on", "drop"}, NEW r \in Runtimes, Calls(kind, r)
        PROVE  <1>3!:
    BY <2>1, CallFacts DEF TypeOK
  <2>2. CASE UNCHANGED frames \/ Returns \/ Retasks
    BY <2>2, FramesKeepTheirRuntime DEF TypeOK
  <2> QED BY <2>1, <2>2, StackStep
<1> QED BY <1>1, <1>2, <1>3, StackedTasksStep DEF TypeOK, Stacked

-----------------------------------------------------------------------------
(* The context *)

LEMMA NoneIsNoGuard ==
  ASSUME TypeOK, ContextFollowsGuards
  PROVE  /\ \A g \in Guards : guards[g] # None => context = guards[g].rt /\ context \in Runtimes
         /\ context = None <=> \A g \in Guards : guards[g] = None
         /\ \A g, h \in Guards : guards[g] # None /\ guards[h] # None => g = h
BY RuntimeAssumption DEF TypeOK, ContextFollowsGuards, EnterGuard

LEMMA ContextStep ==
  ASSUME TypeOK, ContextFollowsGuards, [Next]_vars
  PROVE  ContextFollowsGuards'
<1> USE RuntimeAssumption
<1>1. ASSUME NEW r \in Runtimes, NEW g \in Guards, enter(r, g) \/ block_on(r, g)
      PROVE  ContextFollowsGuards'
  <2>1. context = None /\ context' = r
    BY <1>1 DEF enter, block_on, try_set_current
  <2>2. \A h \in Guards \ {g} : guards'[h] = None
    BY <1>1, <2>1, NoneIsNoGuard DEF enter, block_on, TypeOK
  <2>3. guards'[g] \in EnterGuard /\ guards'[g].rt = r
    BY <1>1 DEF enter, block_on, TypeOK, EnterGuard
  <2> QED BY <2>1, <2>2, <2>3 DEF ContextFollowsGuards
<1>2. ASSUME NEW g \in Guards, guards[g] # None, guards' = [guards EXCEPT ![g] = None],
             clear_current
      PROVE  ContextFollowsGuards'
  <2>1. \A h \in Guards : guards'[h] = None
    BY <1>2, NoneIsNoGuard DEF TypeOK
  <2> QED BY <1>2, <2>1 DEF ContextFollowsGuards, clear_current
<1>3. ASSUME NEW g \in Guards, LeakGuard(g)
      PROVE  ContextFollowsGuards'
  <2>1. guards[g] \in EnterGuard /\ guards'[g] = [rt |-> guards[g].rt, place |-> "leaked"]
    BY <1>3 DEF LeakGuard, TypeOK
  <2>2. guards'[g] \in EnterGuard /\ guards'[g].rt = guards[g].rt
    BY <2>1 DEF EnterGuard
  <2>3. \A h \in Guards \ {g} : guards'[h] = None
    BY <1>3, <2>1, NoneIsNoGuard DEF LeakGuard, TypeOK
  <2>4. context' = context /\ context = guards[g].rt
    BY <1>3, <2>1, NoneIsNoGuard DEF LeakGuard
  <2> QED BY <2>2, <2>3, <2>4 DEF ContextFollowsGuards
<1>4. CASE \E g \in Guards : DropGuard(g)
  BY <1>2, <1>4 DEF DropGuard
<1>5. ASSUME NEW g \in Guards, EndBlockOn(g)
      PROVE  ContextFollowsGuards'
  <2>1. guards[g] # None
    <3>1. [rt |-> Top.rt, place |-> "block_on"] \in EnterGuard
      BY <1>5, TopFacts DEF EndBlockOn, TopIs, Frame, EnterGuard
    <3> QED BY <1>5, <3>1 DEF EndBlockOn
  <2> QED BY <1>2, <1>5, <2>1 DEF EndBlockOn
<1>6. CASE UNCHANGED <<context, guards>>
  BY <1>6 DEF ContextFollowsGuards
<1> QED
  BY <1>1, <1>3, <1>4, <1>5, <1>6
  DEF Next, vars, NewRuntime, EnterPanics, refused, CurrentPanics, Catch, spawn, SpawnTo, submit,
      PollTask, PollPending, FinishTask, DropRuntime, BeginDropTask, EndDropTask, EndDropRuntime,
      AbandonDropRuntime

-----------------------------------------------------------------------------
(* block_on and the runtimes on the stack *)

\* A guard that user code holds tells that no block_on is on the stack.
LEMMA UserGuardFacts ==
  ASSUME TypeOK, ContextFollowsGuards, BlockOnHoldsItsGuard,
         NEW g \in Guards, guards[g] # None, guards[g].place # "block_on"
  PROVE  \A i \in DOMAIN frames : frames[i].kind # "block_on"
<1> SUFFICES ASSUME NEW i \in DOMAIN frames, frames[i].kind = "block_on"
             PROVE  FALSE
  OBVIOUS
<1>1. PICK h \in Guards : guards[h] = [rt |-> frames[i].rt, place |-> "block_on"]
  BY DEF BlockOnHoldsItsGuard
<1>2. guards[h] # None /\ guards[h].place = "block_on"
  <2>1. [rt |-> frames[i].rt, place |-> "block_on"] \in EnterGuard
    BY FramesAreTyped DEF EnterGuard
  <2> QED BY <1>1, <2>1, RuntimeAssumption
<1> QED BY <1>2, NoneIsNoGuard

\* Outside of every context there is no block_on.
LEMMA NoContextFacts ==
  ASSUME TypeOK, CodeRunsInItsRuntime, context = None
  PROVE  \A i \in DOMAIN frames : frames[i].kind # "block_on"
BY RuntimeAssumption, FramesAreTyped DEF CodeRunsInItsRuntime

\* The block_on that returns is the only one.
LEMMA EndBlockOnFacts ==
  ASSUME TypeOK, CodeRunsInItsRuntime, NEW g \in Guards, EndBlockOn(g)
  PROVE  \A i \in DOMAIN frames' : frames'[i].kind # "block_on"
<1>1. frames # <<>> /\ Top.kind = "block_on" /\ frames' = Front(frames)
  BY DEF EndBlockOn, TopIs
<1>2. \A i \in DOMAIN frames : frames[i].kind = "block_on" => i = Len(frames)
  BY <1>1, TopFacts DEF CodeRunsInItsRuntime
<1> QED BY <1>1, <1>2, FrontFacts

LEMMA GuardStep ==
  ASSUME TypeOK, ContextFollowsGuards, BlockOnHoldsItsGuard, CodeRunsInItsRuntime, [Next]_vars
  PROVE  BlockOnHoldsItsGuard'
<1>1. ASSUME NEW r \in Runtimes, NEW g \in Guards, block_on(r, g), Calls("block_on", r)
      PROVE  BlockOnHoldsItsGuard'
  <2>1. \A i \in DOMAIN frames : frames[i].kind # "block_on"
    BY <1>1, NoContextFacts DEF block_on, try_set_current
  <2>2. guards'[g] = [rt |-> r, place |-> "block_on"]
    BY <1>1 DEF block_on, TypeOK
  <2> QED BY <1>1, <2>1, <2>2, CallFacts DEF BlockOnHoldsItsGuard
<1>2. ASSUME NEW r \in Runtimes, DropRuntime(r), Calls("drop", r)
      PROVE  BlockOnHoldsItsGuard'
  BY <1>2, CallFacts DEF DropRuntime, BlockOnHoldsItsGuard
<1>3. CASE UNCHANGED frames \/ Returns \/ Retasks
  <2>f. /\ DOMAIN frames' \subseteq DOMAIN frames
        /\ \A i \in DOMAIN frames' :
             frames'[i].kind = frames[i].kind /\ frames'[i].rt = frames[i].rt
    BY <1>3, FramesKeepTheirRuntime
  <2>1. ASSUME \A i \in DOMAIN frames : frames[i].kind # "block_on"
        PROVE  BlockOnHoldsItsGuard'
    BY <2>f, <2>1 DEF BlockOnHoldsItsGuard
  <2>2. CASE UNCHANGED guards
    BY <2>f, <2>2 DEF BlockOnHoldsItsGuard
  <2>3. CASE \E r \in Runtimes, g \in Guards : enter(r, g)
    BY <2>1, <2>3, NoContextFacts DEF enter, try_set_current
  <2>4. CASE \E g \in Guards : DropGuard(g) \/ LeakGuard(g)
    <3>1. PICK g \in Guards : guards[g] # None /\ guards[g].place # "block_on"
      BY <2>4 DEF DropGuard, LeakGuard
    <3> QED BY <2>1, <3>1, UserGuardFacts
  <2>5. CASE \E g \in Guards : EndBlockOn(g)
    BY <2>5, EndBlockOnFacts DEF BlockOnHoldsItsGuard
  <2>6. CASE \E r \in Runtimes, g \in Guards : block_on(r, g)
    BY <2>1, <2>6, NoContextFacts DEF block_on, try_set_current
  <2> QED
    BY <2>2, <2>3, <2>4, <2>5, <2>6
    DEF Next, vars, NewRuntime, EnterPanics, CurrentPanics, Catch, spawn, SpawnTo, submit,
        PollTask, PollPending, FinishTask, DropRuntime, BeginDropTask, EndDropTask,
        EndDropRuntime, AbandonDropRuntime
<1> QED BY <1>1, <1>2, <1>3, StackStep

LEMMA BlockOnStep ==
  ASSUME TypeOK, ContextFollowsGuards, BlockOnHoldsItsGuard, CodeRunsInItsRuntime, [Next]_vars
  PROVE  CodeRunsInItsRuntime'
<1>1. ASSUME NEW r \in Runtimes, NEW g \in Guards, block_on(r, g), Calls("block_on", r)
      PROVE  CodeRunsInItsRuntime'
  <2>1. \A i \in DOMAIN frames : frames[i].kind # "block_on"
    BY <1>1, NoContextFacts DEF block_on, try_set_current
  <2>2. context' = r /\ runtimes'[r] = "open"
    BY <1>1 DEF block_on, try_set_current
  <2> QED BY <1>1, <2>1, <2>2, CallFacts DEF CodeRunsInItsRuntime
<1>2. ASSUME NEW r \in Runtimes, DropRuntime(r), Calls("drop", r)
      PROVE  CodeRunsInItsRuntime'
  <2>1. context' = context /\ \A q \in Runtimes \ {r} : runtimes'[q] = runtimes[q]
    BY <1>2 DEF DropRuntime, TypeOK
  <2>2. \A i \in DOMAIN frames : frames[i].rt \in Runtimes \ {r}
    BY <1>2, CallFacts, FramesAreTyped
  <2> QED BY <1>2, <2>1, <2>2, CallFacts DEF CodeRunsInItsRuntime
<1>3. CASE UNCHANGED frames \/ Returns \/ Retasks
  <2>f. /\ DOMAIN frames' \subseteq DOMAIN frames
        /\ \A i \in DOMAIN frames' :
             frames'[i].kind = frames[i].kind /\ frames'[i].rt = frames[i].rt
    BY <1>3, FramesKeepTheirRuntime
  <2>1. ASSUME \A i \in DOMAIN frames : frames[i].kind # "block_on"
        PROVE  CodeRunsInItsRuntime'
    BY <2>f, <2>1 DEF CodeRunsInItsRuntime
  <2>2. CASE UNCHANGED <<context, runtimes>>
    BY <2>f, <2>2 DEF CodeRunsInItsRuntime
  <2>3. CASE \E r \in Runtimes, g \in Guards : enter(r, g) \/ block_on(r, g)
    BY <2>1, <2>3, NoContextFacts DEF enter, block_on, try_set_current
  <2>4. CASE \E g \in Guards : DropGuard(g)
    <3>1. PICK g \in Guards : guards[g] # None /\ guards[g].place # "block_on"
      BY <2>4 DEF DropGuard
    <3> QED BY <2>1, <3>1, UserGuardFacts
  <2>5. CASE \E g \in Guards : EndBlockOn(g)
    BY <2>5, EndBlockOnFacts DEF CodeRunsInItsRuntime
  <2>6. CASE \E r \in Runtimes : NewRuntime(r)
    <3>1. context' = context /\ \A q \in Runtimes : runtimes[q] = "open" => runtimes'[q] = "open"
      BY <2>6 DEF NewRuntime, TypeOK
    <3> QED BY <2>f, <3>1, FramesAreTyped DEF CodeRunsInItsRuntime
  <2>7. CASE \E r \in Runtimes : DropRuntime(r)
    <3>1. PICK r \in Runtimes : Calls("drop", r)
      BY <2>7 DEF DropRuntime, Calls
    <3>2. Len(frames) + 1 \in DOMAIN frames' /\ Len(frames) + 1 \notin DOMAIN frames
      BY <3>1, CallFacts
    <3> QED BY <2>f, <3>2
  <2> QED
    BY <2>2, <2>3, <2>4, <2>5, <2>6, <2>7
    DEF Next, vars, EnterPanics, refused, CurrentPanics, Catch, spawn, SpawnTo, submit,
        LeakGuard, PollTask, PollPending, FinishTask, BeginDropTask, EndDropTask,
        EndDropRuntime, AbandonDropRuntime
<1> QED BY <1>1, <1>2, <1>3, StackStep

-----------------------------------------------------------------------------
(* Tasks that wait *)

LEMMA WaitingStep ==
  ASSUME TypeOK, CodeRunsInItsRuntime, WaitingTasksHaveARuntime, [Next]_vars
  PROVE  WaitingTasksHaveARuntime'
<1> SUFFICES ASSUME NEW t \in Tasks, tasks'[t].state = "queued"
             PROVE  runtimes'[tasks'[t].rt] = "open" \/ InUse(tasks[t].rt)'
  BY DEF WaitingTasksHaveARuntime
<1> DEFINE q == tasks[t].rt
           Goal == runtimes'[tasks'[t].rt] = "open" \/ InUse(tasks[t].rt)'
<1>1. ASSUME tasks'[t] = tasks[t], runtimes[q] = "open" => runtimes'[q] = "open",
             InUse(q) => \E i \in DOMAIN frames' : frames'[i].rt = q
      PROVE  Goal
  BY <1>1 DEF WaitingTasksHaveARuntime, InUse
<1> SUFFICES Goal
  OBVIOUS
<1> HIDE DEF Goal
<1>a. UNCHANGED frames => (InUse(q) => \E i \in DOMAIN frames' : frames'[i].rt = q)
  BY DEF InUse
<1>2. CASE UNCHANGED <<tasks, runtimes, frames>>
  BY <1>1, <1>2, <1>a
<1>3. ASSUME NEW r, submit(r, t)
      PROVE  Goal
  <2>1. tasks'[t] = [state |-> IF accepts(r) THEN "queued" ELSE "dropped", rt |-> r]
    BY <1>3 DEF submit, TypeOK
  <2>2. accepts(r) /\ tasks'[t].rt = r
    BY <2>1
  <2> QED BY <1>3, <2>2 DEF submit, accepts, Goal
<1>4. ASSUME NEW r, NEW u \in Tasks \ {t}, submit(r, u)
      PROVE  Goal
  BY <1>1, <1>4, <1>a DEF submit, TypeOK
<1>5. CASE \E u \in Tasks : spawn(u)
  <2>1. PICK u \in Tasks : submit(context, u)
    BY <1>5 DEF spawn
  <2> QED BY <1>3, <1>4, <2>1
<1>6. CASE \E r \in Runtimes, u \in Tasks : SpawnTo(r, u)
  <2>1. PICK r \in Runtimes, u \in Tasks : submit(r, u)
    BY <1>6 DEF SpawnTo
  <2> QED BY <1>3, <1>4, <2>1
<1>7. CASE \E r \in Runtimes : NewRuntime(r)
  <2>1. runtimes[q] = "open" => runtimes'[q] = "open"
    BY <1>7 DEF NewRuntime, TypeOK
  <2> QED BY <1>1, <1>7, <1>a, <2>1 DEF NewRuntime
<1>8. ASSUME NEW r \in Runtimes, NEW g \in Guards, block_on(r, g), Calls("block_on", r)
      PROVE  Goal
  <2>1. InUse(q) => \E i \in DOMAIN frames' : frames'[i].rt = q
    BY <1>8, CallFacts DEF InUse
  <2> QED BY <1>1, <1>8, <2>1 DEF block_on
<1>9. ASSUME NEW r \in Runtimes, DropRuntime(r), Calls("drop", r)
      PROVE  Goal
  <2>1. \E i \in DOMAIN frames' : frames'[i].rt = r
    BY <1>9, CallFacts
  <2>2. InUse(q) => \E i \in DOMAIN frames' : frames'[i].rt = q
    BY <1>9, CallFacts DEF InUse
  <2>3. CASE q = r
    BY <1>9, <2>1, <2>3 DEF DropRuntime, InUse, Goal
  <2>4. CASE q # r
    <3>1. runtimes[q] = "open" => runtimes'[q] = "open"
      BY <1>9, <2>4 DEF DropRuntime, TypeOK
    <3> QED BY <1>1, <1>9, <2>2, <3>1 DEF DropRuntime
  <2> QED BY <2>3, <2>4
\* Whoever finishes a task leaves the stack as it is but for the task.
<1>10. CASE Retasks /\ UNCHANGED runtimes
  <2>1. InUse(q) => \E i \in DOMAIN frames' : frames'[i].rt = q
    <3>1. /\ DOMAIN frames' = DOMAIN frames
          /\ \A i \in DOMAIN frames : frames'[i].rt = frames[i].rt
      BY <1>10, SetTopFacts DEF Retasks
    <3> QED BY <3>1 DEF InUse
  <2>2. CASE tasks'[t] = tasks[t]
    BY <1>1, <1>10, <2>1, <2>2
  <2>3. CASE tasks'[t] # tasks[t]
    <3>1. CASE FinishTask
      BY <2>3, <3>1 DEF FinishTask, TypeOK
    <3>2. CASE EndDropTask
      BY <2>3, <3>2 DEF EndDropTask, TypeOK
    <3>3. CASE \/ \E u \in Tasks : PollTask(u) \/ BeginDropTask(u)
               \/ PollPending
      BY <2>3, <3>3 DEF PollTask, BeginDropTask, PollPending
    <3>4. CASE AbandonDropRuntime
      <4>1. tasks'[t] = [state |-> "leaked", rt |-> Top.rt]
        BY <2>3, <3>4 DEF AbandonDropRuntime
      <4> QED BY <4>1
    <3> QED
      BY <1>5, <1>6, <2>3, <3>1, <3>2, <3>3, <3>4
      DEF Next, vars, NewRuntime, enter, block_on, DropGuard, LeakGuard, EndBlockOn,
          EnterPanics, CurrentPanics, Catch, DropRuntime, EndDropRuntime
  <2> QED BY <2>2, <2>3
\* A runtime leaves the stack open or without tasks.
<1>11. ASSUME Returns, q # Top.rt \/ runtimes[q] = "open", UNCHANGED runtimes,
              tasks'[t] = tasks[t]
       PROVE  Goal
  <2>1. CASE q # Top.rt
    <3>1. InUse(q) => \E i \in DOMAIN frames' : frames'[i].rt = q
      BY <1>11, <2>1, FrontFacts, TopFacts DEF Returns, InUse
    <3> QED BY <1>1, <1>11, <3>1
  <2>2. CASE runtimes[q] = "open"
    BY <1>11, <2>2 DEF Goal
  <2> QED BY <1>11, <2>1, <2>2
<1>12. CASE \E g \in Guards : EndBlockOn(g)
  <2>1. frames # <<>> /\ Top.kind = "block_on"
    BY <1>12 DEF EndBlockOn, TopIs
  <2>2. runtimes[Top.rt] = "open"
    BY <2>1, TopFacts DEF CodeRunsInItsRuntime
  <2>3. q # Top.rt \/ runtimes[q] = "open"
    BY <2>2
  <2>4. Returns /\ UNCHANGED runtimes /\ tasks' = tasks
    BY <1>12, <2>1 DEF EndBlockOn, Returns
  <2> QED BY <1>11, <2>3, <2>4
<1>13. CASE EndDropRuntime
  <2>1. frames # <<>> /\ t \notin TasksOf(Top.rt) /\ tasks[t] \in Task /\ tasks'[t] = tasks[t]
    BY <1>13 DEF EndDropRuntime, TopIs, TypeOK
  <2>2. tasks[t] = [state |-> "queued", rt |-> q]
    BY <2>1 DEF Task
  <2>3. q # Top.rt
    BY <2>1, <2>2 DEF TasksOf
  <2> QED BY <1>11, <1>13, <2>1, <2>3 DEF EndDropRuntime, Returns
<1>14. CASE AbandonDropRuntime
  <2>1. t \notin TasksOf(Top.rt)
    <3>1. t \in TasksOf(Top.rt) => tasks'[t] = [state |-> "leaked", rt |-> Top.rt]
      BY <1>14 DEF AbandonDropRuntime
    <3> QED BY <3>1
  <2>2. tasks'[t] = tasks[t] /\ tasks[t] \in Task
    BY <1>14, <2>1 DEF AbandonDropRuntime, TypeOK
  <2>3. tasks[t] = [state |-> "queued", rt |-> q]
    BY <2>2 DEF Task
  <2>4. q # Top.rt
    BY <2>1, <2>3 DEF TasksOf
  <2> QED BY <1>11, <1>14, <2>2, <2>4 DEF AbandonDropRuntime, Returns
<1>15. CASE \/ \E u \in Tasks : PollTask(u) \/ BeginDropTask(u)
            \/ PollPending \/ FinishTask \/ EndDropTask
  <2>1. UNCHANGED runtimes /\ frames # <<>>
    BY <1>15 DEF PollTask, BeginDropTask, PollPending, FinishTask, EndDropTask, TopIs
  <2>2. \E u \in Tasks \union {None} : frames' = SetTopTask(u)
    BY <1>15 DEF PollTask, BeginDropTask, PollPending, FinishTask, EndDropTask
  <2> QED BY <1>10, <2>1, <2>2 DEF Retasks
<1> QED
  BY <1>2, <1>5, <1>6, <1>7, <1>8, <1>9, <1>12, <1>13, <1>14, <1>15
  DEF Next, vars, enter, block_on, DropGuard, LeakGuard, EnterPanics, CurrentPanics, Catch,
      DropRuntime, Calls

-----------------------------------------------------------------------------
\* Types, the context, guards and stack stay consistent in every order of
\* entering, calling, dropping, forgetting and unwinding.
THEOREM Inductive == Spec => []IndInv
<1>1. Init => IndInv
  <2> SUFFICES ASSUME Init
               PROVE  IndInv
    OBVIOUS
  <2> USE DEF Init
  <2>1. TypeOK
    <3>1. frames \in Seq(Frame) /\ DOMAIN frames = {}
      OBVIOUS
    <3>2. tasks \in [Tasks -> Task]
      BY DEF Task
    <3> QED BY <3>1, <3>2 DEF TypeOK
  <2>2. ContextFollowsGuards
    BY DEF ContextFollowsGuards
  <2>3. BlockOnHoldsItsGuard
    BY DEF BlockOnHoldsItsGuard
  <2>4. CodeRunsInItsRuntime
    BY DEF CodeRunsInItsRuntime
  <2>5. WaitingTasksHaveARuntime
    BY DEF WaitingTasksHaveARuntime
  <2> QED BY <2>1, <2>2, <2>3, <2>4, <2>5 DEF IndInv
<1>2. IndInv /\ [Next]_vars => IndInv'
  BY TypeStep, ContextStep, GuardStep, BlockOnStep, WaitingStep DEF IndInv
<1> QED BY <1>1, <1>2, PTL DEF Spec

\* The thread is in a context as long as its guard exists.
THEOREM ContextIsGuarded == Spec => []ContextFollowsGuards
<1>1. IndInv => ContextFollowsGuards
  BY DEF IndInv
<1> QED BY <1>1, Inductive, PTL

\* Code under block_on finds the runtime that runs it, and none other runs.
THEOREM BlockOnIsCurrent == Spec => []CodeRunsInItsRuntime
<1>1. IndInv => CodeRunsInItsRuntime
  BY DEF IndInv
<1> QED BY <1>1, Inductive, PTL

\* No task waits in a runtime that is gone.
THEOREM NoTaskIsStranded == Spec => []WaitingTasksHaveARuntime
<1>1. IndInv => WaitingTasksHaveARuntime
  BY DEF IndInv
<1> QED BY <1>1, Inductive, PTL
=============================================================================
