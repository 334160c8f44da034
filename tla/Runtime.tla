------------------------------ MODULE Runtime ------------------------------
(***************************************************************************)
(* The runtime context of one thread: src/context.rs, the EnterGuard of    *)
(* src/handle.rs and the Runtime of src/runtime.rs.  Handles, guards and   *)
(* runtimes do not leave the thread that made them, so that one thread is  *)
(* enough.                                                                 *)
(*                                                                         *)
(* User code runs on a stack of frames: outside of every runtime, inside   *)
(* block_on (in the root future or in a task) and inside the drop of a     *)
(* Runtime (in the destructor of a task's future).  On each it may do what *)
(* it likes to every runtime, guard and handle that is not in use further  *)
(* down.  Destructors that run during an unwind may drop guards and        *)
(* runtimes and spawn; that they enter a runtime, or panic and catch it,   *)
(* is left out, and so is a panic that gets past the CatchUnwind of a task *)
(* (Executor has it).                                                      *)
(***************************************************************************)
EXTENDS Naturals, Sequences, SequencesExt

CONSTANTS
  Runtimes,  \* the runtimes that may ever exist
  Tasks,     \* the futures that may be spawned
  Guards,    \* the EnterGuards that may exist at a time
  None       \* no runtime, task or guard

VARIABLES
  context,   \* CONTEXT: the runtime whose Handle it holds, or None
  guards,    \* per EnterGuard its runtime and where it lives, or None
  runtimes,  \* per runtime "none", "open" or "closed"
  tasks,     \* per task its state and the runtime that got it
  frames,    \* the stack, innermost last
  unwinding  \* a panic is on its way up the stack

vars == <<context, guards, runtimes, tasks, frames, unwinding>>

EnterGuard == [rt : Runtimes, place : {"user", "block_on", "leaked"}]
Task == [state : {"none", "queued", "done", "dropped", "leaked"}, rt : Runtimes \union {None}]

\* task: under poll, or under destruction; None in the root future or between
\* two tasks.  during: the frame was pushed by a destructor during an unwind.
Frame == [kind : {"block_on", "drop"}, rt : Runtimes, task : Tasks \union {None}, during : BOOLEAN]

ASSUME RuntimeAssumption == None \notin Runtimes \union Tasks \union EnterGuard

Init ==
  /\ context = None
  /\ guards = [g \in Guards |-> None]
  /\ runtimes = [r \in Runtimes |-> "none"]
  /\ tasks = [t \in Tasks |-> [state |-> "none", rt |-> None]]
  /\ frames = <<>>
  /\ unwinding = FALSE

InUse(r) == \E i \in DOMAIN frames : frames[i].rt = r
Top == Last(frames)
During == frames # <<>> /\ Top.during
TopIs(kind, task) == frames # <<>> /\ Top.kind = kind /\ Top.task = task
SetTopTask(t) == [frames EXCEPT ![Len(frames)] = [Top EXCEPT !.task = t]]
Push(kind, r) ==
  Append(frames, [kind |-> kind, rt |-> r, task |-> None, during |-> unwinding])
TasksOf(r) == {t \in Tasks : tasks[t] = [state |-> "queued", rt |-> r]}
-----------------------------------------------------------------------------
(* CONTEXT *)

\* Mutation: a runtime that is entered may be entered again.
try_set_current_reentrant(r) == context \in {None, r} /\ context' = r

try_set_current(r) == context = None /\ context' = r

\* Mutation: a guard that is dropped by a panic leaves its runtime entered.
clear_current_unless_panicking == context' = IF unwinding THEN context ELSE None

clear_current == context' = None

\* try_current returns a Handle and current does not panic.
entered == context # None

\* Mutation: enter builds its guard first, and the unwind drops it.
refused_drops_guard == clear_current

\* A refused enter panics before it has a guard.
refused == context' = context
-----------------------------------------------------------------------------
(* Runtime, Handle and EnterGuard *)

NewRuntime(r) ==
  /\ runtimes[r] = "none"
  /\ runtimes' = [runtimes EXCEPT ![r] = "open"]
  /\ UNCHANGED <<context, guards, tasks, frames, unwinding>>

\* Runtime::enter and Handle::enter; a Handle may outlive its runtime.
enter(r, g) ==
  /\ ~unwinding
  /\ runtimes[r] # "none"
  /\ guards[g] = None
  /\ try_set_current(r)
  /\ guards' = [guards EXCEPT ![g] = [rt |-> r, place |-> "user"]]
  /\ UNCHANGED <<runtimes, tasks, frames, unwinding>>

\* enter, or block_on of any runtime, while one is entered.
EnterPanics ==
  /\ ~unwinding
  /\ entered
  /\ refused
  /\ unwinding' = TRUE
  /\ UNCHANGED <<guards, runtimes, tasks, frames>>

DropGuard(g) ==
  /\ guards[g] # None /\ guards[g].place = "user"
  /\ clear_current
  /\ guards' = [guards EXCEPT ![g] = None]
  /\ UNCHANGED <<runtimes, tasks, frames, unwinding>>

\* mem::forget: the runtime stays entered.
LeakGuard(g) ==
  /\ guards[g] # None /\ guards[g].place = "user"
  /\ guards' = [guards EXCEPT ![g] = [rt |-> @.rt, place |-> "leaked"]]
  /\ UNCHANGED <<context, runtimes, tasks, frames, unwinding>>

block_on(r, g) ==
  /\ ~unwinding
  /\ runtimes[r] = "open" /\ ~InUse(r)
  /\ guards[g] = None
  /\ try_set_current(r)
  /\ guards' = [guards EXCEPT ![g] = [rt |-> r, place |-> "block_on"]]
  /\ frames' = Push("block_on", r)
  /\ UNCHANGED <<runtimes, tasks, unwinding>>

\* The root future is dropped, then the guard: block_on returns its output or
\* goes on unwinding.
EndBlockOn(g) ==
  /\ TopIs("block_on", None)
  /\ guards[g] = [rt |-> Top.rt, place |-> "block_on"]
  /\ clear_current
  /\ guards' = [guards EXCEPT ![g] = None]
  /\ frames' = Front(frames)
  /\ UNCHANGED <<runtimes, tasks, unwinding>>

\* catch_unwind in user code; it cannot catch a panic of a frame below.
Catch ==
  /\ unwinding /\ ~During
  /\ unwinding' = FALSE
  /\ UNCHANGED <<context, guards, runtimes, tasks, frames>>
-----------------------------------------------------------------------------
(* Tasks *)

\* Mutation: a runtime that is closed accepts tasks.
accepts_always(r) == TRUE

accepts(r) == runtimes[r] = "open"

\* SpawnState::submit; what is not accepted is dropped.
submit(r, t) ==
  /\ tasks[t].state = "none"
  /\ tasks' = [tasks EXCEPT ![t] =
       [state |-> IF accepts(r) THEN "queued" ELSE "dropped", rt |-> r]]
  /\ UNCHANGED <<context, guards, runtimes, frames, unwinding>>

\* task::spawn, to the current runtime
spawn(t) == entered /\ submit(context, t)

\* Handle::spawn, to any runtime whose Handle is at hand
SpawnTo(r, t) == runtimes[r] # "none" /\ submit(r, t)

\* Handle::current and what calls it, when no runtime is entered.
CurrentPanics ==
  /\ ~unwinding
  /\ ~entered
  /\ unwinding' = TRUE
  /\ UNCHANGED <<context, guards, runtimes, tasks, frames>>

PollTask(t) ==
  /\ ~unwinding
  /\ TopIs("block_on", None)
  /\ t \in TasksOf(Top.rt)
  /\ frames' = SetTopTask(t)
  /\ UNCHANGED <<context, guards, runtimes, tasks, unwinding>>

PollPending ==
  /\ ~unwinding
  /\ frames # <<>> /\ TopIs("block_on", Top.task) /\ Top.task # None
  /\ frames' = SetTopTask(None)
  /\ UNCHANGED <<context, guards, runtimes, tasks, unwinding>>

\* The task completes or panics, which its CatchUnwind catches.
FinishTask ==
  /\ frames # <<>> /\ TopIs("block_on", Top.task) /\ Top.task # None
  /\ tasks' = [tasks EXCEPT ![Top.task] = [state |-> "done", rt |-> @.rt]]
  /\ frames' = SetTopTask(None)
  /\ unwinding' = FALSE
  /\ UNCHANGED <<context, guards, runtimes>>
-----------------------------------------------------------------------------
(* Drop of a Runtime *)

DropRuntime(r) ==
  /\ runtimes[r] = "open" /\ ~InUse(r)
  /\ runtimes' = [runtimes EXCEPT ![r] = "closed"]
  /\ frames' = Push("drop", r)
  /\ UNCHANGED <<context, guards, tasks, unwinding>>

\* The destructor of one of its futures runs ...
BeginDropTask(t) ==
  /\ TopIs("drop", None)
  /\ t \in TasksOf(Top.rt)
  /\ frames' = SetTopTask(t)
  /\ UNCHANGED <<context, guards, runtimes, tasks, unwinding>>

\* ... and ends.
EndDropTask ==
  /\ frames # <<>> /\ TopIs("drop", Top.task) /\ Top.task # None
  /\ tasks' = [tasks EXCEPT ![Top.task] = [state |-> "dropped", rt |-> @.rt]]
  /\ frames' = SetTopTask(None)
  /\ UNCHANGED <<context, guards, runtimes, unwinding>>

EndDropRuntime ==
  /\ TopIs("drop", None)
  /\ TasksOf(Top.rt) = {}
  /\ frames' = Front(frames)
  /\ UNCHANGED <<context, guards, runtimes, tasks, unwinding>>

\* A destructor has panicked: the collection it is in may leak the rest.
AbandonDropRuntime ==
  /\ unwinding /\ ~During
  /\ frames # <<>> /\ Top.kind = "drop"
  /\ tasks' = [t \in Tasks |-> IF t \in TasksOf(Top.rt)
                               THEN [state |-> "leaked", rt |-> Top.rt] ELSE tasks[t]]
  /\ frames' = Front(frames)
  /\ UNCHANGED <<context, guards, runtimes, unwinding>>

Next ==
  \/ \E r \in Runtimes : NewRuntime(r) \/ DropRuntime(r)
  \/ \E r \in Runtimes, g \in Guards : enter(r, g) \/ block_on(r, g)
  \/ \E g \in Guards : DropGuard(g) \/ LeakGuard(g) \/ EndBlockOn(g)
  \/ EnterPanics \/ CurrentPanics \/ Catch
  \/ \E t \in Tasks : spawn(t) \/ PollTask(t) \/ BeginDropTask(t)
  \/ \E r \in Runtimes, t \in Tasks : SpawnTo(r, t)
  \/ PollPending \/ FinishTask \/ EndDropTask \/ EndDropRuntime \/ AbandonDropRuntime

Spec == Init /\ [][Next]_vars
-----------------------------------------------------------------------------
\* Every variable has its type, a runtime is on the stack once, and the tasks
\* on the stack are those of the runtimes there.
TypeOK ==
  /\ context \in Runtimes \union {None}
  /\ guards \in [Guards -> EnterGuard \union {None}]
  /\ runtimes \in [Runtimes -> {"none", "open", "closed"}]
  /\ tasks \in [Tasks -> Task]
  /\ frames \in Seq(Frame)
  /\ unwinding \in BOOLEAN
  /\ \A i, j \in DOMAIN frames : frames[i].rt = frames[j].rt => i = j
  /\ \A i \in DOMAIN frames :
       frames[i].task # None => frames[i].task \in TasksOf(frames[i].rt)

\* The thread is in the context of a runtime exactly as long as a guard of
\* this runtime is alive or leaked, and there is never a second guard,
\* whatever was refused, unwound, or dropped out of order.
ContextFollowsGuards ==
  LET live == {g \in Guards : guards[g] # None}
  IN  /\ \A g \in live : context = guards[g].rt
      /\ context # None => live # {}
      /\ \A g, h \in live : g = h

\* As long as block_on of a runtime is on the stack the runtime is the current
\* one, also for the destructors of other runtimes that are dropped there, so
\* that code finds the runtime that runs it; and block_on never nests.
CodeRunsInItsRuntime ==
  LET blocking == {i \in DOMAIN frames : frames[i].kind = "block_on"}
  IN  /\ \A i \in blocking : context = frames[i].rt /\ runtimes[frames[i].rt] = "open"
      /\ \A i, j \in blocking : i = j

\* No task is left where nobody will poll or drop it: one that waits belongs
\* to a runtime that is open or is dropping its tasks, although guards and
\* handles of closed runtimes go on taking spawns.
WaitingTasksHaveARuntime ==
  \A t \in Tasks :
    tasks[t].state = "queued" => runtimes[tasks[t].rt] = "open" \/ InUse(tasks[t].rt)

\* Each block_on on the stack has its guard, which user code cannot reach.
BlockOnHoldsItsGuard ==
  \A i \in DOMAIN frames :
    frames[i].kind = "block_on" =>
      \E g \in Guards : guards[g] = [rt |-> frames[i].rt, place |-> "block_on"]

\* The inductive invariant of the runtime context.
IndInv ==
  /\ TypeOK
  /\ ContextFollowsGuards
  /\ BlockOnHoldsItsGuard
  /\ CodeRunsInItsRuntime
  /\ WaitingTasksHaveARuntime
=============================================================================
