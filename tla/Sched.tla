------------------------------- MODULE Sched -------------------------------
(***************************************************************************)
(* The scheduling core of the R3 kernel: task control blocks (task.rs),    *)
(* the ready queue (task/readyqueue.rs), wait objects and wait queues      *)
(* (wait.rs), and the execution contexts in which system services run      *)
(* (state.rs, klock.rs and the PortThreading contract of lib.rs).          *)
(*                                                                         *)
(* A system service holds CPU Lock from its first to its last access to    *)
(* kernel state, so it is one atomic step; what follows the release of the *)
(* lock (the call of yield_cpu, the return from a wait) is a step of its   *)
(* own, and interrupts run in between.  The few services that loop over    *)
(* many tasks take one step per iteration with CPU Lock held.              *)
(*                                                                         *)
(* A call that fails changes nothing: the error conditions are the         *)
(* negations of the guards.                                                *)
(***************************************************************************)
EXTENDS Integers, Sequences, FiniteSets, SequencesExt

CONSTANTS
  Tasks,          \* indices of KernelCfg2::task_cb_pool
  Objects,        \* kernel objects that own a WaitQueue
  None,           \* Option::None
  Isr,            \* the context of an interrupt handler
  NumPrio,        \* KernelCfg1::NUM_TASK_PRIORITY_LEVELS
  InitPrio,       \* TaskAttr::priority
  InitActive,     \* tasks configured with `active(true)`
  QueueOrder      \* WaitQueue::order

Prio == 0 .. NumPrio - 1

\* usize::MAX, the priority of "no running task", and usize::MAX - 1, the one
\* pop_front_task assumes of an empty ready queue.
UsizeMax == NumPrio + 1
EmptyPrio == NumPrio

ASSUME TasksAssumption == Tasks \subseteq Nat /\ IsFiniteSet(Tasks)
ASSUME NoneAssumption ==
  /\ None \notin Tasks /\ None \notin Objects /\ None \notin {"Park", "Sleep"}
  /\ Isr \notin Tasks
ASSUME ObjectsAssumption == "Park" \notin Objects /\ "Sleep" \notin Objects
ASSUME PrioAssumption == NumPrio \in Nat \ {0} /\ InitPrio \in [Tasks -> Prio]
ASSUME ActiveAssumption == InitActive \subseteq Tasks
ASSUME OrderAssumption == QueueOrder \in [Objects -> {"Fifo", "TaskPriority"}]

VARIABLES
  running_task,        \* State::running_task
  st,                  \* TaskCb::st
  base_priority,       \* TaskCb::base_priority
  effective_priority,  \* TaskCb::effective_priority
  park_token,          \* TaskCb::park_token
  ready_queue,         \* BitmapQueue::queues
  bitmap,              \* BitmapQueue::bitmap, as the set of the bits set
  wait_queue,          \* WaitQueue::waits of every object
  current_wait,        \* TaskWait::current_wait: what the task waits on
  wait_result,         \* TaskWait::wait_result
  frame,               \* the Wait (and whether a Timeout) on the task's stack
  timeout,             \* the Timeout on the task's stack is linked in the heap
  pc,                  \* where the thread of the task is
  priority_boost,      \* State::priority_boost
  cpu_lock,            \* who holds CPU Lock between two steps
  interrupt,           \* what the active interrupt handler is doing
  yield_pending        \* yield_cpu was called in an interrupt handler

TaskSt == {"Dormant", "Ready", "Running", "Waiting", "PendingActivation"}
WaitTarget == Objects \cup {"Park", "Sleep"}
WaitResult == {"Ok", "Interrupted", "Timeout"}
Frame == [on : WaitTarget, timed : BOOLEAN]
Context == Tasks \cup {Isr}

ASSUME FrameAssumption == None \notin Frame

\* "run": application code; "yield": about to call yield_cpu at the end of
\* unlock_cpu_and_check_preemption; "wait": about to call it in the loop of
\* wait_until_woken_up; "resume": that call has returned; "none": no thread.
PC == {"none", "run", "yield", "wait", "resume"}

\* "boot": boot code; "app": acquire_cpu_lock; "exit": the loop of exit_task;
\* "service": the loop of a service that wakes up several tasks.
CpuLock == {"free", "boot", "app", "exit", "service"}

\* "handler": an interrupt handler; "tick": handle_tick with CPU Lock held;
\* "callback": a timer callback called by handle_tick, CPU Lock released.
Interrupt == {"none", "handler", "tick", "callback"}

queueVars == <<ready_queue, bitmap>>
taskVars  == <<running_task, st, ready_queue, bitmap>>
prioVars  == <<base_priority, effective_priority>>
waitVars  == <<wait_queue, current_wait, wait_result>>
stackVars == <<frame, timeout>>
cpuVars   == <<priority_boost, cpu_lock, interrupt>>
schedVars == <<running_task, st, base_priority, effective_priority, park_token,
               ready_queue, bitmap, wait_queue, current_wait, wait_result,
               frame, timeout, pc, priority_boost, cpu_lock, interrupt,
               yield_pending>>

SchedTypeOK ==
  /\ running_task \in Tasks \cup {None}
  /\ st \in [Tasks -> TaskSt]
  /\ base_priority \in [Tasks -> Prio]
  /\ effective_priority \in [Tasks -> Prio]
  /\ park_token \in [Tasks -> BOOLEAN]
  /\ ready_queue \in [Prio -> Seq(Tasks)]
  /\ bitmap \in SUBSET Prio
  /\ wait_queue \in [Objects -> Seq(Tasks)]
  /\ current_wait \in [Tasks -> WaitTarget \cup {None}]
  /\ wait_result \in [Tasks -> WaitResult]
  /\ frame \in [Tasks -> Frame \cup {None}]
  /\ timeout \in [Tasks -> BOOLEAN]
  /\ pc \in [Tasks -> PC]
  /\ priority_boost \in BOOLEAN
  /\ cpu_lock \in CpuLock
  /\ interrupt \in Interrupt
  /\ yield_pending \in BOOLEAN

\* The state the statics of the kernel are initialised to: boot code runs with
\* CPU Lock active and no task has been made Ready yet.
SchedInit ==
  /\ running_task = None
  /\ st = [t \in Tasks |-> IF t \in InitActive THEN "PendingActivation"
                                               ELSE "Dormant"]
  /\ base_priority = InitPrio
  /\ effective_priority = InitPrio
  /\ park_token = [t \in Tasks |-> FALSE]
  /\ ready_queue = [p \in Prio |-> <<>>]
  /\ bitmap = {}
  /\ wait_queue = [o \in Objects |-> <<>>]
  /\ current_wait = [t \in Tasks |-> None]
  /\ wait_result = [t \in Tasks |-> "Ok"]
  /\ frame = [t \in Tasks |-> None]
  /\ timeout = [t \in Tasks |-> FALSE]
  /\ pc = [t \in Tasks |-> "none"]
  /\ priority_boost = FALSE
  /\ cpu_lock = "boot"
  /\ interrupt = "none"
  /\ yield_pending = FALSE

-----------------------------------------------------------------------------
(* Linked lists *)

\* ListAccessorCell::remove; NotLinked, and no effect, if t is not linked.
Unlink(q, t) ==
  IF t \in ToSet(q) THEN RemoveAt(q, CHOOSE i \in DOMAIN q : q[i] = t) ELSE q

\* Mutant: the scan stops at the last waiter whose priority is not higher.
InsertionPositionReversed(q, p) ==
  Max({0} \cup {i \in DOMAIN q : effective_priority'[q[i]] >= p}) + 1

\* The position after the last waiter whose priority is not lower than p (a
\* numerically smaller priority is a higher one): where the backward scan of
\* find_insertion_position_by_task_priority stops.
InsertionPosition(q, p) ==
  LET notLower == {i \in DOMAIN q : effective_priority'[q[i]] <= p}
  IN  Max({0} \cup notLower) + 1

\* Link t in the wait queue of o, under the effective priorities after the step.
EnqueueWait(q, o, t) ==
  IF QueueOrder[o] = "Fifo"
    THEN Append(q, t)
    ELSE InsertAt(q, InsertionPosition(q, effective_priority'[t]), t)

-----------------------------------------------------------------------------
(* The ready queue *)

\* push_back_task
PushBackTask(q, t, p) == [q EXCEPT ![p] = Append(@, t)]

\* Mutant: the lowest priority with a Ready task.
NextPriorityLowest == IF bitmap = {} THEN EmptyPrio ELSE Max(bitmap)

\* The priority of the next task to run in pop_front_task: the first bit set.
NextPriority == IF bitmap = {} THEN EmptyPrio ELSE Min(bitmap)

\* make_ready: push_back_task under the effective priority after the step.
MakeReady(t) ==
  /\ st' = [st EXCEPT ![t] = "Ready"]
  /\ ready_queue' = PushBackTask(ready_queue, t, effective_priority'[t])
  /\ bitmap' = bitmap \cup {effective_priority'[t]}

\* Mutant: the bit of a queue that becomes empty stays set.
ReorderTaskKeepBit(t, p, old) ==
  /\ ready_queue' = PushBackTask([ready_queue EXCEPT ![old] = Unlink(@, t)], t, p)
  /\ bitmap' = bitmap \cup {p}

\* reorder_task
ReorderTask(t, p, old) ==
  LET q == [ready_queue EXCEPT ![old] = Unlink(@, t)]
  IN  /\ ready_queue' = PushBackTask(q, t, p)
      /\ bitmap' = IF q[old] = <<>> THEN (bitmap \cup {p}) \ {old}
                                    ELSE bitmap \cup {p}

-----------------------------------------------------------------------------
(* Contexts *)

\* c executes and may call a system service: CPU Lock is inactive and c is an
\* interrupt handler (or a timer callback), or the running task in its own
\* code while no interrupt handler is active.
InContext(c) ==
  /\ cpu_lock = "free"
  /\ IF c = Isr THEN interrupt \in {"handler", "callback"}
                ELSE interrupt = "none" /\ running_task = c /\ pc[c] = "run"

TaskContext(t) == t \in Tasks /\ InContext(t)

\* Mutant: blocking is allowed while Priority Boost is active.
WaitableContextBoosted(t) == TaskContext(t)

\* expect_waitable_context
WaitableContext(t) == TaskContext(t) /\ ~priority_boost

-----------------------------------------------------------------------------
(* Preemption and dispatching *)

\* The priority of the running task, usize::MAX if there is none or if it is
\* not in the Running state any more.
PrevTaskPriority ==
  IF running_task # None /\ st[running_task] = "Running"
    THEN effective_priority[running_task]
    ELSE UsizeMax

\* unlock_cpu_and_check_preemption, called by c at the end of a service.  The
\* decision is made in the state the service leaves; a task calls yield_cpu
\* after CPU Lock is released, an interrupt handler's call is deferred to the
\* end of all handlers.  s is pc before it.
UnlockCpuAndCheckPreemption(c, s) ==
  LET preempt == /\ ~priority_boost'
                 /\ \E p \in bitmap' : p < PrevTaskPriority'
  IN  /\ pc' = IF preempt /\ c # Isr THEN [s EXCEPT ![c] = "yield"] ELSE s
      /\ yield_pending' = (yield_pending \/ (preempt /\ c = Isr))

\* choose_next_running_task.  run and s are running_task and st before it.
ChooseNextRunningTask(run, s) ==
  LET running == run # None /\ s[run] = "Running"
      prev    == IF running THEN effective_priority[run] ELSE UsizeMax
      keep    == priority_boost \/ prev <= NextPriority
      p       == NextPriority
      next    == Head(ready_queue[p])
      popped  == [ready_queue EXCEPT ![p] = Tail(@)]
      left    == IF popped[p] = <<>> THEN bitmap \ {p} ELSE bitmap
      preempted == running /\ run # next
  IN  \/ /\ keep
         /\ running_task' = run
         /\ st' = s
         /\ UNCHANGED queueVars
      \/ /\ ~keep /\ bitmap = {}
         /\ running_task' = None
         /\ st' = s
         /\ UNCHANGED queueVars
      \/ /\ ~keep /\ bitmap # {} /\ ~preempted
         /\ running_task' = next
         /\ st' = [s EXCEPT ![next] = "Running"]
         /\ ready_queue' = popped
         /\ bitmap' = left
      \/ /\ ~keep /\ bitmap # {} /\ preempted
         /\ running_task' = next
         /\ st' = [s EXCEPT ![next] = "Running", ![run] = "Ready"]
         /\ ready_queue' = PushBackTask(popped, run, effective_priority[run])
         /\ bitmap' = left \cup {effective_priority[run]}

-----------------------------------------------------------------------------
(* Wait objects *)

\* reorder_wait_of_task, after the effective priority of the Waiting task t
\* changed: a queue in TaskPriority order is relinked, another is left alone.
ReorderWaitOfTask(t) ==
  LET o == current_wait[t]
  IN  wait_queue' = IF o \in Objects /\ QueueOrder[o] = "TaskPriority"
                      THEN [wait_queue EXCEPT ![o] = EnqueueWait(Unlink(@, t), o, t)]
                      ELSE wait_queue

\* The front half of a blocking operation of the running task t: the Wait is
\* put on the stack, linked in the queue of its object (Park and Sleep have
\* none), a Timeout is registered if the wait is timed, and
\* wait_until_woken_up makes the task Waiting and releases CPU Lock.
BeginWait(t, o, timed) ==
  /\ frame' = [frame EXCEPT ![t] = [on |-> o, timed |-> timed]]
  /\ timeout' = [timeout EXCEPT ![t] = timed]
  /\ UNCHANGED prioVars
  /\ wait_queue' = IF o \in Objects
                     THEN [wait_queue EXCEPT ![o] = EnqueueWait(@, o, t)]
                     ELSE wait_queue
  /\ current_wait' = [current_wait EXCEPT ![t] = o]
  /\ st' = [st EXCEPT ![t] = "Waiting"]
  /\ pc' = [pc EXCEPT ![t] = "wait"]
  /\ UNCHANGED <<running_task, queueVars, wait_result>>

\* complete_wait
CompleteWait(t, result) ==
  /\ current_wait' = [current_wait EXCEPT ![t] = None]
  /\ wait_result' = [wait_result EXCEPT ![t] = result]
  /\ MakeReady(t)

\* WaitQueue::wake_up_one on a queue that is not empty
WakeUpOne(o) ==
  /\ wait_queue' = [wait_queue EXCEPT ![o] = Tail(@)]
  /\ CompleteWait(Head(wait_queue[o]), "Ok")

\* Mutant: the Wait stays linked in its queue.
InterruptTaskStillLinked(t, result) ==
  /\ st[t] = "Waiting"
  /\ UNCHANGED wait_queue
  /\ CompleteWait(t, result)

\* interrupt_task on a Waiting task
InterruptTask(t, result) ==
  /\ st[t] = "Waiting"
  /\ wait_queue' = IF current_wait[t] \in Objects
                     THEN [wait_queue EXCEPT ![current_wait[t]] = Unlink(@, t)]
                     ELSE wait_queue
  /\ CompleteWait(t, result)

=============================================================================
