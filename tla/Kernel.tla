------------------------------- MODULE Kernel -------------------------------
(***************************************************************************)
(* The task, park/sleep, priority boost and mutex services of the R3       *)
(* kernel, interrupt handlers and the timer tick, over the scheduling      *)
(* core of Sched.  Semaphores and event groups extend this module.         *)
(*                                                                         *)
(* Task exit abandons mutexes and set_priority consults them, so mutexes   *)
(* are part of the same state machine.  The list of the mutexes a task     *)
(* holds, linked by last_mutex_held and prev_mutex_held, is a sequence     *)
(* whose last element is last_mutex_held.                                  *)
(*                                                                         *)
(* Time is abstract here: a linked Timeout may expire in any tick.         *)
(***************************************************************************)
EXTENDS Sched

CONSTANTS
  Mutexes,
  Ceiling,        \* MutexCb::ceiling; NumPrio stands for None
  Services,       \* what the application uses: a subset of AllServices
  SettablePrio    \* the arguments of set_priority to consider

ASSUME MutexAssumption ==
  /\ Mutexes \subseteq Objects
  /\ Ceiling \in [Mutexes -> 0 .. NumPrio]

\* A model considers the applications that call the services of a set, and
\* whether they take interrupts, ticks and timer callbacks.
AllServices == {"activate", "exit", "interrupt", "unpark", "park", "sleep",
                "timed", "set_priority", "cpu_lock", "boost", "lock",
                "try_lock", "unlock", "mark_consistent", "handler", "callback"}

ASSUME InputAssumption == SettablePrio \subseteq Prio /\ Services \subseteq AllServices

VARIABLES
  owning_task,     \* MutexCb::owning_task
  held,            \* TaskCb::last_mutex_held, MutexCb::prev_mutex_held
  inconsistent     \* MutexCb::inconsistent

mutexVars == <<owning_task, held, inconsistent>>
vars == <<schedVars, mutexVars>>

TypeOK ==
  /\ SchedTypeOK
  /\ owning_task \in [Mutexes -> Tasks \cup {None}]
  /\ held \in [Tasks -> Seq(Mutexes)]
  /\ inconsistent \in [Mutexes -> BOOLEAN]

Init ==
  /\ SchedInit
  /\ owning_task = [m \in Mutexes |-> None]
  /\ held = [t \in Tasks |-> <<>>]
  /\ inconsistent = [m \in Mutexes |-> FALSE]

-----------------------------------------------------------------------------
(* Boot *)

\* init_task, called for every task of the pool in order.
InitTask(t) ==
  /\ cpu_lock = "boot"
  /\ st[t] = "PendingActivation"
  /\ \A u \in Tasks : st[u] = "PendingActivation" => t <= u
  /\ pc' = [pc EXCEPT ![t] = "run"]
  /\ UNCHANGED prioVars
  /\ MakeReady(t)
  /\ UNCHANGED <<running_task, park_token, waitVars, stackVars, cpuVars,
                 yield_pending, mutexVars>>

\* dispatch_first_task
DispatchFirstTask ==
  /\ cpu_lock = "boot"
  /\ \A t \in Tasks : st[t] # "PendingActivation"
  /\ ChooseNextRunningTask(running_task, st)
  /\ cpu_lock' = "free"
  /\ UNCHANGED <<prioVars, park_token, waitVars, stackVars, pc, priority_boost,
                 interrupt, yield_pending, mutexVars>>

-----------------------------------------------------------------------------
(* Execution contexts *)

\* A kernel-managed interrupt is taken.  Handlers that nest add no behaviour:
\* the services of all active handlers are steps of the one context Isr.
EnterInterrupt ==
  /\ cpu_lock = "free" /\ interrupt = "none"
  /\ interrupt' = "handler"
  /\ UNCHANGED <<taskVars, prioVars, park_token, waitVars, stackVars, pc,
                 priority_boost, cpu_lock, yield_pending, mutexVars>>

\* The last active handler returns; a deferred yield_cpu takes effect.
LeaveInterrupt ==
  /\ cpu_lock = "free" /\ interrupt = "handler"
  /\ interrupt' = "none"
  /\ yield_pending' = FALSE
  /\ IF yield_pending THEN ChooseNextRunningTask(running_task, st)
                      ELSE UNCHANGED taskVars
  /\ UNCHANGED <<prioVars, park_token, waitVars, stackVars, pc,
                 priority_boost, cpu_lock, mutexVars>>

\* yield_cpu in a task context, from unlock_cpu_and_check_preemption or from
\* the loop of wait_until_woken_up.
YieldCpu(t) ==
  /\ cpu_lock = "free" /\ interrupt = "none" /\ running_task = t
  /\ \/ pc[t] = "yield" /\ pc' = [pc EXCEPT ![t] = "run"]
     \/ pc[t] = "wait" /\ pc' = [pc EXCEPT ![t] = "resume"]
  /\ ChooseNextRunningTask(running_task, st)
  /\ UNCHANGED <<prioVars, park_token, waitVars, stackVars, cpuVars,
                 yield_pending, mutexVars>>

\* Mutant: the Timeout stays registered.
FinishWaitKeepTimeout(t) ==
  /\ cpu_lock = "free" /\ interrupt = "none" /\ running_task = t
  /\ pc[t] = "resume" /\ st[t] = "Running"
  /\ frame' = [frame EXCEPT ![t] = None]
  /\ pc' = [pc EXCEPT ![t] = "run"]
  /\ UNCHANGED <<taskVars, prioVars, park_token, waitVars, timeout, cpuVars,
                 yield_pending, mutexVars>>

\* The rest of wait_until_woken_up and of the blocking service: the loop ends,
\* the TimeoutGuard unregisters the Timeout, the Wait is dropped and the
\* service returns wait_result.
FinishWait(t) ==
  /\ cpu_lock = "free" /\ interrupt = "none" /\ running_task = t
  /\ pc[t] = "resume" /\ st[t] = "Running"
  /\ timeout' = [timeout EXCEPT ![t] = FALSE]
  /\ frame' = [frame EXCEPT ![t] = None]
  /\ pc' = [pc EXCEPT ![t] = "run"]
  /\ UNCHANGED <<taskVars, prioVars, park_token, waitVars, cpuVars,
                 yield_pending, mutexVars>>

AcquireCpuLock(c) ==
  /\ InContext(c)
  /\ cpu_lock' = "app"
  /\ UNCHANGED <<taskVars, prioVars, park_token, waitVars, stackVars, pc,
                 priority_boost, interrupt, yield_pending, mutexVars>>

ReleaseCpuLock ==
  /\ cpu_lock = "app"
  /\ cpu_lock' = "free"
  /\ UNCHANGED <<taskVars, prioVars, park_token, waitVars, stackVars, pc,
                 priority_boost, interrupt, yield_pending, mutexVars>>

BoostPriority(t) ==
  /\ TaskContext(t) /\ ~priority_boost
  /\ priority_boost' = TRUE
  /\ UNCHANGED <<taskVars, prioVars, park_token, waitVars, stackVars, pc,
                 cpu_lock, interrupt, yield_pending, mutexVars>>

\* Mutant: preemptions that Priority Boost held back are not checked.
UnboostPriorityNoCheck(t) ==
  /\ TaskContext(t) /\ priority_boost
  /\ priority_boost' = FALSE
  /\ UNCHANGED <<taskVars, prioVars, park_token, waitVars, stackVars, pc,
                 cpu_lock, interrupt, yield_pending, mutexVars>>

UnboostPriority(t) ==
  /\ TaskContext(t) /\ priority_boost
  /\ priority_boost' = FALSE
  /\ UNCHANGED <<taskVars, prioVars>>
  /\ UnlockCpuAndCheckPreemption(t, pc)
  /\ UNCHANGED <<park_token, waitVars, stackVars, cpu_lock, interrupt, mutexVars>>

-----------------------------------------------------------------------------
(* Mutexes *)

\* Mutant: the lowest of the priorities.
EvaluateLowestPriority(base, h) ==
  Max({base} \cup {Ceiling[m] : m \in ToSet(h)})

\* evaluate_task_effective_priority for the held mutexes h
EvaluateEffectivePriority(base, h) ==
  Min({base} \cup {Ceiling[m] : m \in ToSet(h)})

\* The mutex is compatible with a base priority: its ceiling is not lower
\* (precheck_and_get_running_task, does_held_mutex_allow_...).
CeilingAllows(m, base) == Ceiling[m] = NumPrio \/ Ceiling[m] <= base

Precheck(t, m) == owning_task[m] # t /\ CeilingAllows(m, base_priority[t])

\* Mutant: the mutex is freed and the first waiter woken up to try again.
UnlockMutexRetry(m, h, e) ==
  /\ owning_task' = [owning_task EXCEPT ![m] = None]
  /\ held' = h
  /\ effective_priority' = e
  /\ \/ wait_queue[m] # <<>> /\ WakeUpOne(m)
     \/ wait_queue[m] = <<>> /\ UNCHANGED <<st, queueVars, waitVars>>

\* Mutant: ownership goes to the last waiter, the first one is woken up.
UnlockMutexToLast(m, h, e) ==
  \/ /\ wait_queue[m] # <<>>
     /\ LET next == Last(wait_queue[m])
        IN  /\ owning_task' = [owning_task EXCEPT ![m] = next]
            /\ held' = [h EXCEPT ![next] = Append(@, m)]
     /\ effective_priority' = e
     /\ WakeUpOne(m)
  \/ /\ wait_queue[m] = <<>>
     /\ owning_task' = [owning_task EXCEPT ![m] = None]
     /\ held' = h
     /\ effective_priority' = e
     /\ UNCHANGED <<st, queueVars, waitVars>>

\* unlock_mutex_unchecked: the first waiter, still Waiting, becomes the owner
\* (lock_core) and is woken up; without one the mutex is free.  h and e are
\* the held mutexes and the effective priorities before it.
UnlockMutexUnchecked(m, h, e) ==
  \/ /\ wait_queue[m] # <<>>
     /\ LET next == Head(wait_queue[m])
        IN  /\ owning_task' = [owning_task EXCEPT ![m] = next]
            /\ held' = [h EXCEPT ![next] = Append(@, m)]
            /\ effective_priority' =
                 [e EXCEPT ![next] = Min({@, Ceiling[m]})]
     /\ WakeUpOne(m)
  \/ /\ wait_queue[m] = <<>>
     /\ owning_task' = [owning_task EXCEPT ![m] = None]
     /\ held' = h
     /\ effective_priority' = e
     /\ UNCHANGED <<st, queueVars, waitVars>>

\* lock, lock_timeout and try_lock of a free mutex (poll_core succeeds).  The
\* first two also require that Priority Boost is inactive.
TryLockMutex(t, m) ==
  /\ TaskContext(t)
  /\ Precheck(t, m)
  /\ owning_task[m] = None
  /\ owning_task' = [owning_task EXCEPT ![m] = t]
  /\ held' = [held EXCEPT ![t] = Append(@, m)]
  /\ effective_priority' = [effective_priority EXCEPT ![t] = Min({@, Ceiling[m]})]
  /\ UNCHANGED <<taskVars, base_priority, park_token, waitVars, stackVars, pc,
                 cpuVars, yield_pending, inconsistent>>

\* lock and lock_timeout of a mutex another task owns
LockMutex(t, m, timed) ==
  /\ WaitableContext(t)
  /\ Precheck(t, m)
  /\ owning_task[m] # None
  /\ BeginWait(t, m, timed)
  /\ UNCHANGED <<park_token, cpuVars, yield_pending, mutexVars>>

\* Only the mutex locked last can be unlocked.
UnlockMutex(t, m) ==
  /\ WaitableContext(t)
  /\ owning_task[m] = t
  /\ held[t] # <<>> /\ Last(held[t]) = m
  /\ LET h == [held EXCEPT ![t] = Front(@)]
         e == [effective_priority EXCEPT
                 ![t] = EvaluateEffectivePriority(base_priority[t], h[t])]
     IN  UnlockMutexUnchecked(m, h, e)
  /\ UNCHANGED <<running_task, base_priority, park_token, stackVars, cpuVars,
                 inconsistent>>
  /\ UnlockCpuAndCheckPreemption(t, pc)

\* mark_consistent does not require the caller to own the mutex.
MarkConsistentMutex(c, m) ==
  /\ InContext(c)
  /\ inconsistent[m]
  /\ inconsistent' = [inconsistent EXCEPT ![m] = FALSE]
  /\ UNCHANGED <<schedVars, owning_task, held>>

-----------------------------------------------------------------------------
(* Tasks *)

Activate(c, t) ==
  /\ InContext(c)
  /\ st[t] = "Dormant"
  /\ park_token' = [park_token EXCEPT ![t] = FALSE]
  /\ base_priority' = [base_priority EXCEPT ![t] = InitPrio[t]]
  /\ effective_priority' = [effective_priority EXCEPT ![t] = InitPrio[t]]
  /\ MakeReady(t)
  /\ UNCHANGED <<running_task, waitVars, stackVars, cpuVars, mutexVars>>
  /\ UnlockCpuAndCheckPreemption(c, [pc EXCEPT ![t] = "run"])

\* exit_task, in three kinds of steps under CPU Lock: acquire it (unless the
\* application holds it) and end Priority Boost ...
ExitTask(t) ==
  /\ interrupt = "none" /\ running_task = t /\ pc[t] = "run"
  /\ cpu_lock \in {"free", "app"}
  /\ cpu_lock' = "exit"
  /\ priority_boost' = FALSE
  /\ UNCHANGED <<taskVars, prioVars, park_token, waitVars, stackVars, pc,
                 interrupt, yield_pending, mutexVars>>

\* ... one iteration of abandon_held_mutexes for each held mutex ...
AbandonHeldMutex ==
  /\ cpu_lock = "exit"
  /\ held[running_task] # <<>>
  /\ LET m == Last(held[running_task])
     IN  /\ inconsistent' = [inconsistent EXCEPT ![m] = TRUE]
         /\ UnlockMutexUnchecked(m, [held EXCEPT ![running_task] = Front(@)],
                                 effective_priority)
  /\ UNCHANGED <<running_task, base_priority, park_token, stackVars, pc, cpuVars,
                 yield_pending>>

\* ... become Dormant, clear running_task and dispatch the next task.
ExitAndDispatch ==
  /\ cpu_lock = "exit"
  /\ held[running_task] = <<>>
  /\ cpu_lock' = "free"
  /\ pc' = [pc EXCEPT ![running_task] = "none"]
  /\ ChooseNextRunningTask(None, [st EXCEPT ![running_task] = "Dormant"])
  /\ UNCHANGED <<prioVars, park_token, waitVars, stackVars, priority_boost,
                 interrupt, yield_pending, mutexVars>>

\* Task::interrupt
TaskInterrupt(c, t) ==
  /\ InContext(c)
  /\ UNCHANGED <<running_task, prioVars, park_token, stackVars, cpuVars, mutexVars>>
  /\ InterruptTask(t, "Interrupted")
  /\ UnlockCpuAndCheckPreemption(c, pc)

\* park and park_timeout when the task has a token ...
ParkWithToken(t) ==
  /\ WaitableContext(t)
  /\ park_token[t]
  /\ park_token' = [park_token EXCEPT ![t] = FALSE]
  /\ UNCHANGED <<taskVars, prioVars, waitVars, stackVars, pc, cpuVars,
                 yield_pending, mutexVars>>

\* ... and when it has none
Park(t, timed) ==
  /\ WaitableContext(t)
  /\ ~park_token[t]
  /\ BeginWait(t, "Park", timed)
  /\ UNCHANGED <<park_token, cpuVars, yield_pending, mutexVars>>

Sleep(t) ==
  /\ WaitableContext(t)
  /\ BeginWait(t, "Sleep", TRUE)
  /\ UNCHANGED <<park_token, cpuVars, yield_pending, mutexVars>>

\* unpark_exact of a parked task ...
UnparkParked(c, t) ==
  /\ InContext(c)
  /\ st[t] = "Waiting" /\ current_wait[t] = "Park"
  /\ UNCHANGED <<running_task, prioVars, park_token, stackVars, cpuVars, mutexVars>>
  /\ InterruptTask(t, "Ok")
  /\ UnlockCpuAndCheckPreemption(c, pc)

\* Mutant: the token is put even if the task is parked.
UnparkTokenAlways(c, t) ==
  /\ InContext(c)
  /\ st[t] # "Dormant"
  /\ ~park_token[t]
  /\ park_token' = [park_token EXCEPT ![t] = TRUE]
  /\ UNCHANGED <<taskVars, prioVars, waitVars, stackVars, pc, cpuVars,
                 yield_pending, mutexVars>>

\* ... and of one that is not; QueueOverflow if it already has a token
UnparkToken(c, t) ==
  /\ InContext(c)
  /\ st[t] # "Dormant"
  /\ ~(st[t] = "Waiting" /\ current_wait[t] = "Park")
  /\ ~park_token[t]
  /\ park_token' = [park_token EXCEPT ![t] = TRUE]
  /\ UNCHANGED <<taskVars, prioVars, waitVars, stackVars, pc, cpuVars,
                 yield_pending, mutexVars>>

\* Mutant: the ceiling of the mutex that t waits for is not checked.
SetPriorityAllowedHeldOnly(t, p) ==
  /\ st[t] # "Dormant"
  /\ p # base_priority[t]
  /\ p < base_priority[t] => \A m \in ToSet(held[t]) : CeilingAllows(m, p)

\* set_task_base_priority of t to p.  Raising the priority must respect the
\* ceilings of the mutex t waits for and of the mutexes it holds.
SetPriorityAllowed(t, p) ==
  /\ st[t] # "Dormant"
  /\ p # base_priority[t]
  /\ p < base_priority[t] =>
       /\ current_wait[t] \in Mutexes => CeilingAllows(current_wait[t], p)
       /\ \A m \in ToSet(held[t]) : CeilingAllows(m, p)

SetTaskBasePriority(c, t, p) ==
  LET e   == EvaluateEffectivePriority(p, held[t])
      old == effective_priority[t]
  IN  /\ InContext(c)
      /\ SetPriorityAllowed(t, p)
      /\ base_priority' = [base_priority EXCEPT ![t] = p]
      /\ effective_priority' = [effective_priority EXCEPT ![t] = e]
      /\ UNCHANGED <<running_task, st, park_token, current_wait, wait_result,
                     stackVars, cpuVars, mutexVars>>
      /\ \/ /\ e = old
            /\ UNCHANGED <<queueVars, wait_queue, pc, yield_pending>>
         \/ /\ e # old /\ st[t] = "Ready"
            /\ ReorderTask(t, e, old)
            /\ UNCHANGED wait_queue
            /\ UnlockCpuAndCheckPreemption(c, pc)
         \/ /\ e # old /\ st[t] = "Running"
            /\ UNCHANGED <<queueVars, wait_queue>>
            /\ UnlockCpuAndCheckPreemption(c, pc)
         \/ /\ e # old /\ st[t] = "Waiting"
            /\ ReorderWaitOfTask(t)
            /\ UNCHANGED <<queueVars, pc, yield_pending>>

-----------------------------------------------------------------------------
(* The timer tick *)

\* The timer driver of the port calls timer_tick in an interrupt handler.
TickBegin ==
  /\ cpu_lock = "free" /\ interrupt = "handler"
  /\ interrupt' = "tick"
  /\ UNCHANGED <<taskVars, prioVars, park_token, waitVars, stackVars, pc,
                 priority_boost, cpu_lock, yield_pending, mutexVars>>

\* Mutant: a late timeout overwrites the result of a wait that is over.
TickExpireLate(t) ==
  /\ interrupt = "tick"
  /\ timeout[t]
  /\ timeout' = [timeout EXCEPT ![t] = FALSE]
  /\ UNCHANGED prioVars
  /\ \/ InterruptTask(t, "Timeout")
     \/ /\ st[t] # "Waiting"
        /\ wait_result' = [wait_result EXCEPT ![t] = "Timeout"]
        /\ UNCHANGED <<st, queueVars, wait_queue, current_wait>>
  /\ UNCHANGED <<running_task, park_token, frame, pc, cpuVars, yield_pending,
                 mutexVars>>

\* handle_tick unlinks an expired Timeout and calls interrupt_task_by_timeout,
\* which does nothing to a task that is not Waiting any more.
TickExpire(t) ==
  /\ interrupt = "tick"
  /\ timeout[t]
  /\ timeout' = [timeout EXCEPT ![t] = FALSE]
  /\ UNCHANGED prioVars
  /\ \/ InterruptTask(t, "Timeout")
     \/ st[t] # "Waiting" /\ UNCHANGED <<st, queueVars, waitVars>>
  /\ UNCHANGED <<running_task, park_token, frame, pc, cpuVars, yield_pending,
                 mutexVars>>

\* timer_timeout_handler releases CPU Lock while it calls the callback of a
\* timer, which may call services as an interrupt handler does.
TimerCallbackBegin ==
  /\ interrupt = "tick"
  /\ interrupt' = "callback"
  /\ UNCHANGED <<taskVars, prioVars, park_token, waitVars, stackVars, pc,
                 priority_boost, cpu_lock, yield_pending, mutexVars>>

TimerCallbackEnd ==
  /\ cpu_lock = "free" /\ interrupt = "callback"
  /\ interrupt' = "tick"
  /\ UNCHANGED <<taskVars, prioVars, park_token, waitVars, stackVars, pc,
                 priority_boost, cpu_lock, yield_pending, mutexVars>>

\* handle_tick ends with unlock_cpu_and_check_preemption.
TickEnd ==
  /\ interrupt = "tick"
  /\ interrupt' = "handler"
  /\ UNCHANGED <<taskVars, prioVars, park_token, waitVars, stackVars,
                 priority_boost, cpu_lock, mutexVars>>
  /\ UnlockCpuAndCheckPreemption(Isr, pc)

-----------------------------------------------------------------------------
Uses(service) == service \in Services

\* Whether a wait has a timeout
Timed == IF Uses("timed") THEN BOOLEAN ELSE {FALSE}

Boot == DispatchFirstTask \/ \E t \in Tasks : InitTask(t)

Dispatching ==
  \/ Uses("handler") /\ EnterInterrupt
  \/ LeaveInterrupt
  \/ \E t \in Tasks : YieldCpu(t) \/ FinishWait(t)

Locking ==
  \/ Uses("cpu_lock") /\ \E c \in Context : AcquireCpuLock(c)
  \/ ReleaseCpuLock
  \/ Uses("boost") /\ \E t \in Tasks : BoostPriority(t)
  \/ \E t \in Tasks : UnboostPriority(t)

TaskService ==
  \/ \E c \in Context, t \in Tasks :
       \/ Uses("activate") /\ Activate(c, t)
       \/ Uses("interrupt") /\ TaskInterrupt(c, t)
       \/ Uses("unpark") /\ UnparkParked(c, t)
       \/ Uses("unpark") /\ UnparkToken(c, t)
       \/ Uses("set_priority")
            /\ \E p \in SettablePrio : SetTaskBasePriority(c, t, p)
  \/ \E t \in Tasks :
       \/ Uses("exit") /\ ExitTask(t)
       \/ Uses("park") /\ ParkWithToken(t)
       \/ Uses("park") /\ \E timed \in Timed : Park(t, timed)
       \/ Uses("sleep") /\ Sleep(t)
  \/ AbandonHeldMutex
  \/ ExitAndDispatch

MutexService ==
  \/ \E t \in Tasks, m \in Mutexes :
       \/ Uses("try_lock") /\ TryLockMutex(t, m)
       \/ Uses("lock") /\ \E timed \in Timed : LockMutex(t, m, timed)
       \/ Uses("unlock") /\ UnlockMutex(t, m)
  \/ \E c \in Context, m \in Mutexes :
       Uses("mark_consistent") /\ MarkConsistentMutex(c, m)

Tick ==
  \/ Uses("timed") /\ TickBegin
  \/ \E t \in Tasks : TickExpire(t)
  \/ Uses("callback") /\ TimerCallbackBegin
  \/ TimerCallbackEnd
  \/ TickEnd

Next == Boot \/ Dispatching \/ Locking \/ TaskService \/ MutexService \/ Tick

Spec == Init /\ [][Next]_vars

\* Boot code, interrupt handlers, timer callbacks and the kernel's own loops run
\* to their ends, the thread of the running task gets on when no handler
\* executes, and nobody keeps CPU Lock or Priority Boost for ever.  Nothing is
\* assumed of the services called meanwhile.
Fairness ==
  /\ WF_vars(Boot)
  /\ SF_vars(LeaveInterrupt) /\ SF_vars(TickEnd) /\ SF_vars(TimerCallbackEnd)
  /\ SF_vars(\E t \in Tasks : YieldCpu(t) \/ FinishWait(t) \/ UnboostPriority(t))
  /\ WF_vars(ReleaseCpuLock)
  /\ WF_vars(AbandonHeldMutex \/ ExitAndDispatch)

FairSpec == Spec /\ Fairness

-----------------------------------------------------------------------------
(* Properties *)

\* A task is linked in the ready queue of a priority exactly when it is Ready
\* with that effective priority, at most once, and the bitmap tells which
\* queues are not empty (make_ready, pop_front_task, reorder_task).  A ceiling
\* or set_priority that changed the priority of a queued task without moving
\* it would leave it in a queue nobody can remove it from.
ReadyQueueExact ==
  /\ \A p \in Prio, t \in Tasks :
       t \in ToSet(ready_queue[p])
         <=> st[t] = "Ready" /\ effective_priority[t] = p
  /\ \A p \in Prio : IsInjective(ready_queue[p])
  /\ bitmap = {p \in Prio : ready_queue[p] # <<>>}

\* A task is linked in the wait queue of an object exactly when it is Waiting
\* for it, at most once, and what it waits for is the Wait on its own stack:
\* the assertions of complete_wait, wait_inner and wake_up_one.
WaitQueueExact ==
  /\ \A o \in Objects, t \in Tasks :
       t \in ToSet(wait_queue[o]) <=> current_wait[t] = o
  /\ \A o \in Objects : IsInjective(wait_queue[o])
  /\ \A t \in Tasks :
       /\ current_wait[t] # None <=> st[t] = "Waiting"
       /\ current_wait[t] # None =>
            frame[t] # None /\ frame[t].on = current_wait[t]
       /\ frame[t] # None <=> pc[t] \in {"wait", "resume"}

\* A wait queue in TaskPriority order stays sorted by effective priority
\* although priorities change while tasks wait (reorder_wait).
WaitQueueSorted ==
  \A o \in Objects : QueueOrder[o] = "TaskPriority" =>
    \A i, j \in DOMAIN wait_queue[o] : i < j =>
      effective_priority[wait_queue[o][i]] <= effective_priority[wait_queue[o][j]]

\* The task under way needs no dispatch: it is Running and no Ready task has a
\* higher priority.
Undisputed ==
  IF running_task = None THEN bitmap = {}
  ELSE /\ st[running_task] = "Running"
       /\ \A u \in Tasks : st[u] = "Ready" =>
            effective_priority[running_task] <= effective_priority[u]

\* No preemption is lost: when Priority Boost and CPU Lock are off, either the
\* task under way is the right one, or it is on its way to yield_cpu, or the
\* dispatcher will run when the active interrupt handlers return.
NoLostPreemption ==
  cpu_lock \in {"free", "app"} /\ ~priority_boost /\ interrupt \in {"none", "handler"} =>
    \/ Undisputed
    \/ yield_pending /\ interrupt = "handler"
    \/ running_task # None /\ pc[running_task] \in {"yield", "wait"}

\* The processor has one Running task at most, which is running_task; while
\* Priority Boost is active it is never taken from it (the debug assertions of
\* choose_next_running_task), and its thread is not inside a wait.
RunningTaskUnique ==
  /\ \A t \in Tasks : st[t] = "Running" => running_task = t
  /\ priority_boost =>
       /\ running_task # None /\ st[running_task] = "Running"
       /\ pc[running_task] = "run"

\* The wait of t is over, but t has not returned from it yet.
WaitCompleted(t) == frame[t] # None /\ current_wait[t] = None

\* What a wait may return: Timeout only if it has a timeout (otherwise
\* expect_not_timeout panics), Ok never from sleep (unreachable! in
\* put_current_task_on_sleep_timeout), and a Timeout is registered only while
\* its TimeoutGuard is on the stack.
WaitResultLegal ==
  \A t \in Tasks :
    /\ WaitCompleted(t) /\ wait_result[t] = "Timeout" => frame[t].timed
    /\ WaitCompleted(t) /\ wait_result[t] = "Ok" => frame[t].on # "Sleep"
    /\ timeout[t] => frame[t] # None /\ frame[t].timed

\* A parked task never has a park token: no wake-up by unpark_exact is lost
\* between the check of the token and the wait.
ParkTokenConsumed == \A t \in Tasks : current_wait[t] = "Park" => ~park_token[t]

\* A task holds exactly the mutexes that it owns, each once; a mutex with
\* waiters has an owner, which is not one of the waiters.
MutexOwnership ==
  /\ \A t \in Tasks, m \in Mutexes : m \in ToSet(held[t]) <=> owning_task[m] = t
  /\ \A t \in Tasks : IsInjective(held[t])
  /\ \A m \in Mutexes : wait_queue[m] # <<>> =>
       owning_task[m] # None /\ owning_task[m] \notin ToSet(wait_queue[m])

\* lock returns successfully exactly when ownership was handed over: a timeout
\* or an interruption never leaves the mutex with a task that was told it
\* failed, and a success always comes with the mutex.
LockResultExact ==
  \A t \in Tasks : WaitCompleted(t) /\ frame[t].on \in Mutexes =>
    (wait_result[t] = "Ok" <=> owning_task[frame[t].on] = t)

\* The comment of TaskCb::effective_priority: it is the base priority raised
\* to the ceilings of the held mutexes, none of which is lower than the base
\* priority; nor is that of the mutex the task waits for.
EffectivePriorityLaw ==
  \A t \in Tasks : st[t] # "Dormant" =>
    /\ ~(cpu_lock = "exit" /\ t = running_task) =>
         effective_priority[t] = EvaluateEffectivePriority(base_priority[t], held[t])
    /\ \A m \in Mutexes :
         owning_task[m] = t \/ current_wait[t] = m => CeilingAllows(m, base_priority[t])

\* The dispatcher switches only to a task of the highest priority, and takes
\* the processor from a task that could go on only for a strictly higher one
\* (pop_front_task): tasks of one priority never preempt each other.
DispatchLegal ==
  [][LET run == running_task' IN
     run # running_task /\ run # None =>
       /\ \A u \in Tasks : st'[u] = "Ready" =>
            effective_priority'[run] <= effective_priority'[u]
       /\ \A u \in Tasks : st[u] = "Running" /\ st'[u] = "Ready" =>
            effective_priority'[run] < effective_priority'[u]
    ]_vars

\* A Ready task whose priority is higher than that of every other task that
\* could run does not stay so for ever: the processor is given to it, whatever
\* interrupts and services happen on the way to the dispatcher.
HighestReady(t) ==
  /\ st[t] = "Ready"
  /\ \A u \in Tasks \ {t} : st[u] \in {"Ready", "Running"} =>
       effective_priority[t] < effective_priority[u]

HighestDispatched == \A t \in Tasks : HighestReady(t) ~> ~HighestReady(t)

\* A mutex changes hands only by an act of its owner (unlock or exit), and goes
\* to a waiter of the highest priority if its queue is in TaskPriority order.
HandoverLegal ==
  [][\A m \in Mutexes : LET new == owning_task'[m] IN
     new # owning_task[m] =>
       /\ interrupt = "none" /\ owning_task[m] \in {None, running_task}
       /\ owning_task[m] # None /\ new # None =>
            /\ new \in ToSet(wait_queue[m])
            /\ QueueOrder[m] = "TaskPriority" =>
                 \A u \in ToSet(wait_queue[m]) :
                   effective_priority[new] <= effective_priority[u]
    ]_vars

=============================================================================
