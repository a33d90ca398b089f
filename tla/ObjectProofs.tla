---------------------------- MODULE ObjectProofs ----------------------------
(***************************************************************************)
(* Waits, mutexes and effective priorities of Kernel: who owns what, how a *)
(* wait ends, and that mutexes and the processor are given to the tasks of *)
(* the highest priority.  Then semaphores and event groups: their services *)
(* preserve the structure of the kernel and lose no preemption, no permit  *)
(* is withheld, no waiter of an event group is overlooked, and a semaphore *)
(* implements Permits.  Last the guards of mutexes with data.              *)
(*                                                                         *)
(* The invariants of this module are about few of the variables, so every  *)
(* step of the kernel is first classified by what it does to those; each   *)
(* invariant is then proved for the kinds of steps.                        *)
(***************************************************************************)
EXTENDS Semaphore, EventGroup, Sync, KernelProofs, FiniteSetTheorems

\* t is inside exit_task, where its priority does not follow its mutexes.
Exiting(t) == cpu_lock = "exit" /\ t = running_task

-----------------------------------------------------------------------------
(* The kinds of steps *)

\* No wait, mutex or priority is touched; a task that becomes Dormant holds no
\* mutex, and none leaves exit_task in another way.
Elsewhere ==
  /\ UNCHANGED <<prioVars, waitVars, stackVars, owning_task, held>>
  /\ \A u \in Tasks :
       /\ st'[u] # "Dormant" => st[u] # "Dormant" /\ (Exiting(u) => Exiting(u)')
       /\ st'[u] = "Dormant" => st[u] = "Dormant" \/ held[u] = <<>>

\* The running task t blocks.
Blocks(t, o, timed) ==
  /\ WaitableContext(t)
  /\ BeginWait(t, o, timed)
  /\ o \in Objects => o \in Mutexes
  /\ o \in Mutexes => Precheck(t, o) /\ owning_task[o] # None
  /\ UNCHANGED <<cpu_lock, mutexVars>>

\* The wait of t ends without its object: by interrupt, unpark or a timeout.
Wakes(t, result) ==
  /\ InterruptTask(t, result)
  /\ result = "Ok" => current_wait[t] = "Park"
  /\ result = "Timeout" => timeout[t]
  /\ timeout' = timeout \/ timeout' = [timeout EXCEPT ![t] = FALSE]
  /\ UNCHANGED <<running_task, prioVars, frame, cpu_lock, owning_task, held>>

\* The Timeout of t expires after its wait is over.
Expires(t) ==
  /\ timeout' = [timeout EXCEPT ![t] = FALSE]
  /\ UNCHANGED <<running_task, st, prioVars, waitVars, frame, cpu_lock, owning_task, held>>

\* The running task t gives up the mutex m that it locked last, in unlock or
\* in exit_task; e are the priorities before the mutex is handed over.
Releases(t, m, e) ==
  /\ t = running_task /\ st[t] = "Running" /\ pc[t] = "run"
  /\ interrupt = "none" \/ cpu_lock = "exit"
  /\ held[t] # <<>> /\ m = Last(held[t])
  /\ \A u \in Tasks : u # t => e[u] = effective_priority[u]
  /\ cpu_lock # "exit" =>
       e[t] = EvaluateEffectivePriority(base_priority[t], Front(held[t]))
  /\ UnlockMutexUnchecked(m, [held EXCEPT ![t] = Front(held[t])], e)
  /\ UNCHANGED <<running_task, base_priority, stackVars, cpu_lock>>

StepKind ==
  \/ Elsewhere
  \/ \E t \in Tasks :
       \/ \E o \in WaitTarget, timed \in BOOLEAN : Blocks(t, o, timed)
       \/ FinishWait(t)
       \/ \E result \in WaitResult : Wakes(t, result)
       \/ Expires(t)
       \/ \E m \in Mutexes : TryLockMutex(t, m)
       \/ \E m \in Mutexes, e \in [Tasks -> Prio] : Releases(t, m, e)
       \/ \E c \in Context : Activate(c, t)
       \/ \E c \in Context, p \in Prio : SetTaskBasePriority(c, t, p)

\* A dispatch, whatever task it chooses.
LEMMA DispatchElsewhere ==
  ASSUME StructInv, cpu_lock # "exit", ChooseNextRunningTask(running_task, st),
         UNCHANGED <<prioVars, waitVars, stackVars, mutexVars, priority_boost>>
  PROVE  Elsewhere
<1>1. /\ st \in [Tasks -> TaskSt] /\ running_task \in Tasks \cup {None}
  BY DEF StructInv, TypeInv, TypeOK, SchedTypeOK
<1>2. priority_boost => running_task # None /\ st[running_task] = "Running"
  BY DEF StructInv, ThreadInv, BoostRuns, ThreadRuns
<1>3. /\ \A u \in Tasks : st[u] \notin {"Ready", "Running"} => st'[u] = st[u]
      /\ \A u \in Tasks : st[u] \in {"Ready", "Running"} => st'[u] \in {"Ready", "Running"}
  BY <1>1, <1>2, ChooseThread DEF StructInv, ThreadInv, OneRunning, prioVars
<1> QED
  BY <1>3 DEF Elsewhere, Exiting, mutexVars

\* Boot code touches no wait, mutex or priority.
LEMMA BootKind == StructInv /\ Boot => StepKind
<1> SUFFICES ASSUME StructInv, Boot PROVE Elsewhere
  BY DEF StepKind
<1>1. CASE DispatchFirstTask
  BY <1>1, DispatchElsewhere DEF DispatchFirstTask
<1>2. ASSUME NEW t \in Tasks, InitTask(t) PROVE Elsewhere
  <2>1. st \in [Tasks -> TaskSt]
    BY DEF StructInv, TypeInv, TypeOK, SchedTypeOK
  <2>2. st[t] = "PendingActivation" /\ st' = [st EXCEPT ![t] = "Ready"] /\ cpu_lock = "boot"
    BY <1>2 DEF InitTask, MakeReady
  <2> QED
    BY <1>2, <2>1, <2>2 DEF InitTask, Elsewhere, Exiting, mutexVars
<1> QED
  BY <1>1, <1>2 DEF Boot

\* Of the dispatching steps only the return from a wait touches one.
LEMMA DispatchingKind == StructInv /\ Dispatching => StepKind
<1> SUFFICES ASSUME StructInv, Dispatching PROVE StepKind
  OBVIOUS
<1>1. ASSUME UNCHANGED <<taskVars, cpu_lock, prioVars, waitVars, stackVars, mutexVars>>
      PROVE  Elsewhere
  BY <1>1 DEF taskVars, mutexVars, Elsewhere, Exiting
<1>2. CASE EnterInterrupt
  BY <1>1, <1>2 DEF EnterInterrupt, StepKind
<1>3. CASE LeaveInterrupt
  <2>1. CASE yield_pending
    BY <1>3, <2>1, DispatchElsewhere DEF LeaveInterrupt, StepKind
  <2>2. CASE ~yield_pending
    BY <1>1, <1>3, <2>2 DEF LeaveInterrupt, StepKind
  <2> QED
    BY <2>1, <2>2
<1>4. ASSUME NEW t \in Tasks, YieldCpu(t) PROVE Elsewhere
  BY <1>4, DispatchElsewhere DEF YieldCpu, cpuVars
<1> QED
  BY <1>2, <1>3, <1>4 DEF Dispatching, StepKind

\* CPU Lock and Priority Boost touch none.
LEMMA LockingKind == StructInv /\ Locking => StepKind
<1> SUFFICES ASSUME StructInv, Locking PROVE Elsewhere
  BY DEF StepKind
<1>1. ASSUME UNCHANGED <<taskVars, prioVars, waitVars, stackVars, mutexVars>>,
             cpu_lock # "exit"
      PROVE  Elsewhere
  BY <1>1 DEF taskVars, mutexVars, Elsewhere, Exiting
<1>2. ASSUME NEW c \in Context, AcquireCpuLock(c) PROVE Elsewhere
  BY <1>1, <1>2 DEF AcquireCpuLock, InContext
<1>3. CASE ReleaseCpuLock
  BY <1>1, <1>3 DEF ReleaseCpuLock
<1>4. ASSUME NEW t \in Tasks, BoostPriority(t) \/ UnboostPriority(t) PROVE Elsewhere
  BY <1>1, <1>4 DEF BoostPriority, UnboostPriority, TaskContext, InContext
<1> QED
  BY <1>2, <1>3, <1>4 DEF Locking

\* The tick ends waits and unregisters timeouts.
LEMMA TickKind == StructInv /\ Tick => StepKind
<1> SUFFICES ASSUME StructInv, Tick PROVE StepKind
  OBVIOUS
<1>1. CASE TickBegin \/ TimerCallbackBegin \/ TimerCallbackEnd \/ TickEnd
  <2>1. UNCHANGED <<taskVars, cpu_lock, prioVars, waitVars, stackVars, mutexVars>>
    BY <1>1 DEF TickBegin, TimerCallbackBegin, TimerCallbackEnd, TickEnd
  <2>2. Elsewhere
    BY <2>1 DEF taskVars, mutexVars, Elsewhere, Exiting
  <2> QED
    BY <2>2 DEF StepKind
<1>2. ASSUME NEW t \in Tasks, TickExpire(t) PROVE StepKind
  <2>1. CASE InterruptTask(t, "Timeout")
    <3>1. Wakes(t, "Timeout")
      BY <1>2, <2>1 DEF TickExpire, Wakes, mutexVars, cpuVars
    <3> QED
      BY <3>1 DEF StepKind, WaitResult
  <2>2. CASE UNCHANGED <<st, queueVars, waitVars>>
    <3>1. Expires(t)
      BY <1>2, <2>2 DEF TickExpire, Expires, mutexVars, cpuVars
    <3> QED
      BY <3>1 DEF StepKind
  <2> QED
    BY <1>2, <2>1, <2>2 DEF TickExpire
<1> QED
  BY <1>1, <1>2 DEF Tick

\* The mutex services.
LEMMA MutexServiceKind == StructInv /\ MutexService => StepKind
<1> SUFFICES ASSUME StructInv, MutexService PROVE StepKind
  OBVIOUS
<1>0. /\ held \in [Tasks -> Seq(Mutexes)] /\ effective_priority \in [Tasks -> Prio]
      /\ base_priority \in [Tasks -> Prio]
  BY DEF StructInv, TypeInv, TypeOK, SchedTypeOK
<1>1. ASSUME NEW t \in Tasks, NEW m \in Mutexes, NEW timed \in Timed, LockMutex(t, m, timed)
      PROVE  StepKind
  <2>1. m \in WaitTarget /\ timed \in BOOLEAN
    BY MutexAssumption DEF WaitTarget, Timed
  <2>2. Blocks(t, m, timed)
    BY <1>1 DEF LockMutex, Blocks, cpuVars
  <2> QED
    BY <2>1, <2>2 DEF StepKind
<1>2. ASSUME NEW t \in Tasks, NEW m \in Mutexes, UnlockMutex(t, m) PROVE StepKind
  <2> DEFINE f == Front(held[t])
             v == EvaluateEffectivePriority(base_priority[t], f)
             e == [effective_priority EXCEPT ![t] = v]
  <2>1. held[t] # <<>> /\ m = Last(held[t])
    BY <1>2 DEF UnlockMutex
  <2>2. f \in Seq(Mutexes)
    BY <1>0, <2>1, FrontLastType
  <2>3. v \in Prio
    BY <1>0, <2>2, EvaluateType
  <2>4. [held EXCEPT ![t] = f][t] = f
    BY <1>0
  <2>5. UnlockMutexUnchecked(m, [held EXCEPT ![t] = f], e)
    BY <1>2, <2>4 DEF UnlockMutex
  <2>6. st[t] = "Running" /\ running_task = t /\ pc[t] = "run" /\ interrupt = "none"
    BY <1>2, CallerRunning DEF UnlockMutex, WaitableContext, TaskContext, StructInv
  <2> HIDE DEF v
  <2>7. /\ e \in [Tasks -> Prio] /\ e[t] = v
        /\ \A u \in Tasks : u # t => e[u] = effective_priority[u]
    BY <1>0, <2>3
  <2> HIDE DEF e
  <2>8. Releases(t, m, e)
    BY <1>2, <2>1, <2>5, <2>6, <2>7 DEF UnlockMutex, Releases, cpuVars, v
  <2> QED
    BY <2>7, <2>8 DEF StepKind
<1>3. ASSUME NEW c \in Context, NEW m \in Mutexes, MarkConsistentMutex(c, m)
      PROVE  Elsewhere
  BY <1>3 DEF MarkConsistentMutex, schedVars, Elsewhere, Exiting, prioVars, waitVars, stackVars
<1> QED
  BY <1>1, <1>2, <1>3 DEF MutexService, StepKind

\* The task services.
LEMMA TaskServiceKind == StructInv /\ TaskService => StepKind
<1> SUFFICES ASSUME StructInv, TaskService PROVE StepKind
  OBVIOUS
<1>0. /\ held \in [Tasks -> Seq(Mutexes)] /\ effective_priority \in [Tasks -> Prio]
      /\ st \in [Tasks -> TaskSt] /\ running_task \in Tasks \cup {None}
  BY DEF StructInv, TypeInv, TypeOK, SchedTypeOK
<1>1. ASSUME UNCHANGED <<taskVars, prioVars, waitVars, stackVars, mutexVars>>,
             cpu_lock # "exit" \/ UNCHANGED cpu_lock
      PROVE  Elsewhere
  BY <1>1 DEF taskVars, mutexVars, Elsewhere, Exiting
<1>2. ASSUME NEW c \in Context, NEW t \in Tasks, TaskInterrupt(c, t) PROVE StepKind
  <2>1. Wakes(t, "Interrupted")
    BY <1>2 DEF TaskInterrupt, Wakes, mutexVars, stackVars, cpuVars
  <2> QED
    BY <2>1 DEF StepKind, WaitResult
<1>3. ASSUME NEW c \in Context, NEW t \in Tasks, UnparkParked(c, t) PROVE StepKind
  <2>1. Wakes(t, "Ok")
    BY <1>3 DEF UnparkParked, Wakes, mutexVars, stackVars, cpuVars
  <2> QED
    BY <2>1 DEF StepKind, WaitResult
<1>4. ASSUME NEW t \in Tasks, ParkWithToken(t) \/ \E c \in Context : UnparkToken(c, t)
      PROVE  Elsewhere
  BY <1>1, <1>4 DEF ParkWithToken, UnparkToken, cpuVars
<1>5. ASSUME NEW t \in Tasks, ExitTask(t) PROVE Elsewhere
  BY <1>1, <1>5 DEF ExitTask
<1>6. ASSUME NEW t \in Tasks, NEW o \in {"Park", "Sleep"}, NEW timed \in BOOLEAN,
             WaitableContext(t), BeginWait(t, o, timed), UNCHANGED <<cpuVars, mutexVars>>
      PROVE  StepKind
  <2>1. o \in WaitTarget /\ o \notin Objects /\ o \notin Mutexes
    BY MutexAssumption, ObjectsAssumption DEF WaitTarget
  <2>2. Blocks(t, o, timed)
    BY <1>6, <2>1 DEF Blocks, cpuVars
  <2> QED
    BY <2>1, <2>2 DEF StepKind
<1>7. ASSUME NEW t \in Tasks, NEW timed \in Timed, Park(t, timed) PROVE StepKind
  BY <1>6, <1>7 DEF Park, Timed
<1>8. ASSUME NEW t \in Tasks, Sleep(t) PROVE StepKind
  BY <1>6, <1>8 DEF Sleep
<1>9. CASE AbandonHeldMutex
  <2> DEFINE t == running_task
             m == Last(held[t])
  <2>1. /\ cpu_lock = "exit" /\ t \in Tasks /\ held[t] # <<>> /\ pc[t] = "run"
        /\ st[t] = "Running"
    BY <1>0, <1>9, NoneAssumption DEF AbandonHeldMutex, StructInv, ThreadInv, ExitRuns, ThreadRuns
  <2>2. m \in Mutexes
    BY <1>0, <2>1, FrontLastType
  <2>3. UnlockMutexUnchecked(m, [held EXCEPT ![t] = Front(held[t])], effective_priority)
    BY <1>9 DEF AbandonHeldMutex
  <2>4. Releases(t, m, effective_priority)
    BY <1>9, <2>1, <2>3 DEF AbandonHeldMutex, Releases, cpuVars
  <2> HIDE DEF t, m
  <2> QED
    BY <1>0, <2>1, <2>2, <2>4 DEF StepKind
<1>10. CASE ExitAndDispatch
  <2> DEFINE run == running_task
             s == [st EXCEPT ![run] = "Dormant"]
  <2>1. run \in Tasks /\ ~priority_boost /\ st[run] = "Running" /\ held[run] = <<>>
    BY <1>0, <1>10, NoneAssumption
       DEF ExitAndDispatch, StructInv, ThreadInv, ExitRuns, ThreadRuns
  <2>2. /\ s \in [Tasks -> TaskSt]
        /\ \A u \in Tasks : s[u] = "Ready" <=> st[u] = "Ready"
        /\ \A u \in Tasks : s[u] # "Running"
        /\ \A u \in Tasks : u # run => s[u] = st[u]
        /\ s[run] = "Dormant"
    BY <1>0, <2>1 DEF StructInv, ThreadInv, OneRunning, TaskSt
  <2>3. ChooseNextRunningTask(None, s) /\ UNCHANGED <<prioVars, waitVars, stackVars, mutexVars>>
    BY <1>10 DEF ExitAndDispatch
  <2> HIDE DEF s
  <2>4. /\ \A u \in Tasks : s[u] \notin {"Ready", "Running"} => st'[u] = s[u]
        /\ \A u \in Tasks : s[u] \in {"Ready", "Running"} => st'[u] \in {"Ready", "Running"}
    BY <1>0, <2>1, <2>2, <2>3, ChooseThread DEF StructInv, prioVars
  <2>5. Elsewhere
    BY <2>1, <2>2, <2>3, <2>4 DEF Elsewhere, Exiting, mutexVars
  <2> QED
    BY <2>5 DEF StepKind
<1> QED
  BY <1>2, <1>3, <1>4, <1>5, <1>7, <1>8, <1>9, <1>10, InputAssumption DEF TaskService, StepKind

\* Every step of the kernel is of one of the kinds.
LEMMA StepKinds == StructInv /\ [Next]_vars => StepKind
<1>1. ASSUME UNCHANGED vars PROVE StepKind
  BY <1>1 DEF vars, schedVars, mutexVars, StepKind, Elsewhere, Exiting, prioVars, waitVars, stackVars
<1> QED
  BY <1>1, BootKind, DispatchingKind, LockingKind, TaskServiceKind, MutexServiceKind,
     TickKind DEF Next

-----------------------------------------------------------------------------
(* What the kinds do *)

\* A release without a waiter frees the mutex; with one, the first waiter is
\* made the owner, its priority is raised and its wait ends.
ReleasedTo(t, m, e, n) ==
  /\ n # t /\ st[n] = "Waiting" /\ current_wait[n] = m /\ n = Head(wait_queue[m])
  /\ wait_queue[m] # <<>> /\ wait_queue' = [wait_queue EXCEPT ![m] = Tail(wait_queue[m])]
  /\ owning_task' = [owning_task EXCEPT ![m] = n]
  /\ held' = [held EXCEPT ![t] = Front(held[t]), ![n] = Append(held[n], m)]
  /\ effective_priority' = [e EXCEPT ![n] = Min({effective_priority[n], Ceiling[m]})]
  /\ current_wait' = [current_wait EXCEPT ![n] = None]
  /\ wait_result' = [wait_result EXCEPT ![n] = "Ok"]
  /\ st' = [st EXCEPT ![n] = "Ready"]

Freed(t, m, e) ==
  /\ wait_queue[m] = <<>>
  /\ owning_task' = [owning_task EXCEPT ![m] = None]
  /\ held' = [held EXCEPT ![t] = Front(held[t])]
  /\ effective_priority' = e
  /\ UNCHANGED <<st, waitVars>>

\* Those are the two outcomes of unlock_mutex_unchecked.
LEMMA ReleaseEffect ==
  ASSUME StructInv, NEW t \in Tasks, NEW m \in Mutexes, NEW e \in [Tasks -> Prio],
         Releases(t, m, e)
  PROVE  Freed(t, m, e) \/ \E n \in Tasks : ReleasedTo(t, m, e, n)
<1> DEFINE h == [held EXCEPT ![t] = Front(held[t])]
           n == Head(wait_queue[m])
<1>1. /\ m \in Objects /\ wait_queue \in [Objects -> Seq(Tasks)]
      /\ held \in [Tasks -> Seq(Mutexes)]
  BY MutexAssumption DEF StructInv, TypeInv, TypeOK, SchedTypeOK
<1>2. UnlockMutexUnchecked(m, h, e) /\ st[t] = "Running"
      /\ \A u \in Tasks : u # t => e[u] = effective_priority[u]
  BY DEF Releases
<1>3. CASE wait_queue[m] = <<>>
  BY <1>2, <1>3 DEF UnlockMutexUnchecked, Freed
<1>4. CASE wait_queue[m] # <<>>
  <2>1. n \in Tasks /\ n \in ToSet(wait_queue[m])
    BY <1>1, <1>4, HeadTailProperties, TailElements
  <2>2. /\ owning_task' = [owning_task EXCEPT ![m] = n]
        /\ held' = [h EXCEPT ![n] = Append(h[n], m)]
        /\ effective_priority' = [e EXCEPT ![n] = Min({e[n], Ceiling[m]})]
        /\ wait_queue' = [wait_queue EXCEPT ![m] = Tail(wait_queue[m])]
        /\ current_wait' = [current_wait EXCEPT ![n] = None]
        /\ wait_result' = [wait_result EXCEPT ![n] = "Ok"]
        /\ st' = [st EXCEPT ![n] = "Ready"]
    BY <1>2, <1>4 DEF UnlockMutexUnchecked, WakeUpOne, CompleteWait, MakeReady
  <2> HIDE DEF n
  <2>3. current_wait[n] = m
    BY <1>1, <2>1 DEF StructInv, WaitLinked
  <2>4. st[n] = "Waiting" /\ n # t
    BY <1>1, <1>2, <2>1, <2>3, NoneAssumption DEF StructInv, WaitLinked
  <2>5. h[n] = held[n] /\ e[n] = effective_priority[n]
    BY <1>1, <1>2, <2>1, <2>4
  <2>6. held' = [held EXCEPT ![t] = Front(held[t]), ![n] = Append(held[n], m)]
    BY <1>1, <2>1, <2>2, <2>5
  <2>7. ReleasedTo(t, m, e, n)
    BY <1>4, <2>2, <2>3, <2>4, <2>5, <2>6 DEF ReleasedTo, n
  <2> QED
    BY <2>1, <2>7
<1> QED
  BY <1>3, <1>4

-----------------------------------------------------------------------------
(* Ownership and the results of waits *)

HeldExact ==
  /\ \A t \in Tasks, m \in Mutexes : m \in ToSet(held[t]) <=> owning_task[m] = t
  /\ \A t \in Tasks : IsInjective(held[t])

\* What a task waits for is owned, by another task.
WaitsForOwner ==
  \A t \in Tasks, m \in Mutexes : current_wait[t] = m => owning_task[m] \notin {None, t}

OwnerInv == HeldExact /\ WaitsForOwner /\ LockResultExact /\ WaitResultLegal

\* A mutex with a waiter has an owner that is not a waiter.
LEMMA OwnerInvOwnership == StructInv /\ OwnerInv => MutexOwnership
<1> SUFFICES ASSUME StructInv, OwnerInv, NEW m \in Mutexes, wait_queue[m] # <<>>
             PROVE  owning_task[m] # None /\ owning_task[m] \notin ToSet(wait_queue[m])
  BY DEF MutexOwnership, OwnerInv, HeldExact
<1>1. /\ m \in Objects /\ wait_queue \in [Objects -> Seq(Tasks)]
      /\ owning_task \in [Mutexes -> Tasks \cup {None}]
  BY MutexAssumption DEF StructInv, TypeInv, TypeOK, SchedTypeOK
<1>2. \A u \in Tasks : u \in ToSet(wait_queue[m]) => owning_task[m] \notin {None, u}
  BY <1>1 DEF StructInv, WaitLinked, OwnerInv, WaitsForOwner
<1>3. Head(wait_queue[m]) \in Tasks /\ Head(wait_queue[m]) \in ToSet(wait_queue[m])
  BY <1>1, HeadTailProperties, TailElements
<1> QED
  BY <1>1, <1>2, <1>3

\* The statics satisfy the invariant.
LEMMA InitOwner == Init => OwnerInv
<1> SUFFICES ASSUME Init PROVE OwnerInv
  OBVIOUS
<1> USE DEF Init, SchedInit
<1>1. HeldExact
  BY NoneAssumption DEF HeldExact, ToSet, IsInjective
<1>2. WaitsForOwner
  BY NoneAssumption, MutexAssumption DEF WaitsForOwner
<1>3. LockResultExact /\ WaitResultLegal
  BY DEF LockResultExact, WaitResultLegal, WaitCompleted
<1> QED
  BY <1>1, <1>2, <1>3 DEF OwnerInv

\* A task that runs its own code is in no wait.
LEMMA RunsNoFrame ==
  ASSUME StructInv, NEW t \in Tasks, pc[t] = "run"
  PROVE  frame[t] = None /\ current_wait[t] = None
BY DEF StructInv, StackFrame

\* A task blocks on a mutex that another task owns.
LEMMA BlocksOwner ==
  ASSUME StructInv, OwnerInv, NEW t \in Tasks, NEW o \in WaitTarget, NEW timed \in BOOLEAN,
         Blocks(t, o, timed)
  PROVE  OwnerInv'
<1>0. /\ current_wait \in [Tasks -> WaitTarget \cup {None}]
      /\ frame \in [Tasks -> Frame \cup {None}] /\ timeout \in [Tasks -> BOOLEAN]
      /\ wait_result \in [Tasks -> WaitResult]
      /\ None \notin WaitTarget /\ None \notin Frame
  BY NoneAssumption, FrameAssumption DEF StructInv, TypeInv, TypeOK, SchedTypeOK, WaitTarget
<1> DEFINE f == [on |-> o, timed |-> timed]
<1>1. /\ current_wait' = [current_wait EXCEPT ![t] = o]
      /\ frame' = [frame EXCEPT ![t] = f]
      /\ timeout' = [timeout EXCEPT ![t] = timed]
      /\ UNCHANGED <<wait_result, owning_task, held>>
      /\ o \in Mutexes => owning_task[o] # t /\ owning_task[o] # None
  BY DEF Blocks, BeginWait, Precheck, mutexVars
<1>2. f # None /\ f.timed = timed
  BY <1>0 DEF Frame
<1> HIDE DEF f
<1>3. HeldExact'
  BY <1>1 DEF OwnerInv, HeldExact
<1>4. WaitsForOwner'
  BY <1>0, <1>1 DEF OwnerInv, WaitsForOwner
<1>5. LockResultExact'
  BY <1>0, <1>1 DEF OwnerInv, LockResultExact, WaitCompleted
<1>6. WaitResultLegal'
  BY <1>0, <1>1, <1>2 DEF OwnerInv, WaitResultLegal, WaitCompleted
<1> QED
  BY <1>3, <1>4, <1>5, <1>6 DEF OwnerInv

\* A task returns from a wait and takes the Timeout of it along.
LEMMA ReturnsOwner ==
  ASSUME StructInv, OwnerInv, NEW t \in Tasks, FinishWait(t)
  PROVE  OwnerInv'
<1>0. /\ frame \in [Tasks -> Frame \cup {None}] /\ timeout \in [Tasks -> BOOLEAN]
  BY DEF StructInv, TypeInv, TypeOK, SchedTypeOK
<1>1. /\ frame' = [frame EXCEPT ![t] = None]
      /\ timeout' = [timeout EXCEPT ![t] = FALSE]
      /\ UNCHANGED <<current_wait, wait_result, owning_task, held>>
  BY DEF FinishWait, waitVars, mutexVars
<1>2. HeldExact' /\ WaitsForOwner'
  BY <1>1 DEF OwnerInv, HeldExact, WaitsForOwner
<1>3. LockResultExact' /\ WaitResultLegal'
  BY <1>0, <1>1 DEF OwnerInv, LockResultExact, WaitResultLegal, WaitCompleted
<1> QED
  BY <1>2, <1>3 DEF OwnerInv

\* A task whose wait for a mutex is interrupted does not own it, and a timeout
\* ends only a wait that has one.
LEMMA WakesOwner ==
  ASSUME StructInv, OwnerInv, NEW t \in Tasks, NEW result \in WaitResult, Wakes(t, result)
  PROVE  OwnerInv'
<1>0. /\ current_wait \in [Tasks -> WaitTarget \cup {None}]
      /\ timeout \in [Tasks -> BOOLEAN] /\ wait_result \in [Tasks -> WaitResult]
      /\ Mutexes \subseteq Objects /\ None \notin Objects
  BY NoneAssumption, MutexAssumption DEF StructInv, TypeInv, TypeOK, SchedTypeOK
<1>1. /\ current_wait' = [current_wait EXCEPT ![t] = None]
      /\ wait_result' = [wait_result EXCEPT ![t] = result]
      /\ st[t] = "Waiting"
      /\ result = "Ok" => current_wait[t] = "Park"
      /\ result = "Timeout" => timeout[t]
      /\ timeout' = timeout \/ timeout' = [timeout EXCEPT ![t] = FALSE]
      /\ UNCHANGED <<frame, owning_task, held>>
  BY DEF Wakes, InterruptTask, CompleteWait
<1>2. frame[t] # None /\ frame[t].on = current_wait[t]
  BY <1>1 DEF StructInv, WaitLinked, StackFrame
<1>3. HeldExact'
  BY <1>1 DEF OwnerInv, HeldExact
<1>4. WaitsForOwner'
  BY <1>0, <1>1 DEF OwnerInv, WaitsForOwner
<1>5. LockResultExact'
  <2> SUFFICES ASSUME NEW u \in Tasks, WaitCompleted(u)', frame[u].on \in Mutexes
               PROVE  wait_result'[u] = "Ok" <=> owning_task[frame[u].on] = u
    BY <1>1 DEF LockResultExact
  <2>1. CASE u = t
    <3>1. owning_task[frame[t].on] # t
      BY <1>2, <2>1 DEF OwnerInv, WaitsForOwner
    <3>2. result # "Ok"
      BY <1>0, <1>1, <1>2, <2>1, ObjectsAssumption
    <3> QED
      BY <1>0, <1>1, <2>1, <3>1, <3>2
  <2>2. CASE u # t
    <3>1. WaitCompleted(u) /\ wait_result'[u] = wait_result[u]
      BY <1>0, <1>1, <2>2 DEF WaitCompleted
    <3> QED
      BY <3>1 DEF OwnerInv, LockResultExact
  <2> QED
    BY <2>1, <2>2
<1>6. WaitResultLegal'
  <2> SUFFICES ASSUME NEW u \in Tasks
               PROVE  /\ WaitCompleted(u)' /\ wait_result'[u] = "Timeout" => frame[u].timed
                      /\ WaitCompleted(u)' /\ wait_result'[u] = "Ok" => frame[u].on # "Sleep"
                      /\ timeout'[u] => frame[u] # None /\ frame[u].timed
    BY <1>1 DEF WaitResultLegal
  <2>1. timeout'[u] => timeout[u]
    BY <1>0, <1>1
  <2>2. timeout[u] => frame[u] # None /\ frame[u].timed
    BY DEF OwnerInv, WaitResultLegal
  <2>3. CASE u = t
    <3>1. wait_result'[u] = result
      BY <1>0, <1>1, <2>3
    <3> QED
      BY <1>1, <1>2, <2>1, <2>2, <2>3, <3>1
  <2>4. CASE u # t
    <3>1. wait_result'[u] = wait_result[u] /\ current_wait'[u] = current_wait[u]
      BY <1>0, <1>1, <2>4
    <3> QED
      BY <1>1, <2>1, <2>2, <3>1 DEF OwnerInv, WaitResultLegal, WaitCompleted
  <2> QED
    BY <2>3, <2>4
<1> QED
  BY <1>3, <1>4, <1>5, <1>6 DEF OwnerInv

\* A late Timeout changes nothing else.
LEMMA ExpiresOwner ==
  ASSUME StructInv, OwnerInv, NEW t \in Tasks, Expires(t)
  PROVE  OwnerInv'
<1>1. timeout \in [Tasks -> BOOLEAN]
  BY DEF StructInv, TypeInv, TypeOK, SchedTypeOK
<1>2. timeout' = [timeout EXCEPT ![t] = FALSE]
      /\ UNCHANGED <<current_wait, wait_result, frame, owning_task, held>>
  BY DEF Expires, waitVars
<1> QED
  BY <1>1, <1>2 DEF OwnerInv, HeldExact, WaitsForOwner, LockResultExact, WaitResultLegal,
                    WaitCompleted

\* A free mutex has no waiter and no task that was told it has the mutex.
LEMMA TakesOwner ==
  ASSUME StructInv, OwnerInv, NEW t \in Tasks, NEW m \in Mutexes, TryLockMutex(t, m)
  PROVE  OwnerInv'
<1>0. /\ owning_task \in [Mutexes -> Tasks \cup {None}] /\ held \in [Tasks -> Seq(Mutexes)]
      /\ None \notin Tasks
  BY NoneAssumption DEF StructInv, TypeInv, TypeOK
<1>1. /\ owning_task[m] = None
      /\ owning_task' = [owning_task EXCEPT ![m] = t]
      /\ held' = [held EXCEPT ![t] = Append(held[t], m)]
      /\ UNCHANGED <<current_wait, wait_result, frame, timeout>>
  BY DEF TryLockMutex, waitVars, stackVars
<1>2. frame[t] = None
  BY CallerRunning, RunsNoFrame DEF TryLockMutex, TaskContext, StructInv
<1>3. m \notin ToSet(held[t])
  BY <1>0, <1>1 DEF OwnerInv, HeldExact
<1>4. /\ ToSet(Append(held[t], m)) = ToSet(held[t]) \cup {m}
      /\ IsInjective(Append(held[t], m))
  BY <1>0, <1>3, AppendElements DEF OwnerInv, HeldExact
<1>5. HeldExact'
  BY <1>0, <1>1, <1>4 DEF OwnerInv, HeldExact
<1>6. WaitsForOwner'
  BY <1>0, <1>1 DEF OwnerInv, WaitsForOwner
<1>7. LockResultExact'
  BY <1>0, <1>1, <1>2 DEF OwnerInv, LockResultExact, WaitCompleted
<1>8. WaitResultLegal'
  BY <1>1 DEF OwnerInv, WaitResultLegal, WaitCompleted
<1> QED
  BY <1>5, <1>6, <1>7, <1>8 DEF OwnerInv

\* A mutex that is given up goes to the waiter that is told so, or to nobody.
LEMMA ReleasesOwner ==
  ASSUME StructInv, OwnerInv, NEW t \in Tasks, NEW m \in Mutexes, NEW e \in [Tasks -> Prio],
         Releases(t, m, e)
  PROVE  OwnerInv'
<1>0. /\ owning_task \in [Mutexes -> Tasks \cup {None}] /\ held \in [Tasks -> Seq(Mutexes)]
      /\ current_wait \in [Tasks -> WaitTarget \cup {None}]
      /\ wait_result \in [Tasks -> WaitResult]
      /\ None \notin Tasks /\ None \notin Mutexes /\ "Sleep" \notin Mutexes
  BY NoneAssumption, MutexAssumption, ObjectsAssumption
     DEF StructInv, TypeInv, TypeOK, SchedTypeOK
<1> DEFINE f == Front(held[t])
<1>1. held[t] # <<>> /\ m = Last(held[t]) /\ UNCHANGED <<frame, timeout>>
  BY DEF Releases, stackVars
<1>2. frame[t] = None /\ current_wait[t] = None
  BY RunsNoFrame DEF Releases
<1>3. m \in ToSet(held[t]) /\ ToSet(f) = ToSet(held[t]) \ {m} /\ IsInjective(f)
  BY <1>0, <1>1, FrontElements DEF OwnerInv, HeldExact
<1>4. owning_task[m] = t
  BY <1>3 DEF OwnerInv, HeldExact
<1>5. \A u \in Tasks, x \in Mutexes :
        WaitCompleted(u) /\ frame[u].on = x => (wait_result[u] = "Ok" <=> owning_task[x] = u)
  BY DEF OwnerInv, LockResultExact
<1> HIDE DEF f
<1>6. CASE Freed(t, m, e)
  <2>1. /\ owning_task' = [owning_task EXCEPT ![m] = None]
        /\ held' = [held EXCEPT ![t] = f]
        /\ UNCHANGED <<current_wait, wait_result, wait_queue>> /\ wait_queue[m] = <<>>
    BY <1>6 DEF Freed, waitVars, f
  <2>2. HeldExact'
    BY <1>0, <1>3, <1>4, <2>1 DEF OwnerInv, HeldExact
  <2>3. \A u \in Tasks : current_wait[u] # m
    BY <2>1, MutexAssumption DEF StructInv, WaitLinked, ToSet
  <2>4. WaitsForOwner'
    BY <1>0, <2>1, <2>3 DEF OwnerInv, WaitsForOwner
  <2>5. LockResultExact'
    BY <1>0, <1>1, <1>2, <1>4, <1>5, <2>1 DEF LockResultExact, WaitCompleted
  <2>6. WaitResultLegal'
    BY <1>1, <2>1 DEF OwnerInv, WaitResultLegal, WaitCompleted
  <2> QED
    BY <2>2, <2>4, <2>5, <2>6 DEF OwnerInv
<1>7. ASSUME NEW n \in Tasks, ReleasedTo(t, m, e, n) PROVE OwnerInv'
  <2>1. /\ n # t /\ current_wait[n] = m /\ st[n] = "Waiting"
        /\ owning_task' = [owning_task EXCEPT ![m] = n]
        /\ held' = [held EXCEPT ![t] = f, ![n] = Append(held[n], m)]
        /\ current_wait' = [current_wait EXCEPT ![n] = None]
        /\ wait_result' = [wait_result EXCEPT ![n] = "Ok"]
    BY <1>7 DEF ReleasedTo, f
  <2>2. frame[n] # None /\ frame[n].on = m
    BY <1>0, <2>1 DEF StructInv, StackFrame
  <2>3. /\ ToSet(Append(held[n], m)) = ToSet(held[n]) \cup {m}
        /\ IsInjective(Append(held[n], m))
    BY <1>0, <1>4, <2>1, AppendElements DEF OwnerInv, HeldExact
  <2>4. HeldExact'
    <3>1. ASSUME NEW u \in Tasks
          PROVE  /\ IsInjective(held'[u])
                 /\ ToSet(held'[u]) = IF u = t THEN ToSet(held[u]) \ {m}
                                      ELSE IF u = n THEN ToSet(held[u]) \cup {m}
                                      ELSE ToSet(held[u])
      <4>1. held'[u] = IF u = t THEN f ELSE IF u = n THEN Append(held[n], m) ELSE held[u]
        BY <1>0, <2>1
      <4>2. IsInjective(held[u])
        BY DEF OwnerInv, HeldExact
      <4>3. CASE u = t
        BY <1>3, <4>1, <4>3
      <4>4. CASE u = n
        BY <2>1, <2>3, <4>1, <4>4
      <4> QED
        BY <4>1, <4>2, <4>3, <4>4
    <3>2. ASSUME NEW u \in Tasks, NEW x \in Mutexes
          PROVE  x \in ToSet(held'[u]) <=> owning_task'[x] = u
      <4>1. x \in ToSet(held[u]) <=> owning_task[x] = u
        BY DEF OwnerInv, HeldExact
      <4>2. owning_task'[x] = IF x = m THEN n ELSE owning_task[x]
        BY <1>0, <2>1
      <4>3. CASE u = t
        <5>1. ToSet(held'[u]) = ToSet(held[u]) \ {m} /\ n # t
          BY <2>1, <3>1, <4>3
        <5> QED
          BY <1>4, <4>1, <4>2, <4>3, <5>1
      <4>4. CASE u = n
        <5>1. ToSet(held'[u]) = ToSet(held[u]) \cup {m} /\ n # t
          BY <2>1, <3>1, <4>4
        <5> QED
          BY <1>4, <4>1, <4>2, <4>4, <5>1
      <4>5. CASE u # t /\ u # n
        BY <1>4, <3>1, <4>1, <4>2, <4>5
      <4> QED
        BY <4>3, <4>4, <4>5
    <3> QED
      BY <3>1, <3>2 DEF HeldExact
  <2>5. WaitsForOwner'
    BY <1>0, <2>1 DEF OwnerInv, WaitsForOwner
  <2>6. LockResultExact'
    <3> SUFFICES ASSUME NEW u \in Tasks, WaitCompleted(u)', frame[u].on \in Mutexes
                 PROVE  wait_result'[u] = "Ok" <=> owning_task'[frame[u].on] = u
      BY <1>1 DEF LockResultExact
    <3>1. CASE u = n
      BY <1>0, <2>1, <2>2, <3>1
    <3>2. CASE u # n
      <4>1. WaitCompleted(u) /\ wait_result'[u] = wait_result[u] /\ u # t
        BY <1>0, <1>1, <1>2, <2>1, <3>2 DEF WaitCompleted
      <4>2. wait_result[u] = "Ok" <=> owning_task[frame[u].on] = u
        BY <1>5, <4>1
      <4> QED
        BY <1>0, <1>4, <2>1, <3>2, <4>1, <4>2
    <3> QED
      BY <3>1, <3>2
  <2>7. WaitResultLegal'
    <3> SUFFICES ASSUME NEW u \in Tasks
                 PROVE  /\ WaitCompleted(u)' /\ wait_result'[u] = "Timeout" => frame[u].timed
                        /\ WaitCompleted(u)' /\ wait_result'[u] = "Ok" => frame[u].on # "Sleep"
      BY <1>1 DEF WaitResultLegal, OwnerInv
    <3>1. CASE u = n
      BY <1>0, <2>1, <2>2, <3>1
    <3>2. CASE u # n
      <4>1. wait_result'[u] = wait_result[u] /\ current_wait'[u] = current_wait[u]
        BY <1>0, <2>1, <3>2
      <4> QED
        BY <1>1, <4>1 DEF OwnerInv, WaitResultLegal, WaitCompleted
    <3> QED
      BY <3>1, <3>2
  <2> QED
    BY <2>4, <2>5, <2>6, <2>7 DEF OwnerInv
<1> QED
  BY <1>6, <1>7, ReleaseEffect

\* Every step preserves the invariant.
LEMMA OwnerStep == StructInv /\ OwnerInv /\ [Next]_vars => OwnerInv'
<1> SUFFICES ASSUME StructInv, OwnerInv, StepKind PROVE OwnerInv'
  BY StepKinds
<1>1. ASSUME UNCHANGED <<current_wait, wait_result, frame, timeout, owning_task, held>>
      PROVE  OwnerInv'
  BY <1>1 DEF OwnerInv, HeldExact, WaitsForOwner, LockResultExact, WaitResultLegal, WaitCompleted
<1>2. CASE Elsewhere
  BY <1>1, <1>2 DEF Elsewhere, waitVars, stackVars
<1>3. ASSUME NEW t \in Tasks, NEW c \in Context,
             Activate(c, t) \/ \E p \in Prio : SetTaskBasePriority(c, t, p)
      PROVE  OwnerInv'
  BY <1>1, <1>3 DEF Activate, SetTaskBasePriority, waitVars, stackVars, mutexVars
<1> QED
  BY <1>2, <1>3, BlocksOwner, ReturnsOwner, WakesOwner, ExpiresOwner, TakesOwner, ReleasesOwner
     DEF StepKind

\* Waits, their results and the owners of mutexes agree in every state.
THEOREM Ownership == Spec => [](StructInv /\ OwnerInv)
BY InitStruct, InitOwner, StructStep, OwnerStep, PTL DEF Spec

\* Held mutexes and owners agree whatever tasks lock, time out, are interrupted
\* or exit: a mutex that somebody waits for has an owner, which is not waiting
\* for it.
THEOREM MutexOwnershipCorrect == Spec => []MutexOwnership
BY Ownership, OwnerInvOwnership, PTL

\* A task whose lock call succeeds owns the mutex, and one whose call fails
\* does not, although a timeout or an interruption may meet the hand-over.
THEOREM LockResultCorrect == Spec => []LockResultExact
<1>1. OwnerInv => LockResultExact
  BY DEF OwnerInv
<1> QED
  BY <1>1, Ownership, PTL

\* No wait returns a result its service calls unreachable, and a Timeout never
\* outlives its TimeoutGuard.
THEOREM WaitResultCorrect == Spec => []WaitResultLegal
<1>1. OwnerInv => WaitResultLegal
  BY DEF OwnerInv
<1> QED
  BY <1>1, Ownership, PTL

-----------------------------------------------------------------------------
(* Effective priorities *)

\* evaluate_task_effective_priority of a task that holds no mutex, and of one
\* that locks another mutex (lock_core).
LEMMA EvaluateNone ==
  ASSUME NEW b \in Prio PROVE EvaluateEffectivePriority(b, <<>>) = b
<1>1. {b} \cup {Ceiling[m] : m \in ToSet(<<>>)} = {b}
  BY DEF ToSet
<1>2. {b} \in SUBSET Nat
  BY PrioAssumption DEF Prio
<1>3. b \in Nat /\ b <= b
  BY PrioAssumption DEF Prio
<1>4. Min({b}) = b
  BY <1>2, <1>3, MinIs
<1> QED
  BY <1>1, <1>4 DEF EvaluateEffectivePriority

\* A mutex taken last raises the priority to its ceiling.
LEMMA EvaluateAppend ==
  ASSUME NEW b \in Prio, NEW h \in Seq(Mutexes), NEW m \in Mutexes
  PROVE  EvaluateEffectivePriority(b, Append(h, m)) =
           Min({EvaluateEffectivePriority(b, h), Ceiling[m]})
<1> DEFINE S == {b} \cup {Ceiling[x] : x \in ToSet(h)}
           T == {b} \cup {Ceiling[x] : x \in ToSet(Append(h, m))}
           c == Ceiling[m]
           a == Min(S)
<1>1. ToSet(h) \subseteq Mutexes
  BY DEF ToSet
<1>2. b \in Nat /\ c \in Nat /\ \A x \in ToSet(h) : Ceiling[x] \in Nat
  BY <1>1, MutexAssumption, PrioAssumption DEF Prio
<1>3. S \in SUBSET Nat /\ S # {}
  BY <1>2
<1>4. a \in S /\ \A y \in S : a <= y
  BY <1>3, MinNat
<1>5. T = S \cup {c}
  BY AppendElements
<1> HIDE DEF S, T, c, a
<1>6. T \in SUBSET Nat /\ a \in Nat
  BY <1>2, <1>3, <1>4, <1>5
<1>7. CASE a <= c
  <2>1. Min(T) = a
    BY <1>4, <1>5, <1>6, <1>7, MinIs
  <2>2. Min({a, c}) = a
    BY <1>2, <1>6, <1>7, MinIs
  <2> QED
    BY <2>1, <2>2 DEF EvaluateEffectivePriority, S, T, a, c
<1>8. CASE c < a
  <2>1. \A y \in T : c <= y
    BY <1>2, <1>3, <1>4, <1>5, <1>6, <1>8
  <2>2. Min(T) = c
    BY <1>2, <1>5, <1>6, <2>1, MinIs
  <2>3. Min({a, c}) = c
    <3>1. {a, c} \in SUBSET Nat /\ c \in {a, c} /\ \A y \in {a, c} : c <= y
      BY <1>2, <1>6, <1>8
    <3> QED
      BY <3>1, MinIs
  <2> QED
    BY <2>2, <2>3 DEF EvaluateEffectivePriority, S, T, a, c
<1> QED
  BY <1>2, <1>6, <1>7, <1>8

\* A ceiling that allows a priority allows a lower one.
LEMMA CeilingAllowsLower ==
  ASSUME NEW m \in Mutexes, NEW b \in Prio, NEW p \in Prio, b <= p, CeilingAllows(m, b)
  PROVE  CeilingAllows(m, p)
<1>1. Ceiling[m] \in Int /\ b \in Int /\ p \in Int
  BY MutexAssumption, PrioAssumption DEF Prio
<1> QED
  BY <1>1 DEF CeilingAllows

\* EffectivePriorityLaw of one task
TaskLaw(t) ==
  st[t] # "Dormant" =>
    /\ ~Exiting(t) =>
         effective_priority[t] = EvaluateEffectivePriority(base_priority[t], held[t])
    /\ \A m \in Mutexes :
         owning_task[m] = t \/ current_wait[t] = m => CeilingAllows(m, base_priority[t])

DormantHolds == \A t \in Tasks : st[t] = "Dormant" => held[t] = <<>>
LawInv == DormantHolds /\ \A t \in Tasks : TaskLaw(t)

\* A step that gives t no mutex and leaves its priorities alone.
LEMMA LawKept ==
  ASSUME NEW t \in Tasks, TaskLaw(t), base_priority'[t] = base_priority[t],
         effective_priority'[t] = effective_priority[t], held'[t] = held[t],
         current_wait'[t] \in {current_wait[t], None},
         \A m \in Mutexes : owning_task'[m] = t => owning_task[m] = t,
         st'[t] # "Dormant" => st[t] # "Dormant" /\ (Exiting(t) => Exiting(t)')
  PROVE  TaskLaw(t)'
<1>1. \A m \in Mutexes : m # None
  BY MutexAssumption, NoneAssumption
<1> QED
  BY <1>1 DEF TaskLaw

\* Steps that change no priority and no owner.
LEMMA WaitStepLaw ==
  ASSUME StructInv, LawInv, NEW t \in Tasks,
         \/ \E o \in WaitTarget, timed \in BOOLEAN : Blocks(t, o, timed)
         \/ FinishWait(t)
         \/ \E result \in WaitResult : Wakes(t, result)
         \/ Expires(t)
  PROVE  LawInv'
<1>0. /\ st \in [Tasks -> TaskSt] /\ current_wait \in [Tasks -> WaitTarget \cup {None}]
      /\ \A u \in Tasks : TaskLaw(u)
  BY DEF StructInv, TypeInv, TypeOK, SchedTypeOK, LawInv
<1>1. UNCHANGED <<base_priority, effective_priority, owning_task, held, running_task, cpu_lock>>
  BY DEF Blocks, BeginWait, FinishWait, Wakes, Expires, taskVars, prioVars, mutexVars, cpuVars
<1>2. UNCHANGED <<st, current_wait>> \/ \E o : /\ st[t] # "Dormant" /\ o # "Dormant"
                                               /\ st' = [st EXCEPT ![t] = o]
  <2>1. CASE \E o \in WaitTarget, timed \in BOOLEAN : Blocks(t, o, timed)
    <3>1. st[t] = "Running"
      BY <2>1, CallerRunning DEF Blocks, WaitableContext, TaskContext, StructInv
    <3> QED
      BY <2>1, <3>1 DEF Blocks, BeginWait
  <2>2. CASE FinishWait(t) \/ Expires(t)
    BY <2>2 DEF FinishWait, Expires, taskVars, waitVars
  <2>3. CASE \E result \in WaitResult : Wakes(t, result)
    BY <2>3 DEF Wakes, InterruptTask, CompleteWait, MakeReady
  <2> QED
    BY <2>1, <2>2, <2>3
<1>3. \A u \in Tasks : st'[u] = "Dormant" <=> st[u] = "Dormant"
  BY <1>0, <1>2
<1>4. DormantHolds'
  BY <1>1, <1>3 DEF LawInv, DormantHolds
<1>5. CASE \E o \in WaitTarget, timed \in BOOLEAN : Blocks(t, o, timed)
  <2>1. PICK o \in WaitTarget : \E timed \in BOOLEAN : Blocks(t, o, timed)
    BY <1>5
  <2>2. /\ current_wait' = [current_wait EXCEPT ![t] = o]
        /\ o \in Mutexes => CeilingAllows(o, base_priority[t])
    BY <2>1 DEF Blocks, BeginWait, Precheck
  <2>3. ASSUME NEW u \in Tasks, u # t PROVE TaskLaw(u)'
    BY <1>0, <1>1, <1>3, <2>2, <2>3, LawKept DEF Exiting
  <2>4. TaskLaw(t)'
    <3>1. TaskLaw(t) /\ st[t] # "Dormant" => st'[t] # "Dormant"
      BY <1>0, <1>3
    <3> QED
      BY <1>0, <1>1, <1>3, <2>2 DEF TaskLaw, Exiting
  <2> QED
    BY <1>4, <2>3, <2>4 DEF LawInv
<1>6. CASE \/ FinishWait(t) \/ Expires(t) \/ \E result \in WaitResult : Wakes(t, result)
  <2>1. current_wait' = current_wait \/ current_wait' = [current_wait EXCEPT ![t] = None]
    BY <1>6 DEF FinishWait, Expires, Wakes, InterruptTask, CompleteWait, waitVars
  <2>2. ASSUME NEW u \in Tasks PROVE TaskLaw(u)'
    BY <1>0, <1>1, <1>3, <2>1, LawKept DEF Exiting
  <2> QED
    BY <1>4, <2>2 DEF LawInv
<1> QED
  BY <1>5, <1>6

\* lock_core raises the priority of a task that locks a free mutex.
LEMMA TakesLaw ==
  ASSUME StructInv, LawInv, NEW t \in Tasks, NEW m \in Mutexes, TryLockMutex(t, m)
  PROVE  LawInv'
<1>0. /\ owning_task \in [Mutexes -> Tasks \cup {None}] /\ held \in [Tasks -> Seq(Mutexes)]
      /\ effective_priority \in [Tasks -> Prio] /\ base_priority \in [Tasks -> Prio]
      /\ \A u \in Tasks : TaskLaw(u)
  BY DEF StructInv, TypeInv, TypeOK, SchedTypeOK, LawInv
<1> DEFINE v == Min({effective_priority[t], Ceiling[m]})
<1>1. /\ CeilingAllows(m, base_priority[t])
      /\ owning_task' = [owning_task EXCEPT ![m] = t]
      /\ held' = [held EXCEPT ![t] = Append(held[t], m)]
      /\ effective_priority' = [effective_priority EXCEPT ![t] = v]
      /\ UNCHANGED <<st, current_wait, base_priority, cpu_lock, running_task>>
  BY DEF TryLockMutex, Precheck, taskVars, waitVars, cpuVars
<1>2. st[t] = "Running" /\ cpu_lock = "free"
  BY CallerRunning DEF TryLockMutex, TaskContext, StructInv
<1>3. v = EvaluateEffectivePriority(base_priority[t], Append(held[t], m))
  <2>1. effective_priority[t] = EvaluateEffectivePriority(base_priority[t], held[t])
    BY <1>0, <1>2 DEF TaskLaw, Exiting
  <2> QED
    BY <1>0, <2>1, EvaluateAppend
<1> HIDE DEF v
<1>4. ASSUME NEW u \in Tasks, u # t PROVE TaskLaw(u)'
  BY <1>0, <1>1, <1>4, LawKept DEF Exiting
<1>5. TaskLaw(t)'
  BY <1>0, <1>1, <1>2, <1>3 DEF TaskLaw
<1>6. DormantHolds'
  BY <1>0, <1>1, <1>2 DEF LawInv, DormantHolds
<1> QED
  BY <1>4, <1>5, <1>6 DEF LawInv

\* unlock lowers the priority of the caller and raises that of the new owner;
\* exit_task leaves that of the caller.
LEMMA ReleasesLaw ==
  ASSUME StructInv, LawInv, NEW t \in Tasks, NEW m \in Mutexes, NEW e \in [Tasks -> Prio],
         Releases(t, m, e)
  PROVE  LawInv'
<1>0. /\ owning_task \in [Mutexes -> Tasks \cup {None}] /\ held \in [Tasks -> Seq(Mutexes)]
      /\ effective_priority \in [Tasks -> Prio] /\ base_priority \in [Tasks -> Prio]
      /\ st \in [Tasks -> TaskSt] /\ current_wait \in [Tasks -> WaitTarget \cup {None}]
      /\ None \notin Tasks /\ \A u \in Tasks : TaskLaw(u)
  BY NoneAssumption DEF StructInv, TypeInv, TypeOK, SchedTypeOK, LawInv
<1> DEFINE f == Front(held[t])
<1>1. /\ t = running_task /\ st[t] = "Running"
      /\ \A u \in Tasks : u # t => e[u] = effective_priority[u]
      /\ cpu_lock # "exit" => e[t] = EvaluateEffectivePriority(base_priority[t], f)
      /\ UNCHANGED <<running_task, base_priority, cpu_lock>>
  BY DEF Releases
<1> HIDE DEF f
<1>2. CASE Freed(t, m, e)
  <2>1. /\ owning_task' = [owning_task EXCEPT ![m] = None]
        /\ held' = [held EXCEPT ![t] = f] /\ effective_priority' = e
        /\ UNCHANGED <<st, current_wait>>
    BY <1>2 DEF Freed, waitVars, f
  <2>2. ASSUME NEW u \in Tasks, u # t PROVE TaskLaw(u)'
    BY <1>0, <1>1, <2>1, <2>2, LawKept DEF Exiting
  <2>3. TaskLaw(t)'
    BY <1>0, <1>1, <2>1 DEF TaskLaw, Exiting
  <2>4. DormantHolds'
    BY <1>0, <1>1, <2>1 DEF LawInv, DormantHolds
  <2> QED
    BY <2>2, <2>3, <2>4 DEF LawInv
<1>3. ASSUME NEW n \in Tasks, ReleasedTo(t, m, e, n) PROVE LawInv'
  <2> DEFINE v == Min({effective_priority[n], Ceiling[m]})
             a == Append(held[n], m)
  <2>1. /\ n # t /\ current_wait[n] = m /\ st[n] = "Waiting"
        /\ owning_task' = [owning_task EXCEPT ![m] = n]
        /\ held' = [held EXCEPT ![t] = f, ![n] = a]
        /\ effective_priority' = [e EXCEPT ![n] = v]
        /\ current_wait' = [current_wait EXCEPT ![n] = None]
        /\ st' = [st EXCEPT ![n] = "Ready"]
    BY <1>3 DEF ReleasedTo, f
  <2>2. v = EvaluateEffectivePriority(base_priority[n], a)
    <3>1. effective_priority[n] = EvaluateEffectivePriority(base_priority[n], held[n])
      BY <1>0, <1>1, <2>1 DEF TaskLaw, Exiting
    <3> QED
      BY <1>0, <3>1, EvaluateAppend
  <2> HIDE DEF v, a
  <2>3. ASSUME NEW u \in Tasks, u # t, u # n PROVE TaskLaw(u)'
    <3>1. /\ held'[u] = held[u] /\ effective_priority'[u] = effective_priority[u]
          /\ current_wait'[u] = current_wait[u] /\ st'[u] = st[u]
      BY <1>0, <1>1, <2>1, <2>3
    <3>2. \A x \in Mutexes : owning_task'[x] = u => owning_task[x] = u
      BY <1>0, <2>1, <2>3
    <3> QED
      BY <1>0, <1>1, <3>1, <3>2, LawKept DEF Exiting
  <2>4. TaskLaw(t)'
    <3>1. /\ held'[t] = f /\ effective_priority'[t] = e[t]
          /\ current_wait'[t] = current_wait[t] /\ st'[t] = st[t]
      BY <1>0, <1>1, <2>1
    <3>2. \A x \in Mutexes : owning_task'[x] = t => owning_task[x] = t
      BY <1>0, <2>1
    <3> QED
      BY <1>0, <1>1, <3>1, <3>2 DEF TaskLaw, Exiting
  <2>5. TaskLaw(n)'
    <3>1. /\ held'[n] = a /\ effective_priority'[n] = v
          /\ current_wait'[n] = None /\ \A x \in Mutexes : x # None
      BY <1>0, <2>1, MutexAssumption, NoneAssumption
    <3>2. \A x \in Mutexes : owning_task'[x] = n => owning_task[x] = n \/ x = m
      BY <1>0, <2>1
    <3>3. \A x \in Mutexes : owning_task[x] = n \/ x = m => CeilingAllows(x, base_priority[n])
      BY <1>0, <2>1 DEF TaskLaw
    <3> QED
      BY <1>0, <1>1, <2>2, <3>1, <3>2, <3>3 DEF TaskLaw
  <2>6. DormantHolds'
    <3> SUFFICES ASSUME NEW u \in Tasks, st'[u] = "Dormant" PROVE held'[u] = <<>>
      BY DEF DormantHolds
    <3>1. u # n /\ u # t /\ st[u] = "Dormant"
      BY <1>0, <1>1, <2>1
    <3> QED
      BY <1>0, <2>1, <3>1 DEF LawInv, DormantHolds
  <2> QED
    BY <2>3, <2>4, <2>5, <2>6 DEF LawInv
<1> QED
  BY <1>2, <1>3, ReleaseEffect

\* A Dormant task that is activated holds no mutex, so its priority is the
\* configured one.
LEMMA ActivateLaw ==
  ASSUME StructInv, OwnerInv, LawInv, NEW c \in Context, NEW t \in Tasks, Activate(c, t)
  PROVE  LawInv'
<1>0. /\ effective_priority \in [Tasks -> Prio] /\ base_priority \in [Tasks -> Prio]
      /\ st \in [Tasks -> TaskSt] /\ InitPrio[t] \in Prio
      /\ \A u \in Tasks : TaskLaw(u)
  BY PrioAssumption DEF StructInv, TypeInv, TypeOK, SchedTypeOK, LawInv
<1>1. /\ st[t] = "Dormant" /\ st' = [st EXCEPT ![t] = "Ready"]
      /\ effective_priority' = [effective_priority EXCEPT ![t] = InitPrio[t]]
      /\ base_priority' = [base_priority EXCEPT ![t] = InitPrio[t]]
      /\ UNCHANGED <<running_task, current_wait, cpu_lock, owning_task, held>>
  BY DEF Activate, MakeReady, waitVars, cpuVars, mutexVars
<1>2. held[t] = <<>> /\ current_wait[t] = None
  BY <1>1 DEF LawInv, DormantHolds, StructInv, WaitLinked
<1>3. \A m \in Mutexes : owning_task[m] # t /\ m # None
  BY <1>2, MutexAssumption, NoneAssumption DEF OwnerInv, HeldExact, ToSet
<1>4. ASSUME NEW u \in Tasks, u # t PROVE TaskLaw(u)'
  BY <1>0, <1>1, <1>4, LawKept DEF Exiting
<1>5. TaskLaw(t)'
  <2>1. EvaluateEffectivePriority(InitPrio[t], <<>>) = InitPrio[t]
    BY <1>0, EvaluateNone
  <2> QED
    BY <1>0, <1>1, <1>2, <1>3, <2>1 DEF TaskLaw
<1>6. DormantHolds'
  BY <1>0, <1>1 DEF LawInv, DormantHolds
<1> QED
  BY <1>4, <1>5, <1>6 DEF LawInv

\* set_task_base_priority checks the ceilings only when it raises a priority.
LEMMA SetPriorityLaw ==
  ASSUME StructInv, OwnerInv, LawInv, NEW c \in Context, NEW t \in Tasks, NEW p \in Prio,
         SetTaskBasePriority(c, t, p)
  PROVE  LawInv'
<1>0. /\ effective_priority \in [Tasks -> Prio] /\ base_priority \in [Tasks -> Prio]
      /\ \A u \in Tasks : TaskLaw(u)
  BY DEF StructInv, TypeInv, TypeOK, SchedTypeOK, LawInv
<1> DEFINE e == EvaluateEffectivePriority(p, held[t])
<1>1. /\ SetPriorityAllowed(t, p)
      /\ effective_priority' = [effective_priority EXCEPT ![t] = e]
      /\ base_priority' = [base_priority EXCEPT ![t] = p]
      /\ UNCHANGED <<st, running_task, current_wait, cpu_lock, owning_task, held>>
  BY DEF SetTaskBasePriority, cpuVars, mutexVars
<1> HIDE DEF e
<1>2. ASSUME NEW u \in Tasks, u # t PROVE TaskLaw(u)'
  BY <1>0, <1>1, <1>2, LawKept DEF Exiting
<1>3. ASSUME NEW m \in Mutexes, owning_task[m] = t \/ current_wait[t] = m
      PROVE  CeilingAllows(m, p)
  <2>1. st[t] # "Dormant"
    BY <1>1 DEF SetPriorityAllowed
  <2>2. CASE p < base_priority[t]
    <3>1. owning_task[m] = t => m \in ToSet(held[t])
      BY DEF OwnerInv, HeldExact
    <3> QED
      BY <1>1, <1>3, <2>2, <3>1 DEF SetPriorityAllowed
  <2>3. CASE ~(p < base_priority[t])
    <3>1. base_priority[t] <= p
      BY <1>0, <2>3, PrioAssumption DEF Prio
    <3>2. CeilingAllows(m, base_priority[t])
      BY <1>0, <1>3, <2>1 DEF TaskLaw
    <3> QED
      BY <1>0, <3>1, <3>2, CeilingAllowsLower
  <2> QED
    BY <2>2, <2>3
<1>4. TaskLaw(t)'
  BY <1>0, <1>1, <1>3 DEF TaskLaw, e
<1>5. DormantHolds'
  BY <1>1 DEF LawInv, DormantHolds
<1> QED
  BY <1>2, <1>4, <1>5 DEF LawInv

\* Every step preserves the invariant.
LEMMA LawStep == StructInv /\ OwnerInv /\ LawInv /\ [Next]_vars => LawInv'
<1> SUFFICES ASSUME StructInv, OwnerInv, LawInv, StepKind PROVE LawInv'
  BY StepKinds
<1>1. CASE Elsewhere
  <2>1. ASSUME NEW u \in Tasks PROVE TaskLaw(u)'
    BY <1>1, LawKept DEF Elsewhere, LawInv, prioVars, waitVars
  <2>2. DormantHolds'
    BY <1>1 DEF Elsewhere, LawInv, DormantHolds
  <2> QED
    BY <2>1, <2>2 DEF LawInv
<1> QED
  BY <1>1, WaitStepLaw, TakesLaw, ReleasesLaw, ActivateLaw, SetPriorityLaw DEF StepKind

\* The statics satisfy it.
LEMMA InitLaw == Init => LawInv
<1> SUFFICES ASSUME Init PROVE LawInv
  OBVIOUS
<1> USE DEF Init, SchedInit
<1>1. DormantHolds
  BY DEF DormantHolds
<1>2. ASSUME NEW t \in Tasks PROVE TaskLaw(t)
  <2>1. EvaluateEffectivePriority(InitPrio[t], <<>>) = InitPrio[t]
    BY EvaluateNone, PrioAssumption
  <2>2. \A m \in Mutexes : owning_task[m] # t /\ current_wait[t] # m
    BY NoneAssumption, MutexAssumption
  <2> QED
    BY <2>1, <2>2 DEF TaskLaw
<1> QED
  BY <1>1, <1>2 DEF LawInv

\* The invariant of waits, mutexes and priorities.
MutexInv == StructInv /\ OwnerInv /\ LawInv

\* The invariant of waits, mutexes and priorities holds in every state.
THEOREM MutexInvariant == Spec => []MutexInv
BY InitStruct, InitOwner, InitLaw, StructStep, OwnerStep, LawStep, PTL DEF Spec, MutexInv

\* The effective priority of an active task that is not exiting is its base
\* priority raised to the ceilings of the mutexes it holds, after any sequence
\* of lock, unlock, hand-over and set_priority; and no ceiling is below the base
\* priority of a task that holds the mutex or waits for it.
THEOREM EffectivePriorityCorrect == Spec => []EffectivePriorityLaw
<1>1. MutexInv => EffectivePriorityLaw
  BY DEF MutexInv, LawInv, TaskLaw, Exiting, EffectivePriorityLaw
<1> QED
  BY <1>1, MutexInvariant, PTL

-----------------------------------------------------------------------------
(* Wait queues in the order of priorities *)

\* A list stays sorted while the priorities of its tasks stay the same.
LEMMA SortedKept ==
  ASSUME NEW q \in Seq(Tasks), NEW e, NEW f, SortedBy(q, e), \A u \in ToSet(q) : f[u] = e[u]
  PROVE  SortedBy(q, f)
BY DEF SortedBy, ToSet

\* find_insertion_position_by_task_priority finds a position that keeps the
\* list sorted.
LEMMA EnqueueSorted ==
  ASSUME NEW q \in Seq(Tasks), NEW o \in Objects, NEW t \in Tasks,
         QueueOrder[o] = "TaskPriority", effective_priority' \in [Tasks -> Prio],
         SortedBy(q, effective_priority')
  PROVE  SortedBy(EnqueueWait(q, o, t), effective_priority')
<1> DEFINE key == effective_priority'
           p == effective_priority'[t]
           S == {0} \cup {i \in DOMAIN q : key[q[i]] <= p}
           k == InsertionPosition(q, p)
<1>1. /\ \A u \in Tasks : key[u] \in Int
      /\ Len(q) \in Nat /\ DOMAIN q = 1 .. Len(q)
      /\ \A i \in 1 .. Len(q) : q[i] \in Tasks
  BY PrioAssumption DEF Prio
<1>2. S \in SUBSET (0 .. Len(q)) /\ S # {} /\ k = Max(S) + 1
  BY DEF InsertionPosition
<1>3. k - 1 \in S /\ \A i \in S : i <= k - 1 /\ k \in 1 .. Len(q) + 1
  <2> DEFINE n == Max(S)
  <2>1. n \in S /\ \A i \in S : i <= n
    BY <1>1, <1>2, MaxNat
  <2>2. n \in 0 .. Len(q) /\ k = n + 1
    BY <1>2, <2>1
  <2> HIDE DEF n, S, k
  <2> QED
    BY <1>1, <2>1, <2>2
<1>4. EnqueueWait(q, o, t) = InsertAt(q, k, t)
  BY DEF EnqueueWait
<1>5. k \in 1 .. Len(q) + 1
  BY <1>3
<1> HIDE DEF k
<1>6. ASSUME NEW i \in 1 .. Len(q), i < k PROVE key[q[i]] <= p
  <2>1. k - 1 \in 1 .. Len(q) /\ i <= k - 1
    BY <1>1, <1>5, <1>6
  <2>2. key[q[k - 1]] <= p
    BY <1>3, <2>1
  <2>3. CASE i = k - 1
    BY <2>2, <2>3
  <2>4. CASE i < k - 1
    <3>1. key[q[i]] <= key[q[k - 1]]
      BY <1>1, <2>1, <2>4 DEF SortedBy
    <3>2. key[q[i]] \in Int /\ key[q[k - 1]] \in Int /\ p \in Int
      BY <1>1, <2>1
    <3> HIDE DEF key, p
    <3> QED
      BY <2>2, <3>1, <3>2
  <2> QED
    BY <1>5, <2>1, <2>3, <2>4
<1>7. ASSUME NEW i \in 1 .. Len(q), i >= k PROVE p <= key[q[i]]
  <2>1. i \notin S
    BY <1>3, <1>5, <1>7
  <2>2. ~(key[q[i]] <= p)
    BY <1>1, <2>1
  <2>3. key[q[i]] \in Int /\ p \in Int
    BY <1>1
  <2> HIDE DEF key, p
  <2> QED
    BY <2>2, <2>3
<1> HIDE DEF S
<1> QED
  BY <1>1, <1>4, <1>5, <1>6, <1>7, InsertAtSorted

\* ListAccessorCell::remove leaves the list sorted.
LEMMA UnlinkSorted ==
  ASSUME NEW q \in Seq(Tasks), NEW t, NEW key, SortedBy(q, key)
  PROVE  SortedBy(Unlink(q, t), key)
<1>1. CASE t \in ToSet(q)
  <2> DEFINE k == CHOOSE i \in DOMAIN q : q[i] = t
  <2>1. k \in DOMAIN q
    BY <1>1 DEF ToSet
  <2>2. Unlink(q, t) = RemoveAt(q, k)
    BY <1>1 DEF Unlink
  <2> HIDE DEF k
  <2> QED
    BY <2>1, <2>2, RemoveAtSorted
<1>2. CASE t \notin ToSet(q)
  BY <1>2 DEF Unlink
<1> QED
  BY <1>1, <1>2

QueueSorted(o) ==
  QueueOrder[o] = "TaskPriority" => SortedBy(wait_queue[o], effective_priority)

\* A queue that a step leaves alone stays sorted if the tasks whose priority
\* changes do not wait in it.
LEMMA QueueKept ==
  ASSUME StructInv, NEW o \in Objects, QueueSorted(o), wait_queue'[o] = wait_queue[o],
         \A u \in Tasks : current_wait[u] = o => effective_priority'[u] = effective_priority[u]
  PROVE  QueueSorted(o)'
<1>1. wait_queue[o] \in Seq(Tasks)
  BY DEF StructInv, TypeInv, TypeOK, SchedTypeOK
<1>2. \A u \in ToSet(wait_queue[o]) : u \in Tasks /\ current_wait[u] = o
  BY <1>1 DEF StructInv, WaitLinked, ToSet
<1> QED
  BY <1>1, <1>2, SortedKept DEF QueueSorted

\* Every step leaves the queues sorted.
LEMMA SortedStep == StructInv /\ StructInv' /\ WaitQueueSorted /\ [Next]_vars => WaitQueueSorted'
<1> SUFFICES ASSUME StructInv, StructInv', \A o \in Objects : QueueSorted(o), StepKind,
                    NEW o \in Objects
             PROVE  QueueSorted(o)'
  BY StepKinds DEF WaitQueueSorted, QueueSorted, SortedBy
<1>0. /\ wait_queue \in [Objects -> Seq(Tasks)] /\ current_wait \in [Tasks -> WaitTarget \cup {None}]
      /\ effective_priority \in [Tasks -> Prio] /\ effective_priority' \in [Tasks -> Prio]
      /\ None \notin Objects /\ Mutexes \subseteq Objects /\ o # None
      /\ QueueSorted(o)
  BY NoneAssumption, MutexAssumption DEF StructInv, TypeInv, TypeOK, SchedTypeOK
<1>1. ASSUME UNCHANGED <<wait_queue, effective_priority>> PROVE QueueSorted(o)'
  BY <1>1 DEF QueueSorted
<1>2. CASE Elsewhere
  BY <1>1, <1>2 DEF Elsewhere, prioVars, waitVars
<1>3. ASSUME NEW t \in Tasks, NEW x \in WaitTarget, NEW timed \in BOOLEAN, Blocks(t, x, timed)
      PROVE  QueueSorted(o)'
  <2>1. /\ UNCHANGED effective_priority
        /\ wait_queue' = IF x \in Objects
                           THEN [wait_queue EXCEPT ![x] = EnqueueWait(wait_queue[x], x, t)]
                           ELSE wait_queue
    BY <1>3 DEF Blocks, BeginWait, prioVars
  <2>2. CASE x = o
    <3>1. wait_queue'[o] = EnqueueWait(wait_queue[o], o, t)
      BY <1>0, <2>1, <2>2
    <3>2. QueueOrder[o] = "TaskPriority" => SortedBy(wait_queue[o], effective_priority')
      BY <1>0, <2>1 DEF QueueSorted
    <3>3. wait_queue[o] \in Seq(Tasks)
      BY <1>0
    <3>4. QueueOrder[o] = "TaskPriority" => SortedBy(wait_queue'[o], effective_priority')
      BY <1>0, <3>1, <3>2, <3>3, EnqueueSorted
    <3> QED
      BY <3>4 DEF QueueSorted
  <2>3. CASE x # o
    <3>1. wait_queue'[o] = wait_queue[o]
      BY <1>0, <2>1, <2>3
    <3> QED
      BY <1>0, <2>1, <3>1, QueueKept
  <2> QED
    BY <2>2, <2>3
<1>4. ASSUME NEW t \in Tasks, FinishWait(t) \/ Expires(t) PROVE QueueSorted(o)'
  BY <1>1, <1>4 DEF FinishWait, Expires, prioVars, waitVars
<1>5. ASSUME NEW t \in Tasks, NEW result \in WaitResult, Wakes(t, result) PROVE QueueSorted(o)'
  <2> DEFINE x == current_wait[t]
  <2>1. /\ UNCHANGED effective_priority
        /\ wait_queue' = IF x \in Objects
                           THEN [wait_queue EXCEPT ![x] = Unlink(wait_queue[x], t)]
                           ELSE wait_queue
    BY <1>5 DEF Wakes, InterruptTask, prioVars
  <2> HIDE DEF x
  <2>2. CASE x = o
    <3>1. wait_queue'[o] = Unlink(wait_queue[o], t)
      BY <1>0, <2>1, <2>2
    <3> QED
      BY <1>0, <2>1, <3>1, UnlinkSorted DEF QueueSorted
  <2>3. CASE x # o
    <3>1. wait_queue'[o] = wait_queue[o]
      BY <1>0, <2>1, <2>3
    <3> QED
      BY <1>0, <2>1, <3>1, QueueKept
  <2> QED
    BY <2>2, <2>3
<1>6. ASSUME NEW t \in Tasks, NEW m \in Mutexes, TryLockMutex(t, m) PROVE QueueSorted(o)'
  <2>1. current_wait[t] = None
    BY <1>6, CallerRunning DEF TryLockMutex, TaskContext, StructInv, WaitLinked
  <2>2. /\ UNCHANGED wait_queue
        /\ \A u \in Tasks : u # t => effective_priority'[u] = effective_priority[u]
    BY <1>0, <1>6 DEF TryLockMutex, waitVars
  <2> QED
    BY <1>0, <2>1, <2>2, QueueKept
<1>7. ASSUME NEW t \in Tasks, NEW m \in Mutexes, NEW e \in [Tasks -> Prio], Releases(t, m, e)
      PROVE  QueueSorted(o)'
  <2>1. /\ current_wait[t] = None
        /\ \A u \in Tasks : u # t => e[u] = effective_priority[u]
    BY <1>7, RunsNoFrame DEF Releases
  <2>2. CASE Freed(t, m, e)
    <3>1. UNCHANGED wait_queue /\ effective_priority' = e
      BY <2>2 DEF Freed, waitVars
    <3> QED
      BY <1>0, <2>1, <3>1, QueueKept
  <2>3. ASSUME NEW n \in Tasks, ReleasedTo(t, m, e, n) PROVE QueueSorted(o)'
    <3>1. /\ current_wait[n] = m /\ n = Head(wait_queue[m]) /\ wait_queue[m] # <<>>
          /\ wait_queue' = [wait_queue EXCEPT ![m] = Tail(wait_queue[m])]
          /\ effective_priority' = [e EXCEPT ![n] = Min({effective_priority[n], Ceiling[m]})]
      BY <2>3 DEF ReleasedTo
    <3>2. \A u \in Tasks : u # t /\ u # n => effective_priority'[u] = effective_priority[u]
      BY <2>1, <3>1
    <3>3. CASE o = m
      <4> DEFINE q == wait_queue[o]
      <4>1. q \in Seq(Tasks) /\ q # <<>> /\ n = Head(q) /\ wait_queue'[o] = Tail(q)
        BY <1>0, <3>1, <3>3
      <4>2. ToSet(Tail(q)) = ToSet(q) \ {n} /\ Tail(q) \in Seq(Tasks)
        BY <4>1, TailElements, HeadTailProperties DEF StructInv, WaitLinked
      <4>3. \A u \in ToSet(Tail(q)) : u \in Tasks /\ u # n /\ current_wait[u] = o
        <5>1. \A u \in ToSet(q) : u \in Tasks
          BY <4>1 DEF ToSet
        <5>2. \A u \in Tasks : u \in ToSet(q) => current_wait[u] = o
          BY DEF StructInv, WaitLinked
        <5> HIDE DEF q
        <5> QED
          BY <4>2, <5>1, <5>2
      <4>4. \A u \in ToSet(Tail(q)) : effective_priority'[u] = effective_priority[u]
        BY <1>0, <2>1, <3>2, <4>3
      <4>5. \A u \in Tasks : effective_priority[u] \in Int
        BY <1>0, PrioAssumption DEF Prio
      <4> HIDE DEF q
      <4>6. ASSUME QueueOrder[o] = "TaskPriority"
            PROVE  SortedBy(Tail(q), effective_priority')
        <5>1. SortedBy(q, effective_priority)
          BY <1>0, <4>6 DEF QueueSorted, q
        <5>2. SortedBy(Tail(q), effective_priority)
          BY <4>1, <4>5, <5>1, TailSorted
        <5> QED
          BY <4>2, <4>4, <5>2, SortedKept
      <4> QED
        BY <4>1, <4>6 DEF QueueSorted
    <3>4. CASE o # m
      <4>1. wait_queue'[o] = wait_queue[o]
        BY <1>0, <3>1, <3>4
      <4> QED
        BY <1>0, <2>1, <3>1, <3>2, <3>4, <4>1, QueueKept
    <3> QED
      BY <3>3, <3>4
  <2> QED
    BY <1>7, <2>2, <2>3, ReleaseEffect
<1>8. ASSUME NEW t \in Tasks, NEW c \in Context, Activate(c, t) PROVE QueueSorted(o)'
  <2>1. current_wait[t] = None
    BY <1>8 DEF Activate, StructInv, WaitLinked
  <2>2. /\ UNCHANGED wait_queue
        /\ \A u \in Tasks : u # t => effective_priority'[u] = effective_priority[u]
    BY <1>0, <1>8 DEF Activate, waitVars
  <2> QED
    BY <1>0, <2>1, <2>2, QueueKept
<1>9. ASSUME NEW t \in Tasks, NEW c \in Context, NEW p \in Prio, SetTaskBasePriority(c, t, p)
      PROVE  QueueSorted(o)'
  <2> DEFINE e == EvaluateEffectivePriority(p, held[t])
  <2>1. /\ effective_priority' = [effective_priority EXCEPT ![t] = e]
        /\ \/ e = effective_priority[t] /\ UNCHANGED wait_queue
           \/ st[t] # "Waiting" /\ UNCHANGED wait_queue
           \/ st[t] = "Waiting" /\ ReorderWaitOfTask(t)
    BY <1>9 DEF SetTaskBasePriority
  <2>2. \A u \in Tasks : u # t => effective_priority'[u] = effective_priority[u]
    BY <1>0, <2>1
  <2>3. CASE e = effective_priority[t] /\ UNCHANGED wait_queue
    BY <1>0, <2>1, <2>2, <2>3, QueueKept
  <2>4. CASE st[t] # "Waiting" /\ UNCHANGED wait_queue
    <3>1. current_wait[t] = None
      BY <2>4 DEF StructInv, WaitLinked
    <3> QED
      BY <1>0, <2>2, <2>4, <3>1, QueueKept
  <2>5. CASE ReorderWaitOfTask(t)
    <3>1. CASE current_wait[t] = o /\ QueueOrder[o] = "TaskPriority"
      <4> DEFINE q == Unlink(wait_queue[o], t)
      <4>1. wait_queue'[o] = EnqueueWait(q, o, t)
        BY <1>0, <2>5, <3>1 DEF ReorderWaitOfTask
      <4>2. wait_queue[o] \in Seq(Tasks) /\ IsInjective(wait_queue[o])
            /\ SortedBy(wait_queue[o], effective_priority)
        BY <1>0, <3>1 DEF StructInv, WaitLinked, QueueSorted
      <4>3. /\ q \in Seq(Tasks) /\ ToSet(q) = ToSet(wait_queue[o]) \ {t}
            /\ SortedBy(q, effective_priority)
        BY <4>2, UnlinkType, UnlinkElements, UnlinkSorted
      <4> HIDE DEF q
      <4>4. \A u \in ToSet(q) : u \in Tasks /\ u # t
        BY <4>3 DEF ToSet
      <4>5. SortedBy(q, effective_priority')
        BY <2>2, <4>3, <4>4, SortedKept
      <4>6. SortedBy(EnqueueWait(q, o, t), effective_priority')
        BY <1>0, <3>1, <4>3, <4>5, EnqueueSorted
      <4> QED
        BY <4>1, <4>6 DEF QueueSorted
    <3>2. CASE current_wait[t] # o
      <4>1. wait_queue'[o] = wait_queue[o]
        BY <1>0, <2>5, <3>2 DEF ReorderWaitOfTask
      <4> QED
        BY <1>0, <2>2, <3>2, <4>1, QueueKept
    <3>3. CASE QueueOrder[o] # "TaskPriority"
      BY <3>3 DEF QueueSorted
    <3> QED
      BY <3>1, <3>2, <3>3
  <2> QED
    BY <2>1, <2>3, <2>4, <2>5
<1> QED
  BY <1>2, <1>3, <1>4, <1>5, <1>6, <1>7, <1>8, <1>9 DEF StepKind

\* A wait queue in TaskPriority order is sorted in every state: wait_inner
\* inserts at the right place, and every change of the priority of a waiting
\* task moves it.
THEOREM WaitQueueSortedCorrect == Spec => []WaitQueueSorted
<1>1. Init => WaitQueueSorted
  BY DEF Init, SchedInit, WaitQueueSorted
<1> QED
  BY <1>1, InitStruct, StructStep, SortedStep, PTL DEF Spec

-----------------------------------------------------------------------------
(* Hand-over of a mutex *)

\* exit_task holds CPU Lock, so no interrupt handler is active meanwhile.
ExitUninterrupted == cpu_lock = "exit" => interrupt = "none"

\* Every step of the kernel keeps it so.
LEMMA ExitUninterruptedStep == ExitUninterrupted /\ [Next]_vars => ExitUninterrupted'
<1> SUFFICES ASSUME ExitUninterrupted, [Next]_vars PROVE ExitUninterrupted'
  OBVIOUS
<1> USE DEF ExitUninterrupted, cpuVars
<1>1. CASE UNCHANGED vars
  BY <1>1 DEF vars, schedVars
<1>2. CASE Boot
  BY <1>2 DEF Boot, DispatchFirstTask, InitTask
<1>3. CASE Dispatching
  BY <1>3 DEF Dispatching, EnterInterrupt, LeaveInterrupt, YieldCpu, FinishWait
<1>4. CASE Locking
  BY <1>4 DEF Locking, AcquireCpuLock, ReleaseCpuLock, BoostPriority, UnboostPriority
<1>5. CASE TaskService
  <2>1. ASSUME NEW c \in Context, NEW t \in Tasks,
               Activate(c, t) \/ TaskInterrupt(c, t) \/ UnparkParked(c, t) \/ UnparkToken(c, t)
        PROVE  ExitUninterrupted'
    BY <2>1 DEF Activate, TaskInterrupt, UnparkParked, UnparkToken
  <2>2. ASSUME NEW c \in Context, NEW t \in Tasks, NEW p \in SettablePrio,
               SetTaskBasePriority(c, t, p)
        PROVE  ExitUninterrupted'
    BY <2>2 DEF SetTaskBasePriority
  <2>3. ASSUME NEW t \in Tasks,
               ParkWithToken(t) \/ Sleep(t) \/ \E timed \in Timed : Park(t, timed)
        PROVE  ExitUninterrupted'
    BY <2>3 DEF ParkWithToken, Sleep, Park
  <2>4. ASSUME NEW t \in Tasks, ExitTask(t) PROVE ExitUninterrupted'
    BY <2>4 DEF ExitTask
  <2>5. CASE AbandonHeldMutex \/ ExitAndDispatch
    BY <2>5 DEF AbandonHeldMutex, ExitAndDispatch
  <2> QED
    BY <1>5, <2>1, <2>2, <2>3, <2>4, <2>5 DEF TaskService
<1>6. CASE MutexService
  BY <1>6 DEF MutexService, TryLockMutex, LockMutex, UnlockMutex, MarkConsistentMutex, schedVars
<1>7. CASE Tick
  BY <1>7 DEF Tick, TickBegin, TickExpire, TimerCallbackBegin, TimerCallbackEnd, TickEnd
<1> QED
  BY <1>1, <1>2, <1>3, <1>4, <1>5, <1>6, <1>7 DEF Next

\* What HandoverLegal says of one mutex.
Handover(m) ==
  owning_task'[m] # owning_task[m] =>
    /\ interrupt = "none" /\ owning_task[m] \in {None, running_task}
    /\ owning_task[m] # None /\ owning_task'[m] # None =>
         /\ owning_task'[m] \in ToSet(wait_queue[m])
         /\ QueueOrder[m] = "TaskPriority" =>
              \A u \in ToSet(wait_queue[m]) :
                effective_priority[owning_task'[m]] <= effective_priority[u]

\* The owner gives up its mutex in favour of the first of a sorted queue.
LEMMA HandoverStep ==
  ASSUME StructInv, OwnerInv, WaitQueueSorted, ExitUninterrupted, [Next]_vars,
         NEW m \in Mutexes
  PROVE  Handover(m)
<1>0. /\ owning_task \in [Mutexes -> Tasks \cup {None}]
      /\ wait_queue \in [Objects -> Seq(Tasks)] /\ m \in Objects
      /\ \A u \in Tasks : effective_priority[u] \in Int
  BY MutexAssumption, PrioAssumption DEF StructInv, TypeInv, TypeOK, SchedTypeOK, Prio
<1>1. ASSUME UNCHANGED owning_task PROVE Handover(m)
  BY <1>1 DEF Handover
<1>2. CASE Elsewhere
  BY <1>1, <1>2 DEF Elsewhere
<1>3. ASSUME NEW t \in Tasks,
             \/ \E o \in WaitTarget, timed \in BOOLEAN : Blocks(t, o, timed)
             \/ FinishWait(t)
             \/ \E result \in WaitResult : Wakes(t, result)
             \/ Expires(t)
             \/ \E c \in Context : Activate(c, t)
             \/ \E c \in Context, p \in Prio : SetTaskBasePriority(c, t, p)
      PROVE  Handover(m)
  BY <1>1, <1>3 DEF Blocks, FinishWait, Wakes, Expires, Activate, SetTaskBasePriority, mutexVars
<1>4. ASSUME NEW t \in Tasks, NEW x \in Mutexes, TryLockMutex(t, x) PROVE Handover(m)
  <2>1. interrupt = "none"
    BY <1>4, CallerRunning DEF TryLockMutex, TaskContext, StructInv
  <2>2. owning_task[x] = None /\ owning_task' = [owning_task EXCEPT ![x] = t]
    BY <1>4 DEF TryLockMutex
  <2> QED
    BY <1>0, <2>1, <2>2 DEF Handover
<1>5. ASSUME NEW t \in Tasks, NEW x \in Mutexes, NEW e \in [Tasks -> Prio], Releases(t, x, e)
      PROVE  Handover(m)
  <2>1. interrupt = "none" /\ t = running_task /\ held[t] # <<>> /\ x = Last(held[t])
    BY <1>5 DEF Releases, ExitUninterrupted
  <2>2. owning_task[x] = t
    <3>1. held[t] \in Seq(Mutexes)
      BY DEF StructInv, TypeInv, TypeOK
    <3>2. x \in ToSet(held[t])
      BY <2>1, <3>1, FrontElements
    <3> QED
      BY <3>2 DEF OwnerInv, HeldExact
  <2>3. CASE Freed(t, x, e)
    <3>1. owning_task' = [owning_task EXCEPT ![x] = None]
      BY <2>3 DEF Freed
    <3> QED
      BY <1>0, <2>1, <2>2, <3>1 DEF Handover
  <2>4. ASSUME NEW n \in Tasks, ReleasedTo(t, x, e, n) PROVE Handover(m)
    <3>1. /\ owning_task' = [owning_task EXCEPT ![x] = n]
          /\ n = Head(wait_queue[x]) /\ wait_queue[x] # <<>>
      BY <2>4 DEF ReleasedTo
    <3>2. CASE m = x
      <4>1. wait_queue[m] \in Seq(Tasks) /\ n = Head(wait_queue[m]) /\ wait_queue[m] # <<>>
        BY <1>0, <3>1, <3>2
      <4>2. n \in ToSet(wait_queue[m])
        BY <4>1, TailElements
      <4>3. ASSUME QueueOrder[m] = "TaskPriority"
            PROVE  \A u \in ToSet(wait_queue[m]) :
                     effective_priority[n] <= effective_priority[u]
        <5>1. SortedBy(wait_queue[m], effective_priority)
          BY <1>0, <4>3 DEF WaitQueueSorted, SortedBy
        <5> QED
          BY <1>0, <4>1, <5>1, TailSorted
      <4>4. owning_task'[m] = n
        BY <1>0, <3>1, <3>2
      <4> QED
        BY <2>1, <2>2, <3>2, <4>2, <4>3, <4>4 DEF Handover
    <3>3. CASE m # x
      <4>1. owning_task'[m] = owning_task[m]
        BY <1>0, <3>1, <3>3
      <4> QED
        BY <4>1 DEF Handover
    <3> QED
      BY <3>2, <3>3
  <2> QED
    BY <1>5, <2>3, <2>4, ReleaseEffect
<1>6. StepKind
  BY StepKinds
<1> QED
  BY <1>2, <1>3, <1>4, <1>5, <1>6 DEF StepKind

\* A mutex changes hands only by unlock or exit of its owner, outside interrupt
\* handlers, and goes to a waiter that no other waiter should precede.
THEOREM HandoverCorrect == Spec => HandoverLegal
<1>1. Init => StructInv /\ OwnerInv /\ WaitQueueSorted /\ ExitUninterrupted
  BY InitStruct, InitOwner DEF Init, SchedInit, WaitQueueSorted, ExitUninterrupted
<1>2. StructInv /\ OwnerInv /\ WaitQueueSorted /\ ExitUninterrupted /\ [Next]_vars
        => (StructInv /\ OwnerInv /\ WaitQueueSorted /\ ExitUninterrupted)'
  BY StructStep, OwnerStep, SortedStep, ExitUninterruptedStep
<1>3. StructInv /\ OwnerInv /\ WaitQueueSorted /\ ExitUninterrupted /\ [Next]_vars
        => [\A m \in Mutexes : LET new == owning_task'[m] IN
              new # owning_task[m] =>
                /\ interrupt = "none" /\ owning_task[m] \in {None, running_task}
                /\ owning_task[m] # None /\ new # None =>
                     /\ new \in ToSet(wait_queue[m])
                     /\ QueueOrder[m] = "TaskPriority" =>
                          \A u \in ToSet(wait_queue[m]) :
                            effective_priority[new] <= effective_priority[u]]_vars
  BY HandoverStep DEF Handover
<1> QED
  BY <1>1, <1>2, <1>3, PTL DEF Spec, HandoverLegal

-----------------------------------------------------------------------------
(* Dispatching *)

\* choose_next_running_task leaves, unless Priority Boost holds it back, a
\* Running task of the highest priority or none to run; a task that it switches
\* to has a higher priority than the one it preempts.
LEMMA ChooseBest ==
  ASSUME TypeInv, ReadyQueueExact, NEW run \in Tasks \cup {None},
         NEW s \in [Tasks -> TaskSt],
         \A u \in Tasks : s[u] = "Ready" <=> st[u] = "Ready",
         \A u \in Tasks : s[u] = "Running" => run = u,
         UNCHANGED effective_priority, ChooseNextRunningTask(run, s)
  PROVE  /\ ~priority_boost /\ running_task' = None => bitmap' = {}
         /\ running_task' # None /\ (~priority_boost \/ running_task' # run) =>
              /\ st'[running_task'] = "Running"
              /\ \A u \in Tasks : st'[u] = "Ready" =>
                   effective_priority[running_task'] <= effective_priority[u]
         /\ running_task' # None /\ running_task' # run =>
              \A u \in Tasks : s[u] = "Running" /\ st'[u] = "Ready" =>
                effective_priority[running_task'] < effective_priority[u]
<1> DEFINE running == run # None /\ s[run] = "Running"
           prev == IF running THEN effective_priority[run] ELSE UsizeMax
           keep == priority_boost \/ prev <= NextPriority
           p == NextPriority
           next == Head(ready_queue[p])
<1>1. /\ ready_queue \in [Prio -> Seq(Tasks)] /\ bitmap \in SUBSET Prio
      /\ effective_priority \in [Tasks -> Prio]
      /\ NumPrio \in Nat /\ Prio = 0 .. NumPrio - 1 /\ UsizeMax = NumPrio + 1
      /\ None \notin Tasks
  BY PrioAssumption, NoneAssumption DEF TypeInv, TypeOK, SchedTypeOK, Prio, UsizeMax
<1>2. /\ bitmap # {} => p \in bitmap /\ \A i \in bitmap : p <= i
      /\ bitmap = {} => p = NumPrio
  <2>1. bitmap \in SUBSET Nat
    BY <1>1
  <2> QED
    BY <2>1, MinNat DEF NextPriority, EmptyPrio
<1>3. ASSUME NEW u \in Tasks, st[u] = "Ready"
      PROVE  effective_priority[u] \in bitmap
  <2>1. u \in ToSet(ready_queue[effective_priority[u]])
    BY <1>1, <1>3 DEF ReadyQueueExact
  <2>2. ready_queue[effective_priority[u]] # <<>>
    BY <2>1 DEF ToSet
  <2> QED
    BY <1>1, <2>2 DEF ReadyQueueExact
<1>4. p \in Int
  <2>1. bitmap = {} => p = NumPrio
    BY <1>2
  <2>2. bitmap # {} => p \in 0 .. NumPrio - 1
    BY <1>1, <1>2
  <2> HIDE DEF p
  <2> QED
    BY <1>1, <2>1, <2>2
<1>5. ASSUME NEW u \in Tasks, st[u] = "Ready" PROVE p <= effective_priority[u] /\ bitmap # {}
  BY <1>2, <1>3, <1>5
<1>6. CASE keep /\ running_task' = run /\ st' = s /\ UNCHANGED queueVars
  <2>1. ASSUME ~priority_boost
        PROVE  running /\ effective_priority[run] <= p
    <3>1. prev <= p
      BY <1>6, <2>1
    <3>2. running
      <4> SUFFICES ASSUME ~running PROVE FALSE
        OBVIOUS
      <4>1. NumPrio + 1 <= p
        BY <1>1, <3>1
      <4>2. CASE bitmap = {}
        BY <1>1, <1>2, <4>1, <4>2
      <4>3. CASE bitmap # {}
        <5>1. p \in 0 .. NumPrio - 1
          BY <1>1, <1>2, <4>3
        <5> HIDE DEF p
        <5> QED
          BY <1>1, <4>1, <5>1
      <4> QED
        BY <4>2, <4>3
    <3> QED
      BY <3>1, <3>2
  <2> HIDE DEF p
  <2>2. ASSUME ~priority_boost, NEW u \in Tasks, s[u] = "Ready"
        PROVE  effective_priority[run] <= effective_priority[u]
    <3>1. p <= effective_priority[u] /\ effective_priority[run] <= p /\ run \in Tasks
      BY <1>5, <2>1, <2>2
    <3>2. effective_priority[u] \in Int /\ effective_priority[run] \in Int
      BY <1>1, <3>1
    <3> QED
      BY <1>4, <3>1, <3>2
  <2> QED
    BY <1>1, <1>6, <2>1, <2>2
<1>7. CASE ~keep /\ bitmap = {} /\ running_task' = None /\ st' = s /\ UNCHANGED queueVars
  BY <1>7 DEF queueVars
<1>8. ASSUME bitmap # {}
      PROVE  next \in Tasks /\ st[next] = "Ready" /\ effective_priority[next] = p
  <2>1. p \in Prio /\ ready_queue[p] # <<>> /\ ready_queue[p] \in Seq(Tasks)
    BY <1>1, <1>2, <1>8 DEF ReadyQueueExact
  <2>2. next \in Tasks /\ next \in ToSet(ready_queue[p])
    BY <2>1, HeadTailProperties, TailElements
  <2> QED
    BY <2>1, <2>2 DEF ReadyQueueExact
<1>9. CASE /\ ~keep /\ bitmap # {} /\ ~(running /\ run # next)
           /\ running_task' = next
           /\ st' = [s EXCEPT ![next] = "Running"]
  <2>1. next \in Tasks /\ s[next] = "Ready" /\ effective_priority[next] = p /\ ~running
    BY <1>8, <1>9
  <2> HIDE DEF p, next, keep
  <2>2. \A u \in Tasks : s[u] # "Running"
    BY <1>1, <2>1
  <2>3. \A u \in Tasks : st'[u] = "Ready" => st[u] = "Ready"
    BY <1>9, <2>1
  <2>4. st'[next] = "Running"
    BY <1>9, <2>1
  <2> QED
    BY <1>1, <1>5, <1>9, <2>1, <2>2, <2>3, <2>4
<1>10. CASE /\ ~keep /\ bitmap # {} /\ running /\ run # next
            /\ running_task' = next
            /\ st' = [s EXCEPT ![next] = "Running", ![run] = "Ready"]
  <2>1. next \in Tasks /\ s[next] = "Ready" /\ effective_priority[next] = p /\ run \in Tasks
    BY <1>1, <1>8, <1>10
  <2>2. p < effective_priority[run]
    <3>1. ~(effective_priority[run] <= p) /\ effective_priority[run] \in Int
      BY <1>1, <1>10, <2>1
    <3> HIDE DEF p
    <3> QED
      BY <1>4, <3>1
  <2> HIDE DEF p, next, keep
  <2>3. \A u \in Tasks : st'[u] = "Ready" => st[u] = "Ready" \/ u = run
    BY <1>10, <2>1
  <2>4. st'[next] = "Running"
    BY <1>10, <2>1
  <2>5. \A u \in Tasks : st'[u] = "Ready" => p <= effective_priority[u]
    <3>1. p <= effective_priority[run]
      BY <1>1, <1>4, <2>1, <2>2
    <3> QED
      BY <1>5, <2>3, <3>1
  <2> QED
    BY <1>1, <1>10, <2>1, <2>2, <2>4, <2>5
<1> QED
  BY <1>6, <1>7, <1>9, <1>10 DEF ChooseNextRunningTask

\* After a dispatch that Priority Boost does not hold back, no preemption is due.
LEMMA ChooseUndisputed ==
  ASSUME TypeInv, ReadyQueueExact, NEW run \in Tasks \cup {None},
         NEW s \in [Tasks -> TaskSt],
         \A u \in Tasks : s[u] = "Ready" <=> st[u] = "Ready",
         \A u \in Tasks : s[u] = "Running" => run = u,
         UNCHANGED <<effective_priority, priority_boost>>, ChooseNextRunningTask(run, s)
  PROVE  NoLostPreemption'
<1>1. ~priority_boost => Undisputed'
  BY ChooseBest DEF Undisputed
<1> QED
  BY <1>1 DEF NoLostPreemption

\* After unlock_cpu_and_check_preemption none is lost: its caller, a task that is
\* running or an interrupt handler, is about to call yield_cpu if one is due.
LEMMA CheckUndisputed ==
  ASSUME StructInv', NEW c \in Context, NEW s \in [Tasks -> PC],
         c \in Tasks => running_task' = c, c = Isr => interrupt' # "none",
         UnlockCpuAndCheckPreemption(c, s)
  PROVE  NoLostPreemption'
<1>0. /\ bitmap' \in SUBSET Prio /\ effective_priority' \in [Tasks -> Prio]
      /\ running_task' \in Tasks \cup {None} /\ None \notin Tasks /\ Isr \notin Tasks
      /\ NumPrio \in Nat /\ Prio = 0 .. NumPrio - 1 /\ UsizeMax = NumPrio + 1
  BY PrioAssumption, NoneAssumption DEF StructInv, TypeInv, TypeOK, SchedTypeOK, Prio, UsizeMax
<1>1. CASE ~priority_boost' /\ \E p \in bitmap' : p < PrevTaskPriority'
  <2>1. CASE c \in Tasks
    <3>1. pc' = [s EXCEPT ![c] = "yield"]
      BY <1>0, <1>1, <2>1 DEF UnlockCpuAndCheckPreemption
    <3>2. running_task' # None /\ pc'[running_task'] = "yield"
      BY <1>0, <2>1, <3>1
    <3> QED
      BY <3>2 DEF NoLostPreemption
  <2>2. CASE c = Isr
    <3>1. yield_pending'
      BY <1>1, <2>2, Zenon DEF UnlockCpuAndCheckPreemption
    <3> QED
      BY <2>2, <3>1 DEF NoLostPreemption
  <2> QED
    BY <2>1, <2>2 DEF Context
<1>2. CASE priority_boost'
  BY <1>2 DEF NoLostPreemption
<1>3. CASE \A p \in bitmap' : ~(p < PrevTaskPriority')
  <2>1. CASE running_task' = None
    <3>1. PrevTaskPriority' = NumPrio + 1
      BY <1>0, <2>1 DEF PrevTaskPriority
    <3>2. bitmap' = {}
      BY <1>0, <1>3, <3>1
    <3> QED
      BY <2>1, <3>2 DEF NoLostPreemption, Undisputed
  <2>2. CASE running_task' # None /\ st'[running_task'] = "Running"
    <3>1. PrevTaskPriority' = effective_priority'[running_task']
      BY <2>2 DEF PrevTaskPriority
    <3>2. ASSUME NEW u \in Tasks, st'[u] = "Ready"
          PROVE  effective_priority'[running_task'] <= effective_priority'[u]
      <4>1. u \in ToSet(ready_queue'[effective_priority'[u]]) /\ effective_priority'[u] \in Prio
        BY <1>0, <3>2 DEF StructInv, ReadyQueueExact
      <4>2. ready_queue'[effective_priority'[u]] # <<>>
        BY <4>1 DEF ToSet
      <4>3. effective_priority'[u] \in bitmap'
        BY <4>1, <4>2 DEF StructInv, ReadyQueueExact
      <4>4. effective_priority'[running_task'] \in Int /\ effective_priority'[u] \in Int
        BY <1>0, <2>2
      <4> QED
        BY <1>3, <3>1, <4>3, <4>4
    <3> QED
      BY <2>2, <3>2 DEF NoLostPreemption, Undisputed
  <2>3. CASE running_task' # None /\ st'[running_task'] # "Running"
    <3>1. pc'[running_task'] = "wait"
      BY <2>3 DEF StructInv, ThreadInv, ThreadRuns
    <3> QED
      BY <2>3, <3>1 DEF NoLostPreemption
  <2> QED
    BY <2>1, <2>2, <2>3
<1> QED
  BY <1>1, <1>2, <1>3

\* Waking up, activating or reprioritising a task, and ending Priority Boost,
\* are followed by the check; so is a wait by a call of yield_cpu.
LEMMA PreemptionStep ==
  StructInv /\ StructInv' /\ NoLostPreemption /\ [Next]_vars => NoLostPreemption'
<1> SUFFICES ASSUME StructInv, StructInv', NoLostPreemption, [Next]_vars
             PROVE  NoLostPreemption'
  OBVIOUS
<1>0. /\ st \in [Tasks -> TaskSt] /\ running_task \in Tasks \cup {None}
      /\ pc \in [Tasks -> PC] /\ effective_priority \in [Tasks -> Prio]
      /\ None \notin Tasks /\ Isr \notin Tasks
      /\ TypeInv /\ ReadyQueueExact
      /\ \A u \in Tasks : st[u] = "Running" => running_task = u
  BY NoneAssumption DEF StructInv, TypeInv, TypeOK, SchedTypeOK, ThreadInv, OneRunning
<1>1. ASSUME UNCHANGED <<taskVars, effective_priority>> PROVE Undisputed' = Undisputed
  BY <1>1 DEF taskVars, Undisputed
<1>2. ASSUME UNCHANGED <<taskVars, effective_priority, pc, priority_boost, interrupt,
                         yield_pending>>,
             cpu_lock' \in {"free", "app"} => cpu_lock \in {"free", "app"}
      PROVE  NoLostPreemption'
  <2>1. Undisputed' = Undisputed
    BY <1>1, <1>2
  <2> QED
    BY <1>2, <2>1 DEF NoLostPreemption, taskVars
<1>3. ASSUME ChooseNextRunningTask(running_task, st),
             UNCHANGED <<effective_priority, priority_boost>>
      PROVE  NoLostPreemption'
  BY <1>0, <1>3, ChooseUndisputed
<1>4. ASSUME NEW c \in Context, NEW s \in [Tasks -> PC], InContext(c),
             UnlockCpuAndCheckPreemption(c, s), UNCHANGED <<running_task, interrupt>>
      PROVE  NoLostPreemption'
  <2>1. c \in Tasks => running_task' = c
    BY <1>0, <1>4 DEF InContext
  <2>2. c = Isr => interrupt' # "none"
    BY <1>4 DEF InContext
  <2> QED
    BY <1>4, <2>1, <2>2, CheckUndisputed
<1>5. ASSUME NEW t \in Tasks, InContext(t), NEW o, NEW timed, BeginWait(t, o, timed)
      PROVE  NoLostPreemption'
  <2>1. running_task' = t /\ pc'[t] = "wait"
    BY <1>0, <1>5 DEF BeginWait, InContext
  <2> QED
    BY <1>0, <2>1 DEF NoLostPreemption
<1>6. ASSUME NEW t \in Tasks, NEW m \in Mutexes, TryLockMutex(t, m)
      PROVE  NoLostPreemption'
  <2> DEFINE e == Min({effective_priority[t], Ceiling[m]})
  <2>1. /\ st[t] = "Running" /\ running_task = t /\ pc[t] = "run"
        /\ cpu_lock = "free" /\ interrupt = "none"
    BY <1>6, CallerRunning DEF TryLockMutex, TaskContext, StructInv
  <2>2. /\ effective_priority' = [effective_priority EXCEPT ![t] = e]
        /\ UNCHANGED <<taskVars, priority_boost>>
    BY <1>6 DEF TryLockMutex, cpuVars
  <2>3. e \in Prio
    BY <1>0, RaiseType
  <2>4. e <= effective_priority[t]
    <3>1. {effective_priority[t], Ceiling[m]} \in SUBSET Nat
      BY <1>0, MutexAssumption, PrioAssumption DEF Prio
    <3> QED
      BY <3>1, MinNat
  <2> HIDE DEF e
  <2>5. ASSUME ~priority_boost PROVE Undisputed'
    <3>1. \A u \in Tasks : st[u] = "Ready" => effective_priority[t] <= effective_priority[u]
      BY <1>0, <2>1, <2>5 DEF NoLostPreemption, Undisputed
    <3>2. ASSUME NEW u \in Tasks, st[u] = "Ready"
          PROVE  effective_priority'[t] <= effective_priority'[u]
      <4>1. /\ effective_priority'[t] = e /\ effective_priority'[u] = effective_priority[u]
            /\ effective_priority[t] <= effective_priority[u]
        BY <1>0, <2>1, <2>2, <3>1, <3>2
      <4>2. e \in Int /\ effective_priority[t] \in Int /\ effective_priority[u] \in Int
        BY <1>0, <2>3, PrioAssumption DEF Prio
      <4> QED
        BY <2>4, <4>1, <4>2
    <3> QED
      BY <1>0, <2>1, <2>2, <3>2 DEF Undisputed, taskVars
  <2> QED
    BY <2>2, <2>5 DEF NoLostPreemption
<1>7. CASE UNCHANGED vars
  BY <1>2, <1>7 DEF vars, schedVars, taskVars
<1>8. CASE Boot
  <2>1. CASE DispatchFirstTask
    BY <1>3, <2>1 DEF DispatchFirstTask, prioVars
  <2>2. ASSUME NEW t \in Tasks, InitTask(t) PROVE NoLostPreemption'
    BY <2>2 DEF InitTask, NoLostPreemption, cpuVars
  <2> QED
    BY <1>8, <2>1, <2>2 DEF Boot
<1>9. CASE Dispatching
  <2>1. CASE EnterInterrupt
    <3>1. Undisputed' = Undisputed
      BY <1>1, <2>1 DEF EnterInterrupt, prioVars
    <3> QED
      BY <2>1, <3>1 DEF EnterInterrupt, NoLostPreemption, taskVars
  <2>2. CASE LeaveInterrupt /\ yield_pending
    BY <1>3, <2>2 DEF LeaveInterrupt, prioVars
  <2>3. CASE LeaveInterrupt /\ ~yield_pending
    <3>1. Undisputed' = Undisputed
      BY <1>1, <2>3 DEF LeaveInterrupt, prioVars
    <3> QED
      BY <2>3, <3>1 DEF LeaveInterrupt, NoLostPreemption, taskVars
  <2>4. ASSUME NEW t \in Tasks, YieldCpu(t) PROVE NoLostPreemption'
    BY <1>3, <2>4 DEF YieldCpu, prioVars, cpuVars
  <2>5. ASSUME NEW t \in Tasks, FinishWait(t) PROVE NoLostPreemption'
    <3>1. Undisputed' = Undisputed
      BY <1>1, <2>5 DEF FinishWait, prioVars
    <3>2. ~priority_boost => Undisputed
      BY <1>0, <2>5 DEF FinishWait, NoLostPreemption
    <3> QED
      BY <2>5, <3>1, <3>2 DEF FinishWait, NoLostPreemption, cpuVars
  <2> QED
    BY <1>9, <2>1, <2>2, <2>3, <2>4, <2>5 DEF Dispatching
<1>10. CASE Locking
  <2>1. ASSUME NEW c \in Context, AcquireCpuLock(c) PROVE NoLostPreemption'
    BY <1>2, <2>1 DEF AcquireCpuLock, InContext, prioVars
  <2>2. CASE ReleaseCpuLock
    BY <1>2, <2>2 DEF ReleaseCpuLock, prioVars
  <2>3. ASSUME NEW t \in Tasks, BoostPriority(t) PROVE NoLostPreemption'
    BY <2>3 DEF BoostPriority, NoLostPreemption
  <2>4. ASSUME NEW t \in Tasks, UnboostPriority(t) PROVE NoLostPreemption'
    BY <1>0, <1>4, <2>4 DEF UnboostPriority, TaskContext, Context, taskVars
  <2> QED
    BY <1>10, <2>1, <2>2, <2>3, <2>4 DEF Locking
<1>11. CASE MutexService
  <2>1. ASSUME NEW t \in Tasks, NEW m \in Mutexes, NEW timed \in Timed, LockMutex(t, m, timed)
        PROVE  NoLostPreemption'
    BY <1>5, <2>1 DEF LockMutex, WaitableContext, TaskContext
  <2>2. ASSUME NEW t \in Tasks, NEW m \in Mutexes, UnlockMutex(t, m) PROVE NoLostPreemption'
    BY <1>0, <1>4, <2>2 DEF UnlockMutex, WaitableContext, TaskContext, Context, cpuVars
  <2>3. ASSUME NEW c \in Context, NEW m \in Mutexes, MarkConsistentMutex(c, m)
        PROVE  NoLostPreemption'
    BY <1>2, <2>3 DEF MarkConsistentMutex, schedVars, taskVars
  <2> QED
    BY <1>6, <1>11, <2>1, <2>2, <2>3 DEF MutexService
<1>12. CASE Tick
  <2>1. CASE TickBegin \/ TimerCallbackBegin \/ TimerCallbackEnd
    BY <2>1 DEF TickBegin, TimerCallbackBegin, TimerCallbackEnd, NoLostPreemption
  <2>2. ASSUME NEW t \in Tasks, TickExpire(t) PROVE NoLostPreemption'
    BY <2>2 DEF TickExpire, NoLostPreemption, cpuVars
  <2>3. CASE TickEnd
    BY <1>0, <2>3, CheckUndisputed DEF TickEnd, Context
  <2> QED
    BY <1>12, <2>1, <2>2, <2>3 DEF Tick
<1>13. CASE TaskService
  <2>1. ASSUME NEW c \in Context, NEW t \in Tasks, Activate(c, t) PROVE NoLostPreemption'
    <3>1. [pc EXCEPT ![t] = "run"] \in [Tasks -> PC]
      BY <1>0 DEF PC
    <3> QED
      BY <1>4, <2>1, <3>1 DEF Activate, cpuVars
  <2>2. ASSUME NEW c \in Context, NEW t \in Tasks, TaskInterrupt(c, t) PROVE NoLostPreemption'
    BY <1>0, <1>4, <2>2 DEF TaskInterrupt, cpuVars
  <2>3. ASSUME NEW c \in Context, NEW t \in Tasks, UnparkParked(c, t) PROVE NoLostPreemption'
    BY <1>0, <1>4, <2>3 DEF UnparkParked, cpuVars
  <2>4. ASSUME NEW c \in Context, NEW t \in Tasks, UnparkToken(c, t) PROVE NoLostPreemption'
    BY <1>2, <2>4 DEF UnparkToken, prioVars, cpuVars
  <2>5. ASSUME NEW c \in Context, NEW t \in Tasks, NEW p \in SettablePrio,
               SetTaskBasePriority(c, t, p)
        PROVE  NoLostPreemption'
    <3> DEFINE e == EvaluateEffectivePriority(p, held[t])
    <3>1. /\ InContext(c) /\ effective_priority' = [effective_priority EXCEPT ![t] = e]
          /\ UNCHANGED <<running_task, st, cpuVars>>
      BY <2>5 DEF SetTaskBasePriority
    <3> HIDE DEF e
    <3>2. CASE e = effective_priority[t] /\ UNCHANGED <<queueVars, pc, yield_pending>>
      <4>1. UNCHANGED effective_priority
        BY <1>0, <3>1, <3>2
      <4> QED
        BY <1>2, <3>1, <3>2, <4>1 DEF taskVars, queueVars, cpuVars
    <3>3. CASE UnlockCpuAndCheckPreemption(c, pc)
      BY <1>0, <1>4, <3>1, <3>3 DEF cpuVars
    <3>4. CASE st[t] = "Waiting" /\ UNCHANGED <<queueVars, pc, yield_pending>>
      <4>1. Undisputed => Undisputed'
        BY <1>0, <3>1, <3>4 DEF Undisputed, queueVars
      <4> QED
        BY <3>1, <3>4, <4>1 DEF NoLostPreemption, cpuVars
    <3> QED
      BY <2>5, <3>2, <3>3, <3>4 DEF SetTaskBasePriority, e
  <2>6. ASSUME NEW t \in Tasks, ExitTask(t) PROVE NoLostPreemption'
    BY <2>6 DEF ExitTask, NoLostPreemption
  <2>7. ASSUME NEW t \in Tasks, ParkWithToken(t) PROVE NoLostPreemption'
    BY <1>2, <2>7 DEF ParkWithToken, prioVars, cpuVars
  <2>8. ASSUME NEW t \in Tasks, Sleep(t) \/ \E timed \in Timed : Park(t, timed)
        PROVE  NoLostPreemption'
    BY <1>5, <2>8 DEF Sleep, Park, WaitableContext, TaskContext
  <2>9. CASE AbandonHeldMutex
    BY <2>9 DEF AbandonHeldMutex, NoLostPreemption, cpuVars
  <2>10. CASE ExitAndDispatch
    <3> DEFINE s == [st EXCEPT ![running_task] = "Dormant"]
    <3>1. running_task \in Tasks /\ st[running_task] = "Running"
      BY <1>0, <2>10 DEF ExitAndDispatch, StructInv, ThreadInv, ExitRuns, ThreadRuns
    <3>2. /\ s \in [Tasks -> TaskSt] /\ ChooseNextRunningTask(None, s)
          /\ UNCHANGED <<effective_priority, priority_boost>>
      BY <1>0, <2>10 DEF ExitAndDispatch, prioVars, TaskSt
    <3>3. /\ \A u \in Tasks : s[u] = "Ready" <=> st[u] = "Ready"
          /\ \A u \in Tasks : s[u] = "Running" => None = u
      BY <1>0, <3>1
    <3> HIDE DEF s
    <3> QED
      BY <1>0, <3>2, <3>3, ChooseUndisputed
  <2> QED
    BY <1>13, <2>1, <2>2, <2>3, <2>4, <2>5, <2>6, <2>7, <2>8, <2>9, <2>10 DEF TaskService
<1> QED
  BY <1>7, <1>8, <1>9, <1>10, <1>11, <1>12, <1>13 DEF Next

\* No preemption is lost, in whatever order interrupts, services and the end of
\* Priority Boost follow each other (unlock_cpu_and_check_preemption).
THEOREM NoLostPreemptionCorrect == Spec => []NoLostPreemption
<1>1. Init => NoLostPreemption
  BY DEF Init, SchedInit, NoLostPreemption
<1> QED
  BY <1>1, InitStruct, StructStep, PreemptionStep, PTL DEF Spec

\* What DispatchLegal says of one step.
Dispatch ==
  running_task' # running_task /\ running_task' # None =>
    /\ \A u \in Tasks : st'[u] = "Ready" =>
         effective_priority'[running_task'] <= effective_priority'[u]
    /\ \A u \in Tasks : st[u] = "Running" /\ st'[u] = "Ready" =>
         effective_priority'[running_task'] < effective_priority'[u]

\* Only choose_next_running_task changes running_task.
LEMMA DispatchStep == StructInv /\ [Next]_vars => Dispatch
<1> SUFFICES ASSUME StructInv, [Next]_vars PROVE Dispatch
  OBVIOUS
<1>0. /\ st \in [Tasks -> TaskSt] /\ running_task \in Tasks \cup {None}
      /\ None \notin Tasks /\ TypeInv /\ ReadyQueueExact
      /\ \A u \in Tasks : st[u] = "Running" => running_task = u
  BY NoneAssumption DEF StructInv, TypeInv, TypeOK, SchedTypeOK, ThreadInv, OneRunning
<1>1. ASSUME UNCHANGED running_task PROVE Dispatch
  BY <1>1 DEF Dispatch
<1>2. ASSUME ChooseNextRunningTask(running_task, st), UNCHANGED effective_priority
      PROVE  Dispatch
  BY <1>0, <1>2, ChooseBest DEF Dispatch
<1>3. CASE ExitAndDispatch
  <2> DEFINE s == [st EXCEPT ![running_task] = "Dormant"]
  <2>1. running_task \in Tasks /\ st[running_task] = "Running"
    BY <1>0, <1>3 DEF ExitAndDispatch, StructInv, ThreadInv, ExitRuns, ThreadRuns
  <2>2. /\ s \in [Tasks -> TaskSt] /\ ChooseNextRunningTask(None, s)
        /\ UNCHANGED <<effective_priority, priority_boost>>
    BY <1>0, <1>3 DEF ExitAndDispatch, prioVars, TaskSt
  <2>3. /\ \A u \in Tasks : s[u] = "Ready" <=> st[u] = "Ready"
        /\ \A u \in Tasks : s[u] = "Running" => None = u
        /\ s[running_task] = "Dormant"
    BY <1>0, <2>1
  <2>4. \A u \in Tasks : s[u] \notin {"Ready", "Running"} => st'[u] = s[u]
    BY <1>0, <1>3, <2>2, <2>3, ChooseThread
       DEF ExitAndDispatch, StructInv, ThreadInv, ExitRuns
  <2>5. \A u \in Tasks : st[u] = "Running" => st'[u] = "Dormant"
    BY <1>0, <2>3, <2>4
  <2>6. running_task' # None =>
          \A u \in Tasks : st'[u] = "Ready" =>
            effective_priority[running_task'] <= effective_priority[u]
    <3> HIDE DEF s
    <3> QED
      BY <1>0, <2>2, <2>3, ChooseBest
  <2> QED
    BY <2>2, <2>5, <2>6 DEF Dispatch
<1>4. CASE UNCHANGED vars
  BY <1>1, <1>4 DEF vars, schedVars
<1>5. CASE Boot
  BY <1>1, <1>2, <1>5 DEF Boot, DispatchFirstTask, InitTask, prioVars
<1>6. CASE Dispatching
  <2>1. CASE LeaveInterrupt
    BY <1>1, <1>2, <2>1 DEF LeaveInterrupt, prioVars, taskVars
  <2>2. ASSUME NEW t \in Tasks, YieldCpu(t) PROVE Dispatch
    BY <1>2, <2>2 DEF YieldCpu, prioVars
  <2>3. CASE EnterInterrupt
    BY <1>1, <2>3 DEF EnterInterrupt, taskVars
  <2>4. ASSUME NEW t \in Tasks, FinishWait(t) PROVE Dispatch
    BY <1>1, <2>4 DEF FinishWait, taskVars
  <2> QED
    BY <1>6, <2>1, <2>2, <2>3, <2>4 DEF Dispatching
<1>7. CASE Locking
  BY <1>1, <1>7 DEF Locking, AcquireCpuLock, ReleaseCpuLock, BoostPriority, UnboostPriority,
                    taskVars
<1>8. CASE MutexService
  BY ZenonT(60), <1>1, <1>8 DEF MutexService, TryLockMutex, LockMutex, BeginWait, UnlockMutex,
                    MarkConsistentMutex, schedVars, taskVars
<1>9. CASE Tick
  BY <1>1, <1>9 DEF Tick, TickBegin, TickExpire, TimerCallbackBegin, TimerCallbackEnd,
                    TickEnd, taskVars
<1>10. CASE TaskService
  <2>1. ASSUME NEW c \in Context, NEW t \in Tasks,
               Activate(c, t) \/ TaskInterrupt(c, t) \/ UnparkParked(c, t) \/ UnparkToken(c, t)
        PROVE  Dispatch
    BY <1>1, <2>1 DEF Activate, TaskInterrupt, UnparkParked, UnparkToken, taskVars
  <2>2. ASSUME NEW c \in Context, NEW t \in Tasks, NEW p \in SettablePrio,
               SetTaskBasePriority(c, t, p)
        PROVE  Dispatch
    BY <1>1, <2>2 DEF SetTaskBasePriority
  <2>3. ASSUME NEW t \in Tasks,
               \/ ParkWithToken(t) \/ Sleep(t) \/ ExitTask(t)
               \/ \E timed \in Timed : Park(t, timed)
        PROVE  Dispatch
    BY <1>1, <2>3 DEF ParkWithToken, Sleep, Park, BeginWait, ExitTask, taskVars
  <2>4. CASE AbandonHeldMutex
    BY <1>1, <2>4 DEF AbandonHeldMutex
  <2> QED
    BY <1>3, <1>10, <2>1, <2>2, <2>3, <2>4 DEF TaskService
<1> QED
  BY <1>4, <1>5, <1>6, <1>7, <1>8, <1>9, <1>10 DEF Next

\* The dispatcher switches only to a task of the highest priority, and preempts
\* a task that could go on only for a strictly higher one (pop_front_task).
THEOREM DispatchCorrect == Spec => DispatchLegal
<1>1. StructInv /\ [Next]_vars
        => [LET run == running_task' IN
            run # running_task /\ run # None =>
              /\ \A u \in Tasks : st'[u] = "Ready" =>
                   effective_priority'[run] <= effective_priority'[u]
              /\ \A u \in Tasks : st[u] = "Running" /\ st'[u] = "Ready" =>
                   effective_priority'[run] < effective_priority'[u]]_vars
  BY DispatchStep DEF Dispatch
<1> QED
  BY <1>1, InitStruct, StructStep, PTL DEF Spec, DispatchLegal


-----------------------------------------------------------------------------
(* Services that loop over waiters *)

\* The caller of the service under way is where it was when it called it.
CallsLoop(c) ==
  IF c = Isr THEN interrupt \in {"handler", "callback"}
             ELSE interrupt = "none" /\ running_task = c /\ pc[c] = "run"

\* What NoLostPreemption promises when nothing holds the dispatcher back.
DispatchAssured ==
  \/ Undisputed
  \/ yield_pending /\ interrupt = "handler"
  \/ running_task # None /\ pc[running_task] \in {"yield", "wait"}

\* The local variables of a service that loops exist while it holds CPU Lock.
\* Until it wakes up a task no preemption becomes due.
LoopInv(local) ==
  /\ cpu_lock = "service" <=> local # None
  /\ local # None =>
       /\ CallsLoop(local.by)
       /\ ~local.woke /\ ~priority_boost /\ interrupt \in {"none", "handler"} =>
            DispatchAssured

\* The kinds of steps of such a service: the call, a waiter woken up by an
\* iteration, and the end.
LoopBegins(c) ==
  /\ InContext(c)
  /\ cpu_lock' = "service"
  /\ UNCHANGED <<taskVars, prioVars, park_token, waitVars, stackVars, pc,
                 priority_boost, interrupt, yield_pending, mutexVars>>

LoopWakes(t, o) ==
  /\ cpu_lock = "service" /\ st[t] = "Waiting"
  /\ current_wait[t] = o
  /\ wait_queue' \in [Objects -> Seq(Tasks)]
  /\ \A x \in Objects : IsInjective(wait_queue'[x])
  /\ \A x \in Objects : ToSet(wait_queue'[x]) = ToSet(wait_queue[x]) \ {t}
  /\ CompleteWait(t, "Ok")
  /\ UNCHANGED <<running_task, prioVars, park_token, stackVars, pc, cpuVars,
                 yield_pending, mutexVars>>

LoopEnds(c, woke) ==
  /\ cpu_lock = "service" /\ cpu_lock' = "free"
  /\ UNCHANGED <<taskVars, prioVars, park_token, waitVars, stackVars,
                 priority_boost, interrupt, mutexVars>>
  /\ IF woke THEN UnlockCpuAndCheckPreemption(c, pc)
             ELSE UNCHANGED <<pc, yield_pending>>

\* Nothing else runs while such a service holds CPU Lock.
LEMMA LoopAtomic ==
  ASSUME cpu_lock = "service", interrupt # "tick", Next PROVE FALSE
<1>1. CASE Boot
  BY <1>1 DEF Boot, DispatchFirstTask, InitTask
<1>2. CASE Dispatching
  BY <1>2 DEF Dispatching, EnterInterrupt, LeaveInterrupt, YieldCpu, FinishWait
<1>3. CASE Locking
  BY <1>3 DEF Locking, AcquireCpuLock, ReleaseCpuLock, BoostPriority, UnboostPriority,
              TaskContext, InContext
<1>4. CASE TaskService
  BY <1>4 DEF TaskService, Activate, TaskInterrupt, UnparkParked, UnparkToken,
              SetTaskBasePriority, ExitTask, ParkWithToken, Park, Sleep, AbandonHeldMutex,
              ExitAndDispatch, WaitableContext, TaskContext, InContext
<1>5. CASE MutexService
  BY <1>5 DEF MutexService, TryLockMutex, LockMutex, UnlockMutex, MarkConsistentMutex,
              WaitableContext, TaskContext, InContext
<1>6. CASE Tick
  BY <1>6 DEF Tick, TickBegin, TickExpire, TimerCallbackBegin, TimerCallbackEnd, TickEnd
<1> QED
  BY <1>1, <1>2, <1>3, <1>4, <1>5, <1>6 DEF Next

\* No other step of the kernel leaves CPU Lock held that way.
LEMMA LoopForeign ==
  ASSUME cpu_lock # "service", [Next]_vars PROVE cpu_lock' # "service"
<1> USE DEF cpuVars
<1>1. CASE UNCHANGED vars
  BY <1>1 DEF vars, schedVars
<1>2. CASE Boot
  BY <1>2 DEF Boot, DispatchFirstTask, InitTask
<1>3. CASE Dispatching
  BY <1>3 DEF Dispatching, EnterInterrupt, LeaveInterrupt, YieldCpu, FinishWait
<1>4. CASE Locking
  BY <1>4 DEF Locking, AcquireCpuLock, ReleaseCpuLock, BoostPriority, UnboostPriority
<1>5. CASE TaskService
  <2>1. ASSUME NEW c \in Context, NEW t \in Tasks,
               Activate(c, t) \/ TaskInterrupt(c, t) \/ UnparkParked(c, t) \/ UnparkToken(c, t)
        PROVE  cpu_lock' # "service"
    BY <2>1 DEF Activate, TaskInterrupt, UnparkParked, UnparkToken
  <2>2. ASSUME NEW c \in Context, NEW t \in Tasks, NEW p \in SettablePrio,
               SetTaskBasePriority(c, t, p)
        PROVE  cpu_lock' # "service"
    BY <2>2 DEF SetTaskBasePriority
  <2>3. ASSUME NEW t \in Tasks,
               \/ ParkWithToken(t) \/ Sleep(t) \/ ExitTask(t)
               \/ \E timed \in Timed : Park(t, timed)
        PROVE  cpu_lock' # "service"
    BY <2>3 DEF ParkWithToken, Sleep, Park, ExitTask
  <2>4. CASE AbandonHeldMutex \/ ExitAndDispatch
    BY <2>4 DEF AbandonHeldMutex, ExitAndDispatch
  <2> QED
    BY <1>5, <2>1, <2>2, <2>3, <2>4 DEF TaskService
<1>6. CASE MutexService
  BY <1>6 DEF MutexService, TryLockMutex, LockMutex, UnlockMutex, MarkConsistentMutex, schedVars
<1>7. CASE Tick
  BY <1>7 DEF Tick, TickBegin, TickExpire, TimerCallbackBegin, TimerCallbackEnd, TickEnd
<1> QED
  BY <1>1, <1>2, <1>3, <1>4, <1>5, <1>6, <1>7 DEF Next

\* The front half of a wait for an object.
LEMMA BlockSafe ==
  ASSUME StructInv, NEW t \in Tasks, NEW o \in Objects, NEW timed \in BOOLEAN,
         WaitableContext(t), BeginWait(t, o, timed),
         UNCHANGED <<park_token, cpuVars, yield_pending, mutexVars>>
  PROVE  StructInv' /\ NoLostPreemption'
<1>1. o \in WaitTarget /\ o # "Park"
  BY ObjectsAssumption DEF WaitTarget
<1>2. Links' /\ Threads'
  BY <1>1, BeginWaitStruct
<1>3. TypeInv'
  <2>1. /\ wait_queue' \in [Objects -> Seq(Tasks)]
        /\ current_wait' \in [Tasks -> WaitTarget \cup {None}]
        /\ frame' \in [Tasks -> Frame \cup {None}]
        /\ timeout' \in [Tasks -> BOOLEAN]
        /\ st' \in [Tasks -> TaskSt]
        /\ pc' \in [Tasks -> PC]
    BY <1>1, BeginWaitSound DEF StructInv
  <2> QED
    BY <2>1 DEF StructInv, TypeInv, TypeOK, SchedTypeOK, BeginWait, queueVars, prioVars,
                mutexVars, cpuVars, BitmapSound, ExitRunning
<1>4. running_task' = t /\ pc'[t] = "wait" /\ t # None
  BY NoneAssumption
     DEF WaitableContext, TaskContext, InContext, BeginWait, StructInv, TypeInv, TypeOK, SchedTypeOK
<1> QED
  BY <1>2, <1>3, <1>4 DEF StructInv, Links, Threads, NoLostPreemption

\* The call: no preemption is due that was not due before.
LEMMA LoopBeginsSafe ==
  ASSUME StructInv, NoLostPreemption, NEW c \in Context, LoopBegins(c)
  PROVE  /\ StructInv' /\ NoLostPreemption' /\ CallsLoop(c)'
         /\ ~priority_boost' /\ interrupt' \in {"none", "handler"} => DispatchAssured'
<1> USE DEF taskVars, prioVars, waitVars, stackVars, mutexVars
<1>1. TypeInv'
  BY DEF StructInv, TypeInv, TypeOK, SchedTypeOK, LoopBegins, BitmapSound, ExitRunning, CpuLock
<1>2. StructInv'
  BY <1>1 DEF StructInv, LoopBegins, ReadyQueueExact, WaitLinked, StackFrame, ParkTokenConsumed,
              ThreadInv, OneRunning, ThreadRuns, Inactive, BoostRuns, ExitRuns, BootIdle
<1>3. CallsLoop(c)'
  BY DEF LoopBegins, InContext, CallsLoop
<1>4. Undisputed' = Undisputed
  BY DEF LoopBegins, Undisputed
<1> QED
  BY <1>2, <1>3, <1>4 DEF LoopBegins, InContext, NoLostPreemption, DispatchAssured

\* An iteration that wakes up a task.
LEMMA LoopWakesSafe ==
  ASSUME StructInv, NEW t \in Tasks, NEW o \in Objects, LoopWakes(t, o)
  PROVE  StructInv' /\ NoLostPreemption' /\ \A c : CallsLoop(c)' <=> CallsLoop(c)
<1>1. effective_priority' \in [Tasks -> Prio] /\ "Ok" \in WaitResult
  BY DEF LoopWakes, prioVars, StructInv, TypeInv, TypeOK, SchedTypeOK, WaitResult
<1>2. TypeInv'
  <2>1. /\ current_wait' \in [Tasks -> WaitTarget \cup {None}]
        /\ wait_result' \in [Tasks -> WaitResult]
        /\ st' \in [Tasks -> TaskSt]
        /\ QueueTypeOK'
    BY <1>1, CompleteWaitSound DEF LoopWakes, StructInv
  <2> QED
    BY <1>1, <2>1 DEF LoopWakes, StructInv, TypeInv, TypeOK, SchedTypeOK, QueueTypeOK, ExitRunning,
                prioVars, stackVars, cpuVars, mutexVars
<1>3. ReadyQueueExact' /\ WaitLinked' /\ Awakened(t)
  BY <1>1, CompleteWaitExact DEF LoopWakes, StructInv, prioVars
<1>4. StackFrame' /\ ThreadInv' /\ ParkTokenConsumed'
  BY <1>3, AwakenedThread DEF LoopWakes, StructInv, MayYield, stackVars, cpuVars
<1> QED
  BY <1>2, <1>3, <1>4 DEF StructInv, LoopWakes, NoLostPreemption, cpuVars, CallsLoop

\* The end: preemption is checked if a task was woken up.
LEMMA LoopEndsSafe ==
  ASSUME StructInv, NEW c \in Context, CallsLoop(c), NEW woke \in BOOLEAN, LoopEnds(c, woke),
         ~woke /\ ~priority_boost /\ interrupt \in {"none", "handler"} => DispatchAssured
  PROVE  StructInv' /\ NoLostPreemption'
<1> USE DEF taskVars, prioVars, waitVars, stackVars, mutexVars
<1>0. /\ pc \in [Tasks -> PC] /\ running_task \in Tasks \cup {None}
      /\ None \notin Tasks /\ Isr \notin Tasks
  BY NoneAssumption DEF StructInv, TypeInv, TypeOK, SchedTypeOK
<1>1. pc' \in [Tasks -> PC] /\ yield_pending' \in BOOLEAN
  <2>1. CASE woke
    BY <1>0, <2>1, UnlockCpuType DEF LoopEnds, StructInv
  <2>2. CASE ~woke
    BY <2>2 DEF LoopEnds, StructInv, TypeInv, TypeOK, SchedTypeOK
  <2> QED
    BY <2>1, <2>2
<1>2. TypeInv'
  BY <1>1 DEF LoopEnds, StructInv, TypeInv, TypeOK, SchedTypeOK, BitmapSound, ExitRunning, CpuLock
<1>3. /\ ReadyQueueExact' /\ WaitLinked' /\ ParkTokenConsumed' /\ OneRunning'
      /\ ExitRuns' /\ BootIdle'
  BY DEF LoopEnds, StructInv, ReadyQueueExact, WaitLinked, ParkTokenConsumed, ThreadInv,
         OneRunning, ExitRuns, BootIdle
<1>4. \/ pc' = pc
      \/ c \in Tasks /\ ~priority_boost' /\ pc' = [pc EXCEPT ![c] = "yield"]
  BY DEF LoopEnds, UnlockCpuAndCheckPreemption, Context
<1>5. ASSUME pc' = pc PROVE StructInv'
  <2>1. StackFrame' /\ ThreadRuns' /\ Inactive' /\ BoostRuns'
    BY <1>5 DEF LoopEnds, StructInv, StackFrame, ThreadInv, ThreadRuns, Inactive, BoostRuns
  <2> QED
    BY <1>2, <1>3, <2>1 DEF StructInv, ThreadInv
<1>6. ASSUME c \in Tasks, ~priority_boost', pc' = [pc EXCEPT ![c] = "yield"]
      PROVE  StructInv'
  <2>1. running_task = c /\ pc[c] = "run" /\ c # None
    BY <1>0, <1>6 DEF CallsLoop
  <2>2. st[c] = "Running"
    BY <2>1 DEF StructInv, ThreadInv, ThreadRuns
  <2>3. StackFrame'
    BY <1>0, <1>6, <2>1 DEF LoopEnds, StructInv, StackFrame
  <2>4. ThreadRuns' /\ Inactive' /\ BoostRuns'
    BY <1>0, <1>6, <2>1, <2>2
       DEF LoopEnds, StructInv, ThreadInv, ThreadRuns, Inactive, BoostRuns
  <2> QED
    BY <1>2, <1>3, <2>3, <2>4 DEF StructInv, ThreadInv
<1>7. StructInv'
  BY <1>4, <1>5, <1>6
<1>8. CASE woke
  <2>1. c \in Tasks => running_task' = c
    BY <1>0 DEF CallsLoop, LoopEnds
  <2>2. c = Isr => interrupt' # "none"
    BY DEF CallsLoop, LoopEnds
  <2> QED
    BY <1>0, <1>7, <1>8, <2>1, <2>2, CheckUndisputed DEF LoopEnds
<1>9. CASE ~woke
  <2>1. Undisputed' = Undisputed
    BY DEF LoopEnds, Undisputed
  <2> QED
    BY <1>7, <1>9, <2>1 DEF LoopEnds, NoLostPreemption, DispatchAssured
<1> QED
  BY <1>8, <1>9, <1>7

\* Of the waits, a step of the kernel itself ends one at most, or begins one
\* for a mutex, by park or by sleep; a wait for another object that is over
\* successfully was so before.
LEMMA KernelWaits ==
  ASSUME StructInv, [Next]_vars
  PROVE  /\ \/ UNCHANGED current_wait
            \/ \E t \in Tasks : current_wait' = [current_wait EXCEPT ![t] = None]
            \/ \E t \in Tasks, o \in WaitTarget \ (Objects \ Mutexes) :
                 current_wait[t] = None /\ current_wait' = [current_wait EXCEPT ![t] = o]
         /\ \A t \in Tasks :
              /\ frame'[t] # None /\ current_wait'[t] = None
              /\ frame'[t].on \in Objects \ Mutexes /\ wait_result'[t] = "Ok"
              => WaitCompleted(t) /\ frame'[t] = frame[t] /\ wait_result[t] = "Ok"
<1> DEFINE Goal ==
      /\ \/ UNCHANGED current_wait
         \/ \E t \in Tasks : current_wait' = [current_wait EXCEPT ![t] = None]
         \/ \E t \in Tasks, o \in WaitTarget \ (Objects \ Mutexes) :
              current_wait[t] = None /\ current_wait' = [current_wait EXCEPT ![t] = o]
      /\ \A t \in Tasks :
           /\ frame'[t] # None /\ current_wait'[t] = None
           /\ frame'[t].on \in Objects \ Mutexes /\ wait_result'[t] = "Ok"
           => WaitCompleted(t) /\ frame'[t] = frame[t] /\ wait_result[t] = "Ok"
<1> SUFFICES Goal
  OBVIOUS
<1>0. /\ current_wait \in [Tasks -> WaitTarget \cup {None}]
      /\ frame \in [Tasks -> Frame \cup {None}]
      /\ wait_result \in [Tasks -> WaitResult]
      /\ \A t \in Tasks : current_wait[t] # None => frame[t].on = current_wait[t]
      /\ None \notin WaitTarget /\ "Park" \notin Objects /\ None \notin Tasks
  BY NoneAssumption, ObjectsAssumption
     DEF StructInv, TypeInv, TypeOK, SchedTypeOK, StackFrame, WaitTarget
<1>1. ASSUME UNCHANGED <<current_wait, wait_result, frame>> PROVE Goal
  BY <1>1 DEF WaitCompleted
<1>2. CASE Elsewhere
  BY <1>1, <1>2 DEF Elsewhere, waitVars, stackVars
<1>3. ASSUME NEW t \in Tasks, NEW o \in WaitTarget, NEW timed \in BOOLEAN, Blocks(t, o, timed)
      PROVE  Goal
  <2>1. /\ current_wait' = [current_wait EXCEPT ![t] = o] /\ UNCHANGED wait_result
        /\ \A u \in Tasks : u # t => frame'[u] = frame[u]
        /\ o \in WaitTarget \ (Objects \ Mutexes)
    BY <1>0, <1>3 DEF Blocks, BeginWait
  <2>2. current_wait[t] = None
    <3>1. st[t] = "Running"
      BY <1>3, CallerRunning DEF Blocks, WaitableContext, TaskContext, StructInv
    <3> QED
      BY <3>1 DEF StructInv, WaitLinked
  <2> QED
    BY <1>0, <2>1, <2>2 DEF WaitCompleted
<1>4. ASSUME NEW t \in Tasks, FinishWait(t) PROVE Goal
  <2>1. frame' = [frame EXCEPT ![t] = None] /\ UNCHANGED <<current_wait, wait_result>>
    BY <1>4 DEF FinishWait, waitVars
  <2> QED
    BY <1>0, <2>1 DEF WaitCompleted
<1>5. ASSUME NEW t \in Tasks, NEW result \in WaitResult, Wakes(t, result) PROVE Goal
  <2>1. /\ current_wait' = [current_wait EXCEPT ![t] = None]
        /\ wait_result' = [wait_result EXCEPT ![t] = result]
        /\ result = "Ok" => current_wait[t] = "Park"
        /\ UNCHANGED frame
    BY <1>5 DEF Wakes, InterruptTask, CompleteWait
  <2> QED
    BY <1>0, <2>1, NoneAssumption DEF WaitCompleted
<1>6. ASSUME NEW t \in Tasks, Expires(t) PROVE Goal
  BY <1>1, <1>6 DEF Expires, waitVars
<1>7. ASSUME NEW t \in Tasks, NEW m \in Mutexes, TryLockMutex(t, m) PROVE Goal
  BY <1>1, <1>7 DEF TryLockMutex, waitVars, stackVars
<1>8. ASSUME NEW t \in Tasks, NEW m \in Mutexes, NEW e \in [Tasks -> Prio], Releases(t, m, e)
      PROVE  Goal
  <2>1. UNCHANGED frame
    BY <1>8 DEF Releases, stackVars
  <2>2. CASE Freed(t, m, e)
    BY <1>1, <2>1, <2>2 DEF Freed, waitVars
  <2>3. ASSUME NEW n \in Tasks, ReleasedTo(t, m, e, n) PROVE Goal
    <3>1. /\ current_wait[n] = m /\ m # None
          /\ current_wait' = [current_wait EXCEPT ![n] = None]
          /\ wait_result' = [wait_result EXCEPT ![n] = "Ok"]
      BY <2>3, NoneAssumption, MutexAssumption DEF ReleasedTo
    <3> QED
      BY <1>0, <2>1, <3>1 DEF WaitCompleted
  <2> QED
    BY <1>8, <2>2, <2>3, ReleaseEffect
<1>9. ASSUME NEW t \in Tasks, NEW c \in Context,
             Activate(c, t) \/ \E p \in Prio : SetTaskBasePriority(c, t, p)
      PROVE  Goal
  BY <1>1, <1>9 DEF Activate, SetTaskBasePriority, waitVars, stackVars
<1>10. StepKind
  BY StepKinds
<1> HIDE DEF Goal
<1> QED
  BY <1>2, <1>3, <1>4, <1>5, <1>6, <1>7, <1>8, <1>9, <1>10 DEF StepKind

\* The waiters of an object, and whether there are any.
WaitersExact ==
  \A o \in Objects :
    /\ ToSet(wait_queue[o]) = {t \in Tasks : current_wait[t] = o}
    /\ wait_queue[o] = <<>> <=> \A t \in Tasks : current_wait[t] # o

\* They are the tasks that are Waiting for it.
LEMMA Waiters == StructInv => WaitersExact
<1> SUFFICES ASSUME StructInv, NEW o \in Objects
             PROVE  /\ ToSet(wait_queue[o]) = {t \in Tasks : current_wait[t] = o}
                    /\ wait_queue[o] = <<>> <=> \A t \in Tasks : current_wait[t] # o
  BY DEF WaitersExact
<1>1. wait_queue[o] \in Seq(Tasks)
  BY DEF StructInv, TypeInv, TypeOK, SchedTypeOK
<1>2. ToSet(wait_queue[o]) \subseteq Tasks
  BY <1>1, ElementPositions
<1>3. ToSet(wait_queue[o]) = {t \in Tasks : current_wait[t] = o}
  BY <1>2 DEF StructInv, WaitLinked
<1>4. wait_queue[o] = <<>> <=> ToSet(wait_queue[o]) = {}
  <2>1. wait_queue[o] = <<>> => ToSet(wait_queue[o]) = {}
    BY DEF ToSet
  <2>2. wait_queue[o] # <<>> => Head(wait_queue[o]) \in ToSet(wait_queue[o])
    BY <1>1, TailElements
  <2> QED
    BY <2>1, <2>2
<1> QED
  BY <1>3, <1>4

-----------------------------------------------------------------------------
(* Semaphores *)

\* The permits that signal still has to give away fit into the semaphore.
SemInv ==
  /\ value \in [Semaphores -> Nat]
  /\ signalling \in Signalling \cup {None}
  /\ LoopInv(signalling)
  /\ signalling # None =>
       value[signalling.sem] + signalling.count <= MaxValue[signalling.sem]
  /\ NoIdlePermit

\* A service that leaves the kernel alone leaves its invariants alone.
LEMMA IdleSafe ==
  ASSUME StructInv, NoLostPreemption, UNCHANGED vars
  PROVE  StructInv' /\ NoLostPreemption'
BY StructStep, PreemptionStep

\* An iteration of signal wakes up the first waiter.
LEMMA SignalWakes ==
  ASSUME StructInv, SemInv, SignalWakeUpOne
  PROVE  LET s == signalling.sem
             t == Head(wait_queue[s])
         IN  /\ t \in Tasks /\ s \in Semaphores /\ LoopWakes(t, s)
             /\ wait_queue' = [wait_queue EXCEPT ![s] = Tail(wait_queue[s])]
             /\ current_wait' = [current_wait EXCEPT ![t] = None]
<1> DEFINE s == signalling.sem
           q == wait_queue[s]
           t == Head(q)
<1>1. signalling \in Signalling /\ cpu_lock = "service" /\ s \in Semaphores /\ s \in Objects
  BY SemaphoreAssumption DEF SemInv, SignalWakeUpOne, LoopInv, Signalling
<1>2. /\ wait_queue \in [Objects -> Seq(Tasks)] /\ q \in Seq(Tasks) /\ q # <<>>
      /\ IsInjective(q)
  BY <1>1 DEF StructInv, TypeInv, TypeOK, SchedTypeOK, SignalWakeUpOne, WaitLinked
<1>3. /\ t \in Tasks /\ Tail(q) \in Seq(Tasks) /\ t \in ToSet(q)
      /\ IsInjective(Tail(q)) /\ ToSet(Tail(q)) = ToSet(q) \ {t}
  BY <1>2, HeadTailProperties, TailElements
<1>4. /\ wait_queue' = [wait_queue EXCEPT ![s] = Tail(q)]
      /\ CompleteWait(t, "Ok")
  BY DEF SignalWakeUpOne, WakeUpOne
<1>5. current_wait[t] = s /\ st[t] = "Waiting"
  BY <1>1, <1>3, NoneAssumption DEF StructInv, WaitLinked
<1>6. ASSUME NEW x \in Objects, x # s PROVE ToSet(wait_queue[x]) = ToSet(wait_queue[x]) \ {t}
  BY <1>3, <1>5, <1>6 DEF StructInv, WaitLinked
<1>7. /\ wait_queue' \in [Objects -> Seq(Tasks)]
      /\ \A x \in Objects : IsInjective(wait_queue'[x])
      /\ \A x \in Objects : ToSet(wait_queue'[x]) = ToSet(wait_queue[x]) \ {t}
  <2> HIDE DEF q, t
  <2>1. wait_queue' \in [Objects -> Seq(Tasks)]
    BY <1>1, <1>2, <1>3, <1>4
  <2>2. ASSUME NEW x \in Objects
        PROVE  IsInjective(wait_queue'[x]) /\ ToSet(wait_queue'[x]) = ToSet(wait_queue[x]) \ {t}
    <3>1. CASE x = s
      BY <1>1, <1>2, <1>3, <1>4, <3>1 DEF q
    <3>2. CASE x # s
      BY <1>2, <1>4, <1>6, <3>2 DEF StructInv, WaitLinked
    <3> QED
      BY <3>1, <3>2
  <2> QED
    BY <2>1, <2>2
<1>8. UNCHANGED <<running_task, prioVars, park_token, stackVars, pc, cpuVars,
                  yield_pending, mutexVars>>
  BY DEF SignalWakeUpOne
<1>9. current_wait' = [current_wait EXCEPT ![t] = None]
  BY <1>4 DEF CompleteWait
<1> QED
  BY <1>1, <1>3, <1>4, <1>5, <1>7, <1>8, <1>9 DEF LoopWakes

\* Every step preserves the invariant of the semaphores, and theirs preserve
\* that of the kernel.
LEMMA SemStep ==
  StructInv /\ NoLostPreemption /\ SemInv /\ [SemNext]_semAllVars
    => StructInv' /\ NoLostPreemption' /\ SemInv'
<1> SUFFICES ASSUME StructInv, NoLostPreemption, SemInv, [SemNext]_semAllVars
             PROVE  StructInv' /\ NoLostPreemption' /\ SemInv'
  OBVIOUS
<1>0. /\ value \in [Semaphores -> Nat] /\ Semaphores \subseteq Objects \ Mutexes
      /\ MaxValue \in [Semaphores -> Nat] /\ SignalCounts \subseteq Nat \ {0}
      /\ \A s \in Semaphores : value[s] > 0 => wait_queue[s] = <<>>
      /\ \A s \in Semaphores : value[s] <= MaxValue[s]
      /\ None \notin Signalling
  BY SemaphoreAssumption, SignallingAssumption DEF SemInv, NoIdlePermit
<1>1. ASSUME UNCHANGED vars, signalling' = None, cpu_lock # "service",
             value' \in [Semaphores -> Nat],
             \A s \in Semaphores : value'[s] <= value[s]
      PROVE  StructInv' /\ NoLostPreemption' /\ SemInv'
  <2>1. StructInv' /\ NoLostPreemption'
    BY <1>1, IdleSafe
  <2>2. UNCHANGED <<cpu_lock, wait_queue>>
    BY <1>1 DEF vars, schedVars
  <2>3. LoopInv(signalling)'
    BY <1>1, <2>2 DEF LoopInv
  <2>4. ASSUME NEW s \in Semaphores
        PROVE  (value'[s] > 0 => wait_queue'[s] = <<>>) /\ value'[s] <= MaxValue[s]
    BY <1>0, <1>1, <2>2, <2>4
  <2> QED
    BY <1>1, <2>1, <2>3, <2>4 DEF SemInv, NoIdlePermit
<1>2. ASSUME [Next]_vars, UNCHANGED semVars PROVE StructInv' /\ NoLostPreemption' /\ SemInv'
  <2>1. StructInv' /\ NoLostPreemption'
    BY <1>2, StructStep, PreemptionStep
  <2>2. CASE UNCHANGED vars
    <3>1. LoopInv(signalling)'
      BY <1>2, <2>2 DEF SemInv, LoopInv, semVars, CallsLoop, DispatchAssured, Undisputed, vars, schedVars
    <3>2. UNCHANGED wait_queue
      BY <2>2 DEF vars, schedVars
    <3> QED
      BY <1>2, <2>1, <3>1, <3>2 DEF SemInv, NoIdlePermit, semVars
  <2>3. CASE Next
    <3>1. cpu_lock # "service" /\ signalling = None
      <4> SUFFICES ASSUME signalling # None PROVE FALSE
        BY DEF SemInv, LoopInv
      <4>1. cpu_lock = "service" /\ interrupt # "tick"
        BY DEF SemInv, LoopInv, CallsLoop
      <4> QED
        BY <2>3, <4>1, LoopAtomic
    <3>2. LoopInv(signalling)'
      BY <1>2, <3>1, LoopForeign DEF LoopInv, semVars
    <3>3. ASSUME NEW s \in Semaphores, wait_queue[s] = <<>> PROVE wait_queue'[s] = <<>>
      <4>1. \A t \in Tasks : current_wait[t] # s
        BY <1>0, <3>3, Waiters DEF WaitersExact
      <4>2. current_wait \in [Tasks -> WaitTarget \cup {None}] /\ None # s
        BY <1>0, NoneAssumption DEF StructInv, TypeInv, TypeOK, SchedTypeOK
      <4>3. \A t \in Tasks : current_wait'[t] # s
        BY <1>0, <1>2, <4>1, <4>2, KernelWaits
      <4> QED
        <5>1. WaitersExact'
          BY <2>1, Waiters, PTL
        <5> QED
          BY <1>0, <4>3, <5>1 DEF WaitersExact
    <3> QED
      BY <1>2, <2>1, <3>1, <3>2, <3>3 DEF SemInv, NoIdlePermit, semVars
  <2> QED
    BY <1>2, <2>2, <2>3
<1>3. ASSUME NEW c \in Context, NEW s \in Semaphores, PollOne(c, s) \/ Drain(c, s)
      PROVE  StructInv' /\ NoLostPreemption' /\ SemInv'
  <2>1. cpu_lock # "service" /\ signalling = None
    BY <1>3 DEF PollOne, Drain, InContext, SemInv, LoopInv
  <2>2. UNCHANGED <<vars, signalling>>
    BY <1>3 DEF PollOne, Drain
  <2>3. /\ value' \in [Semaphores -> Nat]
        /\ \A x \in Semaphores : value'[x] <= value[x]
    <3>1. CASE PollOne(c, s)
      BY <1>0, <3>1 DEF PollOne
    <3>2. CASE Drain(c, s)
      BY <1>0, <3>2 DEF Drain
    <3> QED
      BY <1>3, <3>1, <3>2
  <2> QED
    BY <1>1, <2>1, <2>2, <2>3
<1>4. ASSUME NEW t \in Tasks, NEW s \in Semaphores, NEW timed \in BOOLEAN, WaitOne(t, s, timed)
      PROVE  StructInv' /\ NoLostPreemption' /\ SemInv'
  <2>1. StructInv' /\ NoLostPreemption'
    BY <1>0, <1>4, BlockSafe DEF WaitOne
  <2>2. /\ cpu_lock # "service" /\ signalling = None
        /\ UNCHANGED <<cpu_lock, value, signalling>> /\ value[s] = 0
    BY <1>4 DEF WaitOne, WaitableContext, TaskContext, InContext, SemInv, LoopInv, cpuVars, semVars
  <2>3. LoopInv(signalling)'
    BY <2>2 DEF LoopInv
  <2>4. \A x \in Semaphores : x # s => wait_queue'[x] = wait_queue[x]
    BY <1>0, <1>4 DEF WaitOne, BeginWait, StructInv, TypeInv, TypeOK, SchedTypeOK
  <2>5. ASSUME NEW x \in Semaphores
        PROVE  (value'[x] > 0 => wait_queue'[x] = <<>>) /\ value'[x] <= MaxValue[x]
    BY <1>0, <2>2, <2>4
  <2> QED
    BY <1>0, <2>1, <2>2, <2>3, <2>5 DEF SemInv, NoIdlePermit
<1>5. ASSUME NEW c \in Context, NEW s \in Semaphores, NEW n \in SignalCounts, Signal(c, s, n)
      PROVE  StructInv' /\ NoLostPreemption' /\ SemInv'
  <2>1. LoopBegins(c) /\ UNCHANGED <<value, wait_queue>>
    BY <1>5 DEF Signal, LoopBegins, waitVars
  <2>2. /\ StructInv' /\ NoLostPreemption' /\ CallsLoop(c)'
        /\ ~priority_boost' /\ interrupt' \in {"none", "handler"} => DispatchAssured'
    BY <2>1, LoopBeginsSafe
  <2>3. /\ signalling' = [sem |-> s, count |-> n, woke |-> FALSE, by |-> c]
        /\ n <= MaxValue[s] - value[s] /\ cpu_lock' = "service"
    BY <1>5 DEF Signal
  <2>4. signalling' \in Signalling /\ signalling' # None
    <3>1. [sem |-> s, count |-> n, woke |-> FALSE, by |-> c] \in Signalling
      BY <1>0 DEF Signalling
    <3> QED
      BY <1>0, <2>3, <3>1
  <2>5. LoopInv(signalling)'
    <3>1. signalling'.by = c /\ signalling'.woke = FALSE
      BY <2>3
    <3> QED
      BY <2>2, <2>3, <2>4, <3>1 DEF LoopInv, CallsLoop
  <2>6. value[s] + n <= MaxValue[s]
    BY <1>0, <2>3
  <2> QED
    BY <1>0, <2>1, <2>2, <2>3, <2>4, <2>5, <2>6 DEF SemInv, NoIdlePermit
<1>6. ASSUME SignalWakeUpOne PROVE StructInv' /\ NoLostPreemption' /\ SemInv'
  <2> DEFINE s == signalling.sem
             t == Head(wait_queue[s])
  <2>1. /\ t \in Tasks /\ s \in Semaphores /\ LoopWakes(t, s)
        /\ wait_queue' = [wait_queue EXCEPT ![s] = Tail(wait_queue[s])]
    BY <1>6, SignalWakes
  <2>2. /\ signalling \in Signalling /\ signalling.count > 0 /\ wait_queue[s] # <<>>
        /\ signalling' = [signalling EXCEPT !.count = @ - 1, !.woke = TRUE]
        /\ UNCHANGED <<value, cpuVars>> /\ cpu_lock = "service"
    BY <1>6 DEF SignalWakeUpOne, SemInv, LoopInv
  <2>3. StructInv' /\ NoLostPreemption' /\ \A c : CallsLoop(c)' <=> CallsLoop(c)
    BY <1>0, <2>1, LoopWakesSafe
  <2> HIDE DEF t
  <2>4. /\ signalling' \in Signalling /\ signalling' # None
        /\ signalling'.by = signalling.by /\ signalling'.woke = TRUE
        /\ signalling'.count = signalling.count - 1 /\ signalling'.sem = s
    <3>1. signalling.count - 1 \in Nat
      BY <2>2 DEF Signalling
    <3>2. signalling' \in Signalling
      BY <2>2, <3>1 DEF Signalling
    <3>3. /\ signalling'.by = signalling.by /\ signalling'.woke = TRUE
          /\ signalling'.count = signalling.count - 1 /\ signalling'.sem = s
      BY <2>2 DEF Signalling
    <3> QED
      BY <1>0, <3>2, <3>3
  <2>5. LoopInv(signalling)'
    <3>1. PICK c : c = signalling.by
      OBVIOUS
    <3>2. CallsLoop(c)'
      BY <1>0, <2>2, <2>3, <3>1 DEF SemInv, LoopInv
    <3> QED
      BY <2>2, <2>4, <3>1, <3>2 DEF LoopInv, cpuVars, CallsLoop
  <2>6. value[s] = 0
    BY <1>0, <2>1, <2>2
  <2>7. \A x \in Semaphores : x # s => wait_queue'[x] = wait_queue[x]
    BY <1>0, <2>1 DEF StructInv, TypeInv, TypeOK, SchedTypeOK
  <2>8. ASSUME NEW x \in Semaphores
        PROVE  (value'[x] > 0 => wait_queue'[x] = <<>>) /\ value'[x] <= MaxValue[x]
    BY <1>0, <2>2, <2>6, <2>7
  <2>9. value'[s] + (signalling.count - 1) <= MaxValue[s]
    <3>1. value[s] + signalling.count <= MaxValue[s] /\ signalling.count \in Nat
      BY <1>0, <2>2 DEF SemInv, Signalling
    <3> QED
      BY <1>0, <2>1, <2>2, <3>1
  <2> QED
    BY <1>0, <2>2, <2>3, <2>4, <2>5, <2>8, <2>9 DEF SemInv, NoIdlePermit
<1>7. ASSUME SignalEnd PROVE StructInv' /\ NoLostPreemption' /\ SemInv'
  <2> DEFINE s == signalling.sem
  <2>1. /\ signalling \in Signalling /\ s \in Semaphores /\ signalling.count \in Nat
        /\ signalling.by \in Context /\ signalling.woke \in BOOLEAN
        /\ CallsLoop(signalling.by) /\ cpu_lock = "service"
    BY <1>0, <1>7 DEF SignalEnd, SemInv, LoopInv, Signalling
  <2>2. /\ signalling.count = 0 \/ wait_queue[s] = <<>>
        /\ value' = [value EXCEPT ![s] = value[s] + signalling.count]
        /\ signalling' = None /\ cpu_lock' = "free" /\ UNCHANGED wait_queue
    BY <1>7 DEF SignalEnd, waitVars
  <2>3. LoopEnds(signalling.by, signalling.woke)
    BY <1>7, <2>1 DEF SignalEnd, LoopEnds
  <2>4. StructInv' /\ NoLostPreemption'
    BY <2>1, <2>3, LoopEndsSafe, <1>0 DEF SemInv, LoopInv
  <2>5. LoopInv(signalling)'
    BY <2>2 DEF LoopInv
  <2>6. value[s] + signalling.count <= MaxValue[s]
    BY <1>0, <2>1 DEF SemInv
  <2> HIDE DEF s
  <2>7. value' \in [Semaphores -> Nat]
    BY <1>0, <2>1, <2>2
  <2>8. ASSUME NEW x \in Semaphores
        PROVE  (value'[x] > 0 => wait_queue'[x] = <<>>) /\ value'[x] <= MaxValue[x]
    <3>1. CASE x = s
      BY <1>0, <2>1, <2>2, <2>6, <3>1
    <3>2. CASE x # s
      BY <1>0, <2>2, <3>2
    <3> QED
      BY <3>1, <3>2
  <2> QED
    BY <2>2, <2>4, <2>5, <2>7, <2>8 DEF SemInv, NoIdlePermit
<1>8. Timed \subseteq BOOLEAN
  BY DEF Timed
<1>9. ASSUME UNCHANGED semAllVars PROVE [Next]_vars /\ UNCHANGED semVars
  BY <1>9 DEF semAllVars
<1> QED
  BY <1>2, <1>3, <1>4, <1>5, <1>6, <1>7, <1>8, <1>9 DEF SemNext, SemaphoreService

\* The statics satisfy it.
LEMMA SemInitInv == SemInit => StructInv /\ NoLostPreemption /\ SemInv
<1> SUFFICES ASSUME SemInit PROVE StructInv /\ NoLostPreemption /\ SemInv
  OBVIOUS
<1>1. StructInv /\ cpu_lock = "boot" /\ wait_queue = [o \in Objects |-> <<>>]
  BY InitStruct DEF SemInit, Init, SchedInit
<1>2. value = InitValue /\ signalling = None
  BY DEF SemInit
<1>3. LoopInv(signalling)
  BY <1>1, <1>2 DEF LoopInv
<1> QED
  BY <1>1, <1>2, <1>3, SemaphoreAssumption DEF SemInv, NoIdlePermit, NoLostPreemption

\* No permit is withheld and none exceeds the maximum, for any number of
\* semaphores and tasks and in whatever order signals, waits, timeouts,
\* interruptions and drains follow each other.
THEOREM NoIdlePermitCorrect == SemSpec => []NoIdlePermit
<1>1. SemInv => NoIdlePermit
  BY DEF SemInv
<1> QED
  BY <1>1, SemInitInv, SemStep, PTL DEF SemSpec

\* The structure of the kernel is intact and no preemption is lost in a system
\* that uses semaphores: signal checks for it after its loop.
THEOREM SemaphoresSafe == SemSpec => [](StructInv /\ NoLostPreemption)
BY SemInitInv, SemStep, PTL DEF SemSpec

-----------------------------------------------------------------------------
(* Event groups *)

\* The waiters of the group e are not satisfied by b up to position n.
PassedOver(e, b, n) ==
  \A i \in 1 .. n : ~Satisfies(b, payload[wait_queue[e][i]])

GroupInv ==
  /\ bits \in [EventGroups -> SUBSET Bits]
  /\ payload \in [Tasks -> Condition \cup {None}]
  /\ orig_bits \in [Tasks -> SUBSET Bits]
  /\ setting \in Setting \cup {None}
  /\ LoopInv(setting)
  /\ setting # None =>
       /\ setting.next \in 1 .. Len(wait_queue[setting.group]) + 1
       /\ PassedOver(setting.group, setting.bits, setting.next - 1)
  /\ NoSatisfiedWaiter
  /\ WokenBySatisfyingBits

\* Bits that satisfy a condition satisfy it together with others.
LEMMA SatisfiesMonotone ==
  ASSUME NEW b, NEW c, NEW cond, b \subseteq c, Satisfies(b, cond) PROVE Satisfies(c, cond)
BY DEF Satisfies

\* What is left of the bits after a wait is part of them.
LEMMA RemainingPart ==
  ASSUME NEW b, NEW cond PROVE Remaining(b, cond) \subseteq b
BY DEF Remaining

\* The tasks that wait for the group e are not satisfied by the bits b.
Unsatisfied(e, b) ==
  \A t \in Tasks : current_wait[t] = e => ~Satisfies(b, payload[t])

GroupWaiters ==
  \A e \in EventGroups : setting = None \/ setting.group # e => Unsatisfied(e, bits[e])

\* NoSatisfiedWaiter speaks of positions in queues, this of waiting tasks.
LEMMA SatisfiedWaiters == StructInv => (NoSatisfiedWaiter <=> GroupWaiters)
<1> SUFFICES ASSUME StructInv, NEW e \in EventGroups
             PROVE  (\A i \in DOMAIN wait_queue[e] : ~Satisfies(bits[e], payload[wait_queue[e][i]]))
                      <=> Unsatisfied(e, bits[e])
  BY DEF NoSatisfiedWaiter, GroupWaiters
<1>1. e \in Objects /\ wait_queue[e] \in Seq(Tasks)
  BY EventGroupAssumption DEF StructInv, TypeInv, TypeOK, SchedTypeOK
<1>2. \A t \in Tasks : current_wait[t] = e <=> t \in ToSet(wait_queue[e])
  BY <1>1, Waiters DEF WaitersExact
<1>3. /\ DOMAIN wait_queue[e] = 1 .. Len(wait_queue[e])
      /\ \A i \in DOMAIN wait_queue[e] : wait_queue[e][i] \in Tasks
      /\ \A y : y \in ToSet(wait_queue[e]) <=> \E i \in DOMAIN wait_queue[e] : wait_queue[e][i] = y
  BY <1>1, ElementPositions
<1> QED
  BY <1>2, <1>3 DEF Unsatisfied

\* An iteration of wake_up_all_conditional that wakes up the waiter it looks at.
LEMMA SetWakes ==
  ASSUME StructInv, GroupInv, SetWakeUp
  PROVE  /\ setting.group \in EventGroups /\ Candidate \in Tasks
         /\ setting.next \in DOMAIN wait_queue[setting.group]
         /\ LoopWakes(Candidate, setting.group)
<1> DEFINE e == setting.group
           q == wait_queue[e]
           k == setting.next
           r == RemoveAt(q, k)
           t == Candidate
<1>1. setting \in Setting /\ cpu_lock = "service" /\ e \in EventGroups /\ e \in Objects
  BY EventGroupAssumption DEF GroupInv, SetWakeUp, LoopInv, Setting
<1>2. /\ wait_queue \in [Objects -> Seq(Tasks)] /\ q \in Seq(Tasks) /\ IsInjective(q)
  BY <1>1 DEF StructInv, TypeInv, TypeOK, SchedTypeOK, WaitLinked
<1>3. k \in 1 .. Len(q)
  <2>1. k \in 1 .. Len(q) + 1 /\ k <= Len(q)
    BY <1>1 DEF GroupInv, SetWakeUp
  <2>2. Len(q) \in Nat
    BY <1>2
  <2> HIDE DEF q, k
  <2> QED
    BY <2>1, <2>2
<1>4. k \in DOMAIN q
  BY <1>2, <1>3
<1>5. t = q[k] /\ t \in Tasks /\ t \in ToSet(q)
  BY <1>2, <1>3, ElementPositions DEF Candidate
<1>6. r \in Seq(Tasks) /\ ToSet(r) = ToSet(q) \ {t} /\ IsInjective(r)
  BY <1>2, <1>4, <1>5, RemoveAtElements, RemoveAtPositions
<1>7. wait_queue' = [wait_queue EXCEPT ![e] = r] /\ CompleteWait(t, "Ok")
  BY DEF SetWakeUp
<1>8. current_wait[t] = e /\ st[t] = "Waiting"
  BY <1>1, <1>5, NoneAssumption DEF StructInv, WaitLinked
<1>9. ASSUME NEW x \in Objects, x # e PROVE ToSet(wait_queue[x]) = ToSet(wait_queue[x]) \ {t}
  BY <1>5, <1>8, <1>9 DEF StructInv, WaitLinked
<1>10. /\ wait_queue' \in [Objects -> Seq(Tasks)]
       /\ \A x \in Objects : IsInjective(wait_queue'[x])
       /\ \A x \in Objects : ToSet(wait_queue'[x]) = ToSet(wait_queue[x]) \ {t}
  <2> HIDE DEF q, t, r
  <2>1. wait_queue' \in [Objects -> Seq(Tasks)]
    BY <1>1, <1>2, <1>6, <1>7
  <2>2. ASSUME NEW x \in Objects
        PROVE  IsInjective(wait_queue'[x]) /\ ToSet(wait_queue'[x]) = ToSet(wait_queue[x]) \ {t}
    <3>1. CASE x = e
      BY <1>1, <1>2, <1>6, <1>7, <3>1 DEF q
    <3>2. CASE x # e
      BY <1>2, <1>7, <1>9, <3>2 DEF StructInv, WaitLinked
    <3> QED
      BY <3>1, <3>2
  <2> QED
    BY <2>1, <2>2
<1>11. UNCHANGED <<running_task, prioVars, park_token, stackVars, pc, cpuVars,
                   yield_pending, mutexVars>>
  BY DEF SetWakeUp
<1> QED
  BY <1>1, <1>4, <1>5, <1>7, <1>8, <1>10, <1>11 DEF LoopWakes

\* The parts of GroupInv that concern a set under way.
GroupTypes ==
  /\ bits \in [EventGroups -> SUBSET Bits]
  /\ payload \in [Tasks -> Condition \cup {None}]
  /\ orig_bits \in [Tasks -> SUBSET Bits]
  /\ setting \in Setting \cup {None}

LoopPassed ==
  setting # None =>
    /\ setting.next \in 1 .. Len(wait_queue[setting.group]) + 1
    /\ PassedOver(setting.group, setting.bits, setting.next - 1)

\* Steps that change no wait and no payload, and only take bits away.
LEMMA GroupKept ==
  ASSUME GroupTypes, GroupWaiters, WokenBySatisfyingBits,
         UNCHANGED <<current_wait, wait_result, frame, payload, orig_bits>>
  PROVE  /\ WokenBySatisfyingBits'
         /\ (\A e \in EventGroups : bits'[e] \subseteq bits[e])
              /\ setting = None => GroupWaiters'
<1>1. WokenBySatisfyingBits'
  BY DEF WokenBySatisfyingBits, WaitCompleted
<1>2. ASSUME \A e \in EventGroups : bits'[e] \subseteq bits[e], setting = None
      PROVE  GroupWaiters'
  <2> SUFFICES ASSUME NEW e \in EventGroups, NEW t \in Tasks, current_wait'[t] = e
               PROVE  ~Satisfies(bits'[e], payload'[t])
    BY DEF GroupWaiters, Unsatisfied
  <2>1. ~Satisfies(bits[e], payload[t])
    BY <1>2 DEF GroupWaiters, Unsatisfied
  <2> QED
    BY <1>2, <2>1, SatisfiesMonotone
<1> QED
  BY <1>1, <1>2

\* The services that leave the kernel alone: poll and clear.
LEMMA PollStep ==
  ASSUME StructInv, NoLostPreemption, GroupInv, NEW c \in Context, InContext(c),
         NEW e \in EventGroups, NEW b \in SUBSET bits[e],
         bits' = [bits EXCEPT ![e] = b], UNCHANGED <<vars, payload, orig_bits, setting>>
  PROVE  StructInv' /\ NoLostPreemption' /\ GroupInv'
<1>1. StructInv' /\ NoLostPreemption'
  BY IdleSafe
<1>2. /\ cpu_lock # "service" /\ setting = None
      /\ UNCHANGED <<cpu_lock, current_wait, wait_result, frame>>
  BY DEF InContext, GroupInv, LoopInv, vars, schedVars
<1>3. bits' \in [EventGroups -> SUBSET Bits] /\ \A x \in EventGroups : bits'[x] \subseteq bits[x]
  BY DEF GroupInv
<1>4. LoopInv(setting)'
  BY <1>2 DEF LoopInv
<1>5. GroupTypes /\ GroupWaiters /\ WokenBySatisfyingBits
  BY SatisfiedWaiters DEF GroupInv, GroupTypes
<1>6. WokenBySatisfyingBits' /\ GroupWaiters'
  BY <1>2, <1>3, <1>5, GroupKept
<1>7. NoSatisfiedWaiter'
  BY <1>1, <1>6, SatisfiedWaiters, PTL
<1> QED
  BY <1>1, <1>2, <1>3, <1>4, <1>6, <1>7 DEF GroupInv

\* A step of the kernel itself.
LEMMA KernelGroupStep ==
  ASSUME StructInv, NoLostPreemption, GroupInv, [Next]_vars, UNCHANGED groupVars
  PROVE  StructInv' /\ NoLostPreemption' /\ GroupInv'
<1>1. StructInv' /\ NoLostPreemption'
  BY StructStep, PreemptionStep
<1>2. CASE UNCHANGED vars
  <2>1. LoopInv(setting)'
    BY <1>2 DEF GroupInv, LoopInv, groupVars, CallsLoop, DispatchAssured, Undisputed, vars, schedVars
  <2>2. UNCHANGED <<wait_queue, current_wait, wait_result, frame, bits, payload, orig_bits, setting>>
    BY <1>2 DEF vars, schedVars, groupVars
  <2>3. LoopPassed'
    BY <2>2 DEF GroupInv, LoopPassed, PassedOver
  <2>4. NoSatisfiedWaiter' /\ WokenBySatisfyingBits'
    BY <2>2 DEF GroupInv, NoSatisfiedWaiter, WokenBySatisfyingBits, WaitCompleted
  <2> QED
    BY <1>1, <2>1, <2>2, <2>3, <2>4 DEF GroupInv, LoopPassed
<1>3. CASE Next
  <2>1. cpu_lock # "service" /\ setting = None
    <3> SUFFICES ASSUME setting # None PROVE FALSE
      BY DEF GroupInv, LoopInv
    <3>1. cpu_lock = "service" /\ interrupt # "tick"
      BY DEF GroupInv, LoopInv, CallsLoop
    <3> QED
      BY <1>3, <3>1, LoopAtomic
  <2>2. LoopInv(setting)'
    BY <2>1, LoopForeign DEF LoopInv, groupVars
  <2>3. GroupWaiters'
    <3> SUFFICES ASSUME NEW e \in EventGroups, NEW t \in Tasks, current_wait'[t] = e
                 PROVE  ~Satisfies(bits'[e], payload'[t])
      BY DEF GroupWaiters, Unsatisfied
    <3>1. e \in Objects \ Mutexes /\ e # None
      BY EventGroupAssumption, NoneAssumption
    <3>2. current_wait \in [Tasks -> WaitTarget \cup {None}]
      BY DEF StructInv, TypeInv, TypeOK, SchedTypeOK
    <3>3. current_wait[t] = e
      BY <3>1, <3>2, KernelWaits
    <3>4. GroupWaiters
      BY SatisfiedWaiters DEF GroupInv
    <3> QED
      BY <2>1, <3>3, <3>4 DEF GroupWaiters, Unsatisfied, groupVars
  <2>4. NoSatisfiedWaiter'
    BY <1>1, <2>3, SatisfiedWaiters, PTL
  <2>5. WokenBySatisfyingBits'
    <3> SUFFICES ASSUME NEW t \in Tasks, frame'[t] # None, current_wait'[t] = None,
                        frame'[t].on \in EventGroups, wait_result'[t] = "Ok"
                 PROVE  Satisfies(orig_bits'[t], payload'[t])
      BY DEF WokenBySatisfyingBits, WaitCompleted
    <3>1. frame'[t].on \in Objects \ Mutexes
      BY EventGroupAssumption
    <3>2. WaitCompleted(t) /\ frame'[t] = frame[t] /\ wait_result[t] = "Ok"
      BY <3>1, KernelWaits
    <3> QED
      BY <3>2 DEF GroupInv, WokenBySatisfyingBits, groupVars
  <2> QED
    BY <1>1, <2>1, <2>2, <2>4, <2>5 DEF GroupInv, groupVars
<1> QED
  BY <1>2, <1>3

\* A wait for an event group begins with a condition that does not hold.
LEMMA WaitGroupStep ==
  ASSUME StructInv, NoLostPreemption, GroupInv, NEW t \in Tasks, NEW e \in EventGroups,
         NEW cond \in Conditions, NEW timed \in BOOLEAN, WaitGroup(t, e, cond, timed)
  PROVE  StructInv' /\ NoLostPreemption' /\ GroupInv'
<1>0. e \in Objects /\ cond \in Condition
  BY EventGroupAssumption
<1>1. StructInv' /\ NoLostPreemption'
  BY <1>0, BlockSafe DEF WaitGroup
<1>2. /\ cpu_lock # "service" /\ setting = None /\ UNCHANGED <<cpu_lock, bits, setting>>
      /\ payload' = [payload EXCEPT ![t] = cond]
      /\ orig_bits' = [orig_bits EXCEPT ![t] = {}]
      /\ ~Satisfies(bits[e], cond)
  BY DEF WaitGroup, WaitableContext, TaskContext, InContext, GroupInv, LoopInv, cpuVars
<1>3. /\ current_wait' = [current_wait EXCEPT ![t] = e] /\ UNCHANGED wait_result
      /\ \E f : frame' = [frame EXCEPT ![t] = f]
  BY DEF WaitGroup, BeginWait
<1>4. /\ current_wait \in [Tasks -> WaitTarget \cup {None}] /\ e # None
      /\ frame \in [Tasks -> Frame \cup {None}]
      /\ payload \in [Tasks -> Condition \cup {None}] /\ orig_bits \in [Tasks -> SUBSET Bits]
  BY <1>0, NoneAssumption DEF StructInv, TypeInv, TypeOK, SchedTypeOK, GroupInv
<1>5. LoopInv(setting)'
  BY <1>2 DEF LoopInv
<1>6. GroupWaiters'
  <2>1. GroupWaiters
    BY SatisfiedWaiters DEF GroupInv
  <2> SUFFICES ASSUME NEW x \in EventGroups, NEW u \in Tasks, current_wait'[u] = x
               PROVE  ~Satisfies(bits'[x], payload'[u])
    BY DEF GroupWaiters, Unsatisfied
  <2>2. CASE u = t
    BY <1>2, <1>3, <1>4, <2>2
  <2>3. CASE u # t
    BY <1>2, <1>3, <1>4, <2>1, <2>3 DEF GroupWaiters, Unsatisfied
  <2> QED
    BY <2>2, <2>3
<1>7. NoSatisfiedWaiter'
  BY <1>1, <1>6, SatisfiedWaiters, PTL
<1>8. WokenBySatisfyingBits'
  <2> SUFFICES ASSUME NEW u \in Tasks, frame'[u] # None, current_wait'[u] = None,
                      frame'[u].on \in EventGroups, wait_result'[u] = "Ok"
               PROVE  Satisfies(orig_bits'[u], payload'[u])
    BY DEF WokenBySatisfyingBits, WaitCompleted
  <2>1. u # t
    BY <1>3, <1>4
  <2>2. frame'[u] = frame[u] /\ current_wait'[u] = current_wait[u]
    BY <1>3, <1>4, <2>1
  <2> QED
    BY <1>2, <1>3, <1>4, <2>1, <2>2 DEF GroupInv, WokenBySatisfyingBits, WaitCompleted
<1>9. payload' \in [Tasks -> Condition \cup {None}] /\ orig_bits' \in [Tasks -> SUBSET Bits]
  BY <1>0, <1>2, <1>4
<1> QED
  BY <1>1, <1>2, <1>5, <1>7, <1>8, <1>9 DEF GroupInv

\* set begins with new bits that no waiter has seen.
LEMMA SetBeginStep ==
  ASSUME StructInv, NoLostPreemption, GroupInv, NEW c \in Context, NEW e \in EventGroups,
         NEW added \in SetArguments, SetBits(c, e, added)
  PROVE  StructInv' /\ NoLostPreemption' /\ GroupInv'
<1>1. LoopBegins(c) /\ UNCHANGED <<bits, payload, orig_bits>>
  BY DEF SetBits, LoopBegins
<1>2. /\ StructInv' /\ NoLostPreemption' /\ CallsLoop(c)'
      /\ ~priority_boost' /\ interrupt' \in {"none", "handler"} => DispatchAssured'
  BY <1>1, LoopBeginsSafe
<1>3. /\ setting' = [group |-> e, bits |-> bits[e] \cup added, next |-> 1,
                     woke |-> FALSE, by |-> c]
      /\ cpu_lock' = "service"
      /\ UNCHANGED <<wait_queue, current_wait, wait_result, frame>>
  BY DEF SetBits, waitVars, stackVars
<1>4. setting' \in Setting /\ setting' # None
  <2>1. bits[e] \cup added \in SUBSET Bits
    BY EventGroupAssumption DEF GroupInv
  <2>2. [group |-> e, bits |-> bits[e] \cup added, next |-> 1, woke |-> FALSE, by |-> c] \in Setting
    BY <2>1 DEF Setting
  <2> QED
    BY <1>3, <2>2, SettingAssumption
<1>5. setting'.by = c /\ setting'.woke = FALSE /\ setting'.next = 1 /\ setting'.group = e
  BY <1>3
<1>6. LoopInv(setting)'
  BY <1>2, <1>3, <1>4, <1>5 DEF LoopInv, CallsLoop
<1>7. LoopPassed'
  <2>1. Len(wait_queue'[e]) \in Nat
    BY <1>2, EventGroupAssumption DEF StructInv, TypeInv, TypeOK, SchedTypeOK
  <2>2. setting'.next \in 1 .. Len(wait_queue'[setting'.group]) + 1
    BY <1>5, <2>1
  <2>3. 1 .. setting'.next - 1 = {}
    BY <1>5
  <2> QED
    BY <2>2, <2>3 DEF LoopPassed, PassedOver
<1>8. cpu_lock = "free" /\ setting = None
  BY DEF SetBits, InContext, GroupInv, LoopInv
<1>9. NoSatisfiedWaiter' /\ WokenBySatisfyingBits'
  BY <1>1, <1>3, <1>8 DEF GroupInv, NoSatisfiedWaiter, WokenBySatisfyingBits, WaitCompleted
<1> QED
  BY <1>1, <1>2, <1>4, <1>6, <1>7, <1>9 DEF GroupInv, LoopPassed

\* A waiter is woken up: the waiters before it were refused more bits than there
\* are now.
LEMMA SetWakeUpStep ==
  ASSUME StructInv, NoLostPreemption, GroupInv, SetWakeUp
  PROVE  StructInv' /\ NoLostPreemption' /\ GroupInv'
<1> DEFINE e == setting.group
           t == Candidate
           k == setting.next
           q == wait_queue[e]
           left == Remaining(setting.bits, payload[t])
<1>1. e \in EventGroups /\ t \in Tasks /\ k \in DOMAIN q /\ LoopWakes(t, e)
  BY SetWakes
<1>2. StructInv' /\ NoLostPreemption' /\ \A c : CallsLoop(c)' <=> CallsLoop(c)
  BY <1>1, LoopWakesSafe, EventGroupAssumption
<1>3. /\ setting \in Setting /\ setting # None
      /\ wait_queue' = [wait_queue EXCEPT ![e] = RemoveAt(q, k)]
      /\ current_wait' = [current_wait EXCEPT ![t] = None]
      /\ wait_result' = [wait_result EXCEPT ![t] = "Ok"]
      /\ orig_bits' = [orig_bits EXCEPT ![t] = setting.bits]
      /\ setting' = [setting EXCEPT !.woke = TRUE, !.bits = left]
      /\ Satisfies(setting.bits, payload[t])
      /\ UNCHANGED <<cpuVars, frame, bits, payload>> /\ cpu_lock = "service"
  BY DEF SetWakeUp, CompleteWait, GroupInv, LoopInv, stackVars
<1>4. left \subseteq setting.bits /\ setting.bits \in SUBSET Bits
  BY <1>3, RemainingPart DEF Setting
<1> HIDE DEF t, left
<1>5. /\ setting' \in Setting /\ setting' # None
      /\ setting'.by = setting.by /\ setting'.woke = TRUE /\ setting'.bits = left
      /\ setting'.next = k /\ setting'.group = e
  <2>1. setting' \in Setting
    BY <1>3, <1>4 DEF Setting
  <2>2. /\ setting'.by = setting.by /\ setting'.woke = TRUE /\ setting'.bits = left
        /\ setting'.next = k /\ setting'.group = e
    BY <1>3 DEF Setting
  <2> QED
    BY <2>1, <2>2, SettingAssumption
<1>6. LoopInv(setting)'
  <2>1. PICK c : c = setting.by
    OBVIOUS
  <2>2. CallsLoop(c)'
    BY <1>2, <1>3, <2>1 DEF GroupInv, LoopInv
  <2> QED
    BY <1>3, <1>5, <2>1, <2>2 DEF LoopInv, cpuVars, CallsLoop
<1>7. e \in Objects /\ wait_queue \in [Objects -> Seq(Tasks)] /\ q \in Seq(Tasks)
  BY <1>1, EventGroupAssumption DEF StructInv, TypeInv, TypeOK, SchedTypeOK
<1>8. LoopPassed'
  <2>1. /\ Len(wait_queue'[e]) = Len(q) - 1
        /\ \A i \in 1 .. Len(q) - 1 : i < k => wait_queue'[e][i] = q[i]
    <3>1. wait_queue'[e] = RemoveAt(q, k)
      BY <1>3, <1>7
    <3>2. /\ Len(RemoveAt(q, k)) = Len(q) - 1
          /\ \A i \in 1 .. Len(q) - 1 : RemoveAt(q, k)[i] = IF i < k THEN q[i] ELSE q[i + 1]
      BY <1>1, <1>7, RemoveAtPositions
    <3> HIDE DEF q, k, e
    <3> QED
      BY <3>1, <3>2
  <2>2. k \in 1 .. Len(q) /\ Len(q) \in Nat
    BY <1>1, <1>7
  <2>3. \A i \in 1 .. k - 1 : ~Satisfies(setting.bits, payload[q[i]])
    BY <1>3 DEF GroupInv, PassedOver
  <2>4. setting'.next \in 1 .. Len(wait_queue'[setting'.group]) + 1
    <3> HIDE DEF q, k, e
    <3> QED
      BY <1>5, <2>1, <2>2
  <2>5. ASSUME NEW i \in 1 .. k - 1
        PROVE  ~Satisfies(left, payload'[wait_queue'[e][i]])
    <3>1. i \in 1 .. Len(q) - 1 /\ i < k
      <4> HIDE DEF q, k
      <4> QED
        BY <2>2, <2>5
    <3>2. wait_queue'[e][i] = q[i] /\ ~Satisfies(setting.bits, payload[q[i]])
      BY <2>1, <2>3, <3>1
    <3> QED
      BY <1>3, <1>4, <3>2, SatisfiesMonotone
  <2> HIDE DEF e, k, q
  <2> QED
    BY <1>5, <2>4, <2>5 DEF LoopPassed, PassedOver
<1>9. NoSatisfiedWaiter'
  <2>1. \A x \in EventGroups : x # e => wait_queue'[x] = wait_queue[x]
    BY <1>3, <1>7, EventGroupAssumption
  <2> HIDE DEF e
  <2> QED
    BY <1>3, <1>5, <2>1 DEF GroupInv, NoSatisfiedWaiter, e
<1>10. /\ current_wait \in [Tasks -> WaitTarget \cup {None}]
       /\ wait_result \in [Tasks -> WaitResult]
       /\ orig_bits \in [Tasks -> SUBSET Bits]
  BY DEF StructInv, TypeInv, TypeOK, SchedTypeOK, GroupInv
<1>11. WokenBySatisfyingBits'
  <2> SUFFICES ASSUME NEW u \in Tasks, frame'[u] # None, current_wait'[u] = None,
                      frame'[u].on \in EventGroups, wait_result'[u] = "Ok"
               PROVE  Satisfies(orig_bits'[u], payload'[u])
    BY DEF WokenBySatisfyingBits, WaitCompleted
  <2>1. CASE u = t
    BY <1>1, <1>3, <1>10, <2>1
  <2>2. CASE u # t
    BY <1>3, <1>10, <2>2 DEF GroupInv, WokenBySatisfyingBits, WaitCompleted
  <2> QED
    BY <2>1, <2>2
<1>12. orig_bits' \in [Tasks -> SUBSET Bits]
  BY <1>1, <1>3, <1>4, <1>10
<1> QED
  BY <1>2, <1>3, <1>5, <1>6, <1>8, <1>9, <1>11, <1>12 DEF GroupInv, LoopPassed

\* A waiter is passed over.
LEMMA SetSkipStep ==
  ASSUME StructInv, NoLostPreemption, GroupInv, SetSkip
  PROVE  StructInv' /\ NoLostPreemption' /\ GroupInv'
<1> DEFINE e == setting.group
           k == setting.next
           q == wait_queue[e]
<1>1. StructInv' /\ NoLostPreemption'
  BY IdleSafe DEF SetSkip
<1>2. /\ setting \in Setting /\ setting # None /\ e \in EventGroups
      /\ setting' = [setting EXCEPT !.next = k + 1]
      /\ k <= Len(q) /\ ~Satisfies(setting.bits, payload[q[k]])
      /\ UNCHANGED <<vars, bits, payload, orig_bits>>
  BY DEF SetSkip, GroupInv, Candidate, Setting
<1>3. /\ setting' \in Setting /\ setting' # None
      /\ setting'.by = setting.by /\ setting'.woke = setting.woke
      /\ setting'.bits = setting.bits /\ setting'.next = k + 1 /\ setting'.group = e
  <2>1. k + 1 \in Nat
    BY <1>2 DEF Setting
  <2>2. setting' \in Setting
    BY <1>2, <2>1 DEF Setting
  <2>3. /\ setting'.by = setting.by /\ setting'.woke = setting.woke
        /\ setting'.bits = setting.bits /\ setting'.next = k + 1 /\ setting'.group = e
    BY <1>2 DEF Setting
  <2> QED
    BY <2>2, <2>3, SettingAssumption
<1>4. UNCHANGED <<wait_queue, current_wait, wait_result, frame>>
  BY <1>2 DEF vars, schedVars
<1>5. LoopInv(setting)'
  BY <1>2, <1>3 DEF GroupInv, LoopInv, CallsLoop, DispatchAssured, Undisputed, vars, schedVars
<1>6. LoopPassed'
  <2>1. q \in Seq(Tasks)
    BY <1>2, EventGroupAssumption DEF StructInv, TypeInv, TypeOK, SchedTypeOK
  <2>2. Len(q) \in Nat /\ k \in 1 .. Len(q) + 1
    BY <1>2, <2>1 DEF GroupInv
  <2>3. \A i \in 1 .. k - 1 : ~Satisfies(setting.bits, payload[q[i]])
    BY <1>2 DEF GroupInv, PassedOver
  <2>4. \A i \in 1 .. k : ~Satisfies(setting.bits, payload[q[i]])
    <3> HIDE DEF k, q
    <3> QED
      BY <1>2, <2>2, <2>3
  <2>5. k + 1 \in 1 .. Len(q) + 1 /\ (k + 1) - 1 = k
    <3> HIDE DEF k, q
    <3> QED
      BY <1>2, <2>2
  <2> QED
    BY <1>2, <1>3, <1>4, <2>4, <2>5 DEF LoopPassed, PassedOver
<1>7. NoSatisfiedWaiter' /\ WokenBySatisfyingBits'
  BY <1>2, <1>3, <1>4 DEF GroupInv, NoSatisfiedWaiter, WokenBySatisfyingBits, WaitCompleted
<1> QED
  BY <1>1, <1>2, <1>3, <1>5, <1>6, <1>7 DEF GroupInv, LoopPassed

\* At the end every waiter that is left has been passed over.
LEMMA SetEndStep ==
  ASSUME StructInv, NoLostPreemption, GroupInv, SetEnd
  PROVE  StructInv' /\ NoLostPreemption' /\ GroupInv'
<1> DEFINE e == setting.group
           k == setting.next
           q == wait_queue[e]
<1>1. /\ setting \in Setting /\ setting # None /\ e \in EventGroups /\ setting.bits \in SUBSET Bits
      /\ setting.by \in Context /\ setting.woke \in BOOLEAN
      /\ CallsLoop(setting.by) /\ cpu_lock = "service"
  BY DEF SetEnd, GroupInv, LoopInv, Setting
<1>2. /\ k > Len(q) /\ bits' = [bits EXCEPT ![e] = setting.bits]
      /\ setting' = None /\ cpu_lock' = "free"
      /\ UNCHANGED <<wait_queue, current_wait, wait_result, frame, payload, orig_bits>>
  BY DEF SetEnd, waitVars, stackVars
<1>3. LoopEnds(setting.by, setting.woke)
  BY <1>1 DEF SetEnd, LoopEnds
<1>4. StructInv' /\ NoLostPreemption'
  BY <1>1, <1>3, LoopEndsSafe DEF GroupInv, LoopInv
<1>5. LoopInv(setting)'
  BY <1>2 DEF LoopInv
<1>6. bits \in [EventGroups -> SUBSET Bits]
  BY DEF GroupInv
<1>7. NoSatisfiedWaiter'
  <2> SUFFICES ASSUME NEW x \in EventGroups, NEW i \in DOMAIN wait_queue[x]
               PROVE  ~Satisfies(bits'[x], payload[wait_queue[x][i]])
    BY <1>2 DEF NoSatisfiedWaiter
  <2>1. CASE x = e
    <3>1. q \in Seq(Tasks)
      BY <1>1, EventGroupAssumption DEF StructInv, TypeInv, TypeOK, SchedTypeOK
    <3>2. i \in 1 .. Len(q) /\ Len(q) \in Nat
      BY <2>1, <3>1
    <3>3. k \in 1 .. Len(q) + 1 /\ \A j \in 1 .. k - 1 : ~Satisfies(setting.bits, payload[q[j]])
      BY <1>1 DEF GroupInv, PassedOver
    <3>4. i \in 1 .. k - 1
      <4> HIDE DEF k, q
      <4> QED
        BY <1>2, <3>2, <3>3
    <3> QED
      BY <1>1, <1>2, <1>6, <2>1, <3>3, <3>4
  <2>2. CASE x # e
    BY <1>1, <1>2, <1>6, <2>2 DEF GroupInv, NoSatisfiedWaiter
  <2> QED
    BY <2>1, <2>2
<1>8. WokenBySatisfyingBits'
  BY <1>2 DEF GroupInv, WokenBySatisfyingBits, WaitCompleted
<1>9. bits' \in [EventGroups -> SUBSET Bits]
  BY <1>1, <1>2, <1>6
<1> QED
  BY <1>2, <1>4, <1>5, <1>7, <1>8, <1>9 DEF GroupInv

\* Every step preserves the invariant of the event groups, and theirs preserve
\* that of the kernel.
LEMMA GroupStep ==
  StructInv /\ NoLostPreemption /\ GroupInv /\ [GroupNext]_groupAllVars
    => StructInv' /\ NoLostPreemption' /\ GroupInv'
<1> SUFFICES ASSUME StructInv, NoLostPreemption, GroupInv, [GroupNext]_groupAllVars
             PROVE  StructInv' /\ NoLostPreemption' /\ GroupInv'
  OBVIOUS
<1>1. ASSUME UNCHANGED groupAllVars PROVE [Next]_vars /\ UNCHANGED groupVars
  BY <1>1 DEF groupAllVars
<1>2. ASSUME NEW c \in Context, NEW e \in EventGroups, NEW cond \in Conditions,
             PollGroup(c, e, cond)
      PROVE  StructInv' /\ NoLostPreemption' /\ GroupInv'
  BY <1>2, PollStep, RemainingPart DEF PollGroup
<1>3. ASSUME NEW c \in Context, NEW e \in EventGroups, NEW b \in SetArguments,
             ClearBits(c, e, b)
      PROVE  StructInv' /\ NoLostPreemption' /\ GroupInv'
  BY <1>3, PollStep DEF ClearBits
<1>4. Timed \subseteq BOOLEAN
  BY DEF Timed
<1> QED
  BY <1>1, <1>2, <1>3, <1>4, KernelGroupStep, WaitGroupStep, SetBeginStep, SetWakeUpStep,
     SetSkipStep, SetEndStep DEF GroupNext, EventGroupService

\* The statics satisfy it.
LEMMA GroupInitInv == GroupInit => StructInv /\ NoLostPreemption /\ GroupInv
<1> SUFFICES ASSUME GroupInit PROVE StructInv /\ NoLostPreemption /\ GroupInv
  OBVIOUS
<1>1. /\ StructInv /\ cpu_lock = "boot" /\ wait_queue = [o \in Objects |-> <<>>]
      /\ frame = [t \in Tasks |-> None]
  BY InitStruct DEF GroupInit, Init, SchedInit
<1>2. /\ bits = [e \in EventGroups |-> {}] /\ payload = [t \in Tasks |-> None]
      /\ orig_bits = [t \in Tasks |-> {}] /\ setting = None
  BY DEF GroupInit
<1>3. LoopInv(setting)
  BY <1>1, <1>2 DEF LoopInv
<1>4. NoSatisfiedWaiter
  BY <1>1, EventGroupAssumption DEF NoSatisfiedWaiter
<1>5. WokenBySatisfyingBits
  BY <1>1 DEF WokenBySatisfyingBits, WaitCompleted
<1> QED
  BY <1>1, <1>2, <1>3, <1>4, <1>5 DEF GroupInv, NoLostPreemption

\* No waiter is overlooked: outside the loop of set no task waits for a condition
\* that the bits satisfy, for any bits, conditions and numbers of waiters.
THEOREM NoSatisfiedWaiterCorrect == GroupSpec => []NoSatisfiedWaiter
<1>1. GroupInv => NoSatisfiedWaiter
  BY DEF GroupInv
<1> QED
  BY <1>1, GroupInitInv, GroupStep, PTL DEF GroupSpec

\* A wait that succeeded returns bits that satisfied its condition.
THEOREM WokenBySatisfyingBitsCorrect == GroupSpec => []WokenBySatisfyingBits
<1>1. GroupInv => WokenBySatisfyingBits
  BY DEF GroupInv
<1> QED
  BY <1>1, GroupInitInv, GroupStep, PTL DEF GroupSpec

\* The structure of the kernel is intact and no preemption is lost in a system
\* that uses event groups: set checks for it after its loop.
THEOREM EventGroupsSafe == GroupSpec => [](StructInv /\ NoLostPreemption)
BY GroupInitInv, GroupStep, PTL DEF GroupSpec

-----------------------------------------------------------------------------
(* A semaphore implements Permits *)

\* What is left of a queue when its first n elements have been taken.
Rest(q, n) == {q[i] : i \in n + 1 .. Len(q)}

\* The first elements of a list without duplicates, and the others.
LEMMA FirstElements ==
  ASSUME NEW S, NEW q \in Seq(S), IsInjective(q), NEW n \in 0 .. Len(q)
  PROVE  LET first == {q[i] : i \in 1 .. n}
         IN  /\ first \subseteq ToSet(q) /\ Cardinality(first) = n
             /\ Rest(q, n) = ToSet(q) \ first
             /\ n = Len(q) => first = ToSet(q)
<1> DEFINE first == {q[i] : i \in 1 .. n}
           f == [i \in 1 .. n |-> q[i]]
<1>1. Len(q) \in Nat /\ DOMAIN q = 1 .. Len(q) /\ n \in Nat
  OBVIOUS
<1>2. \A i, j \in 1 .. Len(q) : q[i] = q[j] => i = j
  BY <1>1 DEF IsInjective
<1>3. \A y : y \in ToSet(q) <=> \E i \in 1 .. Len(q) : q[i] = y
  BY ElementPositions
<1>4. \A y : y \in first <=> \E i \in 1 .. n : q[i] = y
  BY Zenon
<1>5. \A i \in 1 .. n : i \in 1 .. Len(q)
  BY <1>1
<1>6. Cardinality(first) = n
  <2>1. f \in [1 .. n -> first]
    BY <1>4
  <2>2. IsInjective(f)
    BY <1>2, <1>5 DEF IsInjective
  <2>3. \A y \in first : \E i \in 1 .. n : f[i] = y
    BY <1>4
  <2>4. f \in Bijection(1 .. n, first)
    BY <2>1, <2>2, <2>3 DEF Bijection, Injection, Surjection
  <2>5. ExistsBijection(1 .. n, first)
    BY <2>4 DEF ExistsBijection
  <2> QED
    BY <1>1, <2>5, FS_CountingElements
<1>7. Rest(q, n) = ToSet(q) \ first
  <2>1. \A y : y \in Rest(q, n) <=> \E i \in n + 1 .. Len(q) : q[i] = y
    BY Zenon DEF Rest
  <2>2. ASSUME NEW y, y \in Rest(q, n) PROVE y \in ToSet(q) \ first
    <3>1. PICK i \in n + 1 .. Len(q) : q[i] = y
      BY <2>1, <2>2
    <3>2. i \in 1 .. Len(q) /\ i \notin 1 .. n
      BY <1>1
    <3> HIDE DEF first
    <3> QED
      BY <1>2, <1>3, <1>4, <1>5, <3>1, <3>2
  <2>3. ASSUME NEW y, y \in ToSet(q), y \notin first PROVE y \in Rest(q, n)
    <3>1. PICK i \in 1 .. Len(q) : q[i] = y
      BY <1>3, <2>3
    <3>2. i \notin 1 .. n
      BY <1>4, <2>3, <3>1
    <3>3. i \in n + 1 .. Len(q)
      BY <1>1, <3>2
    <3> QED
      BY <2>1, <3>1, <3>3
  <2> HIDE DEF first
  <2> QED
    BY <2>2, <2>3
<1>8. first \subseteq ToSet(q)
  BY <1>3, <1>4, <1>5
<1>9. n = Len(q) => first = ToSet(q)
  BY <1>3, <1>4
<1> QED
  BY <1>6, <1>7, <1>8, <1>9

\* Without its first element the same elements are left after one less.
LEMMA RestOfTail ==
  ASSUME NEW S, NEW q \in Seq(S), q # <<>>, NEW n \in 1 .. Len(q)
  PROVE  Rest(Tail(q), n - 1) = Rest(q, n)
<1>1. /\ Len(q) \in Nat /\ n \in Nat /\ Len(Tail(q)) = Len(q) - 1
      /\ \A i \in 1 .. Len(q) - 1 : Tail(q)[i] = q[i + 1]
  BY HeadTailProperties
<1>2. \A y : y \in Rest(q, n) <=> \E i \in n + 1 .. Len(q) : q[i] = y
  BY Zenon DEF Rest
<1>3. \A y : y \in Rest(Tail(q), n - 1) <=>
               \E i \in (n - 1) + 1 .. Len(Tail(q)) : Tail(q)[i] = y
  BY Zenon DEF Rest
<1>4. (n - 1) + 1 .. Len(Tail(q)) = n .. Len(q) - 1
  BY <1>1
<1>5. ASSUME NEW y, y \in Rest(q, n) PROVE y \in Rest(Tail(q), n - 1)
  <2>1. PICK i \in n + 1 .. Len(q) : q[i] = y
    BY <1>2, <1>5
  <2>2. i - 1 \in n .. Len(q) - 1 /\ i - 1 \in 1 .. Len(q) - 1 /\ (i - 1) + 1 = i
    BY <1>1
  <2> QED
    BY <1>1, <1>3, <1>4, <2>1, <2>2
<1>6. ASSUME NEW y, y \in Rest(Tail(q), n - 1) PROVE y \in Rest(q, n)
  <2>1. PICK i \in n .. Len(q) - 1 : Tail(q)[i] = y
    BY <1>3, <1>4, <1>6
  <2>2. i + 1 \in n + 1 .. Len(q) /\ i \in 1 .. Len(q) - 1
    BY <1>1
  <2> QED
    BY <1>1, <1>2, <2>1, <2>2
<1> QED
  BY <1>5, <1>6

\* How the refinement mapping reads a semaphore: what is not being signalled has
\* its own permits and waiters.
View ==
  \A s \in Semaphores :
    /\ Pending(s) \in Nat /\ Len(wait_queue[s]) \in Nat
    /\ Given(s) = IF Pending(s) <= Len(wait_queue[s]) THEN Pending(s) ELSE Len(wait_queue[s])
    /\ Permitted[s] = value[s] + Pending(s) - Given(s)
    /\ Blocked[s] = Rest(wait_queue[s], Given(s))
    /\ signalling = None \/ signalling.sem # s =>
         Pending(s) = 0 /\ Permitted[s] = value[s] /\ Blocked[s] = {t \in Tasks : current_wait[t] = s}

\* So it is in every state.
LEMMA ViewExact == StructInv /\ SemInv => View
<1> SUFFICES ASSUME StructInv, SemInv, NEW s \in Semaphores
             PROVE  /\ Pending(s) \in Nat /\ Len(wait_queue[s]) \in Nat
                    /\ Given(s) = IF Pending(s) <= Len(wait_queue[s]) THEN Pending(s)
                                                                       ELSE Len(wait_queue[s])
                    /\ Permitted[s] = value[s] + Pending(s) - Given(s)
                    /\ Blocked[s] = Rest(wait_queue[s], Given(s))
                    /\ signalling = None \/ signalling.sem # s =>
                         /\ Pending(s) = 0 /\ Permitted[s] = value[s]
                         /\ Blocked[s] = {t \in Tasks : current_wait[t] = s}
  BY DEF View
<1>1. s \in Objects /\ wait_queue[s] \in Seq(Tasks) /\ IsInjective(wait_queue[s]) /\ value[s] \in Nat
  BY SemaphoreAssumption DEF StructInv, TypeInv, TypeOK, SchedTypeOK, WaitLinked, SemInv
<1>2. Pending(s) \in Nat /\ Len(wait_queue[s]) \in Nat
  BY <1>1 DEF SemInv, Pending, Signalling
<1>3. Given(s) = IF Pending(s) <= Len(wait_queue[s]) THEN Pending(s) ELSE Len(wait_queue[s])
  <2> DEFINE p == Pending(s)
             l == Len(wait_queue[s])
  <2>1. p \in Nat /\ l \in Nat
    BY <1>2
  <2> HIDE DEF p, l
  <2>2. {p, l} \in SUBSET Nat
    BY <2>1
  <2>3. CASE p <= l
    <3>1. p \in {p, l} /\ \A y \in {p, l} : p <= y
      BY <2>1, <2>3
    <3>2. Min({p, l}) = p
      BY <2>2, <3>1, MinIs
    <3> QED
      BY <2>3, <3>2 DEF Given, p, l
  <2>4. CASE ~(p <= l)
    <3>1. l \in {p, l} /\ \A y \in {p, l} : l <= y
      BY <2>1, <2>4
    <3>2. Min({p, l}) = l
      BY <2>2, <3>1, MinIs
    <3> QED
      BY <2>4, <3>2 DEF Given, p, l
  <2> QED
    BY <2>3, <2>4
<1>4. Permitted[s] = value[s] + Pending(s) - Given(s)
  BY DEF Permitted
<1>5. Blocked[s] = Rest(wait_queue[s], Given(s))
  BY DEF Blocked, Rest
<1>6. ASSUME signalling = None \/ signalling.sem # s
      PROVE  /\ Pending(s) = 0 /\ Permitted[s] = value[s]
             /\ Blocked[s] = {t \in Tasks : current_wait[t] = s}
  <2>1. Pending(s) = 0
    BY <1>6 DEF Pending
  <2>2. Given(s) = 0
    BY <1>2, <1>3, <2>1
  <2>3. 0 \in 0 .. Len(wait_queue[s]) /\ {wait_queue[s][i] : i \in 1 .. 0} = {}
    BY <1>2
  <2>4. Rest(wait_queue[s], 0) = ToSet(wait_queue[s]) \ {wait_queue[s][i] : i \in 1 .. 0}
    BY <1>1, <2>3, FirstElements
  <2>5. ToSet(wait_queue[s]) = {t \in Tasks : current_wait[t] = s}
    BY <1>1, Waiters DEF WaitersExact
  <2> QED
    BY <1>1, <1>4, <1>5, <2>1, <2>2, <2>3, <2>4, <2>5
<1> QED
  BY <1>2, <1>3, <1>4, <1>5, <1>6

\* The mapped state is a function of the semaphores.
LEMMA MappedFunctions ==
  /\ Permitted = [s \in Semaphores |-> Permitted[s]]
  /\ Permitted' = [s \in Semaphores |-> Permitted'[s]]
  /\ Blocked = [s \in Semaphores |-> Blocked[s]]
  /\ Blocked' = [s \in Semaphores |-> Blocked'[s]]
BY DEF Permitted, Blocked

\* A step that changes the permits and the waiters of no semaphore.
LEMMA MappedSame ==
  ASSUME \A s \in Semaphores : Permitted'[s] = Permitted[s] /\ Blocked'[s] = Blocked[s]
  PROVE  UNCHANGED <<Permitted, Blocked>>
<1>1. Permitted' = Permitted
  BY MappedFunctions
<1>2. Blocked' = Blocked
  BY MappedFunctions
<1> QED
  BY <1>1, <1>2

\* Where a function has a value after one of its values is replaced.
LEMMA Replaced ==
  ASSUME NEW T, NEW R, NEW f \in [T -> R], NEW t \in T, NEW v, NEW x
  PROVE  LET h == [f EXCEPT ![t] = v] IN
         {u \in T : h[u] = x} = IF v = x THEN {u \in T : f[u] = x} \cup {t}
                                          ELSE {u \in T : f[u] = x} \ {t}
<1> DEFINE h == [f EXCEPT ![t] = v]
<1>1. h[t] = v /\ \A u \in T : u # t => h[u] = f[u]
  OBVIOUS
<1> HIDE DEF h
<1>2. ASSUME v = x
      PROVE  {u \in T : h[u] = x} = {u \in T : f[u] = x} \cup {t}
  BY <1>1, <1>2
<1>3. ASSUME v # x
      PROVE  {u \in T : h[u] = x} = {u \in T : f[u] = x} \ {t}
  BY <1>1, <1>3
<1>4. {u \in T : h[u] = x} = IF v = x THEN {u \in T : f[u] = x} \cup {t}
                                       ELSE {u \in T : f[u] = x} \ {t}
  BY <1>2, <1>3
<1> QED
  BY <1>4 DEF h

\* A step of the kernel itself cancels a wait or changes nothing Permits sees.
LEMMA KernelPermits ==
  ASSUME StructInv, SemInv, View, View', Next, UNCHANGED semVars
  PROVE  [PermitsImpl!Next]_<<Permitted, Blocked>>
<1>1. signalling = None /\ UNCHANGED <<value, signalling>>
  <2>1. signalling # None => cpu_lock = "service" /\ interrupt # "tick"
    BY DEF SemInv, LoopInv, CallsLoop
  <2> QED
    BY <2>1, LoopAtomic DEF semVars
<1>2. \A s \in Semaphores :
        /\ Permitted'[s] = Permitted[s]
        /\ Blocked[s] = {t \in Tasks : current_wait[t] = s}
        /\ Blocked'[s] = {t \in Tasks : current_wait'[t] = s}
  BY <1>1 DEF View
<1>3. Permitted' = Permitted
  BY <1>2, MappedFunctions
<1>4. /\ current_wait \in [Tasks -> WaitTarget \cup {None}]
      /\ Semaphores \subseteq Objects \ Mutexes /\ None \notin Semaphores
  BY SemaphoreAssumption, NoneAssumption DEF StructInv, TypeInv, TypeOK, SchedTypeOK
<1>5. CASE UNCHANGED current_wait
  BY <1>2, <1>5, MappedSame
<1>6. ASSUME NEW t \in Tasks, current_wait' = [current_wait EXCEPT ![t] = None],
             current_wait[t] \in Semaphores
      PROVE  PermitsImpl!Next
  <2> DEFINE s == current_wait[t]
  <2>1. t \in Blocked[s]
    BY <1>2, <1>6
  <2>2. Blocked' = [Blocked EXCEPT ![s] = Blocked[s] \ {t}]
    <3>1. ASSUME NEW x \in Semaphores
          PROVE  Blocked'[x] = IF x = s THEN Blocked[x] \ {t} ELSE Blocked[x]
      <4>1. Blocked'[x] = Blocked[x] \ {t}
        <5>1. {u \in Tasks : current_wait'[u] = x} = {u \in Tasks : current_wait[u] = x} \ {t}
          BY <1>4, <1>6, Replaced
        <5> QED
          BY <1>2, <5>1
      <4>2. x # s => t \notin Blocked[x]
        BY <1>2
      <4> QED
        BY <4>1, <4>2
    <3> QED
      BY <1>6, <3>1, MappedFunctions
  <2>3. PermitsImpl!Cancel(s, t)
    BY <1>3, <2>1, <2>2 DEF PermitsImpl!Cancel
  <2> QED
    BY <1>6, <2>3 DEF PermitsImpl!Next
<1>7. ASSUME NEW t \in Tasks, NEW o, current_wait' = [current_wait EXCEPT ![t] = o],
             o \notin Semaphores, current_wait[t] \notin Semaphores
      PROVE  UNCHANGED <<Permitted, Blocked>>
  <2>1. ASSUME NEW x \in Semaphores PROVE Blocked'[x] = Blocked[x]
    <3>1. {u \in Tasks : current_wait'[u] = x} = {u \in Tasks : current_wait[u] = x} \ {t}
      BY <1>4, <1>7, Replaced
    <3>2. t \notin Blocked[x]
      BY <1>2, <1>7
    <3>3. Blocked'[x] = Blocked[x] \ {t}
      BY <1>2, <3>1
    <3> QED
      BY <3>2, <3>3
  <2> QED
    BY <1>2, <2>1, MappedSame
<1>8. \/ UNCHANGED current_wait
      \/ \E t \in Tasks : current_wait' = [current_wait EXCEPT ![t] = None]
      \/ \E t \in Tasks, o \in WaitTarget \ (Objects \ Mutexes) :
           current_wait[t] = None /\ current_wait' = [current_wait EXCEPT ![t] = o]
  BY KernelWaits
<1> QED
  BY <1>4, <1>5, <1>6, <1>7, <1>8

\* poll_one takes a permit, drain takes all, wait_one blocks without one.
LEMMA TakePermits ==
  ASSUME StructInv, SemInv, View, View', NEW s \in Semaphores, signalling = None,
         \/ \E c \in Context : PollOne(c, s) \/ Drain(c, s)
         \/ \E t \in Tasks, timed \in Timed : WaitOne(t, s, timed)
  PROVE  PermitsImpl!Next
<1>0. /\ value \in [Semaphores -> Nat] /\ s \in Objects
      /\ current_wait \in [Tasks -> WaitTarget \cup {None}]
  BY SemaphoreAssumption DEF SemInv, StructInv, TypeInv, TypeOK, SchedTypeOK
<1>1. signalling' = None
  BY DEF PollOne, Drain, WaitOne, semVars
<1>2. \A x \in Semaphores :
        /\ Permitted[x] = value[x] /\ Permitted'[x] = value'[x]
        /\ Blocked[x] = {t \in Tasks : current_wait[t] = x}
        /\ Blocked'[x] = {t \in Tasks : current_wait'[t] = x}
  BY <1>1 DEF View
<1>3. ASSUME NEW c \in Context, PollOne(c, s) PROVE PermitsImpl!Take(s)
  <2>1. /\ value[s] > 0 /\ value' = [value EXCEPT ![s] = value[s] - 1]
        /\ UNCHANGED current_wait
    BY <1>3 DEF PollOne, vars, schedVars
  <2>2. Permitted' = [Permitted EXCEPT ![s] = Permitted[s] - 1]
    <3>1. \A x \in Semaphores : Permitted'[x] = IF x = s THEN Permitted[x] - 1 ELSE Permitted[x]
      BY <1>0, <1>2, <2>1
    <3> QED
      BY <3>1, MappedFunctions
  <2>3. Blocked' = Blocked
    BY <1>2, <2>1, MappedFunctions
  <2> QED
    BY <1>2, <2>1, <2>2, <2>3 DEF PermitsImpl!Take
<1>4. ASSUME NEW c \in Context, Drain(c, s) PROVE PermitsImpl!Drain(s)
  <2>1. value' = [value EXCEPT ![s] = 0] /\ UNCHANGED current_wait
    BY <1>4 DEF Drain, vars, schedVars
  <2>2. Permitted' = [Permitted EXCEPT ![s] = 0]
    <3>1. \A x \in Semaphores : Permitted'[x] = IF x = s THEN 0 ELSE Permitted[x]
      BY <1>0, <1>2, <2>1
    <3> QED
      BY <3>1, MappedFunctions
  <2>3. Blocked' = Blocked
    BY <1>2, <2>1, MappedFunctions
  <2> QED
    BY <2>2, <2>3 DEF PermitsImpl!Drain
<1>5. ASSUME NEW t \in Tasks, NEW timed \in Timed, WaitOne(t, s, timed)
      PROVE  PermitsImpl!Block(s, t)
  <2>1. /\ value[s] = 0 /\ UNCHANGED value
        /\ current_wait' = [current_wait EXCEPT ![t] = s]
    BY <1>5 DEF WaitOne, BeginWait, semVars
  <2>2. current_wait[t] = None /\ None \notin Semaphores
    <3>1. st[t] = "Running"
      BY <1>5, CallerRunning DEF WaitOne, WaitableContext, TaskContext, StructInv
    <3> QED
      BY <3>1, SemaphoreAssumption, NoneAssumption DEF StructInv, WaitLinked
  <2>3. Blocked' = [Blocked EXCEPT ![s] = Blocked[s] \cup {t}]
    <3>1. ASSUME NEW x \in Semaphores
          PROVE  Blocked'[x] = IF x = s THEN Blocked[x] \cup {t} ELSE Blocked[x]
      <4>1. {u \in Tasks : current_wait'[u] = x} =
              IF s = x THEN {u \in Tasks : current_wait[u] = x} \cup {t}
                       ELSE {u \in Tasks : current_wait[u] = x} \ {t}
        BY <1>0, <2>1, Replaced
      <4>2. t \notin Blocked[x]
        BY <1>2, <2>2
      <4>3. Blocked'[x] = IF s = x THEN Blocked[x] \cup {t} ELSE Blocked[x] \ {t}
        BY <1>2, <4>1
      <4> QED
        BY <4>2, <4>3
    <3> QED
      BY <3>1, MappedFunctions
  <2>4. Permitted' = Permitted
    BY <1>2, <2>1, MappedFunctions
  <2> QED
    BY <1>2, <2>1, <2>3, <2>4 DEF PermitsImpl!Block
<1> QED
  BY <1>3, <1>4, <1>5 DEF PermitsImpl!Next

\* The call of signal has the whole effect that Permits promises.
LEMMA SignalPermits ==
  ASSUME StructInv, SemInv, View, View', NEW c \in Context, NEW s \in Semaphores,
         NEW n \in SignalCounts, Signal(c, s, n)
  PROVE  PermitsImpl!Next
<1> DEFINE q == wait_queue[s]
           g == IF n <= Len(q) THEN n ELSE Len(q)
           released == {q[i] : i \in 1 .. g}
<1>0. /\ value[s] \in Nat /\ s \in Objects /\ n \in Nat /\ MaxValue[s] \in Nat
  BY SemaphoreAssumption DEF SemInv
<1>1. q \in Seq(Tasks) /\ IsInjective(q) /\ Len(q) \in Nat
  BY <1>0 DEF StructInv, TypeInv, TypeOK, SchedTypeOK, WaitLinked
<1>2. /\ signalling = None
      /\ signalling' = [sem |-> s, count |-> n, woke |-> FALSE, by |-> c]
      /\ n <= MaxValue[s] - value[s]
      /\ UNCHANGED <<value, wait_queue, current_wait>>
  BY DEF Signal, InContext, SemInv, LoopInv, waitVars
<1>3. signalling'.sem = s /\ signalling'.count = n /\ signalling' # None
  <2>1. [sem |-> s, count |-> n, woke |-> FALSE, by |-> c] \in Signalling
    BY <1>0 DEF Signalling
  <2> QED
    BY <1>2, <2>1, SignallingAssumption
<1>4. Pending(s)' = n
  BY <1>3 DEF Pending
<1>5. g \in 0 .. Len(q) /\ g \in Nat
  BY <1>0, <1>1
<1>6. Given(s)' = g
  BY <1>2, <1>4 DEF View
<1> HIDE DEF g
<1>7. /\ Permitted[s] = value[s] /\ Blocked[s] = Rest(q, 0)
      /\ Permitted'[s] = value[s] + n - g /\ Blocked'[s] = Rest(q, g)
  <2>1. Pending(s) = 0 /\ Permitted[s] = value[s] /\ Blocked[s] = Rest(q, Given(s))
    BY <1>2 DEF View
  <2>2. Given(s) = 0
    BY <1>1, <2>1 DEF View
  <2>3. Permitted'[s] = value'[s] + Pending(s)' - Given(s)' /\ Blocked'[s] = Rest(wait_queue'[s], Given(s)')
    BY DEF View, Rest
  <2> QED
    BY <1>2, <1>4, <1>6, <2>1, <2>2, <2>3
<1>8. /\ released \subseteq ToSet(q) /\ Cardinality(released) = g
      /\ Rest(q, g) = ToSet(q) \ released
      /\ g = Len(q) => released = ToSet(q)
  BY <1>1, <1>5, FirstElements
<1>9. Rest(q, 0) = ToSet(q)
  <2>1. 0 \in 0 .. Len(q) /\ {q[i] : i \in 1 .. 0} = {}
    BY <1>1
  <2>2. Rest(q, 0) = ToSet(q) \ {q[i] : i \in 1 .. 0}
    BY <1>1, <2>1, FirstElements
  <2> QED
    BY <2>1, <2>2
<1> HIDE DEF released
<1>10. ASSUME NEW x \in Semaphores, x # s
       PROVE  Permitted'[x] = Permitted[x] /\ Blocked'[x] = Blocked[x]
  BY <1>2, <1>3, <1>10 DEF View
<1>11. Permitted' = [Permitted EXCEPT ![s] = Permitted[s] + n - Cardinality(released)]
  <2>1. \A x \in Semaphores :
          Permitted'[x] = IF x = s THEN Permitted[s] + n - Cardinality(released) ELSE Permitted[x]
    BY <1>7, <1>8, <1>10
  <2> QED
    BY <2>1, MappedFunctions
<1>12. Blocked' = [Blocked EXCEPT ![s] = Blocked[s] \ released]
  <2>1. \A x \in Semaphores :
          Blocked'[x] = IF x = s THEN Blocked[s] \ released ELSE Blocked[x]
    BY <1>7, <1>8, <1>9, <1>10
  <2> QED
    BY <2>1, MappedFunctions
<1>13. Permitted[s] + n <= MaxValue[s]
  BY <1>0, <1>2, <1>7
<1>14. released \in SUBSET Blocked[s]
  BY <1>7, <1>8, <1>9
<1>15. \/ Cardinality(released) = n
       \/ Cardinality(released) < n /\ released = Blocked[s]
  BY <1>0, <1>1, <1>7, <1>8, <1>9 DEF g
<1>16. \E r \in SUBSET Blocked[s] :
         /\ \/ Cardinality(r) = n
            \/ Cardinality(r) < n /\ r = Blocked[s]
         /\ Blocked' = [Blocked EXCEPT ![s] = Blocked[s] \ r]
         /\ Permitted' = [Permitted EXCEPT ![s] = Permitted[s] + n - Cardinality(r)]
  <2> WITNESS released \in SUBSET Blocked[s]
  <2> QED
    BY <1>11, <1>12, <1>15
<1>17. PermitsImpl!Signal(s, n)
  <2>1. \A r : PermitsImpl!Cardinality(r) = Cardinality(r)
    BY Zenon DEF Cardinality, PermitsImpl!Cardinality
  <2> QED
    BY <1>13, <1>16, <2>1 DEF PermitsImpl!Signal
<1> QED
  BY <1>17, Zenon DEF PermitsImpl!Next

\* The iterations of its loop only carry that effect out.
LEMMA WakePermits ==
  ASSUME StructInv, SemInv, View, View', SignalWakeUpOne
  PROVE  UNCHANGED <<Permitted, Blocked>>
<1>0. PICK s \in Semaphores : s = signalling.sem
  BY SignalWakes
<1> DEFINE q == wait_queue[s]
           n == signalling.count
           g == Given(s)
<1>1. /\ s \in Semaphores
      /\ wait_queue' = [wait_queue EXCEPT ![s] = Tail(q)]
  BY <1>0, SignalWakes
<1>2. /\ signalling \in Signalling /\ signalling # None /\ n > 0 /\ n \in Nat /\ q # <<>>
      /\ signalling' = [signalling EXCEPT !.count = n - 1, !.woke = TRUE]
      /\ UNCHANGED value
  BY <1>0 DEF SignalWakeUpOne, SemInv, Signalling
<1>3. /\ wait_queue \in [Objects -> Seq(Tasks)] /\ s \in Objects /\ q \in Seq(Tasks)
      /\ value \in [Semaphores -> Nat]
  BY <1>1, SemaphoreAssumption DEF StructInv, TypeInv, TypeOK, SchedTypeOK, SemInv
<1>4. signalling'.sem = s /\ signalling'.count = n - 1 /\ signalling' # None
  <2>1. n - 1 \in Nat
    BY <1>2
  <2>2. signalling' \in Signalling
    BY <1>2, <2>1 DEF Signalling
  <2>3. signalling'.sem = s /\ signalling'.count = n - 1
    BY <1>0, <1>2 DEF Signalling
  <2> QED
    BY <2>2, <2>3, SignallingAssumption
<1>5. wait_queue'[s] = Tail(q) /\ \A x \in Objects : x # s => wait_queue'[x] = wait_queue[x]
  BY <1>1, <1>3
<1>6. Len(q) \in Nat /\ Len(q) > 0 /\ Len(Tail(q)) = Len(q) - 1
  BY <1>2, <1>3, HeadTailProperties
<1>7. Pending(s) = n /\ g = IF n <= Len(q) THEN n ELSE Len(q)
  <2>1. Pending(s) = n
    BY <1>0, <1>2 DEF Pending
  <2> QED
    BY <1>1, <2>1 DEF View
<1>8. ASSUME NEW x \in Semaphores, x # s
      PROVE  Permitted'[x] = Permitted[x] /\ Blocked'[x] = Blocked[x]
  <2>1. x \in Objects /\ wait_queue'[x] = wait_queue[x]
    BY <1>5, <1>8, SemaphoreAssumption
  <2>2. Pending(x) = 0 /\ Pending(x)' = 0 /\ Given(x)' = Given(x)
    BY <1>2, <1>4, <1>0, <1>8, <2>1 DEF Pending, Given
  <2>3. /\ Permitted[x] = value[x] + Pending(x) - Given(x)
        /\ Blocked[x] = Rest(wait_queue[x], Given(x))
    BY DEF View
  <2>4. /\ Permitted'[x] = value'[x] + Pending(x)' - Given(x)'
        /\ Blocked'[x] = Rest(wait_queue'[x], Given(x)')
    BY DEF View, Rest
  <2> QED
    BY <1>2, <2>1, <2>2, <2>3, <2>4
<1>9. Permitted'[s] = Permitted[s] /\ Blocked'[s] = Blocked[s]
  <2>1. Pending(s)' = n - 1
    BY <1>2, <1>4 DEF Pending
  <2>2. g \in 1 .. Len(q) /\ g \in Nat
    BY <1>2, <1>6, <1>7
  <2>3. /\ Permitted[s] = value[s] + n - g /\ Blocked[s] = Rest(q, g)
    BY <1>1, <1>7 DEF View
  <2>4. /\ Given(s)' = IF Pending(s)' <= Len(wait_queue'[s]) THEN Pending(s)' ELSE Len(wait_queue'[s])
        /\ Permitted'[s] = value'[s] + Pending(s)' - Given(s)'
        /\ Blocked'[s] = Rest(wait_queue'[s], Given(s)')
    BY DEF View, Rest
  <2>5. Given(s)' = g - 1
    BY <1>2, <1>5, <1>6, <1>7, <2>1, <2>4
  <2>6. Rest(Tail(q), g - 1) = Rest(q, g)
    BY <1>2, <1>3, <2>2, RestOfTail
  <2>7. value[s] + (n - 1) - (g - 1) = value[s] + n - g
    BY <1>1, <1>2, <1>3, <2>2
  <2> QED
    BY <1>2, <1>5, <2>1, <2>3, <2>4, <2>5, <2>6, <2>7
<1> QED
  BY <1>8, <1>9, MappedSame

\* The end of the loop deposits what Permits has already counted.
LEMMA EndPermits ==
  ASSUME StructInv, SemInv, View, View', SignalEnd
  PROVE  UNCHANGED <<Permitted, Blocked>>
<1> DEFINE s == signalling.sem
           n == signalling.count
<1>1. /\ signalling \in Signalling /\ s \in Semaphores /\ n \in Nat
      /\ n = 0 \/ wait_queue[s] = <<>>
      /\ value' = [value EXCEPT ![s] = value[s] + n]
      /\ signalling' = None /\ signalling # None
      /\ UNCHANGED <<wait_queue, current_wait>> /\ value \in [Semaphores -> Nat]
  BY DEF SignalEnd, SemInv, Signalling, waitVars
<1>2. ASSUME NEW x \in Semaphores
      PROVE  /\ Permitted'[x] = value'[x] /\ Pending(x)' = 0 /\ Given(x)' = 0
             /\ Blocked'[x] = Rest(wait_queue'[x], 0)
  <2>1. /\ Pending(x)' = 0 /\ Permitted'[x] = value'[x] /\ Len(wait_queue'[x]) \in Nat
        /\ Given(x)' = IF Pending(x)' <= Len(wait_queue'[x]) THEN Pending(x)' ELSE Len(wait_queue'[x])
        /\ Blocked'[x] = Rest(wait_queue'[x], Given(x)')
    BY <1>1 DEF View, Rest
  <2> QED
    BY <2>1
<1>3. ASSUME NEW x \in Semaphores
      PROVE  /\ Permitted[x] = value[x] + Pending(x) - Given(x)
             /\ Blocked[x] = Rest(wait_queue[x], Given(x)) /\ Given(x) = 0
             /\ Pending(x) = IF x = s THEN n ELSE 0
  <2>1. /\ Permitted[x] = value[x] + Pending(x) - Given(x) /\ Pending(x) \in Nat
        /\ Blocked[x] = Rest(wait_queue[x], Given(x)) /\ Len(wait_queue[x]) \in Nat
        /\ Given(x) = IF Pending(x) <= Len(wait_queue[x]) THEN Pending(x) ELSE Len(wait_queue[x])
    BY DEF View
  <2>2. Pending(x) = IF x = s THEN n ELSE 0
    BY <1>1 DEF Pending
  <2>3. Given(x) = 0
    <3>1. CASE Pending(x) = 0
      BY <2>1, <3>1
    <3>2. CASE wait_queue[x] = <<>>
      <4>1. Len(wait_queue[x]) = 0
        BY <3>2
      <4> QED
        BY <2>1, <4>1
    <3> QED
      BY <1>1, <2>2, <3>1, <3>2
  <2> QED
    BY <2>1, <2>2, <2>3
<1>4. ASSUME NEW x \in Semaphores
      PROVE  Permitted'[x] = Permitted[x] /\ Blocked'[x] = Blocked[x]
  <2>1. value'[x] = value[x] + Pending(x)
    BY <1>1, <1>3
  <2>2. value[x] \in Nat /\ Pending(x) \in Nat
    BY <1>1, <1>3
  <2> QED
    BY <1>1, <1>2, <1>3, <2>1, <2>2
<1> QED
  BY <1>4, MappedSame

\* The semaphores start with their initial permits and nobody blocked.
LEMMA InitPermits == SemInit /\ View => PermitsImpl!Init
<1> SUFFICES ASSUME SemInit, View PROVE PermitsImpl!Init
  OBVIOUS
<1>1. /\ signalling = None /\ value = InitValue
      /\ \A t \in Tasks : current_wait[t] = None
      /\ None \notin Semaphores /\ InitValue \in [Semaphores -> Nat]
  BY SemaphoreAssumption, NoneAssumption DEF SemInit, Init, SchedInit
<1>2. \A s \in Semaphores : Permitted[s] = InitValue[s] /\ Blocked[s] = {}
  <2>1. \A s \in Semaphores : {t \in Tasks : current_wait[t] = s} = {}
    BY <1>1
  <2> QED
    BY <1>1, <2>1 DEF View
<1>3. Permitted = InitValue /\ Blocked = [s \in Semaphores |-> {}]
  BY <1>1, <1>2, MappedFunctions
<1> QED
  BY <1>3 DEF PermitsImpl!Init

\* Every step of the kernel and its semaphores is a step of Permits or changes
\* nothing it sees.
LEMMA StepPermits ==
  ASSUME StructInv, SemInv, View, View', SemNext
  PROVE  [PermitsImpl!Next]_<<Permitted, Blocked>>
<1>1. ASSUME NEW c \in Context, InContext(c) PROVE signalling = None
  BY <1>1 DEF InContext, SemInv, LoopInv, CallsLoop
<1>2. ASSUME NEW t \in Tasks, WaitableContext(t) PROVE signalling = None
  BY <1>2 DEF WaitableContext, TaskContext, InContext, SemInv, LoopInv, CallsLoop
<1>3. CASE Next /\ UNCHANGED semVars
  BY <1>3, KernelPermits
<1>4. ASSUME NEW c \in Context, NEW s \in Semaphores, PollOne(c, s) \/ Drain(c, s)
      PROVE  PermitsImpl!Next
  BY <1>1, <1>4, TakePermits DEF PollOne, Drain
<1>5. ASSUME NEW t \in Tasks, NEW s \in Semaphores, NEW timed \in Timed, WaitOne(t, s, timed)
      PROVE  PermitsImpl!Next
  BY <1>2, <1>5, TakePermits DEF WaitOne
<1>6. ASSUME NEW c \in Context, NEW s \in Semaphores, NEW n \in SignalCounts, Signal(c, s, n)
      PROVE  PermitsImpl!Next
  BY <1>6, SignalPermits
<1>7. CASE SignalWakeUpOne
  BY <1>7, WakePermits
<1>8. CASE SignalEnd
  BY <1>8, EndPermits
<1> QED
  BY <1>3, <1>4, <1>5, <1>6, <1>7, <1>8 DEF SemNext, SemaphoreService

\* Semaphores keep the promise of Permits: no permit is lost or invented by any
\* mix of poll_one, wait_one, signal, drain, timeouts and interruptions.
THEOREM PermitsRefined == SemSpec => PermitsKept
<1>1. StructInv /\ SemInv => View
  BY ViewExact
<1>2. SemInit /\ View => PermitsImpl!Init
  BY InitPermits
<1>3. StructInv /\ SemInv /\ View /\ View' /\ [SemNext]_semAllVars
        => [PermitsImpl!Next]_<<Permitted, Blocked>>
  <2> SUFFICES ASSUME StructInv, SemInv, View, View', [SemNext]_semAllVars
               PROVE  [PermitsImpl!Next]_<<Permitted, Blocked>>
    OBVIOUS
  <2>1. CASE SemNext
    BY <2>1, StepPermits
  <2>2. CASE UNCHANGED semAllVars
    <3>1. UNCHANGED <<value, signalling, wait_queue>>
      BY <2>2 DEF semAllVars, semVars, vars, schedVars, waitVars
    <3> QED
      BY <3>1 DEF Permitted, Blocked, Given, Pending
  <2> QED
    BY <2>1, <2>2
<1> QED
  BY <1>1, <1>2, <1>3, SemInitInv, SemStep, PTL DEF SemSpec, PermitsKept, PermitsImpl!Spec

-----------------------------------------------------------------------------
(* Mutexes with data: their guards are what they seem.  First levels, and *)
(* lists of one element at most.                                           *)

LEMMA Level ==
  ASSUME NEW n \in Nat
  PROVE  /\ Count(n) \in Nat /\ AbandonedBit(n) \in {0, 1}
         /\ Count(n + 2) = Count(n) + 1 /\ AbandonedBit(n + 2) = AbandonedBit(n)
         /\ AbandonedBit(n) = 1 =>
              n - 1 \in Nat /\ Count(n - 1) = Count(n) /\ AbandonedBit(n - 1) = 0
         /\ Count(n) > 0 =>
              /\ n - 2 \in Nat /\ Count(n - 2) = Count(n) - 1
              /\ AbandonedBit(n - 2) = AbandonedBit(n)
         /\ Count(0) = 0 /\ Count(1) = 0 /\ AbandonedBit(1) = 1
BY DEF Count, AbandonedBit

\* SetToSeq lists each element of a finite set once.
LEMMA SetToSeqElements ==
  ASSUME NEW S, IsFiniteSet(S)
  PROVE  SetToSeq(S) \in Seq(S) /\ IsInjective(SetToSeq(S)) /\ ToSet(SetToSeq(S)) = S
<1> DEFINE n == Cardinality(S)
           f == SetToSeq(S)
<1>1. n \in Nat /\ ExistsBijection(1 .. n, S)
  BY FS_CardinalityType
<1>2. \E g \in [1 .. n -> S] : IsInjective(g)
  BY <1>1 DEF ExistsBijection, Bijection, Injection
<1>3. f \in [1 .. n -> S] /\ IsInjective(f)
  BY <1>2 DEF SetToSeq
<1> HIDE DEF f
<1>4. f \in Injection(1 .. n, S) /\ IsFiniteSet(1 .. n) /\ Cardinality(1 .. n) = n
  <2>1. IsFiniteSet(1 .. n) /\ Cardinality(1 .. n) = IF 1 > n THEN 0 ELSE n - 1 + 1
    BY <1>1, FS_Interval
  <2>2. f \in Injection(1 .. n, S)
    BY <1>3 DEF Injection
  <2> QED
    BY <1>1, <2>1, <2>2
<1>5. f \in Surjection(1 .. n, S)
  BY <1>4, FS_Injection
<1>6. ToSet(f) = S
  BY <1>3, <1>5, Zenon DEF Surjection, ToSet
<1>7. f \in Seq(S)
  BY <1>1, <1>3
<1> QED
  BY <1>3, <1>6, <1>7 DEF f

\* The elements of a list are finitely many, and so are those of them with a property.
LEMMA ElementsFinite ==
  ASSUME NEW S, NEW q \in Seq(S), NEW T \in SUBSET ToSet(q)
  PROVE  IsFiniteSet(T)
<1>1. IsFiniteSet(1 .. Len(q))
  BY FS_Interval
<1>2. q \in Surjection(1 .. Len(q), ToSet(q))
  <2>1. q \in [1 .. Len(q) -> ToSet(q)]
    BY DEF ToSet
  <2> QED
    BY <2>1 DEF Surjection, ToSet
<1>3. IsFiniteSet(ToSet(q))
  BY <1>1, <1>2, FS_Surjection
<1> QED
  BY <1>3, FS_Subset

\* The elements of two lists without an element in common.
LEMMA ConcatElements ==
  ASSUME NEW S, NEW p \in Seq(S), NEW q \in Seq(S)
  PROVE  /\ p \o q \in Seq(S) /\ ToSet(p \o q) = ToSet(p) \cup ToSet(q)
         /\ IsInjective(p) /\ IsInjective(q) /\ ToSet(p) \cap ToSet(q) = {}
              => IsInjective(p \o q)
<1> DEFINE r == p \o q
<1>1. /\ r \in Seq(S) /\ Len(r) = Len(p) + Len(q) /\ Len(p) \in Nat /\ Len(q) \in Nat
      /\ \A i \in 1 .. Len(p) : r[i] = p[i]
      /\ \A i \in 1 .. Len(q) : r[Len(p) + i] = q[i]
      /\ \A i \in 1 .. Len(r) : i \in 1 .. Len(p) \/ i - Len(p) \in 1 .. Len(q)
  OBVIOUS
<1> HIDE DEF r
<1>2. \A i \in Len(p) + 1 .. Len(r) : i - Len(p) \in 1 .. Len(q) /\ r[i] = q[i - Len(p)]
  <2> SUFFICES ASSUME NEW i \in Len(p) + 1 .. Len(r)
               PROVE  i - Len(p) \in 1 .. Len(q) /\ r[i] = q[i - Len(p)]
    OBVIOUS
  <2>0. PICK m \in Nat, n \in Nat : m = Len(p) /\ n = Len(q) /\ Len(r) = m + n
    BY <1>1
  <2>4. i \in Int /\ i - m \in Int
    BY <2>0
  <2>1. PICK j \in Int : j = i - m
    BY <2>4
  <2>2. j \in 1 .. n /\ m + j = i
    BY <2>0, <2>1
  <2>3. r[m + j] = q[j]
    BY <1>1, <2>0, <2>2
  <2> QED
    BY <2>0, <2>1, <2>2, <2>3
<1>3. ToSet(r) = ToSet(p) \cup ToSet(q)
  <2>1. \A y : y \in ToSet(r) <=> \E i \in 1 .. Len(r) : r[i] = y
    BY <1>1, ElementPositions
  <2>2. \A y : y \in ToSet(p) <=> \E i \in 1 .. Len(p) : p[i] = y
    BY ElementPositions
  <2>3. \A y : y \in ToSet(q) <=> \E i \in 1 .. Len(q) : q[i] = y
    BY ElementPositions
  <2>4. \A y \in ToSet(r) : y \in ToSet(p) \cup ToSet(q)
    <3> SUFFICES ASSUME NEW i \in 1 .. Len(r) PROVE r[i] \in ToSet(p) \cup ToSet(q)
      BY <2>1
    <3>1. CASE i \in 1 .. Len(p)
      BY <1>1, <2>2, <3>1
    <3>2. CASE i \in Len(p) + 1 .. Len(r)
      BY <1>2, <2>3, <3>2
    <3> QED
      BY <1>1, <3>1, <3>2
  <2>5. \A i \in 1 .. Len(p) : i \in 1 .. Len(r) /\ r[i] = p[i]
    BY <1>1
  <2>6. \A i \in 1 .. Len(q) : Len(p) + i \in 1 .. Len(r) /\ r[Len(p) + i] = q[i]
    BY <1>1
  <2> QED
    BY ZenonT(60), <2>1, <2>2, <2>3, <2>4, <2>5, <2>6
<1>4. ASSUME IsInjective(p), IsInjective(q), ToSet(p) \cap ToSet(q) = {}
      PROVE  IsInjective(r)
  <2> SUFFICES ASSUME NEW i \in 1 .. Len(r), NEW j \in 1 .. Len(r), r[i] = r[j], i <= j
               PROVE  i = j
    BY <1>1 DEF IsInjective
  <2>1. CASE j \in 1 .. Len(p)
    BY <1>1, <1>4, <2>1 DEF IsInjective
  <2>2. CASE i \in 1 .. Len(p) /\ j \in Len(p) + 1 .. Len(r)
    <3>1. r[i] \in ToSet(p)
      <4>1. i \in 1 .. Len(p) /\ p[i] = r[i]
        BY <1>1, <2>2
      <4> QED
        BY <4>1, ElementPositions, ZenonT(60)
    <3>2. r[j] \in ToSet(q)
      BY <1>2, <2>2 DEF ToSet
    <3> QED
      BY <1>4, <3>1, <3>2
  <2>3. CASE i \in Len(p) + 1 .. Len(r) /\ j \in Len(p) + 1 .. Len(r)
    <3>1. PICK a \in 1 .. Len(q) : a = i - Len(p) /\ r[i] = q[a]
      BY <1>2, <2>3
    <3>2. PICK b \in 1 .. Len(q) : b = j - Len(p) /\ r[j] = q[b]
      BY <1>2, <2>3
    <3>3. a \in DOMAIN q /\ b \in DOMAIN q /\ q[a] = q[b]
      <4>1. DOMAIN q = 1 .. Len(q)
        OBVIOUS
      <4> QED
        BY <3>1, <3>2, <4>1
    <3>4. a = b
      BY <1>4, <3>3 DEF IsInjective
    <3> QED
      BY <1>1, <3>1, <3>2, <3>4
  <2> QED
    BY <1>1, <2>1, <2>2, <2>3
<1> QED
  BY <1>1, <1>3, <1>4 DEF r

-----------------------------------------------------------------------------
(* The inductive invariant *)

Places == {"run", "blocked", "abandoned", "level set", "locked", "nested", "marked", "unnest"}

SyTypes ==
  /\ syOwner \in [SyMutexes -> SyTasks \cup {NoOne}]
  /\ syInconsistent \subseteq SyMutexes /\ syDirty \subseteq SyMutexes
  /\ syHeld \in [SyTasks -> Seq(SyMutexes)]
  /\ syLevel \in [Recursive -> Nat]
  /\ syGuards \in [SyTasks -> [SyMutexes -> Seq({"Ok", "Abandoned"})]]
  /\ syPc \in [SyTasks -> [at : Places, m : SyMutexes \cup {NoOne}, x : Nat]]

\* What a guard promises, also after a panic.
Permits(t, m) ==
  HasGuard(t, m) => syOwner[m] = t /\ (m \in syDirty => "Ok" \notin ToSet(syGuards[t][m]))
Permission == \A t \in SyTasks, m \in SyMutexes : Permits(t, m)

\* The kernel: each task owns what it locked, once.
Owned ==
  \A t \in SyTasks :
    /\ IsInjective(syHeld[t])
    /\ \A m \in SyMutexes : m \in ToSet(syHeld[t]) <=> syOwner[m] = t

\* Only the owner is inside of a method, apart from waiting for the lock; a task
\* that waits for it has no guard.
PlacedAt(t) ==
  /\ syPc[t].at = "blocked" => syPc[t].m \in SyMutexes /\ syGuards[t][syPc[t].m] = <<>>
  /\ syPc[t].at \notin {"run", "blocked"} =>
       syPc[t].m \in Recursive /\ syOwner[syPc[t].m] = t
Placed == \A t \in SyTasks : PlacedAt(t)

\* Data is inconsistent only if a flag says so; a plain mutex has one guard.
FlaggedAt(m) ==
  /\ m \in syDirty =>
       m \in syInconsistent \/ (m \in Recursive /\ AbandonedBit(syLevel[m]) = 1)
  /\ m \in Plain => \A t \in SyTasks : Len(syGuards[t][m]) <= 1
Flagged == \A m \in SyMutexes : FlaggedAt(m)

\* How many guards there are to the mutex m of owner t, and what t is about to
\* store, by the place where t is in a method of m.
Guards(t, m) == Len(syGuards[t][m])
Within(t, m) == IF syPc[t].m = m THEN syPc[t].at ELSE "run"
Nests(t, m) ==
  LET count == Count(syLevel[m])
      at == Within(t, m)
  IN  /\ at = "run" => m \notin syInconsistent /\ Guards(t, m) = count + 1
      /\ at = "blocked" => Guards(t, m) = 0 /\ (m \in syInconsistent \/ count = 0)
      /\ at = "abandoned" => Guards(t, m) = 0 /\ m \in syInconsistent
      /\ at = "level set" => Guards(t, m) = 0 /\ m \in syInconsistent /\ syLevel[m] = 1
      /\ at = "locked" => m \notin syInconsistent /\ Guards(t, m) = count
      /\ at = "nested" => /\ m \notin syInconsistent /\ Guards(t, m) = count + 1
                          /\ syPc[t].x = syLevel[m] + 2
      /\ at = "marked" => /\ m \notin syInconsistent /\ Guards(t, m) = count + 1
                          /\ AbandonedBit(syLevel[m]) = 1 /\ syPc[t].x = syLevel[m] - 1
      /\ at = "unnest" => /\ m \notin syInconsistent /\ Guards(t, m) = count
                          /\ count > 0 /\ syPc[t].x = syLevel[m] - 2
NestedAt(m) ==
  /\ syOwner[m] = NoOne => m \in syInconsistent \/ Count(syLevel[m]) = 0
  /\ syOwner[m] # NoOne => Nests(syOwner[m], m)
Nested == \A m \in Recursive : NestedAt(m)

SyInv ==
  /\ SyTypes /\ Permission
  /\ syPanic \in {"none", "nesting count overflow", "unlock order"}
  /\ syPanic = "none" => Owned /\ Placed /\ Flagged /\ Nested

-----------------------------------------------------------------------------
(* A step of one task and one mutex *)

\* What Nests says of a mutex depends on nothing else.
LEMMA NestsFrame ==
  ASSUME NEW u, NEW m, Nests(u, m),
         syGuards'[u][m] = syGuards[u][m], syLevel'[m] = syLevel[m],
         m \in syInconsistent' <=> m \in syInconsistent,
         Within(u, m)' = Within(u, m),
         syPc'[u].x = syPc[u].x \/ Within(u, m) = "run"
  PROVE  Nests(u, m)'
BY DEF Nests, Guards

\* The step changes nothing that is not of task t or mutex m.
Local(t, m) ==
  /\ \A u \in SyTasks \ {t} : syPc'[u] = syPc[u] /\ syGuards'[u] = syGuards[u]
  /\ \A k \in SyMutexes \ {m} :
       /\ syOwner'[k] = syOwner[k] /\ syGuards'[t][k] = syGuards[t][k]
       /\ k \in syInconsistent' <=> k \in syInconsistent
       /\ k \in Recursive => syLevel'[k] = syLevel[k]
  /\ syDirty' \subseteq syDirty
  /\ syOwner'[m] # syOwner[m] => syOwner[m] \in {NoOne, t}
  /\ syPc[t].at = "run" \/ syPc[t].m = m
  /\ syPc'[t].at = "run" \/ syPc'[t].m = m

\* Such a step preserves the invariant if it does for t and m.
LEMMA LocalStep ==
  ASSUME SyInv, syPanic = "none", syPanic' = "none", NEW t \in SyTasks, NEW m \in SyMutexes,
         Local(t, m), SyTypes', Owned',
         Permits(t, m)', PlacedAt(t)', FlaggedAt(m)', m \in Recursive => NestedAt(m)'
  PROVE  SyInv'
<1> USE DEF SyMutexes
<1>0. NoOne \notin SyTasks
  BY SyncAssumption
<1>1. Permission'
  <2> SUFFICES ASSUME NEW u \in SyTasks, NEW k \in SyMutexes PROVE Permits(u, k)'
    BY DEF Permission
  <2>0. Permits(u, k)
    BY DEF SyInv, Permission
  <2>1. CASE u = t /\ k = m
    BY <2>1
  <2>2. CASE u # t \/ k # m
    <3>1. syGuards'[u][k] = syGuards[u][k]
      BY <2>2 DEF Local
    <3>2. ASSUME syOwner[k] = u PROVE syOwner'[k] = u
      BY <1>0, <2>2, <3>2 DEF Local
    <3> QED
      BY <2>0, <3>1, <3>2 DEF Permits, HasGuard, Local
  <2> QED
    BY <2>1, <2>2
<1>2. Placed'
  <2> SUFFICES ASSUME NEW u \in SyTasks, u # t PROVE PlacedAt(u)'
    BY DEF Placed
  <2>1. PlacedAt(u) /\ syPc'[u] = syPc[u] /\ syGuards'[u] = syGuards[u]
    BY DEF SyInv, Placed, Local
  <2>2. \A k \in SyMutexes : syOwner[k] = u => syOwner'[k] = u
    BY <1>0 DEF Local
  <2> QED
    BY <2>1, <2>2 DEF PlacedAt
<1>3. Flagged'
  <2> SUFFICES ASSUME NEW k \in SyMutexes, k # m PROVE FlaggedAt(k)'
    BY DEF Flagged
  <2>1. FlaggedAt(k)
    BY DEF SyInv, Flagged
  <2>2. \A u \in SyTasks : syGuards'[u][k] = syGuards[u][k]
    BY DEF Local
  <2> QED
    BY <2>1, <2>2 DEF FlaggedAt, Local
<1>4. Nested'
  <2> SUFFICES ASSUME NEW k \in Recursive, k # m PROVE NestedAt(k)'
    BY DEF Nested
  <2>1. NestedAt(k) /\ k \in SyMutexes
    BY DEF SyInv, Nested
  <2>2. /\ syOwner'[k] = syOwner[k] /\ syLevel'[k] = syLevel[k]
        /\ k \in syInconsistent' <=> k \in syInconsistent
    BY <2>1 DEF Local
  <2>3. ASSUME NEW u \in SyTasks, Nests(u, k) PROVE Nests(u, k)'
    <3>1. syGuards'[u][k] = syGuards[u][k]
      BY <2>1 DEF Local
    <3>2. CASE u = t
      <4>1. Within(t, k) = "run" /\ Within(t, k)' = "run"
        BY DEF Local, Within
      <4> QED
        BY <2>2, <2>3, <3>1, <3>2, <4>1, NestsFrame
    <3>3. CASE u # t
      <4>1. syPc'[u] = syPc[u]
        BY <3>3 DEF Local
      <4>2. Within(u, k)' = Within(u, k)
        BY <4>1 DEF Within
      <4> QED
        BY <2>2, <2>3, <3>1, <4>1, <4>2, NestsFrame
    <3> QED
      BY <3>2, <3>3
  <2>4. syOwner[k] \in SyTasks \cup {NoOne}
    BY <2>1 DEF SyInv, SyTypes
  <2> QED
    BY <2>1, <2>2, <2>3, <2>4 DEF NestedAt
<1> QED
  BY <1>1, <1>2, <1>3, <1>4 DEF SyInv

-----------------------------------------------------------------------------
(* What the steps are made of *)

\* The place of a task.
LEMMA GoesTo ==
  ASSUME SyTypes, NEW t \in SyTasks, NEW at \in Places, NEW m \in SyMutexes \cup {NoOne},
         NEW x \in Nat, Goes(t, at, m, x)
  PROVE  /\ syPc' \in [SyTasks -> [at : Places, m : SyMutexes \cup {NoOne}, x : Nat]]
         /\ syPc'[t].at = at /\ syPc'[t].m = m /\ syPc'[t].x = x
         /\ \A u \in SyTasks \ {t} : syPc'[u] = syPc[u]
BY DEF SyTypes, Goes, At

LEMMA ReturnsTo ==
  ASSUME SyTypes, NEW t \in SyTasks, Returns(t)
  PROVE  /\ syPc' \in [SyTasks -> [at : Places, m : SyMutexes \cup {NoOne}, x : Nat]]
         /\ syPc'[t].at = "run" /\ \A k : Within(t, k)' = "run"
         /\ \A u \in SyTasks \ {t} : syPc'[u] = syPc[u]
BY DEF SyTypes, Returns, Running, At, Within, Places

\* A guard more.
LEMMA GuardMade ==
  ASSUME SyTypes, NEW t \in SyTasks, NEW m \in SyMutexes, NEW as \in {"Ok", "Abandoned"},
         Guard(t, m, as)
  PROVE  /\ syGuards' \in [SyTasks -> [SyMutexes -> Seq({"Ok", "Abandoned"})]]
         /\ Guards(t, m)' = Guards(t, m) + 1
         /\ ToSet(syGuards'[t][m]) = ToSet(syGuards[t][m]) \cup {as}
         /\ \A u \in SyTasks \ {t} : syGuards'[u] = syGuards[u]
         /\ \A k \in SyMutexes \ {m} : syGuards'[t][k] = syGuards[t][k]
<1>1. syGuards[t] \in [SyMutexes -> Seq({"Ok", "Abandoned"})]
  BY DEF SyTypes
<1> DEFINE g == syGuards[t][m]
<1>2. g \in Seq({"Ok", "Abandoned"})
  BY <1>1
<1>3. Append(g, as) \in Seq({"Ok", "Abandoned"}) /\ Len(Append(g, as)) = Len(g) + 1
  BY ZenonT(60), <1>2, AppendProperties
<1>4. syGuards'[t] = [syGuards[t] EXCEPT ![m] = Append(g, as)]
  BY DEF SyTypes, Guard
<1>5. syGuards'[t][m] = Append(g, as)
  BY <1>1, <1>4
<1>6. ToSet(Append(g, as)) = ToSet(g) \cup {as}
  BY <1>2, AppendElements
<1>7. syGuards' \in [SyTasks -> [SyMutexes -> Seq({"Ok", "Abandoned"})]]
  BY <1>3 DEF SyTypes, Guard
<1> QED
  BY <1>1, <1>3, <1>4, <1>5, <1>6, <1>7 DEF SyTypes, Guard, Guards

\* A guard less.
LEMMA GuardGone ==
  ASSUME SyTypes, NEW t \in SyTasks, NEW m \in SyMutexes, HasGuard(t, m),
         syGuards' = [syGuards EXCEPT ![t][m] = Front(@)]
  PROVE  /\ syGuards' \in [SyTasks -> [SyMutexes -> Seq({"Ok", "Abandoned"})]]
         /\ Guards(t, m)' = Guards(t, m) - 1
         /\ ToSet(syGuards'[t][m]) \subseteq ToSet(syGuards[t][m])
         /\ \A u \in SyTasks \ {t} : syGuards'[u] = syGuards[u]
         /\ \A k \in SyMutexes \ {m} : syGuards'[t][k] = syGuards[t][k]
<1>1. syGuards[t] \in [SyMutexes -> Seq({"Ok", "Abandoned"})]
  BY DEF SyTypes
<1> DEFINE g == syGuards[t][m]
<1>2. g \in Seq({"Ok", "Abandoned"}) /\ g # <<>> /\ Len(g) \in Nat \ {0}
  BY <1>1 DEF HasGuard
<1>3. /\ Front(g) \in Seq({"Ok", "Abandoned"}) /\ Len(Front(g)) = Len(g) - 1
      /\ \A i \in 1 .. Len(g) - 1 : Front(g)[i] = g[i]
  BY <1>2, FrontPositions
<1>5. syGuards'[t] = [syGuards[t] EXCEPT ![m] = Front(g)]
  BY DEF SyTypes
<1>6. syGuards'[t][m] = Front(g)
  BY <1>1, <1>5
<1>7. ToSet(Front(g)) \subseteq ToSet(g)
  <2> SUFFICES ASSUME NEW y \in ToSet(Front(g)) PROVE y \in ToSet(g)
    OBVIOUS
  <2> HIDE DEF g
  <2>1. PICK i \in 1 .. Len(Front(g)) : Front(g)[i] = y
    BY <1>3, ElementPositions
  <2>2. i \in 1 .. Len(g) /\ g[i] = y
    BY <1>2, <1>3, <2>1
  <2> QED
    BY <1>2, <2>2, ElementPositions
<1>8. syGuards' \in [SyTasks -> [SyMutexes -> Seq({"Ok", "Abandoned"})]]
  BY <1>3 DEF SyTypes
<1> QED
  BY <1>1, <1>3, <1>5, <1>6, <1>7, <1>8 DEF SyTypes, Guards

\* Nothing is locked or unlocked.
LEMMA OwnedKept ==
  ASSUME Owned, syOwner' = syOwner, syHeld' = syHeld
  PROVE  Owned'
BY DEF Owned

-----------------------------------------------------------------------------
(* lock *)

\* What is true of the mutex m when the kernel has given it to t.
Grants(t, m) ==
  /\ syGuards[t][m] = <<>>
  /\ m \in Recursive => m \in syInconsistent \/ Count(syLevel[m]) = 0

LEMMA LockedPreserves ==
  ASSUME SyInv, syPanic = "none", NEW t \in SyTasks, NEW m \in SyMutexes,
         Grants(t, m), Locked(t, m),
         syPc[t].at = "run" \/ syPc[t].m = m, syOwner[m] \in {NoOne, t},
         syOwner' = [syOwner EXCEPT ![m] = t],
         syHeld' \in [SyTasks -> Seq(SyMutexes)], Owned',
         UNCHANGED <<syInconsistent, syLevel, syDirty, syPanic>>
  PROVE  SyInv'
<1> USE DEF SyMutexes
<1>1. SyTypes /\ Flagged /\ Nested /\ Permission
  BY DEF SyInv
<1>2. syGuards[t] \in [SyMutexes -> Seq({"Ok", "Abandoned"})] /\ Guards(t, m) = 0
  BY <1>1 DEF SyTypes, Grants, Guards
<1>3. /\ syOwner' \in [SyMutexes -> SyTasks \cup {NoOne}] /\ syOwner'[m] = t
      /\ \A k \in SyMutexes \ {m} : syOwner'[k] = syOwner[k]
  BY <1>1 DEF SyTypes
<1>4. FlaggedAt(m) /\ t # NoOne /\ (m \in Recursive => m \notin Plain)
  BY <1>1, SyncAssumption DEF Flagged
<1>5. CASE m \in Plain
  <2> DEFINE as == IF m \in syInconsistent THEN "Abandoned" ELSE "Ok"
  <2>0. as \in {"Ok", "Abandoned"} /\ Guard(t, m, as) /\ Returns(t)
    BY <1>5 DEF Locked
  <2>1. m \in syDirty => as = "Abandoned"
    BY <1>4, <1>5 DEF FlaggedAt
  <2> HIDE DEF as
  <2>2. /\ syGuards' \in [SyTasks -> [SyMutexes -> Seq({"Ok", "Abandoned"})]]
        /\ Guards(t, m)' = Guards(t, m) + 1
        /\ ToSet(syGuards'[t][m]) = ToSet(syGuards[t][m]) \cup {as}
        /\ \A u \in SyTasks \ {t} : syGuards'[u] = syGuards[u]
        /\ \A k \in SyMutexes \ {m} : syGuards'[t][k] = syGuards[t][k]
    BY <1>1, <2>0, GuardMade
  <2>3. /\ syPc' \in [SyTasks -> [at : Places, m : SyMutexes \cup {NoOne}, x : Nat]]
        /\ syPc'[t].at = "run" /\ \A u \in SyTasks \ {t} : syPc'[u] = syPc[u]
    BY <1>1, <2>0, ReturnsTo
  <2>4. SyTypes'
    BY <1>1, <1>3, <2>2, <2>3 DEF SyTypes
  <2>5. Local(t, m)
    BY <1>3, <2>2, <2>3 DEF Local
  <2>6. ToSet(syGuards[t][m]) = {}
    BY DEF Grants, ToSet
  <2>7. Permits(t, m)'
    BY <1>3, <2>1, <2>2, <2>6 DEF Permits
  <2>8. FlaggedAt(m)'
    <3>1. Len(syGuards'[t][m]) = 1
      BY <1>2, <2>2 DEF Guards
    <3>2. ASSUME NEW u \in SyTasks PROVE Len(syGuards'[u][m]) <= 1
      <4>1. CASE u = t
        <5>1. Len(syGuards'[u][m]) = 1
          BY <3>1, <4>1
        <5> QED
          BY <5>1
      <4>2. CASE u # t
        BY <1>4, <1>5, <2>2, <4>2 DEF FlaggedAt
      <4> QED
        BY <4>1, <4>2
    <3>3. m \in syDirty' => m \in syInconsistent'
      BY <1>4, <1>5 DEF FlaggedAt
    <3> QED
      BY <3>2, <3>3 DEF FlaggedAt
  <2>9. PlacedAt(t)'
    BY <2>3 DEF PlacedAt
  <2> QED
    BY <1>4, <1>5, <2>4, <2>5, <2>7, <2>8, <2>9, LocalStep
<1>6. CASE m \in Recursive
  <2> DEFINE at == IF m \in syInconsistent THEN "abandoned" ELSE "locked"
  <2>0. at \in Places /\ Goes(t, at, m, 0) /\ syGuards' = syGuards
    BY <1>4, <1>6 DEF Locked, Places
  <2>1. (m \in syInconsistent /\ at = "abandoned") \/ (m \notin syInconsistent /\ at = "locked")
    OBVIOUS
  <2> HIDE DEF at
  <2>2. 0 \in Nat /\ m \in SyMutexes \cup {NoOne}
    OBVIOUS
  <2>3. /\ syPc' \in [SyTasks -> [at : Places, m : SyMutexes \cup {NoOne}, x : Nat]]
        /\ syPc'[t].at = at /\ syPc'[t].m = m
        /\ \A u \in SyTasks \ {t} : syPc'[u] = syPc[u]
    BY <1>1, <2>0, <2>2, GoesTo
  <2>4. SyTypes'
    BY <1>1, <1>3, <2>0, <2>3 DEF SyTypes
  <2>5. Local(t, m)
    BY <1>3, <2>0, <2>3 DEF Local
  <2>6. Permits(t, m)'
    BY <2>0 DEF Permits, Grants, HasGuard
  <2>7. FlaggedAt(m)'
    BY <1>4, <2>0 DEF FlaggedAt
  <2>8. PlacedAt(t)'
    BY <1>3, <1>6, <2>1, <2>3 DEF PlacedAt
  <2>9. Within(t, m)' = at
    BY <2>3 DEF Within
  <2>10. Guards(t, m)' = 0
    BY <1>2, <2>0 DEF Guards
  <2>11. Nests(t, m)'
    BY <1>6, <2>1, <2>9, <2>10 DEF Nests, Grants
  <2>12. NestedAt(m)'
    BY <1>3, <1>4, <2>11 DEF NestedAt
  <2> QED
    BY <2>4, <2>5, <2>6, <2>7, <2>8, <2>12, LocalStep
<1> QED
  BY <1>5, <1>6

LEMMA LockFreePreserves ==
  ASSUME SyInv, NEW t \in SyTasks, NEW m \in SyMutexes, LockFree(t, m)
  PROVE  SyInv'
<1> USE DEF SyMutexes
<1>1. SyTypes /\ Owned /\ Nested /\ Permission /\ syPanic = "none" /\ syOwner[m] = NoOne
  BY DEF SyInv, LockFree, Calls, KernelLock
<1>2. Grants(t, m)
  <2>1. t # NoOne /\ Permits(t, m)
    BY <1>1, SyncAssumption DEF Permission
  <2>2. m \in Recursive => NestedAt(m)
    BY <1>1 DEF Nested
  <2> QED
    BY <1>1, <2>1, <2>2 DEF Permits, HasGuard, NestedAt, Grants
<1>3. syHeld[t] \in Seq(SyMutexes) /\ syHeld' = [syHeld EXCEPT ![t] = Append(@, m)]
  BY <1>1 DEF LockFree, KernelLock, SyTypes
<1>4. syHeld' \in [SyTasks -> Seq(SyMutexes)] /\ syHeld'[t] = Append(syHeld[t], m)
      /\ \A u \in SyTasks \ {t} : syHeld'[u] = syHeld[u]
  <2>1. Append(syHeld[t], m) \in Seq(SyMutexes)
    BY <1>3, AppendProperties
  <2> QED
    BY <1>1, <1>3, <2>1 DEF SyTypes
<1>5. syOwner' = [syOwner EXCEPT ![m] = t] /\ syOwner'[m] = t
      /\ \A k \in SyMutexes \ {m} : syOwner'[k] = syOwner[k]
  BY <1>1 DEF LockFree, KernelLock, SyTypes
<1>6. Owned'
  <2> SUFFICES ASSUME NEW u \in SyTasks
               PROVE  /\ IsInjective(syHeld'[u])
                      /\ \A k \in SyMutexes : k \in ToSet(syHeld'[u]) <=> syOwner'[k] = u
    BY DEF Owned
  <2>0. u # NoOne
    BY SyncAssumption
  <2>1. IsInjective(syHeld[u]) /\ \A k \in SyMutexes : k \in ToSet(syHeld[u]) <=> syOwner[k] = u
    BY <1>1 DEF Owned
  <2>2. CASE u = t
    <3>1. ToSet(Append(syHeld[t], m)) = ToSet(syHeld[t]) \cup {m}
          /\ (IsInjective(syHeld[t]) /\ m \notin ToSet(syHeld[t])
                => IsInjective(Append(syHeld[t], m)))
      BY <1>3, AppendElements
    <3> QED
      BY <1>1, <1>4, <1>5, <2>0, <2>1, <2>2, <3>1
  <2>3. CASE u # t
    BY <1>1, <1>4, <1>5, <2>0, <2>1, <2>3
  <2> QED
    BY <2>2, <2>3
<1>7. syPc[t].at = "run" /\ Locked(t, m) /\ syOwner[m] \in {NoOne, t}
      /\ UNCHANGED <<syInconsistent, syLevel, syDirty, syPanic>>
  BY <1>1 DEF LockFree, KernelLock, Calls
<1> QED
  BY <1>1, <1>2, <1>4, <1>5, <1>6, <1>7, LockedPreserves

LEMMA LockGrantedPreserves ==
  ASSUME SyInv, NEW t \in SyTasks, LockGranted(t)
  PROVE  SyInv'
<1> USE DEF SyMutexes
<1> DEFINE m == syPc[t].m
<1>1. /\ SyTypes /\ Owned /\ Placed /\ Nested /\ Permission /\ syPanic = "none"
      /\ syOwner[m] = t /\ syPc[t].at = "blocked"
  BY DEF SyInv, LockGranted, Continues
<1>2. m \in SyMutexes /\ syGuards[t][m] = <<>> /\ t # NoOne
  BY <1>1, SyncAssumption DEF Placed, PlacedAt
<1>3. /\ Locked(t, m) /\ syOwner' = syOwner /\ syHeld' = syHeld
      /\ UNCHANGED <<syInconsistent, syLevel, syDirty, syPanic>>
  BY DEF LockGranted, kernelMutex
<1> HIDE DEF m
<1>4. Grants(t, m)
  <2>1. ASSUME m \in Recursive PROVE m \in syInconsistent \/ Count(syLevel[m]) = 0
    <3>1. Nests(t, m) /\ Within(t, m) = "blocked"
      BY <1>1, <1>2, <2>1 DEF Nested, NestedAt, Within, m
    <3> QED
      BY <3>1 DEF Nests
  <2> QED
    BY <1>2, <2>1 DEF Grants
<1>5. syOwner' = [syOwner EXCEPT ![m] = t] /\ syHeld' \in [SyTasks -> Seq(SyMutexes)] /\ Owned'
  BY <1>1, <1>2, <1>3, OwnedKept DEF SyTypes
<1>6. syPc[t].at = "run" \/ syPc[t].m = m
  BY DEF m
<1> QED
  BY <1>1, <1>2, <1>3, <1>4, <1>5, <1>6, LockedPreserves

\* A step that makes no guard, locks nothing and is of the place of t only.
LEMMA PlaceStep ==
  ASSUME SyInv, syPanic = "none", NEW t \in SyTasks, NEW m \in SyMutexes,
         syPc' \in [SyTasks -> [at : Places, m : SyMutexes \cup {NoOne}, x : Nat]],
         \A u \in SyTasks \ {t} : syPc'[u] = syPc[u],
         syPc[t].at = "run" \/ syPc[t].m = m, syPc'[t].at = "run" \/ syPc'[t].m = m,
         UNCHANGED <<kernelMutex, syLevel, syGuards, syDirty, syPanic>>,
         PlacedAt(t)', (m \in Recursive /\ syOwner[m] = t) => Nests(t, m)'
  PROVE  SyInv'
<1> USE DEF SyMutexes
<1>1. SyTypes /\ Owned /\ Flagged /\ Nested /\ Permission
  BY DEF SyInv
<1>2. SyTypes' /\ Local(t, m) /\ Permits(t, m)' /\ FlaggedAt(m)'
  BY <1>1 DEF SyTypes, Local, Permission, Permits, HasGuard, Flagged, FlaggedAt, kernelMutex
<1>3. Owned'
  BY <1>1, OwnedKept DEF kernelMutex
<1>4. ASSUME m \in Recursive PROVE NestedAt(m)'
  <2>1. NestedAt(m) /\ syOwner[m] \in SyTasks \cup {NoOne}
    BY <1>1, <1>4 DEF Nested, SyTypes
  <2>2. ASSUME syOwner[m] \in SyTasks \ {t}, syOwner[m] # NoOne PROVE Nests(syOwner[m], m)'
    <3> PICK u \in SyTasks \ {t} : u = syOwner[m]
      BY <2>2
    <3>1. Nests(u, m) /\ syPc'[u] = syPc[u]
      BY <2>1, <2>2 DEF NestedAt
    <3>2. Within(u, m)' = Within(u, m)
      BY <3>1 DEF Within
    <3>3. Nests(u, m)'
      BY <3>1, <3>2, NestsFrame DEF kernelMutex
    <3> QED
      BY <3>3 DEF kernelMutex
  <2> QED
    BY <1>4, <2>1, <2>2 DEF NestedAt, kernelMutex
<1> QED
  BY <1>2, <1>3, <1>4, LocalStep

LEMMA LockWaitsPreserves ==
  ASSUME SyInv, NEW t \in SyTasks, NEW m \in SyMutexes, LockWaits(t, m)
  PROVE  SyInv'
<1>1. /\ SyTypes /\ Permission /\ syPanic = "none" /\ syPc[t].at = "run"
      /\ syOwner[m] # t /\ Goes(t, "blocked", m, 0)
      /\ UNCHANGED <<kernelMutex, syLevel, syGuards, syDirty, syPanic>>
  BY DEF SyInv, LockWaits, Calls
<1>2. /\ syPc' \in [SyTasks -> [at : Places, m : SyMutexes \cup {NoOne}, x : Nat]]
      /\ syPc'[t].at = "blocked" /\ syPc'[t].m = m
      /\ \A u \in SyTasks \ {t} : syPc'[u] = syPc[u]
  <2>1. "blocked" \in Places /\ m \in SyMutexes \cup {NoOne} /\ 0 \in Nat
    BY DEF Places
  <2> QED
    BY <1>1, <2>1, GoesTo
<1>3. PlacedAt(t)'
  BY <1>1, <1>2 DEF PlacedAt, Permission, Permits, HasGuard
<1> QED
  BY <1>1, <1>2, <1>3, PlaceStep

LEMMA LockInterruptedPreserves ==
  ASSUME SyInv, NEW t \in SyTasks, LockInterrupted(t)
  PROVE  SyInv'
<1> DEFINE m == syPc[t].m
<1>1. /\ SyTypes /\ syPanic = "none" /\ syPc[t].at = "blocked" /\ m \in SyMutexes
      /\ syOwner[m] # t /\ Returns(t)
      /\ UNCHANGED <<kernelMutex, syLevel, syGuards, syDirty, syPanic>>
  BY DEF SyInv, LockInterrupted, Continues, Placed, PlacedAt
<1> HIDE DEF m
<1>2. /\ syPc' \in [SyTasks -> [at : Places, m : SyMutexes \cup {NoOne}, x : Nat]]
      /\ syPc'[t].at = "run" /\ \A u \in SyTasks \ {t} : syPc'[u] = syPc[u]
  BY <1>1, ReturnsTo
<1>3. PlacedAt(t)' /\ syPc[t].m = m
  BY <1>2 DEF PlacedAt, m
<1> QED
  BY <1>1, <1>2, <1>3, PlaceStep

LEMMA NestPreserves ==
  ASSUME SyInv, NEW t \in SyTasks, NEW m \in SyMutexes, Nest(t, m)
  PROVE  SyInv'
<1> USE DEF SyMutexes
<1>1. /\ SyTypes /\ Nested /\ syPanic = "none" /\ syPc[t].at = "run"
      /\ syOwner[m] = t /\ m \in Recursive /\ t # NoOne
      /\ UNCHANGED <<kernelMutex, syLevel, syGuards, syDirty>>
  BY SyncAssumption DEF SyInv, Nest, Calls
<1>2. CASE syPanic' = "nesting count overflow" /\ UNCHANGED syPc
  <2>1. SyTypes' /\ Permission'
    BY <1>1, <1>2 DEF SyInv, SyTypes, Permission, Permits, HasGuard, kernelMutex
  <2> QED
    BY <1>2, <2>1 DEF SyInv
<1>3. CASE Goes(t, "nested", m, syLevel[m] + 2) /\ UNCHANGED syPanic
  <2>0. syLevel[m] \in Nat
    BY <1>1 DEF SyTypes
  <2>1. "nested" \in Places /\ m \in SyMutexes \cup {NoOne} /\ syLevel[m] + 2 \in Nat
    BY <2>0 DEF Places
  <2>2. /\ syPc' \in [SyTasks -> [at : Places, m : SyMutexes \cup {NoOne}, x : Nat]]
        /\ syPc'[t].at = "nested" /\ syPc'[t].m = m /\ syPc'[t].x = syLevel[m] + 2
        /\ \A u \in SyTasks \ {t} : syPc'[u] = syPc[u]
    BY <1>1, <1>3, <2>1, GoesTo
  <2>3. PlacedAt(t)'
    BY <1>1, <2>2 DEF PlacedAt, kernelMutex
  <2>4. Nests(t, m) /\ Within(t, m) = "run" /\ Within(t, m)' = "nested"
    BY <1>1, <2>2 DEF Nested, NestedAt, Within
  <2>5. Nests(t, m)'
    BY <1>1, <2>2, <2>4 DEF Nests, Guards, kernelMutex
  <2> QED
    BY <1>1, <1>3, <2>2, <2>3, <2>5, PlaceStep
<1> QED
  BY <1>2, <1>3 DEF Nest

-----------------------------------------------------------------------------
(* Inside of a method of a recursive mutex *)

\* Where a task is past the kernel's lock, it has the lock.
LEMMA InMethod ==
  ASSUME SyInv, NEW t \in SyTasks, NEW at, at \notin {"run", "blocked"}, Continues(t, at)
  PROVE  LET m == syPc[t].m IN
         /\ m \in Recursive /\ m \in SyMutexes /\ m \notin Plain /\ syOwner[m] = t /\ t # NoOne
         /\ Nests(t, m) /\ Within(t, m) = at /\ FlaggedAt(m) /\ Permits(t, m)
         /\ syLevel[m] \in Nat /\ Guards(t, m) \in Nat
         /\ SyTypes /\ Owned /\ syPanic = "none" /\ syPc[t].at = at
<1> USE DEF SyMutexes
<1> DEFINE m == syPc[t].m
<1>1. SyTypes /\ Owned /\ Placed /\ Flagged /\ Nested /\ Permission /\ syPanic = "none"
      /\ syPc[t].at = at
  BY DEF SyInv, Continues
<1>2. m \in Recursive /\ m \in SyMutexes /\ syOwner[m] = t
  BY <1>1 DEF Placed, PlacedAt
<1>3. m \notin Plain /\ t # NoOne
  BY <1>2, SyncAssumption
<1>4. Within(t, m) = at
  BY <1>1 DEF Within
<1> HIDE DEF m
<1>5. Nests(t, m) /\ FlaggedAt(m) /\ Permits(t, m)
  BY <1>1, <1>2, <1>3 DEF Nested, NestedAt, Flagged, Permission
<1>6. syLevel[m] \in Nat
  BY <1>1, <1>2 DEF SyTypes
<1>7. syGuards[t] \in [SyMutexes -> Seq({"Ok", "Abandoned"})]
  BY <1>1 DEF SyTypes
<1>8. syGuards[t][m] \in Seq({"Ok", "Abandoned"})
  BY <1>2, <1>7
<1>9. Guards(t, m) \in Nat
  BY <1>8 DEF Guards
<1> QED
  BY <1>1, <1>2, <1>3, <1>4, <1>5, <1>6, <1>9 DEF m

\* A level n is stored.
LEMMA LevelStep ==
  ASSUME SyInv, NEW t \in SyTasks, NEW at, at \notin {"run", "blocked"}, Continues(t, at),
         NEW m, m = syPc[t].m, NEW n \in Nat, NEW next \in {"run", "locked", "level set"},
         syLevel' = [syLevel EXCEPT ![m] = n],
         syPc' \in [SyTasks -> [at : Places, m : SyMutexes \cup {NoOne}, x : Nat]],
         \A u \in SyTasks \ {t} : syPc'[u] = syPc[u],
         syPc'[t].at = next, next = "run" \/ syPc'[t].m = m,
         UNCHANGED <<kernelMutex, syGuards, syPanic>>,
         syDirty' \subseteq syDirty,
         m \in syDirty' => m \in syInconsistent \/ AbandonedBit(n) = 1,
         (syLevel'[m] = n /\ Within(t, m)' = next) => Nests(t, m)'
  PROVE  SyInv'
<1>1. /\ m \in Recursive /\ m \in SyMutexes /\ m \notin Plain /\ syOwner[m] = t /\ t # NoOne
      /\ FlaggedAt(m) /\ Permits(t, m) /\ SyTypes /\ Owned /\ syPanic = "none"
  BY InMethod
<1>2. /\ syLevel' \in [Recursive -> Nat] /\ syLevel'[m] = n
      /\ \A k \in Recursive \ {m} : syLevel'[k] = syLevel[k]
  BY <1>1 DEF SyTypes
<1>3. SyTypes'
  BY <1>1, <1>2 DEF SyTypes, kernelMutex
<1>4. Local(t, m)
  BY <1>1, <1>2 DEF Local, kernelMutex
<1>5. Owned'
  BY <1>1, OwnedKept DEF kernelMutex
<1>6. Permits(t, m)'
  BY <1>1 DEF Permits, HasGuard, kernelMutex
<1>7. PlacedAt(t)'
  BY <1>1 DEF PlacedAt, kernelMutex
<1>8. FlaggedAt(m)'
  BY <1>1, <1>2 DEF FlaggedAt, kernelMutex
<1>9. Within(t, m)' = next
  BY DEF Within
<1>10. NestedAt(m)'
  BY <1>1, <1>2, <1>9 DEF NestedAt, kernelMutex
<1> QED
  BY <1>1, <1>3, <1>4, <1>5, <1>6, <1>7, <1>8, <1>10, LocalStep

LEMMA NestStoresPreserves ==
  ASSUME SyInv, NEW t \in SyTasks, NestStores(t)
  PROVE  SyInv'
<1>0. PICK m, n : m = syPc[t].m /\ n = syPc[t].x
  OBVIOUS
<1>1. /\ Continues(t, "nested") /\ syLevel' = [syLevel EXCEPT ![m] = n]
      /\ Goes(t, "locked", m, 0) /\ UNCHANGED <<kernelMutex, syGuards, syDirty, syPanic>>
  BY <1>0 DEF NestStores
<1>2. /\ m \in Recursive /\ m \in SyMutexes /\ Nests(t, m) /\ Within(t, m) = "nested"
      /\ FlaggedAt(m) /\ SyTypes /\ syLevel[m] \in Nat /\ m \notin Plain
  BY <1>0, <1>1, InMethod
<1>3. /\ n = syLevel[m] + 2 /\ m \notin syInconsistent
      /\ Guards(t, m) = Count(syLevel[m]) + 1
  BY <1>0, <1>2 DEF Nests
<1>4. n \in Nat /\ Count(n) = Count(syLevel[m]) + 1 /\ AbandonedBit(n) = AbandonedBit(syLevel[m])
  BY <1>2, <1>3, Level
<1>5. /\ syPc' \in [SyTasks -> [at : Places, m : SyMutexes \cup {NoOne}, x : Nat]]
      /\ syPc'[t].at = "locked" /\ syPc'[t].m = m
      /\ \A u \in SyTasks \ {t} : syPc'[u] = syPc[u]
  <2>1. "locked" \in Places /\ m \in SyMutexes \cup {NoOne} /\ 0 \in Nat
    BY <1>2 DEF Places
  <2> QED
    BY <1>1, <1>2, <2>1, GoesTo
<1>6. m \in syDirty' => m \in syInconsistent \/ AbandonedBit(n) = 1
  BY <1>1, <1>2, <1>4 DEF FlaggedAt
<1>7. ASSUME syLevel'[m] = n, Within(t, m)' = "locked" PROVE Nests(t, m)'
  BY <1>1, <1>3, <1>4, <1>7 DEF Nests, Guards, kernelMutex
<1>8. m = syPc[t].m /\ syDirty' \subseteq syDirty
  BY <1>0, <1>1
<1> QED
  BY <1>1, <1>4, <1>5, <1>6, <1>7, <1>8, LevelStep

LEMMA AbandonedStoresPreserves ==
  ASSUME SyInv, NEW t \in SyTasks, AbandonedStores(t)
  PROVE  SyInv'
<1>0. PICK m : m = syPc[t].m
  OBVIOUS
<1>1. /\ Continues(t, "abandoned") /\ syLevel' = [syLevel EXCEPT ![m] = 1]
      /\ Goes(t, "level set", m, 0) /\ UNCHANGED <<kernelMutex, syGuards, syDirty, syPanic>>
  BY <1>0 DEF AbandonedStores
<1>2. /\ m \in Recursive /\ m \in SyMutexes /\ Nests(t, m) /\ Within(t, m) = "abandoned"
      /\ SyTypes
  BY <1>0, <1>1, InMethod
<1>3. m \in syInconsistent /\ Guards(t, m) = 0
  BY <1>0, <1>2 DEF Nests
<1>5. /\ syPc' \in [SyTasks -> [at : Places, m : SyMutexes \cup {NoOne}, x : Nat]]
      /\ syPc'[t].at = "level set" /\ syPc'[t].m = m
      /\ \A u \in SyTasks \ {t} : syPc'[u] = syPc[u]
  <2>1. "level set" \in Places /\ m \in SyMutexes \cup {NoOne} /\ 0 \in Nat
    BY <1>2 DEF Places
  <2> QED
    BY <1>1, <1>2, <2>1, GoesTo
<1>7. ASSUME syLevel'[m] = 1, Within(t, m)' = "level set" PROVE Nests(t, m)'
  BY <1>1, <1>3, <1>7 DEF Nests, Guards, kernelMutex
<1>8. m = syPc[t].m /\ syDirty' \subseteq syDirty
  BY <1>0, <1>1
<1> QED
  BY <1>1, <1>3, <1>5, <1>7, <1>8, LevelStep

LEMMA MarkStoresPreserves ==
  ASSUME SyInv, NEW t \in SyTasks, MarkStores(t)
  PROVE  SyInv'
<1>0. PICK m, n : m = syPc[t].m /\ n = syPc[t].x
  OBVIOUS
<1>1. /\ Continues(t, "marked") /\ syLevel' = [syLevel EXCEPT ![m] = n]
      /\ syDirty' = syDirty \ {m} /\ Returns(t)
      /\ UNCHANGED <<kernelMutex, syGuards, syPanic>>
  BY <1>0 DEF MarkStores
<1>2. /\ Nests(t, m) /\ Within(t, m) = "marked" /\ SyTypes /\ syLevel[m] \in Nat
  BY <1>0, <1>1, InMethod
<1>3. /\ n = syLevel[m] - 1 /\ m \notin syInconsistent /\ AbandonedBit(syLevel[m]) = 1
      /\ Guards(t, m) = Count(syLevel[m]) + 1
  BY <1>0, <1>2 DEF Nests
<1>4. n \in Nat /\ Count(n) = Count(syLevel[m])
  BY <1>2, <1>3, Level
<1>5. /\ syPc' \in [SyTasks -> [at : Places, m : SyMutexes \cup {NoOne}, x : Nat]]
      /\ syPc'[t].at = "run" /\ \A u \in SyTasks \ {t} : syPc'[u] = syPc[u]
  BY <1>1, <1>2, ReturnsTo
<1>7. ASSUME syLevel'[m] = n, Within(t, m)' = "run" PROVE Nests(t, m)'
  BY <1>1, <1>3, <1>4, <1>7 DEF Nests, Guards, kernelMutex
<1>8. m = syPc[t].m /\ syDirty' \subseteq syDirty /\ m \notin syDirty'
  BY <1>0, <1>1
<1> QED
  BY <1>1, <1>4, <1>5, <1>7, <1>8, LevelStep

LEMMA UnnestStoresPreserves ==
  ASSUME SyInv, NEW t \in SyTasks, UnnestStores(t)
  PROVE  SyInv'
<1>0. PICK m, n : m = syPc[t].m /\ n = syPc[t].x
  OBVIOUS
<1>1. /\ Continues(t, "unnest") /\ syLevel' = [syLevel EXCEPT ![m] = n] /\ Returns(t)
      /\ UNCHANGED <<kernelMutex, syGuards, syDirty, syPanic>>
  BY <1>0 DEF UnnestStores
<1>2. /\ Nests(t, m) /\ Within(t, m) = "unnest" /\ SyTypes /\ syLevel[m] \in Nat
      /\ FlaggedAt(m)
  BY <1>0, <1>1, InMethod
<1>3. /\ n = syLevel[m] - 2 /\ m \notin syInconsistent /\ Count(syLevel[m]) > 0
      /\ Guards(t, m) = Count(syLevel[m])
  BY <1>0, <1>2 DEF Nests
<1>4. /\ n \in Nat /\ Count(n) = Count(syLevel[m]) - 1 /\ Count(syLevel[m]) \in Nat
      /\ AbandonedBit(n) = AbandonedBit(syLevel[m])
  BY <1>2, <1>3, Level
<1>5. /\ syPc' \in [SyTasks -> [at : Places, m : SyMutexes \cup {NoOne}, x : Nat]]
      /\ syPc'[t].at = "run" /\ \A u \in SyTasks \ {t} : syPc'[u] = syPc[u]
  BY <1>1, <1>2, ReturnsTo
<1>6. m \in syDirty' => m \in syInconsistent \/ AbandonedBit(n) = 1
  BY <1>1, <1>2, <1>4 DEF FlaggedAt
<1>7. ASSUME syLevel'[m] = n, Within(t, m)' = "run" PROVE Nests(t, m)'
  <2>1. Guards(t, m)' = Count(n) + 1
    BY <1>1, <1>3, <1>4 DEF Guards
  <2> QED
    BY <1>1, <1>3, <1>7, <2>1 DEF Nests, kernelMutex
<1>8. m = syPc[t].m /\ syDirty' \subseteq syDirty
  BY <1>0, <1>1
<1> QED
  BY ZenonT(60), <1>1, <1>4, <1>5, <1>6, <1>7, <1>8, LevelStep

LEMMA AbandonedMarksPreserves ==
  ASSUME SyInv, NEW t \in SyTasks, AbandonedMarks(t)
  PROVE  SyInv'
<1>0. PICK m : m = syPc[t].m
  OBVIOUS
<1>1. /\ Continues(t, "level set") /\ UNCHANGED <<syOwner, syHeld, syLevel, syGuards, syDirty>>
  BY DEF AbandonedMarks
<1>2. /\ m \in Recursive /\ m \in SyMutexes /\ m \notin Plain /\ syOwner[m] = t /\ t # NoOne
      /\ Nests(t, m) /\ Within(t, m) = "level set" /\ Permits(t, m) /\ FlaggedAt(m)
      /\ SyTypes /\ Owned /\ syPanic = "none"
  BY <1>0, <1>1, InMethod
<1>3. m \in syInconsistent /\ Guards(t, m) = 0 /\ syLevel[m] = 1
  BY <1>2 DEF Nests
<1>4. /\ syInconsistent' = syInconsistent \ {m} /\ Goes(t, "locked", m, 0) /\ UNCHANGED syPanic
  BY <1>0, <1>3 DEF AbandonedMarks
<1>5. /\ syPc' \in [SyTasks -> [at : Places, m : SyMutexes \cup {NoOne}, x : Nat]]
      /\ syPc'[t].at = "locked" /\ syPc'[t].m = m
      /\ \A u \in SyTasks \ {t} : syPc'[u] = syPc[u]
  <2>1. "locked" \in Places /\ m \in SyMutexes \cup {NoOne} /\ 0 \in Nat
    BY <1>2 DEF Places
  <2>2. SyTypes /\ Goes(t, "locked", m, 0)
    BY <1>2, <1>4
  <2> QED
    BY <2>1, <2>2, GoesTo
<1>6. SyTypes'
  BY <1>1, <1>2, <1>4, <1>5 DEF SyTypes
<1>7. Local(t, m)
  BY <1>0, <1>1, <1>4, <1>5 DEF Local
<1>8. Owned' /\ Permits(t, m)'
  BY <1>1, <1>2, OwnedKept DEF Permits, HasGuard
<1>9. PlacedAt(t)'
  BY <1>1, <1>2, <1>5 DEF PlacedAt
<1>10. Count(1) = 0 /\ AbandonedBit(1) = 1
  BY Level
<1>11. FlaggedAt(m)'
  BY <1>1, <1>2, <1>3, <1>10 DEF FlaggedAt
<1>12. Within(t, m)' = "locked"
  BY <1>5 DEF Within
<1>13. NestedAt(m)'
  BY <1>1, <1>2, <1>3, <1>4, <1>10, <1>12 DEF NestedAt, Nests, Guards
<1> QED
  BY <1>2, <1>4, <1>6, <1>7, <1>8, <1>9, <1>11, <1>13, LocalStep

LEMMA LockReturnsPreserves ==
  ASSUME SyInv, NEW t \in SyTasks, LockReturns(t)
  PROVE  SyInv'
<1>0. PICK m, as : m = syPc[t].m /\ as = IF AbandonedBit(syLevel[m]) = 1 THEN "Abandoned" ELSE "Ok"
  OBVIOUS
<1>1. /\ Continues(t, "locked") /\ Guard(t, m, as) /\ Returns(t)
      /\ UNCHANGED <<kernelMutex, syLevel, syDirty, syPanic>>
  BY <1>0 DEF LockReturns
<1>2. /\ m \in Recursive /\ m \in SyMutexes /\ m \notin Plain /\ syOwner[m] = t /\ t # NoOne
      /\ Nests(t, m) /\ Within(t, m) = "locked" /\ Permits(t, m) /\ FlaggedAt(m)
      /\ SyTypes /\ Owned /\ syPanic = "none"
  BY <1>0, <1>1, InMethod
<1>3. m \notin syInconsistent /\ Guards(t, m) = Count(syLevel[m])
  BY <1>2 DEF Nests
<1>4. as \in {"Ok", "Abandoned"} /\ (m \in syDirty => as # "Ok")
  BY <1>0, <1>2, <1>3 DEF FlaggedAt
<1>5. /\ syGuards' \in [SyTasks -> [SyMutexes -> Seq({"Ok", "Abandoned"})]]
      /\ Guards(t, m)' = Guards(t, m) + 1
      /\ ToSet(syGuards'[t][m]) = ToSet(syGuards[t][m]) \cup {as}
      /\ \A u \in SyTasks \ {t} : syGuards'[u] = syGuards[u]
      /\ \A k \in SyMutexes \ {m} : syGuards'[t][k] = syGuards[t][k]
  BY <1>1, <1>2, <1>4, GuardMade
<1>6. /\ syPc' \in [SyTasks -> [at : Places, m : SyMutexes \cup {NoOne}, x : Nat]]
      /\ syPc'[t].at = "run" /\ Within(t, m)' = "run"
      /\ \A u \in SyTasks \ {t} : syPc'[u] = syPc[u]
  BY <1>1, <1>2, ReturnsTo
<1>7. SyTypes'
  BY <1>1, <1>2, <1>5, <1>6 DEF SyTypes, kernelMutex
<1>8. Local(t, m)
  BY <1>0, <1>1, <1>5, <1>6 DEF Local, kernelMutex
<1>9. Owned'
  BY <1>1, <1>2, OwnedKept DEF kernelMutex
<1>10. PlacedAt(t)'
  BY <1>6 DEF PlacedAt
<1>11. Permits(t, m)'
  <2>1. m \in syDirty => "Ok" \notin ToSet(syGuards[t][m])
    BY <1>2 DEF Permits, HasGuard, ToSet
  <2> QED
    BY <1>1, <1>2, <1>4, <1>5, <2>1 DEF Permits, kernelMutex
<1>12. FlaggedAt(m)'
  BY <1>1, <1>2 DEF FlaggedAt, kernelMutex
<1>13. NestedAt(m)'
  BY <1>1, <1>2, <1>3, <1>5, <1>6 DEF NestedAt, Nests, kernelMutex
<1> QED
  BY <1>1, <1>2, <1>7, <1>8, <1>9, <1>10, <1>11, <1>12, <1>13, LocalStep

-----------------------------------------------------------------------------
(* mark_consistent *)

\* Whoever has a guard and is not inside of a method has the lock, which is consistent
\* for the kernel.
LEMMA Holds ==
  ASSUME SyInv, NEW t \in SyTasks, NEW m \in SyMutexes, Calls(t), HasGuard(t, m)
  PROVE  /\ SyTypes /\ Owned /\ syPanic = "none" /\ syPc[t].at = "run"
         /\ syOwner[m] = t /\ t # NoOne /\ FlaggedAt(m) /\ Permits(t, m)
         /\ m \in Recursive =>
              /\ m \notin Plain /\ m \notin syInconsistent /\ syLevel[m] \in Nat
              /\ Nests(t, m) /\ Guards(t, m) = Count(syLevel[m]) + 1
<1> USE DEF SyMutexes
<1>1. SyTypes /\ Owned /\ Flagged /\ Nested /\ Permission /\ syPanic = "none"
      /\ syPc[t].at = "run"
  BY DEF SyInv, Calls
<1>2. syOwner[m] = t /\ t # NoOne /\ FlaggedAt(m) /\ Permits(t, m)
  BY <1>1, SyncAssumption DEF Permission, Permits, Flagged
<1>3. ASSUME m \in Recursive
      PROVE  /\ m \notin Plain /\ m \notin syInconsistent /\ syLevel[m] \in Nat
             /\ Nests(t, m) /\ Guards(t, m) = Count(syLevel[m]) + 1
  <2>1. Nests(t, m) /\ Within(t, m) = "run"
    BY <1>1, <1>2, <1>3 DEF Nested, NestedAt, Within
  <2>2. m \notin syInconsistent /\ Guards(t, m) = Count(syLevel[m]) + 1
    BY <2>1 DEF Nests
  <2>3. m \notin Plain /\ syLevel[m] \in Nat
    BY <1>1, <1>3, SyncAssumption DEF SyTypes
  <2> QED
    BY <2>1, <2>2, <2>3
<1> QED
  BY <1>1, <1>2, <1>3

LEMMA MarkConsistentPlainPreserves ==
  ASSUME SyInv, MarkedBy = "holder", NEW t \in SyTasks, NEW m \in SyMutexes,
         MarkConsistentPlain(t, m)
  PROVE  SyInv'
<1> USE DEF SyMutexes
<1>1. /\ Calls(t) /\ HasGuard(t, m) /\ m \in Plain
      /\ syInconsistent' = syInconsistent \ {m} /\ syDirty' = syDirty \ {m}
      /\ UNCHANGED <<syOwner, syHeld, syLevel, syGuards, syPc, syPanic>>
  BY DEF MarkConsistentPlain, MayMark
<1>2. /\ SyTypes /\ Owned /\ syPanic = "none" /\ syPc[t].at = "run" /\ FlaggedAt(m)
      /\ Permits(t, m) /\ m \notin Recursive
  BY <1>1, Holds, SyncAssumption
<1>3. SyTypes'
  BY <1>1, <1>2 DEF SyTypes
<1>4. Local(t, m)
  BY <1>1, <1>2 DEF Local
<1>5. Owned'
  BY <1>1, <1>2, OwnedKept
<1>6. Permits(t, m)' /\ PlacedAt(t)' /\ FlaggedAt(m)'
  BY <1>1, <1>2 DEF Permits, HasGuard, PlacedAt, FlaggedAt
<1> QED
  BY <1>1, <1>2, <1>3, <1>4, <1>5, <1>6, LocalStep

LEMMA MarkConsistentPreserves ==
  ASSUME SyInv, MarkedBy = "holder", NEW t \in SyTasks, NEW m \in SyMutexes,
         MarkConsistent(t, m)
  PROVE  SyInv'
<1>1. /\ Calls(t) /\ HasGuard(t, m) /\ m \in Recursive
      /\ m \in syInconsistent \/ AbandonedBit(syLevel[m]) = 1
      /\ syInconsistent' = syInconsistent \ {m}
      /\ Goes(t, "marked", m, IF m \in syInconsistent THEN 0 ELSE syLevel[m] - 1)
      /\ UNCHANGED <<syOwner, syHeld, syLevel, syGuards, syDirty, syPanic>>
  BY DEF MarkConsistent, MayMark
<1>2. /\ SyTypes /\ Owned /\ syPanic = "none" /\ syPc[t].at = "run" /\ syOwner[m] = t
      /\ m \notin syInconsistent /\ syLevel[m] \in Nat
      /\ Guards(t, m) = Count(syLevel[m]) + 1
  BY <1>1, Holds
<1>3. /\ Goes(t, "marked", m, syLevel[m] - 1) /\ AbandonedBit(syLevel[m]) = 1
      /\ UNCHANGED <<kernelMutex, syLevel, syGuards, syDirty, syPanic>>
  BY <1>1, <1>2 DEF kernelMutex
<1>4. syLevel[m] - 1 \in Nat
  BY <1>2, <1>3, Level
<1>5. /\ syPc' \in [SyTasks -> [at : Places, m : SyMutexes \cup {NoOne}, x : Nat]]
      /\ syPc'[t].at = "marked" /\ syPc'[t].m = m /\ syPc'[t].x = syLevel[m] - 1
      /\ \A u \in SyTasks \ {t} : syPc'[u] = syPc[u]
  <2>1. "marked" \in Places /\ m \in SyMutexes \cup {NoOne}
    BY DEF Places
  <2> QED
    BY <1>2, <1>3, <1>4, <2>1, GoesTo
<1>6. PlacedAt(t)'
  BY <1>1, <1>2, <1>5 DEF PlacedAt
<1>7. Within(t, m)' = "marked"
  BY <1>5 DEF Within
<1>8. Nests(t, m)'
  BY <1>1, <1>2, <1>3, <1>5, <1>7 DEF Nests, Guards
<1> QED
  BY <1>2, <1>3, <1>5, <1>6, <1>8, PlaceStep

-----------------------------------------------------------------------------
(* The destructor of a guard *)

\* The list of what a task owns, when m goes from task t to the heir.
LEMMA HandedOver ==
  ASSUME SyTypes, Owned, NEW t \in SyTasks, NEW m \in SyMutexes,
         syHeld[t] # <<>>, Last(syHeld[t]) = m,
         NEW heir \in SyTasks \cup {NoOne}, heir # t,
         syOwner' = [syOwner EXCEPT ![m] = heir],
         syHeld' = [u \in SyTasks |-> IF u = t THEN Front(syHeld[t])
                                      ELSE IF u = heir THEN Append(syHeld[u], m)
                                      ELSE syHeld[u]]
  PROVE  syHeld' \in [SyTasks -> Seq(SyMutexes)] /\ Owned'
<1>1. /\ syOwner'[m] = heir /\ \A k \in SyMutexes \ {m} : syOwner'[k] = syOwner[k]
      /\ \A u \in SyTasks : syHeld[u] \in Seq(SyMutexes)
  BY DEF SyTypes
<1>2. /\ Front(syHeld[t]) \in Seq(SyMutexes) /\ m \in ToSet(syHeld[t])
      /\ ToSet(Front(syHeld[t])) = ToSet(syHeld[t]) \ {m} /\ IsInjective(Front(syHeld[t]))
  BY <1>1, FrontElements, FrontLastType DEF Owned
<1>3. syOwner[m] = t
  BY <1>2 DEF Owned
<1> SUFFICES ASSUME NEW u \in SyTasks
             PROVE  /\ syHeld'[u] \in Seq(SyMutexes) /\ IsInjective(syHeld'[u])
                    /\ \A k \in SyMutexes : k \in ToSet(syHeld'[u]) <=> syOwner'[k] = u
  BY DEF Owned
<1>4. /\ IsInjective(syHeld[u]) /\ \A k \in SyMutexes : k \in ToSet(syHeld[u]) <=> syOwner[k] = u
  BY DEF Owned
<1>5. CASE u = t
  BY <1>1, <1>2, <1>4, <1>5
<1>6. CASE u # t /\ u = heir
  <2>1. m \notin ToSet(syHeld[u]) /\ syHeld'[u] = Append(syHeld[u], m)
    BY <1>3, <1>4, <1>6
  <2>2. Append(syHeld[u], m) \in Seq(SyMutexes)
    BY <1>1, AppendProperties
  <2>3. /\ ToSet(Append(syHeld[u], m)) = ToSet(syHeld[u]) \cup {m}
        /\ IsInjective(Append(syHeld[u], m))
    BY <1>1, <1>4, <2>1, AppendElements
  <2> QED
    BY <1>1, <1>4, <1>6, <2>1, <2>2, <2>3
<1>7. CASE u # t /\ u # heir
  BY <1>1, <1>3, <1>4, <1>7
<1> QED
  BY <1>5, <1>6, <1>7

\* A waiter that becomes the owner: it has no guard, and is before the kernel's answer.
LEMMA HeirWaits ==
  ASSUME SyTypes, Placed, NEW m \in SyMutexes, NEW heir \in Heir(m)
  PROVE  /\ heir \in SyTasks \cup {NoOne}
         /\ heir \in SyTasks => /\ syPc[heir].at = "blocked" /\ syPc[heir].m = m
                                /\ syGuards[heir][m] = <<>> /\ Within(heir, m) = "blocked"
BY SyncAssumption DEF Heir, Placed, PlacedAt, Within

LEMMA DropPreserves ==
  ASSUME SyInv, NEW t \in SyTasks, NEW m \in SyMutexes, Drop(t, m)
  PROVE  SyInv'
<1>1. /\ Calls(t) /\ HasGuard(t, m) /\ syGuards' = [syGuards EXCEPT ![t][m] = Front(@)]
      /\ UNCHANGED <<syLevel, syDirty>>
  BY DEF Drop
<1>2. /\ SyTypes /\ Owned /\ syPanic = "none" /\ syPc[t].at = "run" /\ FlaggedAt(m)
      /\ Permits(t, m) /\ syOwner[m] = t /\ t # NoOne
  BY <1>1, Holds
<1>3. m \in Recursive =>
        /\ m \notin Plain /\ m \notin syInconsistent /\ syLevel[m] \in Nat
        /\ Guards(t, m) = Count(syLevel[m]) + 1
  BY <1>1, Holds
<1>4. /\ syGuards' \in [SyTasks -> [SyMutexes -> Seq({"Ok", "Abandoned"})]]
      /\ Guards(t, m)' = Guards(t, m) - 1
      /\ ToSet(syGuards'[t][m]) \subseteq ToSet(syGuards[t][m])
      /\ \A u \in SyTasks \ {t} : syGuards'[u] = syGuards[u]
      /\ \A k \in SyMutexes \ {m} : syGuards'[t][k] = syGuards[t][k]
  BY <1>1, <1>2, GuardGone
<1>5. /\ syGuards[t][m] \in Seq({"Ok", "Abandoned"}) /\ syGuards[t][m] # <<>>
      /\ syGuards'[t][m] \in Seq({"Ok", "Abandoned"})
  <2>1. /\ syGuards[t] \in [SyMutexes -> Seq({"Ok", "Abandoned"})]
        /\ syGuards'[t] \in [SyMutexes -> Seq({"Ok", "Abandoned"})]
    BY <1>2, <1>4 DEF SyTypes
  <2> QED
    BY <1>1, <2>1 DEF HasGuard
<1>6. Guards(t, m) \in Nat \ {0} /\ (Guards(t, m)' = 0 => syGuards'[t][m] = <<>>)
  BY <1>5 DEF Guards
<1>7. m \in syDirty' => "Ok" \notin ToSet(syGuards'[t][m])
  BY <1>1, <1>2, <1>4 DEF Permits
<1>8. FlaggedAt(m) /\ \A u \in SyTasks : m \in Plain => Len(syGuards'[u][m]) <= 1
  <2>1. ASSUME NEW u \in SyTasks, m \in Plain PROVE Len(syGuards'[u][m]) <= 1
    <3>0. Len(syGuards[u][m]) <= 1
      BY <1>2, <2>1 DEF FlaggedAt
    <3>1. CASE u = t
      <4>1. Guards(t, m) <= 1
        BY <3>0, <3>1 DEF Guards
      <4>2. Guards(t, m)' <= 1
        BY <1>4, <1>6, <4>1
      <4> QED
        BY <3>1, <4>2 DEF Guards
    <3>2. CASE u # t
      BY <1>4, <3>0, <3>2
    <3> QED
      BY <3>1, <3>2
  <2> QED
    BY <1>2, <2>1
<1>9. CASE m \in Recursive /\ Count(syLevel[m]) > 0
  <2>1. Goes(t, "unnest", m, syLevel[m] - 2) /\ UNCHANGED <<kernelMutex, syPanic>>
    BY <1>9 DEF Drop
  <2>2. syLevel[m] - 2 \in Nat
    BY <1>3, <1>9, Level
  <2>3. /\ syPc' \in [SyTasks -> [at : Places, m : SyMutexes \cup {NoOne}, x : Nat]]
        /\ syPc'[t].at = "unnest" /\ syPc'[t].m = m /\ syPc'[t].x = syLevel[m] - 2
        /\ \A u \in SyTasks \ {t} : syPc'[u] = syPc[u]
    <3>1. "unnest" \in Places /\ m \in SyMutexes \cup {NoOne}
      BY DEF Places
    <3> QED
      BY <1>2, <2>1, <2>2, <3>1, GoesTo
  <2>4. SyTypes'
    BY <1>1, <1>2, <1>4, <2>1, <2>3 DEF SyTypes, kernelMutex
  <2>5. Local(t, m)
    BY <1>1, <1>2, <1>4, <2>1, <2>3 DEF Local, kernelMutex
  <2>6. Owned'
    BY <1>2, <2>1, OwnedKept DEF kernelMutex
  <2>7. Permits(t, m)' /\ PlacedAt(t)'
    BY <1>2, <1>7, <1>9, <2>1, <2>3 DEF Permits, PlacedAt, kernelMutex
  <2>8. FlaggedAt(m)'
    BY <1>1, <1>8, <2>1 DEF FlaggedAt, kernelMutex
  <2>9. Within(t, m)' = "unnest"
    BY <2>3 DEF Within
  <2>10. Guards(t, m)' = Count(syLevel[m]) /\ Count(syLevel[m]) \in Nat
    <3>1. Count(syLevel[m]) \in Nat
      BY <1>3, <1>9, Level
    <3> QED
      BY <1>3, <1>4, <1>9, <3>1
  <2>11. Nests(t, m)'
    BY <1>1, <1>3, <1>9, <2>1, <2>3, <2>9, <2>10 DEF Nests, kernelMutex
  <2>12. NestedAt(m)'
    BY <1>2, <2>1, <2>11 DEF NestedAt, kernelMutex
  <2> QED
    BY <1>2, <2>1, <2>4, <2>5, <2>6, <2>7, <2>8, <2>12, LocalStep
<1>10. CASE ~(m \in Recursive /\ Count(syLevel[m]) > 0)
  <2>1. UnlockUnwrapped(t, m) /\ UNCHANGED syPc
    BY <1>10 DEF Drop
  <2>2. CASE syHeld[t] = <<>> \/ Last(syHeld[t]) # m
    <3>1. syPanic' = "unlock order" /\ UNCHANGED kernelMutex
      BY <1>2, <2>1, <2>2 DEF UnlockUnwrapped
    <3>2. SyTypes'
      BY <1>1, <1>2, <1>4, <2>1, <3>1 DEF SyTypes, kernelMutex
    <3>3. Permission'
      <4> SUFFICES ASSUME NEW u \in SyTasks, NEW k \in SyMutexes PROVE Permits(u, k)'
        BY DEF Permission
      <4>1. Permits(u, k)
        BY DEF SyInv, Permission
      <4>2. CASE u = t /\ k = m
        BY <1>2, <1>7, <3>1, <4>2 DEF Permits, kernelMutex
      <4>3. CASE u # t \/ k # m
        BY <1>1, <1>4, <3>1, <4>1, <4>3 DEF Permits, HasGuard, kernelMutex
      <4> QED
        BY <4>2, <4>3
    <3> QED
      BY <3>1, <3>2, <3>3 DEF SyInv
  <2>3. CASE syHeld[t] # <<>> /\ Last(syHeld[t]) = m
    <3>1. PICK heir \in Heir(m) :
            /\ syOwner' = [syOwner EXCEPT ![m] = heir]
            /\ syHeld' = [u \in SyTasks |-> IF u = t THEN Front(syHeld[t])
                                            ELSE IF u = heir THEN Append(syHeld[u], m)
                                            ELSE syHeld[u]]
      BY <2>1, <2>3 DEF UnlockUnwrapped
    <3>2. UNCHANGED <<syInconsistent, syPanic>>
      BY <2>1, <2>3 DEF UnlockUnwrapped
    <3>3. /\ heir \in SyTasks \cup {NoOne}
          /\ heir \in SyTasks => /\ syPc[heir].at = "blocked" /\ syPc[heir].m = m
                                 /\ syGuards[heir][m] = <<>> /\ Within(heir, m) = "blocked"
      BY <1>2, HeirWaits DEF SyInv
    <3>4. heir # t
      BY <1>2, <3>3
    <3>5. syHeld' \in [SyTasks -> Seq(SyMutexes)] /\ Owned'
      BY <1>2, <2>3, <3>1, <3>3, <3>4, HandedOver
    <3>6. /\ syOwner' \in [SyMutexes -> SyTasks \cup {NoOne}] /\ syOwner'[m] = heir
          /\ \A k \in SyMutexes \ {m} : syOwner'[k] = syOwner[k]
      BY <1>2, <3>1, <3>3 DEF SyTypes
    <3>7. SyTypes'
      BY <1>1, <1>2, <1>4, <2>1, <3>2, <3>5, <3>6 DEF SyTypes
    <3>8. Local(t, m)
      BY <1>1, <1>2, <1>4, <2>1, <3>2, <3>6 DEF Local
    <3>9. PlacedAt(t)'
      BY <1>2, <2>1 DEF PlacedAt
    <3>10. FlaggedAt(m)'
      BY <1>1, <1>8, <3>2 DEF FlaggedAt
    <3>11. Guards(t, m)' = 0
      <4>1. CASE m \in Recursive
        <5>1. Count(syLevel[m]) \in Nat
          BY <1>3, <4>1, Level
        <5>2. Count(syLevel[m]) = 0
          BY <1>10, <4>1, <5>1
        <5> QED
          BY <1>3, <1>4, <4>1, <5>2
      <4>2. CASE m \in Plain
        <5>1. Guards(t, m) <= 1
          BY <1>2, <4>2 DEF FlaggedAt, Guards
        <5> QED
          BY <1>4, <1>6, <5>1
      <4> QED
        BY <4>1, <4>2 DEF SyMutexes
    <3>12. Permits(t, m)'
      BY <1>6, <3>11 DEF Permits, HasGuard
    <3>13. ASSUME m \in Recursive PROVE NestedAt(m)'
      <4>1. Count(syLevel[m]) = 0
        <5>1. Count(syLevel[m]) \in Nat
          BY <1>3, <3>13, Level
        <5> QED
          BY <1>10, <3>13, <5>1
      <4>2. ASSUME heir \in SyTasks PROVE Nests(heir, m)'
        <5>1. Within(heir, m)' = "blocked" /\ syGuards'[heir] = syGuards[heir]
          BY <1>4, <2>1, <3>3, <3>4, <4>2 DEF Within
        <5>2. Guards(heir, m)' = 0
          BY <3>3, <4>2, <5>1 DEF Guards
        <5> QED
          BY <1>1, <4>1, <5>1, <5>2 DEF Nests
      <4> QED
        BY <1>1, <3>3, <3>6, <4>1, <4>2 DEF NestedAt
    <3> QED
      BY <1>2, <3>2, <3>5, <3>7, <3>8, <3>9, <3>10, <3>12, <3>13, LocalStep
  <2> QED
    BY <2>2, <2>3
<1> QED
  BY <1>9, <1>10

-----------------------------------------------------------------------------
(* A task that exits with guards *)

\* The lists of what the tasks own, when everything that t owns goes to the heirs.
LEMMA Inherited ==
  ASSUME SyTypes, Owned, NEW t \in SyTasks, NEW owned, owned = ToSet(syHeld[t]),
         NEW heirs \in [owned -> SyTasks \cup {NoOne}], \A m \in owned : heirs[m] # t,
         syOwner' = [m \in SyMutexes |-> IF m \in owned THEN heirs[m] ELSE syOwner[m]],
         syHeld' = [u \in SyTasks |->
                      IF u = t THEN <<>>
                      ELSE syHeld[u] \o SetToSeq({m \in owned : heirs[m] = u})]
  PROVE  syHeld' \in [SyTasks -> Seq(SyMutexes)] /\ Owned'
<1>1. \A u \in SyTasks : syHeld[u] \in Seq(SyMutexes)
  BY DEF SyTypes
<1>2. owned \subseteq SyMutexes /\ \A m \in SyMutexes : m \in owned <=> syOwner[m] = t
  <2>1. owned \subseteq SyMutexes
    BY <1>1 DEF ToSet
  <2> QED
    BY <2>1 DEF Owned
<1> SUFFICES ASSUME NEW u \in SyTasks
             PROVE  /\ syHeld'[u] \in Seq(SyMutexes) /\ IsInjective(syHeld'[u])
                    /\ \A k \in SyMutexes : k \in ToSet(syHeld'[u]) <=> syOwner'[k] = u
  BY DEF Owned
<1>3. /\ IsInjective(syHeld[u]) /\ \A k \in SyMutexes : k \in ToSet(syHeld[u]) <=> syOwner[k] = u
  BY DEF Owned
<1>4. CASE u = t
  <2>1. syHeld'[u] = <<>> /\ ToSet(<<>>) = {} /\ IsInjective(<<>>)
    BY <1>4 DEF ToSet, IsInjective
  <2>2. \A k \in SyMutexes : syOwner'[k] # u
    BY <1>2, <1>4
  <2>3. syHeld'[u] \in Seq(SyMutexes) /\ IsInjective(syHeld'[u]) /\ ToSet(syHeld'[u]) = {}
    <3>1. ASSUME NEW q, q = <<>>
          PROVE  q \in Seq(SyMutexes) /\ IsInjective(q) /\ ToSet(q) = {}
      BY <3>1 DEF IsInjective, ToSet
    <3> QED
      BY <2>1, <3>1
  <2> QED
    BY <2>2, <2>3
<1>5. CASE u # t
  <2> DEFINE got == {m \in owned : heirs[m] = u}
             new == SetToSeq(got)
  <2>1. syHeld'[u] = syHeld[u] \o new
    BY <1>5
  <2>2. IsFiniteSet(got)
    BY <1>1, ElementsFinite
  <2>3. new \in Seq(got) /\ IsInjective(new) /\ ToSet(new) = got
    BY <2>2, SetToSeqElements
  <2>4. got \subseteq SyMutexes /\ \A k \in got : syOwner[k] = t
    BY <1>2
  <2>5. \A k \in SyMutexes : syOwner'[k] = u <=> k \in got \/ syOwner[k] = u
    BY <1>2, <1>5
  <2> HIDE DEF got, new
  <2>6. new \in Seq(SyMutexes)
    BY <2>3, <2>4
  <2>7. ToSet(syHeld[u]) \cap ToSet(new) = {}
    BY <1>3, <1>5, <2>3, <2>4
  <2>8. /\ syHeld[u] \o new \in Seq(SyMutexes)
        /\ ToSet(syHeld[u] \o new) = ToSet(syHeld[u]) \cup ToSet(new)
        /\ IsInjective(syHeld[u] \o new)
    BY <1>1, <1>3, <2>3, <2>6, <2>7, ConcatElements
  <2> QED
    BY <1>3, <2>1, <2>3, <2>5, <2>8
<1> QED
  BY <1>4, <1>5

LEMMA ExitWithGuardsPreserves ==
  ASSUME SyInv, NEW t \in SyTasks, ExitWithGuards(t)
  PROVE  SyInv'
<1> USE DEF SyMutexes
<1> DEFINE owned == ToSet(syHeld[t])
<1>1. /\ SyTypes /\ Permission /\ Owned /\ Placed /\ Flagged /\ Nested /\ syPanic = "none"
      /\ syPc[t].at = "run" /\ t # NoOne
  BY SyncAssumption DEF SyInv, ExitWithGuards, Calls
<1>2. PICK heirs \in [owned -> SyTasks \cup {NoOne}] :
        /\ \A m \in owned : heirs[m] \in Heir(m)
        /\ syOwner' = [m \in SyMutexes |-> IF m \in owned THEN heirs[m] ELSE syOwner[m]]
        /\ syHeld' = [u \in SyTasks |->
                        IF u = t THEN <<>>
                        ELSE syHeld[u] \o SetToSeq({m \in owned : heirs[m] = u})]
  BY DEF ExitWithGuards
<1>3. /\ syInconsistent' = syInconsistent \cup owned /\ syDirty' = syDirty \cup owned
      /\ syGuards' = [syGuards EXCEPT ![t] = [m \in SyMutexes |-> <<>>]]
      /\ UNCHANGED <<syLevel, syPc, syPanic>>
  BY DEF ExitWithGuards
<1>4. owned \subseteq SyMutexes /\ \A m \in SyMutexes : m \in owned <=> syOwner[m] = t
  <2>1. syHeld[t] \in Seq(SyMutexes)
    BY <1>1 DEF SyTypes
  <2>2. owned \subseteq SyMutexes
    BY <2>1 DEF ToSet
  <2> QED
    BY <1>1, <2>2 DEF Owned
<1>0. owned = ToSet(syHeld[t])
  OBVIOUS
<1> HIDE DEF owned
<1>5. \A m \in owned : /\ heirs[m] \in SyTasks \cup {NoOne}
                      /\ heirs[m] \in SyTasks =>
                           /\ syPc[heirs[m]].at = "blocked" /\ syPc[heirs[m]].m = m
                           /\ syGuards[heirs[m]][m] = <<>> /\ Within(heirs[m], m) = "blocked"
  BY <1>1, <1>2, <1>4, HeirWaits
<1>6. \A m \in owned : heirs[m] # t
  BY <1>1, <1>5
<1>7. syHeld' \in [SyTasks -> Seq(SyMutexes)] /\ Owned'
  BY <1>0, <1>1, <1>2, <1>6, Inherited
<1>8. \A m \in SyMutexes : syOwner'[m] = IF m \in owned THEN heirs[m] ELSE syOwner[m]
  BY <1>2
<1>9. /\ \A m \in SyMutexes : syGuards'[t][m] = <<>>
      /\ \A u \in SyTasks \ {t} : syGuards'[u] = syGuards[u]
  BY <1>1, <1>3 DEF SyTypes
<1>10. SyTypes'
  <2>1. syOwner' \in [SyMutexes -> SyTasks \cup {NoOne}]
    BY <1>1, <1>2, <1>5 DEF SyTypes
  <2>2. syInconsistent' \subseteq SyMutexes /\ syDirty' \subseteq SyMutexes
    BY <1>1, <1>3, <1>4 DEF SyTypes
  <2>3. [m \in SyMutexes |-> <<>>] \in [SyMutexes -> Seq({"Ok", "Abandoned"})]
    OBVIOUS
  <2>4. syGuards' \in [SyTasks -> [SyMutexes -> Seq({"Ok", "Abandoned"})]]
    BY <1>1, <1>3, <2>3 DEF SyTypes
  <2> QED
    BY <1>1, <1>3, <1>7, <2>1, <2>2, <2>4 DEF SyTypes
<1>11. Permission'
  <2> SUFFICES ASSUME NEW u \in SyTasks, NEW k \in SyMutexes, HasGuard(u, k)'
               PROVE  Permits(u, k)'
    BY DEF Permission, Permits
  <2>1. u # t /\ syGuards'[u][k] = syGuards[u][k]
    BY <1>9 DEF HasGuard
  <2>2. HasGuard(u, k) /\ Permits(u, k)
    BY <1>1, <2>1 DEF HasGuard, Permission
  <2>3. syOwner[k] = u /\ k \notin owned
    BY <1>4, <2>1, <2>2 DEF Permits
  <2> QED
    BY <1>3, <1>8, <2>1, <2>2, <2>3 DEF Permits
<1>12. Placed'
  <2> SUFFICES ASSUME NEW u \in SyTasks PROVE PlacedAt(u)'
    BY DEF Placed
  <2>1. PlacedAt(u)
    BY <1>1 DEF Placed
  <2>2. CASE u = t
    BY <1>1, <1>3, <2>2 DEF PlacedAt
  <2>3. CASE u # t
    BY <1>3, <1>4, <1>8, <1>9, <2>1, <2>3 DEF PlacedAt
  <2> QED
    BY <2>2, <2>3
<1>13. Flagged'
  <2> SUFFICES ASSUME NEW m \in SyMutexes PROVE FlaggedAt(m)'
    BY DEF Flagged
  <2>1. FlaggedAt(m)
    BY <1>1 DEF Flagged
  <2>2. m \in syDirty' =>
          m \in syInconsistent' \/ (m \in Recursive /\ AbandonedBit(syLevel'[m]) = 1)
    BY <1>3, <2>1 DEF FlaggedAt
  <2>3. ASSUME m \in Plain, NEW u \in SyTasks PROVE Len(syGuards'[u][m]) <= 1
    <3>1. CASE u = t
      <4>1. syGuards'[u][m] = <<>>
        BY <1>9, <3>1
      <4>2. Len(<<>>) = 0
        OBVIOUS
      <4> QED
        BY <4>1, <4>2
    <3>2. CASE u # t
      BY <1>9, <2>1, <2>3, <3>2 DEF FlaggedAt
    <3> QED
      BY <3>1, <3>2
  <2> QED
    BY <2>2, <2>3 DEF FlaggedAt
<1>14. Nested'
  <2> SUFFICES ASSUME NEW m \in Recursive PROVE NestedAt(m)'
    BY DEF Nested
  <2>0. NestedAt(m) /\ syLevel'[m] = syLevel[m] /\ syOwner[m] \in SyTasks \cup {NoOne}
    BY <1>1, <1>3 DEF Nested, SyTypes
  <2>1. CASE m \in owned
    <3>1. syOwner'[m] = heirs[m] /\ m \in syInconsistent'
      BY <1>3, <1>8, <2>1
    <3>2. ASSUME NEW u \in SyTasks, u = heirs[m] PROVE Nests(u, m)'
      <4>1. u # t /\ syGuards[u][m] = <<>> /\ Within(u, m) = "blocked"
        BY <1>5, <1>6, <2>1, <3>2
      <4>2. Within(u, m)' = "blocked"
        BY <1>3, <4>1 DEF Within
      <4>3. Guards(u, m)' = 0
        BY <1>9, <4>1 DEF Guards
      <4> QED
        BY <3>1, <4>2, <4>3 DEF Nests
    <3> QED
      BY <1>5, <2>1, <3>1, <3>2 DEF NestedAt
  <2>2. CASE m \notin owned
    <3>1. /\ syOwner'[m] = syOwner[m] /\ syOwner[m] # t
          /\ m \in syInconsistent' <=> m \in syInconsistent
      BY <1>3, <1>4, <1>8, <2>2
    <3>2. ASSUME NEW u \in SyTasks \ {t}, Nests(u, m) PROVE Nests(u, m)'
      <4>1. Within(u, m)' = Within(u, m) /\ syPc'[u].x = syPc[u].x
            /\ syGuards'[u][m] = syGuards[u][m]
        BY <1>3, <1>9 DEF Within
      <4> QED
        BY <2>0, <3>1, <3>2, <4>1, NestsFrame
    <3> QED
      BY <2>0, <3>1, <3>2 DEF NestedAt
  <2> QED
    BY <2>1, <2>2
<1> QED
  BY <1>1, <1>3, <1>7, <1>10, <1>11, <1>12, <1>13, <1>14 DEF SyInv

-----------------------------------------------------------------------------
(* The theorem *)

LEMMA SyncInitially ==
  ASSUME SyncInit
  PROVE  SyInv
<1> USE DEF SyMutexes
<1>1. SyTypes
  <2>1. [m \in SyMutexes |-> <<>>] \in [SyMutexes -> Seq({"Ok", "Abandoned"})]
    OBVIOUS
  <2>2. syGuards \in [SyTasks -> [SyMutexes -> Seq({"Ok", "Abandoned"})]]
    BY <2>1 DEF SyncInit
  <2> QED
    BY <2>2 DEF SyncInit, SyTypes, Running, At, Places
<1>2. \A t \in SyTasks : syHeld[t] = <<>> /\ syPc[t].at = "run"
  BY DEF SyncInit, Running, At
<1>3. \A t \in SyTasks, m \in SyMutexes : syGuards[t][m] = <<>> /\ syOwner[m] = NoOne
  BY DEF SyncInit
<1>4. Permission
  BY <1>3 DEF Permission, Permits, HasGuard
<1>5. Owned
  <2>1. IsInjective(<<>>) /\ ToSet(<<>>) = {}
    BY DEF IsInjective, ToSet
  <2> QED
    BY <1>2, <2>1, SyncAssumption DEF Owned, SyncInit
<1>6. Placed
  BY <1>2 DEF Placed, PlacedAt
<1>7. Flagged
  <2>1. Len(<<>>) = 0
    OBVIOUS
  <2>2. \A t \in SyTasks, m \in SyMutexes : Len(syGuards[t][m]) <= 1
    BY <1>3, <2>1
  <2> QED
    BY <2>2 DEF Flagged, FlaggedAt, SyncInit
<1>8. Nested
  <2>1. Count(0) = 0
    BY Level
  <2> QED
    BY <2>1 DEF Nested, NestedAt, SyncInit
<1> QED
  BY <1>1, <1>4, <1>5, <1>6, <1>7, <1>8 DEF SyInv, SyncInit

LEMMA SyncStep ==
  ASSUME MarkedBy = "holder", SyInv, [SyncNext]_syVars
  PROVE  SyInv'
<1>1. CASE UNCHANGED syVars
  <2>1. SyTypes' = SyTypes /\ Permission' = Permission /\ Owned' = Owned
    BY <1>1 DEF syVars, SyTypes, Permission, Permits, HasGuard, Owned
  <2>2. Placed' = Placed /\ Flagged' = Flagged
    BY <1>1 DEF syVars, Placed, PlacedAt, Flagged, FlaggedAt
  <2>3. Nested' = Nested
    BY <1>1 DEF syVars, Nested, NestedAt, Nests, Within, Guards
  <2> QED
    BY <1>1, <2>1, <2>2, <2>3 DEF syVars, SyInv
<1>2. CASE SyncNext
  <2>1. PICK t \in SyTasks :
          \/ \E m \in SyMutexes : \/ LockFree(t, m) \/ LockWaits(t, m) \/ Nest(t, m)
                                  \/ MarkConsistentPlain(t, m) \/ MarkConsistent(t, m)
                                  \/ Drop(t, m)
          \/ LockInterrupted(t) \/ LockGranted(t) \/ NestStores(t)
          \/ AbandonedStores(t) \/ AbandonedMarks(t) \/ LockReturns(t)
          \/ MarkStores(t) \/ UnnestStores(t) \/ ExitWithGuards(t)
    BY <1>2 DEF SyncNext
  <2>2. ASSUME NEW m \in SyMutexes, LockFree(t, m) PROVE SyInv'
    BY <2>2, LockFreePreserves
  <2>3. ASSUME NEW m \in SyMutexes, LockWaits(t, m) PROVE SyInv'
    BY <2>3, LockWaitsPreserves
  <2>4. ASSUME NEW m \in SyMutexes, Nest(t, m) PROVE SyInv'
    BY <2>4, NestPreserves
  <2>5. ASSUME NEW m \in SyMutexes, MarkConsistentPlain(t, m) PROVE SyInv'
    BY <2>5, MarkConsistentPlainPreserves
  <2>6. ASSUME NEW m \in SyMutexes, MarkConsistent(t, m) PROVE SyInv'
    BY <2>6, MarkConsistentPreserves
  <2>7. ASSUME NEW m \in SyMutexes, Drop(t, m) PROVE SyInv'
    BY <2>7, DropPreserves
  <2>8. CASE LockInterrupted(t)
    BY <2>8, LockInterruptedPreserves
  <2>9. CASE LockGranted(t)
    BY <2>9, LockGrantedPreserves
  <2>10. CASE NestStores(t)
    BY <2>10, NestStoresPreserves
  <2>11. CASE AbandonedStores(t)
    BY <2>11, AbandonedStoresPreserves
  <2>12. CASE AbandonedMarks(t)
    BY <2>12, AbandonedMarksPreserves
  <2>13. CASE LockReturns(t)
    BY <2>13, LockReturnsPreserves
  <2>14. CASE MarkStores(t)
    BY <2>14, MarkStoresPreserves
  <2>15. CASE UnnestStores(t)
    BY <2>15, UnnestStoresPreserves
  <2>16. CASE ExitWithGuards(t)
    BY <2>16, ExitWithGuardsPreserves
  <2> QED
    BY <2>1, <2>2, <2>3, <2>4, <2>5, <2>6, <2>7, <2>8, <2>9, <2>10, <2>11, <2>12, <2>13,
       <2>14, <2>15, <2>16
<1> QED
  BY <1>1, <1>2

\* When no method of m is under way, the level counts the guards.
LEMMA InvImpliesSound ==
  ASSUME SyInv
  PROVE  GuardsSound
<1>1. SyTypes /\ Permission
  BY DEF SyInv
<1>2. NestingExact
  <2> SUFFICES ASSUME NEW m \in Recursive, syPanic = "none", m \notin syInconsistent, Quiet(m)
               PROVE  IF syOwner[m] = NoOne THEN Count(syLevel[m]) = 0
                      ELSE Len(syGuards[syOwner[m]][m]) = Count(syLevel[m]) + 1
    BY DEF NestingExact
  <2>1. NestedAt(m) /\ syOwner[m] \in SyTasks \cup {NoOne}
    BY <1>1 DEF SyInv, Nested, SyTypes, SyMutexes
  <2>2. ASSUME NEW t \in SyTasks, syOwner[m] = t, t # NoOne
        PROVE  Len(syGuards[t][m]) = Count(syLevel[m]) + 1
    <3>1. Nests(t, m) /\ Within(t, m) = "run"
      BY <2>1, <2>2 DEF NestedAt, Quiet, Within
    <3> QED
      BY <3>1 DEF Nests, Guards
  <2> QED
    BY <2>1, <2>2 DEF NestedAt
<1>3. \A t \in SyTasks, m \in SyMutexes : HasGuard(t, m) =>
        syOwner[m] = t /\ (m \in syDirty => "Ok" \notin ToSet(syGuards[t][m]))
  BY <1>1 DEF Permission, Permits
<1> QED
  BY <1>2, <1>3 DEF GuardsSound, SyInv

\* r3::sync::mutex and r3::sync::recursive_mutex: if only tasks that hold a guard call
\* mark_consistent, then only the owner of the lock has guards, none that came with Ok
\* gives access to data that the exit of a task left inconsistent, the nesting count
\* is that of the guards, and no method panics but for too deep a nesting or a wrong
\* order of unlocking by the application.
THEOREM GuardsSoundCorrect == MarkedBy = "holder" => (SyncSpec => []GuardsSound)
<1> SUFFICES ASSUME MarkedBy = "holder" PROVE SyncSpec => []GuardsSound
  OBVIOUS
<1>1. SyncInit => SyInv
  BY SyncInitially
<1>2. SyInv /\ [SyncNext]_syVars => SyInv'
  BY SyncStep
<1>3. SyInv => GuardsSound
  BY InvImpliesSound
<1> QED
  BY <1>1, <1>2, <1>3, PTL DEF SyncSpec

=============================================================================
