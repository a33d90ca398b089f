---------------------------- MODULE KernelProofs ----------------------------
(***************************************************************************)
(* Types and structure of Kernel: which lists link a task, what its thread *)
(* does and which task the processor runs.                                 *)
(***************************************************************************)
EXTENDS Kernel, ListLemmas

\* The statics of the kernel are initialised to values of their types.
LEMMA InitTypeOK == Init => TypeOK
<1> SUFFICES ASSUME Init PROVE TypeOK
  OBVIOUS
<1> USE DEF Init, SchedInit
<1>1. running_task \in Tasks \cup {None}
  OBVIOUS
<1>2. st \in [Tasks -> TaskSt]
  BY DEF TaskSt
<1>3. base_priority \in [Tasks -> Prio] /\ effective_priority \in [Tasks -> Prio]
  BY PrioAssumption
<1>4. park_token \in [Tasks -> BOOLEAN] /\ timeout \in [Tasks -> BOOLEAN]
  OBVIOUS
<1>5. ready_queue \in [Prio -> Seq(Tasks)] /\ bitmap \in SUBSET Prio
  OBVIOUS
<1>6. wait_queue \in [Objects -> Seq(Tasks)]
  OBVIOUS
<1>7. current_wait \in [Tasks -> WaitTarget \cup {None}]
  OBVIOUS
<1>8. wait_result \in [Tasks -> WaitResult]
  BY DEF WaitResult
<1>9. frame \in [Tasks -> Frame \cup {None}]
  OBVIOUS
<1>10. pc \in [Tasks -> PC]
  BY DEF PC
<1>11. priority_boost \in BOOLEAN /\ yield_pending \in BOOLEAN
  OBVIOUS
<1>12. cpu_lock \in CpuLock /\ interrupt \in Interrupt
  BY DEF CpuLock, Interrupt
<1>13. /\ owning_task \in [Mutexes -> Tasks \cup {None}]
       /\ held \in [Tasks -> Seq(Mutexes)]
       /\ inconsistent \in [Mutexes -> BOOLEAN]
  OBVIOUS
<1> QED
  BY <1>1, <1>2, <1>3, <1>4, <1>5, <1>6, <1>7, <1>8, <1>9, <1>10, <1>11,
     <1>12, <1>13 DEF TypeOK, SchedTypeOK

-----------------------------------------------------------------------------
(* The inductive invariant *)

\* A bit of the bitmap is set only if its queue is not empty, so pop_front_task
\* finds a task there; and the task in exit_task exists.
BitmapSound == \A p \in bitmap : ready_queue[p] # <<>>
ExitRunning == cpu_lock = "exit" => running_task \in Tasks
TypeInv == TypeOK /\ BitmapSound /\ ExitRunning

QueueTypeOK ==
  ready_queue \in [Prio -> Seq(Tasks)] /\ bitmap \in SUBSET Prio /\ BitmapSound

\* Appending a task to a ready queue and setting its bit.
LEMMA PushBackSound ==
  ASSUME NEW q \in [Prio -> Seq(Tasks)], NEW b \in SUBSET Prio,
         NEW t \in Tasks, NEW p \in Prio, \A i \in b \ {p} : q[i] # <<>>
  PROVE  /\ PushBackTask(q, t, p) \in [Prio -> Seq(Tasks)]
         /\ \A i \in b \cup {p} : PushBackTask(q, t, p)[i] # <<>>
<1>1. Append(q[p], t) \in Seq(Tasks) /\ Append(q[p], t) # <<>>
  BY AppendProperties
<1>2. PushBackTask(q, t, p) = [q EXCEPT ![p] = Append(q[p], t)]
  BY DEF PushBackTask
<1> QED
  BY <1>1, <1>2

\* ListAccessorCell::remove leaves a list of tasks.
LEMMA UnlinkType ==
  ASSUME NEW q \in Seq(Tasks), NEW t PROVE Unlink(q, t) \in Seq(Tasks)
<1>1. CASE t \in ToSet(q)
  <2>1. (CHOOSE i \in DOMAIN q : q[i] = t) \in DOMAIN q
    BY <1>1 DEF ToSet
  <2> QED
    BY <1>1, <2>1, RemoveAtType DEF Unlink
<1>2. CASE t \notin ToSet(q)
  BY <1>2 DEF Unlink
<1> QED
  BY <1>1, <1>2

\* The position that find_insertion_position_by_task_priority finds lies within
\* the list or at its end.
LEMMA InsertionInRange ==
  ASSUME NEW q \in Seq(Tasks), NEW p
  PROVE  InsertionPosition(q, p) \in 1 .. Len(q) + 1
<1> DEFINE S == {0} \cup {i \in DOMAIN q : effective_priority'[q[i]] <= p}
<1>1. S \in SUBSET (0 .. Len(q)) /\ S # {}
  OBVIOUS
<1>2. InsertionPosition(q, p) = Max(S) + 1
  BY DEF InsertionPosition
<1> HIDE DEF S
<1>3. Max(S) \in 0 .. Len(q)
  BY <1>1, MaxNat, LenProperties
<1> QED
  BY <1>2, <1>3

\* Linking a Wait in either order leaves a list of tasks.
LEMMA EnqueueWaitType ==
  ASSUME NEW q \in Seq(Tasks), NEW o \in Objects, NEW t \in Tasks
  PROVE  EnqueueWait(q, o, t) \in Seq(Tasks)
<1>1. CASE QueueOrder[o] = "Fifo"
  BY <1>1, AppendProperties DEF EnqueueWait
<1>2. CASE QueueOrder[o] # "Fifo"
  BY <1>2, InsertionInRange, InsertAtType DEF EnqueueWait
<1> QED
  BY <1>1, <1>2

\* evaluate_task_effective_priority and the raise of lock_core return priorities.
LEMMA EvaluateType ==
  ASSUME NEW b \in Prio, NEW h \in Seq(Mutexes)
  PROVE  EvaluateEffectivePriority(b, h) \in Prio
<1> DEFINE S == {b} \cup {Ceiling[m] : m \in ToSet(h)}
<1>1. ToSet(h) \subseteq Mutexes
  BY DEF ToSet
<1>2. \A m \in ToSet(h) : Ceiling[m] \in Nat
  BY <1>1, MutexAssumption, PrioAssumption
<1>3. S \in SUBSET Nat /\ S # {}
  BY <1>2, PrioAssumption DEF Prio
<1>4. Min(S) \in Nat /\ Min(S) <= b
  BY <1>3, MinNat
<1> QED
  BY <1>4, PrioAssumption DEF EvaluateEffectivePriority, Prio

\* The effective priority that lock_core computes is a priority, even for a
\* mutex with no ceiling.
LEMMA RaiseType ==
  ASSUME NEW b \in Prio, NEW m \in Mutexes PROVE Min({b, Ceiling[m]}) \in Prio
<1>1. Ceiling[m] \in Nat
  BY MutexAssumption, PrioAssumption
<1>2. {b, Ceiling[m]} \in SUBSET Nat /\ {b, Ceiling[m]} # {}
  BY <1>1, PrioAssumption DEF Prio
<1>3. Min({b, Ceiling[m]}) \in Nat /\ Min({b, Ceiling[m]}) <= b
  BY <1>2, MinNat
<1> QED
  BY <1>3, PrioAssumption DEF Prio

-----------------------------------------------------------------------------
(* The building blocks of the actions *)

\* make_ready keeps the ready queue well formed under the new priority.
LEMMA MakeReadySound ==
  ASSUME TypeInv, NEW t \in Tasks, effective_priority' \in [Tasks -> Prio],
         MakeReady(t)
  PROVE  st' \in [Tasks -> TaskSt] /\ QueueTypeOK'
<1> USE DEF TypeInv, TypeOK, SchedTypeOK
<1>1. st' \in [Tasks -> TaskSt]
  BY DEF MakeReady, TaskSt
<1>2. effective_priority'[t] \in Prio
  OBVIOUS
<1>3. QueueTypeOK'
  BY <1>2, PushBackSound DEF MakeReady, QueueTypeOK, BitmapSound
<1> QED
  BY <1>1, <1>3

\* reorder_task clears the bit of the queue it empties, and no other.
LEMMA ReorderTaskSound ==
  ASSUME TypeInv, NEW t \in Tasks, NEW p \in Prio, NEW old \in Prio, p # old,
         ReorderTask(t, p, old)
  PROVE  QueueTypeOK'
<1> USE DEF TypeInv, TypeOK, SchedTypeOK
<1> DEFINE q == [ready_queue EXCEPT ![old] = Unlink(ready_queue[old], t)]
           b == IF q[old] = <<>> THEN bitmap \ {old} ELSE bitmap
<1>1. Unlink(ready_queue[old], t) \in Seq(Tasks)
  BY UnlinkType
<1>2. q \in [Prio -> Seq(Tasks)] /\ b \in SUBSET Prio
  BY <1>1
<1>3. \A i \in b \ {p} : q[i] # <<>>
  BY DEF BitmapSound
<1>4. ready_queue' = PushBackTask(q, t, p) /\ bitmap' = b \cup {p}
  BY DEF ReorderTask
<1> HIDE DEF q, b
<1> QED
  BY <1>2, <1>3, <1>4, PushBackSound DEF QueueTypeOK, BitmapSound

\* choose_next_running_task dequeues a task where the bitmap has a bit.
LEMMA ChooseSound ==
  ASSUME TypeInv, NEW run \in Tasks \cup {None}, NEW s \in [Tasks -> TaskSt],
         ChooseNextRunningTask(run, s)
  PROVE  /\ running_task' \in Tasks \cup {None}
         /\ st' \in [Tasks -> TaskSt]
         /\ QueueTypeOK'
<1> USE DEF TypeInv, TypeOK, SchedTypeOK
<1> DEFINE p == NextPriority
           next == Head(ready_queue[p])
           popped == [ready_queue EXCEPT ![p] = Tail(ready_queue[p])]
           left == IF popped[p] = <<>> THEN bitmap \ {p} ELSE bitmap
<1>1. CASE UNCHANGED queueVars /\ running_task' \in {run, None} /\ st' = s
  BY <1>1 DEF queueVars, QueueTypeOK, BitmapSound
<1>2. ASSUME bitmap # {}
      PROVE  /\ p \in Prio /\ next \in Tasks
             /\ popped \in [Prio -> Seq(Tasks)] /\ left \in SUBSET Prio
             /\ \A i \in left : popped[i] # <<>>
  <2>1. bitmap \in SUBSET Nat
    BY PrioAssumption DEF Prio
  <2>2. p \in bitmap
    BY <1>2, <2>1, MinNat DEF NextPriority
  <2>3. ready_queue[p] \in Seq(Tasks) /\ ready_queue[p] # <<>>
    BY <2>2 DEF BitmapSound
  <2>4. next \in Tasks /\ Tail(ready_queue[p]) \in Seq(Tasks)
    BY <2>3, HeadTailProperties
  <2>5. popped \in [Prio -> Seq(Tasks)] /\ left \in SUBSET Prio
    BY <2>4
  <2> HIDE DEF p
  <2>6. \A i \in left : popped[i] # <<>>
    BY <2>2 DEF BitmapSound
  <2> QED
    BY <2>2, <2>4, <2>5, <2>6
<1>3. CASE /\ bitmap # {}
           /\ running_task' = next
           /\ st' = [s EXCEPT ![next] = "Running"]
           /\ ready_queue' = popped
           /\ bitmap' = left
  <2> HIDE DEF next, popped, left
  <2> QED
    BY <1>2, <1>3 DEF TaskSt, QueueTypeOK, BitmapSound
<1>4. CASE /\ bitmap # {} /\ run # None
           /\ running_task' = next
           /\ st' = [s EXCEPT ![next] = "Running", ![run] = "Ready"]
           /\ ready_queue' = PushBackTask(popped, run, effective_priority[run])
           /\ bitmap' = left \cup {effective_priority[run]}
  <2>1. run \in Tasks /\ effective_priority[run] \in Prio
    BY <1>4
  <2> HIDE DEF next, popped, left
  <2>2. QueueTypeOK'
    <3> DEFINE e == effective_priority[run]
    <3>1. e \in Prio /\ popped \in [Prio -> Seq(Tasks)] /\ left \in SUBSET Prio
      BY <1>2, <1>4, <2>1
    <3>2. \A i \in left \ {e} : popped[i] # <<>>
      BY <1>2, <1>4
    <3>3. ready_queue' = PushBackTask(popped, run, e) /\ bitmap' = left \cup {e}
      BY <1>4
    <3> HIDE DEF e
    <3> QED
      BY <2>1, <3>1, <3>2, <3>3, PushBackSound DEF QueueTypeOK, BitmapSound
  <2>3. st' \in [Tasks -> TaskSt]
    BY <1>2, <1>4, <2>1 DEF TaskSt
  <2> QED
    BY <1>2, <1>4, <2>2, <2>3
<1> QED
  BY <1>1, <1>3, <1>4 DEF ChooseNextRunningTask

\* unlock_cpu_and_check_preemption only moves its caller to yield_cpu.
LEMMA UnlockCpuType ==
  ASSUME TypeInv, NEW c \in Context, NEW s \in [Tasks -> PC],
         UnlockCpuAndCheckPreemption(c, s)
  PROVE  pc' \in [Tasks -> PC] /\ yield_pending' \in BOOLEAN
<1>1. pc' \in [Tasks -> PC]
  BY DEF UnlockCpuAndCheckPreemption, PC, Context
<1>2. yield_pending' \in BOOLEAN
  BY Zenon DEF UnlockCpuAndCheckPreemption
<1> QED
  BY <1>1, <1>2

\* The front half of a blocking service preserves the types.
LEMMA BeginWaitSound ==
  ASSUME TypeInv, NEW t \in Tasks, NEW o \in WaitTarget, NEW timed \in BOOLEAN,
         BeginWait(t, o, timed)
  PROVE  /\ wait_queue' \in [Objects -> Seq(Tasks)]
         /\ current_wait' \in [Tasks -> WaitTarget \cup {None}]
         /\ frame' \in [Tasks -> Frame \cup {None}]
         /\ timeout' \in [Tasks -> BOOLEAN]
         /\ st' \in [Tasks -> TaskSt]
         /\ pc' \in [Tasks -> PC]
<1> USE DEF TypeInv, TypeOK, SchedTypeOK
<1>1. wait_queue' \in [Objects -> Seq(Tasks)]
  <2>1. CASE o \in Objects
    <3>1. EnqueueWait(wait_queue[o], o, t) \in Seq(Tasks)
      BY <2>1, EnqueueWaitType
    <3> QED
      BY <2>1, <3>1 DEF BeginWait
  <2>2. CASE o \notin Objects
    BY <2>2 DEF BeginWait
  <2> QED
    BY <2>1, <2>2
<1>2. current_wait' \in [Tasks -> WaitTarget \cup {None}]
  BY DEF BeginWait
<1>3. frame' \in [Tasks -> Frame \cup {None}]
  <2>1. [on |-> o, timed |-> timed] \in Frame
    BY DEF Frame
  <2> QED
    BY <2>1 DEF BeginWait
<1>4. timeout' \in [Tasks -> BOOLEAN]
  BY DEF BeginWait
<1>5. st' \in [Tasks -> TaskSt] /\ pc' \in [Tasks -> PC]
  BY DEF BeginWait, TaskSt, PC
<1> QED
  BY <1>1, <1>2, <1>3, <1>4, <1>5

\* complete_wait preserves the types.
LEMMA CompleteWaitSound ==
  ASSUME TypeInv, NEW t \in Tasks, NEW result \in WaitResult,
         effective_priority' \in [Tasks -> Prio], CompleteWait(t, result)
  PROVE  /\ current_wait' \in [Tasks -> WaitTarget \cup {None}]
         /\ wait_result' \in [Tasks -> WaitResult]
         /\ st' \in [Tasks -> TaskSt]
         /\ QueueTypeOK'
<1>1. st' \in [Tasks -> TaskSt] /\ QueueTypeOK'
  BY MakeReadySound DEF CompleteWait
<1>2. /\ current_wait' \in [Tasks -> WaitTarget \cup {None}]
      /\ wait_result' \in [Tasks -> WaitResult]
  BY DEF CompleteWait, TypeInv, TypeOK, SchedTypeOK
<1> QED
  BY <1>1, <1>2

\* wake_up_one preserves the types.
LEMMA WakeUpOneSound ==
  ASSUME TypeInv, NEW o \in Objects, wait_queue[o] # <<>>,
         effective_priority' \in [Tasks -> Prio], WakeUpOne(o)
  PROVE  /\ wait_queue' \in [Objects -> Seq(Tasks)]
         /\ current_wait' \in [Tasks -> WaitTarget \cup {None}]
         /\ wait_result' \in [Tasks -> WaitResult]
         /\ st' \in [Tasks -> TaskSt]
         /\ QueueTypeOK'
<1>1. wait_queue \in [Objects -> Seq(Tasks)]
  BY DEF TypeInv, TypeOK, SchedTypeOK
<1>2. Head(wait_queue[o]) \in Tasks /\ Tail(wait_queue[o]) \in Seq(Tasks)
  BY <1>1, HeadTailProperties
<1>3. wait_queue' \in [Objects -> Seq(Tasks)]
  BY <1>1, <1>2 DEF WakeUpOne
<1>4. "Ok" \in WaitResult
  BY DEF WaitResult
<1> QED
  BY <1>2, <1>3, <1>4, CompleteWaitSound DEF WakeUpOne

\* interrupt_task preserves the types.
LEMMA InterruptTaskSound ==
  ASSUME TypeInv, NEW t \in Tasks, NEW result \in WaitResult,
         effective_priority' \in [Tasks -> Prio], InterruptTask(t, result)
  PROVE  /\ wait_queue' \in [Objects -> Seq(Tasks)]
         /\ current_wait' \in [Tasks -> WaitTarget \cup {None}]
         /\ wait_result' \in [Tasks -> WaitResult]
         /\ st' \in [Tasks -> TaskSt]
         /\ QueueTypeOK'
<1>1. wait_queue \in [Objects -> Seq(Tasks)]
  BY DEF TypeInv, TypeOK, SchedTypeOK
<1>2. \A o \in Objects : Unlink(wait_queue[o], t) \in Seq(Tasks)
  BY <1>1, UnlinkType
<1>3. wait_queue' \in [Objects -> Seq(Tasks)]
  BY <1>1, <1>2 DEF InterruptTask
<1> QED
  BY <1>3, CompleteWaitSound DEF InterruptTask

\* unlock_mutex_unchecked preserves the types, with and without a waiter.
LEMMA UnlockMutexUncheckedSound ==
  ASSUME TypeInv, NEW m \in Mutexes, NEW h \in [Tasks -> Seq(Mutexes)],
         NEW e \in [Tasks -> Prio], UnlockMutexUnchecked(m, h, e)
  PROVE  /\ wait_queue' \in [Objects -> Seq(Tasks)]
         /\ current_wait' \in [Tasks -> WaitTarget \cup {None}]
         /\ wait_result' \in [Tasks -> WaitResult]
         /\ st' \in [Tasks -> TaskSt]
         /\ QueueTypeOK'
         /\ owning_task' \in [Mutexes -> Tasks \cup {None}]
         /\ held' \in [Tasks -> Seq(Mutexes)]
         /\ effective_priority' \in [Tasks -> Prio]
<1> USE DEF TypeInv, TypeOK, SchedTypeOK
<1>1. m \in Objects
  BY MutexAssumption
<1>2. CASE wait_queue[m] # <<>>
  <2> DEFINE next == Head(wait_queue[m])
  <2>1. next \in Tasks
    BY <1>1, <1>2, HeadTailProperties
  <2>2. /\ owning_task' = [owning_task EXCEPT ![m] = next]
        /\ held' = [h EXCEPT ![next] = Append(h[next], m)]
        /\ effective_priority' = [e EXCEPT ![next] = Min({e[next], Ceiling[m]})]
        /\ WakeUpOne(m)
    BY <1>2 DEF UnlockMutexUnchecked
  <2> HIDE DEF next
  <2>3. Min({e[next], Ceiling[m]}) \in Prio
    BY <2>1, RaiseType
  <2>4. Append(h[next], m) \in Seq(Mutexes)
    BY <2>1, AppendProperties
  <2>5. effective_priority' \in [Tasks -> Prio]
    BY <2>2, <2>3
  <2>6. held' \in [Tasks -> Seq(Mutexes)]
    BY <2>2, <2>4
  <2>7. owning_task' \in [Mutexes -> Tasks \cup {None}]
    BY <2>1, <2>2
  <2> QED
    BY <1>1, <1>2, <2>2, <2>5, <2>6, <2>7, WakeUpOneSound
<1>3. CASE wait_queue[m] = <<>>
  BY <1>3 DEF UnlockMutexUnchecked, queueVars, waitVars, QueueTypeOK, BitmapSound
<1> QED
  BY <1>2, <1>3

-----------------------------------------------------------------------------
(* Every step preserves the invariant *)

\* Boot code preserves the invariant.
LEMMA BootSound == TypeInv /\ Boot => TypeInv'
<1> SUFFICES ASSUME TypeInv, Boot PROVE TypeInv'
  OBVIOUS
<1> USE DEF TypeInv, TypeOK, SchedTypeOK, waitVars, stackVars, mutexVars, prioVars
<1>1. CASE DispatchFirstTask
  <2>1. /\ running_task' \in Tasks \cup {None} /\ st' \in [Tasks -> TaskSt]
        /\ QueueTypeOK'
    BY <1>1, ChooseSound DEF DispatchFirstTask
  <2> QED
    BY <1>1, <2>1 DEF DispatchFirstTask, QueueTypeOK, ExitRunning, CpuLock
<1>2. ASSUME NEW t \in Tasks, InitTask(t) PROVE TypeInv'
  <2>1. st' \in [Tasks -> TaskSt] /\ QueueTypeOK'
    BY <1>2, MakeReadySound DEF InitTask
  <2> QED
    BY <1>2, <2>1 DEF InitTask, QueueTypeOK, ExitRunning, cpuVars, PC
<1> QED
  BY <1>1, <1>2 DEF Boot

\* Interrupts and the dispatcher preserve the invariant.
LEMMA DispatchingSound == TypeInv /\ Dispatching => TypeInv'
<1> SUFFICES ASSUME TypeInv, Dispatching PROVE TypeInv'
  OBVIOUS
<1> USE DEF TypeInv, TypeOK, SchedTypeOK, waitVars, stackVars, mutexVars, prioVars
<1>1. CASE EnterInterrupt
  BY <1>1 DEF EnterInterrupt, taskVars, Interrupt, BitmapSound, ExitRunning
<1>2. CASE LeaveInterrupt
  <2>1. /\ running_task' \in Tasks \cup {None} /\ st' \in [Tasks -> TaskSt]
        /\ QueueTypeOK'
    <3>1. CASE yield_pending
      BY <1>2, <3>1, ChooseSound DEF LeaveInterrupt
    <3>2. CASE ~yield_pending
      BY <1>2, <3>2 DEF LeaveInterrupt, taskVars, QueueTypeOK, BitmapSound
    <3> QED
      BY <3>1, <3>2
  <2> QED
    BY <1>2, <2>1 DEF LeaveInterrupt, Interrupt, QueueTypeOK, ExitRunning
<1>3. ASSUME NEW t \in Tasks, YieldCpu(t) PROVE TypeInv'
  <2>1. /\ running_task' \in Tasks \cup {None} /\ st' \in [Tasks -> TaskSt]
        /\ QueueTypeOK'
    BY <1>3, ChooseSound DEF YieldCpu
  <2>2. pc' \in [Tasks -> PC]
    BY <1>3 DEF YieldCpu, PC
  <2> QED
    BY <1>3, <2>1, <2>2 DEF YieldCpu, cpuVars, QueueTypeOK, ExitRunning
<1>4. ASSUME NEW t \in Tasks, FinishWait(t) PROVE TypeInv'
  BY <1>4 DEF FinishWait, taskVars, cpuVars, PC, BitmapSound, ExitRunning
<1> QED
  BY <1>1, <1>2, <1>3, <1>4 DEF Dispatching

\* The services of CPU Lock and Priority Boost preserve the invariant.
LEMMA LockingSound == TypeInv /\ Locking => TypeInv'
<1> SUFFICES ASSUME TypeInv, Locking PROVE TypeInv'
  OBVIOUS
<1> USE DEF TypeInv, TypeOK, SchedTypeOK, waitVars, stackVars, mutexVars, prioVars,
            taskVars, BitmapSound, ExitRunning
<1>1. ASSUME NEW c \in Context, AcquireCpuLock(c) PROVE TypeInv'
  BY <1>1 DEF AcquireCpuLock, CpuLock
<1>2. CASE ReleaseCpuLock
  BY <1>2 DEF ReleaseCpuLock, CpuLock
<1>3. ASSUME NEW t \in Tasks, BoostPriority(t) PROVE TypeInv'
  BY <1>3 DEF BoostPriority
<1>4. ASSUME NEW t \in Tasks, UnboostPriority(t) PROVE TypeInv'
  <2>1. pc' \in [Tasks -> PC] /\ yield_pending' \in BOOLEAN
    BY <1>4, UnlockCpuType DEF UnboostPriority, Context
  <2> QED
    BY <1>4, <2>1 DEF UnboostPriority
<1> QED
  BY <1>1, <1>2, <1>3, <1>4 DEF Locking

\* The steps of handle_tick preserve the invariant.
LEMMA TickSound == TypeInv /\ Tick => TypeInv'
<1> SUFFICES ASSUME TypeInv, Tick PROVE TypeInv'
  OBVIOUS
<1> USE DEF TypeInv, TypeOK, SchedTypeOK, waitVars, stackVars, mutexVars, prioVars,
            taskVars
<1>1. CASE TickBegin
  BY <1>1 DEF TickBegin, Interrupt, BitmapSound, ExitRunning
<1>2. ASSUME NEW t \in Tasks, TickExpire(t) PROVE TypeInv'
  <2>1. /\ wait_queue' \in [Objects -> Seq(Tasks)]
        /\ current_wait' \in [Tasks -> WaitTarget \cup {None}]
        /\ wait_result' \in [Tasks -> WaitResult]
        /\ st' \in [Tasks -> TaskSt]
        /\ QueueTypeOK'
    <3>1. CASE InterruptTask(t, "Timeout")
      <4>1. "Timeout" \in WaitResult /\ effective_priority' \in [Tasks -> Prio]
        BY <1>2 DEF TickExpire, WaitResult
      <4> QED
        BY <3>1, <4>1, InterruptTaskSound
    <3>2. CASE UNCHANGED <<st, queueVars, waitVars>>
      BY <3>2 DEF queueVars, QueueTypeOK, BitmapSound
    <3> QED
      BY <1>2, <3>1, <3>2 DEF TickExpire
  <2> QED
    BY <1>2, <2>1 DEF TickExpire, cpuVars, QueueTypeOK, ExitRunning
<1>3. CASE TimerCallbackBegin
  BY <1>3 DEF TimerCallbackBegin, Interrupt, BitmapSound, ExitRunning
<1>4. CASE TimerCallbackEnd
  BY <1>4 DEF TimerCallbackEnd, Interrupt, BitmapSound, ExitRunning
<1>5. CASE TickEnd
  <2>1. pc' \in [Tasks -> PC] /\ yield_pending' \in BOOLEAN
    BY <1>5, UnlockCpuType DEF TickEnd, Context
  <2> QED
    BY <1>5, <2>1 DEF TickEnd, Interrupt, BitmapSound, ExitRunning
<1> QED
  BY <1>1, <1>2, <1>3, <1>4, <1>5 DEF Tick

\* The mutex services preserve the invariant.
LEMMA MutexServiceSound == TypeInv /\ MutexService => TypeInv'
<1> SUFFICES ASSUME TypeInv, MutexService PROVE TypeInv'
  OBVIOUS
<1> USE DEF TypeInv, TypeOK, SchedTypeOK, waitVars, stackVars, prioVars, taskVars,
            cpuVars
<1>1. ASSUME NEW t \in Tasks, NEW m \in Mutexes, TryLockMutex(t, m) PROVE TypeInv'
  <2>1. Min({effective_priority[t], Ceiling[m]}) \in Prio
    BY RaiseType
  <2>2. Append(held[t], m) \in Seq(Mutexes)
    BY AppendProperties
  <2>3. /\ effective_priority' \in [Tasks -> Prio]
        /\ held' \in [Tasks -> Seq(Mutexes)]
        /\ owning_task' \in [Mutexes -> Tasks \cup {None}]
    BY <1>1, <2>1, <2>2 DEF TryLockMutex
  <2> QED
    BY <1>1, <2>3 DEF TryLockMutex, BitmapSound, ExitRunning
<1>2. ASSUME NEW t \in Tasks, NEW m \in Mutexes, NEW timed \in Timed,
             LockMutex(t, m, timed)
      PROVE  TypeInv'
  <2>1. m \in WaitTarget /\ timed \in BOOLEAN
    BY MutexAssumption DEF WaitTarget, Timed
  <2>2. /\ wait_queue' \in [Objects -> Seq(Tasks)]
        /\ current_wait' \in [Tasks -> WaitTarget \cup {None}]
        /\ frame' \in [Tasks -> Frame \cup {None}]
        /\ timeout' \in [Tasks -> BOOLEAN]
        /\ st' \in [Tasks -> TaskSt]
        /\ pc' \in [Tasks -> PC]
    BY <1>2, <2>1, BeginWaitSound DEF LockMutex
  <2> QED
    BY <1>2, <2>2 DEF LockMutex, BeginWait, queueVars, mutexVars, BitmapSound,
                      ExitRunning
<1>3. ASSUME NEW t \in Tasks, NEW m \in Mutexes, UnlockMutex(t, m) PROVE TypeInv'
  <2> DEFINE h == [held EXCEPT ![t] = Front(held[t])]
             e == [effective_priority EXCEPT
                     ![t] = EvaluateEffectivePriority(base_priority[t], h[t])]
  <2>1. UnlockMutexUnchecked(m, h, e) /\ held[t] # <<>>
    BY <1>3 DEF UnlockMutex
  <2>2. Front(held[t]) \in Seq(Mutexes)
    BY <2>1, FrontLastType
  <2>3. h \in [Tasks -> Seq(Mutexes)]
    BY <2>2
  <2> HIDE DEF h
  <2>4. EvaluateEffectivePriority(base_priority[t], h[t]) \in Prio
    BY <2>3, EvaluateType
  <2>5. e \in [Tasks -> Prio]
    BY <2>4
  <2> HIDE DEF e
  <2>6. /\ wait_queue' \in [Objects -> Seq(Tasks)]
        /\ current_wait' \in [Tasks -> WaitTarget \cup {None}]
        /\ wait_result' \in [Tasks -> WaitResult]
        /\ st' \in [Tasks -> TaskSt]
        /\ QueueTypeOK'
        /\ owning_task' \in [Mutexes -> Tasks \cup {None}]
        /\ held' \in [Tasks -> Seq(Mutexes)]
        /\ effective_priority' \in [Tasks -> Prio]
    BY <2>1, <2>3, <2>5, UnlockMutexUncheckedSound
  <2>7. pc' \in [Tasks -> PC] /\ yield_pending' \in BOOLEAN
    BY <1>3, UnlockCpuType DEF UnlockMutex, Context
  <2> QED
    BY <1>3, <2>6, <2>7 DEF UnlockMutex, QueueTypeOK, ExitRunning
<1>4. ASSUME NEW c \in Context, NEW m \in Mutexes, MarkConsistentMutex(c, m)
      PROVE  TypeInv'
  BY <1>4 DEF MarkConsistentMutex, schedVars, BitmapSound, ExitRunning
<1> QED
  BY <1>1, <1>2, <1>3, <1>4 DEF MutexService

\* set_task_base_priority preserves the invariant, whichever list links the task.
LEMMA SetTaskBasePrioritySound ==
  ASSUME TypeInv, NEW c \in Context, NEW t \in Tasks, NEW p \in Prio,
         SetTaskBasePriority(c, t, p)
  PROVE  TypeInv'
<1> USE DEF TypeInv, TypeOK, SchedTypeOK, stackVars, cpuVars, mutexVars
<1> DEFINE e == EvaluateEffectivePriority(p, held[t])
           old == effective_priority[t]
           o == current_wait[t]
<1>1. e \in Prio /\ old \in Prio
  BY EvaluateType
<1> HIDE DEF e
<1>2. /\ base_priority' \in [Tasks -> Prio]
      /\ effective_priority' \in [Tasks -> Prio]
  BY <1>1 DEF SetTaskBasePriority, e
<1>3. CASE UnlockCpuAndCheckPreemption(c, pc) \/ UNCHANGED <<pc, yield_pending>>
  <2>1. pc' \in [Tasks -> PC] /\ yield_pending' \in BOOLEAN
    BY <1>3, UnlockCpuType
  <2>2. QueueTypeOK' /\ wait_queue' \in [Objects -> Seq(Tasks)]
    <3>1. CASE UNCHANGED <<queueVars, wait_queue>>
      BY <3>1 DEF queueVars, QueueTypeOK, BitmapSound
    <3>2. CASE e # old /\ ReorderTask(t, e, old) /\ UNCHANGED wait_queue
      BY <1>1, <3>2, ReorderTaskSound
    <3>3. CASE UNCHANGED queueVars /\ ReorderWaitOfTask(t)
      <4>1. ASSUME o \in Objects
            PROVE  EnqueueWait(Unlink(wait_queue[o], t), o, t) \in Seq(Tasks)
        BY <4>1, UnlinkType, EnqueueWaitType
      <4>2. wait_queue' \in [Objects -> Seq(Tasks)]
        BY <3>3, <4>1 DEF ReorderWaitOfTask
      <4> QED
        BY <3>3, <4>2 DEF queueVars, QueueTypeOK, BitmapSound
    <3> QED
      BY <3>1, <3>2, <3>3 DEF SetTaskBasePriority, e
  <2> QED
    BY <1>2, <2>1, <2>2 DEF SetTaskBasePriority, QueueTypeOK, ExitRunning
<1> QED
  BY <1>3 DEF SetTaskBasePriority

\* The task services, exit_task included, preserve the invariant.
LEMMA TaskServiceSound == TypeInv /\ TaskService => TypeInv'
<1> SUFFICES ASSUME TypeInv, TaskService PROVE TypeInv'
  OBVIOUS
<1> USE DEF TypeInv, TypeOK, SchedTypeOK, waitVars, stackVars, prioVars, cpuVars
<1>1. ASSUME NEW c \in Context, NEW t \in Tasks, Activate(c, t) PROVE TypeInv'
  <2>1. /\ base_priority' \in [Tasks -> Prio]
        /\ effective_priority' \in [Tasks -> Prio]
    BY <1>1, PrioAssumption DEF Activate
  <2>2. st' \in [Tasks -> TaskSt] /\ QueueTypeOK'
    BY <1>1, <2>1, MakeReadySound DEF Activate
  <2>3. [pc EXCEPT ![t] = "run"] \in [Tasks -> PC]
    BY DEF PC
  <2>4. pc' \in [Tasks -> PC] /\ yield_pending' \in BOOLEAN
    BY <1>1, <2>3, UnlockCpuType DEF Activate
  <2> QED
    BY <1>1, <2>1, <2>2, <2>4 DEF Activate, mutexVars, QueueTypeOK, ExitRunning
<1>2. ASSUME NEW c \in Context, NEW t \in Tasks, NEW result \in WaitResult,
             InterruptTask(t, result), UnlockCpuAndCheckPreemption(c, pc),
             UNCHANGED <<running_task, prioVars, park_token, stackVars, cpuVars,
                         mutexVars>>
      PROVE  TypeInv'
  <2>1. effective_priority' \in [Tasks -> Prio]
    BY <1>2
  <2>2. /\ wait_queue' \in [Objects -> Seq(Tasks)]
        /\ current_wait' \in [Tasks -> WaitTarget \cup {None}]
        /\ wait_result' \in [Tasks -> WaitResult]
        /\ st' \in [Tasks -> TaskSt]
        /\ QueueTypeOK'
    BY <1>2, <2>1, InterruptTaskSound
  <2>3. pc' \in [Tasks -> PC] /\ yield_pending' \in BOOLEAN
    BY <1>2, UnlockCpuType
  <2> QED
    BY <1>2, <2>2, <2>3 DEF mutexVars, QueueTypeOK, ExitRunning
<1>3. ASSUME NEW c \in Context, NEW t \in Tasks, TaskInterrupt(c, t) PROVE TypeInv'
  BY <1>2, <1>3 DEF TaskInterrupt, WaitResult
<1>4. ASSUME NEW c \in Context, NEW t \in Tasks, UnparkParked(c, t) PROVE TypeInv'
  BY <1>2, <1>4 DEF UnparkParked, WaitResult
<1>5. ASSUME NEW c \in Context, NEW t \in Tasks, UnparkToken(c, t) PROVE TypeInv'
  BY <1>5 DEF UnparkToken, taskVars, mutexVars, BitmapSound, ExitRunning
<1>6. ASSUME NEW t \in Tasks, ExitTask(t) PROVE TypeInv'
  BY <1>6 DEF ExitTask, taskVars, mutexVars, CpuLock, BitmapSound, ExitRunning
<1>7. ASSUME NEW t \in Tasks, ParkWithToken(t) PROVE TypeInv'
  BY <1>7 DEF ParkWithToken, taskVars, mutexVars, BitmapSound, ExitRunning
<1>8. ASSUME NEW t \in Tasks, NEW o \in {"Park", "Sleep"}, NEW timed \in BOOLEAN,
             BeginWait(t, o, timed),
             UNCHANGED <<park_token, cpuVars, yield_pending, mutexVars>>
      PROVE  TypeInv'
  <2>1. o \in WaitTarget
    BY DEF WaitTarget
  <2>2. /\ wait_queue' \in [Objects -> Seq(Tasks)]
        /\ current_wait' \in [Tasks -> WaitTarget \cup {None}]
        /\ frame' \in [Tasks -> Frame \cup {None}]
        /\ timeout' \in [Tasks -> BOOLEAN]
        /\ st' \in [Tasks -> TaskSt]
        /\ pc' \in [Tasks -> PC]
    BY <1>8, <2>1, BeginWaitSound
  <2> QED
    BY <1>8, <2>2 DEF BeginWait, queueVars, mutexVars, BitmapSound, ExitRunning
<1>9. ASSUME NEW t \in Tasks, NEW timed \in Timed, Park(t, timed) PROVE TypeInv'
  BY <1>8, <1>9 DEF Park, Timed
<1>10. ASSUME NEW t \in Tasks, Sleep(t) PROVE TypeInv'
  BY <1>8, <1>10 DEF Sleep
<1>11. CASE AbandonHeldMutex
  <2> DEFINE m == Last(held[running_task])
             h == [held EXCEPT ![running_task] = Front(held[running_task])]
  <2>1. running_task \in Tasks /\ held[running_task] # <<>>
    BY <1>11 DEF AbandonHeldMutex, ExitRunning
  <2>2. m \in Mutexes /\ Front(held[running_task]) \in Seq(Mutexes)
    BY <2>1, FrontLastType
  <2>3. h \in [Tasks -> Seq(Mutexes)]
    BY <2>2
  <2>4. /\ UnlockMutexUnchecked(m, h, effective_priority)
        /\ inconsistent' = [inconsistent EXCEPT ![m] = TRUE]
    BY <1>11 DEF AbandonHeldMutex
  <2> HIDE DEF m, h
  <2>5. /\ wait_queue' \in [Objects -> Seq(Tasks)]
        /\ current_wait' \in [Tasks -> WaitTarget \cup {None}]
        /\ wait_result' \in [Tasks -> WaitResult]
        /\ st' \in [Tasks -> TaskSt]
        /\ QueueTypeOK'
        /\ owning_task' \in [Mutexes -> Tasks \cup {None}]
        /\ held' \in [Tasks -> Seq(Mutexes)]
        /\ effective_priority' \in [Tasks -> Prio]
    BY <2>2, <2>3, <2>4, UnlockMutexUncheckedSound
  <2> QED
    BY <1>11, <2>1, <2>4, <2>5 DEF AbandonHeldMutex, QueueTypeOK, ExitRunning
<1>12. CASE ExitAndDispatch
  <2>1. running_task \in Tasks
    BY <1>12 DEF ExitAndDispatch, ExitRunning
  <2>2. [st EXCEPT ![running_task] = "Dormant"] \in [Tasks -> TaskSt]
    BY DEF TaskSt
  <2>3. /\ running_task' \in Tasks \cup {None} /\ st' \in [Tasks -> TaskSt]
        /\ QueueTypeOK'
    BY <1>12, <2>2, ChooseSound DEF ExitAndDispatch
  <2> QED
    BY <1>12, <2>1, <2>3 DEF ExitAndDispatch, mutexVars, CpuLock, PC, QueueTypeOK,
                             ExitRunning
<1>13. ASSUME NEW c \in Context, NEW t \in Tasks, NEW p \in SettablePrio,
              SetTaskBasePriority(c, t, p)
       PROVE  TypeInv'
  BY <1>13, SetTaskBasePrioritySound, InputAssumption
<1> QED
  BY <1>1, <1>3, <1>4, <1>5, <1>6, <1>7, <1>9, <1>10, <1>11, <1>12, <1>13
     DEF TaskService

\* Every step of the kernel preserves the invariant.
LEMMA TypeInvStep == TypeInv /\ [Next]_vars => TypeInv'
<1>1. ASSUME TypeInv, UNCHANGED vars PROVE TypeInv'
  BY <1>1 DEF vars, schedVars, mutexVars, TypeInv, TypeOK, SchedTypeOK,
              BitmapSound, ExitRunning
<1> QED
  BY <1>1, BootSound, DispatchingSound, LockingSound, TaskServiceSound,
     MutexServiceSound, TickSound DEF Next

\* In every state the kernel reaches, every variable has its type: in particular
\* pop_front_task finds a task whenever the bitmap says so, priorities computed
\* from ceilings index a ready queue, and removal and insertion by priority
\* leave proper lists.
THEOREM TypeCorrect == Spec => []TypeOK
<1>1. Init => TypeInv
  <2>1. Init => BitmapSound /\ ExitRunning
    BY DEF Init, SchedInit, BitmapSound, ExitRunning
  <2> QED
    BY <2>1, InitTypeOK DEF TypeInv
<1>2. TypeInv => TypeOK
  BY DEF TypeInv
<1> QED
  BY <1>1, <1>2, TypeInvStep, PTL DEF Spec

-----------------------------------------------------------------------------
(* Structure *)

\* A task is linked in the wait queue of what it waits for, and nowhere else.
WaitLinked ==
  /\ \A o \in Objects, t \in Tasks :
       t \in ToSet(wait_queue[o]) <=> current_wait[t] = o
  /\ \A o \in Objects : IsInjective(wait_queue[o])
  /\ \A t \in Tasks : current_wait[t] # None <=> st[t] = "Waiting"

\* The Wait of a task is on its stack exactly while its thread is in a wait.
StackFrame ==
  \A t \in Tasks :
    /\ current_wait[t] # None => frame[t] # None /\ frame[t].on = current_wait[t]
    /\ frame[t] # None <=> pc[t] \in {"wait", "resume"}

\* Only running_task is Running, and it is unless its thread is about to call
\* yield_cpu in wait_until_woken_up.
OneRunning == \A t \in Tasks : st[t] = "Running" => running_task = t
ThreadRuns ==
  running_task # None /\ pc[running_task] # "wait" => st[running_task] = "Running"

\* A task that is not active has no thread, and who boosts its priority or
\* exits is in its own code; the dispatcher has not run during boot.
Inactive ==
  \A t \in Tasks : st[t] \in {"Dormant", "PendingActivation"} => pc[t] = "none"
BoostRuns == priority_boost => running_task # None /\ pc[running_task] = "run"
ExitRuns ==
  cpu_lock = "exit" =>
    running_task # None /\ pc[running_task] = "run" /\ ~priority_boost
BootIdle == cpu_lock = "boot" => running_task = None

ThreadInv ==
  OneRunning /\ ThreadRuns /\ Inactive /\ BoostRuns /\ ExitRuns /\ BootIdle

StructInv ==
  TypeInv /\ ReadyQueueExact /\ WaitLinked /\ StackFrame /\ ThreadInv
    /\ ParkTokenConsumed

-----------------------------------------------------------------------------
(* The ready queue *)

\* Appending a new task to one ready queue.
LEMMA PushBackElements ==
  ASSUME NEW q \in [Prio -> Seq(Tasks)], NEW t \in Tasks, NEW p \in Prio,
         \A i \in Prio : IsInjective(q[i]) /\ t \notin ToSet(q[i])
  PROVE  /\ \A i \in Prio : IsInjective(PushBackTask(q, t, p)[i])
         /\ \A i \in Prio : ToSet(PushBackTask(q, t, p)[i]) =
              IF i = p THEN ToSet(q[i]) \cup {t} ELSE ToSet(q[i])
         /\ \A i \in Prio : PushBackTask(q, t, p)[i] # <<>> <=> i = p \/ q[i] # <<>>
<1>1. PushBackTask(q, t, p) = [q EXCEPT ![p] = Append(q[p], t)]
  BY DEF PushBackTask
<1>2. /\ Append(q[p], t) # <<>> /\ IsInjective(Append(q[p], t))
      /\ ToSet(Append(q[p], t)) = ToSet(q[p]) \cup {t}
  BY AppendProperties, AppendElements
<1> QED
  BY <1>1, <1>2

\* make_ready of a task that is not Ready keeps the ready queue exact.
LEMMA MakeReadyExact ==
  ASSUME TypeInv, ReadyQueueExact, NEW t \in Tasks, st[t] # "Ready",
         effective_priority' \in [Tasks -> Prio],
         \A u \in Tasks : st[u] = "Ready" => effective_priority'[u] = effective_priority[u],
         MakeReady(t)
  PROVE  ReadyQueueExact'
<1> DEFINE p == effective_priority'[t]
<1>1. /\ ready_queue \in [Prio -> Seq(Tasks)] /\ p \in Prio
      /\ st \in [Tasks -> TaskSt] /\ bitmap \in SUBSET Prio
  BY DEF TypeInv, TypeOK, SchedTypeOK
<1>2. \A i \in Prio : IsInjective(ready_queue[i]) /\ t \notin ToSet(ready_queue[i])
  BY DEF ReadyQueueExact
<1>3. /\ ready_queue' = PushBackTask(ready_queue, t, p)
      /\ bitmap' = bitmap \cup {p}
      /\ st' = [st EXCEPT ![t] = "Ready"]
  BY DEF MakeReady
<1> HIDE DEF p
<1>4. /\ \A i \in Prio : IsInjective(ready_queue'[i])
      /\ \A i \in Prio : ToSet(ready_queue'[i]) =
           IF i = p THEN ToSet(ready_queue[i]) \cup {t} ELSE ToSet(ready_queue[i])
      /\ \A i \in Prio : ready_queue'[i] # <<>> <=> i = p \/ ready_queue[i] # <<>>
  <2> DEFINE r == PushBackTask(ready_queue, t, p)
  <2>1. /\ \A i \in Prio : IsInjective(r[i])
        /\ \A i \in Prio : ToSet(r[i]) =
             IF i = p THEN ToSet(ready_queue[i]) \cup {t} ELSE ToSet(ready_queue[i])
        /\ \A i \in Prio : r[i] # <<>> <=> i = p \/ ready_queue[i] # <<>>
    BY ZenonT(60), <1>1, <1>2, PushBackElements
  <2> HIDE DEF r
  <2> QED
    BY <1>3, <2>1 DEF r
<1>5. bitmap' = {i \in Prio : ready_queue'[i] # <<>>}
  BY <1>1, <1>3, <1>4 DEF ReadyQueueExact
<1>6. \A i \in Prio, u \in Tasks :
        u \in ToSet(ready_queue'[i]) <=> st'[u] = "Ready" /\ effective_priority'[u] = i
  <2> SUFFICES ASSUME NEW i \in Prio, NEW u \in Tasks
               PROVE  u \in ToSet(ready_queue'[i])
                        <=> st'[u] = "Ready" /\ effective_priority'[u] = i
    OBVIOUS
  <2>1. CASE u = t
    BY <1>1, <1>2, <1>3, <1>4, <2>1 DEF p
  <2>2. CASE u # t
    <3>1. u \in ToSet(ready_queue'[i]) <=> u \in ToSet(ready_queue[i])
      BY <1>4, <2>2
    <3>2. u \in ToSet(ready_queue[i]) <=> st[u] = "Ready" /\ effective_priority[u] = i
      BY DEF ReadyQueueExact
    <3>3. st'[u] = st[u]
      BY <1>1, <1>3, <2>2
    <3> QED
      BY <3>1, <3>2, <3>3
  <2> QED
    BY <2>1, <2>2
<1> QED
  BY <1>4, <1>5, <1>6 DEF ReadyQueueExact

\* Unlinking a task from a list without duplicates.
LEMMA UnlinkElements ==
  ASSUME NEW q \in Seq(Tasks), NEW t, IsInjective(q)
  PROVE  ToSet(Unlink(q, t)) = ToSet(q) \ {t} /\ IsInjective(Unlink(q, t))
<1>1. CASE t \in ToSet(q)
  <2> DEFINE k == CHOOSE i \in DOMAIN q : q[i] = t
  <2>1. k \in DOMAIN q /\ q[k] = t
    BY <1>1 DEF ToSet
  <2>2. Unlink(q, t) = RemoveAt(q, k)
    BY <1>1 DEF Unlink
  <2> HIDE DEF k
  <2> QED
    BY <2>1, <2>2, RemoveAtElements
<1>2. CASE t \notin ToSet(q)
  BY <1>2 DEF Unlink
<1> QED
  BY <1>1, <1>2

\* reorder_task of a Ready task, together with the change of its priority,
\* keeps the ready queue exact.
LEMMA ReorderTaskExact ==
  ASSUME TypeInv, ReadyQueueExact, NEW t \in Tasks, NEW p \in Prio,
         st[t] = "Ready", p # effective_priority[t], UNCHANGED st,
         effective_priority' = [effective_priority EXCEPT ![t] = p],
         ReorderTask(t, p, effective_priority[t])
  PROVE  ReadyQueueExact'
<1> DEFINE old == effective_priority[t]
           q == [ready_queue EXCEPT ![old] = Unlink(ready_queue[old], t)]
<1>1. /\ ready_queue \in [Prio -> Seq(Tasks)] /\ old \in Prio
      /\ effective_priority \in [Tasks -> Prio] /\ bitmap \in SUBSET Prio
  BY DEF TypeInv, TypeOK, SchedTypeOK
<1>2. \A i \in Prio : IsInjective(ready_queue[i])
  BY DEF ReadyQueueExact
<1>3. \A i \in Prio : t \in ToSet(ready_queue[i]) <=> i = old
  BY DEF ReadyQueueExact
<1>4. /\ ready_queue' = PushBackTask(q, t, p)
      /\ bitmap' = IF q[old] = <<>> THEN (bitmap \cup {p}) \ {old} ELSE bitmap \cup {p}
  BY DEF ReorderTask
<1>5. /\ Unlink(ready_queue[old], t) \in Seq(Tasks)
      /\ IsInjective(Unlink(ready_queue[old], t))
      /\ ToSet(Unlink(ready_queue[old], t)) = ToSet(ready_queue[old]) \ {t}
  BY <1>1, <1>2, UnlinkType, UnlinkElements
<1>6. /\ q \in [Prio -> Seq(Tasks)]
      /\ \A i \in Prio : IsInjective(q[i])
      /\ \A i \in Prio : ToSet(q[i]) = ToSet(ready_queue[i]) \ {t}
      /\ \A i \in Prio : i # old => q[i] = ready_queue[i]
  BY <1>1, <1>2, <1>3, <1>5
<1> HIDE DEF q
<1>7. /\ \A i \in Prio : IsInjective(ready_queue'[i])
      /\ \A i \in Prio : ToSet(ready_queue'[i]) =
           IF i = p THEN ToSet(q[i]) \cup {t} ELSE ToSet(q[i])
      /\ \A i \in Prio : ready_queue'[i] # <<>> <=> i = p \/ q[i] # <<>>
  <2> DEFINE r == PushBackTask(q, t, p)
  <2>1. \A i \in Prio : IsInjective(q[i]) /\ t \notin ToSet(q[i])
    BY <1>6
  <2>2. /\ \A i \in Prio : IsInjective(r[i])
        /\ \A i \in Prio : ToSet(r[i]) =
             IF i = p THEN ToSet(q[i]) \cup {t} ELSE ToSet(q[i])
        /\ \A i \in Prio : r[i] # <<>> <=> i = p \/ q[i] # <<>>
    BY <1>6, <2>1, PushBackElements
  <2> HIDE DEF r
  <2> QED
    BY <1>4, <2>2 DEF r
<1>8. old # p /\ old \in bitmap
  <2>1. ready_queue[old] # <<>>
    BY <1>1, <1>3 DEF ToSet
  <2> QED
    BY <1>1, <2>1 DEF ReadyQueueExact
<1>9. bitmap' = {i \in Prio : ready_queue'[i] # <<>>}
  <2>1. bitmap = {i \in Prio : ready_queue[i] # <<>>}
    BY DEF ReadyQueueExact
  <2> HIDE DEF old
  <2> QED
    BY <1>1, <1>4, <1>6, <1>7, <1>8, <2>1
<1>10. \A i \in Prio, u \in Tasks :
         u \in ToSet(ready_queue'[i]) <=> st'[u] = "Ready" /\ effective_priority'[u] = i
  <2> SUFFICES ASSUME NEW i \in Prio, NEW u \in Tasks
               PROVE  u \in ToSet(ready_queue'[i])
                        <=> st[u] = "Ready" /\ effective_priority'[u] = i
    OBVIOUS
  <2>1. u \in ToSet(ready_queue[i]) <=> st[u] = "Ready" /\ effective_priority[u] = i
    BY DEF ReadyQueueExact
  <2>2. u \in ToSet(ready_queue'[i]) <=> (u = t /\ i = p) \/ (u # t /\ u \in ToSet(ready_queue[i]))
    BY <1>6, <1>7
  <2> QED
    BY <1>1, <2>1, <2>2
<1> QED
  BY <1>7, <1>9, <1>10 DEF ReadyQueueExact

\* What choose_next_running_task may do: it leaves everything as it is, which
\* it does if the running task goes on, and always under Priority Boost; or it
\* finds no task; or it takes the first task of the highest priority from the
\* ready queue and puts the preempted one back.
LEMMA ChooseExact ==
  ASSUME TypeInv, ReadyQueueExact, NEW run \in Tasks \cup {None},
         NEW s \in [Tasks -> TaskSt],
         \A u \in Tasks : s[u] = "Ready" <=> st[u] = "Ready",
         UNCHANGED effective_priority, ChooseNextRunningTask(run, s)
  PROVE  /\ ReadyQueueExact'
         /\ \/ /\ running_task' = run /\ st' = s
               /\ priority_boost \/ (run # None /\ s[run] = "Running")
            \/ /\ running_task' = None /\ st' = s /\ ~priority_boost
               /\ run = None \/ s[run] # "Running"
            \/ \E next \in Tasks :
                 /\ running_task' = next /\ s[next] = "Ready" /\ ~priority_boost
                 /\ \/ /\ run = None \/ s[run] # "Running"
                       /\ st' = [s EXCEPT ![next] = "Running"]
                    \/ /\ run # None /\ s[run] = "Running"
                       /\ st' = [s EXCEPT ![next] = "Running", ![run] = "Ready"]
<1> DEFINE running == run # None /\ s[run] = "Running"
           prev == IF running THEN effective_priority[run] ELSE UsizeMax
           keep == priority_boost \/ prev <= NextPriority
           p == NextPriority
           next == Head(ready_queue[p])
           popped == [ready_queue EXCEPT ![p] = Tail(ready_queue[p])]
           left == IF popped[p] = <<>> THEN bitmap \ {p} ELSE bitmap
<1>1. /\ ready_queue \in [Prio -> Seq(Tasks)] /\ bitmap \in SUBSET Prio
      /\ effective_priority \in [Tasks -> Prio]
      /\ NumPrio \in Nat /\ Prio = 0 .. NumPrio - 1 /\ UsizeMax = NumPrio + 1
  BY PrioAssumption DEF TypeInv, TypeOK, SchedTypeOK, Prio, UsizeMax
<1>2. bitmap # {} => p \in bitmap
  <2>1. bitmap \in SUBSET Nat
    BY <1>1
  <2> QED
    BY <2>1, MinNat DEF NextPriority
<1>3. p \in 0 .. NumPrio
  <2>1. bitmap = {} => p = NumPrio
    BY DEF NextPriority, EmptyPrio
  <2>2. bitmap # {} => p \in 0 .. NumPrio - 1
    BY <1>1, <1>2
  <2>3. ASSUME NEW i, i = NumPrio \/ i \in 0 .. NumPrio - 1 PROVE i \in 0 .. NumPrio
    BY <1>1, <2>3
  <2> QED
    BY <2>1, <2>2, <2>3, Zenon
<1>4. ASSUME UNCHANGED queueVars, st' = s PROVE ReadyQueueExact'
  BY <1>4 DEF queueVars, ReadyQueueExact
<1>5. CASE keep /\ running_task' = run /\ st' = s /\ UNCHANGED queueVars
  <2>1. priority_boost \/ running
    BY <1>1, <1>3, <1>5
  <2> QED
    BY <1>4, <1>5, <2>1
<1>6. CASE ~keep /\ bitmap = {} /\ running_task' = None /\ st' = s /\ UNCHANGED queueVars
  <2>1. ~running
    BY <1>1, <1>6 DEF NextPriority, EmptyPrio
  <2> QED
    BY <1>4, <1>6, <2>1
<1>7. ASSUME bitmap # {}
      PROVE  /\ p \in Prio /\ next \in Tasks /\ st[next] = "Ready"
             /\ effective_priority[next] = p
             /\ popped \in [Prio -> Seq(Tasks)]
             /\ \A i \in Prio : IsInjective(popped[i])
             /\ \A i \in Prio : ToSet(popped[i]) = ToSet(ready_queue[i]) \ {next}
             /\ left = {i \in Prio : popped[i] # <<>>}
  <2>1. p \in Prio /\ ready_queue[p] # <<>> /\ ready_queue[p] \in Seq(Tasks)
    BY <1>1, <1>2, <1>7 DEF ReadyQueueExact
  <2>2. next \in Tasks /\ Tail(ready_queue[p]) \in Seq(Tasks)
    BY <2>1, HeadTailProperties
  <2>3. IsInjective(ready_queue[p])
    BY <2>1 DEF ReadyQueueExact
  <2>4. /\ next \in ToSet(ready_queue[p])
        /\ ToSet(Tail(ready_queue[p])) = ToSet(ready_queue[p]) \ {next}
        /\ IsInjective(Tail(ready_queue[p]))
    BY <2>1, <2>3, TailElements
  <2>5. st[next] = "Ready" /\ effective_priority[next] = p
    BY <2>1, <2>2, <2>4 DEF ReadyQueueExact
  <2> HIDE DEF p, next
  <2>6. popped \in [Prio -> Seq(Tasks)] /\ \A i \in Prio : IsInjective(popped[i])
    BY <1>1, <2>1, <2>2, <2>4 DEF ReadyQueueExact
  <2>7. \A i \in Prio : ToSet(popped[i]) = ToSet(ready_queue[i]) \ {next}
    <3>1. \A i \in Prio : i # p => next \notin ToSet(ready_queue[i])
      BY <2>2, <2>5 DEF ReadyQueueExact
    <3> QED
      BY <1>1, <2>1, <2>4, <3>1
  <2>8. left = {i \in Prio : popped[i] # <<>>}
    <3>1. bitmap = {i \in Prio : ready_queue[i] # <<>>}
      BY DEF ReadyQueueExact
    <3> QED
      BY <1>1, <2>1, <3>1
  <2> QED
    BY <2>1, <2>2, <2>5, <2>6, <2>7, <2>8
<1>8. CASE /\ ~keep /\ bitmap # {} /\ ~(running /\ run # next)
           /\ running_task' = next
           /\ st' = [s EXCEPT ![next] = "Running"]
           /\ ready_queue' = popped /\ bitmap' = left
  <2>1. s[next] = "Ready" /\ ~running
    BY <1>7, <1>8
  <2> HIDE DEF p, next, popped, left, keep
  <2>2. ASSUME NEW i \in Prio, NEW u \in Tasks
        PROVE  u \in ToSet(ready_queue'[i])
                 <=> st'[u] = "Ready" /\ effective_priority'[u] = i
    <3>1. u \in ToSet(ready_queue[i]) <=> st[u] = "Ready" /\ effective_priority[u] = i
      BY DEF ReadyQueueExact
    <3>2. st'[u] = IF u = next THEN "Running" ELSE s[u]
      BY <1>7, <1>8
    <3> QED
      BY <1>7, <1>8, <3>1, <3>2
  <2>3. ReadyQueueExact'
    BY <1>7, <1>8, <2>2 DEF ReadyQueueExact
  <2> QED
    BY <1>7, <1>8, <2>1, <2>3 DEF keep
<1>9. CASE /\ ~keep /\ bitmap # {} /\ running /\ run # next
           /\ running_task' = next
           /\ st' = [s EXCEPT ![next] = "Running", ![run] = "Ready"]
           /\ ready_queue' = PushBackTask(popped, run, effective_priority[run])
           /\ bitmap' = left \cup {effective_priority[run]}
  <2> DEFINE e == effective_priority[run]
             r == PushBackTask(popped, run, e)
  <2>1. run \in Tasks /\ e \in Prio /\ s[next] = "Ready" /\ st[run] # "Ready"
    BY <1>1, <1>7, <1>9
  <2> HIDE DEF p, next, popped, left, keep
  <2>2. \A i \in Prio : IsInjective(popped[i]) /\ run \notin ToSet(popped[i])
    <3>1. \A i \in Prio : run \notin ToSet(ready_queue[i])
      BY <2>1 DEF ReadyQueueExact
    <3> QED
      BY <1>7, <1>9, <3>1
  <2>3. /\ \A i \in Prio : IsInjective(r[i])
        /\ \A i \in Prio : ToSet(r[i]) =
             IF i = e THEN ToSet(popped[i]) \cup {run} ELSE ToSet(popped[i])
        /\ \A i \in Prio : r[i] # <<>> <=> i = e \/ popped[i] # <<>>
    <3>1. popped \in [Prio -> Seq(Tasks)] /\ run \in Tasks /\ e \in Prio
      BY <1>7, <1>9, <2>1
    <3> HIDE DEF e
    <3> QED
      BY <2>2, <3>1, PushBackElements
  <2>4. ready_queue' = r /\ bitmap' = left \cup {e}
    BY <1>9
  <2> HIDE DEF r
  <2>5. ASSUME NEW i \in Prio, NEW u \in Tasks
        PROVE  u \in ToSet(ready_queue'[i])
                 <=> st'[u] = "Ready" /\ effective_priority'[u] = i
    <3>1. u \in ToSet(ready_queue[i]) <=> st[u] = "Ready" /\ effective_priority[u] = i
      BY DEF ReadyQueueExact
    <3>2. st'[u] = IF u = run THEN "Ready" ELSE IF u = next THEN "Running" ELSE s[u]
      BY <1>7, <1>9, <2>1
    <3>3. u \in ToSet(ready_queue'[i])
            <=> (u = run /\ i = e) \/ (u # next /\ u \in ToSet(ready_queue[i]))
      BY ZenonT(60), <1>7, <1>9, <2>3, <2>4
    <3> QED
      BY <1>9, <2>1, <3>1, <3>2, <3>3
  <2>6. bitmap' = {i \in Prio : ready_queue'[i] # <<>>}
    <3> HIDE DEF e
    <3> QED
      BY <1>7, <1>9, <2>1, <2>3, <2>4
  <2>7. ReadyQueueExact'
    BY <2>3, <2>4, <2>5, <2>6 DEF ReadyQueueExact
  <2> QED
    BY <1>7, <1>9, <2>1, <2>7 DEF keep
<1> QED
  BY <1>5, <1>6, <1>8, <1>9 DEF ChooseNextRunningTask

-----------------------------------------------------------------------------
(* Wait queues *)

\* Linking a new Wait in either order adds its task.
LEMMA EnqueueWaitElements ==
  ASSUME NEW q \in Seq(Tasks), NEW o \in Objects, NEW t \in Tasks,
         IsInjective(q), t \notin ToSet(q)
  PROVE  /\ ToSet(EnqueueWait(q, o, t)) = ToSet(q) \cup {t}
         /\ IsInjective(EnqueueWait(q, o, t))
<1>1. CASE QueueOrder[o] = "Fifo"
  BY <1>1, AppendElements DEF EnqueueWait
<1>2. CASE QueueOrder[o] # "Fifo"
  <2> DEFINE k == InsertionPosition(q, effective_priority'[t])
  <2>1. k \in 1 .. Len(q) + 1
    BY InsertionInRange
  <2>2. EnqueueWait(q, o, t) = InsertAt(q, k, t)
    BY <1>2 DEF EnqueueWait
  <2> HIDE DEF k
  <2> QED
    BY <2>1, <2>2, InsertAtElements
<1> QED
  BY <1>1, <1>2

\* The front half of a blocking service links the running task.
LEMMA BeginWaitLinked ==
  ASSUME TypeInv, WaitLinked, NEW t \in Tasks, st[t] = "Running",
         NEW o \in WaitTarget, NEW timed \in BOOLEAN, BeginWait(t, o, timed)
  PROVE  WaitLinked'
<1>1. /\ wait_queue \in [Objects -> Seq(Tasks)] /\ st \in [Tasks -> TaskSt]
      /\ current_wait \in [Tasks -> WaitTarget \cup {None}]
  BY DEF TypeInv, TypeOK, SchedTypeOK
<1>2. /\ current_wait' = [current_wait EXCEPT ![t] = o]
      /\ st' = [st EXCEPT ![t] = "Waiting"]
      /\ o # None /\ current_wait[t] = None
  BY NoneAssumption DEF BeginWait, WaitTarget, WaitLinked
<1>3. \A u \in Tasks : current_wait'[u] # None <=> st'[u] = "Waiting"
  BY <1>1, <1>2 DEF WaitLinked
<1>4. \A x \in Objects : t \notin ToSet(wait_queue[x])
  BY <1>2, NoneAssumption DEF WaitLinked
<1>5. CASE o \in Objects
  <2>1. /\ ToSet(EnqueueWait(wait_queue[o], o, t)) = ToSet(wait_queue[o]) \cup {t}
        /\ IsInjective(EnqueueWait(wait_queue[o], o, t))
    BY <1>1, <1>4, <1>5, EnqueueWaitElements DEF WaitLinked
  <2>2. wait_queue' = [wait_queue EXCEPT ![o] = EnqueueWait(wait_queue[o], o, t)]
    BY <1>5 DEF BeginWait
  <2>3. /\ \A x \in Objects : IsInjective(wait_queue'[x])
        /\ \A x \in Objects : ToSet(wait_queue'[x]) =
             IF x = o THEN ToSet(wait_queue[x]) \cup {t} ELSE ToSet(wait_queue[x])
    BY <1>1, <2>1, <2>2 DEF WaitLinked
  <2>4. ASSUME NEW x \in Objects, NEW u \in Tasks
        PROVE  u \in ToSet(wait_queue'[x]) <=> current_wait'[u] = x
    <3>1. u \in ToSet(wait_queue[x]) <=> current_wait[u] = x
      BY DEF WaitLinked
    <3>2. x # None
      BY NoneAssumption
    <3> QED
      BY ZenonT(60), <1>1, <1>2, <2>3, <3>1, <3>2
  <2> QED
    BY <1>3, <2>3, <2>4 DEF WaitLinked
<1>6. CASE o \notin Objects
  <2>1. wait_queue' = wait_queue
    BY <1>6 DEF BeginWait
  <2>2. ASSUME NEW x \in Objects, NEW u \in Tasks
        PROVE  u \in ToSet(wait_queue'[x]) <=> current_wait'[u] = x
    BY <1>1, <1>2, <1>4, <1>6, <2>1 DEF WaitLinked
  <2> QED
    BY <1>3, <2>1, <2>2 DEF WaitLinked
<1> QED
  BY <1>5, <1>6

\* The end of the wait of t: its Wait is unlinked and the task is Ready.
Awakened(t) ==
  /\ st[t] = "Waiting"
  /\ st' = [st EXCEPT ![t] = "Ready"]
  /\ current_wait' = [current_wait EXCEPT ![t] = None]

\* Whoever unlinks the Wait of a Waiting task and completes it keeps the lists
\* exact.
LEMMA CompleteWaitExact ==
  ASSUME TypeInv, ReadyQueueExact, WaitLinked, NEW t \in Tasks, NEW result,
         st[t] = "Waiting", effective_priority' \in [Tasks -> Prio],
         \A u \in Tasks : st[u] = "Ready" => effective_priority'[u] = effective_priority[u],
         \A x \in Objects : IsInjective(wait_queue'[x]),
         \A x \in Objects : ToSet(wait_queue'[x]) = ToSet(wait_queue[x]) \ {t},
         CompleteWait(t, result)
  PROVE  ReadyQueueExact' /\ WaitLinked' /\ Awakened(t)
<1>1. /\ st \in [Tasks -> TaskSt]
      /\ current_wait \in [Tasks -> WaitTarget \cup {None}]
  BY DEF TypeInv, TypeOK, SchedTypeOK
<1>2. Awakened(t)
  BY DEF CompleteWait, MakeReady, Awakened
<1>3. ReadyQueueExact'
  BY MakeReadyExact DEF CompleteWait
<1>4. \A u \in Tasks : current_wait'[u] # None <=> st'[u] = "Waiting"
  BY <1>1, <1>2 DEF WaitLinked, Awakened
<1>5. ASSUME NEW x \in Objects, NEW u \in Tasks
      PROVE  u \in ToSet(wait_queue'[x]) <=> current_wait'[u] = x
  <2>1. u \in ToSet(wait_queue[x]) <=> current_wait[u] = x
    BY DEF WaitLinked
  <2>2. u \in ToSet(wait_queue'[x]) <=> u # t /\ u \in ToSet(wait_queue[x])
    OBVIOUS
  <2>3. x # None
    BY NoneAssumption
  <2> QED
    BY <1>1, <1>2, <2>1, <2>2, <2>3 DEF Awakened
<1> QED
  BY <1>2, <1>3, <1>4, <1>5 DEF WaitLinked

\* wake_up_one ends the wait of the first task of the queue.
LEMMA WakeUpOneExact ==
  ASSUME TypeInv, ReadyQueueExact, WaitLinked, NEW o \in Objects,
         wait_queue[o] # <<>>, effective_priority' \in [Tasks -> Prio],
         \A u \in Tasks : st[u] = "Ready" => effective_priority'[u] = effective_priority[u],
         WakeUpOne(o)
  PROVE  /\ ReadyQueueExact' /\ WaitLinked'
         /\ Head(wait_queue[o]) \in Tasks /\ Awakened(Head(wait_queue[o]))
<1> DEFINE t == Head(wait_queue[o])
<1>1. wait_queue \in [Objects -> Seq(Tasks)]
  BY DEF TypeInv, TypeOK, SchedTypeOK
<1>2. t \in Tasks /\ CompleteWait(t, "Ok")
      /\ wait_queue' = [wait_queue EXCEPT ![o] = Tail(wait_queue[o])]
  BY <1>1, HeadTailProperties DEF WakeUpOne
<1>3. IsInjective(wait_queue[o])
  BY DEF WaitLinked
<1>4. /\ t \in ToSet(wait_queue[o])
      /\ ToSet(Tail(wait_queue[o])) = ToSet(wait_queue[o]) \ {t}
      /\ IsInjective(Tail(wait_queue[o]))
  BY <1>1, <1>3, TailElements
<1> HIDE DEF t
<1>5. current_wait[t] = o
  BY <1>2, <1>4 DEF WaitLinked
<1>6. st[t] = "Waiting"
  BY <1>2, <1>5, NoneAssumption DEF WaitLinked
<1>7. \A x \in Objects : x # o => t \notin ToSet(wait_queue[x])
  BY <1>2, <1>5 DEF WaitLinked
<1>8. /\ \A x \in Objects : IsInjective(wait_queue'[x])
      /\ \A x \in Objects : ToSet(wait_queue'[x]) = ToSet(wait_queue[x]) \ {t}
  BY <1>1, <1>2, <1>4, <1>7 DEF WaitLinked
<1> QED
  BY <1>2, <1>6, <1>8, CompleteWaitExact DEF t

\* interrupt_task ends the wait of any Waiting task.
LEMMA InterruptTaskExact ==
  ASSUME TypeInv, ReadyQueueExact, WaitLinked, NEW t \in Tasks, NEW result,
         UNCHANGED effective_priority, InterruptTask(t, result)
  PROVE  ReadyQueueExact' /\ WaitLinked' /\ Awakened(t)
<1> DEFINE o == current_wait[t]
<1>1. /\ wait_queue \in [Objects -> Seq(Tasks)]
      /\ effective_priority' \in [Tasks -> Prio]
  BY DEF TypeInv, TypeOK, SchedTypeOK
<1>2. \A x \in Objects : x # o => t \notin ToSet(wait_queue[x])
  BY DEF WaitLinked
<1>3. ASSUME o \in Objects
      PROVE  /\ ToSet(Unlink(wait_queue[o], t)) = ToSet(wait_queue[o]) \ {t}
             /\ IsInjective(Unlink(wait_queue[o], t))
  BY <1>1, <1>3, UnlinkElements DEF WaitLinked
<1>4. wait_queue' = IF o \in Objects
                      THEN [wait_queue EXCEPT ![o] = Unlink(wait_queue[o], t)]
                      ELSE wait_queue
  BY DEF InterruptTask
<1> HIDE DEF o
<1>5. /\ \A x \in Objects : IsInjective(wait_queue'[x])
      /\ \A x \in Objects : ToSet(wait_queue'[x]) = ToSet(wait_queue[x]) \ {t}
  <2>1. CASE o \in Objects
    <3>1. wait_queue' = [wait_queue EXCEPT ![o] = Unlink(wait_queue[o], t)]
      BY <1>4, <2>1
    <3> QED
      BY <1>1, <1>2, <1>3, <2>1, <3>1 DEF WaitLinked
  <2>2. CASE o \notin Objects
    BY <1>2, <1>4, <2>2 DEF WaitLinked
  <2> QED
    BY <2>1, <2>2
<1> QED
  BY <1>1, <1>5, CompleteWaitExact DEF InterruptTask

\* reorder_wait_of_task keeps the wait queues exact.
LEMMA ReorderWaitExact ==
  ASSUME TypeInv, WaitLinked, NEW t \in Tasks, UNCHANGED <<st, current_wait>>,
         ReorderWaitOfTask(t)
  PROVE  WaitLinked'
<1> DEFINE o == current_wait[t]
           q == Unlink(wait_queue[o], t)
<1>1. wait_queue \in [Objects -> Seq(Tasks)]
  BY DEF TypeInv, TypeOK, SchedTypeOK
<1>2. CASE o \in Objects /\ QueueOrder[o] = "TaskPriority"
  <2>1. q \in Seq(Tasks) /\ IsInjective(q) /\ ToSet(q) = ToSet(wait_queue[o]) \ {t}
    BY <1>1, <1>2, UnlinkType, UnlinkElements DEF WaitLinked
  <2>2. t \in ToSet(wait_queue[o])
    BY <1>2 DEF WaitLinked
  <2>3. wait_queue' = [wait_queue EXCEPT ![o] = EnqueueWait(q, o, t)]
    BY <1>2 DEF ReorderWaitOfTask
  <2> HIDE DEF q, o
  <2>4. /\ ToSet(EnqueueWait(q, o, t)) = ToSet(wait_queue[o])
        /\ IsInjective(EnqueueWait(q, o, t))
    <3>1. ToSet(EnqueueWait(q, o, t)) = ToSet(q) \cup {t} /\ IsInjective(EnqueueWait(q, o, t))
      BY <1>2, <2>1, EnqueueWaitElements
    <3> QED
      BY <2>1, <2>2, <3>1
  <2>5. /\ \A x \in Objects : IsInjective(wait_queue'[x])
        /\ \A x \in Objects : ToSet(wait_queue'[x]) = ToSet(wait_queue[x])
    BY <1>1, <2>3, <2>4 DEF WaitLinked
  <2> QED
    BY <2>5 DEF WaitLinked
<1>3. CASE ~(o \in Objects /\ QueueOrder[o] = "TaskPriority")
  BY <1>3 DEF ReorderWaitOfTask, WaitLinked
<1> QED
  BY <1>2, <1>3

\* unlock_mutex_unchecked ends the wait of the new owner, if there is one.  The
\* priorities e differ from the current ones only for tasks that are not Ready.
LEMMA UnlockMutexUncheckedExact ==
  ASSUME TypeInv, ReadyQueueExact, WaitLinked, NEW m \in Mutexes, NEW h,
         NEW e \in [Tasks -> Prio],
         \A u \in Tasks : st[u] = "Ready" => e[u] = effective_priority[u],
         UnlockMutexUnchecked(m, h, e)
  PROVE  /\ ReadyQueueExact' /\ WaitLinked'
         /\ UNCHANGED <<st, current_wait>> \/ \E t \in Tasks : Awakened(t)
<1>1. m \in Objects /\ wait_queue \in [Objects -> Seq(Tasks)]
  BY MutexAssumption DEF TypeInv, TypeOK, SchedTypeOK
<1>2. CASE wait_queue[m] # <<>>
  <2> DEFINE next == Head(wait_queue[m])
  <2>1. next \in Tasks /\ next \in ToSet(wait_queue[m])
    BY <1>1, <1>2, HeadTailProperties, TailElements
  <2>2. /\ effective_priority' = [e EXCEPT ![next] = Min({e[next], Ceiling[m]})]
        /\ WakeUpOne(m)
    BY <1>2 DEF UnlockMutexUnchecked
  <2> HIDE DEF next
  <2>3. Min({e[next], Ceiling[m]}) \in Prio
    BY <2>1, RaiseType
  <2>4. st[next] # "Ready"
    <3>1. current_wait[next] = m
      BY <1>1, <2>1 DEF WaitLinked
    <3>2. st[next] = "Waiting"
      BY <1>1, <2>1, <3>1, NoneAssumption DEF WaitLinked
    <3> QED
      BY <3>2
  <2>5. effective_priority' \in [Tasks -> Prio]
    BY <2>2, <2>3
  <2>6. \A u \in Tasks : st[u] = "Ready" => effective_priority'[u] = effective_priority[u]
    BY <2>2, <2>4
  <2> QED
    BY <1>1, <1>2, <2>2, <2>5, <2>6, WakeUpOneExact
<1>3. CASE wait_queue[m] = <<>>
  <2>1. effective_priority' = e /\ UNCHANGED <<st, queueVars, waitVars>>
    BY <1>3 DEF UnlockMutexUnchecked
  <2>2. WaitLinked'
    BY <2>1 DEF waitVars, WaitLinked
  <2>3. ReadyQueueExact'
    BY <2>1 DEF queueVars, ReadyQueueExact
  <2> QED
    BY <2>1, <2>2, <2>3 DEF waitVars
<1> QED
  BY <1>2, <1>3

-----------------------------------------------------------------------------
(* Threads *)

\* At the end of a service its caller may find that it has to call yield_cpu.
MayYield ==
  \/ pc' = pc
  \/ \E c \in Tasks : InContext(c) /\ ~priority_boost' /\ pc' = [pc EXCEPT ![c] = "yield"]

\* That is what unlock_cpu_and_check_preemption does to the thread of a caller.
LEMMA UnlockCpuYield ==
  ASSUME NEW c \in Context, c = Isr \/ InContext(c), UnlockCpuAndCheckPreemption(c, pc)
  PROVE  MayYield
BY DEF UnlockCpuAndCheckPreemption, MayYield, Context

\* A task that calls a service is Running.
LEMMA CallerRunning ==
  ASSUME TypeInv, ThreadInv, NEW t \in Tasks, InContext(t)
  PROVE  /\ st[t] = "Running" /\ running_task = t /\ pc[t] = "run"
         /\ cpu_lock = "free" /\ interrupt = "none"
BY NoneAssumption DEF ThreadInv, ThreadRuns, InContext

\* A service that changes no task state.
LEMMA SameThread ==
  ASSUME TypeInv, ThreadInv, StackFrame, ParkTokenConsumed, MayYield,
         UNCHANGED <<running_task, st, current_wait, frame, cpu_lock, park_token>>,
         priority_boost' => priority_boost
  PROVE  StackFrame' /\ ThreadInv' /\ ParkTokenConsumed'
<1>1. pc \in [Tasks -> PC] /\ running_task \in Tasks \cup {None}
  BY DEF TypeInv, TypeOK, SchedTypeOK
<1>2. ParkTokenConsumed'
  BY DEF ParkTokenConsumed
<1>3. CASE pc' = pc
  BY <1>2, <1>3 DEF StackFrame, ThreadInv, OneRunning, ThreadRuns, Inactive, BoostRuns,
                    ExitRuns, BootIdle
<1>4. ASSUME NEW c \in Tasks, InContext(c), ~priority_boost',
             pc' = [pc EXCEPT ![c] = "yield"]
      PROVE  StackFrame' /\ ThreadInv'
  <2>1. /\ st[c] = "Running" /\ running_task = c /\ pc[c] = "run"
        /\ cpu_lock = "free"
    BY <1>4, CallerRunning
  <2>2. StackFrame'
    BY <1>1, <1>4, <2>1 DEF StackFrame
  <2>3. ThreadInv'
    BY <1>1, <1>4, <2>1 DEF ThreadInv, OneRunning, ThreadRuns, Inactive, BoostRuns,
                            ExitRuns, BootIdle
  <2> QED
    BY <2>2, <2>3
<1> QED
  BY <1>2, <1>3, <1>4 DEF MayYield

\* A service that ends the wait of a task.
LEMMA AwakenedThread ==
  ASSUME TypeInv, ThreadInv, StackFrame, ParkTokenConsumed, MayYield,
         NEW t \in Tasks, Awakened(t),
         UNCHANGED <<running_task, frame, priority_boost, cpu_lock, park_token>>
  PROVE  StackFrame' /\ ThreadInv' /\ ParkTokenConsumed'
<1>1. /\ pc \in [Tasks -> PC] /\ running_task \in Tasks \cup {None}
      /\ st \in [Tasks -> TaskSt] /\ None \notin Tasks
      /\ current_wait \in [Tasks -> WaitTarget \cup {None}]
  BY NoneAssumption DEF TypeInv, TypeOK, SchedTypeOK
<1>2. ParkTokenConsumed'
  BY <1>1, NoneAssumption DEF ParkTokenConsumed, Awakened
<1>3. running_task = t => pc[t] = "wait"
  BY <1>1 DEF ThreadInv, ThreadRuns, Awakened
<1>4. CASE pc' = pc
  <2>1. StackFrame'
    BY <1>1, <1>4 DEF StackFrame, Awakened
  <2>2. ThreadInv'
    BY <1>1, <1>3, <1>4 DEF ThreadInv, OneRunning, ThreadRuns, Inactive, BoostRuns,
                            ExitRuns, BootIdle, Awakened
  <2> QED
    BY <1>2, <2>1, <2>2
<1>5. ASSUME NEW c \in Tasks, InContext(c), ~priority_boost',
             pc' = [pc EXCEPT ![c] = "yield"]
      PROVE  StackFrame' /\ ThreadInv'
  <2>1. /\ st[c] = "Running" /\ running_task = c /\ pc[c] = "run"
        /\ cpu_lock = "free" /\ c # t
    BY <1>5, CallerRunning DEF Awakened
  <2>2. StackFrame'
    BY <1>1, <1>5, <2>1 DEF StackFrame, Awakened
  <2>3. ThreadInv'
    BY <1>1, <1>5, <2>1 DEF ThreadInv, OneRunning, ThreadRuns, Inactive, BoostRuns,
                            ExitRuns, BootIdle, Awakened
  <2> QED
    BY <2>2, <2>3
<1> QED
  BY <1>2, <1>4, <1>5 DEF MayYield

\* choose_next_running_task, for the task states s before it: the task it
\* chooses is the only Running one, and other states are left alone.
LEMMA ChooseThread ==
  ASSUME TypeInv, ReadyQueueExact, NEW run \in Tasks \cup {None},
         NEW s \in [Tasks -> TaskSt],
         \A u \in Tasks : s[u] = "Ready" <=> st[u] = "Ready",
         \A u \in Tasks : s[u] = "Running" => run = u,
         priority_boost => run # None /\ s[run] = "Running",
         UNCHANGED effective_priority, ChooseNextRunningTask(run, s)
  PROVE  /\ ReadyQueueExact' /\ OneRunning'
         /\ running_task' # None => st'[running_task'] = "Running"
         /\ priority_boost => running_task' = run
         /\ \A u \in Tasks : s[u] \notin {"Ready", "Running"} => st'[u] = s[u]
         /\ \A u \in Tasks : s[u] \in {"Ready", "Running"} => st'[u] \in {"Ready", "Running"}
<1>1. None \notin Tasks
  BY NoneAssumption
<1>2. ReadyQueueExact'
  BY ChooseExact
<1>3. CASE /\ running_task' = run /\ st' = s
           /\ priority_boost \/ (run # None /\ s[run] = "Running")
  BY <1>1, <1>2, <1>3 DEF OneRunning
<1>4. CASE /\ running_task' = None /\ st' = s /\ ~priority_boost
           /\ run = None \/ s[run] # "Running"
  BY <1>1, <1>2, <1>4 DEF OneRunning
<1>5. ASSUME NEW next \in Tasks, running_task' = next, s[next] = "Ready", ~priority_boost,
             \/ /\ run = None \/ s[run] # "Running"
                /\ st' = [s EXCEPT ![next] = "Running"]
             \/ /\ run # None /\ s[run] = "Running"
                /\ st' = [s EXCEPT ![next] = "Running", ![run] = "Ready"]
      PROVE  /\ OneRunning'
             /\ st'[next] = "Running"
             /\ \A u \in Tasks : s[u] \notin {"Ready", "Running"} => st'[u] = s[u]
             /\ \A u \in Tasks : s[u] \in {"Ready", "Running"} => st'[u] \in {"Ready", "Running"}
  <2>1. CASE /\ run = None \/ s[run] # "Running"
             /\ st' = [s EXCEPT ![next] = "Running"]
    BY <1>1, <1>5, <2>1 DEF OneRunning
  <2>2. CASE /\ run # None /\ s[run] = "Running"
             /\ st' = [s EXCEPT ![next] = "Running", ![run] = "Ready"]
    BY <1>1, <1>5, <2>2 DEF OneRunning
  <2> QED
    BY <1>5, <2>1, <2>2
<1>6. \/ /\ running_task' = run /\ st' = s
         /\ priority_boost \/ (run # None /\ s[run] = "Running")
      \/ /\ running_task' = None /\ st' = s /\ ~priority_boost
         /\ run = None \/ s[run] # "Running"
      \/ \E next \in Tasks :
           /\ running_task' = next /\ s[next] = "Ready" /\ ~priority_boost
           /\ \/ /\ run = None \/ s[run] # "Running"
                 /\ st' = [s EXCEPT ![next] = "Running"]
              \/ /\ run # None /\ s[run] = "Running"
                 /\ st' = [s EXCEPT ![next] = "Running", ![run] = "Ready"]
  BY ChooseExact
<1> QED
  BY <1>2, <1>3, <1>4, <1>5, <1>6

-----------------------------------------------------------------------------
(* Every step preserves the invariant *)

\* The statics of the kernel satisfy the invariant.
LEMMA InitStruct == Init => StructInv
<1> SUFFICES ASSUME Init PROVE StructInv
  OBVIOUS
<1>1. TypeInv
  BY InitTypeOK DEF Init, SchedInit, TypeInv, BitmapSound, ExitRunning
<1> USE DEF Init, SchedInit
<1>2. ReadyQueueExact
  BY DEF ReadyQueueExact, ToSet, IsInjective
<1>3. WaitLinked
  BY NoneAssumption DEF WaitLinked, ToSet, IsInjective
<1>4. StackFrame
  BY DEF StackFrame
<1>5. ThreadInv
  BY DEF ThreadInv, OneRunning, ThreadRuns, Inactive, BoostRuns, ExitRuns, BootIdle
<1>6. ParkTokenConsumed
  BY DEF ParkTokenConsumed
<1> QED
  BY <1>1, <1>2, <1>3, <1>4, <1>5, <1>6 DEF StructInv

\* What a step must establish besides the types.
Links == ReadyQueueExact /\ WaitLinked
Threads == StackFrame /\ ThreadInv /\ ParkTokenConsumed

\* Boot code makes the tasks configured as active Ready and dispatches the
\* first one.
LEMMA BootStruct == StructInv /\ Boot => (Links /\ Threads)'
<1> SUFFICES ASSUME StructInv, Boot PROVE Links' /\ Threads'
  OBVIOUS
<1> USE DEF StructInv, Links, Threads
<1>0. /\ st \in [Tasks -> TaskSt] /\ running_task \in Tasks \cup {None}
      /\ pc \in [Tasks -> PC] /\ effective_priority \in [Tasks -> Prio]
      /\ None \notin Tasks
  BY NoneAssumption DEF TypeInv, TypeOK, SchedTypeOK
<1>1. CASE DispatchFirstTask
  <2>1. running_task = None /\ ~priority_boost
    BY <1>1 DEF DispatchFirstTask, ThreadInv, BootIdle, BoostRuns
  <2>2. /\ cpu_lock' = "free" /\ priority_boost' = priority_boost /\ pc' = pc
        /\ UNCHANGED <<effective_priority, wait_queue, current_wait, frame, park_token>>
    BY <1>1 DEF DispatchFirstTask, prioVars, waitVars, stackVars
  <2>3. /\ ReadyQueueExact' /\ OneRunning'
        /\ running_task' # None => st'[running_task'] = "Running"
        /\ \A u \in Tasks : st[u] \notin {"Ready", "Running"} => st'[u] = st[u]
        /\ \A u \in Tasks : st[u] \in {"Ready", "Running"} => st'[u] \in {"Ready", "Running"}
    BY <1>0, <1>1, <2>1, <2>2, ChooseThread DEF DispatchFirstTask, ThreadInv, OneRunning
  <2>4. WaitLinked'
    BY <1>0, <2>2, <2>3 DEF WaitLinked
  <2>5. StackFrame' /\ ParkTokenConsumed'
    BY <2>2 DEF StackFrame, ParkTokenConsumed
  <2>6. ThreadInv'
    BY <1>0, <2>1, <2>2, <2>3 DEF ThreadInv, ThreadRuns, Inactive, BoostRuns, ExitRuns, BootIdle
  <2> QED
    BY <2>3, <2>4, <2>5, <2>6
<1>2. ASSUME NEW t \in Tasks, InitTask(t) PROVE Links' /\ Threads'
  <2>1. /\ st[t] = "PendingActivation" /\ running_task = None /\ cpu_lock = "boot"
        /\ st' = [st EXCEPT ![t] = "Ready"] /\ pc' = [pc EXCEPT ![t] = "run"]
        /\ UNCHANGED <<running_task, effective_priority, wait_queue, current_wait,
                       frame, park_token, priority_boost, cpu_lock>>
    BY <1>2 DEF InitTask, MakeReady, prioVars, waitVars, stackVars, cpuVars, ThreadInv,
                BootIdle
  <2>2. ReadyQueueExact'
    BY <1>0, <1>2, <2>1, MakeReadyExact DEF InitTask
  <2>3. WaitLinked'
    BY <1>0, <2>1 DEF WaitLinked
  <2>4. pc[t] = "none"
    BY <2>1 DEF ThreadInv, Inactive
  <2>5. StackFrame' /\ ParkTokenConsumed'
    BY <1>0, <2>1, <2>4 DEF StackFrame, ParkTokenConsumed
  <2>6. ThreadInv'
    BY <1>0, <2>1 DEF ThreadInv, OneRunning, ThreadRuns, Inactive, BoostRuns, ExitRuns,
                      BootIdle
  <2> QED
    BY <2>2, <2>3, <2>5, <2>6
<1> QED
  BY <1>1, <1>2 DEF Boot

\* A dispatch of the task under way, at the end of interrupt handlers or in
\* yield_cpu.  The thread of t leaves yield_cpu, or no thread moves.
LEMMA DispatchStruct ==
  ASSUME StructInv, ChooseNextRunningTask(running_task, st),
         cpu_lock = "free", cpu_lock' = "free",
         UNCHANGED <<effective_priority, wait_queue, current_wait, frame, park_token,
                     priority_boost>>,
         \/ pc' = pc
         \/ \E t \in Tasks : running_task = t /\ pc[t] = "yield"
                               /\ pc' = [pc EXCEPT ![t] = "run"]
         \/ \E t \in Tasks : running_task = t /\ pc[t] = "wait"
                               /\ pc' = [pc EXCEPT ![t] = "resume"]
  PROVE  Links' /\ Threads'
<1> USE DEF StructInv, Links, Threads
<1>0. /\ st \in [Tasks -> TaskSt] /\ running_task \in Tasks \cup {None}
      /\ pc \in [Tasks -> PC] /\ None \notin Tasks
  BY NoneAssumption DEF TypeInv, TypeOK, SchedTypeOK
<1>1. priority_boost => running_task # None /\ st[running_task] = "Running"
  BY DEF ThreadInv, BoostRuns, ThreadRuns
<1>2. \A u \in Tasks : st[u] = "Running" => running_task = u
  BY DEF ThreadInv, OneRunning
<1>3. /\ ReadyQueueExact' /\ OneRunning'
      /\ running_task' # None => st'[running_task'] = "Running"
      /\ priority_boost => running_task' = running_task
      /\ \A u \in Tasks : st[u] \notin {"Ready", "Running"} => st'[u] = st[u]
      /\ \A u \in Tasks : st[u] \in {"Ready", "Running"} => st'[u] \in {"Ready", "Running"}
  BY <1>0, <1>1, <1>2, ChooseThread
<1>4. WaitLinked'
  BY <1>0, <1>3 DEF WaitLinked
<1>5. StackFrame'
  BY <1>0 DEF StackFrame
<1>6. ParkTokenConsumed'
  BY DEF ParkTokenConsumed
<1>7. ThreadRuns' /\ ExitRuns' /\ BootIdle'
  BY <1>3 DEF ThreadRuns, ExitRuns, BootIdle
<1>8. Inactive'
  BY <1>0, <1>3 DEF Inactive, ThreadInv
<1>9. BoostRuns'
  BY <1>0, <1>3 DEF BoostRuns, ThreadInv
<1> QED
  BY <1>3, <1>4, <1>5, <1>6, <1>7, <1>8, <1>9 DEF ThreadInv

\* Interrupts, yield_cpu and the return from a wait.
LEMMA DispatchingStruct == StructInv /\ Dispatching => (Links /\ Threads)'
<1> SUFFICES ASSUME StructInv, Dispatching PROVE Links' /\ Threads'
  OBVIOUS
<1> USE DEF taskVars, prioVars, waitVars, stackVars, cpuVars
<1>1. CASE EnterInterrupt
  <2>1. Links'
    BY <1>1 DEF EnterInterrupt, StructInv, Links, ReadyQueueExact, WaitLinked
  <2>2. Threads'
    BY <1>1, SameThread DEF EnterInterrupt, StructInv, Threads, MayYield
  <2> QED
    BY <2>1, <2>2
<1>2. CASE LeaveInterrupt
  <2>1. CASE yield_pending
    BY <1>2, <2>1, DispatchStruct DEF LeaveInterrupt
  <2>2. CASE ~yield_pending
    <3>1. Links'
      BY <1>2, <2>2 DEF LeaveInterrupt, StructInv, Links, ReadyQueueExact, WaitLinked
    <3>2. Threads'
      BY <1>2, <2>2, SameThread DEF LeaveInterrupt, StructInv, Threads, MayYield
    <3> QED
      BY <3>1, <3>2
  <2> QED
    BY <2>1, <2>2
<1>3. ASSUME NEW t \in Tasks, YieldCpu(t) PROVE Links' /\ Threads'
  BY <1>3, DispatchStruct DEF YieldCpu
<1>4. ASSUME NEW t \in Tasks, FinishWait(t) PROVE Links' /\ Threads'
  <2>1. Links'
    BY <1>4 DEF FinishWait, StructInv, Links, ReadyQueueExact, WaitLinked
  <2>2. /\ pc \in [Tasks -> PC] /\ frame \in [Tasks -> Frame \cup {None}]
        /\ None \notin Tasks
    BY NoneAssumption DEF StructInv, TypeInv, TypeOK, SchedTypeOK
  <2>3. current_wait[t] = None
    BY <1>4 DEF FinishWait, StructInv, WaitLinked
  <2>4. StackFrame' /\ ParkTokenConsumed'
    BY <1>4, <2>2, <2>3 DEF FinishWait, StructInv, StackFrame, ParkTokenConsumed
  <2>5. ThreadInv'
    BY <1>4, <2>2 DEF FinishWait, StructInv, ThreadInv, OneRunning, ThreadRuns, Inactive,
                      BoostRuns, ExitRuns, BootIdle
  <2> QED
    BY <2>1, <2>4, <2>5 DEF Threads
<1> QED
  BY <1>1, <1>2, <1>3, <1>4 DEF Dispatching

\* CPU Lock and Priority Boost.
LEMMA LockingStruct == StructInv /\ Locking => (Links /\ Threads)'
<1> SUFFICES ASSUME StructInv, Locking PROVE Links' /\ Threads'
  OBVIOUS
<1> USE DEF taskVars, prioVars, waitVars, stackVars, cpuVars
<1>1. ASSUME NEW c \in Context, AcquireCpuLock(c) PROVE Links' /\ Threads'
  BY <1>1 DEF AcquireCpuLock, StructInv, Links, Threads, ReadyQueueExact, WaitLinked,
              StackFrame, ParkTokenConsumed, ThreadInv, OneRunning, ThreadRuns, Inactive,
              BoostRuns, ExitRuns, BootIdle
<1>2. CASE ReleaseCpuLock
  BY <1>2 DEF ReleaseCpuLock, StructInv, Links, Threads, ReadyQueueExact, WaitLinked,
              StackFrame, ParkTokenConsumed, ThreadInv, OneRunning, ThreadRuns, Inactive,
              BoostRuns, ExitRuns, BootIdle
<1>3. ASSUME NEW t \in Tasks, BoostPriority(t) PROVE Links' /\ Threads'
  <2>1. /\ st[t] = "Running" /\ running_task = t /\ pc[t] = "run"
        /\ cpu_lock = "free" /\ t # None
    BY <1>3, CallerRunning, NoneAssumption DEF BoostPriority, TaskContext, StructInv
  <2> QED
    BY <1>3, <2>1 DEF BoostPriority, StructInv, Links, Threads, ReadyQueueExact, WaitLinked,
              StackFrame, ParkTokenConsumed, ThreadInv, OneRunning, ThreadRuns, Inactive,
              BoostRuns, ExitRuns, BootIdle
<1>4. ASSUME NEW t \in Tasks, UnboostPriority(t) PROVE Links' /\ Threads'
  <2>1. MayYield
    BY <1>4, UnlockCpuYield DEF UnboostPriority, TaskContext, Context
  <2>2. Links'
    BY <1>4 DEF UnboostPriority, StructInv, Links, ReadyQueueExact, WaitLinked
  <2>3. Threads'
    BY <1>4, <2>1, SameThread DEF UnboostPriority, StructInv, Threads
  <2> QED
    BY <2>2, <2>3
<1> QED
  BY <1>1, <1>2, <1>3, <1>4 DEF Locking

\* handle_tick.
LEMMA TickStruct == StructInv /\ Tick => (Links /\ Threads)'
<1> SUFFICES ASSUME StructInv, Tick PROVE Links' /\ Threads'
  OBVIOUS
<1> USE DEF taskVars, prioVars, waitVars, stackVars, cpuVars
<1>1. CASE TickBegin \/ TimerCallbackBegin \/ TimerCallbackEnd
  <2>1. Links'
    BY <1>1 DEF TickBegin, TimerCallbackBegin, TimerCallbackEnd, StructInv, Links,
                ReadyQueueExact, WaitLinked
  <2>2. Threads'
    BY <1>1, SameThread DEF TickBegin, TimerCallbackBegin, TimerCallbackEnd, StructInv,
                            Threads, MayYield
  <2> QED
    BY <2>1, <2>2
<1>2. ASSUME NEW t \in Tasks, TickExpire(t) PROVE Links' /\ Threads'
  <2>1. CASE InterruptTask(t, "Timeout")
    <3>1. Links' /\ Awakened(t)
      BY <1>2, <2>1, InterruptTaskExact DEF TickExpire, StructInv, Links
    <3>2. Threads'
      BY <1>2, <3>1, AwakenedThread DEF TickExpire, StructInv, Threads, MayYield
    <3> QED
      BY <3>1, <3>2
  <2>2. CASE UNCHANGED <<st, queueVars, waitVars>>
    <3>1. Links'
      BY <1>2, <2>2 DEF TickExpire, StructInv, Links, queueVars, ReadyQueueExact, WaitLinked
    <3>2. Threads'
      BY <1>2, <2>2, SameThread DEF TickExpire, StructInv, Threads, MayYield
    <3> QED
      BY <3>1, <3>2
  <2> QED
    BY <1>2, <2>1, <2>2 DEF TickExpire
<1>3. CASE TickEnd
  <2>1. MayYield
    BY <1>3, UnlockCpuYield DEF TickEnd, Context
  <2>2. Links'
    BY <1>3 DEF TickEnd, StructInv, Links, ReadyQueueExact, WaitLinked
  <2>3. Threads'
    BY <1>3, <2>1, SameThread DEF TickEnd, StructInv, Threads
  <2> QED
    BY <2>2, <2>3
<1> QED
  BY <1>1, <1>2, <1>3 DEF Tick

\* The front half of a blocking service of the running task.
LEMMA BeginWaitStruct ==
  ASSUME StructInv, NEW t \in Tasks, WaitableContext(t), NEW o \in WaitTarget,
         NEW timed \in BOOLEAN, BeginWait(t, o, timed),
         o = "Park" => ~park_token[t], UNCHANGED <<park_token, cpuVars>>
  PROVE  Links' /\ Threads'
<1> USE DEF StructInv, Links, Threads
<1>0. /\ st \in [Tasks -> TaskSt] /\ running_task \in Tasks \cup {None}
      /\ pc \in [Tasks -> PC] /\ None \notin Tasks /\ None \notin Frame
      /\ current_wait \in [Tasks -> WaitTarget \cup {None}]
      /\ frame \in [Tasks -> Frame \cup {None}]
  BY NoneAssumption, FrameAssumption DEF TypeInv, TypeOK, SchedTypeOK
<1>1. /\ st[t] = "Running" /\ running_task = t /\ pc[t] = "run"
      /\ cpu_lock = "free" /\ ~priority_boost
  BY CallerRunning DEF WaitableContext, TaskContext
<1>2. WaitLinked'
  BY <1>1, BeginWaitLinked
<1>3. /\ st' = [st EXCEPT ![t] = "Waiting"] /\ pc' = [pc EXCEPT ![t] = "wait"]
      /\ frame' = [frame EXCEPT ![t] = [on |-> o, timed |-> timed]]
      /\ current_wait' = [current_wait EXCEPT ![t] = o]
      /\ UNCHANGED <<running_task, ready_queue, bitmap, effective_priority, cpu_lock,
                     priority_boost>>
  BY DEF BeginWait, queueVars, prioVars, cpuVars
<1>4. ReadyQueueExact'
  BY <1>0, <1>1, <1>3 DEF ReadyQueueExact
<1>5. [on |-> o, timed |-> timed] # None
  BY <1>0 DEF Frame
<1>6. StackFrame'
  BY <1>0, <1>3, <1>5 DEF StackFrame
<1>7. ParkTokenConsumed'
  BY <1>0, <1>3 DEF ParkTokenConsumed
<1>8. ThreadInv'
  BY <1>0, <1>1, <1>3 DEF ThreadInv, OneRunning, ThreadRuns, Inactive, BoostRuns, ExitRuns,
                          BootIdle
<1> QED
  BY <1>2, <1>4, <1>6, <1>7, <1>8

\* unlock and the loop of exit_task, which end the wait of a new owner.
LEMMA UnlockStruct ==
  ASSUME StructInv, NEW m \in Mutexes, NEW h, NEW e \in [Tasks -> Prio],
         \A u \in Tasks : st[u] = "Ready" => e[u] = effective_priority[u],
         UnlockMutexUnchecked(m, h, e), MayYield,
         UNCHANGED <<running_task, frame, cpu_lock, park_token, priority_boost>>
  PROVE  Links' /\ Threads'
<1> USE DEF StructInv, Links, Threads
<1>1. /\ ReadyQueueExact' /\ WaitLinked'
      /\ UNCHANGED <<st, current_wait>> \/ \E t \in Tasks : Awakened(t)
  BY UnlockMutexUncheckedExact
<1>2. CASE UNCHANGED <<st, current_wait>>
  BY <1>1, <1>2, SameThread
<1>3. ASSUME NEW t \in Tasks, Awakened(t) PROVE Threads'
  BY <1>3, AwakenedThread
<1> QED
  BY <1>1, <1>2, <1>3

\* The mutex services.
LEMMA MutexServiceStruct == StructInv /\ MutexService => (Links /\ Threads)'
<1> SUFFICES ASSUME StructInv, MutexService PROVE Links' /\ Threads'
  OBVIOUS
<1> USE DEF taskVars, prioVars, waitVars, stackVars, cpuVars
<1>0. /\ st \in [Tasks -> TaskSt] /\ effective_priority \in [Tasks -> Prio]
      /\ base_priority \in [Tasks -> Prio] /\ held \in [Tasks -> Seq(Mutexes)]
  BY DEF StructInv, TypeInv, TypeOK, SchedTypeOK
<1>1. ASSUME NEW t \in Tasks, NEW m \in Mutexes, TryLockMutex(t, m) PROVE Links' /\ Threads'
  <2>1. st[t] = "Running"
    BY <1>1, CallerRunning DEF TryLockMutex, TaskContext, StructInv
  <2>2. ReadyQueueExact'
    BY <1>0, <1>1, <2>1 DEF TryLockMutex, StructInv, ReadyQueueExact
  <2>3. WaitLinked'
    BY <1>1 DEF TryLockMutex, StructInv, WaitLinked
  <2>4. Threads'
    BY <1>1, SameThread DEF TryLockMutex, StructInv, Threads, MayYield
  <2> QED
    BY <2>2, <2>3, <2>4 DEF Links
<1>2. ASSUME NEW t \in Tasks, NEW m \in Mutexes, NEW timed \in Timed, LockMutex(t, m, timed)
      PROVE  Links' /\ Threads'
  <2>1. m \in WaitTarget /\ m # "Park" /\ timed \in BOOLEAN
    BY MutexAssumption, ObjectsAssumption DEF WaitTarget, Timed
  <2> QED
    BY <1>2, <2>1, BeginWaitStruct DEF LockMutex
<1>3. ASSUME NEW t \in Tasks, NEW m \in Mutexes, UnlockMutex(t, m) PROVE Links' /\ Threads'
  <2> DEFINE h == [held EXCEPT ![t] = Front(held[t])]
             e == [effective_priority EXCEPT
                     ![t] = EvaluateEffectivePriority(base_priority[t], h[t])]
  <2>1. UnlockMutexUnchecked(m, h, e) /\ held[t] # <<>>
    BY <1>3 DEF UnlockMutex
  <2>2. Front(held[t]) \in Seq(Mutexes)
    BY <1>0, <2>1, FrontLastType
  <2>3. h[t] \in Seq(Mutexes)
    BY <1>0, <2>2
  <2>4. EvaluateEffectivePriority(base_priority[t], h[t]) \in Prio
    BY <1>0, <2>3, EvaluateType
  <2>5. st[t] = "Running"
    BY <1>3, CallerRunning DEF UnlockMutex, WaitableContext, TaskContext, StructInv
  <2> HIDE DEF h
  <2>6. e \in [Tasks -> Prio] /\ \A u \in Tasks : st[u] = "Ready" => e[u] = effective_priority[u]
    BY <1>0, <2>4, <2>5
  <2> HIDE DEF e
  <2>7. MayYield
    BY <1>3, UnlockCpuYield DEF UnlockMutex, WaitableContext, TaskContext, Context
  <2> QED
    BY <1>3, <2>1, <2>6, <2>7, UnlockStruct DEF UnlockMutex
<1>4. ASSUME NEW c \in Context, NEW m \in Mutexes, MarkConsistentMutex(c, m)
      PROVE  Links' /\ Threads'
  <2>1. Links'
    BY <1>4 DEF MarkConsistentMutex, schedVars, StructInv, Links, ReadyQueueExact, WaitLinked
  <2>2. Threads'
    BY <1>4, SameThread DEF MarkConsistentMutex, schedVars, StructInv, Threads, MayYield
  <2> QED
    BY <2>1, <2>2
<1> QED
  BY <1>1, <1>2, <1>3, <1>4 DEF MutexService

\* set_task_base_priority, for a task in whichever list links it.
LEMMA SetTaskBasePriorityStruct ==
  ASSUME StructInv, NEW c \in Context, NEW t \in Tasks, NEW p \in Prio,
         SetTaskBasePriority(c, t, p)
  PROVE  Links' /\ Threads'
<1> DEFINE e == EvaluateEffectivePriority(p, held[t])
<1>0. /\ st \in [Tasks -> TaskSt] /\ effective_priority \in [Tasks -> Prio]
      /\ held \in [Tasks -> Seq(Mutexes)]
  BY DEF StructInv, TypeInv, TypeOK, SchedTypeOK
<1>1. e \in Prio
  BY <1>0, EvaluateType
<1>2. /\ InContext(c)
      /\ effective_priority' = [effective_priority EXCEPT ![t] = e]
      /\ UNCHANGED <<running_task, st, park_token, current_wait, frame, priority_boost,
                     cpu_lock>>
      /\ \/ /\ e = effective_priority[t]
            /\ UNCHANGED <<queueVars, wait_queue, pc, yield_pending>>
         \/ /\ e # effective_priority[t] /\ st[t] = "Ready"
            /\ ReorderTask(t, e, effective_priority[t])
            /\ UNCHANGED wait_queue
            /\ UnlockCpuAndCheckPreemption(c, pc)
         \/ /\ e # effective_priority[t] /\ st[t] = "Running"
            /\ UNCHANGED <<queueVars, wait_queue>>
            /\ UnlockCpuAndCheckPreemption(c, pc)
         \/ /\ e # effective_priority[t] /\ st[t] = "Waiting"
            /\ ReorderWaitOfTask(t)
            /\ UNCHANGED <<queueVars, pc, yield_pending>>
  BY DEF SetTaskBasePriority, stackVars, cpuVars
<1> HIDE DEF e
<1>3. MayYield
  BY <1>2, UnlockCpuYield DEF MayYield
<1>4. Threads'
  BY <1>2, <1>3, SameThread DEF StructInv, Threads
<1>5. ASSUME UNCHANGED wait_queue PROVE WaitLinked'
  BY <1>2, <1>5 DEF StructInv, WaitLinked
<1>6. ASSUME UNCHANGED queueVars, st[t] # "Ready" \/ e = effective_priority[t]
      PROVE  ReadyQueueExact'
  BY <1>0, <1>2, <1>6 DEF queueVars, StructInv, ReadyQueueExact
<1>7. CASE e # effective_priority[t] /\ st[t] = "Ready"
             /\ ReorderTask(t, e, effective_priority[t]) /\ UNCHANGED wait_queue
  BY <1>1, <1>2, <1>4, <1>5, <1>7, ReorderTaskExact DEF StructInv, Links
<1>8. CASE st[t] = "Waiting" /\ ReorderWaitOfTask(t) /\ UNCHANGED queueVars
  BY <1>2, <1>4, <1>6, <1>8, ReorderWaitExact DEF StructInv, Links
<1>9. CASE UNCHANGED <<queueVars, wait_queue>>
             /\ (e = effective_priority[t] \/ st[t] = "Running")
  BY <1>4, <1>5, <1>6, <1>9 DEF Links
<1> QED
  BY <1>2, <1>7, <1>8, <1>9

\* The task services.
LEMMA TaskServiceStruct == StructInv /\ TaskService => (Links /\ Threads)'
<1> SUFFICES ASSUME StructInv, TaskService PROVE Links' /\ Threads'
  OBVIOUS
<1> USE DEF taskVars, prioVars, waitVars, stackVars, cpuVars
<1>0. /\ st \in [Tasks -> TaskSt] /\ running_task \in Tasks \cup {None}
      /\ pc \in [Tasks -> PC] /\ effective_priority \in [Tasks -> Prio]
      /\ park_token \in [Tasks -> BOOLEAN] /\ None \notin Tasks
      /\ held \in [Tasks -> Seq(Mutexes)]
  BY NoneAssumption DEF StructInv, TypeInv, TypeOK, SchedTypeOK
<1>1. ASSUME NEW c \in Context, NEW t \in Tasks, Activate(c, t) PROVE Links' /\ Threads'
  <2>1. /\ InContext(c) /\ st[t] = "Dormant" /\ st' = [st EXCEPT ![t] = "Ready"]
        /\ effective_priority' = [effective_priority EXCEPT ![t] = InitPrio[t]]
        /\ park_token' = [park_token EXCEPT ![t] = FALSE]
        /\ UNCHANGED <<running_task, wait_queue, current_wait, frame, priority_boost,
                       cpu_lock>>
    BY <1>1 DEF Activate, MakeReady
  <2>2. effective_priority' \in [Tasks -> Prio]
    BY <1>0, <2>1, PrioAssumption
  <2>3. ReadyQueueExact'
    BY <1>0, <1>1, <2>1, <2>2, MakeReadyExact DEF Activate, StructInv
  <2>4. WaitLinked'
    BY <1>0, <2>1 DEF StructInv, WaitLinked
  <2>5. pc[t] = "none" /\ current_wait[t] = None
    BY <2>1 DEF StructInv, ThreadInv, Inactive, WaitLinked
  <2>6. ParkTokenConsumed'
    BY <1>0, <2>1 DEF StructInv, ParkTokenConsumed
  <2>7. running_task # t
    BY <1>0, <2>1, <2>5 DEF StructInv, ThreadInv, ThreadRuns
  <2>8. \/ pc' = [pc EXCEPT ![t] = "run"]
        \/ c \in Tasks /\ ~priority_boost /\ pc' = [pc EXCEPT ![t] = "run", ![c] = "yield"]
    BY <1>1, <2>1 DEF Activate, UnlockCpuAndCheckPreemption, Context
  <2>9. CASE pc' = [pc EXCEPT ![t] = "run"]
    <3>1. StackFrame'
      BY <1>0, <2>1, <2>5, <2>9 DEF StructInv, StackFrame
    <3>2. ThreadInv'
      BY <1>0, <2>1, <2>7, <2>9 DEF StructInv, ThreadInv, OneRunning, ThreadRuns, Inactive,
                                    BoostRuns, ExitRuns, BootIdle
    <3> QED
      BY <2>3, <2>4, <2>6, <3>1, <3>2 DEF Links, Threads
  <2>10. CASE c \in Tasks /\ ~priority_boost
                /\ pc' = [pc EXCEPT ![t] = "run", ![c] = "yield"]
    <3>1. st[c] = "Running" /\ running_task = c /\ pc[c] = "run" /\ cpu_lock = "free"
      BY <2>1, <2>10, CallerRunning DEF StructInv
    <3>2. StackFrame'
      BY <1>0, <2>1, <2>5, <2>10, <3>1 DEF StructInv, StackFrame
    <3>3. ThreadInv'
      BY <1>0, <2>1, <2>7, <2>10, <3>1
         DEF StructInv, ThreadInv, OneRunning, ThreadRuns, Inactive, BoostRuns, ExitRuns,
             BootIdle
    <3> QED
      BY <2>3, <2>4, <2>6, <3>2, <3>3 DEF Links, Threads
  <2> QED
    BY <2>8, <2>9, <2>10
<1>2. ASSUME NEW c \in Context, NEW t \in Tasks, NEW result, InContext(c),
             InterruptTask(t, result), UnlockCpuAndCheckPreemption(c, pc),
             UNCHANGED <<running_task, prioVars, park_token, stackVars, cpuVars>>
      PROVE  Links' /\ Threads'
  <2>1. Links' /\ Awakened(t)
    BY <1>2, InterruptTaskExact DEF StructInv, Links
  <2>2. MayYield
    BY <1>2, UnlockCpuYield
  <2>3. Threads'
    BY <1>2, <2>1, <2>2, AwakenedThread DEF StructInv, Threads
  <2> QED
    BY <2>1, <2>3
<1>3. ASSUME NEW c \in Context, NEW t \in Tasks, TaskInterrupt(c, t) PROVE Links' /\ Threads'
  BY <1>2, <1>3 DEF TaskInterrupt
<1>4. ASSUME NEW c \in Context, NEW t \in Tasks, UnparkParked(c, t) PROVE Links' /\ Threads'
  BY <1>2, <1>4 DEF UnparkParked
<1>5. ASSUME UNCHANGED <<taskVars, prioVars, waitVars, stackVars, pc, cpuVars>>
      PROVE  Links' /\ StackFrame' /\ ThreadInv'
  BY <1>5 DEF StructInv, Links, ReadyQueueExact, WaitLinked, StackFrame, ThreadInv,
              OneRunning, ThreadRuns, Inactive, BoostRuns, ExitRuns, BootIdle
<1>6. ASSUME NEW c \in Context, NEW t \in Tasks, UnparkToken(c, t) PROVE Links' /\ Threads'
  <2>1. current_wait[t] # "Park"
    BY <1>6, NoneAssumption DEF UnparkToken, StructInv, WaitLinked
  <2>2. ParkTokenConsumed'
    BY <1>0, <1>6, <2>1 DEF UnparkToken, StructInv, ParkTokenConsumed
  <2> QED
    BY <1>5, <1>6, <2>2 DEF UnparkToken, Threads
<1>7. ASSUME NEW t \in Tasks, ParkWithToken(t) PROVE Links' /\ Threads'
  <2>1. ParkTokenConsumed'
    BY <1>0, <1>7 DEF ParkWithToken, StructInv, ParkTokenConsumed
  <2> QED
    BY <1>5, <1>7, <2>1 DEF ParkWithToken, Threads
<1>8. ASSUME NEW t \in Tasks, ExitTask(t) PROVE Links' /\ Threads'
  <2>1. Links'
    BY <1>8 DEF ExitTask, StructInv, Links, ReadyQueueExact, WaitLinked
  <2>2. StackFrame' /\ ParkTokenConsumed'
    BY <1>8 DEF ExitTask, StructInv, StackFrame, ParkTokenConsumed
  <2>3. ThreadInv'
    BY <1>0, <1>8 DEF ExitTask, StructInv, ThreadInv, OneRunning, ThreadRuns, Inactive,
                      BoostRuns, ExitRuns, BootIdle
  <2> QED
    BY <2>1, <2>2, <2>3 DEF Threads
<1>9. ASSUME NEW t \in Tasks, NEW timed \in Timed, Park(t, timed) PROVE Links' /\ Threads'
  BY <1>9, BeginWaitStruct DEF Park, Timed, WaitTarget
<1>10. ASSUME NEW t \in Tasks, Sleep(t) PROVE Links' /\ Threads'
  BY <1>10, BeginWaitStruct DEF Sleep, WaitTarget
<1>11. CASE AbandonHeldMutex
  <2> DEFINE m == Last(held[running_task])
             h == [held EXCEPT ![running_task] = Front(held[running_task])]
  <2>1. running_task \in Tasks /\ held[running_task] # <<>>
    BY <1>11 DEF AbandonHeldMutex, StructInv, TypeInv, ExitRunning
  <2>2. m \in Mutexes
    BY <1>0, <2>1, FrontLastType
  <2>3. UnlockMutexUnchecked(m, h, effective_priority)
    BY <1>11 DEF AbandonHeldMutex
  <2> HIDE DEF m, h
  <2> QED
    BY <1>0, <1>11, <2>2, <2>3, UnlockStruct DEF AbandonHeldMutex, MayYield
<1>12. CASE ExitAndDispatch
  <2> DEFINE run == running_task
             s == [st EXCEPT ![run] = "Dormant"]
  <2>1. run \in Tasks /\ pc[run] = "run" /\ ~priority_boost /\ st[run] = "Running"
    BY <1>0, <1>12 DEF ExitAndDispatch, StructInv, ThreadInv, ExitRuns, ThreadRuns
  <2>2. /\ s \in [Tasks -> TaskSt]
        /\ \A u \in Tasks : s[u] = "Ready" <=> st[u] = "Ready"
        /\ \A u \in Tasks : s[u] # "Running"
        /\ \A u \in Tasks : u # run => s[u] = st[u]
        /\ s[run] = "Dormant"
    BY <1>0, <2>1 DEF StructInv, ThreadInv, OneRunning, TaskSt
  <2>3. /\ ChooseNextRunningTask(None, s)
        /\ cpu_lock' = "free" /\ pc' = [pc EXCEPT ![run] = "none"]
        /\ UNCHANGED <<effective_priority, wait_queue, current_wait, frame, park_token,
                       priority_boost>>
    BY <1>12 DEF ExitAndDispatch
  <2> HIDE DEF s
  <2>4. /\ ReadyQueueExact' /\ OneRunning'
        /\ running_task' # None => st'[running_task'] = "Running"
        /\ \A u \in Tasks : s[u] \notin {"Ready", "Running"} => st'[u] = s[u]
        /\ \A u \in Tasks : s[u] \in {"Ready", "Running"} => st'[u] \in {"Ready", "Running"}
    BY <1>0, <2>1, <2>2, <2>3, ChooseThread DEF StructInv
  <2> HIDE DEF run
  <2>5. WaitLinked'
    <3>1. ASSUME NEW u \in Tasks PROVE st'[u] = "Waiting" <=> st[u] = "Waiting"
      BY <2>1, <2>2, <2>4
    <3>2. \A u \in Tasks : current_wait[u] # None <=> st'[u] = "Waiting"
      BY <3>1 DEF StructInv, WaitLinked
    <3> QED
      BY <2>3, <3>2 DEF StructInv, WaitLinked
  <2>6. StackFrame' /\ ParkTokenConsumed'
    BY <1>0, <2>1, <2>3 DEF StructInv, StackFrame, ParkTokenConsumed
  <2>7. Inactive'
    BY <1>0, <2>1, <2>2, <2>3, <2>4 DEF StructInv, ThreadInv, Inactive
  <2>8. ThreadInv'
    BY <2>1, <2>3, <2>4, <2>7 DEF ThreadInv, ThreadRuns, BoostRuns, ExitRuns, BootIdle
  <2> QED
    BY <2>4, <2>5, <2>6, <2>8 DEF Links, Threads
<1>13. ASSUME NEW c \in Context, NEW t \in Tasks, NEW p \in SettablePrio,
              SetTaskBasePriority(c, t, p)
       PROVE  Links' /\ Threads'
  BY <1>13, SetTaskBasePriorityStruct, InputAssumption
<1> QED
  BY <1>1, <1>3, <1>4, <1>6, <1>7, <1>8, <1>9, <1>10, <1>11, <1>12, <1>13 DEF TaskService

\* Every step of the kernel preserves the invariant.
LEMMA StructStep == StructInv /\ [Next]_vars => StructInv'
<1> SUFFICES ASSUME StructInv, [Next]_vars PROVE StructInv'
  OBVIOUS
<1>1. TypeInv'
  BY TypeInvStep DEF StructInv
<1>2. CASE UNCHANGED vars
  BY <1>1, <1>2 DEF vars, schedVars, StructInv, ReadyQueueExact, WaitLinked, StackFrame,
                    ParkTokenConsumed, ThreadInv, OneRunning, ThreadRuns, Inactive,
                    BoostRuns, ExitRuns, BootIdle
<1>3. CASE Next
  <2>1. Links' /\ Threads'
    BY <1>3, BootStruct, DispatchingStruct, LockingStruct, TaskServiceStruct,
       MutexServiceStruct, TickStruct DEF Next
  <2> QED
    BY <1>1, <2>1 DEF StructInv, Links, Threads
<1> QED
  BY <1>2, <1>3

\* The structural invariant holds in every state the kernel reaches.
THEOREM Structure == Spec => []StructInv
BY InitStruct, StructStep, PTL DEF Spec

-----------------------------------------------------------------------------
(* What follows *)

\* The ready queue is exact: a task is linked, once, in the queue of its
\* effective priority exactly when it is Ready, and the bitmap tells which
\* queues are empty, for any number of tasks, priorities and mutexes.
THEOREM ReadyQueueCorrect == Spec => []ReadyQueueExact
<1>1. StructInv => ReadyQueueExact
  BY DEF StructInv
<1> QED
  BY <1>1, Structure, PTL

\* The wait queues are exact: a task is linked, once, in the queue of the object
\* on which the Wait on its stack waits, exactly while it is Waiting.
THEOREM WaitQueueCorrect == Spec => []WaitQueueExact
<1>1. StructInv => WaitQueueExact
  BY DEF StructInv, WaitLinked, StackFrame, WaitQueueExact
<1> QED
  BY <1>1, Structure, PTL

\* At most one task is Running, and Priority Boost keeps it so.
THEOREM RunningTaskCorrect == Spec => []RunningTaskUnique
<1>1. StructInv => RunningTaskUnique
  BY DEF StructInv, ThreadInv, OneRunning, ThreadRuns, BoostRuns, RunningTaskUnique
<1> QED
  BY <1>1, Structure, PTL

\* A parked task has no park token, in whatever order park, unpark, interrupts
\* and timeouts meet.
THEOREM ParkTokenCorrect == Spec => []ParkTokenConsumed
<1>1. StructInv => ParkTokenConsumed
  BY DEF StructInv
<1> QED
  BY <1>1, Structure, PTL
=============================================================================
