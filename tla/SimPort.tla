------------------------------ MODULE SimPort -------------------------------
(***************************************************************************)
(* The simulator port: a simulated interrupt controller and hardware       *)
(* scheduler (sched.rs) that decides which thread of a user-mode scheduling *)
(* group runs, and the port's threads on it (lib.rs).  Boot code, every     *)
(* task and every activation of an interrupt handler is a thread of its    *)
(* own; that at most the chosen thread executes is what Ums shows.  Devices *)
(* are threads of the host and pend lines at any moment.                   *)
(*                                                                         *)
(* Lines are numbers; a smaller priority value is a higher priority, the   *)
(* negative ones are not managed.  The id of a thread is the task it runs, *)
(* BootThread, or a positive number for an activation of a handler.        *)
(***************************************************************************)
EXTENDS PortBase

CONSTANTS SimPriority,   \* the priority of every line of a device
          SimDispatch,   \* INTERRUPT_LINE_DISPATCH
          SimLowest,     \* INTERRUPT_PRIORITY_DISPATCH
          SimMaxRaises   \* bound: interrupts of devices and changes of lines

SimDevices == DOMAIN SimPriority
SimLines == SimDevices \cup {SimDispatch}

ASSUME SimAssumption ==
    /\ SimDispatch \in Nat /\ SimDevices \subseteq Nat /\ SimDispatch \notin SimDevices
    /\ IsFiniteSet(SimDevices) /\ SimLowest \in Nat
    /\ \A l \in SimDevices : SimPriority[l] \in Int /\ SimPriority[l] < SimLowest
    /\ \A i \in Tasks \cup {NoTask} : i \notin Nat

VARIABLES
    smLine,      \* int_lines: enable and pended of every line
    smPended,    \* pended_lines: pairs of a priority and a line
    smActive,    \* active_int_handlers, the innermost last
    smLock,      \* cpu_lock
    smTask,      \* task_thread
    smZombies,   \* threads to be run to their end first
    smTsm,       \* the task state machine of every task
    smPc,        \* where every thread is: its domain is the ids in use
    smCur,       \* the thread that executes (cur_thread_id)
    smRunning,   \* the kernel's running_task
    smReady,     \* the tasks the kernel may choose
    smWanted,    \* history: yield_cpu was called and no task chosen since
    smOwner,     \* history: the thread that has acquired CPU Lock
    smRaises     \* how many there were so far

smHardware == <<smLine, smPended, smActive, smZombies, smPc, smCur>>
smKernel == <<smRunning, smReady, smWanted>>
smVars == <<smHardware, smLock, smTask, smTsm, smKernel, smOwner, smRaises>>

BootThread == 0

SimPri(l) == IF l = SimDispatch THEN SimLowest ELSE SimPriority[l]
SimManaged(p) == p >= 0

-----------------------------------------------------------------------------
(* The hardware scheduler.  A record of its state is passed from one       *)
(* function to the next.                                                   *)

Hw == [line |-> smLine, pended |-> smPended, active |-> smActive, pc |-> smPc, lock |-> smLock,
       zombies |-> smZombies, task |-> smTask]

UpdateLine(h, l, ln) ==
    [h EXCEPT !.line[l] = ln,
              !.pended = (@ \ {<<SimPri(l), l>>}) \cup (IF ln.enable /\ ln.pended THEN {<<SimPri(l), l>>} ELSE {})]

Pend(h, l) == UpdateLine(h, l, [h.line[l] EXCEPT !.pended = TRUE])

\* The first element of the ordered set.
FirstPended(h) == CHOOSE p \in h.pended :
                     \A q \in h.pended : p[1] < q[1] \/ (p[1] = q[1] /\ p[2] <= q[2])

\* Mutant: CPU Lock does not hold interrupts back.
TakesInterruptLocked(h) ==
    /\ h.pended # {}
    /\ h.active # <<>> => h.active[Len(h.active)].pri >= FirstPended(h)[1]

\* An active handler masks lines of lower priorities, not those of its own.
TakesInterrupt(h) ==
    /\ h.pended # {}
    /\ ~(h.lock /\ SimManaged(FirstPended(h)[1]))
    /\ h.active # <<>> => h.active[Len(h.active)].pri >= FirstPended(h)[1]

\* spawn allocates an id.
FreeId(pc) == CHOOSE k \in 1 .. Cardinality(DOMAIN pc) + 1 : k \notin DOMAIN pc

Spawn(pc, id, where) == [i \in DOMAIN pc \cup {id} |-> IF i = id THEN where ELSE pc[i]]

\* One turn of the loop of check_preemption_by_interrupt.  The line stays
\* pended (line.pended is not reset).
Activated(h) ==
    IF ~TakesInterrupt(h) THEN h
    ELSE LET p == FirstPended(h)
             id == FreeId(h.pc)
         IN [h EXCEPT
                !.pended = @ \ {p},
                !.pc = Spawn(@, id, IF p[2] = SimDispatch THEN "enter" ELSE "code"),
                !.active = Append(@, [pri |-> p[1], line |-> p[2], id |-> id])]

\* The states the loop goes through.
Activations(h) ==
    LET turn[n \in Nat] == IF n = 0 THEN h ELSE Activated(turn[n - 1])
    IN turn

\* check_preemption_by_interrupt: activates all interrupts that can be taken.
CheckPreemption(h) == Activations(h)[Cardinality(h.pended)]

ChooseNextThread(h) == IF h.zombies # <<>> THEN Head(h.zombies)
                       ELSE IF h.active # <<>> THEN h.active[Len(h.active)].id
                       ELSE h.task

\* The thread of an id ends.  thread_exited removes it from the zombies; the
\* last of them takes its place.
Exited(h, id) ==
    [h EXCEPT !.pc = [i \in DOMAIN @ \ {id} |-> @[i]],
              !.zombies = [k \in 1 .. Len(@) - 1 |-> IF @[k] = id THEN @[Len(@)] ELSE @[k]]]

\* The scheduler is left in state h; the thread yields if there was anything
\* to activate.
Install(h) == /\ smLine' = h.line /\ smPended' = h.pended /\ smActive' = h.active
              /\ smPc' = h.pc /\ smLock' = h.lock /\ smZombies' = h.zombies /\ smTask' = h.task

Preempted(h) == LET checked == CheckPreemption(h)
                IN /\ Install(checked)
                   /\ smCur' = IF checked.active # h.active THEN ChooseNextThread(checked) ELSE smCur

-----------------------------------------------------------------------------
(* Boot.                                                                   *)

SmInit ==
    /\ smLine = [l \in SimLines |-> [enable |-> FALSE, pended |-> FALSE]]
    /\ smPended = {} /\ smActive = <<>> /\ smLock = TRUE
    /\ smTask = BootThread /\ smZombies = <<BootThread>> /\ smCur = BootThread
    /\ smPc = [i \in {BootThread} |-> "boot"]
    /\ smTsm = [t \in Tasks |-> "Uninit"]
    /\ smRunning = NoTask /\ smReady = {} /\ smWanted = FALSE /\ smOwner = BootThread /\ smRaises = 0

\* The kernel's boot initializes the tasks that are active at startup and
\* enables lines; then dispatch_first_task enables and pends the dispatcher and the boot thread
\* exits.
SmDispatchFirstTask(active, enabled) ==
    /\ BootThread \in DOMAIN smPc
    /\ smTsm' = [t \in Tasks |-> IF t \in active THEN "Dormant" ELSE "Uninit"] /\ smReady' = active
    /\ LET on == [Hw EXCEPT !.line = [l \in SimLines |-> [@[l] EXCEPT !.enable = l \in enabled]]]
           h == CheckPreemption([UpdateLine(on, SimDispatch, [enable |-> TRUE, pended |-> TRUE]) EXCEPT !.lock = FALSE])
           exited == Exited(h, BootThread)
       IN Install(exited) /\ smCur' = ChooseNextThread(exited)
    /\ smOwner' = NoTask
    /\ UNCHANGED <<smRunning, smWanted, smRaises>>

SmBooted == BootThread \notin DOMAIN smPc

-----------------------------------------------------------------------------
(* What the code of tasks and handlers does.                               *)

Innermost == smActive[Len(smActive)]
InHandler == IF smActive = <<>> THEN FALSE ELSE smCur = Innermost.id

\* Application code, and kernel code it calls: a task, or a managed handler.
Where(id) == IF id \in DOMAIN smPc THEN smPc[id] ELSE "none"

InCode == /\ Where(smCur) = "code"
          /\ InHandler => SimManaged(Innermost.pri)

SmEnterCpuLock ==
    /\ InCode /\ ~smLock
    /\ smLock' = TRUE /\ smOwner' = smCur
    /\ UNCHANGED <<smHardware, smTask, smTsm, smKernel, smRaises>>

SmLeaveCpuLock ==
    /\ InCode /\ smLock
    /\ Preempted([Hw EXCEPT !.lock = FALSE]) /\ smOwner' = NoTask
    /\ UNCHANGED <<smTsm, smKernel, smRaises>>

SmYieldCpu ==
    /\ InCode /\ ~smLock
    /\ Preempted(Pend(Hw, SimDispatch)) /\ smWanted' = TRUE
    /\ UNCHANGED <<smTsm, smRunning, smReady, smOwner, smRaises>>

\* initialize_task_state, when the kernel activates a task.
SmActivate(t) ==
    /\ InCode /\ smLock /\ t \notin smReady /\ smTsm[t] # "Running"
    /\ smTsm' = [smTsm EXCEPT ![t] = "Dormant"] /\ smReady' = smReady \cup {t}
    /\ UNCHANGED <<smHardware, smLock, smTask, smRunning, smWanted, smOwner, smRaises>>

\* enable_interrupt_line, disable_interrupt_line, clear_interrupt_line.  A line
\* that was taken is still pended, so enabling it anew takes it once more.
SmConfigure(l, enable, pended) ==
    /\ InCode /\ smRaises < SimMaxRaises /\ smRaises' = smRaises + 1
    /\ [enable |-> enable, pended |-> pended] # smLine[l]
    /\ pended => smLine[l].pended
    /\ Preempted(UpdateLine(Hw, l, [enable |-> enable, pended |-> pended]))
    /\ UNCHANGED <<smTsm, smKernel, smOwner>>

\* A device, or code, pends a line.
SmPendLine(l) ==
    /\ SmBooted /\ smRaises < SimMaxRaises /\ smRaises' = smRaises + 1
    /\ Preempted(Pend(Hw, l))
    /\ UNCHANGED <<smTsm, smKernel, smOwner>>

\* exit_and_dispatch: the thread parts with the task and will be run to its end
\* whatever the kernel chooses ...
SmExit(t) ==
    /\ smCur = t /\ Where(t) = "code" /\ smLock
    /\ smTsm' = [smTsm EXCEPT ![t] = "Uninit"]
    /\ smZombies' = Append(smZombies, t) /\ smLock' = FALSE /\ smOwner' = NoTask
    /\ smPc' = [smPc EXCEPT ![t] = "exit"]
    /\ smRunning' = NoTask /\ smReady' = smReady \ {t} /\ smWanted' = TRUE
    /\ UNCHANGED <<smLine, smPended, smActive, smTask, smCur, smRaises>>

\* ... then yield_cpu invokes the dispatcher.
SmExitYield(t) ==
    /\ smCur = t /\ Where(t) = "exit"
    /\ LET h == CheckPreemption([Pend(Hw, SimDispatch) EXCEPT !.pc[t] = "zombie"])
       IN Install(h) /\ smCur' = ChooseNextThread(h)
    /\ UNCHANGED <<smTsm, smKernel, smOwner, smRaises>>

\* The end of a thread of a handler: it is made inactive, and what it masked
\* is activated.
SmHandlerReturns ==
    /\ InHandler /\ Where(smCur) \in {"code", "return"} /\ (SimManaged(Innermost.pri) => ~smLock)
    /\ Install(CheckPreemption([Hw EXCEPT !.active = SubSeq(@, 1, Len(@) - 1), !.pc[smCur] = "zombie",
                                          !.zombies = Append(@, smCur)]))
    /\ UNCHANGED <<smCur, smTsm, smKernel, smOwner, smRaises>>

\* exit_thread, or the end of the thread's function.
SmThreadExits ==
    /\ Where(smCur) = "zombie"
    /\ LET h == Exited(Hw, smCur)
       IN Install(h) /\ smCur' = ChooseNextThread(h)
    /\ UNCHANGED <<smTsm, smKernel, smOwner, smRaises>>

-----------------------------------------------------------------------------
(* The handler of the dispatch line.                                       *)

SmDispatchEnter ==
    /\ InHandler /\ Where(smCur) = "enter" /\ ~smLock
    /\ smLock' = TRUE /\ smOwner' = smCur /\ smPc' = [smPc EXCEPT ![smCur] = "choose"]
    /\ UNCHANGED <<smLine, smPended, smActive, smZombies, smCur, smTask, smTsm, smKernel, smRaises>>

SmChoose ==
    /\ InHandler /\ Where(smCur) = "choose"
    /\ smRunning' \in IF smReady = {} THEN {NoTask} ELSE smReady
    /\ smWanted' = FALSE /\ smPc' = [smPc EXCEPT ![smCur] = "leave"]
    /\ UNCHANGED <<smLine, smPended, smActive, smZombies, smCur, smLock, smTask, smTsm, smReady, smOwner, smRaises>>

SmDispatchLeave ==
    /\ InHandler /\ Where(smCur) = "leave"
    /\ Preempted([Hw EXCEPT !.lock = FALSE, !.pc[smCur] = "set"]) /\ smOwner' = NoTask
    /\ UNCHANGED <<smTsm, smKernel, smRaises>>

\* The scheduler is told which thread to run; a dormant task gets a thread.
SmSetTask ==
    /\ InHandler /\ Where(smCur) = "set"
    /\ smTask' = smRunning
    /\ smTsm' = IF smRunning = NoTask THEN smTsm ELSE [smTsm EXCEPT ![smRunning] = "Running"]
    /\ LET created == {t \in Tasks : t = smRunning /\ smTsm[t] = "Dormant"}
       IN smPc' = [i \in DOMAIN smPc \cup created |->
                      IF i = smCur THEN "return" ELSE IF i \in created THEN "code" ELSE smPc[i]]
    /\ UNCHANGED <<smLine, smPended, smActive, smZombies, smCur, smLock, smKernel, smOwner, smRaises>>

SmNext ==
    \/ \E active \in SUBSET Tasks, enabled \in SUBSET SimDevices : SmDispatchFirstTask(active, enabled)
    \/ SmEnterCpuLock \/ SmLeaveCpuLock \/ SmYieldCpu
    \/ \E t \in Tasks : SmActivate(t) \/ SmExit(t) \/ SmExitYield(t)
    \/ \E l \in SimDevices : \/ SmPendLine(l)
                             \/ \E enable, pended \in BOOLEAN : SmConfigure(l, enable, pended)
    \/ SmHandlerReturns \/ SmThreadExits
    \/ SmDispatchEnter \/ SmChoose \/ SmDispatchLeave \/ SmSetTask

SmSpec == SmInit /\ [][SmNext]_smVars

-----------------------------------------------------------------------------
(* Properties.                                                             *)

\* The thread that executes is the one the simulated hardware would run, and a
\* task only executes on a thread of its own while the kernel regards it as
\* the running task.
SmContextIntact ==
    /\ smCur = ChooseNextThread(Hw)
    /\ smCur # NoTask => smCur \in DOMAIN smPc
    /\ \A t \in Tasks : smCur = t /\ Where(t) = "code" => smRunning = t /\ smTsm[t] = "Running"
    /\ \A t \in Tasks : Where(t) = "code" <=> smTsm[t] = "Running"

\* Handlers are nested in the order of their priorities, and none that could be
\* taken waits while code of a lower priority executes.
SmPriorityOrder ==
    /\ \A i \in 1 .. Len(smActive) - 1 : smActive[i].pri >= smActive[i + 1].pri
    /\ smZombies = <<>> => ~TakesInterrupt(Hw)

\* A task does not go on after yield_cpu before the dispatcher has run.
SmNoLostDispatch == smCur \in Tasks /\ Where(smCur) = "code" => ~smWanted

\* Under CPU Lock nothing but its owner and unmanaged handlers execute.
SmLockHonoured ==
    smLock => smCur = smOwner \/ (InHandler /\ ~SimManaged(Innermost.pri)) \/ smZombies # <<>>

\* Handlers the contract counts: all of the devices, and the innermost
\* dispatcher from its first action until it has set the task.
SmDeviceLevels == {i \in DOMAIN smActive : smActive[i].line # SimDispatch}
SmEntered == {i \in DOMAIN smActive : smActive[i].line = SimDispatch /\ smPc[smActive[i].id] # "enter"}
SmDispatching == \E i \in SmEntered : /\ \A j \in SmEntered : j <= i
                                     /\ smPc[smActive[i].id] \in {"choose", "leave", "set"}
SmDepth == Cardinality(SmDeviceLevels) + IF SmDispatching THEN 1 ELSE 0

\* Until the first dispatch has been made the contract sees the boot phase.
SmStarted == smTask # BootThread

SmThread == IF ~SmStarted THEN "boot"
            ELSE IF (smTask \in Tasks /\ smTsm[smTask] = "Running") THEN smTask ELSE NoTask

SmContract == INSTANCE PortContract WITH
    thread <- SmThread, running <- IF SmStarted THEN smRunning ELSE NoTask,
    depth <- IF SmStarted THEN SmDepth ELSE 0, wanted <- SmStarted /\ smWanted

\* The simulator keeps the contract of the ports for real hardware.
SmKeepsContract == SmContract!ContractSpec
=============================================================================
