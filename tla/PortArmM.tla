------------------------------ MODULE PortArmM ------------------------------
(***************************************************************************)
(* The Arm-M port (r3_port_arm_m: threading/imp.rs) on a core with an FPU. *)
(* Every dispatch goes through PendSV, the exception of lowest priority;   *)
(* the hardware stacks the caller-saved registers of whatever it           *)
(* interrupts, on PSP for a task and on MSP for the idle task and the      *)
(* handlers, and EXC_RETURN says which and whether FP registers were       *)
(* stacked too.  Nothing in the PendSV handler masks interrupts but the    *)
(* call of choose_running_task, so its three parts are separate actions.   *)
(***************************************************************************)
EXTENDS PortBase

CONSTANTS AmPriority,     \* the priority of each line, 0 is highest
          AmLockMask,     \* CPU_LOCK_PRIORITY_MASK; 0: PRIMASK is used
          AmMaxRaises     \* bound: how often the lines are raised

AmLines == DOMAIN AmPriority

ASSUME AmAssumption == /\ \A l \in AmLines : AmPriority[l] \in 0 .. 254
                       /\ AmLockMask \in 0 .. 255 /\ AmMaxRaises \in Nat
                       /\ "PendSV" \notin AmLines

VARIABLES
    amCpu,        \* x, s, f, fs: whose registers are live (fs: s16-s31);
                  \* fpca: CONTROL.FPCA; spsel: CONTROL.SPSEL; psp, msp: frames
    amStarted,    \* running_task_ptr is not null
    amLock,       \* BASEPRI or PRIMASK masks managed interrupts
    amPendSv,     \* PendSV is pending
    amPending, amEnabled,    \* lines
    amTaskSp,     \* TaskState.sp: the frames it points at
    amRunning,    \* the kernel's running_task
    amActive,     \* tasks the kernel has activated and that have not exited
    amLevels,     \* the active exceptions, the innermost last
    amPspOwner,   \* history: the task whose stack PSP points into
    amFpUsers,    \* history: tasks that have FP state of their own
    amWanted,     \* history: a dispatch has been asked for and not made
    amRaises      \* bound: lines raised so far

amKernelVars == <<amTaskSp, amRunning, amActive>>
amLineVars == <<amPending, amEnabled, amRaises>>
amVars == <<amCpu, amStarted, amLock, amPendSv, amLineVars, amKernelVars, amLevels,
            amPspOwner, amFpUsers, amWanted>>

AmLevel == Len(amLevels)
AmTop == amLevels[AmLevel]
AmSetTop(lv) == [amLevels EXCEPT ![AmLevel] = lv]

\* Thread mode: a task iff SPSEL selects PSP (is_task_context).
AmInThread == amStarted /\ amLevels = <<>>
AmThread == IF amCpu.spsel THEN amPspOwner ELSE NoTask
AmInTask(t) == AmInThread /\ t \in Tasks /\ AmThread = t
AmInBody == AmLevel > 0 /\ AmTop.exc # "PendSV"
\* Handlers of unmanaged lines make no kernel calls.
AmManaged(l) == AmLockMask = 0 \/ AmPriority[l] >= AmLockMask
AmInCode == (AmInBody /\ AmManaged(AmTop.exc)) \/ (AmInThread /\ AmThread \in Tasks)
----------------------------------------------------------------------------
(* Exception entry and return, as the hardware does them *)

\* The FP half of an extended frame lies below (is pushed before) the rest.
AmStack(frames) ==
    Push(IF amCpu.fpca THEN Push(frames, "FP", amCpu.f) ELSE frames, "basic", amCpu.x)

AmEntry(exc) ==
    LET toPsp == amCpu.spsel /\ AmLevel = 0
    IN  /\ amCpu' = [amCpu EXCEPT
                !.psp = IF toPsp THEN AmStack(@) ELSE @,
                !.msp = IF toPsp THEN @ ELSE AmStack(@),
                !.x = HandlerValue(AmLevel + 1), !.f = IF amCpu.fpca THEN Junk ELSE @,
                !.fpca = FALSE]
        /\ amLevels' = Append(amLevels,
                [exc |-> exc, ret |-> [psp |-> toPsp, fp |-> amCpu.fpca],
                 step |-> "save", usesFp |-> FALSE])

\* The frames a return with EXC_RETURN ret takes the registers from.
AmUnstack(c, ret) ==
    LET frames == IF ret.psp THEN c.psp ELSE c.msp
        rest   == Drop(frames)
        left   == IF ret.fp THEN Drop(rest) ELSE rest
    IN  [c EXCEPT !.x = OnTop(frames, "basic", Junk),
                  !.f = IF ret.fp THEN OnTop(rest, "FP", Junk) ELSE @,
                  !.fpca = ret.fp,
                  !.psp = IF ret.psp THEN left ELSE @,
                  !.msp = IF ret.psp THEN @ ELSE left]

AmReturn(c, ret) ==
    /\ amCpu' = AmUnstack(c, ret)
    /\ amLevels' = SubSeq(amLevels, 1, AmLevel - 1)

\* An enabled pending line preempts if it is above the running exception and
\* not masked by CPU Lock.
AmCanTake(l) ==
    /\ l \in amPending \cap amEnabled
    /\ amLock => ~AmManaged(l)
    /\ \A i \in 1 .. AmLevel :
          amLevels[i].exc # "PendSV" => AmPriority[l] < AmPriority[amLevels[i].exc]

AmTakeInterrupt(l) ==
    /\ amStarted /\ AmCanTake(l)
    /\ amPending' = amPending \ {l}
    /\ AmEntry(l)
    /\ UNCHANGED <<amStarted, amLock, amPendSv, amEnabled, amRaises, amKernelVars,
                   amPspOwner, amFpUsers, amWanted>>

AmHandlerReturns ==
    /\ AmInBody /\ (amLock => ~AmManaged(AmTop.exc))
    /\ AmReturn(amCpu, AmTop.ret)
    /\ UNCHANGED <<amStarted, amLock, amPendSv, amLineVars, amKernelVars, amPspOwner,
                   amFpUsers, amWanted>>

AmRaise(l) ==
    /\ l \notin amPending
    /\ amRaises < AmMaxRaises /\ amRaises' = amRaises + 1
    /\ amPending' = amPending \cup {l}
    /\ UNCHANGED <<amCpu, amStarted, amLock, amPendSv, amEnabled, amKernelVars, amLevels,
                   amPspOwner, amFpUsers, amWanted>>

\* enable_interrupt_line and disable_interrupt_line.
AmToggleLine(l) ==
    /\ AmInCode /\ AmInThread
    /\ amEnabled' = IF l \in amEnabled THEN amEnabled \ {l} ELSE amEnabled \cup {l}
    /\ UNCHANGED <<amCpu, amStarted, amLock, amPendSv, amPending, amRaises, amKernelVars,
                   amLevels, amPspOwner, amFpUsers, amWanted>>
----------------------------------------------------------------------------
(* handle_pend_sv *)

\* Mutant: PendSV does not have the lowest priority.
AmPendSvEntryNested ==
    /\ amStarted /\ amPendSv /\ ~amLock
    /\ amPendSv' = FALSE
    /\ AmEntry("PendSV")
    /\ UNCHANGED <<amStarted, amLock, amLineVars, amKernelVars, amPspOwner, amFpUsers, amWanted>>

AmPendSvEntry ==
    /\ amStarted /\ amPendSv /\ ~amLock /\ amLevels = <<>>
    /\ amPendSv' = FALSE
    /\ AmEntry("PendSV")
    /\ UNCHANGED <<amStarted, amLock, amLineVars, amKernelVars, amPspOwner, amFpUsers, amWanted>>

AmPendSvAt(step) == AmLevel > 0 /\ AmTop.exc = "PendSV" /\ AmTop.step = step

\* Mutant: s16-s31 stay in the CPU.
AmSaveIntegerOnly ==
    /\ AmPendSvAt("save")
    /\ amTaskSp' = IF amRunning = NoTask THEN amTaskSp
                   ELSE [amTaskSp EXCEPT ![amRunning] =
                            Push(Push(amCpu.psp, "s", amCpu.s), "ret", AmTop.ret)]
    /\ amLevels' = AmSetTop([AmTop EXCEPT !.step = "choose"])
    /\ amCpu' = [amCpu EXCEPT !.s = Junk]
    /\ UNCHANGED <<amStarted, amLock, amPendSv, amLineVars, amRunning, amActive, amPspOwner,
                   amFpUsers, amWanted>>

\* The context of the previous task, if any, is saved below its PSP: r4-r11,
\* s16-s31 if its frame has FP registers, EXC_RETURN and CONTROL.
AmSave ==
    /\ AmPendSvAt("save")
    /\ LET sx == Push(amCpu.psp, "s", amCpu.s)
           sf == IF AmTop.ret.fp THEN Push(sx, "fs", amCpu.fs) ELSE sx
       IN  amTaskSp' = IF amRunning = NoTask THEN amTaskSp
                       ELSE [amTaskSp EXCEPT ![amRunning] = Push(sf, "ret", AmTop.ret)]
    /\ amLevels' = AmSetTop([AmTop EXCEPT !.step = "choose"])
    /\ amCpu' = [amCpu EXCEPT !.s = Junk]
    /\ UNCHANGED <<amStarted, amLock, amPendSv, amLineVars, amRunning, amActive, amPspOwner,
                   amFpUsers, amWanted>>

\* choose_next_task, under CPU Lock.
AmChoose ==
    /\ AmPendSvAt("choose")
    /\ \E n \in amActive \cup {NoTask} : amRunning' = n
    /\ amLevels' = AmSetTop([AmTop EXCEPT !.step = "restore"])
    /\ amWanted' = FALSE
    /\ UNCHANGED <<amCpu, amStarted, amLock, amPendSv, amLineVars, amTaskSp, amActive,
                   amPspOwner, amFpUsers>>

\* The context of the next task is restored, or the idle task is returned to
\* with CONTROL = 0 and EXC_RETURN = 0xfffffff9.
AmRestore ==
    /\ AmPendSvAt("restore")
    /\ IF amRunning = NoTask
       THEN /\ AmReturn([amCpu EXCEPT !.spsel = FALSE], [psp |-> FALSE, fp |-> FALSE])
            /\ UNCHANGED <<amTaskSp, amPspOwner>>
       ELSE LET frames == amTaskSp[amRunning]
                ret    == OnTop(frames, "ret", [psp |-> FALSE, fp |-> FALSE])
                sf     == Drop(frames)
                sx     == IF ret.fp THEN Drop(sf) ELSE sf
            IN  /\ AmReturn([amCpu EXCEPT
                        !.fs = IF ret.fp THEN OnTop(sf, "fs", Junk) ELSE @,
                        !.s = OnTop(sx, "s", Junk), !.psp = Drop(sx), !.spsel = TRUE], ret)
                /\ amTaskSp' = [amTaskSp EXCEPT ![amRunning] = <<>>]
                /\ amPspOwner' = amRunning
    /\ UNCHANGED <<amStarted, amLock, amPendSv, amLineVars, amRunning, amActive, amFpUsers, amWanted>>
----------------------------------------------------------------------------
(* Booting, and the calls of the kernel *)

\* initialize_task_state: an exception frame and the extra context.
AmInitializeTaskState(t) ==
    Push(Push(Push(<<>>, "basic", t), "s", t), "ret", [psp |-> TRUE, fp |-> FALSE])

AmInit ==
    /\ amCpu = [x |-> Junk, s |-> Junk, f |-> Junk, fs |-> Junk, fpca |-> FALSE,
                spsel |-> FALSE, psp |-> <<>>, msp |-> Push(<<>>, "boot", Junk)]
    /\ amStarted = FALSE /\ amLock = TRUE /\ amPendSv = FALSE
    /\ amPending = {} /\ amEnabled = {} /\ amRaises = 0
    /\ amTaskSp = [t \in Tasks |-> <<>>] /\ amRunning = NoTask /\ amActive = {}
    /\ amLevels = <<>> /\ amPspOwner = NoTask /\ amFpUsers = {} /\ amWanted = FALSE

\* Mutant: MSP is left where it was.
AmIdleTaskOnTop(c) == [c EXCEPT !.spsel = FALSE, !.x = Junk, !.s = Junk]

\* idle_task: MSP is reset, CPU Lock released.
AmIdleTask(c) == [c EXCEPT !.msp = <<>>, !.spsel = FALSE, !.x = Junk, !.s = Junk]

\* port_boot, the kernel's boot and dispatch_first_task.
AmPortBoot(active) ==
    /\ ~amStarted
    /\ amStarted' = TRUE /\ amPendSv' = TRUE /\ amLock' = FALSE /\ amWanted' = TRUE
    /\ amActive' = active
    /\ amTaskSp' = [t \in Tasks |-> IF t \in active THEN AmInitializeTaskState(t) ELSE <<>>]
    /\ amCpu' = AmIdleTask(amCpu)
    /\ UNCHANGED <<amLineVars, amRunning, amLevels, amPspOwner, amFpUsers>>

\* The kernel activates a task (initialize_task_state is called on it).
AmActivate(t) ==
    /\ AmInCode /\ t \notin amActive
    /\ amActive' = amActive \cup {t}
    /\ amTaskSp' = [amTaskSp EXCEPT ![t] = AmInitializeTaskState(t)]
    /\ amFpUsers' = amFpUsers \ {t}
    /\ UNCHANGED <<amCpu, amStarted, amLock, amPendSv, amLineVars, amRunning, amLevels,
                   amPspOwner, amWanted>>

\* Mutant: handlers do not pend PendSV.
AmYieldCpuInThread ==
    /\ AmInCode /\ ~amLock
    /\ amPendSv' = (amPendSv \/ AmInThread) /\ amWanted' = TRUE
    /\ UNCHANGED <<amCpu, amStarted, amLock, amLineVars, amKernelVars, amLevels, amPspOwner,
                   amFpUsers>>

\* yield_cpu: the DSB makes a task take PendSV before its next operation.
AmYieldCpu ==
    /\ AmInCode /\ ~amLock
    /\ amPendSv' = TRUE /\ amWanted' = TRUE
    /\ UNCHANGED <<amCpu, amStarted, amLock, amLineVars, amKernelVars, amLevels, amPspOwner,
                   amFpUsers>>

\* exit_task under CPU Lock: running_task is None by the time
\* exit_and_dispatch is called.
AmExit(t) ==
    /\ AmInTask(t) /\ amLock
    /\ amActive' = amActive \ {t} /\ amRunning' = NoTask
    /\ amPendSv' = TRUE /\ amWanted' = TRUE /\ amLock' = FALSE
    /\ amCpu' = AmIdleTask(amCpu)
    /\ amPspOwner' = NoTask
    /\ UNCHANGED <<amStarted, amLineVars, amTaskSp, amLevels, amFpUsers>>

\* enter_cpu_lock and leave_cpu_lock; PendSV and the interrupts it held back
\* are then taken.
AmCpuLock ==
    /\ AmInCode /\ ~(AmInThread /\ amPendSv /\ ~amLock)
    /\ amLock' = ~amLock
    /\ UNCHANGED <<amCpu, amStarted, amPendSv, amLineVars, amKernelVars, amLevels, amPspOwner,
                   amFpUsers, amWanted>>

\* An FP instruction of a task or a handler; handlers preserve s16-s31.
AmUseFp ==
    /\ (AmInThread /\ AmThread \in Tasks /\ (amPendSv => amLock)) \/ AmInBody
    /\ amCpu' = IF AmInThread
                THEN [amCpu EXCEPT !.fpca = TRUE, !.f = AmThread, !.fs = AmThread]
                ELSE [amCpu EXCEPT !.fpca = TRUE, !.f = HandlerValue(AmLevel)]
    /\ amFpUsers' = IF AmInThread THEN amFpUsers \cup {AmThread} ELSE amFpUsers
    /\ amLevels' = IF AmInThread THEN amLevels ELSE AmSetTop([AmTop EXCEPT !.usesFp = TRUE])
    /\ UNCHANGED <<amStarted, amLock, amPendSv, amLineVars, amKernelVars, amPspOwner, amWanted>>

AmNext ==
    \/ \E active \in SUBSET Tasks : AmPortBoot(active)
    \/ \E t \in Tasks : AmActivate(t) \/ AmExit(t)
    \/ AmYieldCpu \/ AmCpuLock \/ AmUseFp
    \/ \E l \in AmLines : AmRaise(l) \/ AmTakeInterrupt(l) \/ AmToggleLine(l)
    \/ AmHandlerReturns \/ AmPendSvEntry \/ AmSave \/ AmChoose \/ AmRestore

AmSpec == AmInit /\ [][AmNext]_amVars
----------------------------------------------------------------------------
\* A task runs on exactly its own registers and stack and is the task the
\* kernel regards as running; handlers, which may interrupt the dispatcher
\* itself, run on their own caller-saved registers and leave the callee-saved
\* ones of a thread that is not being switched alone.
AmContextIntact ==
    /\ AmInThread => amRunning = AmThread
    /\ \A t \in Tasks : AmInTask(t) =>
          /\ amCpu.x = t /\ amCpu.s = t /\ amCpu.psp = <<>>
          /\ amCpu.fpca = (t \in amFpUsers)
          /\ amCpu.fpca => amCpu.f = t /\ amCpu.fs = t
    /\ AmInBody =>
          /\ amCpu.x = HandlerValue(AmLevel)
          /\ AmTop.usesFp => amCpu.fpca /\ amCpu.f = HandlerValue(AmLevel)
          /\ amLevels[1].exc # "PendSV" /\ amRunning # NoTask => amCpu.s = amRunning

\* Code after yield_cpu runs only once the dispatch has been made: at thread
\* level an unmade dispatch is a PendSV that nothing masks.
AmNoLostDispatch == AmInThread /\ amWanted => amPendSv /\ ~amLock

\* While tasks run MSP holds exactly the frame the idle task is resumed from,
\* and no more than one frame of each priority above it: dispatching and
\* exiting do not leak or underrun the interrupt stack.
AmMainStackBalanced ==
    LET kinds == [i \in 1 .. Len(amCpu.msp) |-> amCpu.msp[i].kind] IN
    /\ AmInThread /\ AmThread \in Tasks => kinds \in {<<"basic">>, <<"basic", "FP">>}
    /\ AmInThread /\ AmThread = NoTask => kinds \in {<<>>, <<"FP">>}

AmContract == INSTANCE PortContract WITH
    thread <- IF amStarted THEN AmThread ELSE "boot", running <- amRunning,
    depth <- AmLevel, wanted <- amWanted

\* The port keeps the contract the kernel is written against although its
\* dispatcher can be interrupted between choosing a task and switching to it.
AmKeepsContract == AmContract!ContractSpec
=============================================================================
