----------------------------- MODULE PortRiscv ------------------------------
(***************************************************************************)
(* The RISC-V port (r3_port_riscv: threading/imp.rs, imp/instemu.rs), with *)
(* external interrupts delivered by the PLIC driver.  Assembly that runs   *)
(* with xstatus.XIE clear cannot be interrupted, so each such stretch is   *)
(* one action; task code, handler bodies, the idle loop and the steps of   *)
(* handle_interrupt run with it set and interleave with the lines.         *)
(*                                                                         *)
(* The kernel above the port is reduced to what it may do to the port: it  *)
(* activates tasks, picks any activated task or none in                    *)
(* choose_running_task, and calls yield_cpu and exit_and_dispatch.         *)
(***************************************************************************)
EXTENDS Plic

CONSTANTS RvUsed,         \* the local lines with a handler: "E", "S", "T"
          RvMaxRaises,    \* bound: how often the lines are raised in a behaviour
          RvBusyLevel     \* bound: deeper handlers only nest, claim and yield

ASSUME RvAssumption == /\ RvUsed \subseteq {"E", "S", "T"}
                       /\ RvMaxRaises \in Nat /\ RvBusyLevel \in Nat
                       /\ {"zero", "main"} \cap (Tasks \cup {NoTask}) = {}

VARIABLES
    rvCpu,        \* x, s, f, fs: whose caller-/callee-saved integer and FP
                  \* registers are live; fp: xstatus.FS[1]; sp: stack pointer
    rvXie,        \* xie, a set of local lines
    rvXip,        \* the software and timer bits of xip
    rvGlobal,     \* xstatus.XIE
    rvPending,    \* DISPATCH_PENDING
    rvNesting,    \* INTERRUPT_NESTING
    rvMain,       \* MAIN_STACK has been assigned
    rvTaskSp,     \* TaskState.sp: the frames it points at
    rvRunning,    \* the kernel's running_task
    rvActive,     \* tasks the kernel has activated and that have not exited
    rvLevels,     \* the invocations of the trap handler on the main stack
    rvPc,         \* what each task is in the middle of
    rvReserved,   \* the task whose LR reservation is valid
    rvFpUsers,    \* history: tasks that have FP state of their own
    rvLocked,     \* history: the running code believes CPU Lock is active
    rvWanted,     \* history: a dispatch has been asked for and not made
    rvDisturbed,  \* history: an interrupt was taken since the last LR
    rvRaises      \* bound: lines raised so far

rvVars == <<rvCpu, rvXie, rvXip, rvGlobal, rvPending, rvNesting, rvMain, rvTaskSp,
            rvRunning, rvActive, rvLevels, rvPc, rvReserved, rvFpUsers, rvLocked,
            rvWanted, rvDisturbed, rvRaises>>

\* Stack pointers: on a task's stack, on the main stack, or zero (idle task).
TaskStack(t, frames) == [on |-> t, frames |-> frames]
MainStack == [on |-> "main", frames |-> <<>>]
NoStack == [on |-> "zero", frames |-> <<>>]

\* xip as a read of the CSR sees it.
Xip == rvXip \cup (IF PlicAsserted THEN {"E"} ELSE {})

RvLevel == Len(rvLevels)
RvTop == rvLevels[RvLevel]
SetTop(lv) == [rvLevels EXCEPT ![RvLevel] = lv]

\* is_task_context, and the two threads that run in it.
RvInThread == rvMain /\ rvNesting < 0
RvThread == IF rvCpu.sp.on = "zero" THEN NoTask ELSE rvCpu.sp.on
RvInTask(t) == RvInThread /\ RvThread = t /\ t \in Tasks
----------------------------------------------------------------------------
(* First- and second-level states *)

PushReg(c, kind, val) == [c EXCEPT !.sp.frames = Push(@, kind, val)]

PushFlsF(c) == IF c.fp THEN PushReg(c, "FLS.F", c.f) ELSE c

\* Mutant: the callee-saved FP registers stay in the CPU.
PushSlsIntegerOnly(c, part) == PushReg(PushReg(c, "SLS.X", c.s), "HDR", part)

\* SLS.X, SLS.F if xstatus_part has FS[1] set, and xstatus_part itself.
PushSls(c, part) ==
    LET d == PushReg(c, "SLS.X", c.s)
    IN  PushReg(IF part THEN PushReg(d, "SLS.F", c.fs) ELSE d, "HDR", part)

PopSlsF(c, part) ==
    IF part THEN [c EXCEPT !.fs = OnTop(c.sp.frames, "SLS.F", Junk), !.fp = TRUE,
                           !.sp.frames = Drop(@)]
            ELSE [c EXCEPT !.fs = Junk]

PopSlsX(c) == [c EXCEPT !.s = OnTop(c.sp.frames, "SLS.X", Junk), !.sp.frames = Drop(@)]

PopFlsF(c, part) ==
    IF part THEN [c EXCEPT !.f = OnTop(c.sp.frames, "FLS.F", Junk), !.fp = TRUE,
                           !.sp.frames = Drop(@)]
            ELSE [c EXCEPT !.f = Junk, !.fp = FALSE]

PopFlsX(c) == [c EXCEPT !.x = OnTop(c.sp.frames, "FLS.X", Junk), !.sp.frames = Drop(@)]

\* pop_first_level_state, up to the xRET.
PopFls(c, part) == PopFlsX(PopFlsF(c, part))

\* The pop half of dispatch, for the frames n's TaskState points at.
Resume(c, n, frames) ==
    LET part == OnTop(frames, "HDR", FALSE)
        d    == [c EXCEPT !.x = Junk, !.sp = TaskStack(n, Drop(frames))]
    IN  PopFls(PopSlsX(PopSlsF(d, part)), part)

\* The idle task has no registers of its own.
IdleTask(c) == [c EXCEPT !.x = Junk, !.s = Junk, !.f = Junk, !.fs = Junk, !.sp = NoStack]
----------------------------------------------------------------------------
(* push_second_level_state_and_dispatch and its entry points; c is the     *)
(* register file and part the xstatus_part in a0 on entry                  *)

\* dispatch: choose_running_task picks n; the xRET or the idle loop sets XIE.
Dispatch(c, sps, active) ==
    \E n \in active \cup {NoTask} :
        /\ rvRunning' = n
        /\ rvCpu' = IF n = NoTask THEN IdleTask(c) ELSE Resume(c, n, sps[n])
        /\ rvTaskSp' = [t \in Tasks |-> IF t = n THEN <<>> ELSE sps[t]]
        /\ rvGlobal' = TRUE
        /\ rvWanted' = FALSE

NotShortcutting(c, part) ==
    IF c.sp.on = "zero"
    THEN Dispatch([c EXCEPT !.sp = MainStack], rvTaskSp, rvActive)
    ELSE LET d == PushSls(c, part)
         IN  Dispatch(d, IF rvRunning = NoTask THEN rvTaskSp
                         ELSE [rvTaskSp EXCEPT ![rvRunning] = d.sp.frames], rvActive)

\* Mutant: the xRET of the shortcut always enables interrupts.
PushSecondLevelStateAndDispatchOpen(c, part, xpie) ==
    \/ /\ ~rvPending
       /\ rvCpu' = IF c.sp.on = "zero" THEN IdleTask(c) ELSE PopFls(c, part)
       /\ rvGlobal' = TRUE
       /\ UNCHANGED <<rvPending, rvRunning, rvTaskSp, rvWanted>>
    \/ /\ rvPending
       /\ rvPending' = FALSE
       /\ NotShortcutting(c, part)

\* xie is what the xRET of the shortcut makes of xstatus.XIE (from XPIE).
PushSecondLevelStateAndDispatch(c, part, xpie) ==
    \/ /\ ~rvPending
       /\ rvCpu' = IF c.sp.on = "zero" THEN IdleTask(c) ELSE PopFls(c, part)
       /\ rvGlobal' = (xpie \/ c.sp.on = "zero")
       /\ UNCHANGED <<rvPending, rvRunning, rvTaskSp, rvWanted>>
    \/ /\ rvPending
       /\ rvPending' = FALSE
       /\ NotShortcutting(c, part)

\* Mutant: INTERRUPT_NESTING is not looked at.
LeaveTrapToThread(c, level, xpie) ==
    /\ rvNesting' = rvNesting - 1
    /\ PushSecondLevelStateAndDispatch([c EXCEPT !.sp = level.sp, !.x = Junk], level.part, xpie)

\* The end of exception_handler: back to the interrupted handler or to a
\* thread.
LeaveTrap(c, level, xpie) ==
    LET d == [c EXCEPT !.sp = level.sp, !.x = Junk]
    IN  /\ rvNesting' = rvNesting - 1
        /\ IF rvNesting' >= 0
           THEN /\ rvCpu' = PopFls(d, level.part)
                /\ rvGlobal' = xpie
                /\ UNCHANGED <<rvPending, rvRunning, rvTaskSp, rvWanted>>
           ELSE PushSecondLevelStateAndDispatch(d, level.part, xpie)

\* The start of exception_handler: [cpu, level, nesting] once the frames of
\* the background context are pushed and the stack is chosen.
EnterTrap ==
    LET idle  == rvCpu.sp.on = "zero"
        n     == IF idle THEN 0 ELSE rvNesting + 1
        part  == ~idle /\ rvCpu.fp
        d     == IF idle THEN rvCpu ELSE PushFlsF(PushReg(rvCpu, "FLS.X", rvCpu.x))
    IN  [cpu     |-> [d EXCEPT !.sp = MainStack, !.x = HandlerValue(RvLevel + 1), !.f = Junk,
                               !.fp = IF idle THEN @ ELSE FALSE],
         level   |-> [sp |-> d.sp, part |-> part],
         nesting |-> n,
         switch  |-> n = 0]
----------------------------------------------------------------------------
(* Booting, and the calls of the kernel *)

\* initialize_task_state: a first-level state that starts the task, a
\* second-level state and an xstatus_part with FS[1] clear.
InitializeTaskState(t) ==
    Push(Push(Push(<<>>, "FLS.X", t), "SLS.X", t), "HDR", FALSE)

RvInit ==
    /\ PlicReset
    /\ rvCpu = [x |-> Junk, s |-> Junk, f |-> Junk, fs |-> Junk, fp |-> FALSE, sp |-> MainStack]
    /\ rvXie = {} /\ rvXip = {}
    /\ rvGlobal = FALSE /\ rvPending = FALSE /\ rvNesting = 0 /\ rvMain = FALSE
    /\ rvTaskSp = [t \in Tasks |-> <<>>] /\ rvRunning = NoTask /\ rvActive = {}
    /\ rvLevels = <<>> /\ rvPc = [t \in Tasks |-> "code"] /\ rvReserved = NoTask
    /\ rvFpUsers = {} /\ rvLocked = TRUE /\ rvWanted = FALSE /\ rvDisturbed = FALSE
    /\ rvRaises = 0

\* port_boot, the kernel's boot (which activates some tasks) and
\* dispatch_first_task: one uninterruptible stretch.
RvPortBoot(active) ==
    /\ ~rvMain /\ rvXie' = RvUsed
    /\ PlicInit /\ UNCHANGED <<plPending, plInService>>
    /\ rvNesting' = -1 /\ rvMain' = TRUE /\ rvActive' = active /\ rvLocked' = FALSE
    /\ Dispatch(rvCpu, [t \in Tasks |-> IF t \in active THEN InitializeTaskState(t) ELSE <<>>],
                active)
    /\ UNCHANGED <<rvXip, rvPending, rvLevels, rvPc, rvReserved, rvFpUsers, rvDisturbed, rvRaises>>

\* Code that may call the kernel: a task, or the body of a handler.
RvInBody == rvMain /\ rvNesting >= 0 /\ RvTop.run # "none"
RvInCode == RvInBody \/ (RvInThread /\ RvThread \in Tasks /\ rvPc[RvThread] = "code")

\* The kernel activates a task (initialize_task_state is called on it).
RvActivate(t) ==
    /\ RvInCode /\ RvLevel <= RvBusyLevel /\ t \notin rvActive
    /\ rvActive' = rvActive \cup {t}
    /\ rvTaskSp' = [rvTaskSp EXCEPT ![t] = InitializeTaskState(t)]
    /\ rvPc' = [rvPc EXCEPT ![t] = "code"]
    /\ rvFpUsers' = rvFpUsers \ {t}
    /\ UNCHANGED <<rvCpu, rvXie, rvXip, rvGlobal, rvPending, rvNesting, rvMain, rvRunning,
                   rvLevels, rvReserved, rvLocked, rvWanted, rvDisturbed, plVars, rvRaises>>

\* Mutant: the dispatch is only noted if a task was interrupted.
RvYieldInHandlerNotIdle ==
    /\ RvInBody /\ ~rvLocked
    /\ rvPending' = (rvPending \/ rvRunning # NoTask) /\ rvWanted' = TRUE
    /\ UNCHANGED <<rvCpu, rvXie, rvXip, rvGlobal, rvNesting, rvMain, rvTaskSp, rvRunning,
                   rvActive, rvLevels, rvPc, rvReserved, rvFpUsers, rvLocked, rvDisturbed, plVars, rvRaises>>

\* yield_cpu outside a task context.
RvYieldInHandler ==
    /\ RvInBody /\ ~rvLocked
    /\ rvPending' = TRUE /\ rvWanted' = TRUE
    /\ UNCHANGED <<rvCpu, rvXie, rvXip, rvGlobal, rvNesting, rvMain, rvTaskSp, rvRunning,
                   rvActive, rvLevels, rvPc, rvReserved, rvFpUsers, rvLocked, rvDisturbed, plVars, rvRaises>>

\* yield_cpu_in_task up to the store of ra: interrupts are still enabled.
RvYieldBegin(t) ==
    /\ RvInTask(t) /\ rvPc[t] = "code" /\ ~rvLocked
    /\ rvCpu' = PushReg(rvCpu, "FLS.X", rvCpu.x)
    /\ rvPc' = [rvPc EXCEPT ![t] = "yield"]
    /\ rvWanted' = TRUE
    /\ UNCHANGED <<rvXie, rvXip, rvGlobal, rvPending, rvNesting, rvMain, rvTaskSp, rvRunning,
                   rvActive, rvLevels, rvReserved, rvFpUsers, rvLocked, rvDisturbed, plVars, rvRaises>>

\* The rest of it: XIE := 0, FLS.F, not_shortcutting.
RvYieldDispatch(t) ==
    /\ RvInTask(t) /\ rvPc[t] = "yield" /\ rvGlobal
    /\ rvPc' = [rvPc EXCEPT ![t] = "code"]
    /\ NotShortcutting(PushFlsF(rvCpu), rvCpu.fp)
    /\ UNCHANGED <<rvXie, rvXip, rvPending, rvNesting, rvMain, rvActive, rvLevels, rvReserved,
                   rvFpUsers, rvLocked, rvDisturbed, plVars, rvRaises>>

\* exit_task under CPU Lock, ending in exit_and_dispatch.
RvExit(t) ==
    /\ RvInTask(t) /\ rvPc[t] = "code" /\ rvLocked
    /\ rvActive' = rvActive \ {t}
    /\ rvLocked' = FALSE
    /\ Dispatch(rvCpu, rvTaskSp, rvActive')
    /\ UNCHANGED <<rvXie, rvXip, rvPending, rvNesting, rvMain, rvLevels, rvPc, rvReserved,
                   rvFpUsers, rvDisturbed, plVars, rvRaises>>

\* enter_cpu_lock, try_enter_cpu_lock (which reports what XIE was), and
\* leave_cpu_lock.
RvCpuLock ==
    /\ RvInCode /\ RvLevel <= RvBusyLevel
    /\ \/ ~rvLocked /\ rvLocked' = rvGlobal /\ rvGlobal' = FALSE
       \/ rvLocked /\ rvLocked' = FALSE /\ rvGlobal' = TRUE
    /\ UNCHANGED <<rvCpu, rvXie, rvXip, rvPending, rvNesting, rvMain, rvTaskSp, rvRunning,
                   rvActive, rvLevels, rvPc, rvReserved, rvFpUsers, rvWanted, rvDisturbed, plVars, rvRaises>>
----------------------------------------------------------------------------
(* What task code and handler code do to the registers *)

\* An FP instruction sets FS[1]; compiled handlers preserve the callee-saved
\* registers.
RvUseFp ==
    /\ RvInCode /\ RvLevel <= RvBusyLevel
    /\ rvCpu' = IF RvInThread
                THEN [rvCpu EXCEPT !.fp = TRUE, !.f = RvThread, !.fs = RvThread]
                ELSE [rvCpu EXCEPT !.fp = TRUE, !.f = HandlerValue(RvLevel)]
    /\ rvFpUsers' = IF RvInThread THEN rvFpUsers \cup {RvThread} ELSE rvFpUsers
    /\ rvLevels' = IF RvInThread THEN rvLevels ELSE SetTop([RvTop EXCEPT !.usesFp = TRUE])
    /\ UNCHANGED <<rvXie, rvXip, rvGlobal, rvPending, rvNesting, rvMain, rvTaskSp, rvRunning,
                   rvActive, rvPc, rvReserved, rvLocked, rvWanted, rvDisturbed, plVars, rvRaises>>

\* LR and SC of a task, emulated by handle_exception: a software trap, entered
\* and left with XIE clear.  SC gives the reservation up whatever its outcome.
RvEmulate(t) ==
    /\ RvInTask(t) /\ rvPc[t] # "yield"
    /\ rvReserved' = IF rvPc[t] = "code" THEN t ELSE NoTask
    /\ rvPc' = [rvPc EXCEPT ![t] = IF @ = "code" THEN "lrsc" ELSE "code"]
    /\ rvDisturbed' = FALSE
    /\ LET trap == EnterTrap
       IN  PushSecondLevelStateAndDispatch([trap.cpu EXCEPT !.sp = trap.level.sp],
                                           trap.level.part, rvGlobal)
    /\ UNCHANGED <<rvXie, rvXip, rvNesting, rvMain, rvActive, rvLevels, rvFpUsers, rvLocked, plVars, rvRaises>>
----------------------------------------------------------------------------
(* Interrupts and handle_interrupt *)

RvRaise(l) ==
    /\ l \in RvUsed \cap {"S", "T"} /\ l \notin rvXip
    /\ rvRaises < RvMaxRaises /\ rvRaises' = rvRaises + 1
    /\ rvXip' = rvXip \cup {l}
    /\ UNCHANGED <<rvCpu, rvXie, rvGlobal, rvPending, rvNesting, rvMain, rvTaskSp, rvRunning,
                   rvActive, rvLevels, rvPc, rvReserved, rvFpUsers, rvLocked, rvWanted,
                   rvDisturbed, plVars>>

RvRaiseExternal(l) ==
    /\ "E" \in RvUsed /\ PlicRaise(l)
    /\ rvRaises < RvMaxRaises /\ rvRaises' = rvRaises + 1
    /\ UNCHANGED <<rvCpu, rvXie, rvXip, rvGlobal, rvPending, rvNesting, rvMain, rvTaskSp,
                   rvRunning, rvActive, rvLevels, rvPc, rvReserved, rvFpUsers, rvLocked,
                   rvWanted, rvDisturbed>>

RvEnableLine(l) == RvInThread /\ RvInCode /\ (PlicEnableLine(l) \/ PlicDisableLine(l)) /\ UNCHANGED rvVars

\* The trap handler is entered and handle_interrupt runs up to its first read
\* of xip: all local lines masked in xie, interrupts enabled globally.  A
\* handler that switches to MAIN_STACK starts over on it.
RvTakeInterrupt ==
    /\ rvMain /\ rvGlobal /\ Xip \cap rvXie # {}
    /\ LET trap == EnterTrap IN
         /\ rvCpu' = trap.cpu
         /\ rvNesting' = trap.nesting
         /\ rvLevels' = Append(IF trap.switch THEN <<>> ELSE rvLevels,
                [sp |-> trap.level.sp, part |-> trap.level.part, old |-> rvXie \cap RvUsed,
                 pend |-> {}, xip |-> Xip, phase |-> "E", run |-> "none",
                 token |-> <<>>, usesFp |-> FALSE])
    /\ rvXie' = rvXie \ RvUsed
    /\ rvDisturbed' = (rvReserved # NoTask)
    /\ UNCHANGED <<rvXip, rvGlobal, rvPending, rvMain, rvTaskSp, rvRunning, rvActive, rvPc,
                   rvReserved, rvFpUsers, rvLocked, rvWanted, plVars, rvRaises>>

\* The line whose loop the top invocation is in, and whether it still has
\* something to handle there.
InLoop(l) == /\ rvMain /\ rvNesting >= 0 /\ RvTop.phase = l /\ RvTop.run = "none"
HasWork(l) == l \in RvUsed \cap RvTop.old /\ l \in RvTop.xip

\* The loop of the software or the timer line calls the handler, which
\* clears its source.
RvCallLocal(l) ==
    /\ InLoop(l) /\ l # "E" /\ HasWork(l)
    /\ rvXip' = rvXip \ {l}
    /\ rvLevels' = SetTop([RvTop EXCEPT !.run = "body"])
    /\ UNCHANGED <<rvCpu, rvXie, rvGlobal, rvPending, rvNesting, rvMain, rvTaskSp, rvRunning,
                   rvActive, rvPc, rvReserved, rvFpUsers, rvLocked, rvWanted, rvDisturbed, plVars, rvRaises>>

\* The loop of the external line calls the PLIC's interrupt_handler.
RvCallExternal ==
    /\ InLoop("E") /\ HasWork("E")
    /\ \/ \E l \in Claimable :
            /\ PlicClaim(l)
            /\ rvXie' = IF UseNesting THEN rvXie \cup {"E"} ELSE rvXie
            /\ rvLevels' = SetTop([RvTop EXCEPT !.run = "body", !.token = PlicToken(l)])
       \/ /\ Claimable = {}
          /\ rvLevels' = SetTop([RvTop EXCEPT !.xip = Xip])
          /\ UNCHANGED <<rvXie, plVars>>
    /\ UNCHANGED <<rvCpu, rvXip, rvGlobal, rvPending, rvNesting, rvMain, rvTaskSp, rvRunning,
                   rvActive, rvPc, rvReserved, rvFpUsers, rvLocked, rvWanted, rvDisturbed, rvRaises>>

\* A handler returns; xip is read again.
RvHandlerReturns ==
    /\ RvInBody /\ ~rvLocked
    /\ IF RvTop.phase = "E"
       THEN PlicEnd(RvTop.token) /\ rvXie' = IF UseNesting THEN rvXie \ {"E"} ELSE rvXie
       ELSE UNCHANGED <<plVars, rvXie>>
    /\ rvLevels' = SetTop([RvTop EXCEPT !.run = "none", !.token = <<>>,
                                        !.xip = rvXip \cup (IF PlicAsserted' THEN {"E"} ELSE {})])
    /\ UNCHANGED <<rvCpu, rvXip, rvGlobal, rvPending, rvNesting, rvMain, rvTaskSp, rvRunning,
                   rvActive, rvPc, rvReserved, rvFpUsers, rvLocked, rvWanted, rvDisturbed, rvRaises>>

\* From one line's loop to the next: if the next line was enabled in the
\* background, the line above it is enabled first.
NextLine(l) == CASE l = "E" -> "S" [] l = "S" -> "T" [] l = "T" -> "end"
\* Mutant: a line is enabled in its own loop.
AboveAndSelf(l) == RvUsed \cap CASE l = "S" -> {"E", "S"} [] l = "T" -> {"S", "T"} [] l = "end" -> {}

Above(l) == CASE l = "S" -> RvUsed \cap {"E"}
              [] l = "T" -> IF "S" \in RvUsed THEN {"S"} ELSE RvUsed \cap {"E"}
              [] l = "end" -> {}

RvNextLoop(l) ==
    /\ InLoop(l) /\ l # "end" /\ ~HasWork(l)
    /\ rvLevels' = SetTop([RvTop EXCEPT !.phase = NextLine(l),
                             !.pend = IF l \in RvUsed \cap RvTop.old THEN {l} ELSE @])
    /\ rvXie' = IF NextLine(l) \in RvUsed \cap RvTop.old THEN rvXie \cup Above(NextLine(l))
                ELSE rvXie
    /\ UNCHANGED <<rvCpu, rvXip, rvGlobal, rvPending, rvNesting, rvMain, rvTaskSp, rvRunning,
                   rvActive, rvPc, rvReserved, rvFpUsers, rvLocked, rvWanted, rvDisturbed, plVars, rvRaises>>

\* Mutant: the reservation is kept over interrupts.
RvLeaveInterruptReserved ==
    /\ InLoop("end")
    /\ rvXie' = rvXie \cup RvTop.pend
    /\ rvLevels' = SubSeq(rvLevels, 1, RvLevel - 1)
    /\ LeaveTrap(rvCpu, RvTop, TRUE)
    /\ UNCHANGED <<rvXip, rvMain, rvActive, rvPc, rvFpUsers, rvLocked, plVars, rvRaises,
                   rvReserved, rvDisturbed>>

\* The end of handle_interrupt and of exception_handler.
RvLeaveInterrupt ==
    /\ InLoop("end")
    /\ rvXie' = rvXie \cup RvTop.pend
    /\ rvReserved' = NoTask
    /\ rvLevels' = SubSeq(rvLevels, 1, RvLevel - 1)
    /\ rvDisturbed' = (rvDisturbed /\ rvReserved' # NoTask)
    /\ LeaveTrap(rvCpu, RvTop, TRUE)
    /\ UNCHANGED <<rvXip, rvMain, rvActive, rvPc, rvFpUsers, rvLocked, plVars, rvRaises>>

RvNext ==
    \/ \E active \in SUBSET Tasks : RvPortBoot(active)
    \/ \E t \in Tasks : \/ RvActivate(t) \/ RvYieldBegin(t) \/ RvYieldDispatch(t)
                        \/ RvExit(t) \/ RvEmulate(t)
    \/ RvYieldInHandler \/ RvCpuLock \/ RvUseFp
    \/ \E l \in {"S", "T"} : RvRaise(l) \/ RvCallLocal(l)
    \/ \E l \in PlicLines : RvRaiseExternal(l) \/ RvEnableLine(l)
    \/ RvTakeInterrupt \/ RvCallExternal \/ RvHandlerReturns
    \/ \E l \in {"E", "S", "T"} : RvNextLoop(l)
    \/ RvLeaveInterrupt

RvSpec == RvInit /\ [][RvNext]_<<rvVars, plVars>>
----------------------------------------------------------------------------
\* A thread runs on exactly its own registers and stack, and is the task the
\* kernel regards as running; a handler runs on its own caller-saved
\* registers and leaves the callee-saved ones of the thread below it alone.
RvContextIntact ==
    /\ RvInThread => rvRunning = RvThread
    /\ \A t \in Tasks : RvInTask(t) =>
          /\ rvCpu.x = t /\ rvCpu.s = t
          /\ rvCpu.fp = (t \in rvFpUsers)
          /\ rvCpu.fp => rvCpu.f = t /\ rvCpu.fs = t
          /\ rvCpu.sp.frames = IF rvPc[t] = "yield" THEN Push(<<>>, "FLS.X", t) ELSE <<>>
    /\ RvInBody =>
          /\ rvCpu.x = HandlerValue(RvLevel)
          /\ RvTop.usesFp => rvCpu.fp /\ rvCpu.f = HandlerValue(RvLevel)
          /\ rvRunning # NoTask => rvCpu.s = rvRunning
          /\ rvRunning \in rvFpUsers => rvCpu.fs = rvRunning

\* The priority of the handler a level is running (handle_interrupt's table,
\* refined by the priorities of the PLIC).
RvRank(lv) == CASE lv.phase = "T" -> 1 [] lv.phase = "S" -> 2
                [] OTHER -> 2 + PlicPriority[lv.token.line]

\* A handler is only interrupted by handlers of higher priority, so the main
\* stack holds at most one invocation per priority, and INTERRUPT_NESTING
\* counts them.
RvPriorityOrder ==
    /\ rvMain => rvNesting = RvLevel - 1
    /\ \A i, j \in 1 .. RvLevel :
          i < j /\ rvLevels[i].run = "body" /\ rvLevels[j].run = "body" =>
              RvRank(rvLevels[i]) < RvRank(rvLevels[j])
    /\ RvLevel <= 2 + Cardinality({PlicPriority[l] : l \in PlicLines})

\* Every line masked by handle_interrupt, claimed from or masked in the PLIC
\* is unmasked again when a thread runs.
RvEnableRestored ==
    RvInThread => rvXie = RvUsed /\ plThreshold = 0 /\ plInService = {}

\* A dispatch asked for by yield_cpu is made before task code or the idle
\* loop runs again.
RvNoLostDispatch ==
    RvInThread /\ (RvThread = NoTask \/ rvPc[RvThread] # "yield") => ~rvWanted

\* CPU Lock is active exactly when the running code believes it is, across
\* emulated instructions, interrupts and dispatches.
RvLockHonoured == rvMain /\ (RvInBody \/ RvInThread) => (rvLocked <=> ~rvGlobal)

\* A reservation that survives until its task runs again was not overlapped
\* by any interrupt.
RvReservationSound ==
    RvInThread => rvReserved = NoTask \/ (rvReserved = RvThread /\ ~rvDisturbed)

\* The thread whose callee-saved registers the CPU holds.
RvHeld == IF ~rvMain THEN "boot"
          ELSE IF (IF RvLevel = 0 THEN rvCpu.sp.on ELSE rvLevels[1].sp.on) = "zero" THEN NoTask
          ELSE rvCpu.s

RvContract == INSTANCE PortContract WITH thread <- RvHeld, running <- rvRunning,
                                         depth <- RvLevel, wanted <- rvWanted

\* The port keeps the contract the kernel is written against: contexts change
\* hands only where choose_running_task was called with no handler left to
\* resume, and a thread is only returned to while it is the running task.
RvKeepsContract == RvContract!ContractSpec
=============================================================================
