------------------------------ MODULE PortArm -------------------------------
(***************************************************************************)
(* The Arm port (r3_port_arm: threading/imp.rs) with the GIC driver        *)
(* (gic/imp.rs).  Tasks and the idle loop run in System mode, handlers in  *)
(* Supervisor mode; code that runs with CPSR.I set is uninterruptible, so  *)
(* each such stretch is one action.  The kernel is reduced to what it may  *)
(* do to the port, as in PortRiscv.                                        *)
(***************************************************************************)
EXTENDS PortBase

CONSTANTS GicPriority,    \* IPRIORITY: a function of the lines, 0 is highest
          ArMaxRaises     \* bound: how often the lines are raised

GicLines == DOMAIN GicPriority

ASSUME ArAssumption == /\ \A l \in GicLines : GicPriority[l] \in 0 .. 254
                       /\ ArMaxRaises \in Nat
                       /\ {"zero", "main"} \cap (Tasks \cup {NoTask}) = {}

VARIABLES
    arCpu,        \* x, s: whose caller- and callee-saved registers are live;
                  \* sp: sp_usr in System mode
    arMask,       \* CPSR.I
    arState,      \* State: dispatch_pending and whether main_stack is assigned
    arTaskSp,     \* TaskState.sp: the frames it points at
    arRunning,    \* the kernel's running_task
    arActive,     \* tasks the kernel has activated and that have not exited
    arLevels,     \* the invocations of irq_entry on the Supervisor stack
    arPc,         \* what each task is in the middle of
    arMonitor,    \* the task the local exclusive monitor is open for
    arGic,        \* pending, enabled and active lines
    arLocked,     \* history: the running code believes CPU Lock is active
    arWanted,     \* history: a dispatch has been asked for and not made
    arDisturbed,  \* history: an interrupt was taken since the last LDREX
    arRaises      \* bound: lines raised so far

arKernelVars == <<arTaskSp, arRunning, arActive, arPc>>
arHistory == <<arLocked, arWanted, arDisturbed, arRaises>>
arVars == <<arCpu, arMask, arState, arKernelVars, arLevels, arMonitor, arGic, arHistory>>

ArNoStack == [on |-> "zero", frames |-> <<>>]
ArMainStack == [on |-> "main", frames |-> <<>>]

\* is_task_context: System mode.
ArStarted == arState.main
ArInThread == ArStarted /\ arLevels = <<>>
ArThread == IF arCpu.sp.on = "zero" THEN NoTask ELSE arCpu.sp.on
ArInTask(t) == ArInThread /\ t \in Tasks /\ ArThread = t

ArLevel == Len(arLevels)
ArTop == arLevels[ArLevel]
ArSetTop(lv) == [arLevels EXCEPT ![ArLevel] = lv]
ArInBody == ArLevel > 0 /\ ArTop.run = "body"
ArInCode == ArInBody \/ (ArInThread /\ ArThread \in Tasks /\ arPc[ArThread] = "code")
----------------------------------------------------------------------------
(* The GIC: a line is signalled if its priority is above that of every     *)
(* active one                                                              *)

GicSignalled ==
    {l \in arGic.pending \cap arGic.enabled :
        \A m \in arGic.active : GicPriority[l] < GicPriority[m]}

\* The lines a read of IAR may return; if there are none it returns 1023.
GicBest == {l \in GicSignalled : \A m \in GicSignalled : GicPriority[l] <= GicPriority[m]}

\* init: every line disabled and cleared; the active ones, if any, ended.
GicInit == [pending |-> {}, enabled |-> {}, active |-> {}]

ArRaise(l) ==
    /\ ArStarted /\ l \notin arGic.pending
    /\ arRaises < ArMaxRaises /\ arRaises' = arRaises + 1
    /\ arGic' = [arGic EXCEPT !.pending = @ \cup {l}]
    /\ UNCHANGED <<arCpu, arMask, arState, arKernelVars, arLevels, arMonitor,
                   arLocked, arWanted, arDisturbed>>

\* A level-triggered line goes inactive by itself, or clear_interrupt_line.
ArWithdraw(l) ==
    /\ l \in arGic.pending
    /\ arGic' = [arGic EXCEPT !.pending = @ \ {l}]
    /\ UNCHANGED <<arCpu, arMask, arState, arKernelVars, arLevels, arMonitor, arHistory>>

\* enable_interrupt_line, disable_interrupt_line.
ArToggleLine(l) ==
    /\ ArInCode /\ ArInThread
    /\ arGic' = [arGic EXCEPT !.enabled = IF l \in @ THEN @ \ {l} ELSE @ \cup {l}]
    /\ UNCHANGED <<arCpu, arMask, arState, arKernelVars, arLevels, arMonitor, arHistory>>
----------------------------------------------------------------------------
(* push_second_level_state_and_dispatch and its entry points               *)

ArPush(c, kind, val) == [c EXCEPT !.sp.frames = Push(@, kind, val)]
ArPopX(c) == [c EXCEPT !.x = OnTop(c.sp.frames, "first", Junk), !.sp.frames = Drop(@)]
ArPopS(c) == [c EXCEPT !.s = OnTop(c.sp.frames, "second", Junk), !.sp.frames = Drop(@)]

ArIdleTask == [x |-> Junk, s |-> Junk, sp |-> ArNoStack]

\* dispatch: choose_running_task picks n; clrex unless n is the idle task.
ArDispatch(sps, active) ==
    \E n \in active \cup {NoTask} :
        /\ arRunning' = n
        /\ arCpu' = IF n = NoTask THEN ArIdleTask
                    ELSE ArPopX(ArPopS([x |-> Junk, s |-> Junk,
                                        sp |-> [on |-> n, frames |-> sps[n]]]))
        /\ arTaskSp' = [t \in Tasks |-> IF t = n THEN <<>> ELSE sps[t]]
        /\ arMonitor' = IF n = NoTask THEN arMonitor ELSE NoTask
        /\ arMask' = FALSE
        /\ arWanted' = FALSE

\* Mutant: the callee-saved registers are not pushed.
ArPushFirstLevelStateOnly(c) ==
    ArDispatch(IF c.sp.on = "zero" \/ arRunning = NoTask THEN arTaskSp
               ELSE [arTaskSp EXCEPT ![arRunning] = c.sp.frames], arActive)

\* The entry point: the idle task has nothing to save and borrows the main
\* stack; the stack pointer is stored in the task running_task_ptr names.
ArPushSecondLevelStateAndDispatch(c) ==
    LET d == ArPush(c, "second", c.s)
    IN  ArDispatch(IF c.sp.on = "zero" \/ arRunning = NoTask THEN arTaskSp
                   ELSE [arTaskSp EXCEPT ![arRunning] = d.sp.frames], arActive)

\* Mutant: no clrex.
ArPopFirstLevelStateOpen(c) == arCpu' = ArPopX(c) /\ arMask' = FALSE /\ UNCHANGED arMonitor

\* pop_first_level_state, with the clrex before it.
ArPopFirstLevelState(c) ==
    /\ arCpu' = ArPopX(c)
    /\ arMonitor' = NoTask
    /\ arMask' = FALSE

\* Mutant: the idle task is resumed without a look at dispatch_pending.
ArShortcuttingIdle(c) ==
    \/ /\ c.sp.on = "zero"
       /\ arCpu' = ArIdleTask /\ arMask' = FALSE
       /\ UNCHANGED <<arMonitor, arState, arRunning, arTaskSp, arWanted>>
    \/ /\ c.sp.on # "zero" /\ ~arState.pending
       /\ ArPopFirstLevelState(c)
       /\ UNCHANGED <<arState, arRunning, arTaskSp, arWanted>>
    \/ /\ c.sp.on # "zero" /\ arState.pending
       /\ arState' = [arState EXCEPT !.pending = FALSE]
       /\ ArPushSecondLevelStateAndDispatch(c)

ArShortcutting(c) ==
    \/ /\ ~arState.pending
       /\ IF c.sp.on = "zero" THEN arCpu' = ArIdleTask /\ arMask' = FALSE /\ UNCHANGED arMonitor
                              ELSE ArPopFirstLevelState(c)
       /\ UNCHANGED <<arState, arRunning, arTaskSp, arWanted>>
    \/ /\ arState.pending
       /\ arState' = [arState EXCEPT !.pending = FALSE]
       /\ ArPushSecondLevelStateAndDispatch(c)
----------------------------------------------------------------------------
(* Booting, and the calls of the kernel *)

\* initialize_task_state: the first- and second-level states.
ArInitializeTaskState(t) == Push(Push(<<>>, "first", t), "second", t)

ArInit ==
    /\ arCpu = [x |-> Junk, s |-> Junk, sp |-> ArMainStack]
    /\ arMask = TRUE /\ arState = [pending |-> FALSE, main |-> FALSE]
    /\ arTaskSp = [t \in Tasks |-> <<>>] /\ arRunning = NoTask /\ arActive = {}
    /\ arLevels = <<>> /\ arPc = [t \in Tasks |-> "code"] /\ arMonitor = NoTask
    /\ arGic = [pending |-> GicLines, enabled |-> GicLines, active |-> {}]
    /\ arLocked = TRUE /\ arWanted = FALSE /\ arDisturbed = FALSE /\ arRaises = 0

\* port_boot, the kernel's boot and dispatch_first_task.
ArPortBoot(active) ==
    /\ ~ArStarted
    /\ arGic' = GicInit
    /\ arState' = [arState EXCEPT !.main = TRUE]
    /\ arActive' = active /\ arLocked' = FALSE
    /\ ArDispatch([t \in Tasks |-> IF t \in active THEN ArInitializeTaskState(t) ELSE <<>>], active)
    /\ UNCHANGED <<arLevels, arPc, arDisturbed, arRaises>>

\* The kernel activates a task (initialize_task_state is called on it).
ArActivate(t) ==
    /\ ArInCode /\ t \notin arActive
    /\ arActive' = arActive \cup {t}
    /\ arTaskSp' = [arTaskSp EXCEPT ![t] = ArInitializeTaskState(t)]
    /\ arPc' = [arPc EXCEPT ![t] = "code"]
    /\ UNCHANGED <<arCpu, arMask, arState, arRunning, arLevels, arMonitor, arGic, arHistory>>

\* yield_cpu outside a task context.
ArYieldInHandler ==
    /\ ArInBody /\ ~arLocked
    /\ arState' = [arState EXCEPT !.pending = TRUE]
    /\ arWanted' = TRUE
    /\ UNCHANGED <<arCpu, arMask, arKernelVars, arLevels, arMonitor, arGic, arLocked,
                   arDisturbed, arRaises>>

\* yield_cpu in a task: the first-level state is pushed with IRQs enabled,
\* with a CPSR that enables them on return ...
ArYieldBegin(t) ==
    /\ ArInTask(t) /\ arPc[t] = "code" /\ ~arLocked
    /\ arCpu' = ArPush(arCpu, "first", arCpu.x)
    /\ arPc' = [arPc EXCEPT ![t] = "yield"]
    /\ arWanted' = TRUE
    /\ UNCHANGED <<arMask, arState, arTaskSp, arRunning, arActive, arLevels, arMonitor, arGic,
                   arLocked, arDisturbed, arRaises>>

\* ... and cpsid i, then the dispatch.
ArYieldDispatch(t) ==
    /\ ArInTask(t) /\ arPc[t] = "yield"
    /\ arPc' = [arPc EXCEPT ![t] = "code"]
    /\ ArPushSecondLevelStateAndDispatch(arCpu)
    /\ UNCHANGED <<arState, arActive, arLevels, arGic, arLocked, arDisturbed, arRaises>>

\* exit_task under CPU Lock, ending in exit_and_dispatch.
ArExit(t) ==
    /\ ArInTask(t) /\ arPc[t] = "code" /\ arLocked
    /\ arActive' = arActive \ {t}
    /\ arLocked' = FALSE
    /\ ArDispatch(arTaskSp, arActive')
    /\ UNCHANGED <<arState, arPc, arLevels, arGic, arDisturbed, arRaises>>

\* enter_cpu_lock and leave_cpu_lock.
ArCpuLock ==
    /\ ArInCode
    /\ arMask' = ~arLocked /\ arLocked' = ~arLocked
    /\ UNCHANGED <<arCpu, arState, arKernelVars, arLevels, arMonitor, arGic, arWanted,
                   arDisturbed, arRaises>>

\* LDREX and STREX of a task.
ArExclusive(t) ==
    /\ ArInTask(t) /\ arPc[t] # "yield"
    /\ arMonitor' = IF arPc[t] = "code" THEN t ELSE NoTask
    /\ arPc' = [arPc EXCEPT ![t] = IF @ = "code" THEN "exclusive" ELSE "code"]
    /\ arDisturbed' = FALSE
    /\ UNCHANGED <<arCpu, arMask, arState, arTaskSp, arRunning, arActive, arLevels, arGic,
                   arLocked, arWanted, arRaises>>
----------------------------------------------------------------------------
(* irq_entry and handle_irq *)

\* The first-level state goes to the stack of the background mode, unless
\* that is the idle task; then Supervisor mode, IRQs still masked.
ArIrqEntry ==
    /\ ArStarted /\ ~arMask /\ GicSignalled # {}
    /\ LET idle == ArLevel = 0 /\ arCpu.sp.on = "zero" IN
         arLevels' = Append(arLevels,
             [saved |-> IF idle THEN <<>> ELSE Push(<<>>, "first", arCpu.x),
              mode  |-> IF ArLevel = 0 THEN "sys" ELSE "svc",
              run   |-> "entry", line |-> "none"])
    /\ arCpu' = [arCpu EXCEPT !.x = HandlerValue(ArLevel + 1)]
    /\ arMask' = TRUE
    /\ arDisturbed' = (arMonitor # NoTask)
    /\ UNCHANGED <<arState, arKernelVars, arMonitor, arGic, arLocked, arWanted, arRaises>>

\* Mutant: handlers run with IRQs masked.
ArAcknowledgeMasked ==
    /\ ArLevel > 0 /\ ArTop.run = "entry" /\ GicBest # {}
    /\ \E l \in GicBest :
          /\ arGic' = [arGic EXCEPT !.pending = @ \ {l}, !.active = @ \cup {l}]
          /\ arLevels' = ArSetTop([ArTop EXCEPT !.run = "body", !.line = l])
    /\ UNCHANGED <<arCpu, arMask, arState, arKernelVars, arMonitor, arHistory>>

\* Mutant: the interrupt is ended before its handler is called.
ArAcknowledgeEnded ==
    /\ ArLevel > 0 /\ ArTop.run = "entry" /\ GicBest # {}
    /\ \E l \in GicBest :
          /\ arGic' = [arGic EXCEPT !.pending = @ \ {l}]
          /\ arLevels' = ArSetTop([ArTop EXCEPT !.run = "body", !.line = l])
          /\ arMask' = FALSE
    /\ UNCHANGED <<arCpu, arState, arKernelVars, arMonitor, arHistory>>

\* acknowledge_interrupt.  If the signal is gone, handle_irq returns at once,
\* still masked; otherwise IRQs are unmasked and the handler is called.
ArAcknowledge ==
    /\ ArLevel > 0 /\ ArTop.run = "entry"
    /\ \/ /\ GicBest = {}
          /\ arLevels' = ArSetTop([ArTop EXCEPT !.run = "return"])
          /\ UNCHANGED <<arGic, arMask>>
       \/ \E l \in GicBest :
          /\ arGic' = [arGic EXCEPT !.pending = @ \ {l}, !.active = @ \cup {l}]
          /\ arLevels' = ArSetTop([ArTop EXCEPT !.run = "body", !.line = l])
          /\ arMask' = FALSE
    /\ UNCHANGED <<arCpu, arState, arKernelVars, arMonitor, arHistory>>

\* The handler returns and end_interrupt writes EOIR; IRQs stay unmasked
\* until irq_entry masks them.
ArEndInterrupt ==
    /\ ArInBody /\ ~arLocked
    /\ arGic' = [arGic EXCEPT !.active = @ \ {ArTop.line}]
    /\ arLevels' = ArSetTop([ArTop EXCEPT !.run = "return", !.line = "none"])
    /\ UNCHANGED <<arCpu, arMask, arState, arKernelVars, arMonitor, arHistory>>

\* Mutant: the mode to return to is not looked at.
ArIrqReturnToThread ==
    /\ ArLevel > 0 /\ ArTop.run = "return"
    /\ arLevels' = SubSeq(arLevels, 1, ArLevel - 1)
    /\ ArShortcutting([arCpu EXCEPT !.sp.frames = ArTop.saved \o @])
    /\ arDisturbed' = (arDisturbed /\ arMonitor' # NoTask)
    /\ UNCHANGED <<arActive, arPc, arGic, arLocked, arRaises>>

\* The rest of irq_entry: back to the outer handler, or to System mode.
ArIrqReturn ==
    /\ ArLevel > 0 /\ ArTop.run = "return"
    /\ arLevels' = SubSeq(arLevels, 1, ArLevel - 1)
    /\ LET bg == [arCpu EXCEPT !.sp.frames = ArTop.saved \o @] IN
         IF ArTop.mode = "svc"
         THEN ArPopFirstLevelState(bg) /\ UNCHANGED <<arState, arRunning, arTaskSp, arWanted>>
         ELSE ArShortcutting(bg)
    /\ arDisturbed' = (arDisturbed /\ arMonitor' # NoTask)
    /\ UNCHANGED <<arActive, arPc, arGic, arLocked, arRaises>>

ArNext ==
    \/ \E active \in SUBSET Tasks : ArPortBoot(active)
    \/ \E t \in Tasks : \/ ArActivate(t) \/ ArYieldBegin(t) \/ ArYieldDispatch(t)
                        \/ ArExit(t) \/ ArExclusive(t)
    \/ ArYieldInHandler \/ ArCpuLock
    \/ \E l \in GicLines : ArRaise(l) \/ ArWithdraw(l) \/ ArToggleLine(l)
    \/ ArIrqEntry \/ ArAcknowledge \/ ArEndInterrupt \/ ArIrqReturn

ArSpec == ArInit /\ [][ArNext]_arVars
----------------------------------------------------------------------------
\* A thread runs on exactly its own registers and stack and is the task the
\* kernel regards as running; a handler runs on its own caller-saved registers
\* and leaves the callee-saved ones of the thread below it alone.
ArContextIntact ==
    /\ ArInThread => arRunning = ArThread
    /\ \A t \in Tasks : ArInTask(t) =>
          /\ arCpu.x = t /\ arCpu.s = t
          /\ arCpu.sp.frames = IF arPc[t] = "yield" THEN Push(<<>>, "first", t) ELSE <<>>
    /\ ArInBody => /\ arCpu.x = HandlerValue(ArLevel)
                   /\ arRunning # NoTask => arCpu.s = arRunning

\* A dispatch asked for by yield_cpu, by a handler or by the task itself, is
\* made before task code or the idle loop runs again.
ArNoLostDispatch ==
    ArInThread /\ (ArThread = NoTask \/ arPc[ArThread] # "yield") => ~arWanted

\* IRQs are masked in code exactly when that code believes CPU Lock is
\* active, in every task the dispatcher resumes and at every level.
ArLockHonoured == ArInThread \/ ArInBody => (arLocked <=> arMask)

\* A handler is only interrupted by lines of higher priority until it ends its
\* interrupt, and every acknowledged line is ended by the time a thread runs.
ArPriorityOrder ==
    /\ \A i, j \in 1 .. ArLevel :
          i < j /\ arLevels[i].run = "body" /\ arLevels[j].run = "body" =>
              GicPriority[arLevels[j].line] < GicPriority[arLevels[i].line]
    /\ arGic.active = {arLevels[i].line : i \in {k \in 1 .. ArLevel : arLevels[k].run = "body"}}

\* The monitor is open for the thread that runs only if no interrupt came
\* between: a STREX can then not overwrite what a handler or another task did.
ArMonitorSound ==
    ArInThread => arMonitor = NoTask \/ ArThread = NoTask
                  \/ (arMonitor = ArThread /\ ~arDisturbed)

\* The thread whose callee-saved registers the CPU holds.
ArHeld == IF ~ArStarted THEN "boot" ELSE IF arCpu.sp.on = "zero" THEN NoTask ELSE arCpu.s

ArContract == INSTANCE PortContract WITH thread <- ArHeld, running <- arRunning,
                                         depth <- ArLevel, wanted <- arWanted

\* The port keeps the contract the kernel is written against, also where an
\* IRQ is taken between end_interrupt and the masking of IRQs in irq_entry.
ArKeepsContract == ArContract!ContractSpec
=============================================================================
