---------------------------- MODULE TimerDriver -----------------------------
(***************************************************************************)
(* The timer drivers of the ports: the registers of a timer, the driver    *)
(* that implements PortTimer with the algorithms of Tickless, and the      *)
(* kernel that asks for ticks.  mtime and sbi have a free-running counter  *)
(* of 64 bits and a comparator whose interrupt is a level; sp804 has a     *)
(* periodic counter and a one-shot timer; ostm raises an edge at the       *)
(* moment its counter meets the comparator; systick interrupts             *)
(* periodically and uses the tickful algorithm.                            *)
(***************************************************************************)
EXTENDS Tickless

CONSTANTS
    TdOptions,  \* the configurations: driver, frequency, headroom, ...
    TdNested,   \* algorithms with a handler of a higher priority that uses timers
    TdHorizon   \* bound: hardware ticks that elapse

\* The options are natural numbers and flags; the driver of the OS timer wants the hardware tick
\* count to have the full period.
ASSUME TimerDriverAssumption ==
    /\ TdHorizon \in Nat
    /\ \A o \in TdOptions :
        /\ o.driver \in {"mtime", "sbi", "sp804", "ostm", "systick"} /\ o.num \in Nat /\ o.denom \in Nat
        /\ o.driver = "systick" => o.period \in Nat
        /\ o.driver # "systick" => o.headroom \in Nat /\ o.full \in BOOLEAN /\ o.resettable \in BOOLEAN
        /\ o.driver = "ostm" => o.full

VARIABLES
    tdOpt,      \* the options of use_mtime! and the like
    tdCfg,      \* TICKLESS_CFG or TICKFUL_CFG
    tdRef,      \* the TicklessState, for systick the TickfulState
    tdNow,      \* the hardware ticks of the counter since its value was zero
    tdBase,     \* tdNow at init
    tdDev,      \* at: when the comparator or one-shot timer raises the line;
                \* latch: the pending flag of the interrupt controller
    tdStep,     \* "off", "idle" or the step of pend_tick_after
    tdArm,      \* its argument, and the hardware tick it has read
    tdHandler,  \* "none" or the step of handle_tick: "read", "tick"
    tdHandlerHw,\* the hardware tick handle_tick has read
    tdDue,      \* history: the hardware tick at which the requested tick is due
    tdSeen      \* history: the OS time of the last reference point

tdVars == <<tdOpt, tdCfg, tdRef, tdNow, tdBase, tdDev, tdStep, tdArm, tdHandler, tdHandlerHw, tdDue, tdSeen>>

\* The real OS time, from the frequency alone.
OsTime(t) == ((t - tdBase) * tdOpt.denom * MicrosPerSec) \div tdOpt.num

\* The first hardware tick at which the OS time is micros.
HwTime(micros) == tdBase + CeilDiv(micros * tdOpt.num, tdOpt.denom * MicrosPerSec)

Tickful == tdOpt.driver = "systick"
NoArm == [hw |-> 0, micros |-> 0]
Level == tdOpt.driver \in {"mtime", "sbi"}

\* What hw_tick_count returns when the counter has counted t ticks.
HwCount(t) == t % (tdCfg.hwMax + 1)

\* The interrupt request of the timer.
TdPending == tdDev.latch \/ (tdOpt.driver # "ostm" /\ ~Tickful /\ tdNow >= tdDev.at)

-----------------------------------------------------------------------------

TdInit ==
    /\ tdOpt \in TdOptions
    /\ tdCfg = IF tdOpt.driver = "systick" THEN TickfulCfg(tdOpt) ELSE TicklessCfg(tdOpt)
    /\ tdRef = IF tdOpt.driver = "systick" THEN TickfulInit ELSE RefInit
    /\ tdNow = 0 /\ tdBase = 0 /\ tdDue = 0 /\ tdSeen = 0
    /\ tdDev = [at |-> 0, latch |-> FALSE]
    /\ tdStep = "off" /\ tdArm = NoArm
    /\ tdHandler = "none" /\ tdHandlerHw = 0

\* init starts a counter from zero; that of a resettable timer has any value.
CountsAtBoot == IF tdOpt.resettable THEN 0 .. WordMax ELSE {0}

\* The comparator is set as far away as it can be.
DummyCompare(s) == [tdDev EXCEPT !.at = s + WordMax]

\* init, and the kernel's first pend_tick_after.
TdBoot ==
    /\ tdStep = "off" /\ tdCfg.err = "none" /\ ~Tickful
    /\ \E s \in CountsAtBoot :
        /\ tdNow' = s /\ tdBase' = s
        /\ tdRef' = ResetRef(tdRef, HwCount(s))
        /\ tdDev' = DummyCompare(s)
        /\ tdArm' = [hw |-> s, micros |-> tdCfg.maxTimeout]
        /\ tdDue' = s + WordMax
    /\ tdStep' = "arm"
    /\ UNCHANGED <<tdOpt, tdCfg, tdHandler, tdHandlerHw, tdSeen>>

\* The counter counts.  The tick that was asked for is handled within the
\* headroom, and pend_tick_after takes no longer than that either.
TdAdvance ==
    /\ tdStep # "off" /\ ~Tickful
    /\ tdNow < tdBase + TdHorizon
    /\ IF tdStep = "idle" THEN tdNow < tdDue + tdOpt.headroom ELSE tdNow < tdArm.hw + tdOpt.headroom
    /\ tdNow' = tdNow + 1
    /\ tdDev' = [tdDev EXCEPT !.latch = @ \/ (tdOpt.driver = "ostm" /\ HwCount(tdNow + 1) = tdDev.at)]
    /\ UNCHANGED <<tdOpt, tdCfg, tdRef, tdBase, tdStep, tdArm, tdHandler, tdHandlerHw, tdDue, tdSeen>>

\* Whether the kernel may enter the driver: with CPU Lock from a thread, from
\* timer_tick, or from a handler that has preempted handle_tick.
TdEnter == tdStep = "idle" /\ ~Tickful /\ (tdHandler = "read" => tdCfg.algorithm \in TdNested)

\* pend_tick_after reads the counter.
TdPendTickAfter(micros) ==
    /\ TdEnter
    /\ tdArm' = [hw |-> tdNow, micros |-> micros] /\ tdStep' = "arm"
    /\ UNCHANGED <<tdOpt, tdCfg, tdRef, tdNow, tdBase, tdDev, tdHandler, tdHandlerHw, tdDue, tdSeen>>

\* timer_tick returns after its pend_tick or pend_tick_after.
TickDone == IF tdHandler = "tick" THEN "none" ELSE tdHandler

\* The comparators of 64 bits, the one-shot timer, which starts to count now, and
\* the comparator of 32 bits.
ProgramMtimecmp(m) == [tdDev EXCEPT !.at = tdArm.hw + m.hwTicks]
ProgramTimer2(m) == [tdDev EXCEPT !.at = tdNow + m.hwTicks]
ProgramOstmCmp(m) == [tdDev EXCEPT !.at = m.endHw]

\* It marks the reference point and programs the timer.
TdProgram ==
    /\ tdStep = "arm"
    /\ LET hw == HwCount(tdArm.hw)
           marked == MarkReference(tdCfg, tdRef, hw)
           m == Measure(tdCfg, marked, hw, tdArm.micros)
       IN /\ tdRef' = marked
          /\ tdDev' = CASE Level -> ProgramMtimecmp(m)
                        [] tdOpt.driver = "sp804" -> ProgramTimer2(m)
                        [] tdOpt.driver = "ostm" -> ProgramOstmCmp(m)
    /\ tdSeen' = OsTime(tdArm.hw)
    /\ tdDue' = HwTime(OsTime(tdArm.hw) + tdArm.micros)
    /\ IF tdOpt.driver = "ostm" THEN tdStep' = "check" /\ UNCHANGED <<tdArm, tdHandler>>
       ELSE tdStep' = "idle" /\ tdArm' = NoArm /\ tdHandler' = TickDone
    /\ UNCHANGED <<tdOpt, tdCfg, tdNow, tdBase, tdHandlerHw>>

\* Mutant: the counter is not looked at again after the compare register is set.
TdCheckSkipped ==
    /\ tdStep = "check" /\ tdStep' = "idle" /\ tdArm' = NoArm /\ tdHandler' = TickDone
    /\ UNCHANGED <<tdOpt, tdCfg, tdRef, tdNow, tdBase, tdDev, tdHandlerHw, tdDue, tdSeen>>

\* ostm only: when the counter has already met the comparator, the edge may
\* have come before the comparator was written.
TdCheck ==
    /\ tdStep = "check"
    /\ LET hw == HwCount(tdArm.hw)
           m == Measure(tdCfg, tdRef, hw, tdArm.micros)
       IN tdDev' = [tdDev EXCEPT !.latch = @ \/ Wrap32(HwCount(tdNow) - hw) >= m.hwTicks]
    /\ tdStep' = "idle" /\ tdArm' = NoArm /\ tdHandler' = TickDone
    /\ UNCHANGED <<tdOpt, tdCfg, tdRef, tdNow, tdBase, tdHandlerHw, tdDue, tdSeen>>

\* pend_tick: a comparator in the past, or the pending flag.
PendNow == IF Level THEN [tdDev EXCEPT !.at = 0] ELSE [tdDev EXCEPT !.latch = TRUE]

TdPendTick ==
    /\ TdEnter
    /\ tdDev' = PendNow
    /\ tdDue' = Least(tdNow, tdDue) /\ tdHandler' = TickDone
    /\ UNCHANGED <<tdOpt, tdCfg, tdRef, tdNow, tdBase, tdStep, tdArm, tdHandlerHw, tdSeen>>

\* handle_tick reads the counter ...
TdHandleTick ==
    /\ tdStep = "idle" /\ ~Tickful /\ tdHandler = "none" /\ TdPending
    /\ tdDev' = [tdDev EXCEPT !.latch = FALSE]
    /\ tdHandler' = "read" /\ tdHandlerHw' = tdNow
    /\ UNCHANGED <<tdOpt, tdCfg, tdRef, tdNow, tdBase, tdStep, tdArm, tdDue, tdSeen>>

\* ... and marks the reference point, with CPU Lock inactive.
TdMark ==
    /\ tdStep = "idle" /\ tdHandler = "read"
    /\ tdRef' = MarkReference(tdCfg, tdRef, HwCount(tdHandlerHw))
    /\ tdSeen' = Most(tdSeen, OsTime(tdHandlerHw)) /\ tdHandler' = "tick" /\ tdHandlerHw' = 0
    /\ UNCHANGED <<tdOpt, tdCfg, tdNow, tdBase, tdDev, tdStep, tdArm, tdDue>>

-----------------------------------------------------------------------------
(* SysTick: tdNow counts its periods.                                      *)

SysTickInit ==
    /\ tdStep = "off" /\ tdCfg.err = "none" /\ Tickful /\ tdStep' = "idle"
    /\ UNCHANGED <<tdOpt, tdCfg, tdRef, tdNow, tdBase, tdDev, tdArm, tdHandler, tdHandlerHw, tdDue, tdSeen>>

\* A period ends.  The pending flag holds one interrupt: the latency is below
\* one period.
SysTickPeriod ==
    /\ tdStep = "idle" /\ Tickful /\ ~tdDev.latch /\ tdNow < TdHorizon
    /\ tdNow' = tdNow + 1 /\ tdDev' = [tdDev EXCEPT !.latch = TRUE]
    /\ UNCHANGED <<tdOpt, tdCfg, tdRef, tdBase, tdStep, tdArm, tdHandler, tdHandlerHw, tdDue, tdSeen>>

\* handle_tick, whose update of the state is under CPU Lock.
SysTickHandler ==
    /\ tdStep = "idle" /\ Tickful /\ tdDev.latch
    /\ tdDev' = [tdDev EXCEPT !.latch = FALSE] /\ tdRef' = Tick(tdCfg, tdRef)
    /\ UNCHANGED <<tdOpt, tdCfg, tdNow, tdBase, tdStep, tdArm, tdHandler, tdHandlerHw, tdDue, tdSeen>>

TdNext ==
    \/ TdBoot \/ TdAdvance \/ TdProgram \/ TdCheck \/ TdPendTick \/ TdHandleTick \/ TdMark
    \/ \E micros \in 1..Word : tdCfg.err = "none" /\ ~Tickful /\ micros <= tdCfg.maxTimeout
                               /\ TdPendTickAfter(micros)
    \/ SysTickInit \/ SysTickPeriod \/ SysTickHandler

TdSpec == TdInit /\ [][TdNext]_tdVars

-----------------------------------------------------------------------------
(* Properties.                                                             *)

\* What tick_count returns.
TdTickCount == IF Tickful THEN tdRef.micros ELSE TickCount(tdCfg, tdRef, HwCount(tdNow))

\* tick_count returns the real time in microseconds modulo the period of the
\* tick count whenever the kernel can call it, across wrap-arounds of both counts and without
\* drift, whatever references were marked; a tickful count is exact after every
\* tick.
TickCountExact ==
    tdStep = "idle" =>
        IF Tickful
        THEN ~tdDev.latch =>
                TdTickCount = Wrap32((tdNow * tdOpt.period * tdOpt.denom * MicrosPerSec) \div tdOpt.num)
        ELSE TdTickCount = OsTime(tdNow) % (tdCfg.osMax + 1)

\* A tick the kernel has asked for is requested from the processor as soon as
\* its time has come: no comparator is set to a moment that has passed or is a
\* revolution away.  (sp804 may be late by what pend_tick_after took.)  The level
\* of mtime and sbi is not early either.  And between two reference points less
\* than a revolution of the OS tick count goes by even when the interrupt is late
\* by the whole headroom; the kernel could not tell how much time has passed
\* otherwise.
AlarmInTime ==
    tdStep = "idle" /\ ~Tickful =>
        /\ tdHandler = "none" =>
              /\ tdNow >= tdDue + (IF tdOpt.driver = "sp804" THEN tdOpt.headroom ELSE 0) => TdPending
              /\ Level /\ TdPending => tdNow >= tdDue
        /\ OsTime(tdNow) - tdSeen <= tdCfg.osMax
=============================================================================
