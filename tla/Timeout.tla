------------------------------ MODULE Timeout ------------------------------
(***************************************************************************)
(* Timekeeping (timeout.rs) and timers (timer.rs) over a free-running      *)
(* hardware counter.                                                       *)
(*                                                                         *)
(* Event times live in a word of WordSize values and wrap around; two of   *)
(* them are compared by their distances from the critical point, which     *)
(* moves with the current event time.  The system time is kept in a wider  *)
(* word.  The heap of linked timeouts is the set of its elements: only its *)
(* top, an earliest element, is observed.  The timeouts of waiting tasks   *)
(* behave as those of timers with no period.                               *)
(*                                                                         *)
(* A service is one step, because it holds CPU Lock.  handle_tick holds it *)
(* too, but releases it around every timer callback; its `current_time` is *)
(* read once, before the first one.                                        *)
(***************************************************************************)
EXTENDS Integers, FiniteSets, FiniteSetsExt

CONSTANTS
  Timers,         \* indices of KernelCfg2::timer_cb_pool
  None,           \* no value
  WordSize,       \* 2^32: the number of values of Time32
  Time64Size,     \* 2^64: the number of values of Time64
  SystemTimeKept, \* the feature "system_time" is enabled
  DurationMax,    \* Duration::MAX
  UserHeadroom, HardHeadroom,
  MaxTickCount,   \* PortTimer::MAX_TICK_COUNT
  MaxTimeout,     \* PortTimer::MAX_TIMEOUT
  MaxLatency,     \* how late the port may call timer_tick, in ticks
  MaxBusy,        \* how long the callbacks of one handle_tick may take
  InitActive,     \* timers configured with `active(true)`
  InitDelay, InitPeriod,
  Services,       \* what the application calls
  Delays,         \* the durations that it passes to set_delay ...
  Periods,        \* ... and set_period
  Deltas,         \* the arguments of adjust_time
  SysTimes        \* the arguments of set_time

Time32 == 0 .. WordSize - 1
Time64 == 0 .. Time64Size - 1

\* BAD_DURATION32, the duration that stands for infinity
Bad == WordSize - 1
Durations == 0 .. DurationMax

\* The zones around the current event time fill the word (Note 2 of the module
\* documentation), and a late tick does not exhaust the hardware counter.
ASSUME ZoneAssumption ==
  /\ WordSize \in Nat /\ DurationMax \in Nat
  /\ Time64Size \in Nat /\ WordSize < Time64Size
  /\ UserHeadroom \in Nat \ {0} /\ HardHeadroom \in Nat \ {0}
  /\ HardHeadroom + 2 * UserHeadroom + DurationMax + 1 = WordSize
ASSUME PortAssumption ==
  /\ MaxLatency \in Nat /\ MaxBusy \in Nat /\ MaxTimeout \in Nat \ {0}
  /\ MaxTickCount \in Time32
  /\ MaxTimeout + MaxLatency + MaxBusy <= MaxTickCount
  /\ MaxLatency + 2 * MaxBusy <= HardHeadroom
ASSUME TimerAssumption ==
  /\ None \notin Timers /\ None \notin Int
  /\ InitActive \subseteq Timers
  /\ InitDelay \in [Timers -> Durations \cup {Bad}]
  /\ InitPeriod \in [Timers -> Durations \cup {Bad}]
  /\ Delays \subseteq Durations \cup {Bad} /\ Periods \subseteq Durations \cup {Bad}
  /\ Deltas \subseteq -(DurationMax + 1) .. DurationMax
  /\ SysTimes \subseteq Time64
  /\ SystemTimeKept \in BOOLEAN

VARIABLES
  tick_count,         \* the hardware counter
  pended,             \* ticks until the port calls timer_tick; None: not pended
  last_tick_count, last_tick_time, last_tick_sys_time, frontier_gap,
  at,                 \* Timeout::at of every timer
  linked,             \* TimeoutGlobals::heap
  tick_time,          \* `current_time` of the handle_tick in progress
  calling,            \* the timer whose callback is running
  busy,               \* ticks elapsed since that handle_tick began
  active, period,     \* TimerCb
  due,                \* ticks until the arrival time of a linked timeout, the
                      \* quantity of which `at` is a representation
  silent              \* the application calls no service any more

portVars  == <<tick_count, pended>>
clockVars == <<last_tick_count, last_tick_time, last_tick_sys_time, frontier_gap>>
heapVars  == <<at, linked, due>>
loopVars  == <<tick_time, calling, busy>>
timerVars == <<active, period>>
vars == <<tick_count, pended, last_tick_count, last_tick_time,
          last_tick_sys_time, frontier_gap, at, linked, tick_time, calling,
          busy, active, period, due, silent>>

-----------------------------------------------------------------------------
(* Arithmetic of event times *)

Wrap(n) == n % WordSize
Wrap64(n) == n % Time64Size
SaturatingSub(a, b) == IF a > b THEN a - b ELSE 0

\* wrapping_time32_from_duration: a Duration is a signed number of 32 bits.
Time32FromDuration(delta) == Wrap(delta)

\* Mutant: the duration is widened without its sign.
Time64FromDurationUnsigned(delta) == Wrap(delta)

\* wrapping_time64_from_duration, which extends the sign
Time64FromDuration(delta) == Wrap64(delta)

\* Mutant: the counter is taken to wrap around at the end of the word.
DurationSinceLastTickFull == Wrap(tick_count - last_tick_count)

\* duration_since_last_tick: the counter wraps around after MaxTickCount.
DurationSinceLastTick ==
  IF tick_count >= last_tick_count
    THEN tick_count - last_tick_count
    ELSE Wrap(tick_count - last_tick_count) - (WordSize - 1 - MaxTickCount)

CurrentTime == Wrap(last_tick_time + DurationSinceLastTick)
SystemTime == Wrap64(last_tick_sys_time + DurationSinceLastTick)

\* Mutant: the user headroom zone is left out.
CriticalPointHard(now) == Wrap(now - HardHeadroom)

CriticalPoint(now) == Wrap(now - (HardHeadroom + UserHeadroom))

\* The distance from the critical point by which timeouts are ordered
Distance(a, now) == Wrap(a - CriticalPoint(now))

\* saturating_duration_until_timeout
DurationUntil(a, now) ==
  SaturatingSub(Distance(a, now), HardHeadroom + UserHeadroom)

\* saturating_duration_before_timeout_exhausting_user_headroom
DurationBeforeHard(a, now) == SaturatingSub(Distance(a, now), HardHeadroom)

\* The top of the heap
Earliest(x) ==
  /\ x \in linked
  /\ \A y \in linked : Distance(at[x], CurrentTime) <= Distance(at[y], CurrentTime)

\* The delay that pend_next_tick finds for the heap h of timeouts that arrive at a
NextTickDelay(h, a, now) == Min({MaxTimeout} \cup {DurationUntil(a[x], now) : x \in h})

\* pend_next_tick: pend_tick_after, or pend_tick if the delay is zero, which
\* leaves a tick that is due already as it is.
PendNextTick(h, a, now) ==
  LET delay == NextTickDelay(h, a, now)
  IN  pended' = IF delay = 0 /\ pended # None /\ pended <= 0 THEN pended ELSE delay

-----------------------------------------------------------------------------
\* TimeoutGlobals::init and init_timer for every timer.  The arrival time of a
\* timer active at boot is its delay, because event time starts at zero.
Init ==
  /\ tick_count \in 0 .. MaxTickCount
  /\ last_tick_count = tick_count
  /\ last_tick_time = 0
  /\ last_tick_sys_time = 0
  /\ frontier_gap = 0
  /\ at = InitDelay
  /\ linked = {x \in InitActive : InitDelay[x] # Bad}
  /\ active = [x \in Timers |-> x \in InitActive]
  /\ period = InitPeriod
  /\ pended = NextTickDelay(linked, at, 0)
  /\ tick_time = None
  /\ calling = None
  /\ busy = 0
  /\ due = [x \in Timers |-> IF x \in linked THEN InitDelay[x] ELSE 0]
  /\ silent = FALSE

\* The hardware counter advances.  The port calls timer_tick within MaxLatency
\* of the time it was asked for, and callbacks do not run for ever.
Elapse ==
  /\ IF tick_time # None THEN busy < MaxBusy ELSE pended # None => pended > -MaxLatency
  /\ tick_count' = IF tick_count = MaxTickCount THEN 0 ELSE tick_count + 1
  /\ pended' = IF tick_time # None \/ pended = None THEN pended ELSE pended - 1
  /\ busy' = IF tick_time # None THEN busy + 1 ELSE 0
  /\ due' = [x \in Timers |-> IF x \in linked THEN due[x] - 1 ELSE 0]
  /\ UNCHANGED <<clockVars, at, linked, tick_time, calling, timerVars, silent>>

-----------------------------------------------------------------------------
(* Services *)

\* CPU Lock is inactive: handle_tick is not in progress, or in a callback.
InContext == tick_time = None \/ calling # None

\* Mutant: the next tick is scheduled only by handle_tick.
RescheduleNever(h, a) == UNCHANGED pended

\* The end of insert_timeout and remove_timeout
Reschedule(h, a) ==
  IF tick_time = None THEN PendNextTick(h, a, CurrentTime) ELSE UNCHANGED pended

\* set_expiration_after followed by insert_timeout
Link(x, delay) ==
  /\ at' = [at EXCEPT ![x] = Wrap(CurrentTime + delay)]
  /\ linked' = linked \cup {x}
  /\ due' = [due EXCEPT ![x] = delay]
  /\ Reschedule(linked', at')

\* remove_timeout (if linked) followed by set_at_raw
Unlink(x, delay) ==
  /\ at' = [at EXCEPT ![x] = delay]
  /\ linked' = linked \ {x}
  /\ due' = [due EXCEPT ![x] = 0]
  /\ IF x \in linked THEN Reschedule(linked', at') ELSE UNCHANGED pended

StartTimer(x) ==
  /\ InContext
  /\ ~active[x]
  /\ active' = [active EXCEPT ![x] = TRUE]
  /\ IF at[x] # Bad THEN Link(x, at[x]) ELSE UNCHANGED <<heapVars, pended>>
  /\ UNCHANGED <<tick_count, clockVars, loopVars, period, silent>>

\* Mutant: a stopped timer stays in the heap.
StopTimerLinked(x) ==
  /\ InContext
  /\ active[x]
  /\ active' = [active EXCEPT ![x] = FALSE]
  /\ UNCHANGED <<heapVars, portVars, clockVars, loopVars, period, silent>>

StopTimer(x) ==
  /\ InContext
  /\ active[x]
  /\ active' = [active EXCEPT ![x] = FALSE]
  /\ IF x \in linked THEN Unlink(x, DurationUntil(at[x], CurrentTime))
                     ELSE UNCHANGED <<heapVars, pended>>
  /\ UNCHANGED <<tick_count, clockVars, loopVars, period, silent>>

SetTimerDelay(x, delay) ==
  /\ InContext
  /\ IF active[x] /\ delay # Bad THEN Link(x, delay) ELSE Unlink(x, delay)
  /\ UNCHANGED <<tick_count, clockVars, loopVars, timerVars, silent>>

SetTimerPeriod(x, p) ==
  /\ InContext
  /\ period' = [period EXCEPT ![x] = p]
  /\ UNCHANGED <<portVars, clockVars, heapVars, loopVars, active, silent>>

\* set_system_time, in a task context only; a Time is its microseconds.
SetSystemTime(new) ==
  /\ tick_time = None
  /\ IF SystemTimeKept THEN last_tick_sys_time' = Wrap64(new - DurationSinceLastTick)
                       ELSE UNCHANGED last_tick_sys_time
  /\ UNCHANGED <<portVars, last_tick_count, last_tick_time, frontier_gap,
                 heapVars, loopVars, timerVars, silent>>

\* mark_tick, with the clock moved by delta on top of it; gap is the frontier
\* gap at the time of the tick.
MarkTick(delta, gap) ==
  /\ last_tick_count' = tick_count
  /\ last_tick_time' = Wrap(CurrentTime + Time32FromDuration(delta))
  /\ IF SystemTimeKept
       THEN last_tick_sys_time' = Wrap64(SystemTime + Time64FromDuration(delta))
       ELSE UNCHANGED last_tick_sys_time
  /\ frontier_gap' = gap

FrontierGap == SaturatingSub(frontier_gap, DurationSinceLastTick)

\* Mutant: the check ignores earlier adjustments.
AdjustAllowedOnce(delta) ==
  IF delta < 0 THEN -delta <= UserHeadroom
  ELSE \A x \in linked : DurationBeforeHard(at[x], CurrentTime) >= delta

\* adjust_time must keep the frontier and the earliest timeout within the user
\* headroom; DurationBeforeHard is monotone, so all timeouts stay there.
AdjustAllowed(delta) ==
  IF delta < 0 THEN FrontierGap - delta <= UserHeadroom
  ELSE \A x \in linked : DurationBeforeHard(at[x], CurrentTime) >= delta

\* adjust_system_and_event_time; a rejected or empty adjustment is still a tick.
AdjustTime(delta) ==
  /\ InContext
  /\ \/ /\ AdjustAllowed(delta) /\ delta # 0
        /\ MarkTick(delta, SaturatingSub(FrontierGap, delta))
        /\ PendNextTick(linked, at, last_tick_time')
        /\ due' = [x \in Timers |-> IF x \in linked THEN due[x] - delta ELSE 0]
     \/ /\ ~AdjustAllowed(delta) \/ delta = 0
        /\ MarkTick(0, FrontierGap)
        /\ UNCHANGED <<pended, due>>
  /\ UNCHANGED <<tick_count, at, linked, loopVars, timerVars, silent>>

-----------------------------------------------------------------------------
(* handle_tick *)

TickIsDue == pended # None /\ pended <= 0

\* The port calls timer_tick, near the moment it was asked for or ("early_tick")
\* at any other time; nothing is pended in it any more.
TimerTick ==
  /\ tick_time = None
  /\ TickIsDue \/ "early_tick" \in Services
  /\ MarkTick(0, FrontierGap)
  /\ tick_time' = CurrentTime
  /\ pended' = None
  /\ UNCHANGED <<tick_count, heapVars, calling, busy, timerVars, silent>>

\* Mutant: a timer with no period is unlinked, but not called back.
ExpireTimeoutSilent(x) ==
  /\ tick_time # None /\ calling = None
  /\ Earliest(x)
  /\ DurationUntil(at[x], tick_time) = 0
  /\ IF period[x] = Bad
       THEN /\ at' = [at EXCEPT ![x] = Bad]
            /\ linked' = linked \ {x}
            /\ due' = [due EXCEPT ![x] = 0]
            /\ UNCHANGED calling
       ELSE /\ at' = [at EXCEPT ![x] = Wrap(@ + period[x])]
            /\ due' = [due EXCEPT ![x] = @ + period[x]]
            /\ calling' = x
            /\ UNCHANGED linked
  /\ UNCHANGED <<portVars, clockVars, tick_time, busy, timerVars, silent>>

\* The earliest timeout is overdue: it is removed from the heap, and
\* timer_timeout_handler schedules its next arrival and calls the callback.
ExpireTimeout(x) ==
  /\ tick_time # None /\ calling = None
  /\ Earliest(x)
  /\ DurationUntil(at[x], tick_time) = 0
  /\ calling' = x
  /\ IF period[x] = Bad
       THEN /\ at' = [at EXCEPT ![x] = Bad]
            /\ linked' = linked \ {x}
            /\ due' = [due EXCEPT ![x] = 0]
       ELSE /\ at' = [at EXCEPT ![x] = Wrap(@ + period[x])]
            /\ due' = [due EXCEPT ![x] = @ + period[x]]
            /\ UNCHANGED linked
  /\ UNCHANGED <<portVars, clockVars, tick_time, busy, timerVars, silent>>

CallbackReturn ==
  /\ calling # None
  /\ calling' = None
  /\ UNCHANGED <<portVars, clockVars, heapVars, tick_time, busy, timerVars, silent>>

\* The earliest timeout is not overdue: the next tick is scheduled.
TickEnd ==
  /\ tick_time # None /\ calling = None
  /\ \A x \in Timers : Earliest(x) => DurationUntil(at[x], tick_time) > 0
  /\ PendNextTick(linked, at, tick_time)
  /\ tick_time' = None
  /\ busy' = 0
  /\ UNCHANGED <<tick_count, clockVars, heapVars, calling, timerVars, silent>>

-----------------------------------------------------------------------------
\* What the application calls, until it has fallen silent
Calls(S) == IF silent THEN {} ELSE S
Uses(service) == service \in Calls(Services)

FallSilent ==
  /\ Uses("fall_silent")
  /\ silent' = TRUE
  /\ UNCHANGED <<portVars, clockVars, heapVars, loopVars, timerVars>>

TimerService ==
  \E x \in Timers :
    \/ Uses("start") /\ StartTimer(x)
    \/ Uses("stop") /\ StopTimer(x)
    \/ \E delay \in Calls(Delays) : SetTimerDelay(x, delay)
    \/ \E p \in Calls(Periods) : SetTimerPeriod(x, p)

\* "callback_adjust": adjust_time is called in timer callbacks, too.
TimeService ==
  \/ \E delta \in Calls(Deltas) :
       (Uses("callback_adjust") \/ calling = None) /\ AdjustTime(delta)
  \/ \E new \in Calls(SysTimes) : SetSystemTime(new)

HandleTick ==
  \/ TimerTick
  \/ \E x \in Timers : ExpireTimeout(x)
  \/ CallbackReturn
  \/ TickEnd

Next == Elapse \/ TimerService \/ TimeService \/ FallSilent \/ HandleTick

Spec == Init /\ [][Next]_vars

\* Time passes, and interrupts are taken and their handlers run to their ends.
FairSpec ==
  /\ Spec
  /\ WF_vars(Elapse)
  /\ WF_vars(TickIsDue /\ TimerTick)
  /\ WF_vars(\E x \in Timers : ExpireTimeout(x))
  /\ WF_vars(CallbackReturn)
  /\ WF_vars(TickEnd)

-----------------------------------------------------------------------------
(* Properties *)

\* No timeout goes past the critical point: the position of its arrival time
\* in the word tells how far away it really is, across all wrap-arounds,
\* adjustments and late ticks, so timeouts are ordered chronologically.
DistanceExact ==
  \A x \in linked :
    Distance(at[x], CurrentTime) = due[x] + HardHeadroom + UserHeadroom

\* "The arrival times of all registered timeouts are bounded by
\* frontier + DURATION_MAX" (the module documentation of timeout.rs).
ArrivalBounded == \A x \in linked : due[x] <= FrontierGap + DurationMax

\* The port has always been asked for a tick by the time the earliest timeout
\* arrives, or later by no more than the time that timer callbacks took.
TickInTime ==
  tick_time = None =>
    /\ pended # None
    /\ \A x \in linked : pended <= Max({0, due[x]}) + MaxBusy

\* The documentation of TimerCb::timeout: the timeout is linked exactly if the
\* timer is active and its delay is not infinite; otherwise `at` is a delay.
TimerLinked ==
  \A x \in Timers :
    /\ x \in linked => active[x]
    /\ active[x] /\ x \notin linked => at[x] = Bad
    /\ x \notin linked => at[x] \in 0 .. DurationMax + UserHeadroom \cup {Bad}

\* The adjustment that moves event time forward by n, of its two candidates: an
\* admissible one is a duration, or negative and within the user headroom.
AdjustmentBy(n) == IF n <= DurationMax THEN n ELSE n - WordSize

\* Event time and system time advance together with the hardware counter, by
\* one tick at a time; otherwise only adjust_time moves them, by the same amount
\* although their words differ, and set_time moves the system time alone, to
\* what it was given.  mark_tick is never observable.
TimeSteady ==
  [][LET event  == Wrap(CurrentTime' - CurrentTime)
         system == Wrap64(SystemTime' - SystemTime)
     IN  IF tick_count' # tick_count
         THEN event = 1 /\ (SystemTimeKept => system = 1)
         ELSE SystemTimeKept =>
                IF event # 0 THEN system = Wrap64(AdjustmentBy(event))
                ELSE system = 0 \/ SystemTime' \in SysTimes
    ]_vars

\* A callback is called only when its timeout has arrived: "the minimum period
\* of time before the callback function gets called" (r3_core timer.rs).
NeverEarly ==
  [][\A x \in Timers : calling' = x /\ calling # x => due[x] <= 0]_vars

\* An active timer with a finite delay fires once nobody stops it or re-arms
\* timers any more, whatever the application did before (handle_tick and the
\* tick that it schedules).
TimerFires == \A x \in Timers : silent /\ x \in linked ~> calling = x

=============================================================================
