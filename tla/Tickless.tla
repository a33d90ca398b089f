------------------------------ MODULE Tickless ------------------------------
(***************************************************************************)
(* The timing algorithms of the port kit: how a port turns the count of a  *)
(* hardware timer into OS ticks (microseconds) and back.  The hardware     *)
(* counts hw_freq_num / hw_freq_denom ticks per second, so a microsecond   *)
(* is a fraction of hardware ticks; the tickless algorithm keeps track of  *)
(* the fraction either not at all (Stateless, when both counts line up     *)
(* before they wrap) or from a reference point (Stateful), the tickful one *)
(* adds up the length of the ticks.                                        *)
(***************************************************************************)
EXTENDS Integers, FiniteSets

CONSTANTS
    Word,          \* the number of values of a u32; a u64 has Word * Word
    MicrosPerSec,  \* 1_000_000
    HardHeadroom   \* TIME_HARD_HEADROOM in microseconds

ASSUME TicklessAssumption == /\ Word \in Nat /\ Word > 1
                             /\ MicrosPerSec \in Nat \ {0}
                             /\ HardHeadroom \in 0..Word

WordMax == Word - 1
Wrap32(x) == x % Word

Most(x, y) == IF x >= y THEN x ELSE y
Least(x, y) == IF x <= y THEN x ELSE y
SaturatingSub(x, y) == IF x >= y THEN x - y ELSE 0

-----------------------------------------------------------------------------
(* Ratios.                                                                 *)

\* gcd128 calls itself with y and x % y until y is zero.
GcdCall(p) == IF p[2] = 0 THEN p ELSE <<p[2], p[1] % p[2]>>

\* The arguments of its calls, from the outermost one inwards; y decreases, so that
\* the last one is no deeper than y.
Gcd(x, y) ==
    LET call[i \in Nat] == IF i = 0 THEN <<x, y>> ELSE GcdCall(call[i - 1])
    IN call[y][1]

Reduced(n, d) == LET g == Gcd(n, d) IN [n |-> n \div g, d |-> d \div g]

FloorRatio(r) == r.n \div r.d
CeilDiv(x, y) == (x + y - 1) \div y

\* A counter that wraps after max: the value and the number of wrap-arounds.
WrappingAdd(x, rhs, max) == [value |-> (x + rhs) % (max + 1), wraps |-> (x + rhs) \div (max + 1)]

-----------------------------------------------------------------------------
(* The tickless configuration.                                             *)

CfgError(e) == [err |-> e]

\* The hardware ticks and microseconds after which both counts line up.
GlobalPeriod(r) == LET g == Gcd(r.n % r.d, r.d)
                   IN IF r.n % r.d = 0 THEN [hw |-> FloorRatio(r), os |-> 1]
                      ELSE [hw |-> r.n \div g, os |-> r.d \div g]

StatelessFits(o, p) ==
    /\ p.hw <= Word /\ p.os <= Word
    /\ (p.hw <= Word \div 2 \/ p.os > 1) /\ (p.os <= Word \div 2 \/ p.hw > 1)
    /\ o.full => (Word % p.hw = 0 /\ p.hw >= p.os)
    /\ ~o.resettable

\* Mutant: the headroom is not subtracted.
TimeoutNoHeadroom(o, r, max) == SaturatingSub(max * r.n + r.n - 1, r.d - 1)

\* The longest timeout after which an interrupt that is late by the headroom
\* still sees less than a whole revolution of the OS tick count.
TimeoutWithinOs(o, r, max) ==
    SaturatingSub(max * r.n + r.n - 1, r.d - 1 + o.headroom * r.d)

\* The same for the hardware tick count.
TimeoutWithinHw(o, r) == SaturatingSub((WordMax - o.headroom) * r.d, r.d - 1)

Ticks(r, algorithm, hwMax, osMax, maxTimeout) ==
    IF maxTimeout = 0 THEN CfgError("OSMaxTimeoutTooLow")
    ELSE [err |-> "none", perMicro |-> FloorRatio(r), subPerMicro |-> r.n % r.d, division |-> r.d,
          algorithm |-> algorithm, hwMax |-> hwMax, osMax |-> osMax, maxTimeout |-> maxTimeout]

TicklessCfg(o) ==
    LET r == Reduced(o.num, o.denom * MicrosPerSec)
        p == GlobalPeriod(r)
        repeat == Least(Word \div p.hw, Word \div p.os)
    IN CASE o.denom = 0 -> CfgError("FreqDenomZero")
         [] o.denom # 0 /\ o.num = 0 -> CfgError("FreqNumZero")
         [] o.denom # 0 /\ o.num # 0 ->
            IF FloorRatio(r) > WordMax THEN CfgError("FreqTooHigh")
            ELSE IF r.d > Word * Word - 1 THEN CfgError("InternalOverflow")
            ELSE IF StatelessFits(o, p)
            THEN Ticks(r, "Stateless", p.hw * repeat - 1, p.os * repeat - 1,
                       TimeoutWithinOs(o, r, p.os * repeat - 1) \div r.n)
            ELSE Ticks(r, "Stateful", WordMax, WordMax,
                       Least(TimeoutWithinHw(o, r), TimeoutWithinOs(o, r, WordMax)) \div r.n)

-----------------------------------------------------------------------------
(* The two cores.  A state is the reference point; the stateless core has  *)
(* none and leaves it at its initial value.                                *)

RefInit == [os |-> 0, hw |-> 0, sub |-> 0]

ResetRef(ref, hw) == [ref EXCEPT !.hw = hw]

TickCountStateless(c, hw) == (hw * c.division) \div (c.perMicro * c.division + c.subPerMicro)

\* A difference below zero would be an overflow of the subtraction in the code; TickCountExact
\* rules it out, since a value rounded down to before the reference is wrong.
TickCountStateful(c, ref, hw) ==
    Wrap32(ref.os + ((Wrap32(hw - ref.hw) * c.division - ref.sub)
                         \div (c.perMicro * c.division + c.subPerMicro)))

TickCount(c, ref, hw) == IF c.algorithm = "Stateless" THEN TickCountStateless(c, hw)
                         ELSE TickCountStateful(c, ref, hw)

\* Mutant: the fraction of a tick is forgotten.
MarkStatefulWhole(c, ref, hw) ==
    LET os == TickCountStateful(c, ref, hw)
    IN [os |-> os, hw |-> Wrap32(ref.hw + Wrap32(os - ref.os) * c.perMicro), sub |-> ref.sub]

\* The reference point moves to the last OS tick, not to the hardware tick of
\* the call: the fraction is carried.
MarkStateful(c, ref, hw) ==
    LET os == TickCountStateful(c, ref, hw)
        advance == Wrap32(os - ref.os)
        sub == WrappingAdd(ref.sub, c.subPerMicro * advance, c.division - 1)
    IN [os |-> os, hw |-> Wrap32(ref.hw + advance * c.perMicro + sub.wraps), sub |-> sub.value]

MarkReference(c, ref, hw) == IF c.algorithm = "Stateless" THEN ref ELSE MarkStateful(c, ref, hw)

HwTickStateless(c, os) ==
    LET hw == Wrap32(os * c.perMicro + CeilDiv(os * c.subPerMicro, c.division))
    IN IF c.hwMax # WordMax /\ hw = c.hwMax + 1 THEN 0 ELSE hw

HwTickStateful(c, ref, os) ==
    Wrap32(ref.hw + CeilDiv(ref.sub + Wrap32(os - ref.os) * (c.perMicro * c.division + c.subPerMicro),
                            c.division))

HwTick(c, ref, os) == IF c.algorithm = "Stateless" THEN HwTickStateless(c, os)
                      ELSE HwTickStateful(c, ref, os)

AddMod(x, y, max) == IF max = WordMax \/ max - x >= y THEN Wrap32(x + y)
                     ELSE Wrap32(x + y + WordMax - max)

SubMod(x, y, max) == IF max = WordMax \/ y < x THEN Wrap32(x - y)
                     ELSE Wrap32(x - y - (WordMax - max))

\* mark_reference_and_measure after its mark_reference: the hardware tick count
\* at which the measurement ends and the hardware ticks until then.
Measure(c, marked, hw, micros) ==
    LET start == TickCount(c, marked, hw)
        end == HwTick(c, marked, AddMod(start, micros, c.osMax))
    IN [endHw |-> end, hwTicks |-> SubMod(end, hw, c.hwMax)]

-----------------------------------------------------------------------------
(* The tickful algorithm: every hardware tick adds its length.             *)

TickfulCfg(o) ==
    LET r == Reduced(o.denom * o.period * MicrosPerSec, o.num)
        ceil == CeilDiv(r.n, r.d)
    IN CASE o.denom = 0 -> CfgError("FreqDenomZero")
         [] o.denom # 0 /\ o.num = 0 -> CfgError("FreqNumZero")
         [] o.denom # 0 /\ o.num # 0 /\ o.period = 0 -> CfgError("PeriodZero")
         [] o.denom # 0 /\ o.num # 0 /\ o.period # 0 ->
            IF ceil >= Word THEN CfgError("PeriodOverflowsU32")
            ELSE IF ceil > HardHeadroom THEN CfgError("PeriodExceedsKernelHeadroom")
            ELSE [err |-> "none", micros |-> FloorRatio(r), submicros |-> r.n % r.d, division |-> r.d]

TickfulInit == [micros |-> 0, sub |-> 0]

Tick(c, s) == LET sub == WrappingAdd(s.sub, c.submicros, c.division - 1)
              IN [micros |-> Wrap32(s.micros + c.micros + sub.wraps), sub |-> sub.value]
=============================================================================
