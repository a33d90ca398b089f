--------------------------- MODULE TimeoutProofs ---------------------------
(***************************************************************************)
(* Proofs about Timeout: event times that wrap around are compared as if   *)
(* they did not, and ticks and callbacks come in time.                     *)
(***************************************************************************)
EXTENDS Timeout, ListLemmas

-----------------------------------------------------------------------------
(* Arithmetic of words *)

\* A multiple of the word that is smaller than the word is zero.
LEMMA SmallMultiple ==
  ASSUME NEW w \in Nat, NEW d \in Int, d * w < w, -w < d * w
  PROVE  d = 0
<1>1. CASE d >= 1
  <2>1. (d - 1) * w >= 0
    BY <1>1
  <2>2. d * w = (d - 1) * w + w
    OBVIOUS
  <2> QED
    BY <2>1, <2>2
<1>2. CASE d <= -1
  <2>1. (-1 - d) * w >= 0
    BY <1>2
  <2>2. d * w = -((-1 - d) * w) - w
    OBVIOUS
  <2> QED
    BY <2>1, <2>2
<1> QED
  BY <1>1, <1>2

\* A number and its value in a word of w values differ by a multiple of w.
LEMMA ModRange ==
  ASSUME NEW w \in Nat, w > 0, NEW n \in Int
  PROVE  n % w \in 0 .. w - 1 /\ n % w \in Int /\ \E k \in Int : n = (n % w) + k * w
<1>1. w \in Int /\ w > 0
  OBVIOUS
<1>2. n % w \in 0 .. w - 1 /\ n = (n \div w) * w + (n % w) /\ n \div w \in Int
  BY <1>1
<1> QED
  BY <1>1, <1>2

\* It is the only value that does.
LEMMA ModIs ==
  ASSUME NEW w \in Nat, w > 0, NEW n \in Int, NEW r \in 0 .. w - 1, NEW k \in Int,
         n = r + k * w
  PROVE  n % w = r
<1>1. r \in Int /\ 0 <= r /\ r < w
  OBVIOUS
<1>2. PICK m \in Int : m = n % w
  BY ModRange
<1>3. PICK j \in Int : n = m + j * w
  BY <1>2, ModRange
<1>4. 0 <= m /\ m < w
  <2>1. m \in 0 .. w - 1
    BY <1>2, ModRange
  <2> QED
    BY <2>1
<1>5. (k - j) * w = m - r
  <2>1. PICK u \in Int, v \in Int : u = k * w /\ v = j * w
    BY <1>1
  <2>2. (k - j) * w = u - v
    BY <1>1, <2>1
  <2> QED
    BY <1>1, <1>3, <2>1, <2>2
<1>6. k - j = 0
  <2>1. k - j \in Int /\ (k - j) * w < w /\ -w < (k - j) * w
    BY <1>1, <1>4, <1>5
  <2> QED
    BY <1>1, <2>1, SmallMultiple
<1>7. 0 * w = 0
  BY <1>1
<1> QED
  BY <1>1, <1>2, <1>5, <1>6, <1>7

\* A sum may be wrapped at any time.
LEMMA ModPlus ==
  ASSUME NEW w \in Nat, w > 0, NEW a \in Int, NEW b \in Int
  PROVE  ((a % w) + b) % w = (a + b) % w
<1>1. PICK r \in Int, k \in Int : r = a % w /\ a = r + k * w
  BY ModRange
<1>2. PICK n \in Int : n = r + b
  BY <1>1
<1>3. PICK m \in 0 .. w - 1, j \in Int : m = n % w /\ n = m + j * w
  BY ModRange
<1>4. a + b = m + (j + k) * w
  <2>1. PICK u \in Int, v \in Int : u = j * w /\ v = k * w
    OBVIOUS
  <2>2. (j + k) * w = u + v
    BY <2>1
  <2> QED
    BY <1>1, <1>2, <1>3, <2>1, <2>2
<1>5. a + b \in Int /\ j + k \in Int
  OBVIOUS
<1>6. (a + b) % w = m
  BY <1>4, <1>5, ModIs
<1> QED
  BY <1>1, <1>2, <1>3, <1>6

\* The words of event times and of system times
LEMMA Words ==
  /\ WordSize \in Nat /\ WordSize > 0 /\ Time32 = 0 .. WordSize - 1
  /\ Time64Size \in Nat /\ Time64Size > 0 /\ Time64 = 0 .. Time64Size - 1
BY ZoneAssumption DEF Time32, Time64

LEMMA WrapRange ==
  ASSUME NEW n \in Int
  PROVE  Wrap(n) \in Time32 /\ \E k \in Int : n = Wrap(n) + k * WordSize
BY Words, ModRange DEF Wrap

LEMMA WrapIs ==
  ASSUME NEW n \in Int, NEW r \in Time32, NEW k \in Int, n = r + k * WordSize
  PROVE  Wrap(n) = r
BY Words, ModIs DEF Wrap

LEMMA WrapPlus ==
  ASSUME NEW a \in Int, NEW b \in Int
  PROVE  Wrap(Wrap(a) + b) = Wrap(a + b)
BY Words, ModPlus DEF Wrap

\* A number in the word stays what it is.
LEMMA WrapSmall ==
  ASSUME NEW n \in Time32
  PROVE  Wrap(n) = n
<1>1. n \in Int /\ n = n + 0 * WordSize
  BY ZoneAssumption DEF Time32
<1> QED
  BY <1>1, WrapIs

LEMMA Wrap64Range ==
  ASSUME NEW n \in Int
  PROVE  Wrap64(n) \in Time64
BY Words, ModRange DEF Wrap64

LEMMA Wrap64Plus ==
  ASSUME NEW a \in Int, NEW b \in Int
  PROVE  Wrap64(Wrap64(a) + b) = Wrap64(a + b)
BY Words, ModPlus DEF Wrap64

LEMMA Wrap64Small ==
  ASSUME NEW n \in Time64
  PROVE  Wrap64(n) = n
<1>1. n \in Int /\ n = n + 0 * Time64Size /\ 0 \in Int
  BY Words
<1> QED
  BY <1>1, Words, ModIs DEF Wrap64

\* A difference may be wrapped at any time, too.
LEMMA WrapMinus ==
  ASSUME NEW a \in Int, NEW b \in Int
  PROVE  Wrap(a - Wrap(b)) = Wrap(a - b)
<1>1. Wrap(b) \in Int /\ WordSize \in Int
  BY WrapRange, ZoneAssumption DEF Time32
<1>2. PICK k \in Int : b = Wrap(b) + k * WordSize
  BY WrapRange
<1>3. PICK n \in Int : n = a - Wrap(b)
  BY <1>1
<1>4. PICK j \in Int : n = Wrap(n) + j * WordSize
  BY WrapRange
<1>5. Wrap(n) \in Time32 /\ Wrap(n) \in Int
  BY WrapRange DEF Time32
<1>6. a - b = Wrap(n) + (j - k) * WordSize
  <2>1. PICK u \in Int, v \in Int : u = j * WordSize /\ v = k * WordSize
    BY <1>1
  <2>2. (j - k) * WordSize = u - v
    BY <1>1, <2>1
  <2> QED
    BY <1>1, <1>2, <1>3, <1>4, <1>5, <2>1, <2>2
<1>7. a - b \in Int /\ j - k \in Int
  OBVIOUS
<1> QED
  BY <1>3, <1>5, <1>6, <1>7, WrapIs

\* What the constants say, in one place.
LEMMA Zones ==
  /\ WordSize \in Nat /\ DurationMax \in Nat /\ UserHeadroom \in Nat /\ HardHeadroom \in Nat
  /\ UserHeadroom > 0 /\ HardHeadroom > 0
  /\ HardHeadroom + 2 * UserHeadroom + DurationMax + 1 = WordSize
  /\ MaxLatency \in Nat /\ MaxBusy \in Nat /\ MaxTimeout \in Nat /\ MaxTimeout > 0
  /\ MaxTickCount \in Nat /\ MaxTickCount < WordSize
  /\ Time64Size \in Nat /\ WordSize < Time64Size
  /\ MaxTimeout + MaxLatency + MaxBusy <= MaxTickCount
  /\ MaxLatency + 2 * MaxBusy <= HardHeadroom
BY ZoneAssumption, PortAssumption DEF Time32

\* The distance of an event d ticks away, if it is within the zones around now.
LEMMA DistanceIs ==
  ASSUME NEW now \in Int, NEW d \in Int,
         -(HardHeadroom + UserHeadroom) <= d, d <= DurationMax + UserHeadroom
  PROVE  Distance(Wrap(now + d), now) = d + HardHeadroom + UserHeadroom
<1> DEFINE z == HardHeadroom + UserHeadroom
<1>1. z \in Int /\ d + z \in Time32
  BY Zones DEF Time32
<1> HIDE DEF z
<1>2. Wrap(now + d) \in Int /\ now + d \in Int /\ now - z \in Int
  BY <1>1, WrapRange DEF Time32
<1>3. Wrap(Wrap(now + d) - Wrap(now - z)) = Wrap(Wrap(now + d) - (now - z))
  BY <1>2, WrapMinus
<1>4. Wrap(now + d) - (now - z) = Wrap(now + d) + (z - now)
  BY <1>1, <1>2
<1>5. Wrap(Wrap(now + d) + (z - now)) = Wrap((now + d) + (z - now))
  BY <1>1, <1>2, WrapPlus
<1>6. (now + d) + (z - now) = d + z
  BY <1>1
<1>7. Wrap(d + z) = d + z
  BY <1>1, WrapSmall
<1>8. Distance(Wrap(now + d), now) = Wrap(Wrap(now + d) - Wrap(now - z))
  BY DEF Distance, CriticalPoint, z
<1>9. d + z = d + HardHeadroom + UserHeadroom
  BY Zones DEF z
<1> QED
  BY <1>3, <1>4, <1>5, <1>6, <1>7, <1>8, <1>9

\* Every distance is a number of the word, and so are durations.
LEMMA DurationRange ==
  ASSUME NEW a \in Int, NEW now \in Int
  PROVE  /\ Distance(a, now) \in Time32
         /\ DurationUntil(a, now) \in 0 .. DurationMax + UserHeadroom
         /\ DurationUntil(a, now) \in Nat /\ DurationUntil(a, now) \in Time32
         /\ DurationUntil(a, now) = 0 <=> Distance(a, now) <= HardHeadroom + UserHeadroom
<1>1. CriticalPoint(now) \in Int
  BY Zones, WrapRange DEF CriticalPoint, Time32
<1>2. Distance(a, now) \in Time32
  BY <1>1, WrapRange DEF Distance
<1> QED
  BY <1>2, Zones DEF DurationUntil, SaturatingSub, Time32

\* The delay until the next tick: no later than the earliest timeout.
LEMMA DelayRange ==
  ASSUME NEW h, NEW a, NEW now, \A x \in h : DurationUntil(a[x], now) \in Nat
  PROVE  LET n == NextTickDelay(h, a, now) IN
         /\ n \in 0 .. MaxTimeout
         /\ \A x \in h : n <= DurationUntil(a[x], now)
         /\ n = MaxTimeout \/ \E x \in h : n = DurationUntil(a[x], now)
<1> DEFINE S == {MaxTimeout} \cup {DurationUntil(a[x], now) : x \in h}
<1>1. S \in SUBSET Nat /\ S # {} /\ MaxTimeout \in S
  BY Zones
<1>2. Min(S) \in S /\ \A y \in S : Min(S) <= y
  BY <1>1, MinNat
<1>3. NextTickDelay(h, a, now) = Min(S)
  BY DEF NextTickDelay
<1>4. \A x \in h : DurationUntil(a[x], now) \in S
  OBVIOUS
<1>5. \A y \in S : y = MaxTimeout \/ \E x \in h : y = DurationUntil(a[x], now)
  OBVIOUS
<1> HIDE DEF S
<1>6. Min(S) \in 0 .. MaxTimeout
  <2>1. Min(S) \in Nat /\ Min(S) <= MaxTimeout
    BY <1>1, <1>2
  <2> QED
    BY <2>1, Zones
<1> QED
  BY <1>2, <1>3, <1>4, <1>5, <1>6

-----------------------------------------------------------------------------
(* The clock *)

\* The types of the variables, and when handle_tick is in progress.
TypeInv ==
  /\ tick_count \in 0 .. MaxTickCount /\ last_tick_count \in 0 .. MaxTickCount
  /\ last_tick_time \in Time32 /\ last_tick_sys_time \in Time64
  /\ frontier_gap \in 0 .. UserHeadroom
  /\ at \in [Timers -> Time32] /\ due \in [Timers -> Int] /\ linked \subseteq Timers
  /\ active \in [Timers -> BOOLEAN] /\ period \in [Timers -> Durations \cup {Bad}]
  /\ tick_time \in Time32 \cup {None} /\ calling \in Timers \cup {None}
  /\ busy \in 0 .. MaxBusy
  /\ pended \in (-MaxLatency .. MaxTimeout) \cup {None}
  /\ tick_time = None => pended # None /\ busy = 0 /\ calling = None

\* The time since the last tick is what the counter has counted.
LEMMA SinceLastTick ==
  ASSUME NEW n \in 0 .. MaxTickCount, NEW l \in 0 .. MaxTickCount
  PROVE  (IF n >= l THEN n - l ELSE Wrap(n - l) - (WordSize - 1 - MaxTickCount))
           = IF n >= l THEN n - l ELSE n - l + MaxTickCount + 1
<1>1. CASE n >= l
  BY <1>1
<1>2. CASE ~(n >= l)
  <2>1. n - l \in Int /\ n - l + WordSize \in Time32 /\ n - l = (n - l + WordSize) + (-1) * WordSize
    BY <1>2, Zones DEF Time32
  <2>2. Wrap(n - l) = n - l + WordSize
    BY <2>1, WrapIs
  <2> QED
    BY <1>2, <2>2, Zones
<1> QED
  BY <1>1, <1>2

\* The clock in a state of the right types.
LEMMA Clock ==
  ASSUME TypeInv
  PROVE  /\ DurationSinceLastTick =
              IF tick_count >= last_tick_count THEN tick_count - last_tick_count
                                               ELSE tick_count - last_tick_count + MaxTickCount + 1
         /\ DurationSinceLastTick \in 0 .. MaxTickCount
         /\ CurrentTime \in Time32 /\ SystemTime \in Time64
         /\ FrontierGap \in 0 .. UserHeadroom
<1>1. DurationSinceLastTick =
        IF tick_count >= last_tick_count THEN tick_count - last_tick_count
                                         ELSE tick_count - last_tick_count + MaxTickCount + 1
  BY SinceLastTick DEF TypeInv, DurationSinceLastTick
<1>2. DurationSinceLastTick \in 0 .. MaxTickCount
  BY <1>1, Zones DEF TypeInv
<1>3. /\ last_tick_time + DurationSinceLastTick \in Int
      /\ last_tick_sys_time + DurationSinceLastTick \in Int
  BY <1>2, Zones DEF TypeInv, Time32, Time64
<1>4. CurrentTime \in Time32 /\ SystemTime \in Time64
  BY <1>3, WrapRange, Wrap64Range DEF CurrentTime, SystemTime
<1>5. FrontierGap \in 0 .. UserHeadroom
  BY <1>2, Zones DEF TypeInv, FrontierGap, SaturatingSub
<1> QED
  BY <1>1, <1>2, <1>4, <1>5

\* A step that leaves the clock alone.
LEMMA ClockSame ==
  ASSUME UNCHANGED <<tick_count, last_tick_count, last_tick_time, frontier_gap>>
  PROVE  /\ UNCHANGED <<DurationSinceLastTick, CurrentTime, FrontierGap>>
         /\ UNCHANGED last_tick_sys_time => UNCHANGED SystemTime
BY DEF DurationSinceLastTick, CurrentTime, FrontierGap, SystemTime

\* The counter counts: the clocks advance by one, unless the counter comes round
\* to the last tick.  If it fills the word, event time advances even then.
LEMMA ClockElapse ==
  ASSUME TypeInv, Elapse
  PROVE  /\ tick_count' \in 0 .. MaxTickCount
         /\ DurationSinceLastTick' =
              IF DurationSinceLastTick = MaxTickCount THEN 0 ELSE DurationSinceLastTick + 1
         /\ FrontierGap' \in Int /\ FrontierGap' >= FrontierGap - 1
         /\ DurationSinceLastTick < MaxTickCount \/ MaxTickCount = WordSize - 1 =>
              CurrentTime' = Wrap(CurrentTime + 1)
         /\ DurationSinceLastTick < MaxTickCount => SystemTime' = Wrap64(SystemTime + 1)
<1> DEFINE d == DurationSinceLastTick
<1>1. /\ tick_count' = IF tick_count = MaxTickCount THEN 0 ELSE tick_count + 1
      /\ UNCHANGED <<last_tick_count, last_tick_time, last_tick_sys_time, frontier_gap>>
      /\ tick_count \in 0 .. MaxTickCount /\ last_tick_count \in 0 .. MaxTickCount
      /\ frontier_gap \in 0 .. UserHeadroom
  BY DEF Elapse, clockVars, TypeInv
<1>2. tick_count' \in 0 .. MaxTickCount
  BY <1>1, Zones
<1>3. /\ d = IF tick_count >= last_tick_count THEN tick_count - last_tick_count
                                              ELSE tick_count - last_tick_count + MaxTickCount + 1
      /\ d \in 0 .. MaxTickCount
  BY Clock
<1>4. d' = IF tick_count' >= last_tick_count THEN tick_count' - last_tick_count
                                             ELSE tick_count' - last_tick_count + MaxTickCount + 1
  BY <1>1, <1>2, SinceLastTick DEF DurationSinceLastTick
<1>5. d' = IF d = MaxTickCount THEN 0 ELSE d + 1
  BY <1>1, <1>3, <1>4, Zones
<1> HIDE DEF d
<1>6. FrontierGap' \in Int /\ FrontierGap' >= FrontierGap - 1
  <2>1. /\ FrontierGap = IF frontier_gap > d THEN frontier_gap - d ELSE 0
        /\ FrontierGap' = IF frontier_gap > d' THEN frontier_gap - d' ELSE 0
    BY <1>1 DEF FrontierGap, SaturatingSub, d
  <2> QED
    BY <1>1, <1>3, <1>5, <2>1, Zones
<1>7. ASSUME NEW l \in Time32, d < MaxTickCount \/ MaxTickCount = WordSize - 1
      PROVE  Wrap(l + d') = Wrap(Wrap(l + d) + 1)
  <2>1. l \in Int /\ l + d \in Int
    BY <1>3, Zones DEF Time32
  <2>2. Wrap(Wrap(l + d) + 1) = Wrap((l + d) + 1)
    BY <2>1, WrapPlus
  <2>3. CASE d # MaxTickCount
    <3>1. l + d' = (l + d) + 1
      BY <1>3, <1>5, <2>1, <2>3
    <3> QED
      BY <2>2, <3>1
  <2>4. CASE d = MaxTickCount
    <3>1. /\ (l + d) + 1 \in Int /\ (l + d) + 1 = l + 1 * WordSize
          /\ l + d' = l
      BY <1>3, <1>5, <1>7, <2>1, <2>4, Zones
    <3>2. Wrap((l + d) + 1) = l
      BY <3>1, WrapIs
    <3> QED
      BY <2>2, <3>1, <3>2, WrapSmall
  <2> QED
    BY <2>3, <2>4
<1>8. last_tick_time \in Time32 /\ last_tick_sys_time \in Int
  BY Zones DEF TypeInv, Time64
<1>9. ASSUME d < MaxTickCount \/ MaxTickCount = WordSize - 1
      PROVE  CurrentTime' = Wrap(CurrentTime + 1)
  BY <1>1, <1>7, <1>8, <1>9 DEF CurrentTime, d
<1>10. ASSUME d < MaxTickCount PROVE SystemTime' = Wrap64(SystemTime + 1)
  <2>1. d' = d + 1 /\ last_tick_sys_time + d \in Int
    BY <1>3, <1>5, <1>8, <1>10, Zones
  <2>2. Wrap64(Wrap64(last_tick_sys_time + d) + 1) = Wrap64((last_tick_sys_time + d) + 1)
    BY <2>1, Wrap64Plus
  <2>3. last_tick_sys_time + (d + 1) = (last_tick_sys_time + d) + 1
    BY <1>3, <1>8
  <2> QED
    BY <1>1, <2>1, <2>2, <2>3 DEF SystemTime, d
<1> QED
  BY <1>2, <1>5, <1>6, <1>9, <1>10 DEF d

\* mark_tick and an adjustment by delta move both clocks by delta.
LEMMA ClockMark ==
  ASSUME TypeInv, NEW delta \in Int, NEW gap \in 0 .. UserHeadroom,
         MarkTick(delta, gap), UNCHANGED tick_count
  PROVE  /\ DurationSinceLastTick' = 0
         /\ CurrentTime' = Wrap(CurrentTime + delta) /\ last_tick_time' = CurrentTime'
         /\ SystemTimeKept => SystemTime' = Wrap64(SystemTime + delta)
         /\ FrontierGap' = gap
         /\ last_tick_count' \in 0 .. MaxTickCount /\ frontier_gap' \in 0 .. UserHeadroom
         /\ last_tick_time' \in Time32 /\ last_tick_sys_time' \in Time64
<1>0. CurrentTime \in Int /\ SystemTime \in Int
  BY Clock, Zones DEF Time32, Time64
<1>1. /\ last_tick_count' = tick_count /\ tick_count' = tick_count /\ tick_count \in 0 .. MaxTickCount
      /\ last_tick_time' = Wrap(CurrentTime + Wrap(delta))
      /\ SystemTimeKept => last_tick_sys_time' = Wrap64(SystemTime + Wrap64(delta))
      /\ ~SystemTimeKept => last_tick_sys_time' = last_tick_sys_time
      /\ frontier_gap' = gap /\ last_tick_sys_time \in Time64
  BY DEF MarkTick, TypeInv, Time32FromDuration, Time64FromDuration
<1>2. DurationSinceLastTick' = 0
  BY <1>1 DEF DurationSinceLastTick
<1>3. /\ Wrap(CurrentTime + Wrap(delta)) = Wrap(CurrentTime + delta)
      /\ Wrap64(SystemTime + Wrap64(delta)) = Wrap64(SystemTime + delta)
  <2>1. \A c \in Int : \A n \in Int : n + c = c + n
    OBVIOUS
  <2>2. Wrap(delta) \in Int /\ Wrap64(delta) \in Int
    BY WrapRange, Wrap64Range, Zones DEF Time32, Time64
  <2>3. Wrap(Wrap(delta) + CurrentTime) = Wrap(delta + CurrentTime)
    BY <1>0, WrapPlus
  <2>4. Wrap64(Wrap64(delta) + SystemTime) = Wrap64(delta + SystemTime)
    BY <1>0, Wrap64Plus
  <2> QED
    BY <1>0, <2>1, <2>2, <2>3, <2>4
<1>4. last_tick_time' \in Time32 /\ last_tick_sys_time' \in Time64
  <2>1. CurrentTime + delta \in Int /\ SystemTime + delta \in Int
    BY <1>0
  <2>2. Wrap(CurrentTime + delta) \in Time32 /\ Wrap64(SystemTime + delta) \in Time64
    BY <2>1, WrapRange, Wrap64Range
  <2> QED
    BY <1>1, <1>3, <2>2
<1>5. /\ \A n \in Time32 : Wrap(n + 0) = n
      /\ \A n \in Time64 : Wrap64(n + 0) = n
  <2>1. (\A n \in Time32 : n + 0 = n) /\ (\A n \in Time64 : n + 0 = n)
    BY Zones DEF Time32, Time64
  <2> QED
    BY <2>1, WrapSmall, Wrap64Small
<1>6. CurrentTime' = last_tick_time' /\ SystemTime' = last_tick_sys_time'
  BY <1>2, <1>4, <1>5 DEF CurrentTime, SystemTime
<1>7. FrontierGap' = gap
  BY <1>1, <1>2, Zones DEF FrontierGap, SaturatingSub
<1> QED
  BY <1>1, <1>2, <1>3, <1>4, <1>6, <1>7

-----------------------------------------------------------------------------
(* Types *)

\* A tick is pended after the delay, or at once and stays pended.
LEMMA PendRange ==
  ASSUME TypeInv, NEW h, NEW a, NEW now \in Int, \A x \in h : a[x] \in Int,
         PendNextTick(h, a, now)
  PROVE  LET n == NextTickDelay(h, a, now) IN
         /\ n \in 0 .. MaxTimeout
         /\ \A x \in h : n <= DurationUntil(a[x], now)
         /\ pended' \in -MaxLatency .. MaxTimeout /\ pended' # None
         /\ \/ pended' = n /\ (n = 0 => pended = None \/ pended > 0)
            \/ n = 0 /\ pended # None /\ pended <= 0 /\ pended' = pended
<1> DEFINE n == NextTickDelay(h, a, now)
<1>1. ASSUME NEW x \in h PROVE DurationUntil(a[x], now) \in Nat
  <2>1. a[x] \in Int
    OBVIOUS
  <2> QED
    BY <2>1, DurationRange
<1>2. n \in 0 .. MaxTimeout /\ \A x \in h : n <= DurationUntil(a[x], now)
  BY <1>1, DelayRange
<1>3. pended' = IF n = 0 /\ pended # None /\ pended <= 0 THEN pended ELSE n
  BY DEF PendNextTick
<1> HIDE DEF n
<1>4. pended \in (-MaxLatency .. MaxTimeout) \cup {None} /\ None \notin Int
  BY TimerAssumption DEF TypeInv
<1>5. pended' \in -MaxLatency .. MaxTimeout /\ pended' # None
  BY <1>2, <1>3, <1>4, Zones
<1>6. \/ pended' = n /\ (n = 0 => pended = None \/ pended > 0)
      \/ n = 0 /\ pended # None /\ pended <= 0 /\ pended' = pended
  BY <1>2, <1>3, <1>4, Zones
<1> QED
  BY <1>2, <1>5, <1>6 DEF n

\* What link and unlink do to the types: the pended tick changes only outside
\* of handle_tick.
HeapTypes ==
  /\ at' \in [Timers -> Time32] /\ due' \in [Timers -> Int] /\ linked' \subseteq Timers
  /\ IF tick_time = None THEN pended' \in -MaxLatency .. MaxTimeout /\ pended' # None
                         ELSE pended' = pended

LEMMA RescheduleTypes ==
  ASSUME TypeInv, at' \in [Timers -> Time32], due' \in [Timers -> Int], linked' \subseteq Timers,
         Reschedule(linked', at')
  PROVE  HeapTypes
<1>1. CurrentTime \in Int /\ \A x \in linked' : at'[x] \in Int
  BY Clock DEF Time32
<1>2. CASE tick_time = None
  BY <1>1, <1>2, PendRange DEF Reschedule, HeapTypes
<1>3. CASE tick_time # None
  BY <1>3 DEF Reschedule, HeapTypes
<1> QED
  BY <1>2, <1>3

LEMMA SameTypes ==
  ASSUME TypeInv, UNCHANGED <<heapVars, pended>>
  PROVE  HeapTypes
BY TimerAssumption, Zones DEF TypeInv, HeapTypes, heapVars

LEMMA LinkTypes ==
  ASSUME TypeInv, NEW x \in Timers, NEW delay \in Int, Link(x, delay)
  PROVE  HeapTypes
<1>1. Wrap(CurrentTime + delay) \in Time32
  BY Clock, WrapRange DEF Time32
<1>2. at' \in [Timers -> Time32] /\ due' \in [Timers -> Int] /\ linked' \subseteq Timers
  BY <1>1 DEF Link, TypeInv
<1> QED
  BY <1>2, RescheduleTypes DEF Link

LEMMA UnlinkTypes ==
  ASSUME TypeInv, NEW x \in Timers, NEW delay \in Time32, Unlink(x, delay)
  PROVE  HeapTypes
<1>1. at' \in [Timers -> Time32] /\ due' \in [Timers -> Int] /\ linked' \subseteq Timers
  BY DEF Unlink, TypeInv
<1>2. CASE x \in linked
  BY <1>1, <1>2, RescheduleTypes DEF Unlink
<1>3. CASE x \notin linked
  BY <1>1, <1>3, TimerAssumption, Zones DEF Unlink, TypeInv, HeapTypes
<1> QED
  BY <1>2, <1>3

\* A service that only uses the heap and its timers.
LEMMA ServiceTypes ==
  ASSUME TypeInv, HeapTypes, UNCHANGED <<tick_count, clockVars, loopVars>>,
         active' \in [Timers -> BOOLEAN], period' \in [Timers -> Durations \cup {Bad}]
  PROVE  TypeInv'
BY DEF TypeInv, HeapTypes, clockVars, loopVars

\* The durations of the application are numbers of the word.
LEMMA DurationTypes ==
  /\ Durations \cup {Bad} \subseteq Time32
  /\ Bad \in Time32 /\ Bad > DurationMax + UserHeadroom
BY Zones DEF Durations, Bad, Time32

\* Every delay that pend_next_tick can find after mark_tick is in range.
LEMMA MarkTypes ==
  ASSUME TypeInv, NEW delta \in Int, NEW gap \in 0 .. UserHeadroom, MarkTick(delta, gap),
         UNCHANGED <<tick_count, at, linked, timerVars>>,
         due' \in [Timers -> Int],
         tick_time' \in Time32 \cup {None}, calling' \in Timers \cup {None}, busy' \in 0 .. MaxBusy,
         pended' \in (-MaxLatency .. MaxTimeout) \cup {None},
         tick_time' = None => pended' # None /\ busy' = 0 /\ calling' = None
  PROVE  TypeInv'
BY ClockMark DEF TypeInv, timerVars

LEMMA InitTypes == Init => TypeInv
<1> SUFFICES ASSUME Init PROVE TypeInv
  OBVIOUS
<1>1. /\ InitDelay \in [Timers -> Time32] /\ InitActive \subseteq Timers
      /\ InitPeriod \in [Timers -> Durations \cup {Bad}]
      /\ None \notin Int
  BY DurationTypes, TimerAssumption
<1>2. \A x \in linked : at[x] \in Int
  BY <1>1, Zones DEF Init, Time32
<1>3. \A x \in linked : DurationUntil(at[x], 0) \in Nat
  <2> SUFFICES ASSUME NEW x \in linked PROVE DurationUntil(at[x], 0) \in Nat
    OBVIOUS
  <2>1. at[x] \in Int
    BY <1>2
  <2>2. \A n \in Int : DurationUntil(at[x], n) \in Nat
    BY <2>1, DurationRange
  <2> QED
    BY <2>2
<1>4. pended \in 0 .. MaxTimeout /\ pended # None
  BY <1>1, <1>3, DelayRange, Zones DEF Init
<1>5. due \in [Timers -> Int]
  BY <1>1, Zones DEF Init, Time32
<1> QED
  BY <1>1, <1>4, <1>5, Zones DEF Init, TypeInv, Time32, Time64

LEMMA TypeStep == TypeInv /\ [Next]_vars => TypeInv'
<1> SUFFICES ASSUME TypeInv, [Next]_vars PROVE TypeInv'
  OBVIOUS
<1>0. /\ active \in [Timers -> BOOLEAN] /\ period \in [Timers -> Durations \cup {Bad}]
      /\ at \in [Timers -> Time32] /\ None \notin Int /\ None \notin Timers
      /\ Time32 \subseteq Int
  BY TimerAssumption, Zones DEF TypeInv, Time32
<1>1. CASE Elapse
  <2>1. tick_count' \in 0 .. MaxTickCount
    BY <1>1, ClockElapse
  <2>2. due' \in [Timers -> Int]
    BY <1>1 DEF Elapse, TypeInv
  <2>3. CASE tick_time = None
    BY <1>0, <1>1, <2>1, <2>2, <2>3, Zones DEF Elapse, TypeInv, clockVars, timerVars
  <2>4. CASE tick_time # None
    BY <1>0, <1>1, <2>1, <2>2, <2>4, Zones DEF Elapse, TypeInv, clockVars, timerVars
  <2> QED
    BY <2>3, <2>4
<1>2. ASSUME NEW x \in Timers, StartTimer(x) PROVE TypeInv'
  <2>1. HeapTypes
    BY <1>0, <1>2, SameTypes, LinkTypes DEF StartTimer
  <2> QED
    BY <1>0, <1>2, <2>1, ServiceTypes DEF StartTimer
<1>3. ASSUME NEW x \in Timers, StopTimer(x) PROVE TypeInv'
  <2>1. DurationUntil(at[x], CurrentTime) \in Time32
    <3>1. at[x] \in Int /\ CurrentTime \in Int
      BY <1>0, Clock
    <3> QED
      BY <3>1, DurationRange
  <2>2. HeapTypes
    BY <1>3, <2>1, SameTypes, UnlinkTypes DEF StopTimer
  <2> QED
    BY <1>0, <1>3, <2>2, ServiceTypes DEF StopTimer
<1>4. ASSUME NEW x \in Timers, NEW delay \in Delays, SetTimerDelay(x, delay) PROVE TypeInv'
  <2>1. delay \in Time32
    BY DurationTypes, TimerAssumption
  <2>2. HeapTypes
    BY <1>0, <1>4, <2>1, LinkTypes, UnlinkTypes DEF SetTimerDelay
  <2> QED
    BY <1>0, <1>4, <2>2, ServiceTypes DEF SetTimerDelay, timerVars
<1>5. ASSUME NEW x \in Timers, NEW p \in Periods, SetTimerPeriod(x, p) PROVE TypeInv'
  <2>1. period' \in [Timers -> Durations \cup {Bad}]
    BY <1>0, <1>5, TimerAssumption DEF SetTimerPeriod
  <2> QED
    BY <1>0, <1>5, <2>1, SameTypes, ServiceTypes DEF SetTimerPeriod, portVars
<1>6. ASSUME NEW new \in SysTimes, SetSystemTime(new) PROVE TypeInv'
  <2>1. new - DurationSinceLastTick \in Int
    BY Clock, Zones, TimerAssumption DEF Time64
  <2>2. last_tick_sys_time' \in Time64
    BY <1>6, <2>1, Wrap64Range DEF SetSystemTime, TypeInv
  <2> QED
    BY <1>6, <2>2 DEF SetSystemTime, TypeInv, portVars, heapVars, loopVars, timerVars
<1>7. ASSUME NEW delta \in Deltas, AdjustTime(delta) PROVE TypeInv'
  <2>1. delta \in Int /\ FrontierGap \in 0 .. UserHeadroom
    BY Clock, TimerAssumption, Zones
  <2>2. CASE AdjustAllowed(delta) /\ delta # 0
    <3>1. SaturatingSub(FrontierGap, delta) \in 0 .. UserHeadroom
      BY <2>1, <2>2, Zones DEF AdjustAllowed, SaturatingSub
    <3>2. /\ MarkTick(delta, SaturatingSub(FrontierGap, delta))
          /\ PendNextTick(linked, at, last_tick_time')
          /\ due' = [x \in Timers |-> IF x \in linked THEN due[x] - delta ELSE 0]
          /\ UNCHANGED <<tick_count, at, linked, loopVars, timerVars>>
      BY <1>7, <2>2 DEF AdjustTime
    <3>3. last_tick_time' \in Int /\ \A x \in linked : at[x] \in Int
      BY <1>0, <2>1, <3>1, <3>2, ClockMark DEF TypeInv
    <3>4. pended' \in -MaxLatency .. MaxTimeout /\ pended' # None
      BY <3>2, <3>3, PendRange
    <3>5. due' \in [Timers -> Int]
      BY <2>1, <3>2 DEF TypeInv
    <3> QED
      BY <1>0, <2>1, <3>1, <3>2, <3>4, <3>5, MarkTypes DEF loopVars, TypeInv
  <2>3. CASE ~AdjustAllowed(delta) \/ delta = 0
    BY <1>7, <2>1, <2>3, MarkTypes DEF AdjustTime, loopVars, TypeInv
  <2> QED
    BY <2>2, <2>3
<1>8. CASE TimerTick
  <2>1. FrontierGap \in 0 .. UserHeadroom /\ CurrentTime \in Time32
    BY Clock
  <2> QED
    BY <1>0, <1>8, <2>1, MarkTypes DEF TimerTick, heapVars, TypeInv
<1>9. ASSUME NEW x \in Timers, ExpireTimeout(x) PROVE TypeInv'
  <2>1. at' \in [Timers -> Time32] /\ due' \in [Timers -> Int] /\ linked' \subseteq Timers
    <3>1. CASE period[x] = Bad
      BY <1>9, <3>1, DurationTypes DEF ExpireTimeout, TypeInv
    <3>2. CASE period[x] # Bad
      <4>1. period[x] \in Int /\ Wrap(at[x] + period[x]) \in Time32
        <5>1. period[x] \in Int /\ at[x] + period[x] \in Int
          <6>1. period[x] \in Durations \cup {Bad} /\ at[x] \in Time32
            BY <1>0
          <6>2. period[x] \in Time32
            BY <6>1, DurationTypes
          <6>3. period[x] \in Int /\ at[x] \in Int
            BY <6>1, <6>2, Zones DEF Time32
          <6> QED
            BY <6>3
        <5> QED
          BY <5>1, WrapRange
      <4> QED
        BY <1>9, <3>2, <4>1 DEF ExpireTimeout, TypeInv
    <3> QED
      BY <3>1, <3>2
  <2> QED
    BY <1>0, <1>9, <2>1 DEF ExpireTimeout, TypeInv, portVars, clockVars, timerVars
<1>10. CASE CallbackReturn
  BY <1>10 DEF CallbackReturn, TypeInv, portVars, clockVars, heapVars, timerVars
<1>11. CASE TickEnd
  <2>1. tick_time \in Int /\ \A x \in linked : at[x] \in Int
    BY <1>0, <1>11 DEF TickEnd, TypeInv
  <2>2. pended' \in -MaxLatency .. MaxTimeout /\ pended' # None
    BY <1>11, <2>1, PendRange DEF TickEnd
  <2> QED
    BY <1>0, <1>11, <2>2, Zones DEF TickEnd, TypeInv, clockVars, heapVars, timerVars
<1>12. CASE UNCHANGED <<portVars, clockVars, heapVars, loopVars, timerVars>>
  BY <1>12 DEF TypeInv, portVars, clockVars, heapVars, loopVars, timerVars
<1>13. FallSilent \/ UNCHANGED vars => UNCHANGED <<portVars, clockVars, heapVars, loopVars, timerVars>>
  BY DEF FallSilent, vars, portVars, clockVars, heapVars, loopVars, timerVars
<1> QED
  BY <1>1, <1>2, <1>3, <1>4, <1>5, <1>6, <1>7, <1>8, <1>9, <1>10, <1>11, <1>12, <1>13
     DEF Next, TimerService, TimeService, HandleTick, Calls

-----------------------------------------------------------------------------
(* Linked timeouts *)

\* What TimerLinked says of one timer
LinkedOk(x) ==
  /\ x \in linked => active[x]
  /\ active[x] /\ x \notin linked => at[x] = Bad
  /\ x \notin linked => at[x] \in (0 .. DurationMax + UserHeadroom) \cup {Bad}

LEMMA LinkedStep ==
  TypeInv /\ TimerLinked /\ [Next]_vars => TimerLinked'
<1> SUFFICES ASSUME TypeInv, TimerLinked, [Next]_vars, NEW y \in Timers PROVE LinkedOk(y)'
  BY DEF TimerLinked, LinkedOk
<1>0. /\ LinkedOk(y) /\ at \in [Timers -> Time32] /\ linked \subseteq Timers
      /\ active \in [Timers -> BOOLEAN] /\ Time32 \subseteq Int /\ CurrentTime \in Int
  BY Clock, Zones DEF TimerLinked, LinkedOk, TypeInv, Time32
<1>1. CASE UNCHANGED <<at, linked, active>>
  BY <1>0, <1>1 DEF LinkedOk
<1>2. ASSUME NEW x \in Timers, StartTimer(x) PROVE LinkedOk(y)'
  <2>1. CASE at[x] # Bad
    BY <1>0, <1>2, <2>1 DEF StartTimer, Link, LinkedOk
  <2>2. CASE at[x] = Bad
    BY <1>0, <1>2, <2>2 DEF StartTimer, LinkedOk, heapVars
  <2> QED
    BY <2>1, <2>2
<1>3. ASSUME NEW x \in Timers, StopTimer(x) PROVE LinkedOk(y)'
  <2>1. DurationUntil(at[x], CurrentTime) \in 0 .. DurationMax + UserHeadroom
    <3>1. at[x] \in Int
      BY <1>0
    <3> QED
      BY <1>0, <3>1, DurationRange
  <2>2. CASE x \in linked
    BY <1>0, <1>3, <2>1, <2>2 DEF StopTimer, Unlink, LinkedOk
  <2>3. CASE x \notin linked
    BY <1>0, <1>3, <2>3 DEF StopTimer, LinkedOk, heapVars
  <2> QED
    BY <2>2, <2>3
<1>4. ASSUME NEW x \in Timers, NEW delay \in Delays, SetTimerDelay(x, delay) PROVE LinkedOk(y)'
  <2>1. delay \in (0 .. DurationMax + UserHeadroom) \cup {Bad}
    <3>1. delay \in Durations \cup {Bad}
      BY TimerAssumption
    <3> QED
      BY <3>1, Zones DEF Durations
  <2>2. CASE active[x] /\ delay # Bad
    BY <1>0, <1>4, <2>2 DEF SetTimerDelay, Link, LinkedOk, timerVars
  <2>3. CASE ~(active[x] /\ delay # Bad)
    BY <1>0, <1>4, <2>1, <2>3 DEF SetTimerDelay, Unlink, LinkedOk, timerVars
  <2> QED
    BY <2>2, <2>3
<1>5. ASSUME NEW x \in Timers, ExpireTimeout(x) PROVE LinkedOk(y)'
  <2>1. x \in linked
    BY <1>5 DEF ExpireTimeout, Earliest
  <2> QED
    BY <1>0, <1>5, <2>1 DEF ExpireTimeout, LinkedOk, timerVars
<1>6. ASSUME Elapse \/ TimerTick \/ CallbackReturn \/ TickEnd \/ FallSilent \/ UNCHANGED vars
      PROVE  UNCHANGED <<at, linked, active>>
  BY <1>6 DEF Elapse, TimerTick, CallbackReturn, TickEnd, FallSilent, vars, heapVars, timerVars
<1>7. ASSUME NEW x, NEW p, SetTimerPeriod(x, p) PROVE UNCHANGED <<at, linked, active>>
  BY <1>7 DEF SetTimerPeriod, heapVars
<1>8. ASSUME NEW n, AdjustTime(n) \/ SetSystemTime(n) PROVE UNCHANGED <<at, linked, active>>
  BY <1>8 DEF AdjustTime, SetSystemTime, heapVars, timerVars
<1> QED
  BY <1>1, <1>2, <1>3, <1>4, <1>5, <1>6, <1>7, <1>8
     DEF Next, TimerService, TimeService, HandleTick, Calls

\* A timeout is linked exactly if its timer is active with a finite delay, and the
\* delay of another timer is in range, whatever the application calls and however
\* late ticks are (TimerCb::timeout in timer.rs).
THEOREM TimerLinkedCorrect == Spec => []TimerLinked
<1>1. Init => TimerLinked
  <2> SUFFICES ASSUME Init PROVE TimerLinked
    OBVIOUS
  <2>1. ASSUME NEW x \in Timers PROVE InitDelay[x] \in (0 .. DurationMax + UserHeadroom) \cup {Bad}
    <3>1. InitDelay[x] \in Durations \cup {Bad}
      BY TimerAssumption
    <3> QED
      BY <3>1, Zones DEF Durations
  <2> QED
    BY <2>1, TimerAssumption DEF Init, TimerLinked
<1> QED
  BY <1>1, InitTypes, TypeStep, LinkedStep, PTL DEF Spec

-----------------------------------------------------------------------------
(* Event time and system time *)

\* The hardware counter never comes round to the last tick.
CounterNeverRound == [][tick_count' # tick_count => DurationSinceLastTick < MaxTickCount]_vars

\* A weaker condition, which suffices for event times: or it wraps around with
\* their word.  The system time, whose word is wider, would be set back by WordSize.
CounterFits == DurationSinceLastTick < MaxTickCount \/ MaxTickCount = WordSize - 1
CounterLasts == [][tick_count' # tick_count => CounterFits]_vars

\* A clock that is moved by k has moved by k.
LEMMA MovedBy ==
  ASSUME NEW c \in Time32, NEW k \in Int
  PROVE  Wrap(Wrap(c + k) - c) = Wrap(k)
<1>1. c \in Int /\ c + k \in Int /\ Wrap(c + k) \in Int
  BY Zones, WrapRange DEF Time32
<1>2. Wrap(c + k) - c = Wrap(c + k) + (-c) /\ (c + k) + (-c) = k
  BY <1>1
<1> QED
  BY <1>1, <1>2, WrapPlus

LEMMA MovedBy64 ==
  ASSUME NEW c \in Time64, NEW k \in Int
  PROVE  Wrap64(Wrap64(c + k) - c) = Wrap64(k)
<1>1. c \in Int /\ c + k \in Int /\ Wrap64(c + k) \in Int
  BY Zones, Wrap64Range DEF Time64
<1>2. Wrap64(c + k) - c = Wrap64(c + k) + (-c) /\ (c + k) + (-c) = k
  BY <1>1
<1> QED
  BY <1>1, <1>2, Wrap64Plus

\* A clock that is left alone has not moved.
LEMMA NotMoved ==
  /\ \A c \in Time32 : Wrap(c - c) = 0 /\ Wrap(c + 0) = c
  /\ \A c \in Time64 : Wrap64(c - c) = 0
  /\ Wrap(0) = 0 /\ Wrap64(0) = 0 /\ Wrap(1) = 1 /\ Wrap64(1) = 1
<1>1. 0 \in Time32 /\ 0 \in Time64 /\ 1 \in Time32 /\ 1 \in Time64
  BY Zones DEF Time32, Time64
<1>2. (\A c \in Time32 : c - c = 0 /\ c + 0 = c) /\ (\A c \in Time64 : c - c = 0)
  BY Zones DEF Time32, Time64
<1> QED
  BY <1>1, <1>2, WrapSmall, Wrap64Small

\* How far event time moved tells by how much it was adjusted.
LEMMA AdjustmentIs ==
  ASSUME NEW k \in -UserHeadroom .. DurationMax
  PROVE  AdjustmentBy(Wrap(k)) = k /\ (Wrap(k) = 0 => k = 0)
<1>1. CASE k >= 0
  <2>1. k \in Time32
    BY <1>1, Zones DEF Time32
  <2> QED
    BY <1>1, <2>1, WrapSmall, Zones DEF AdjustmentBy
<1>2. CASE k < 0
  <2>1. k + WordSize \in Time32 /\ k = (k + WordSize) + (-1) * WordSize /\ k \in Int
    BY <1>2, Zones DEF Time32
  <2>2. Wrap(k) = k + WordSize
    BY <2>1, WrapIs
  <2> QED
    BY <1>2, <2>1, <2>2, Zones DEF AdjustmentBy
<1> QED
  BY <1>1, <1>2

\* What TimeSteady says of a step
ClocksMove ==
  LET event  == Wrap(CurrentTime' - CurrentTime)
      system == Wrap64(SystemTime' - SystemTime)
  IN  IF tick_count' # tick_count
      THEN event = 1 /\ (SystemTimeKept => system = 1)
      ELSE SystemTimeKept =>
             IF event # 0 THEN system = Wrap64(AdjustmentBy(event))
             ELSE system = 0 \/ SystemTime' \in SysTimes

\* Only Elapse moves the counter, and only set_time the system time alone.
LEMMA SteadyStep ==
  ASSUME TypeInv, [Next]_vars, tick_count' # tick_count => DurationSinceLastTick < MaxTickCount
  PROVE  ClocksMove
<1>0. /\ CurrentTime \in Time32 /\ SystemTime \in Time64 /\ FrontierGap \in 0 .. UserHeadroom
      /\ 0 \in -UserHeadroom .. DurationMax
  BY Clock, Zones
<1>1. CASE Elapse
  <2>1. tick_count' # tick_count
    BY <1>1, Zones DEF Elapse, TypeInv
  <2>2. CurrentTime' = Wrap(CurrentTime + 1) /\ SystemTime' = Wrap64(SystemTime + 1)
    BY <1>1, <2>1, ClockElapse
  <2>3. Wrap(CurrentTime' - CurrentTime) = 1 /\ Wrap64(SystemTime' - SystemTime) = 1
    BY <1>0, <2>2, MovedBy, MovedBy64, NotMoved
  <2> QED
    BY <2>1, <2>3 DEF ClocksMove
<1>2. ASSUME NEW delta \in -UserHeadroom .. DurationMax, NEW gap \in 0 .. UserHeadroom,
             MarkTick(delta, gap), UNCHANGED tick_count
      PROVE  ClocksMove
  <2>0. delta \in Int
    BY Zones
  <2>1. /\ CurrentTime' = Wrap(CurrentTime + delta)
        /\ SystemTimeKept => SystemTime' = Wrap64(SystemTime + delta)
    BY <1>2, <2>0, ClockMark
  <2>2. /\ Wrap(CurrentTime' - CurrentTime) = Wrap(delta)
        /\ SystemTimeKept => Wrap64(SystemTime' - SystemTime) = Wrap64(delta)
    BY <1>0, <2>0, <2>1, MovedBy, MovedBy64
  <2>3. AdjustmentBy(Wrap(delta)) = delta /\ (Wrap(delta) = 0 => Wrap64(delta) = 0)
    BY AdjustmentIs, NotMoved
  <2> QED
    BY <1>2, <2>2, <2>3 DEF ClocksMove
<1>3. ASSUME UNCHANGED <<tick_count, last_tick_count, last_tick_time, last_tick_sys_time,
                         frontier_gap>>
      PROVE  ClocksMove
  <2>1. CurrentTime' = CurrentTime /\ SystemTime' = SystemTime
    BY <1>3, ClockSame
  <2>2. Wrap(CurrentTime' - CurrentTime) = 0 /\ Wrap64(SystemTime' - SystemTime) = 0
    BY <1>0, <2>1, NotMoved
  <2> QED
    BY <1>3, <2>2 DEF ClocksMove
<1>4. ASSUME NEW delta \in Deltas, AdjustTime(delta) PROVE ClocksMove
  <2>1. delta \in -(DurationMax + 1) .. DurationMax /\ delta \in Int /\ UNCHANGED tick_count
    BY <1>4, TimerAssumption, Zones DEF AdjustTime
  <2>2. CASE AdjustAllowed(delta) /\ delta # 0
    <3>1. /\ SaturatingSub(FrontierGap, delta) \in 0 .. UserHeadroom
          /\ delta \in -UserHeadroom .. DurationMax
      BY <1>0, <2>1, <2>2, Zones DEF AdjustAllowed, SaturatingSub
    <3>2. MarkTick(delta, SaturatingSub(FrontierGap, delta))
      BY <1>4, <2>2 DEF AdjustTime
    <3> QED
      BY <1>2, <2>1, <3>1, <3>2
  <2>3. CASE ~AdjustAllowed(delta) \/ delta = 0
    BY <1>0, <1>2, <1>4, <2>1, <2>3 DEF AdjustTime
  <2> QED
    BY <2>2, <2>3
<1>5. CASE TimerTick
  BY <1>0, <1>2, <1>5 DEF TimerTick
<1>6. ASSUME NEW new \in SysTimes, SetSystemTime(new) PROVE ClocksMove
  <2>1. /\ UNCHANGED <<tick_count, last_tick_count, last_tick_time, frontier_gap>>
        /\ SystemTimeKept => last_tick_sys_time' = Wrap64(new - DurationSinceLastTick)
    BY <1>6 DEF SetSystemTime, portVars
  <2>2. CurrentTime' = CurrentTime /\ DurationSinceLastTick' = DurationSinceLastTick
    BY <2>1, ClockSame
  <2>3. SystemTimeKept => SystemTime' = new
    <3>1. new \in Time64 /\ new \in Int /\ DurationSinceLastTick \in Int
      BY Clock, Zones, TimerAssumption DEF Time64
    <3>2. Wrap64(Wrap64(new - DurationSinceLastTick) + DurationSinceLastTick) = Wrap64(new)
      BY <3>1, Wrap64Plus
    <3> QED
      BY <2>1, <2>2, <3>1, <3>2, Wrap64Small DEF SystemTime
  <2>4. Wrap(CurrentTime' - CurrentTime) = 0
    BY <1>0, <2>2, NotMoved
  <2> QED
    BY <2>1, <2>3, <2>4 DEF ClocksMove
<1>7. ASSUME NEW x, StartTimer(x) \/ StopTimer(x) \/ ExpireTimeout(x)
      PROVE  UNCHANGED <<tick_count, clockVars>>
  BY <1>7 DEF StartTimer, StopTimer, ExpireTimeout, portVars
<1>8. ASSUME NEW x, NEW n, SetTimerDelay(x, n) \/ SetTimerPeriod(x, n)
      PROVE  UNCHANGED <<tick_count, clockVars>>
  BY <1>8 DEF SetTimerDelay, SetTimerPeriod, portVars
<1>9. ASSUME CallbackReturn \/ TickEnd \/ FallSilent \/ UNCHANGED vars
      PROVE  UNCHANGED <<tick_count, clockVars>>
  BY <1>9 DEF CallbackReturn, TickEnd, FallSilent, vars, portVars, clockVars
<1>10. CASE UNCHANGED <<tick_count, clockVars>>
  BY <1>3, <1>10 DEF clockVars
<1> QED
  BY <1>1, <1>4, <1>5, <1>7, <1>8, <1>6, <1>9, <1>10
     DEF Next, TimerService, TimeService, HandleTick, Calls

\* Both clocks advance with the counter, only adjust_time moves them, together and
\* by the same signed amount although one has a wider word, and only set_time sets
\* the system time: mark_tick (timeout.rs) is unobservable, for every counter that
\* does not come round to the last tick.
THEOREM TimeSteadyCorrect == Spec /\ CounterNeverRound => TimeSteady
<1>1. TypeInv /\ [Next]_vars
        /\ [tick_count' # tick_count => DurationSinceLastTick < MaxTickCount]_vars
      => [ClocksMove]_vars
  BY SteadyStep DEF vars
<1>2. TimeSteady <=> [][ClocksMove]_vars
  BY DEF TimeSteady, ClocksMove
<1> QED
  BY <1>1, <1>2, InitTypes, TypeStep, PTL DEF Spec, CounterNeverRound

-----------------------------------------------------------------------------
(* Timers that are never re-armed *)

\* The application does not start, stop or re-arm timers: they run from the boot.
TimersFixed == "start" \notin Services /\ "stop" \notin Services /\ Delays = {}

\* How long ago the last tick can be: the pended tick is near.
TickNear ==
  IF tick_time = None THEN DurationSinceLastTick + pended <= MaxTimeout + MaxBusy
                      ELSE DurationSinceLastTick <= busy

LEMMA SumBound ==
  ASSUME NEW e \in Int, NEW q \in Int, NEW m \in Int, NEW b \in Int, e <= b, q <= m
  PROVE  e + q <= m + b
OBVIOUS

LEMMA TickNearStep ==
  ASSUME TypeInv, TickNear, [Next]_vars, TimersFixed
  PROVE  /\ TickNear'
         /\ tick_count' # tick_count => DurationSinceLastTick < MaxTickCount
<1>0. /\ DurationSinceLastTick \in 0 .. MaxTickCount /\ busy \in 0 .. MaxBusy /\ None \notin Int
      /\ pended \in (-MaxLatency .. MaxTimeout) \cup {None} /\ (tick_time = None => pended # None)
  BY Clock, TimerAssumption DEF TypeInv
<1>1. CASE Elapse
  <2>1. DurationSinceLastTick' = IF DurationSinceLastTick = MaxTickCount THEN 0 ELSE DurationSinceLastTick + 1
    BY <1>1, ClockElapse
  <2>2. /\ tick_time' = tick_time
        /\ IF tick_time # None THEN busy < MaxBusy ELSE pended # None => pended > -MaxLatency
        /\ pended' = IF tick_time # None \/ pended = None THEN pended ELSE pended - 1
        /\ busy' = IF tick_time # None THEN busy + 1 ELSE 0
    BY <1>1 DEF Elapse
  <2>3. DurationSinceLastTick < MaxTickCount
    BY <1>0, <2>2, Zones DEF TickNear
  <2>4. DurationSinceLastTick' = DurationSinceLastTick + 1
    BY <1>0, <2>1, <2>3
  <2>5. TickNear'
    <3>1. CASE tick_time = None
      BY <1>0, <2>2, <2>4, <3>1, Zones DEF TickNear
    <3>2. CASE tick_time # None
      BY <1>0, <2>2, <2>4, <3>2, Zones DEF TickNear
    <3> QED
      BY <3>1, <3>2
  <2> QED
    BY <2>3, <2>5
<1>2. ASSUME NEW delta \in Deltas, AdjustTime(delta) PROVE TickNear' /\ UNCHANGED tick_count
  <2>1. /\ delta \in Int /\ UNCHANGED <<tick_count, at, linked, tick_time, calling, busy>>
        /\ FrontierGap \in 0 .. UserHeadroom
    BY <1>2, Clock, TimerAssumption, Zones DEF AdjustTime, loopVars
  <2>2. CASE AdjustAllowed(delta) /\ delta # 0
    <3>1. SaturatingSub(FrontierGap, delta) \in 0 .. UserHeadroom
      BY <2>1, <2>2, Zones DEF AdjustAllowed, SaturatingSub
    <3>2. /\ MarkTick(delta, SaturatingSub(FrontierGap, delta))
          /\ PendNextTick(linked, at, last_tick_time')
      BY <1>2, <2>2 DEF AdjustTime
    <3>3. DurationSinceLastTick' = 0 /\ last_tick_time' \in Int /\ \A x \in linked : at[x] \in Int
      BY <2>1, <3>1, <3>2, ClockMark, Zones DEF TypeInv, Time32
    <3>4. pended' \in Int /\ pended' <= MaxTimeout
      <4>1. pended' \in -MaxLatency .. MaxTimeout
        BY <3>2, <3>3, PendRange
      <4> QED
        BY <4>1, Zones
    <3>5. CASE tick_time = None
      <4>1. MaxTimeout \in Int /\ MaxBusy \in Int /\ 0 <= MaxBusy
        BY Zones
      <4>2. DurationSinceLastTick' + pended' <= MaxTimeout + MaxBusy
        <5>1. DurationSinceLastTick' \in Int /\ DurationSinceLastTick' <= MaxBusy
          BY <3>3, <4>1
        <5> QED
          BY <3>4, <4>1, <5>1, SumBound
      <4> QED
        BY <2>1, <3>5, <4>2 DEF TickNear
    <3>6. CASE tick_time # None
      BY <1>0, <2>1, <3>3, <3>6, Zones DEF TickNear
    <3> QED
      BY <2>1, <3>5, <3>6
  <2>3. CASE ~AdjustAllowed(delta) \/ delta = 0
    <3>1. MarkTick(0, FrontierGap) /\ UNCHANGED pended
      BY <1>2, <2>3 DEF AdjustTime
    <3>2. DurationSinceLastTick' = 0
      BY <2>1, <3>1, ClockMark
    <3>3. CASE tick_time = None
      BY <1>0, <2>1, <3>1, <3>2, <3>3, Zones DEF TickNear
    <3>4. CASE tick_time # None
      BY <1>0, <2>1, <3>2, <3>4, Zones DEF TickNear
    <3> QED
      BY <2>1, <3>3, <3>4
  <2> QED
    BY <2>2, <2>3
<1>3. CASE TimerTick
  <2>1. MarkTick(0, FrontierGap) /\ UNCHANGED <<tick_count, busy>> /\ tick_time' = CurrentTime
    BY <1>3 DEF TimerTick
  <2>2. DurationSinceLastTick' = 0 /\ tick_time' # None
    BY <1>0, <2>1, Clock, ClockMark, Zones DEF Time32
  <2> QED
    BY <1>0, <2>1, <2>2, Zones DEF TickNear
<1>4. CASE TickEnd
  <2>1. tick_time \in Int /\ \A x \in linked : at[x] \in Int
    BY <1>4, Zones DEF TickEnd, TypeInv, Time32
  <2>2. pended' \in Int /\ pended' <= MaxTimeout
    <3>1. pended' \in -MaxLatency .. MaxTimeout
      BY <1>4, <2>1, PendRange DEF TickEnd
    <3> QED
      BY <3>1, Zones
  <2>3. UNCHANGED <<DurationSinceLastTick, tick_count>>
    BY <1>4, ClockSame DEF TickEnd, clockVars
  <2>4. tick_time # None /\ tick_time' = None
    BY <1>4 DEF TickEnd
  <2>5. DurationSinceLastTick' = DurationSinceLastTick /\ DurationSinceLastTick <= busy
    BY <2>3, <2>4 DEF TickNear
  <2>6. DurationSinceLastTick' + pended' <= MaxTimeout + MaxBusy
    <3>1. DurationSinceLastTick \in Int /\ DurationSinceLastTick <= MaxBusy
      BY <1>0, <2>5, Zones
    <3>2. MaxTimeout \in Int /\ MaxBusy \in Int
      BY Zones
    <3> QED
      BY <2>2, <2>5, <3>1, <3>2, SumBound
  <2> QED
    BY <2>3, <2>4, <2>6 DEF TickNear
<1>5. ASSUME UNCHANGED <<tick_count, pended, last_tick_count, last_tick_time, frontier_gap,
                         tick_time, busy>>
      PROVE  TickNear' /\ UNCHANGED tick_count
  BY <1>5, ClockSame DEF TickNear
<1>6. ASSUME NEW x, NEW p, SetTimerPeriod(x, p) \/ ExpireTimeout(x) \/ SetSystemTime(p)
                           \/ CallbackReturn \/ FallSilent \/ UNCHANGED vars
      PROVE  UNCHANGED <<tick_count, pended, last_tick_count, last_tick_time, frontier_gap,
                         tick_time, busy>>
  BY <1>6 DEF SetTimerPeriod, ExpireTimeout, SetSystemTime, CallbackReturn, FallSilent, vars,
              portVars, clockVars, loopVars
<1>7. ~Uses("start") /\ ~Uses("stop") /\ Calls(Delays) = {}
  BY DEF Uses, Calls, TimersFixed
<1> QED
  BY <1>1, <1>2, <1>3, <1>4, <1>5, <1>6, <1>7
     DEF Next, TimerService, TimeService, HandleTick, Calls

\* A port that is not later than it promises never lets the counter come round, if
\* nothing but handle_tick and adjust_time schedules ticks: the resilience that the
\* documentation of PortTimer claims (lib.rs) for timers that run from the boot.
THEOREM CounterSuffices == TimersFixed => (Spec => CounterNeverRound)
<1> SUFFICES ASSUME TimersFixed PROVE Spec => CounterNeverRound
  OBVIOUS
<1>1. Init => TickNear
  <2> SUFFICES ASSUME Init PROVE TickNear
    OBVIOUS
  <2>1. TypeInv /\ tick_count = last_tick_count /\ tick_time = None
    BY InitTypes DEF Init
  <2>2. DurationSinceLastTick = 0
    BY <2>1, Clock DEF TypeInv
  <2>3. pended \in -MaxLatency .. MaxTimeout
    BY <2>1 DEF TypeInv
  <2> QED
    BY <2>1, <2>2, <2>3, Zones DEF TickNear
<1>2. TypeInv /\ TickNear /\ [Next]_vars => TickNear'
  BY TickNearStep
<1>3. TypeInv /\ TickNear /\ [Next]_vars =>
        [tick_count' # tick_count => DurationSinceLastTick < MaxTickCount]_vars
  BY TickNearStep
<1> QED
  BY <1>1, <1>2, <1>3, InitTypes, TypeStep, PTL DEF Spec, CounterNeverRound

\* Either condition is enough for event times: a counter that wraps around with the
\* word may come round.
LEMMA EventTimeLasts ==
  /\ CounterNeverRound => CounterLasts
  /\ MaxTickCount = WordSize - 1 => (Spec => CounterLasts)
<1>1. [tick_count' # tick_count => DurationSinceLastTick < MaxTickCount]_vars
        => [tick_count' # tick_count => CounterFits]_vars
  BY DEF CounterFits
<1>2. ASSUME MaxTickCount = WordSize - 1 PROVE Spec => CounterLasts
  <2>1. [Next]_vars => [tick_count' # tick_count => CounterFits]_vars
    BY <1>2 DEF CounterFits
  <2> QED
    BY <2>1, PTL DEF Spec, CounterLasts
<1>3. CounterNeverRound => CounterLasts
  BY <1>1, PTL DEF CounterNeverRound, CounterLasts
<1> QED
  BY <1>2, <1>3

-----------------------------------------------------------------------------
(* Timeouts and the zones around the current event time *)

\* What timeout.rs relies on and the application must keep to: adjust_time is not
\* called in a callback; nobody stores the remaining delay of a stopped timer while
\* the clock is behind the frontier; the callbacks of a tick end within the user
\* headroom.
Undisturbed ==
  /\ "callback_adjust" \notin Services
  /\ "start" \in Services => Deltas \subseteq Nat
  /\ MaxBusy <= UserHeadroom

\* `at` is the arrival time, wrapped.
Congruent == \A x \in linked : at[x] = Wrap(CurrentTime + due[x])

\* How long overdue a timeout can be when a tick is pended in p ticks: not at all if
\* the tick is yet to come, up to the time that callbacks took; by the user headroom
\* if an adjustment made it so, in which case the tick is due at once.
Overdue(p) == MaxBusy + (IF p > 0 THEN 0 ELSE UserHeadroom)

\* Outside of handle_tick
NearIdle ==
  tick_time = None => \A x \in linked : due[x] >= pended - Overdue(pended)

\* In handle_tick: its `current_time` is as old as it has been busy.
NearTick ==
  tick_time # None =>
    /\ pended = None
    /\ CurrentTime = Wrap(tick_time + busy)
    /\ \A x \in linked :
         /\ due[x] + busy >= -(MaxLatency + Overdue(0))
         /\ due[x] + busy <= DurationMax + UserHeadroom

\* Delays that stop stores are those of set_delay if the clock never goes back.
DelaysKept ==
  "start" \in Services =>
    /\ frontier_gap = 0
    /\ \A x \in Timers \ linked : at[x] \in Durations \cup {Bad}

TimeInv == ArrivalBounded /\ Congruent /\ NearIdle /\ NearTick /\ DelaysKept

\* The clock moves by k, and the arrival time is k ticks nearer.
LEMMA Shift ==
  ASSUME NEW c \in Int, NEW k \in Int, NEW d \in Int
  PROVE  Wrap(Wrap(c + k) + (d - k)) = Wrap(c + d)
<1>1. c + k \in Int /\ d - k \in Int /\ (c + k) + (d - k) = c + d
  OBVIOUS
<1> QED
  BY <1>1, WrapPlus

\* What handle_tick and adjust_time see of a timeout that is within the zones.
LEMMA SeenAs ==
  ASSUME NEW now \in Int, NEW d \in Int,
         -(HardHeadroom + UserHeadroom) <= d, d <= DurationMax + UserHeadroom
  PROVE  /\ Distance(Wrap(now + d), now) = d + HardHeadroom + UserHeadroom
         /\ DurationUntil(Wrap(now + d), now) = IF d > 0 THEN d ELSE 0
         /\ DurationBeforeHard(Wrap(now + d), now) = IF d + UserHeadroom > 0 THEN d + UserHeadroom ELSE 0
<1>1. Distance(Wrap(now + d), now) = d + HardHeadroom + UserHeadroom
  BY DistanceIs
<1> QED
  BY <1>1, Zones DEF DurationUntil, DurationBeforeHard, SaturatingSub

\* Timeouts are within the zones around the current event time.
LEMMA Within ==
  ASSUME TypeInv, TimeInv, Undisturbed, NEW x \in linked
  PROVE  /\ due[x] \in Int /\ at[x] = Wrap(CurrentTime + due[x])
         /\ -(HardHeadroom + UserHeadroom) <= due[x]
         /\ due[x] <= DurationMax + UserHeadroom
<1>1. /\ due[x] \in Int /\ busy \in 0 .. MaxBusy
      /\ pended \in (-MaxLatency .. MaxTimeout) \cup {None}
      /\ tick_time = None => pended # None
  BY DEF TypeInv
<1>2. FrontierGap \in 0 .. UserHeadroom /\ due[x] <= FrontierGap + DurationMax
      /\ at[x] = Wrap(CurrentTime + due[x])
  BY Clock DEF TimeInv, ArrivalBounded, Congruent
<1>3. CASE tick_time = None
  <2>1. due[x] >= pended - Overdue(pended)
    BY <1>3 DEF TimeInv, NearIdle
  <2> QED
    BY <1>1, <1>2, <1>3, <2>1, Zones DEF Overdue
<1>4. CASE tick_time # None
  <2>1. due[x] + busy >= -(MaxLatency + Overdue(0))
    BY <1>4 DEF TimeInv, NearTick
  <2> QED
    BY <1>1, <1>2, <1>4, <2>1, Zones DEF Overdue
<1> QED
  BY <1>3, <1>4

\* pend_next_tick pends a tick in time for all timeouts of the heap, provided that
\* none of them was further overdue than the tick pended before allowed.
LEMMA PendNear ==
  ASSUME TypeInv, NEW h, NEW a, NEW d, NEW now \in Int,
         \A x \in h : /\ d[x] \in Int /\ a[x] = Wrap(now + d[x])
                      /\ -(HardHeadroom + UserHeadroom) <= d[x]
                      /\ d[x] <= DurationMax + UserHeadroom
                      /\ pended # None
                      /\ d[x] >= pended - Overdue(pended) \/ d[x] >= -UserHeadroom,
         PendNextTick(h, a, now)
  PROVE  \A x \in h : d[x] >= pended' - Overdue(pended')
<1> DEFINE n == NextTickDelay(h, a, now)
<1>1. \A x \in h : a[x] \in Int
  <2> SUFFICES ASSUME NEW x \in h PROVE a[x] \in Int
    OBVIOUS
  <2>1. now + d[x] \in Int
    OBVIOUS
  <2>2. Wrap(now + d[x]) \in Time32
    BY ONLY <2>1, WrapRange
  <2>3. Wrap(now + d[x]) \in Int
    BY ONLY <2>2, Zones DEF Time32
  <2>4. a[x] = Wrap(now + d[x])
    OBVIOUS
  <2> QED
    BY ONLY <2>3, <2>4
<1>2. /\ n \in 0 .. MaxTimeout
      /\ \A x \in h : n <= DurationUntil(a[x], now)
      /\ pended' \in -MaxLatency .. MaxTimeout
      /\ \/ pended' = n /\ (n = 0 => pended = None \/ pended > 0)
         \/ n = 0 /\ pended # None /\ pended <= 0 /\ pended' = pended
  BY <1>1, PendRange
<1>3. PICK m \in Int, q \in Int : m = n /\ q = pended'
  BY <1>2, Zones
<1> HIDE DEF n
<1> SUFFICES ASSUME NEW x \in h PROVE d[x] >= q - Overdue(q)
  BY <1>3
<1>4. PICK e \in Int : e = d[x]
  OBVIOUS
<1>5. DurationUntil(a[x], now) = IF e > 0 THEN e ELSE 0
  <2>1. a[x] = Wrap(now + e) /\ -(HardHeadroom + UserHeadroom) <= e /\ e <= DurationMax + UserHeadroom
    BY <1>4
  <2> QED
    BY <2>1, SeenAs
<1>6. m > 0 => e >= m
  BY <1>2, <1>3, <1>5
<1>7. \/ q = m /\ (m = 0 => pended = None \/ pended > 0)
      \/ m = 0 /\ pended <= 0 /\ q = pended
  BY <1>2, <1>3
<1>10. m >= 0
  BY <1>2, <1>3, Zones
<1>8. e >= pended - Overdue(pended) \/ e >= -UserHeadroom
  BY <1>4
<1>9. pended \in Int
  BY Zones DEF TypeInv
<1> QED
  BY <1>4, <1>6, <1>7, <1>8, <1>9, <1>10, Zones, TimerAssumption DEF Overdue

\* Time passes: every timeout is one tick nearer.
LEMMA ElapseKeeps ==
  ASSUME TypeInv, TimeInv, Undisturbed, Elapse, CounterFits
  PROVE  TimeInv'
<1>1. /\ UNCHANGED <<at, linked, tick_time, frontier_gap>>
      /\ due' = [x \in Timers |-> IF x \in linked THEN due[x] - 1 ELSE 0]
      /\ pended' = IF tick_time # None \/ pended = None THEN pended ELSE pended - 1
      /\ busy' = IF tick_time # None THEN busy + 1 ELSE 0
  BY DEF Elapse, clockVars
<1>2. /\ CurrentTime' = Wrap(CurrentTime + 1) /\ CurrentTime \in Int
      /\ FrontierGap' \in Int /\ FrontierGap' >= FrontierGap - 1 /\ FrontierGap \in Int
  BY Clock, ClockElapse, Zones DEF CounterFits, Time32
<1>3. ASSUME NEW x \in linked
      PROVE  /\ due'[x] = due[x] - 1 /\ due[x] \in Int /\ at[x] = Wrap(CurrentTime + due[x])
             /\ due[x] <= FrontierGap + DurationMax
  BY <1>1, <1>3, Within DEF TypeInv, TimeInv, ArrivalBounded
<1>4. ArrivalBounded'
  <2> SUFFICES ASSUME NEW x \in linked PROVE due'[x] <= FrontierGap' + DurationMax
    BY <1>1 DEF ArrivalBounded
  <2>1. PICK g \in Int : g = FrontierGap'
    BY <1>2
  <2>2. due[x] - 1 <= g + DurationMax
    BY <1>2, <1>3, <2>1, Zones
  <2> QED
    BY <1>3, <2>1, <2>2
<1>5. Congruent'
  <2> SUFFICES ASSUME NEW x \in linked PROVE at[x] = Wrap(CurrentTime' + due'[x])
    BY <1>1 DEF Congruent
  <2>1. Wrap(Wrap(CurrentTime + 1) + (due[x] - 1)) = Wrap(CurrentTime + due[x])
    <3>1. due[x] \in Int /\ CurrentTime \in Int /\ 1 \in Int
      BY <1>2, <1>3
    <3> QED
      BY <3>1, Shift
  <2> QED
    BY <1>2, <1>3, <2>1
<1>6. NearIdle'
  <2> SUFFICES ASSUME tick_time = None, NEW x \in linked
               PROVE  due'[x] >= pended' - Overdue(pended')
    BY <1>1 DEF NearIdle
  <2>1. pended \in Int /\ pended' = pended - 1
    BY <1>1, Zones DEF TypeInv
  <2>2. due[x] >= pended - Overdue(pended)
    BY DEF TimeInv, NearIdle
  <2>3. due[x] - 1 >= (pended - 1) - Overdue(pended - 1)
    BY <1>3, <2>1, <2>2, Zones DEF Overdue
  <2> QED
    BY <1>3, <2>1, <2>3
<1>7. NearTick'
  <2> SUFFICES ASSUME tick_time # None PROVE NearTick'
    BY <1>1 DEF NearTick
  <2>1. /\ tick_time \in Int /\ busy \in Int /\ busy' = busy + 1 /\ pended' = None
        /\ CurrentTime = Wrap(tick_time + busy)
    BY <1>1, Zones DEF TypeInv, TimeInv, NearTick, Time32
  <2>2. Wrap(Wrap(tick_time + busy) + 1) = Wrap((tick_time + busy) + 1)
    BY <2>1, WrapPlus
  <2>3. (tick_time + busy) + 1 = tick_time + (busy + 1)
    BY <2>1
  <2>4. ASSUME NEW x \in linked
        PROVE  due[x] + busy >= -(MaxLatency + Overdue(0)) /\ due[x] + busy <= DurationMax + UserHeadroom
    BY <2>4 DEF TimeInv, NearTick
  <2>5. ASSUME NEW x \in linked PROVE due'[x] + busy' = due[x] + busy
    BY <1>3, <2>1, <2>5
  <2> QED
    BY <1>1, <1>2, <2>1, <2>2, <2>3, <2>4, <2>5 DEF NearTick
<1>8. DelaysKept'
  BY <1>1 DEF TimeInv, DelaysKept
<1> QED
  BY <1>4, <1>5, <1>6, <1>7, <1>8 DEF TimeInv

\* insert_timeout and remove_timeout: a heap whose timeouts are old or have just been
\* given a delay is within the zones, and the next tick is in time for it.
LEMMA RescheduleKeeps ==
  ASSUME TypeInv, TimeInv, Undisturbed, UNCHANGED <<tick_count, clockVars, loopVars>>,
         NEW x \in Timers, linked' \subseteq linked \cup {x},
         \A y \in linked' \ {x} : due'[y] = due[y] /\ at'[y] = at[y],
         x \in linked' => due'[x] \in Durations /\ at'[x] = Wrap(CurrentTime + due'[x]),
         IF tick_time = None /\ (x \in linked \/ x \in linked')
           THEN PendNextTick(linked', at', CurrentTime) ELSE UNCHANGED pended
  PROVE  ArrivalBounded' /\ Congruent' /\ NearIdle' /\ NearTick'
<1>1. /\ UNCHANGED <<CurrentTime, FrontierGap, tick_time, busy>>
      /\ CurrentTime \in Int /\ FrontierGap \in 0 .. UserHeadroom /\ busy \in 0 .. MaxBusy
      /\ MaxBusy <= UserHeadroom
  BY Clock, ClockSame, Zones DEF clockVars, loopVars, TypeInv, Undisturbed, Time32
<1>2. PICK h, a, d : h = linked' /\ a = at' /\ d = due'
  OBVIOUS
<1>3. ASSUME NEW y \in h
      PROVE  /\ d[y] \in Int /\ a[y] = Wrap(CurrentTime + d[y])
             /\ d[y] <= FrontierGap + DurationMax
             /\ -(HardHeadroom + UserHeadroom) <= d[y] /\ d[y] <= DurationMax + UserHeadroom
             /\ (y \in linked /\ d[y] = due[y]) \/ d[y] \in Durations
  <2>1. CASE y = x
    <3>1. d[y] \in Durations /\ a[y] = Wrap(CurrentTime + d[y])
      BY <1>2, <1>3, <2>1
    <3> QED
      BY <1>1, <3>1, Zones DEF Durations
  <2>2. CASE y # x
    <3>1. y \in linked /\ d[y] = due[y] /\ a[y] = at[y]
      BY <1>2, <1>3, <2>2
    <3>2. due[y] <= FrontierGap + DurationMax
      BY <3>1 DEF TimeInv, ArrivalBounded
    <3> QED
      BY <3>1, <3>2, Within
  <2> QED
    BY <2>1, <2>2
<1>4. ArrivalBounded' /\ Congruent'
  BY <1>1, <1>2, <1>3 DEF ArrivalBounded, Congruent
<1>5. NearIdle'
  <2> SUFFICES ASSUME tick_time = None PROVE \A y \in h : d[y] >= pended' - Overdue(pended')
    BY <1>1, <1>2 DEF NearIdle
  <2>0. pended # None
    BY DEF TypeInv
  <2>1. ASSUME NEW y \in h PROVE d[y] >= pended - Overdue(pended) \/ d[y] >= -UserHeadroom
    <3>1. CASE y \in linked /\ d[y] = due[y]
      BY <3>1 DEF TimeInv, NearIdle
    <3>2. CASE d[y] \in Durations
      BY <3>2, Zones DEF Durations
    <3> QED
      BY <1>3, <2>1, <3>1, <3>2
  <2>2. CASE x \in linked \/ x \in linked'
    <3>1. PendNextTick(h, a, CurrentTime)
      BY <1>2, <2>2
    <3> QED
      BY <1>1, <1>3, <2>0, <2>1, <3>1, PendNear
  <2>3. CASE ~(x \in linked \/ x \in linked')
    <3>1. pended' = pended
      BY <2>3
    <3>2. ASSUME NEW y \in h PROVE y \in linked /\ d[y] = due[y]
      BY <1>2, <2>3, <3>2
    <3> QED
      BY <3>1, <3>2 DEF TimeInv, NearIdle
  <2> QED
    BY <2>2, <2>3
<1>6. NearTick'
  <2> SUFFICES ASSUME tick_time # None PROVE NearTick'
    BY <1>1 DEF NearTick
  <2>1. pended' = None /\ CurrentTime = Wrap(tick_time + busy)
    BY DEF TimeInv, NearTick
  <2>2. ASSUME NEW y \in h
        PROVE  d[y] + busy >= -(MaxLatency + Overdue(0)) /\ d[y] + busy <= DurationMax + UserHeadroom
    <3>1. CASE y \in linked /\ d[y] = due[y]
      BY <3>1 DEF TimeInv, NearTick
    <3>2. CASE d[y] \in Durations
      BY <1>1, <3>2, Zones DEF Durations, Overdue
    <3> QED
      BY <1>3, <2>2, <3>1, <3>2
  <2> QED
    BY <1>1, <1>2, <2>1, <2>2 DEF NearTick
<1> QED
  BY <1>4, <1>5, <1>6

LEMMA LinkKeeps ==
  ASSUME TypeInv, TimeInv, Undisturbed, UNCHANGED <<tick_count, clockVars, loopVars>>,
         NEW x \in Timers, NEW delay \in Durations, Link(x, delay)
  PROVE  TimeInv'
<1>1. /\ at' = [at EXCEPT ![x] = Wrap(CurrentTime + delay)]
      /\ linked' = linked \cup {x}
      /\ due' = [due EXCEPT ![x] = delay]
      /\ at \in [Timers -> Time32] /\ due \in [Timers -> Int] /\ linked \subseteq Timers
  BY DEF Link, TypeInv
<1>2. /\ \A y \in linked' \ {x} : due'[y] = due[y] /\ at'[y] = at[y]
      /\ due'[x] \in Durations /\ at'[x] = Wrap(CurrentTime + due'[x])
  BY <1>1
<1>3. IF tick_time = None /\ (x \in linked \/ x \in linked')
        THEN PendNextTick(linked', at', CurrentTime) ELSE UNCHANGED pended
  BY <1>1 DEF Link, Reschedule
<1>4. ArrivalBounded' /\ Congruent' /\ NearIdle' /\ NearTick'
  <2>1. linked' \subseteq linked \cup {x}
    BY <1>1
  <2> QED
    BY <1>2, <1>3, <2>1, RescheduleKeeps
<1>5. DelaysKept'
  BY <1>1 DEF TimeInv, DelaysKept, clockVars
<1> QED
  BY <1>4, <1>5 DEF TimeInv

LEMMA UnlinkKeeps ==
  ASSUME TypeInv, TimeInv, Undisturbed, UNCHANGED <<tick_count, clockVars, loopVars>>,
         NEW x \in Timers, NEW delay, "start" \in Services => delay \in Durations \cup {Bad},
         Unlink(x, delay)
  PROVE  TimeInv'
<1>1. /\ at' = [at EXCEPT ![x] = delay]
      /\ linked' = linked \ {x}
      /\ due' = [due EXCEPT ![x] = 0]
      /\ at \in [Timers -> Time32] /\ due \in [Timers -> Int] /\ linked \subseteq Timers
  BY DEF Unlink, TypeInv
<1>2. /\ \A y \in linked' \ {x} : due'[y] = due[y] /\ at'[y] = at[y]
      /\ linked' \subseteq linked \cup {x} /\ x \notin linked'
  BY <1>1
<1>3. IF tick_time = None /\ (x \in linked \/ x \in linked')
        THEN PendNextTick(linked', at', CurrentTime) ELSE UNCHANGED pended
  BY <1>1 DEF Unlink, Reschedule
<1>4. ArrivalBounded' /\ Congruent' /\ NearIdle' /\ NearTick'
  BY <1>2, <1>3, RescheduleKeeps
<1>5. DelaysKept'
  BY <1>1 DEF TimeInv, DelaysKept, clockVars
<1> QED
  BY <1>4, <1>5 DEF TimeInv

\* A step that leaves clock and heap alone.
LEMMA SameKeeps ==
  ASSUME TimeInv,
         UNCHANGED <<tick_count, pended, last_tick_count, last_tick_time, frontier_gap,
                     heapVars, tick_time, busy>>
  PROVE  TimeInv'
<1>1. UNCHANGED <<CurrentTime, FrontierGap>>
  BY ClockSame
<1> QED
  BY <1>1 DEF TimeInv, ArrivalBounded, Congruent, NearIdle, NearTick, DelaysKept, heapVars

LEMMA StartKeeps ==
  ASSUME TypeInv, TimeInv, TimerLinked, Undisturbed, "start" \in Services,
         NEW x \in Timers, StartTimer(x)
  PROVE  TimeInv'
<1>1. CASE at[x] # Bad
  <2>1. x \notin linked
    BY DEF StartTimer, TimerLinked
  <2>2. at[x] \in Durations
    BY <1>1, <2>1 DEF TimeInv, DelaysKept
  <2>3. Link(x, at[x]) /\ UNCHANGED <<tick_count, clockVars, loopVars>>
    BY <1>1 DEF StartTimer
  <2> QED
    BY <2>2, <2>3, LinkKeeps
<1>2. CASE at[x] = Bad
  BY <1>2, SameKeeps DEF StartTimer, clockVars, loopVars
<1> QED
  BY <1>1, <1>2

LEMMA StopKeeps ==
  ASSUME TypeInv, TimeInv, Undisturbed, NEW x \in Timers, StopTimer(x)
  PROVE  TimeInv'
<1>1. CASE x \in linked
  <2>1. Unlink(x, DurationUntil(at[x], CurrentTime)) /\ UNCHANGED <<tick_count, clockVars, loopVars>>
    BY <1>1 DEF StopTimer
  <2>2. ASSUME "start" \in Services PROVE DurationUntil(at[x], CurrentTime) \in Durations
    <3>1. FrontierGap = 0
      BY <2>2, Clock, Zones DEF TimeInv, DelaysKept, FrontierGap, SaturatingSub
    <3>2. due[x] \in Int /\ due[x] <= DurationMax
      BY <1>1, <3>1, Within, Zones DEF TimeInv, ArrivalBounded
    <3>3. DurationUntil(at[x], CurrentTime) = IF due[x] > 0 THEN due[x] ELSE 0
      <4>1. CurrentTime \in Int
        BY Clock, Zones DEF Time32
      <4> QED
        BY <1>1, <4>1, Within, SeenAs
    <3> QED
      BY <3>2, <3>3, Zones DEF Durations
  <2> QED
    BY <2>1, <2>2, UnlinkKeeps
<1>2. CASE x \notin linked
  BY <1>2, SameKeeps DEF StopTimer, clockVars, loopVars
<1> QED
  BY <1>1, <1>2

LEMMA SetDelayKeeps ==
  ASSUME TypeInv, TimeInv, Undisturbed, NEW x \in Timers, NEW delay \in Delays,
         SetTimerDelay(x, delay)
  PROVE  TimeInv'
<1>1. delay \in Durations \cup {Bad} /\ UNCHANGED <<tick_count, clockVars, loopVars>>
  BY TimerAssumption DEF SetTimerDelay
<1>2. CASE active[x] /\ delay # Bad
  BY <1>1, <1>2, LinkKeeps DEF SetTimerDelay
<1>3. CASE ~(active[x] /\ delay # Bad)
  BY <1>1, <1>3, UnlinkKeeps DEF SetTimerDelay
<1> QED
  BY <1>2, <1>3

\* An adjustment moves all timeouts, and leaves them within the user headroom.
LEMMA AdjustKeeps ==
  ASSUME TypeInv, TimeInv, Undisturbed, tick_time = None, NEW delta \in Deltas,
         AdjustTime(delta)
  PROVE  TimeInv'
<1>0. /\ delta \in Int /\ FrontierGap \in 0 .. UserHeadroom /\ CurrentTime \in Int
      /\ UNCHANGED <<tick_count, at, linked, tick_time, busy>>
      /\ "start" \in Services => delta >= 0 /\ FrontierGap = 0
  <2>1. ASSUME "start" \in Services PROVE delta >= 0 /\ FrontierGap = 0
    <3>1. frontier_gap = 0
      BY <2>1 DEF TimeInv, DelaysKept
    <3>2. delta \in Nat
      BY <2>1 DEF Undisturbed
    <3> QED
      BY <3>1, <3>2, Clock, Zones DEF FrontierGap, SaturatingSub
  <2> QED
    BY <2>1, Clock, TimerAssumption, Zones DEF AdjustTime, loopVars, Time32
<1>1. CASE AdjustAllowed(delta) /\ delta # 0
  <2> DEFINE gap == SaturatingSub(FrontierGap, delta)
  <2>1. /\ gap \in 0 .. UserHeadroom /\ gap >= FrontierGap - delta
        /\ "start" \in Services => gap = 0
    BY <1>0, <1>1, Zones DEF AdjustAllowed, SaturatingSub
  <2>2. /\ MarkTick(delta, gap)
        /\ PendNextTick(linked, at, last_tick_time')
        /\ due' = [x \in Timers |-> IF x \in linked THEN due[x] - delta ELSE 0]
    BY <1>1 DEF AdjustTime
  <2> HIDE DEF gap
  <2>3. /\ CurrentTime' = Wrap(CurrentTime + delta) /\ last_tick_time' = CurrentTime'
        /\ FrontierGap' = gap /\ frontier_gap' = gap
    BY <1>0, <2>1, <2>2, ClockMark DEF MarkTick
  <2>4. PICK now \in Int : now = CurrentTime'
    BY <1>0, <2>3, WrapRange, Zones DEF Time32
  <2>5. PICK d : d = due'
    OBVIOUS
  <2>6. ASSUME NEW x \in linked
        PROVE  d[x] = due[x] - delta /\ due[x] \in Int /\ d[x] \in Int
    BY <2>2, <2>5, <2>6, <1>0 DEF TypeInv
  <2>7. ASSUME NEW x \in linked
        PROVE  /\ d[x] <= gap + DurationMax /\ d[x] <= DurationMax + UserHeadroom
               /\ d[x] >= due[x] \/ d[x] >= -UserHeadroom
               /\ -(HardHeadroom + UserHeadroom) <= d[x]
    <3>1. /\ due[x] <= FrontierGap + DurationMax /\ at[x] = Wrap(CurrentTime + due[x])
          /\ -(HardHeadroom + UserHeadroom) <= due[x] /\ due[x] <= DurationMax + UserHeadroom
      BY <2>7, Within DEF TimeInv, ArrivalBounded
    <3>2. CASE delta < 0
      BY <1>0, <2>1, <2>6, <2>7, <3>1, <3>2, Zones
    <3>3. CASE delta >= 0
      <4>1. DurationBeforeHard(at[x], CurrentTime) >= delta
        BY <1>0, <1>1, <2>7, <3>3 DEF AdjustAllowed
      <4>2. DurationBeforeHard(at[x], CurrentTime)
              = IF due[x] + UserHeadroom > 0 THEN due[x] + UserHeadroom ELSE 0
        BY ZenonT(60), <1>0, <2>6, <2>7, <3>1, SeenAs
      <4>3. due[x] + UserHeadroom >= delta
        BY <1>0, <1>1, <2>6, <2>7, <3>3, <4>1, <4>2, Zones
      <4> QED
        BY <1>0, <2>1, <2>6, <2>7, <3>1, <4>3, Zones
    <3> QED
      BY <1>0, <3>2, <3>3
  <2>8. ASSUME NEW x \in linked PROVE at[x] = Wrap(now + d[x])
    <3>1. due[x] \in Int /\ CurrentTime \in Int /\ delta \in Int
      BY <1>0, <2>6, <2>8
    <3>2. Wrap(Wrap(CurrentTime + delta) + (due[x] - delta)) = Wrap(CurrentTime + due[x])
      BY <3>1, Shift
    <3> QED
      BY <2>3, <2>4, <2>6, <2>8, <3>2, Within
  <2>9. ASSUME NEW x \in linked PROVE d[x] >= pended - Overdue(pended) \/ d[x] >= -UserHeadroom
    <3>1. due[x] >= pended - Overdue(pended)
      BY <2>9 DEF TimeInv, NearIdle
    <3>2. pended \in Int /\ Overdue(pended) \in Int
      BY Zones DEF TypeInv, Overdue
    <3> QED
      BY <2>6, <2>7, <2>9, <3>1, <3>2, Zones
  <2>10. NearIdle'
    <3>1. PendNextTick(linked, at, now) /\ pended # None
      BY <2>2, <2>3, <2>4 DEF TypeInv
    <3>2. \A x \in linked : d[x] >= pended' - Overdue(pended')
      BY <2>6, <2>7, <2>8, <2>9, <3>1, PendNear
    <3> QED
      BY <1>0, <2>5, <3>2 DEF NearIdle
  <2>11. ArrivalBounded' /\ Congruent'
    BY <1>0, <2>3, <2>4, <2>5, <2>7, <2>8 DEF ArrivalBounded, Congruent
  <2>12. NearTick' /\ DelaysKept'
    BY <1>0, <2>1, <2>3 DEF NearTick, TimeInv, DelaysKept
  <2> QED
    BY <2>10, <2>11, <2>12 DEF TimeInv
<1>2. CASE ~(AdjustAllowed(delta) /\ delta # 0)
  <2>1. MarkTick(0, FrontierGap) /\ UNCHANGED <<pended, due>>
    BY <1>2 DEF AdjustTime
  <2>2. CurrentTime' = Wrap(CurrentTime + 0) /\ FrontierGap' = FrontierGap /\ frontier_gap' = FrontierGap
    BY <1>0, <2>1, ClockMark DEF MarkTick
  <2>3. CurrentTime' = CurrentTime
    BY <2>2, Clock, NotMoved
  <2> QED
    BY <1>0, <2>1, <2>2, <2>3
       DEF TimeInv, ArrivalBounded, Congruent, NearIdle, NearTick, DelaysKept
<1> QED
  BY <1>1, <1>2

\* handle_tick begins when its tick is due.
LEMMA TickKeeps ==
  ASSUME TypeInv, TimeInv, Undisturbed, TimerTick
  PROVE  TimeInv'
<1>1. /\ tick_time = None /\ pended # None /\ MarkTick(0, FrontierGap)
      /\ tick_time' = CurrentTime /\ pended' = None
      /\ UNCHANGED <<tick_count, at, linked, due, busy>> /\ busy = 0
  BY DEF TimerTick, TypeInv, heapVars
<1>2. /\ CurrentTime' = Wrap(CurrentTime + 0) /\ FrontierGap' = FrontierGap
      /\ frontier_gap' = FrontierGap /\ FrontierGap \in 0 .. UserHeadroom
  BY <1>1, Clock, ClockMark DEF MarkTick
<1>3. CurrentTime' = CurrentTime /\ Wrap(CurrentTime + 0) = CurrentTime /\ tick_time' # None
  BY <1>1, <1>2, Clock, NotMoved, Zones, TimerAssumption DEF Time32
<1>4. ArrivalBounded' /\ Congruent' /\ NearIdle'
  BY <1>1, <1>2, <1>3 DEF TimeInv, ArrivalBounded, Congruent, NearIdle
<1>5. ASSUME NEW x \in linked
      PROVE  due[x] + 0 >= -(MaxLatency + Overdue(0)) /\ due[x] + 0 <= DurationMax + UserHeadroom
  <2>1. due[x] \in Int /\ due[x] >= pended - Overdue(pended) /\ due[x] <= DurationMax + UserHeadroom
    BY <1>1, <1>5, Within DEF TimeInv, NearIdle
  <2>2. pended \in Int /\ pended >= -MaxLatency
    BY <1>1, Zones DEF TypeInv
  <2> QED
    BY <1>1, <2>1, <2>2, Zones DEF Overdue
<1>6. NearTick'
  <2>1. busy' = 0
    BY <1>1
  <2>2. \A x \in linked' : /\ due'[x] + busy' >= -(MaxLatency + Overdue(0))
                           /\ due'[x] + busy' <= DurationMax + UserHeadroom
    BY <1>1, <1>5, <2>1
  <2> QED
    BY <1>1, <1>3, <2>1, <2>2 DEF NearTick
<1>7. DelaysKept'
  <2>1. "start" \in Services => FrontierGap = 0
    BY Clock, Zones DEF TimeInv, DelaysKept, FrontierGap, SaturatingSub
  <2> QED
    BY <1>1, <1>2, <2>1 DEF TimeInv, DelaysKept
<1> QED
  BY <1>4, <1>6, <1>7 DEF TimeInv

\* What handle_tick sees of a timeout, by its `current_time`.
LEMMA TickSees ==
  ASSUME TypeInv, TimeInv, Undisturbed, tick_time # None, NEW x \in linked
  PROVE  DurationUntil(at[x], tick_time) = IF due[x] + busy > 0 THEN due[x] + busy ELSE 0
<1>1. /\ tick_time \in Int /\ busy \in Int /\ due[x] \in Int
      /\ CurrentTime = Wrap(tick_time + busy) /\ at[x] = Wrap(CurrentTime + due[x])
  BY Within, Zones DEF TypeInv, TimeInv, NearTick, Time32
<1>2. PICK e \in Int : e = due[x] + busy
  BY <1>1
<1>3. at[x] = Wrap(tick_time + e)
  <2>1. tick_time + busy \in Int /\ (tick_time + busy) + due[x] = tick_time + e
    BY <1>1, <1>2
  <2> QED
    BY <1>1, <2>1, WrapPlus
<1>4. -(HardHeadroom + UserHeadroom) <= e /\ e <= DurationMax + UserHeadroom
  BY <1>2, Zones DEF TimeInv, NearTick, Overdue, Undisturbed
<1>5. DurationUntil(at[x], tick_time) = IF e > 0 THEN e ELSE 0
  <2>1. DurationUntil(Wrap(tick_time + e), tick_time) = IF e > 0 THEN e ELSE 0
    BY <1>1, <1>4, SeenAs
  <2> QED
    BY <1>3, <2>1
<1> QED
  BY <1>2, <1>5

\* An overdue timeout is called back when it has arrived, and its next arrival is
\* within the zones.
LEMMA ExpireKeeps ==
  ASSUME TypeInv, TimeInv, Undisturbed, NEW x \in Timers, ExpireTimeout(x)
  PROVE  TimeInv' /\ due[x] <= 0
<1>1. /\ tick_time # None /\ x \in linked /\ DurationUntil(at[x], tick_time) = 0
      /\ due[x] \in Int /\ busy \in 0 .. MaxBusy /\ at[x] = Wrap(CurrentTime + due[x])
      /\ UNCHANGED <<tick_count, pended, clockVars, tick_time, busy>>
      /\ at \in [Timers -> Time32] /\ due \in [Timers -> Int] /\ linked \subseteq Timers
  BY Within DEF ExpireTimeout, Earliest, portVars, TypeInv
<1>2. due[x] + busy <= 0 /\ due[x] <= 0
  <2>1. 0 = IF due[x] + busy > 0 THEN due[x] + busy ELSE 0
    BY <1>1, TickSees
  <2> QED
    BY <1>1, <2>1, Zones
<1>3. /\ UNCHANGED <<CurrentTime, FrontierGap>>
      /\ CurrentTime \in Int /\ FrontierGap \in 0 .. UserHeadroom
  BY <1>1, Clock, ClockSame, Zones DEF clockVars, Time32
<1>4. CASE period[x] = Bad
  <2>1. at' = [at EXCEPT ![x] = Bad] /\ linked' = linked \ {x} /\ due' = [due EXCEPT ![x] = 0]
    BY <1>4 DEF ExpireTimeout
  <2> QED
    BY <1>1, <1>2, <1>3, <2>1
       DEF TimeInv, ArrivalBounded, Congruent, NearIdle, NearTick, DelaysKept, clockVars
<1>5. CASE period[x] # Bad
  <2>1. /\ at' = [at EXCEPT ![x] = Wrap(@ + period[x])] /\ linked' = linked
        /\ due' = [due EXCEPT ![x] = @ + period[x]]
    BY <1>5 DEF ExpireTimeout
  <2>2. period[x] \in Int /\ 0 <= period[x] /\ period[x] <= DurationMax
    BY <1>5, Zones DEF TypeInv, Durations
  <2>3. PICK a, d : a = at' /\ d = due'
    OBVIOUS
  <2>4. ASSUME NEW y \in linked, y # x PROVE d[y] = due[y] /\ a[y] = at[y]
    BY <1>1, <2>1, <2>3, <2>4
  <2>5. d[x] = due[x] + period[x] /\ a[x] = Wrap(at[x] + period[x])
    BY <1>1, <2>1, <2>3
  <2>6. a[x] = Wrap(CurrentTime + d[x])
    <3>1. CurrentTime + due[x] \in Int
          /\ (CurrentTime + due[x]) + period[x] = CurrentTime + d[x]
      BY <1>1, <1>3, <2>2, <2>5
    <3> QED
      BY <1>1, <2>2, <2>5, <3>1, WrapPlus
  <2>7. d[x] <= FrontierGap + DurationMax
    BY <1>1, <1>2, <1>3, <2>2, <2>5, Zones
  <2>8. d[x] + busy <= DurationMax + UserHeadroom /\ d[x] + busy >= -(MaxLatency + Overdue(0))
    <3>1. due[x] + busy >= -(MaxLatency + Overdue(0))
      BY <1>1 DEF TimeInv, NearTick
    <3>2. -(MaxLatency + Overdue(0)) \in Int
      BY Zones DEF Overdue
    <3> QED
      BY <1>1, <1>2, <2>2, <2>5, <3>1, <3>2, Zones
  <2>9. ArrivalBounded' /\ Congruent'
    <3>1. \A y \in linked : d[y] <= FrontierGap + DurationMax /\ a[y] = Wrap(CurrentTime + d[y])
      BY <2>4, <2>6, <2>7 DEF TimeInv, ArrivalBounded, Congruent
    <3> QED
      BY <1>3, <2>1, <2>3, <3>1 DEF ArrivalBounded, Congruent
  <2>10. NearTick'
    <3>1. \A y \in linked : /\ d[y] + busy >= -(MaxLatency + Overdue(0))
                            /\ d[y] + busy <= DurationMax + UserHeadroom
      BY <1>1, <2>4, <2>8 DEF TimeInv, NearTick
    <3> QED
      BY <1>1, <1>3, <2>1, <2>3, <3>1 DEF TimeInv, NearTick
  <2>11. NearIdle' /\ DelaysKept'
    BY <1>1, <2>1, <2>3, <2>4 DEF TimeInv, NearIdle, DelaysKept, clockVars
  <2> QED
    BY <1>2, <2>9, <2>10, <2>11 DEF TimeInv
<1> QED
  BY <1>4, <1>5

\* A heap that is not empty has a top.
LEMMA HasEarliest ==
  ASSUME TypeInv, linked # {}
  PROVE  \E x \in linked : Earliest(x)
<1> DEFINE S == {Distance(at[y], CurrentTime) : y \in linked}
<1>1. ASSUME NEW y \in linked PROVE Distance(at[y], CurrentTime) \in Nat
  <2>1. at[y] \in Int /\ CurrentTime \in Int
    BY <1>1, Clock, Zones DEF TypeInv, Time32
  <2>2. Distance(at[y], CurrentTime) \in Time32
    BY <2>1, DurationRange
  <2> QED
    BY <2>2, Zones DEF Time32
<1>2. S \in SUBSET Nat /\ S # {}
  BY <1>1
<1>3. Min(S) \in S /\ \A n \in S : Min(S) <= n
  BY <1>2, MinNat
<1>4. PICK x \in linked : Min(S) = Distance(at[x], CurrentTime)
  BY <1>3
<1>5. \A y \in linked : Distance(at[y], CurrentTime) \in S
  OBVIOUS
<1> HIDE DEF S
<1> QED
  BY <1>3, <1>4, <1>5 DEF Earliest

\* handle_tick ends when no timeout is overdue by its `current_time`: what became
\* due while callbacks ran is pended at once, late by no more than that.
LEMMA EndKeeps ==
  ASSUME TypeInv, TimeInv, Undisturbed, TickEnd
  PROVE  TimeInv'
<1>1. /\ tick_time # None /\ tick_time' = None /\ pended = None
      /\ PendNextTick(linked, at, tick_time)
      /\ \A x \in Timers : Earliest(x) => DurationUntil(at[x], tick_time) > 0
      /\ UNCHANGED <<tick_count, clockVars, heapVars>>
      /\ linked \subseteq Timers
  BY DEF TickEnd, TimeInv, NearTick, TypeInv
<1>2. /\ UNCHANGED <<CurrentTime, FrontierGap>> /\ CurrentTime \in Int /\ tick_time \in Int
      /\ busy \in 0 .. MaxBusy
  BY <1>1, Clock, ClockSame, Zones DEF clockVars, TypeInv, Time32
<1>3. ASSUME NEW x \in linked PROVE due[x] + busy > 0
  <2>1. PICK e \in linked : Earliest(e)
    BY HasEarliest
  <2>2. due[e] + busy > 0
    <3>1. DurationUntil(at[e], tick_time) > 0
      BY <1>1, <2>1
    <3>2. DurationUntil(at[e], tick_time) = IF due[e] + busy > 0 THEN due[e] + busy ELSE 0
      BY <1>1, TickSees
    <3> QED
      BY <3>1, <3>2
  <2>3. Distance(at[e], CurrentTime) <= Distance(at[x], CurrentTime)
    BY <2>1 DEF Earliest
  <2>4. /\ due[e] \in Int /\ Distance(at[e], CurrentTime) = due[e] + HardHeadroom + UserHeadroom
        /\ due[x] \in Int /\ Distance(at[x], CurrentTime) = due[x] + HardHeadroom + UserHeadroom
    BY <1>2, Within, SeenAs
  <2> QED
    BY <1>2, <2>2, <2>3, <2>4, Zones
<1>4. PICK q \in Int : /\ q = pended' /\ q >= 0
                       /\ \A x \in linked : q <= DurationUntil(at[x], tick_time)
  <2>1. \A x \in linked : at[x] \in Int
    BY Zones DEF TypeInv, Time32
  <2>2. /\ NextTickDelay(linked, at, tick_time) \in 0 .. MaxTimeout
        /\ \A x \in linked : NextTickDelay(linked, at, tick_time) <= DurationUntil(at[x], tick_time)
        /\ pended' = NextTickDelay(linked, at, tick_time)
    BY <1>1, <1>2, <2>1, PendRange
  <2> QED
    BY <2>2, Zones
<1>5. NearIdle'
  <2> SUFFICES ASSUME NEW x \in linked PROVE due[x] >= q - Overdue(q)
    BY <1>1, <1>4 DEF NearIdle, heapVars
  <2>1. DurationUntil(at[x], tick_time) = IF due[x] + busy > 0 THEN due[x] + busy ELSE 0
    BY <1>1, TickSees
  <2>2. q <= due[x] + busy /\ due[x] \in Int
    BY <1>3, <1>4, <2>1, Within
  <2> QED
    BY <1>2, <2>2, Zones DEF Overdue
<1>6. ArrivalBounded' /\ Congruent' /\ NearTick' /\ DelaysKept'
  BY <1>1, <1>2 DEF TimeInv, ArrivalBounded, Congruent, NearTick, DelaysKept, heapVars, clockVars
<1> QED
  BY <1>5, <1>6 DEF TimeInv

LEMMA InitKeeps == Init => TimeInv
<1> SUFFICES ASSUME Init PROVE TimeInv
  OBVIOUS
<1>1. /\ TypeInv /\ tick_count = last_tick_count /\ last_tick_time = 0 /\ frontier_gap = 0
      /\ at = InitDelay /\ tick_time = None /\ pended = NextTickDelay(linked, at, 0)
      /\ linked = {x \in InitActive : InitDelay[x] # Bad}
      /\ due = [x \in Timers |-> IF x \in linked THEN InitDelay[x] ELSE 0]
      /\ InitActive \subseteq Timers
  BY InitTypes, TimerAssumption DEF Init
<1>2. CurrentTime = 0 /\ FrontierGap = 0
  <2>1. DurationSinceLastTick = 0
    BY <1>1, Clock DEF TypeInv
  <2>2. 0 \in Time32 /\ 0 + 0 = 0
    BY Zones DEF Time32
  <2> QED
    BY <1>1, <2>1, <2>2, WrapSmall DEF CurrentTime, FrontierGap, SaturatingSub
<1>3. ASSUME NEW x \in linked
      PROVE  due[x] = at[x] /\ at[x] \in Durations /\ at[x] \in Int /\ at[x] = Wrap(0 + at[x])
  <2>1. due[x] = at[x] /\ at[x] \in Durations
    BY <1>1, <1>3, TimerAssumption
  <2>2. at[x] \in Time32 /\ at[x] \in Int /\ 0 + at[x] = at[x]
    BY <2>1, Zones DEF Durations, Time32
  <2> QED
    BY <2>1, <2>2, WrapSmall
<1>4. ArrivalBounded /\ Congruent
  BY <1>2, <1>3, Zones DEF ArrivalBounded, Congruent, Durations
<1>5. NearIdle
  <2>1. ASSUME NEW x \in linked PROVE DurationUntil(at[x], 0) = due[x] /\ due[x] \in Nat
    <3>1. /\ -(HardHeadroom + UserHeadroom) <= at[x] /\ at[x] <= DurationMax + UserHeadroom
          /\ 0 <= at[x] /\ at[x] \in Int
      BY <1>3, <2>1, Zones DEF Durations
    <3>2. DurationUntil(Wrap(0 + at[x]), 0) = IF at[x] > 0 THEN at[x] ELSE 0
      <4>1. PICK d \in Int, now \in Int : d = at[x] /\ now = 0
        BY <3>1
      <4>2. DurationUntil(Wrap(now + d), now) = IF d > 0 THEN d ELSE 0
        BY <3>1, <4>1, SeenAs
      <4> QED
        BY <4>1, <4>2
    <3> QED
      BY <1>3, <2>1, <3>1, <3>2
  <2>2. pended \in 0 .. MaxTimeout /\ \A x \in linked : pended <= DurationUntil(at[x], 0)
    BY <1>1, <2>1, DelayRange
  <2> QED
    BY <2>1, <2>2, Zones DEF NearIdle, Overdue
<1>6. NearTick /\ DelaysKept
  <2>1. \A x \in Timers : at[x] \in Durations \cup {Bad}
    BY <1>1, TimerAssumption
  <2> QED
    BY <1>1, <2>1 DEF NearTick, DelaysKept
<1> QED
  BY <1>4, <1>5, <1>6 DEF TimeInv

LEMMA TimeStep ==
  ASSUME Undisturbed, TypeInv, TimerLinked, TimeInv, [Next]_vars,
         tick_count' # tick_count => CounterFits
  PROVE  TimeInv' /\ \A x \in Timers : calling' = x /\ calling # x => due[x] <= 0
<1>0. None \notin Timers
  BY TimerAssumption
<1>1. CASE Elapse
  <2>1. tick_count' # tick_count /\ UNCHANGED calling
    BY <1>1, Zones DEF Elapse, TypeInv
  <2> QED
    BY <1>1, <2>1, ElapseKeeps
<1>2. ASSUME NEW x \in Timers, Uses("start"), StartTimer(x) PROVE TimeInv' /\ UNCHANGED calling
  <2>1. "start" \in Services
    BY <1>2 DEF Uses, Calls
  <2> QED
    BY <1>2, <2>1, StartKeeps DEF StartTimer, loopVars
<1>3. ASSUME NEW x \in Timers, StopTimer(x) PROVE TimeInv' /\ UNCHANGED calling
  BY <1>3, StopKeeps DEF StopTimer, loopVars
<1>4. ASSUME NEW x \in Timers, NEW delay \in Delays, SetTimerDelay(x, delay)
      PROVE  TimeInv' /\ UNCHANGED calling
  BY <1>4, SetDelayKeeps DEF SetTimerDelay, loopVars
<1>5. ASSUME NEW x, NEW p, \/ SetTimerPeriod(x, p) \/ SetSystemTime(p) \/ FallSilent
                           \/ CallbackReturn \/ UNCHANGED vars
      PROVE  TimeInv' /\ (UNCHANGED calling \/ calling' = None)
  <2>1. UNCHANGED <<tick_count, pended, last_tick_count, last_tick_time, frontier_gap,
                    heapVars, tick_time, busy>>
    BY <1>5 DEF SetTimerPeriod, SetSystemTime, FallSilent, CallbackReturn, vars, portVars,
                clockVars, heapVars, loopVars
  <2>2. UNCHANGED calling \/ calling' = None
    BY <1>5 DEF SetTimerPeriod, SetSystemTime, FallSilent, CallbackReturn, vars, loopVars
  <2> QED
    BY <2>1, <2>2, SameKeeps
<1>6. ASSUME NEW delta \in Deltas, Uses("callback_adjust") \/ calling = None, AdjustTime(delta)
      PROVE  TimeInv' /\ UNCHANGED calling
  <2>1. tick_time = None
    BY <1>6 DEF AdjustTime, InContext, Uses, Calls, Undisturbed
  <2> QED
    BY <1>6, <2>1, AdjustKeeps DEF AdjustTime, loopVars
<1>7. CASE TimerTick
  BY <1>7, TickKeeps DEF TimerTick
<1>8. ASSUME NEW x \in Timers, ExpireTimeout(x) PROVE TimeInv' /\ due[x] <= 0 /\ calling' = x
  BY <1>8, ExpireKeeps DEF ExpireTimeout
<1>9. CASE TickEnd
  BY <1>9, EndKeeps DEF TickEnd
<1> QED
  BY <1>0, <1>1, <1>2, <1>3, <1>4, <1>5, <1>6, <1>7, <1>8, <1>9
     DEF Next, TimerService, TimeService, HandleTick, Calls

LEMMA TimeSafe ==
  ASSUME TypeInv, TimeInv, Undisturbed
  PROVE  DistanceExact /\ ArrivalBounded /\ TickInTime
<1>1. CurrentTime \in Int
  BY Clock, Zones DEF Time32
<1>2. ASSUME NEW x \in linked
      PROVE  Distance(at[x], CurrentTime) = due[x] + HardHeadroom + UserHeadroom
  BY <1>1, <1>2, Within, SeenAs
<1>3. ASSUME tick_time = None, NEW x \in linked
      PROVE  pended # None /\ pended <= Max({0, due[x]}) + MaxBusy
  <2>1. PICK d \in Int, p \in Int : d = due[x] /\ p = pended
    BY <1>3, Within, Zones DEF TypeInv
  <2>2. p >= -MaxLatency /\ d >= p - Overdue(p)
    BY <1>3, <2>1, Zones DEF TypeInv, TimeInv, NearIdle
  <2>3. Max({0, d}) = IF d > 0 THEN d ELSE 0
    <3>1. /\ (IF d > 0 THEN d ELSE 0) \in {0, d}
          /\ \A y \in {0, d} : (IF d > 0 THEN d ELSE 0) >= y
      OBVIOUS
    <3>2. \A m \in {0, d} : (\A y \in {0, d} : m >= y) => m = IF d > 0 THEN d ELSE 0
      OBVIOUS
    <3> QED
      BY <3>1, <3>2 DEF Max
  <2> QED
    BY <1>3, <2>1, <2>2, <2>3, Zones DEF Overdue, TypeInv
<1>4. tick_time = None => pended # None
  BY DEF TypeInv
<1> QED
  BY <1>2, <1>3, <1>4 DEF DistanceExact, TickInTime, TimeInv

LEMMA TimeInvCorrect == Undisturbed => (Spec /\ CounterLasts => [](TypeInv /\ TimeInv))
<1> SUFFICES ASSUME Undisturbed PROVE Spec /\ CounterLasts => [](TypeInv /\ TimeInv)
  OBVIOUS
<1>1. TypeInv /\ TimerLinked /\ TimeInv /\ [Next]_vars
        /\ [tick_count' # tick_count => CounterFits]_vars => TimeInv'
  <2> SUFFICES ASSUME TypeInv, TimerLinked, TimeInv, [Next]_vars,
                      [tick_count' # tick_count => CounterFits]_vars
               PROVE  TimeInv'
    OBVIOUS
  <2>1. tick_count' # tick_count => CounterFits
    BY DEF vars
  <2> QED
    BY <2>1, TimeStep
<1> QED
  BY <1>1, InitTypes, InitKeeps, TypeStep, TimerLinkedCorrect, PTL DEF Spec, CounterLasts

\* The position of an arrival time in the word tells how far away it is, across all
\* wrap-arounds of event time and of the hardware counter, adjustments and late ticks:
\* comparing distances from the critical point orders timeouts chronologically
\* (the critical points of timeout.rs).
THEOREM DistanceExactCorrect == Undisturbed => (Spec /\ CounterLasts => []DistanceExact)
<1> SUFFICES ASSUME Undisturbed PROVE Spec /\ CounterLasts => []DistanceExact
  OBVIOUS
<1>1. TypeInv /\ TimeInv => DistanceExact
  BY TimeSafe
<1> QED
  BY <1>1, TimeInvCorrect, PTL

\* "The arrival times of all registered timeouts are bounded by frontier +
\* DURATION_MAX" (the module documentation of timeout.rs), also after adjustments.
THEOREM ArrivalBoundedCorrect == Undisturbed => (Spec /\ CounterLasts => []ArrivalBounded)
<1> SUFFICES ASSUME Undisturbed PROVE Spec /\ CounterLasts => []ArrivalBounded
  OBVIOUS
<1>1. TypeInv /\ TimeInv => ArrivalBounded
  BY TimeSafe
<1> QED
  BY <1>1, TimeInvCorrect, PTL

\* The port has been asked for a tick by the time the earliest timeout arrives, or
\* later by no more than callbacks took (pend_next_tick).
THEOREM TickInTimeCorrect == Undisturbed => (Spec /\ CounterLasts => []TickInTime)
<1> SUFFICES ASSUME Undisturbed PROVE Spec /\ CounterLasts => []TickInTime
  OBVIOUS
<1>1. TypeInv /\ TimeInv => TickInTime
  BY TimeSafe
<1> QED
  BY <1>1, TimeInvCorrect, PTL

\* No callback is called before its timeout has arrived, whatever the ticks, the
\* wrap-arounds and the adjustments before it (handle_tick).
THEOREM NeverEarlyCorrect == Undisturbed => (Spec /\ CounterLasts => NeverEarly)
<1> SUFFICES ASSUME Undisturbed PROVE Spec /\ CounterLasts => NeverEarly
  OBVIOUS
<1>1. TypeInv /\ TimerLinked /\ TimeInv /\ [Next]_vars
        /\ [tick_count' # tick_count => CounterFits]_vars
        => [\A x \in Timers : calling' = x /\ calling # x => due[x] <= 0]_vars
  <2> SUFFICES ASSUME TypeInv, TimerLinked, TimeInv, [Next]_vars,
                      [tick_count' # tick_count => CounterFits]_vars
               PROVE  \A x \in Timers : calling' = x /\ calling # x => due[x] <= 0
    OBVIOUS
  <2>1. tick_count' # tick_count => CounterFits
    BY DEF vars
  <2> QED
    BY <2>1, TimeStep
<1> QED
  BY <1>1, TimeInvCorrect, TimerLinkedCorrect, PTL DEF Spec, CounterLasts, NeverEarly

\* All of it without a premise about behaviours, where the counter cannot mislead.
\* A counter that fills the word cannot mislead event times; the system time needs
\* ticks that are not put off, with any counter.
THEOREM TimekeepingSafe ==
  Undisturbed =>
    /\ TimersFixed \/ MaxTickCount = WordSize - 1 =>
         (Spec => []DistanceExact /\ []ArrivalBounded /\ []TickInTime /\ NeverEarly)
    /\ TimersFixed => (Spec => TimeSteady)
<1> SUFFICES ASSUME Undisturbed
             PROVE  /\ TimersFixed \/ MaxTickCount = WordSize - 1 =>
                         (Spec => /\ []DistanceExact /\ []ArrivalBounded
                                  /\ []TickInTime /\ NeverEarly)
                    /\ TimersFixed => (Spec => TimeSteady)
  OBVIOUS
<1>1. TimersFixed \/ MaxTickCount = WordSize - 1 => (Spec => CounterLasts)
  BY CounterSuffices, EventTimeLasts
<1>2. Spec /\ CounterLasts => []DistanceExact
  BY DistanceExactCorrect
<1>3. Spec /\ CounterLasts => []ArrivalBounded
  BY ArrivalBoundedCorrect
<1>4. Spec /\ CounterLasts => []TickInTime
  BY TickInTimeCorrect
<1>5. Spec /\ CounterLasts => NeverEarly
  BY NeverEarlyCorrect
<1>6. TimersFixed => (Spec => TimeSteady)
  BY CounterSuffices, TimeSteadyCorrect
<1> QED
  BY <1>1, <1>2, <1>3, <1>4, <1>5, <1>6

=============================================================================
