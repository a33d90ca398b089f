---------------------------- MODULE DriverProofs ----------------------------
(***************************************************************************)
(* Proofs about the timer drivers of the port kit: the time they report is *)
(* the time of the hardware, rounded down to ticks, and their timer is set *)
(* so that the kernel is called in time.                                   *)
(***************************************************************************)
EXTENDS TimerDriver, ListLemmas, FiniteSetTheorems

-----------------------------------------------------------------------------
(* Lemmas.  Products, quotients and remainders.                            *)

LEMMA MulMono ==
    ASSUME NEW a \in Int, NEW b \in Int, NEW c \in Nat, a <= b PROVE a * c <= b * c
PROOF
<1>1. b - a >= 0 /\ c >= 0 /\ b - a \in Int
    OBVIOUS
<1>2. (b - a) * c >= 0
    BY <1>1
<1> QED BY <1>2

LEMMA MulCancel ==
    ASSUME NEW a \in Int, NEW b \in Int, NEW c \in Nat \ {0} PROVE a * c < b * c => a < b
PROOF
<1> SUFFICES ASSUME ~(a < b) PROVE ~(a * c < b * c)
    OBVIOUS
<1>1. b * c <= a * c
    BY MulMono
<1> QED BY <1>1

LEMMA DivIs ==
    ASSUME NEW x \in Int, NEW y \in Nat \ {0}
    PROVE  x \div y \in Int /\ x % y \in 0 .. y - 1 /\ x = (x \div y) * y + (x % y)
PROOF
<1>1. x \div y \in Int
    OBVIOUS
<1>2. x % y \in 0 .. y - 1
    OBVIOUS
<1>3. x = y * (x \div y) + (x % y)
    OBVIOUS
<1>4. y * (x \div y) = (x \div y) * y
    BY <1>1
<1> QED BY <1>1, <1>2, <1>3, <1>4

LEMMA DivUnique ==
    ASSUME NEW x \in Int, NEW y \in Nat \ {0}, NEW q \in Int, NEW r \in 0 .. y - 1, x = q * y + r
    PROVE  x \div y = q /\ x % y = r
PROOF
<1> DEFINE p == x \div y
           s == x % y
<1>1. p \in Int /\ s \in 0 .. y - 1 /\ x = p * y + s
    BY DivIs
<1> HIDE DEF p, s
<1>2. p * y < (q + 1) * y /\ q * y < (p + 1) * y
    BY <1>1
<1>3. p < q + 1 /\ q < p + 1
    BY <1>1, <1>2, MulCancel
<1>4. p = q
    BY <1>1, <1>3
<1> QED BY <1>1, <1>4 DEF p, s

LEMMA DivNat ==
    ASSUME NEW x \in Nat, NEW y \in Nat \ {0} PROVE x \div y \in Nat
PROOF
<1>1. x \div y \in Int /\ x < (x \div y + 1) * y
    BY DivIs
<1>2. 0 * y < (x \div y + 1) * y
    BY <1>1
<1>3. 0 < x \div y + 1
    BY <1>1, <1>2, MulCancel
<1> QED BY <1>1, <1>3

\* What is at least q * y has a quotient of at least q, and the other way round.
LEMMA DivAtLeast ==
    ASSUME NEW x \in Int, NEW y \in Nat \ {0}, NEW q \in Int PROVE q <= x \div y <=> q * y <= x
PROOF
<1> DEFINE p == x \div y
<1>1. p \in Int /\ x < (p + 1) * y /\ p * y <= x
    BY DivIs
<1> HIDE DEF p
<1>2. q <= p => q * y <= p * y
    BY <1>1, MulMono
<1>3. q * y <= x => q * y < (p + 1) * y
    BY <1>1
<1>4. q * y < (p + 1) * y => q < p + 1
    BY <1>1, MulCancel
<1>5. q <= p <=> q * y <= x
    BY <1>1, <1>2, <1>3, <1>4
<1> QED BY <1>5 DEF p

LEMMA DivMono ==
    ASSUME NEW x \in Int, NEW z \in Int, NEW y \in Nat \ {0}, x <= z PROVE x \div y <= z \div y
PROOF
<1>1. x \div y \in Int /\ (x \div y) * y <= x
    BY DivIs
<1>2. (x \div y) * y <= z
    BY <1>1
<1> QED BY <1>1, <1>2, DivAtLeast

\* A multiple of the divisor adds to the quotient.
LEMMA DivPlus ==
    ASSUME NEW x \in Int, NEW y \in Nat \ {0}, NEW k \in Int
    PROVE  (x + k * y) \div y = x \div y + k /\ (x + k * y) % y = x % y
PROOF
<1> DEFINE p == x \div y
           s == x % y
<1>1. p \in Int /\ s \in 0 .. y - 1 /\ x = p * y + s
    BY DivIs
<1> HIDE DEF p, s
<1>2. x + k * y \in Int /\ p + k \in Int /\ x + k * y = (p + k) * y + s
    BY <1>1
<1>3. (x + k * y) \div y = p + k /\ (x + k * y) % y = s
    BY <1>1, <1>2, DivUnique
<1> QED BY <1>3 DEF p, s

\* A common factor of both cancels.
LEMMA DivFactor ==
    ASSUME NEW x \in Int, NEW y \in Nat \ {0}, NEW g \in Nat \ {0}
    PROVE  g * y \in Nat \ {0} /\ (g * x) \div (g * y) = x \div y
PROOF
<1> DEFINE p == x \div y
           s == x % y
<1>1. p \in Int /\ s \in 0 .. y - 1 /\ x = p * y + s
    BY DivIs
<1> HIDE DEF p, s
<1>2. 0 <= s * g /\ s * g < y * g
    <2>1. s + 1 <= y /\ s + 1 \in Int /\ s \in Int /\ s >= 0 /\ g >= 0
        BY <1>1
    <2>2. (s + 1) * g <= y * g /\ 0 * g <= s * g
        BY <2>1, MulMono
    <2> QED BY <2>1, <2>2
<1>3. g * s \in 0 .. g * y - 1 /\ g * y \in Nat \ {0} /\ g * x \in Int
    BY <1>1, <1>2
<1>4. g * x = p * (g * y) + g * s
    BY <1>1
<1>5. (g * x) \div (g * y) = p
    BY <1>1, <1>3, <1>4, DivUnique
<1> QED BY <1>3, <1>5 DEF p

LEMMA ModSmall ==
    ASSUME NEW y \in Nat \ {0}, NEW x \in 0 .. y - 1 PROVE x % y = x
PROOF
<1>1. x \in Int /\ x = 0 * y + x
    OBVIOUS
<1> QED BY <1>1, DivUnique

\* Remainders may be taken before or after a sum or difference.
LEMMA ModSum ==
    ASSUME NEW y \in Nat \ {0}, NEW x \in Int, NEW z \in Int
    PROVE  /\ ((x % y) + z) % y = (x + z) % y /\ (x + (z % y)) % y = (x + z) % y
           /\ ((x % y) - (z % y)) % y = (x - z) % y
PROOF
<1> DEFINE p == x \div y
           q == z \div y
           s == x % y
           t == z % y
<1>1. p \in Int /\ s \in Int /\ x = p * y + s /\ q \in Int /\ t \in Int /\ z = q * y + t
    BY DivIs
<1> HIDE DEF p, q, s, t
<1>2. /\ x + z = (s + z) + p * y /\ x + z = (x + t) + q * y
      /\ x - z = (s - t) + (p - q) * y
    BY <1>1
<1>3. s + z \in Int /\ x + t \in Int /\ s - t \in Int /\ p - q \in Int
    BY <1>1
<1>4. /\ ((s + z) + p * y) % y = (s + z) % y
      /\ ((x + t) + q * y) % y = (x + t) % y
    <2>1. p \in Int /\ q \in Int
        BY <1>1
    <2>2. ((s + z) + p * y) % y = (s + z) % y
        BY <1>3, <2>1, DivPlus, Zenon
    <2>3. ((x + t) + q * y) % y = (x + t) % y
        BY <1>3, <2>1, DivPlus, Zenon
    <2> QED BY <2>2, <2>3
<1>5. ((s - t) + (p - q) * y) % y = (s - t) % y
    BY <1>3, DivPlus, Zenon
<1>6. (x + z) % y = (s + z) % y /\ (x + z) % y = (x + t) % y /\ (x - z) % y = (s - t) % y
    BY <1>2, <1>4, <1>5, Zenon
<1> QED BY <1>6 DEF s, t

\* CeilDiv rounds up.
LEMMA CeilIs ==
    ASSUME NEW x \in Nat, NEW y \in Nat \ {0}
    PROVE  /\ CeilDiv(x, y) \in Nat /\ x <= CeilDiv(x, y) * y /\ CeilDiv(x, y) * y <= x + y - 1
           /\ \A k \in Int : CeilDiv(x, y) <= k <=> x <= k * y
PROOF
<1> DEFINE c == CeilDiv(x, y)
<1>1. PICK z : z = x + y - 1
    OBVIOUS
<1>2. c \in Nat /\ c * y <= x + y - 1 /\ x + y - 1 < (c + 1) * y
    <2>1. z \in Nat /\ z \in Int /\ c = z \div y
        BY <1>1 DEF CeilDiv
    <2> HIDE DEF c
    <2>2. c \in Nat /\ c * y <= z /\ z < (c + 1) * y
        <3>1. c \in Nat
            BY <2>1, DivNat
        <3>2. (z % y) \in 0 .. y - 1 /\ z = c * y + (z % y)
            BY <2>1, DivIs
        <3> QED BY <3>1, <3>2
    <2> QED BY <1>1, <2>2
<1> HIDE DEF c
<1>3. x <= c * y
    BY <1>2
<1>4. ASSUME NEW k \in Int PROVE c <= k <=> x <= k * y
    <2>1. c <= k => c * y <= k * y
        BY <1>2, MulMono
    <2>2. x <= k * y => c * y < (k + 1) * y
        BY <1>2
    <2>3. c * y < (k + 1) * y => c < k + 1
        BY <1>2, MulCancel
    <2> QED BY <1>2, <1>3, <2>1, <2>2, <2>3
<1> QED BY <1>2, <1>3, <1>4 DEF c

LEMMA CeilPlus ==
    ASSUME NEW x \in Nat, NEW y \in Nat \ {0}, NEW k \in Nat
    PROVE  CeilDiv(x + k * y, y) = CeilDiv(x, y) + k
PROOF
<1>1. x + y - 1 \in Int /\ (x + k * y) + y - 1 = (x + y - 1) + k * y
    OBVIOUS
<1>2. k \in Int
    OBVIOUS
<1>3. ((x + y - 1) + k * y) \div y = (x + y - 1) \div y + k
    BY <1>1, <1>2, DivPlus, Zenon
<1> QED BY <1>1, <1>3, Zenon DEF CeilDiv

-----------------------------------------------------------------------------
(* The greatest common divisor.  That it divides both is what counts.      *)

Divides(g, x) == \E k \in Nat : x = g * k

LEMMA GcdCallKeeps ==
    ASSUME NEW p \in Nat \X Nat, p[1] + p[2] > 0
    PROVE  /\ GcdCall(p) \in Nat \X Nat /\ GcdCall(p)[1] + GcdCall(p)[2] > 0
           /\ GcdCall(p)[2] = 0 \/ GcdCall(p)[2] < p[2]
           /\ \A g \in Nat \ {0} : Divides(g, GcdCall(p)[1]) /\ Divides(g, GcdCall(p)[2])
                                     => Divides(g, p[1]) /\ Divides(g, p[2])
PROOF
<1>1. CASE p[2] = 0
    BY <1>1 DEF GcdCall
<1>2. CASE p[2] # 0
    <2> DEFINE q == p[1] \div p[2]
               r == p[1] % p[2]
    <2>1. p[1] \in Nat /\ p[1] \in Int /\ p[2] \in Nat \ {0}
        BY <1>2
    <2>2. q \in Nat /\ r \in 0 .. p[2] - 1 /\ p[1] = q * p[2] + r
        BY <2>1, DivIs, DivNat
    <2>3. GcdCall(p) = <<p[2], r>>
        BY <1>2 DEF GcdCall
    <2> HIDE DEF q, r
    <2>4. ASSUME NEW g \in Nat \ {0}, Divides(g, p[2]), Divides(g, r) PROVE Divides(g, p[1])
        <3>1. PICK u \in Nat, v \in Nat : p[2] = g * u /\ r = g * v
            BY <2>4 DEF Divides
        <3>2. q * u + v \in Nat /\ p[1] = g * (q * u + v)
            BY <2>2, <3>1
        <3> QED BY <3>2 DEF Divides
    <2> QED BY <2>1, <2>2, <2>3, <2>4
<1> QED BY <1>1, <1>2

\* There is such a sequence of calls.
LEMMA GcdCallsAre ==
    ASSUME NEW S, NEW s \in S, \A p \in S : GcdCall(p) \in S
    PROVE  \E f : f = [n \in Nat |-> IF n = 0 THEN s ELSE GcdCall(f[n - 1])]
PROOF
<1> DEFINE F == [p \in S |-> GcdCall(p)]
<1>1. F \in [S -> S]
    OBVIOUS
<1>2. PICK f \in [Nat -> S] : f = [n \in Nat |-> IF n = 0 THEN s ELSE F[f[n - 1]]]
    <2> HIDE DEF F
    <2> QED BY <1>1, Iterates
<1>3. ASSUME NEW n \in Nat PROVE f[n] = IF n = 0 THEN s ELSE GcdCall(f[n - 1])
    <2>1. f[n] = IF n = 0 THEN s ELSE F[f[n - 1]]
        BY <1>2
    <2>2. n # 0 => f[n - 1] \in S
        OBVIOUS
    <2> QED BY <2>1, <2>2
<1>4. f = [n \in Nat |-> IF n = 0 THEN s ELSE GcdCall(f[n - 1])]
    BY <1>2, <1>3
<1> QED BY <1>4

\* gcd128 returns a number that divides its arguments.
LEMMA GcdDivides ==
    ASSUME NEW x \in Nat, NEW y \in Nat, x + y > 0
    PROVE  Gcd(x, y) \in Nat \ {0} /\ Divides(Gcd(x, y), x) /\ Divides(Gcd(x, y), y)
PROOF
<1> DEFINE S == {p \in Nat \X Nat : p[1] + p[2] > 0}
           Loop(f) == f = [i \in Nat |-> IF i = 0 THEN <<x, y>> ELSE GcdCall(f[i - 1])]
           call == CHOOSE f : Loop(f)
<1>1. <<x, y>> \in S /\ \A p \in S : GcdCall(p) \in S
    BY GcdCallKeeps
<1>3. PICK f : Loop(f)
    <2> HIDE DEF S
    <2> QED BY <1>1, GcdCallsAre
<1>4. Loop(call)
    <2> HIDE DEF Loop
    <2> QED BY <1>3
<1> DEFINE Kept(i) == /\ call[i] \in S /\ (call[i][2] = 0 \/ call[i][2] <= y - i)
                      /\ \A g \in Nat \ {0} : Divides(g, call[i][1]) /\ Divides(g, call[i][2])
                                                => Divides(g, x) /\ Divides(g, y)
           A == {i \in Nat : Kept(i)}
<1>5. \A i \in Nat : call[i] = IF i = 0 THEN <<x, y>> ELSE GcdCall(call[i - 1])
    <2> HIDE DEF call
    <2> QED BY <1>4
<1> HIDE DEF call
<1>6. 0 \in A
    <2>1. call[0] = <<x, y>> /\ <<x, y>>[1] = x /\ <<x, y>>[2] = y
        BY <1>5
    <2>2. call[0] \in S /\ call[0][2] <= y - 0
        BY <1>1, <2>1
    <2>3. call[0][1] = x /\ call[0][2] = y
        BY <2>1
    <2> HIDE DEF S
    <2> QED BY <2>2, <2>3
<1>7. ASSUME NEW i \in Nat, i \in A PROVE i + 1 \in A
    <2> DEFINE p == call[i]
    <2>1. call[i + 1] = GcdCall(p)
        BY <1>5
    <2>2. p \in Nat \X Nat /\ p[1] + p[2] > 0 /\ (p[2] = 0 \/ p[2] <= y - i)
        BY <1>7
    <2>3. \A g \in Nat \ {0} : Divides(g, p[1]) /\ Divides(g, p[2]) => Divides(g, x) /\ Divides(g, y)
        BY <1>7
    <2> HIDE DEF p
    <2>4. /\ GcdCall(p) \in Nat \X Nat /\ GcdCall(p)[1] + GcdCall(p)[2] > 0
          /\ GcdCall(p)[2] = 0 \/ GcdCall(p)[2] < p[2]
          /\ \A g \in Nat \ {0} : Divides(g, GcdCall(p)[1]) /\ Divides(g, GcdCall(p)[2])
                                    => Divides(g, p[1]) /\ Divides(g, p[2])
        BY <2>2, GcdCallKeeps
    <2>5. GcdCall(p)[2] = 0 \/ GcdCall(p)[2] <= y - (i + 1)
        <3>1. GcdCall(p)[2] \in Nat /\ p[2] \in Nat
            BY <2>2, <2>4
        <3>2. GcdCall(p)[2] = 0 \/ GcdCall(p)[2] < p[2]
            BY <2>4
        <3>3. GcdCall(p)[2] < p[2] => p[2] # 0
            BY <3>1
        <3> QED BY <2>2, <3>1, <3>2, <3>3
    <2>6. \A g \in Nat \ {0} : Divides(g, GcdCall(p)[1]) /\ Divides(g, GcdCall(p)[2])
                                => Divides(g, x) /\ Divides(g, y)
        BY <2>3, <2>4
    <2>7. GcdCall(p) \in S
        BY <2>4
    <2> HIDE DEF S
    <2>8. Kept(i + 1)
        BY <2>1, <2>5, <2>6, <2>7, Zenon
    <2> QED BY <2>8
<1>8. \A i \in Nat : i \in A
    <2> HIDE DEF A
    <2> QED BY <1>6, <1>7, NatSet
<1>9. Kept(y)
    BY <1>8
<1>10. Gcd(x, y) = call[y][1]
    BY DEF Gcd, call
<1> DEFINE g == call[y][1]
<1>11. g \in Nat \ {0} /\ call[y][2] = 0
    <2>1. /\ call[y] \in Nat \X Nat /\ call[y][1] + call[y][2] > 0
          /\ call[y][2] = 0 \/ call[y][2] <= y - y
        BY <1>9
    <2>2. call[y][1] \in Nat /\ call[y][2] \in Nat
        BY <2>1
    <2> DEFINE a == call[y][1]
               b == call[y][2]
    <2>3. a \in Nat /\ b \in Nat /\ a + b > 0 /\ (b = 0 \/ b <= y - y)
        BY <2>1, <2>2
    <2> HIDE DEF a, b
    <2>4. a \in Nat \ {0} /\ b = 0
        BY <2>3
    <2> QED BY <2>4 DEF a, b
<1>12. Divides(g, g) /\ Divides(g, 0)
    <2> HIDE DEF g
    <2>1. g = g * 1 /\ 0 = g * 0 /\ 1 \in Nat /\ 0 \in Nat
        BY <1>11
    <2> QED BY <2>1 DEF Divides
<1> QED BY <1>9, <1>10, <1>11, <1>12

-----------------------------------------------------------------------------
(* The configuration: what TicklessCfg::new and TickfulCfg::new guarantee.  *)

LEMMA ReducedIs ==
    ASSUME NEW a \in Nat \ {0}, NEW b \in Nat \ {0}
    PROVE  /\ Reduced(a, b).n \in Nat \ {0} /\ Reduced(a, b).d \in Nat \ {0}
           /\ \E g \in Nat \ {0} : a = g * Reduced(a, b).n /\ b = g * Reduced(a, b).d
PROOF
<1> DEFINE g == Gcd(a, b)
<1>1. g \in Nat \ {0} /\ Divides(g, a) /\ Divides(g, b)
    BY GcdDivides
<1>2. Reduced(a, b) = [n |-> a \div g, d |-> b \div g]
    BY DEF Reduced
<1> HIDE DEF g
<1>3. PICK u \in Nat, v \in Nat : a = g * u /\ b = g * v
    BY <1>1 DEF Divides
<1>4. a = u * g + 0 /\ b = v * g + 0 /\ 0 \in 0 .. g - 1 /\ u # 0 /\ v # 0
    BY <1>1, <1>3
<1>5. a \div g = u /\ b \div g = v
    BY <1>1, <1>4, DivUnique
<1> QED BY <1>1, <1>2, <1>3, <1>4, <1>5

\* n hardware ticks take as long as d OS ticks, in lowest terms or not.
Rate(o, c, n, d) ==
    /\ n \in Nat \ {0} /\ d \in Nat \ {0}
    /\ c.division = d /\ c.perMicro \in Nat /\ c.subPerMicro \in 0 .. d - 1
    /\ c.perMicro * d + c.subPerMicro = n
    /\ \E g \in Nat \ {0} : o.num = g * n /\ o.denom * MicrosPerSec = g * d

\* The periods of the counts and the longest timeout.
Limits(o, c, n, d) ==
    /\ c.hwMax \in 0 .. WordMax /\ c.osMax \in 0 .. WordMax /\ c.maxTimeout \in Nat \ {0}
    /\ c.maxTimeout * n <= (c.osMax + 1) * n - d - o.headroom * d
    /\ \/ /\ c.algorithm = "Stateless" /\ ~o.resettable /\ (o.full => c.hwMax = WordMax)
          /\ (c.hwMax + 1) * d = (c.osMax + 1) * n
       \/ /\ c.algorithm = "Stateful" /\ c.hwMax = WordMax /\ c.osMax = WordMax
          /\ c.maxTimeout * n <= (WordMax - o.headroom) * d - (d - 1)

\* A quotient that is not zero comes from a difference that is not saturated.
LEMMA SaturatedIs ==
    ASSUME NEW x \in Int, NEW y \in Int, NEW n \in Nat \ {0}, NEW z \in Int, z <= SaturatingSub(x, y),
           z \div n # 0, z >= 0
    PROVE  z \div n \in Nat \ {0} /\ (z \div n) * n <= x - y
PROOF
<1> DEFINE m == z \div n
<1>1. m \in Nat /\ m * n <= z
    <2>1. z \in Nat
        OBVIOUS
    <2>2. m \in Nat
        BY <2>1, DivNat
    <2>3. z % n \in 0 .. n - 1 /\ z = m * n + (z % n)
        BY DivIs
    <2> HIDE DEF m
    <2> QED BY <2>2, <2>3
<1>2. m # 0
    OBVIOUS
<1> HIDE DEF m
<1>3. 1 <= m /\ 1 * n <= m * n
    BY <1>1, <1>2, MulMono
<1>4. z > 0
    BY <1>1, <1>3
<1>5. z <= x - y
    BY <1>4 DEF SaturatingSub
<1>6. m \in Nat \ {0} /\ m * n <= x - y
    BY <1>1, <1>2, <1>5
<1> QED BY <1>6 DEF m

\* Both counts line up after the global period.
LEMMA GlobalPeriodIs ==
    ASSUME NEW r, r.n \in Nat \ {0}, r.d \in Nat \ {0}
    PROVE  LET p == GlobalPeriod(r)
           IN p.hw \in Nat \ {0} /\ p.os \in Nat \ {0} /\ p.hw * r.d = p.os * r.n
PROOF
<1> DEFINE p == GlobalPeriod(r)
           s == r.n % r.d
           q == r.n \div r.d
<1>1. q \in Nat /\ s \in 0 .. r.d - 1 /\ r.n = q * r.d + s
    <2>1. r.n \in Nat /\ r.n \in Int /\ r.d \in Nat \ {0}
        OBVIOUS
    <2>2. q \in Nat
        BY <2>1, DivNat
    <2>3. s \in 0 .. r.d - 1 /\ r.n = q * r.d + s
        BY <2>1, DivIs
    <2> QED BY <2>2, <2>3
<1>2. CASE s = 0
    <2>1. p = [hw |-> q, os |-> 1]
        BY <1>2 DEF GlobalPeriod, FloorRatio
    <2> HIDE DEF p, q, s
    <2>2. q # 0
        BY <1>1, <1>2
    <2>3. p.hw = q /\ p.os = 1
        BY <2>1
    <2>4. p.hw \in Nat \ {0} /\ p.os \in Nat \ {0} /\ p.hw * r.d = p.os * r.n
        BY <1>1, <1>2, <2>2, <2>3
    <2> QED BY <2>4 DEF p
<1>3. CASE s # 0
    <2> DEFINE g == Gcd(s, r.d)
    <2>1. p = [hw |-> r.n \div g, os |-> r.d \div g]
        BY <1>3 DEF GlobalPeriod
    <2>2. p.hw = r.n \div g /\ p.os = r.d \div g
        BY <2>1
    <2> HIDE DEF p, q, s
    <2>3. s \in Nat /\ s + r.d > 0
        BY <1>1
    <2>4. g \in Nat \ {0} /\ Divides(g, s) /\ Divides(g, r.d)
        BY <2>3, GcdDivides
    <2> HIDE DEF g
    <2>5. PICK u \in Nat, v \in Nat : s = g * u /\ r.d = g * v
        BY <2>4 DEF Divides
    <2> DEFINE w == q * v + u
    <2>6. w \in Nat /\ r.n = w * g + 0 /\ r.d = v * g + 0 /\ 0 \in 0 .. g - 1
        BY <1>1, <2>4, <2>5
    <2> HIDE DEF w
    <2>7. r.n \div g = w /\ r.d \div g = v
        BY <2>4, <2>6, DivUnique
    <2>8. w # 0 /\ v # 0
        <3>1. r.n # 0 /\ r.d # 0 /\ 0 * g = 0
            BY <2>4
        <3>2. w = 0 => r.n = 0
            BY <2>4, <2>6
        <3>3. v = 0 => r.d = 0
            BY <2>4, <2>6
        <3> QED BY <3>1, <3>2, <3>3
    <2>9. w * r.d = v * r.n
        <3>1. r.n = w * g /\ r.d = v * g
            BY <2>4, <2>6
        <3>2. w * (v * g) = v * (w * g)
            BY <2>4, <2>6
        <3> QED BY <3>1, <3>2
    <2>10. p.hw \in Nat \ {0} /\ p.os \in Nat \ {0} /\ p.hw * r.d = p.os * r.n
        BY <2>2, <2>5, <2>6, <2>7, <2>8, <2>9
    <2> QED BY <2>10 DEF p
<1> QED BY <1>2, <1>3
\* TicklessCfg::new fails, or returns the rate and periods and a timeout that fit.
LEMMA TicklessIs ==
    ASSUME NEW o, o.num \in Nat, o.denom \in Nat, o.headroom \in Nat, TicklessCfg(o).err = "none"
    PROVE  \E n, d \in Nat \ {0} : Rate(o, TicklessCfg(o), n, d) /\ Limits(o, TicklessCfg(o), n, d)
PROOF
<1> DEFINE c == TicklessCfg(o)
           D == o.denom * MicrosPerSec
           r == Reduced(o.num, D)
           p == GlobalPeriod(r)
           repeat == Least(Word \div p.hw, Word \div p.os)
           stateless == Ticks(r, "Stateless", p.hw * repeat - 1, p.os * repeat - 1,
                              TimeoutWithinOs(o, r, p.os * repeat - 1) \div r.n)
           stateful == Ticks(r, "Stateful", WordMax, WordMax,
                             Least(TimeoutWithinHw(o, r), TimeoutWithinOs(o, r, WordMax)) \div r.n)
<1>1. /\ o.denom # 0 /\ o.num # 0
      /\ (StatelessFits(o, p) /\ c = stateless) \/ (~StatelessFits(o, p) /\ c = stateful)
    <2>1. "FreqDenomZero" # "none" /\ "FreqNumZero" # "none" /\ "FreqTooHigh" # "none" /\ "InternalOverflow" # "none"
        OBVIOUS
    <2>2. c.err = "none"
        OBVIOUS
    <2> HIDE DEF stateless, stateful, p, r
    <2>3. CASE o.denom = 0
        <3>1. c = CfgError("FreqDenomZero")
            BY <2>3 DEF TicklessCfg
        <3> HIDE DEF c
        <3> QED BY <2>1, <2>2, <3>1 DEF CfgError
    <2>4. CASE o.denom # 0 /\ o.num = 0
        <3>1. c = CfgError("FreqNumZero")
            BY <2>4 DEF TicklessCfg
        <3> HIDE DEF c
        <3> QED BY <2>1, <2>2, <3>1 DEF CfgError
    <2>5. CASE o.denom # 0 /\ o.num # 0
        <3>1. c = IF FloorRatio(r) > WordMax THEN CfgError("FreqTooHigh")
                  ELSE IF r.d > Word * Word - 1 THEN CfgError("InternalOverflow")
                  ELSE IF StatelessFits(o, p) THEN stateless ELSE stateful
            BY <2>5 DEF TicklessCfg, stateless, stateful, p, r
        <3> HIDE DEF c
        <3>2. CfgError("FreqTooHigh").err # "none" /\ CfgError("InternalOverflow").err # "none"
            BY <2>1 DEF CfgError
        <3> QED BY <2>2, <2>5, <3>1, <3>2
    <2> QED BY <2>3, <2>4, <2>5
<1>2. o.num \in Nat \ {0} /\ D \in Nat \ {0}
    <2>1. o.denom \in Nat \ {0} /\ MicrosPerSec \in Nat \ {0}
        BY <1>1, TicklessAssumption
    <2> QED BY <1>1, <2>1
<1>3. /\ r.n \in Nat \ {0} /\ r.d \in Nat \ {0}
      /\ \E g \in Nat \ {0} : o.num = g * r.n /\ D = g * r.d
    BY <1>2, ReducedIs
<1>4. p.hw \in Nat \ {0} /\ p.os \in Nat \ {0} /\ p.hw * r.d = p.os * r.n
    BY <1>3, GlobalPeriodIs
<1>5. Word \in Nat /\ Word > 1 /\ WordMax = Word - 1
    BY TicklessAssumption DEF WordMax
<1> DEFINE n == r.n
           d == r.d
           h == o.headroom
<1> HIDE DEF r, p, c
\* What Ticks returns.
<1>6. ASSUME NEW a, NEW hw, NEW os, NEW m, c = Ticks(r, a, hw, os, m)
      PROVE  /\ m # 0 /\ c.algorithm = a /\ c.hwMax = hw /\ c.osMax = os /\ c.maxTimeout = m
             /\ c.perMicro = n \div d /\ c.subPerMicro = n % d /\ c.division = d
    <2>1. m # 0
        <3>1. c.err = "none"
            BY DEF c
        <3>2. m = 0 => c = CfgError("OSMaxTimeoutTooLow")
            BY <1>6 DEF Ticks
        <3>3. CfgError("OSMaxTimeoutTooLow").err # "none"
            BY DEF CfgError
        <3> QED BY <3>1, <3>2, <3>3
    <2>2. c = [err |-> "none", perMicro |-> n \div d, subPerMicro |-> n % d, division |-> d,
               algorithm |-> a, hwMax |-> hw, osMax |-> os, maxTimeout |-> m]
        BY <1>6, <2>1 DEF Ticks, FloorRatio
    <2> HIDE DEF n, d
    <2> QED BY <2>1, <2>2
\* The timeouts.
<1>7. ASSUME NEW max \in Nat
      PROVE  /\ TimeoutWithinOs(o, r, max) \in Nat
             /\ TimeoutWithinOs(o, r, max) = SaturatingSub(max * n + n - 1, d - 1 + h * d)
             /\ max * n + n - 1 \in Int /\ d - 1 + h * d \in Int
             /\ (max * n + n - 1) - (d - 1 + h * d) = (max + 1) * n - d - h * d
    <2>1. n \in Nat /\ d \in Nat
        BY <1>3
    <2>2. TimeoutWithinOs(o, r, max) = SaturatingSub(max * n + n - 1, d - 1 + h * d)
        BY DEF TimeoutWithinOs
    <2> HIDE DEF n, d, h
    <2>3. h \in Nat
        BY DEF h
    <2>4. max * n \in Int /\ h * d \in Int
        BY <2>1, <2>3
    <2> QED BY <2>1, <2>2, <2>3, <2>4 DEF SaturatingSub
<1>8. /\ TimeoutWithinHw(o, r) \in Nat
      /\ TimeoutWithinHw(o, r) = SaturatingSub((WordMax - h) * d, d - 1)
      /\ (WordMax - h) * d \in Int /\ d - 1 \in Int
    <2>1. d \in Nat /\ WordMax \in Int
        BY <1>3, <1>5
    <2>2. TimeoutWithinHw(o, r) = SaturatingSub((WordMax - h) * d, d - 1)
        BY DEF TimeoutWithinHw
    <2> HIDE DEF d, h
    <2>3. h \in Nat
        BY DEF h
    <2>4. (WordMax - h) * d \in Int
        BY <2>1, <2>3
    <2> QED BY <2>1, <2>2, <2>3, <2>4 DEF SaturatingSub
<1>9. n \div d \in Nat /\ n % d \in 0 .. d - 1 /\ (n \div d) * d + (n % d) = n
    <2>1. n \in Nat /\ n \in Int /\ d \in Nat \ {0}
        BY <1>3
    <2> QED BY <2>1, DivIs, DivNat
<1>10. c.division = d /\ c.perMicro = n \div d /\ c.subPerMicro = n % d
    BY <1>1, <1>6
<1>11. Rate(o, c, n, d)
    BY <1>3, <1>9, <1>10 DEF Rate
<1>12. CASE StatelessFits(o, p) /\ c = stateless
    <2> DEFINE H == p.hw * repeat
               K == p.os * repeat
               os == K - 1
               z == TimeoutWithinOs(o, r, os)
    <2>1. repeat \in Nat \ {0} /\ p.hw * repeat <= Word /\ p.os * repeat <= Word
        <3> DEFINE u == Word \div p.hw
                   v == Word \div p.os
        <3>1. Word \in Int /\ 1 \in Int /\ 1 * p.hw <= Word /\ 1 * p.os <= Word
            BY <1>4, <1>5, <1>12 DEF StatelessFits
        <3>2. 1 <= u /\ 1 <= v
            BY <1>4, <3>1, DivAtLeast
        <3>3. u \in Nat /\ v \in Nat
            BY <1>4, <1>5, DivNat
        <3>4. u * p.hw <= Word /\ v * p.os <= Word
            BY <1>4, <3>1, <3>3, DivAtLeast
        <3>5. repeat = u \/ repeat = v
            BY DEF Least
        <3>6. repeat <= u /\ repeat <= v
            BY <3>3 DEF Least
        <3> HIDE DEF u, v, repeat
        <3>7. repeat \in Nat \ {0}
            BY <3>2, <3>3, <3>5
        <3>8. repeat * p.hw <= u * p.hw
            BY <1>4, <3>3, <3>6, <3>7, MulMono
        <3>9. repeat * p.os <= v * p.os
            BY <1>4, <3>3, <3>6, <3>7, MulMono
        <3>10. p.hw * repeat = repeat * p.hw /\ p.os * repeat = repeat * p.os
            BY <1>4, <3>7
        <3>11. repeat * p.hw \in Int /\ u * p.hw \in Int /\ repeat * p.os \in Int /\ v * p.os \in Int
            BY <1>4, <3>3, <3>7
        <3>12. p.hw * repeat <= Word
            BY <1>5, <3>4, <3>8, <3>10, <3>11
        <3>13. p.os * repeat <= Word
            BY <1>5, <3>4, <3>9, <3>10, <3>11
        <3> QED BY <3>7, <3>12, <3>13
    <2> HIDE DEF repeat
    <2>2. H \in Nat \ {0} /\ K \in Nat \ {0}
        BY <1>4, <2>1
    <2>3. H * d = K * n
        <3>1. H * d = (p.hw * d) * repeat /\ K * n = (p.os * n) * repeat
            BY <1>3, <1>4, <2>1
        <3> QED BY <1>4, <3>1
    <2>4. c = Ticks(r, "Stateless", H - 1, os, z \div n)
        BY <1>12
    <2>5. z \div n # 0 /\ c.algorithm = "Stateless" /\ c.hwMax = H - 1 /\ c.osMax = os /\ c.maxTimeout = z \div n
        BY <1>6, <2>4
    <2> HIDE DEF H, K
    <2>6. os \in Nat /\ os + 1 = K /\ H <= Word /\ K <= Word
        BY <2>1, <2>2 DEF H, K
    <2>7. /\ z \in Nat /\ z = SaturatingSub(os * n + n - 1, d - 1 + h * d)
          /\ os * n + n - 1 \in Int /\ d - 1 + h * d \in Int
          /\ (os * n + n - 1) - (d - 1 + h * d) = (os + 1) * n - d - h * d
        BY <1>7, <2>6
    <2> HIDE DEF os, z
    <2>8. z \div n \in Nat \ {0} /\ (z \div n) * n <= (os + 1) * n - d - h * d
        <3>1. z \in Int /\ z >= 0 /\ z <= SaturatingSub(os * n + n - 1, d - 1 + h * d) /\ n \in Nat \ {0}
            BY <1>3, <2>7
        <3>2. z \div n \in Nat \ {0} /\ (z \div n) * n <= (os * n + n - 1) - (d - 1 + h * d)
            BY <2>5, <2>7, <3>1, SaturatedIs
        <3> QED BY <2>7, <3>2
    <2>9. o.full => H = Word
        <3> SUFFICES ASSUME o.full PROVE H = Word
            OBVIOUS
        <3>1. Word % p.hw = 0 /\ p.hw >= p.os
            BY <1>12 DEF StatelessFits
        <3> DEFINE u == Word \div p.hw
                   v == Word \div p.os
        <3>2. u \in Nat /\ v \in Nat /\ Word = u * p.hw
            <4>1. u \in Nat /\ v \in Nat
                BY <1>4, <1>5, DivNat
            <4>2. Word \in Int
                BY <1>5
            <4>3. Word = u * p.hw + (Word % p.hw)
                BY <1>4, <4>2, DivIs
            <4> HIDE DEF u
            <4> QED BY <1>4, <3>1, <4>1, <4>3
        <3>3. u <= v
            <4>1. u * p.os <= u * p.hw
                <5>1. p.os * u <= p.hw * u
                    BY <1>4, <3>1, <3>2, MulMono
                <5> QED BY <1>4, <3>2, <5>1
            <4>2. u * p.os <= Word
                BY <3>2, <4>1
            <4> QED BY <1>4, <1>5, <3>2, <4>2, DivAtLeast
        <3>4. repeat = u
            BY <3>2, <3>3 DEF repeat, Least
        <3> HIDE DEF u
        <3> QED BY <1>4, <3>2, <3>4 DEF H
    <2>10. ~o.resettable
        BY <1>12 DEF StatelessFits
    <2>11. c.hwMax + 1 = H /\ c.hwMax \in 0 .. WordMax /\ c.osMax \in 0 .. WordMax /\ (H = Word => c.hwMax = WordMax)
        BY <1>5, <2>2, <2>5, <2>6
    <2>12. c.maxTimeout \in Nat \ {0} /\ c.maxTimeout * n <= (c.osMax + 1) * n - d - o.headroom * d
        BY <2>5, <2>8
    <2>13. (c.hwMax + 1) * d = (c.osMax + 1) * n
        BY <2>3, <2>5, <2>6, <2>11
    <2>14. Limits(o, c, n, d)
        BY <2>5, <2>9, <2>10, <2>11, <2>12, <2>13 DEF Limits
    <2> QED BY <1>3, <1>11, <2>14 DEF c
<1>13. CASE ~StatelessFits(o, p) /\ c = stateful
    <2> DEFINE x == TimeoutWithinHw(o, r)
               y == TimeoutWithinOs(o, r, WordMax)
               z == Least(x, y)
    <2>1. c = Ticks(r, "Stateful", WordMax, WordMax, z \div n)
        BY <1>13
    <2>2. z \div n # 0 /\ c.algorithm = "Stateful" /\ c.hwMax = WordMax /\ c.osMax = WordMax /\ c.maxTimeout = z \div n
        BY <1>6, <2>1
    <2>3. WordMax \in Nat
        BY <1>5
    <2>4. /\ y \in Nat /\ y = SaturatingSub(WordMax * n + n - 1, d - 1 + h * d)
          /\ WordMax * n + n - 1 \in Int /\ d - 1 + h * d \in Int
          /\ (WordMax * n + n - 1) - (d - 1 + h * d) = (WordMax + 1) * n - d - h * d
        BY <1>7, <2>3
    <2> HIDE DEF x, y
    <2>5. z \in Int /\ z >= 0 /\ z <= x /\ z <= y
        BY <1>8, <2>4 DEF Least, x
    <2> HIDE DEF z
    <2>6. n \in Nat \ {0}
        BY <1>3
    <2>7. z \div n \in Nat \ {0} /\ (z \div n) * n <= (WordMax * n + n - 1) - (d - 1 + h * d)
        <3>1. z <= SaturatingSub(WordMax * n + n - 1, d - 1 + h * d)
            BY <2>4, <2>5
        <3> QED BY <2>2, <2>4, <2>5, <2>6, <3>1, SaturatedIs
    <2>8. (z \div n) * n <= (WordMax - h) * d - (d - 1)
        <3>1. z <= SaturatingSub((WordMax - h) * d, d - 1)
            BY <1>8, <2>5 DEF x
        <3> QED BY <1>8, <2>2, <2>5, <2>6, <3>1, SaturatedIs
    <2>9. WordMax \in 0 .. WordMax
        BY <2>3
    <2>10. Limits(o, c, n, d)
        BY <2>2, <2>4, <2>7, <2>8, <2>9 DEF Limits
    <2> QED BY <1>3, <1>11, <2>10 DEF c
<1> QED BY <1>1, <1>12, <1>13

-----------------------------------------------------------------------------
(* The stateful core: n hardware ticks take as long as d OS ticks.  The    *)
(* reference point is at the os-th OS tick.                                *)

RefAt(ref, base, os, n, d) ==
    /\ ref.os = os % Word /\ ref.sub = (os * n) % d
    /\ ref.hw = (base + ((os * n) \div d)) % Word

\* The os-th OS tick and the x-th hardware tick.
OsTick(os, x, n, d) ==
    /\ (os * n) \div d \in Nat /\ (os * n) % d \in 0 .. d - 1
    /\ os * n = ((os * n) \div d) * d + ((os * n) % d)
    /\ (x * d) \div n \in Nat
    /\ os <= (x * d) \div n <=> os * n <= x * d
    /\ os * n <= x * d => (os * n) \div d <= x
    /\ (x * d - os * n) \div n = ((x * d) \div n) - os

LEMMA OsTickIs ==
    ASSUME NEW n \in Nat \ {0}, NEW d \in Nat \ {0}, NEW os \in Nat, NEW x \in Nat
    PROVE  OsTick(os, x, n, d)
PROOF
<1> DEFINE y == os * n
           z == x * d
<1>1. y \in Nat /\ z \in Nat /\ y \in Int /\ z \in Int
    OBVIOUS
<1>2. os <= z \div n <=> y <= z
    BY <1>1, DivAtLeast
<1> HIDE DEF y, z
<1>3. y \div d \in Nat /\ z \div n \in Nat /\ y % d \in 0 .. d - 1 /\ y = (y \div d) * d + (y % d)
    BY <1>1, DivIs, DivNat
<1>4. y <= z => y \div d <= x
    <2>1. z = x * d + 0 /\ 0 \in 0 .. d - 1 /\ x \in Int
        BY DEF z
    <2>2. z \div d = x
        BY <1>1, <2>1, DivUnique
    <2>3. y <= z => y \div d <= z \div d
        BY <1>1, DivMono
    <2> QED BY <2>2, <2>3
<1>5. (z - y) \div n = (z \div n) - os
    <2>1. -os \in Int /\ z + (-os) * n = z - y
        BY <1>1 DEF y
    <2>2. (z + (-os) * n) \div n = (z \div n) + (-os)
        BY <1>1, <2>1, DivPlus, Zenon
    <2>3. (z \div n) + (-os) = (z \div n) - os
        BY <1>3
    <2> QED BY <2>1, <2>2, <2>3, Zenon
<1> QED BY <1>2, <1>3, <1>4, <1>5 DEF OsTick, y, z

LEMMA WordIs == Word \in Nat \ {0} /\ Word > 1 /\ WordMax = Word - 1 /\ WordMax \in Nat
PROOF
BY TicklessAssumption DEF WordMax

\* Differences of wrapping counts, less than a revolution apart.
LEMMA WrappedGap ==
    ASSUME NEW x \in Int, NEW z \in Int, z <= x, x - z <= WordMax
    PROVE  Wrap32((x % Word) - (z % Word)) = x - z
PROOF
<1>1. ((x % Word) - (z % Word)) % Word = (x - z) % Word
    BY WordIs, ModSum
<1>2. x - z \in 0 .. Word - 1
    BY WordIs
<1>3. (x - z) % Word = x - z
    BY <1>2, WordIs, ModSmall
<1> QED BY <1>1, <1>3 DEF Wrap32

\* tick_count: the time, as long as no revolution goes by.
LEMMA StatefulCount ==
    ASSUME NEW o, NEW c, NEW n, NEW d, Rate(o, c, n, d),
           NEW base \in Nat, NEW os \in Nat, NEW x \in Nat, NEW ref, RefAt(ref, base, os, n, d),
           os * n <= x * d, x - ((os * n) \div d) <= WordMax
    PROVE  TickCountStateful(c, ref, (base + x) % Word) = ((x * d) \div n) % Word
PROOF
<1> DEFINE a == (os * n) \div d
           b == (os * n) % d
           t == (x * d) \div n
<1>1. n \in Nat \ {0} /\ d \in Nat \ {0} /\ c.division = d /\ c.perMicro * d + c.subPerMicro = n
    BY DEF Rate
<1>2. /\ a \in Nat /\ b \in 0 .. d - 1 /\ os * n = a * d + b
      /\ t \in Nat /\ a <= x /\ (x * d - os * n) \div n = t - os
    <2>1. OsTick(os, x, n, d)
        BY <1>1, OsTickIs
    <2> QED BY <2>1 DEF OsTick
<1>3. ref.os = os % Word /\ ref.sub = b /\ ref.hw = (base + a) % Word
    BY DEF RefAt
<1> HIDE DEF a, b, t
<1>4. Wrap32(((base + x) % Word) - ref.hw) = x - a
    <2>1. base + x \in Int /\ base + a \in Int /\ base + a <= base + x /\ (base + x) - (base + a) = x - a
          /\ x - a <= WordMax
        BY <1>2 DEF a
    <2>2. Wrap32(((base + x) % Word) - ((base + a) % Word)) = (base + x) - (base + a)
        BY <2>1, WrappedGap
    <2> QED BY <1>3, <2>1, <2>2
<1>5. ((x - a) * d - b) \div n = t - os
    <2>1. (x - a) * d - b = x * d - os * n
        BY <1>1, <1>2
    <2> QED BY <1>2, <2>1
<1>6. TickCountStateful(c, ref, (base + x) % Word) = Wrap32((os % Word) + (t - os))
    BY <1>1, <1>3, <1>4, <1>5 DEF TickCountStateful
<1>7. ((os % Word) + (t - os)) % Word = (os + (t - os)) % Word
    <2>1. os \in Int /\ t - os \in Int
        BY <1>2
    <2> QED BY <2>1, WordIs, ModSum
<1>8. os + (t - os) = t
    BY <1>2
<1> QED BY <1>6, <1>7, <1>8 DEF Wrap32, t

\* mark_reference: the reference point moves to the last OS tick, with no drift.
LEMMA StatefulMark ==
    ASSUME NEW o, NEW c, NEW n, NEW d, Rate(o, c, n, d),
           NEW base \in Nat, NEW os \in Nat, NEW x \in Nat, NEW ref, RefAt(ref, base, os, n, d),
           os * n <= x * d, x - ((os * n) \div d) <= WordMax, ((x * d) \div n) - os <= WordMax
    PROVE  RefAt(MarkStateful(c, ref, (base + x) % Word), base, (x * d) \div n, n, d)
PROOF
<1> DEFINE a == (os * n) \div d
           b == (os * n) % d
           t == (x * d) \div n
           m == MarkStateful(c, ref, (base + x) % Word)
           k == t - os
           s == b + c.subPerMicro * k
<1>1. /\ n \in Nat \ {0} /\ d \in Nat \ {0} /\ c.division = d /\ c.perMicro * d + c.subPerMicro = n
      /\ c.perMicro \in Nat /\ c.subPerMicro \in Nat
    BY DEF Rate
<1>2. a \in Nat /\ b \in 0 .. d - 1 /\ os * n = a * d + b /\ t \in Nat /\ os <= t
    <2>1. OsTick(os, x, n, d)
        BY <1>1, OsTickIs
    <2> QED BY <2>1 DEF OsTick
<1>3. ref.os = os % Word /\ ref.sub = b /\ ref.hw = (base + a) % Word
    BY DEF RefAt
<1>4. TickCountStateful(c, ref, (base + x) % Word) = t % Word
    BY StatefulCount
<1>5. k \in Nat /\ k <= WordMax
    BY <1>2
<1>6. Wrap32((t % Word) - ref.os) = k
    <2>1. t \in Int /\ os \in Int /\ os <= t /\ t - os <= WordMax
        BY <1>2
    <2> HIDE DEF t
    <2> QED BY <1>3, <2>1, WrappedGap
<1>7. m = [os |-> t % Word, hw |-> Wrap32(ref.hw + k * c.perMicro + (s \div (d - 1 + 1))),
           sub |-> s % (d - 1 + 1)]
    <2> HIDE DEF t, b
    <2> QED BY <1>1, <1>3, <1>4, <1>6 DEF MarkStateful, WrappingAdd
<1> HIDE DEF m, a, b, t, k, s
<1>8. d - 1 + 1 = d
    BY <1>1
<1> DEFINE q == s \div d
           r == s % d
<1>9. s \in Nat
    <2>1. c.subPerMicro * k \in Nat
        BY <1>1, <1>5
    <2> QED BY <1>2, <2>1 DEF s
<1>10. q \in Nat /\ r \in 0 .. d - 1 /\ s = q * d + r
    <2>1. q \in Nat
        BY <1>1, <1>9, DivNat
    <2>2. r \in 0 .. d - 1 /\ s = q * d + r
        <3>1. s \in Int
            BY <1>9
        <3> QED BY <1>1, <3>1, DivIs, Zenon
    <2> QED BY <2>1, <2>2
<1>11. m.os = t % Word /\ m.hw = (ref.hw + k * c.perMicro + q) % Word /\ m.sub = r
    BY <1>7, <1>8 DEF Wrap32
<1> HIDE DEF q, r
<1>12. t * n = (a + k * c.perMicro + q) * d + r
    <2>1. t = os + k
        BY <1>2 DEF k
    <2>2. t * n = os * n + k * n
        BY <1>1, <1>2, <1>5, <2>1
    <2>3. k * n = k * c.perMicro * d + c.subPerMicro * k
        <3>1. k * (c.perMicro * d + c.subPerMicro) = k * c.perMicro * d + c.subPerMicro * k
            BY <1>1, <1>5
        <3> QED BY <1>1, <3>1, Zenon
    <2>4. os * n + k * n = a * d + k * c.perMicro * d + s
        <3>1. /\ os * n \in Int /\ a * d \in Int /\ b \in Int /\ k * c.perMicro * d \in Int
              /\ c.subPerMicro * k \in Int
            BY <1>1, <1>2, <1>5
        <3> QED BY <1>2, <2>3, <3>1 DEF s
    <2>5. a * d + k * c.perMicro * d + s = (a + k * c.perMicro + q) * d + r
        BY <1>1, <1>2, <1>5, <1>10
    <2> QED BY <2>2, <2>4, <2>5
<1> DEFINE w == a + k * c.perMicro + q
<1>13. w \in Nat /\ ref.hw + k * c.perMicro + q = ref.hw + (k * c.perMicro + q)
       /\ k * c.perMicro + q \in Nat /\ base + w = (base + a) + (k * c.perMicro + q)
    <2>1. k * c.perMicro \in Nat
        BY <1>1, <1>5
    <2>2. ref.hw \in Int
        BY <1>2, <1>3, WordIs, DivIs
    <2> QED BY <1>2, <1>10, <2>1, <2>2
<1>14. (t * n) \div d = w /\ (t * n) % d = r
    <2>1. t * n \in Int /\ w \in Int /\ t * n = w * d + r
        BY <1>1, <1>2, <1>12, <1>13
    <2> HIDE DEF w
    <2> QED BY <1>1, <1>10, <2>1, DivUnique
<1> HIDE DEF w
<1>15. m.hw = (base + w) % Word
    <2> DEFINE u == k * c.perMicro + q
    <2>1. base + a \in Int /\ u \in Int
        BY <1>2, <1>13
    <2>2. (((base + a) % Word) + u) % Word = ((base + a) + u) % Word
        BY <2>1, WordIs, ModSum
    <2> QED BY <1>3, <1>11, <1>13, <2>2
<1>16. m.os = t % Word /\ m.sub = (t * n) % d /\ m.hw = (base + ((t * n) \div d)) % Word
    BY <1>11, <1>14, <1>15
<1> QED BY <1>16 DEF RefAt, m, t

\* hw_tick_count: the hardware tick at which the count is os + m, no revolution away.
LEMMA StatefulHwTick ==
    ASSUME NEW o, NEW c, NEW n, NEW d, Rate(o, c, n, d),
           NEW base \in Nat, NEW os \in Nat, NEW m \in Nat, m <= WordMax,
           NEW ref, RefAt(ref, base, os, n, d)
    PROVE  HwTickStateful(c, ref, (os + m) % Word) = (base + CeilDiv((os + m) * n, d)) % Word
PROOF
<1> DEFINE a == (os * n) \div d
           b == (os * n) % d
           e == b + m * n
           u == CeilDiv(e, d)
<1>1. n \in Nat \ {0} /\ d \in Nat \ {0} /\ c.division = d /\ c.perMicro * d + c.subPerMicro = n
    BY DEF Rate
<1>2. a \in Nat /\ b \in 0 .. d - 1 /\ os * n = a * d + b
    <2>1. OsTick(os, 0, n, d)
        BY <1>1, OsTickIs
    <2> QED BY <2>1 DEF OsTick
<1>3. ref.os = os % Word /\ ref.sub = b /\ ref.hw = (base + a) % Word
    BY DEF RefAt
<1>4. Wrap32(((os + m) % Word) - ref.os) = m
    <2>1. os + m \in Int /\ os \in Int /\ os <= os + m /\ (os + m) - os <= WordMax /\ (os + m) - os = m
        BY WordIs
    <2>2. Wrap32(((os + m) % Word) - (os % Word)) = (os + m) - os
        BY <2>1, WrappedGap
    <2> QED BY <1>3, <2>1, <2>2
<1> HIDE DEF a, b
<1>5. HwTickStateful(c, ref, (os + m) % Word) = (ref.hw + u) % Word
    BY <1>1, <1>3, <1>4 DEF HwTickStateful, Wrap32
<1>6. e \in Nat /\ (os + m) * n = e + a * d
    <2>1. m * n \in Nat /\ a * d \in Nat /\ (os + m) * n = os * n + m * n
        BY <1>1, <1>2
    <2> QED BY <1>2, <2>1
<1> HIDE DEF e
<1>7. CeilDiv((os + m) * n, d) = u + a
    <2>1. CeilDiv(e + a * d, d) = u + a
        BY <1>1, <1>2, <1>6, CeilPlus
    <2> QED BY <1>6, <2>1
<1>8. u \in Nat
    BY <1>1, <1>6, CeilIs
<1> HIDE DEF u
<1>9. (((base + a) % Word) + u) % Word = ((base + a) + u) % Word
    <2>1. base + a \in Int /\ u \in Int
        BY <1>2, <1>8
    <2> QED BY <2>1, WordIs, ModSum
<1>10. (base + a) + u = base + (u + a)
    BY <1>2, <1>8
<1> QED BY <1>3, <1>5, <1>7, <1>9, <1>10

-----------------------------------------------------------------------------
(* The stateless core: hw hardware ticks take as long as os OS ticks.      *)

LEMMA StatelessCount ==
    ASSUME NEW o, NEW c, NEW n, NEW d, Rate(o, c, n, d),
           NEW hw \in Nat \ {0}, NEW os \in Nat \ {0}, hw * d = os * n, NEW x \in Nat
    PROVE  TickCountStateless(c, x % hw) = ((x * d) \div n) % os
PROOF
<1> DEFINE q == x \div hw
           r == x % hw
           t == (r * d) \div n
<1>1. /\ n \in Nat \ {0} /\ d \in Nat \ {0} /\ c.division = d /\ c.perMicro * d + c.subPerMicro = n
    BY DEF Rate
<1>2. q \in Nat /\ r \in 0 .. hw - 1 /\ x = q * hw + r
    <2>1. q \in Nat
        BY DivNat
    <2>2. x \in Int
        OBVIOUS
    <2>3. r \in 0 .. hw - 1 /\ x = q * hw + r
        BY <2>2, DivIs
    <2> QED BY <2>1, <2>3
<1> HIDE DEF q, r
<1>3. r * d \in Nat /\ r * d < os * n
    <2>1. r + 1 <= hw /\ r + 1 \in Int
        BY <1>2
    <2>2. (r + 1) * d <= hw * d
        BY <1>1, <2>1, MulMono
    <2>3. r * d \in Nat /\ (r + 1) * d = r * d + d
        BY <1>1, <1>2
    <2> QED BY <1>1, <2>2, <2>3
<1>4. t \in 0 .. os - 1
    <2> DEFINE y == r * d
    <2>1. y \in Nat /\ y \in Int /\ os \in Int /\ y < os * n
        BY <1>3
    <2> HIDE DEF y
    <2>2. y \div n \in Nat
        BY <1>1, <2>1, DivNat
    <2>3. os <= y \div n <=> os * n <= y
        BY <1>1, <2>1, DivAtLeast
    <2>4. ~(os * n <= y)
        BY <1>1, <2>1
    <2>5. y \div n \in 0 .. os - 1
        BY <2>2, <2>3, <2>4
    <2> QED BY <2>5 DEF y
<1>5. x * d = r * d + (q * os) * n
    <2>1. x * d = r * d + q * (hw * d)
        BY <1>1, <1>2
    <2>2. q * (os * n) = (q * os) * n
        BY <1>1, <1>2
    <2> QED BY <2>1, <2>2
<1>6. (x * d) \div n = t + q * os
    <2>1. r * d \in Int /\ q * os \in Int
        BY <1>2, <1>3
    <2>2. (r * d + (q * os) * n) \div n = ((r * d) \div n) + q * os
        BY <1>1, <2>1, DivPlus, Zenon
    <2> QED BY <1>5, <2>2, Zenon
<1> HIDE DEF t
<1>7. (t + q * os) % os = t
    <2>1. t \in Int /\ q \in Int
        BY <1>2, <1>4
    <2>2. (t + q * os) % os = t % os
        BY <2>1, DivPlus, Zenon
    <2>3. t % os = t
        BY <1>4, ModSmall
    <2> QED BY <2>2, <2>3, Zenon
<1>8. TickCountStateless(c, r) = t
    BY <1>1 DEF TickCountStateless, t
<1> QED BY <1>6, <1>7, <1>8 DEF r

LEMMA StatelessHwTick ==
    ASSUME NEW o, NEW c, NEW n, NEW d, Rate(o, c, n, d), c.hwMax \in 0 .. WordMax,
           NEW os \in Nat \ {0}, (c.hwMax + 1) * d = os * n, NEW y \in Nat
    PROVE  HwTickStateless(c, y % os) = CeilDiv(y * n, d) % (c.hwMax + 1)
PROOF
<1> DEFINE q == y \div os
           r == y % os
           hw == c.hwMax + 1
           p == c.perMicro
           s == c.subPerMicro
           u == CeilDiv(r * n, d)
<1>1. /\ n \in Nat \ {0} /\ d \in Nat \ {0} /\ c.division = d /\ p * d + s = n
      /\ p \in Nat /\ s \in Nat
    BY DEF Rate
<1>2. q \in Nat /\ r \in 0 .. os - 1 /\ y = q * os + r
    <2>1. q \in Nat
        BY DivNat
    <2>2. y \in Int
        OBVIOUS
    <2>3. r \in 0 .. os - 1 /\ y = q * os + r
        BY <2>2, DivIs
    <2> QED BY <2>1, <2>3
<1>3. hw \in Nat \ {0} /\ hw * d = os * n /\ hw <= Word
    BY WordIs
<1>4. HwTickStateless(c, r) = LET w == Wrap32(r * p + CeilDiv(r * s, d))
                              IN IF hw # Word /\ w = hw THEN 0 ELSE w
    <2>1. c.hwMax # WordMax <=> hw # Word
        BY WordIs
    <2> HIDE DEF hw, r
    <2>2. HwTickStateless(c, r) = LET w == Wrap32(r * p + CeilDiv(r * s, d))
                                  IN IF c.hwMax # WordMax /\ w = c.hwMax + 1 THEN 0 ELSE w
        BY <1>1 DEF HwTickStateless
    <2> QED BY <2>1, <2>2 DEF hw
<1> HIDE DEF q, r, p, s, hw
<1>5. r * p + CeilDiv(r * s, d) = u
    <2>1. r * s \in Nat /\ r * p \in Nat /\ d \in Nat \ {0}
        BY <1>1, <1>2
    <2>2. CeilDiv(r * s + (r * p) * d, d) = CeilDiv(r * s, d) + r * p
        BY <2>1, CeilPlus, Zenon
    <2>3. r * n = r * s + (r * p) * d
        <3>1. r * (p * d + s) = r * s + (r * p) * d
            BY <1>1, <1>2
        <3> QED BY <1>1, <3>1, Zenon
    <2>4. CeilDiv(r * s, d) \in Nat
        BY <1>1, <2>1, CeilIs
    <2>5. CeilDiv(r * s, d) + r * p = r * p + CeilDiv(r * s, d)
        BY <2>1, <2>4
    <2> QED BY <2>2, <2>3, <2>5, Zenon
<1>6. u \in Nat /\ u <= hw
    <2> DEFINE z == r * n
    <2>1. z \in Nat
        BY <1>1, <1>2
    <2>2. z <= hw * d
        <3>1. r <= os /\ r \in Int /\ os \in Int
            BY <1>2
        <3>2. r * n <= os * n
            BY <1>1, <3>1, MulMono
        <3> QED BY <1>3, <3>2
    <2> HIDE DEF z
    <2>3. CeilDiv(z, d) \in Nat /\ (CeilDiv(z, d) <= hw <=> z <= hw * d)
        <3>1. hw \in Int
            BY <1>3
        <3> QED BY <1>1, <2>1, <3>1, CeilIs
    <2>4. CeilDiv(z, d) \in Nat /\ CeilDiv(z, d) <= hw
        BY <2>2, <2>3
    <2> QED BY <2>4 DEF z
<1>7. CeilDiv(y * n, d) = u + q * hw
    <2>1. r * n \in Nat /\ q * hw \in Nat
        BY <1>1, <1>2, <1>3
    <2>2. y * n = r * n + (q * hw) * d
        <3>1. y * n = r * n + q * (os * n)
            BY <1>1, <1>2
        <3>2. q * (hw * d) = (q * hw) * d
            BY <1>1, <1>2, <1>3
        <3> QED BY <1>3, <3>1, <3>2
    <2>3. CeilDiv(r * n + (q * hw) * d, d) = u + q * hw
        BY <1>1, <2>1, CeilPlus
    <2> QED BY <2>2, <2>3, Zenon
<1> HIDE DEF u
<1>8. CeilDiv(y * n, d) % hw = u % hw
    <2>1. u \in Int /\ q \in Int
        BY <1>2, <1>6
    <2>2. (u + q * hw) % hw = u % hw
        BY <1>3, <2>1, DivPlus, Zenon
    <2> QED BY <1>7, <2>2, Zenon
<1>9. HwTickStateless(c, r) = LET w == u % Word IN IF hw # Word /\ w = hw THEN 0 ELSE w
    BY <1>4, <1>5 DEF Wrap32
<1>10. HwTickStateless(c, r) = u % hw
    <2>1. CASE hw = Word
        BY <1>9, <2>1
    <2>2. CASE hw # Word
        <3>1. u \in 0 .. Word - 1
            BY <1>3, <1>6, <2>2, WordIs
        <3>2. u % Word = u
            BY <3>1, WordIs, ModSmall
        <3>3. CASE u = hw
            <4>1. u \in Int /\ 1 \in Int /\ 0 \in 0 .. hw - 1 /\ u = 1 * hw + 0
                BY <1>3, <1>6, <3>3
            <4>2. u % hw = 0
                BY <1>3, <4>1, DivUnique
            <4> QED BY <1>9, <2>2, <3>2, <3>3, <4>2
        <3>4. CASE u # hw
            <4>1. u \in 0 .. hw - 1
                BY <1>3, <1>6, <3>4
            <4>2. u % hw = u
                BY <1>3, <4>1, ModSmall
            <4> QED BY <1>9, <2>2, <3>2, <3>4, <4>2
        <3> QED BY <3>3, <3>4
    <2> QED BY <2>1, <2>2
<1> QED BY <1>8, <1>10 DEF r, hw

-----------------------------------------------------------------------------
(* Sums and differences of tick counts.                                    *)

LEMMA AddModIs ==
    ASSUME NEW max \in 0 .. WordMax, NEW x \in Nat, NEW y \in 0 .. max
    PROVE  AddMod(x % (max + 1), y, max) = (x + y) % (max + 1)
PROOF
<1> DEFINE k == max + 1
           r == x % k
<1>1. k \in Nat \ {0} /\ k <= Word
    BY WordIs
<1>2. r \in 0 .. k - 1 /\ (r + y) % k = (x + y) % k
    <2>1. x \in Int /\ y \in Int
        OBVIOUS
    <2> QED BY <1>1, <2>1, DivIs, ModSum
<1> HIDE DEF r
<1>3. CASE max = WordMax
    <2>1. k = Word
        BY <1>3, WordIs
    <2> QED BY <1>2, <1>3, <2>1 DEF AddMod, Wrap32, r
<1>4. CASE max # WordMax /\ max - r >= y
    <2>1. r + y \in 0 .. k - 1 /\ r + y \in 0 .. Word - 1
        BY <1>1, <1>2, <1>4, WordIs
    <2>2. (r + y) % k = r + y /\ (r + y) % Word = r + y
        BY <1>1, <2>1, WordIs, ModSmall
    <2>3. AddMod(r, y, max) = (r + y) % Word
        BY <1>4 DEF AddMod, Wrap32
    <2> QED BY <1>2, <2>2, <2>3 DEF r
<1>5. CASE max # WordMax /\ ~(max - r >= y)
    <2> DEFINE e == r + y - k
    <2>1. e \in 0 .. k - 1 /\ e \in 0 .. Word - 1 /\ e \in Int /\ e + 1 * k = r + y /\ e + 1 * Word = r + y + WordMax - max
        BY <1>1, <1>2, <1>5, WordIs
    <2> HIDE DEF e
    <2>2. e % k = e /\ e % Word = e
        BY <1>1, <2>1, WordIs, ModSmall
    <2>3. (e + 1 * k) % k = e % k /\ (e + 1 * Word) % Word = e % Word
        <3>1. 1 \in Int
            OBVIOUS
        <3> QED BY <1>1, <2>1, <3>1, WordIs, DivPlus, Zenon
    <2>4. AddMod(r, y, max) = (r + y + WordMax - max) % Word
        BY <1>5 DEF AddMod, Wrap32
    <2> QED BY <1>2, <2>1, <2>2, <2>3, <2>4 DEF r
<1> QED BY <1>3, <1>4, <1>5

LEMMA SubModIs ==
    ASSUME NEW max \in 0 .. WordMax, NEW x \in Nat, NEW y \in Nat, y < x, x - y <= max
    PROVE  SubMod(x % (max + 1), y % (max + 1), max) = x - y
PROOF
<1> DEFINE k == max + 1
           u == x % k
           v == y % k
<1>1. k \in Nat \ {0} /\ k <= Word /\ x \in Int /\ y \in Int
    BY WordIs
<1>2. u \in 0 .. k - 1 /\ v \in 0 .. k - 1 /\ (u - v) % k = (x - y) % k
    BY <1>1, DivIs, ModSum
<1>3. x - y \in 0 .. k - 1
    OBVIOUS
<1>4. (x - y) % k = x - y
    BY <1>1, <1>3, ModSmall
<1>5. CASE max = WordMax
    <2>1. k = Word /\ y <= x /\ x - y <= WordMax
        BY <1>5, WordIs
    <2>2. Wrap32((x % Word) - (y % Word)) = x - y
        BY <2>1, WrappedGap
    <2> QED BY <1>5, <2>1, <2>2 DEF SubMod
<1>6. CASE max # WordMax
    <2> HIDE DEF u, v
    <2>1. CASE v < u
        <3>1. u - v \in 0 .. k - 1 /\ u - v \in 0 .. Word - 1
            BY <1>1, <1>2, <2>1, WordIs
        <3>2. (u - v) % k = u - v /\ (u - v) % Word = u - v
            BY <1>1, <3>1, WordIs, ModSmall
        <3>3. SubMod(u, v, max) = (u - v) % Word
            BY <2>1 DEF SubMod, Wrap32
        <3> QED BY <1>2, <1>4, <3>2, <3>3 DEF u, v
    <2>2. CASE ~(v < u)
        <3> DEFINE e == u - v + k
        <3>1. u # v
            <4> SUFFICES ASSUME u = v PROVE FALSE
                OBVIOUS
            <4>1. u - v = 0 /\ 0 \in 0 .. k - 1
                BY <1>1, <1>2
            <4>2. 0 % k = 0
                BY <1>1, <4>1, ModSmall
            <4> QED BY <1>2, <1>4, <4>1, <4>2
        <3>2. e \in 0 .. k - 1 /\ e \in 0 .. Word - 1 /\ e \in Int /\ e + (-1) * k = u - v
              /\ e + (-1) * Word = u - v - (WordMax - max) /\ -1 \in Int
            BY <1>1, <1>2, <2>2, <3>1, WordIs
        <3> HIDE DEF e
        <3>3. e % k = e /\ e % Word = e
            BY <1>1, <3>2, WordIs, ModSmall
        <3>4. (e + (-1) * k) % k = e % k /\ (e + (-1) * Word) % Word = e % Word
            BY <1>1, <3>2, WordIs, DivPlus, Zenon
        <3>5. SubMod(u, v, max) = (u - v - (WordMax - max)) % Word
            BY <1>6, <2>2 DEF SubMod, Wrap32
        <3> QED BY <1>2, <1>4, <3>2, <3>3, <3>4, <3>5 DEF u, v
    <2> QED BY <2>1, <2>2
<1> QED BY <1>5, <1>6

-----------------------------------------------------------------------------
(* Both cores.                                                             *)

Core(c, ref, base, os, n, d) ==
    /\ c.algorithm = "Stateless" => base = 0
    /\ c.algorithm = "Stateful" => RefAt(ref, base, os, n, d)

\* Less than a revolution has gone by when an interrupt for the longest timeout is as
\* late as it may be.
LEMMA LateIs ==
    ASSUME NEW o, NEW c, NEW n, NEW d, Rate(o, c, n, d), Limits(o, c, n, d), o.headroom \in Nat,
           NEW os \in Nat, NEW m \in Nat, m <= c.maxTimeout,
           NEW x \in Nat, x <= CeilDiv((os + m) * n, d) + o.headroom
    PROVE  /\ ((x * d) \div n) - os <= c.osMax
           /\ c.algorithm = "Stateful" => x - ((os * n) \div d) <= WordMax
PROOF
<1> DEFINE h == o.headroom
           u == CeilDiv((os + m) * n, d)
           a == (os * n) \div d
           b == (os * n) % d
           t == (x * d) \div n
           s == c.maxTimeout
           k == c.osMax + 1
           y == os * n
           z == x * d
           e == h * d
           f == s * n
<1>1. n \in Nat \ {0} /\ d \in Nat \ {0}
    BY DEF Rate
<1>2. /\ s \in Nat /\ k \in Nat /\ f <= k * n - d - e
      /\ c.algorithm = "Stateful" => f <= (WordMax - h) * d - (d - 1)
    <2>1. "Stateful" # "Stateless"
        OBVIOUS
    <2> QED BY <2>1, WordIs DEF Limits
<1>3. /\ a \in Nat /\ b \in 0 .. d - 1 /\ y = a * d + b /\ t \in Nat
      /\ t = z \div n
    <2>1. OsTick(os, x, n, d)
        BY <1>1, OsTickIs
    <2> QED BY <2>1 DEF OsTick
<1>4. z \in Nat /\ y \in Nat /\ e \in Nat /\ f \in Nat
    BY <1>1, <1>2
<1>5. u \in Nat /\ u * d <= (os + m) * n + d - 1
    <2>1. (os + m) * n \in Nat
        BY <1>1
    <2> QED BY <1>1, <2>1, CeilIs
<1>6. (os + m) * n <= y + f /\ (os + m) * n \in Nat
    <2>1. m * n <= s * n
        BY <1>1, <1>2, MulMono
    <2>2. (os + m) * n = os * n + m * n /\ m * n \in Nat
        BY <1>1
    <2> QED BY <1>4, <2>1, <2>2
<1> HIDE DEF u, a, b, t, y, f
<1>7. z <= y + f + d - 1 + e
    <2>1. x * d <= (u + h) * d
        BY <1>1, <1>5, MulMono DEF u
    <2>2. (u + h) * d = u * d + e /\ u * d \in Nat
        BY <1>1, <1>5
    <2> HIDE DEF z, e, h
    <2>3. z <= u * d + e
        BY <2>1, <2>2 DEF z
    <2> QED BY <1>1, <1>4, <1>5, <1>6, <2>2, <2>3
<1>8. t < os + k
    <2>1. z < y + k * n
        <3>1. k * n \in Nat
            BY <1>1, <1>2
        <3> HIDE DEF z, e, k
        <3> QED BY <1>1, <1>2, <1>4, <1>7, <3>1
    <2>2. y + k * n = (os + k) * n
        BY <1>1, <1>2 DEF y
    <2>3. os + k \in Int /\ z \in Int
        BY <1>2, <1>4
    <2> HIDE DEF z, k
    <2>4. os + k <= z \div n <=> (os + k) * n <= z
        BY <1>1, <2>3, DivAtLeast
    <2>5. ~((os + k) * n <= z)
        <3>1. (os + k) * n \in Int
            BY <1>1, <2>3
        <3> QED BY <2>1, <2>2, <2>3, <3>1
    <2> QED BY <1>3, <2>3, <2>4, <2>5
<1>9. ASSUME c.algorithm = "Stateful" PROVE x - a <= WordMax
    <2>1. f <= (WordMax - h) * d - (d - 1)
        BY <1>2, <1>9
    <2>2. (WordMax - h) * d = WordMax * d - e /\ WordMax * d \in Nat
        BY <1>1, WordIs
    <2> HIDE DEF z, e, h
    <2>3. z <= y + WordMax * d
        BY <1>1, <1>4, <1>7, <2>1, <2>2
    <2>4. z < (a + WordMax + 1) * d
        <3> DEFINE p == a * d
                   w == WordMax * d
        <3>1. (a + WordMax + 1) * d = p + w + d /\ p \in Nat
            BY <1>1, <1>3, WordIs
        <3>2. w \in Nat /\ z <= y + w /\ y = p + b /\ b \in 0 .. d - 1 /\ d \in Nat
            BY <1>1, <1>3, <2>2, <2>3
        <3> HIDE DEF p, w
        <3>3. z < p + w + d
            BY <1>4, <3>1, <3>2
        <3> QED BY <3>1, <3>3
    <2>5. x < a + WordMax + 1
        <3>1. a + WordMax + 1 \in Int /\ x \in Int
            BY <1>3, WordIs
        <3> QED BY <1>1, <2>4, <3>1, MulCancel DEF z
    <2> QED BY <1>3, <2>5, WordIs
<1>10. t - os <= c.osMax
    <2>1. c.osMax \in Int
        BY WordIs DEF Limits
    <2> QED BY <1>3, <1>8, <2>1
<1> QED BY <1>9, <1>10 DEF t, a, y

\* tick_count at the x-th hardware tick is right.
Counted(c, ref, base, x, n, d) ==
    TickCount(c, ref, (base + x) % (c.hwMax + 1)) = ((x * d) \div n) % (c.osMax + 1)

LEMMA CountIs ==
    ASSUME NEW o, NEW c, NEW n, NEW d, Rate(o, c, n, d), Limits(o, c, n, d),
           NEW base \in Nat, NEW os \in Nat, NEW x \in Nat, NEW ref, Core(c, ref, base, os, n, d),
           os * n <= x * d, c.algorithm = "Stateful" => x - ((os * n) \div d) <= WordMax
    PROVE  Counted(c, ref, base, x, n, d)
PROOF
<1> USE DEF Counted
<1>1. "Stateful" # "Stateless" /\ (c.algorithm = "Stateful" \/ c.algorithm = "Stateless")
    BY DEF Limits
<1>2. CASE c.algorithm = "Stateful"
    <2>1. c.hwMax + 1 = Word /\ c.osMax + 1 = Word
        BY <1>1, <1>2, WordIs DEF Limits
    <2>2. TickCountStateful(c, ref, (base + x) % Word) = ((x * d) \div n) % Word
        BY <1>2, StatefulCount DEF Core
    <2>3. TickCount(c, ref, (base + x) % Word) = TickCountStateful(c, ref, (base + x) % Word)
        BY <1>1, <1>2 DEF TickCount
    <2> QED BY <2>1, <2>2, <2>3
<1>3. CASE c.algorithm = "Stateless"
    <2>1. base + x = x
        BY <1>3 DEF Core
    <2>2. /\ c.hwMax + 1 \in Nat \ {0} /\ c.osMax + 1 \in Nat \ {0}
          /\ (c.hwMax + 1) * d = (c.osMax + 1) * n
        BY <1>1, <1>3, WordIs DEF Limits
    <2> DEFINE hw == c.hwMax + 1
               k == c.osMax + 1
    <2>3. hw \in Nat \ {0} /\ k \in Nat \ {0} /\ hw * d = k * n
        BY <2>2
    <2> HIDE DEF hw, k
    <2>4. TickCountStateless(c, x % hw) = ((x * d) \div n) % k
        BY <2>3, StatelessCount
    <2>5. TickCount(c, ref, x % hw) = TickCountStateless(c, x % hw)
        BY <1>3 DEF TickCount
    <2> QED BY <2>1, <2>4, <2>5 DEF hw, k
<1> QED BY <1>1, <1>2, <1>3

LEMMA MarkIs ==
    ASSUME NEW o, NEW c, NEW n, NEW d, Rate(o, c, n, d), Limits(o, c, n, d),
           NEW base \in Nat, NEW os \in Nat, NEW x \in Nat, NEW ref, Core(c, ref, base, os, n, d),
           os * n <= x * d, c.algorithm = "Stateful" => x - ((os * n) \div d) <= WordMax,
           ((x * d) \div n) - os <= c.osMax
    PROVE  Core(c, MarkReference(c, ref, (base + x) % (c.hwMax + 1)), base, (x * d) \div n, n, d)
PROOF
<1>1. "Stateful" # "Stateless"
    OBVIOUS
<1>2. CASE c.algorithm = "Stateful"
    <2>1. c.hwMax + 1 = Word /\ c.osMax = WordMax
        BY <1>1, <1>2, WordIs DEF Limits
    <2>2. RefAt(MarkStateful(c, ref, (base + x) % Word), base, (x * d) \div n, n, d)
        BY <1>2, <2>1, StatefulMark DEF Core
    <2>3. MarkReference(c, ref, (base + x) % Word) = MarkStateful(c, ref, (base + x) % Word)
        BY <1>1, <1>2 DEF MarkReference
    <2> QED BY <1>1, <1>2, <2>1, <2>2, <2>3 DEF Core
<1>3. CASE c.algorithm # "Stateful"
    BY <1>3 DEF Core
<1> QED BY <1>2, <1>3

\* mark_reference_and_measure, of the x-th hardware tick.
Measured(c, ref, base, x, n, d, micros) ==
    LET end == CeilDiv((((x * d) \div n) + micros) * n, d)
        m == Measure(c, ref, (base + x) % (c.hwMax + 1), micros)
    IN /\ end \in Nat /\ x < end /\ end - x <= c.hwMax
       /\ m.endHw = (base + end) % (c.hwMax + 1) /\ m.hwTicks = end - x

\* The end of the measurement is when it is due, and the
\* counter meets it before it makes a revolution.
LEMMA MeasureIs ==
    ASSUME NEW o, NEW c, NEW n, NEW d, Rate(o, c, n, d), Limits(o, c, n, d), o.headroom \in Nat,
           NEW base \in Nat, NEW x \in Nat, NEW ref, Core(c, ref, base, (x * d) \div n, n, d),
           NEW micros \in Nat \ {0}, micros <= c.maxTimeout
    PROVE  Measured(c, ref, base, x, n, d, micros)
PROOF
<1> DEFINE os == (x * d) \div n
           end == CeilDiv((os + micros) * n, d)
           a == (os * n) \div d
           hw == c.hwMax + 1
           k == c.osMax + 1
           m == Measure(c, ref, (base + x) % hw, micros)
<1>1. n \in Nat \ {0} /\ d \in Nat \ {0}
    BY DEF Rate
<1>2. /\ hw \in Nat \ {0} /\ k \in Nat \ {0} /\ k - 1 = c.osMax /\ hw - 1 = c.hwMax
      /\ c.hwMax \in 0 .. WordMax /\ c.osMax \in 0 .. WordMax /\ c.maxTimeout \in Nat
      /\ c.maxTimeout * n <= k * n - d - o.headroom * d
      /\ c.algorithm = "Stateless" => hw * d = k * n
      /\ c.algorithm = "Stateful" => hw = Word /\ k = Word
    <2>1. "Stateful" # "Stateless"
        OBVIOUS
    <2> QED BY <2>1, WordIs DEF Limits
<1>3. os \in Nat /\ os * n <= x * d /\ x * d < os * n + n /\ x * d \in Nat
    <2> DEFINE z == x * d
    <2>1. z \in Nat /\ z \in Int
        BY <1>1
    <2> HIDE DEF z
    <2>2. z \div n \in Nat
        BY <1>1, <2>1, DivNat
    <2>3. z % n \in 0 .. n - 1 /\ z = (z \div n) * n + (z % n)
        BY <1>1, <2>1, DivIs
    <2>4. z \div n \in Nat /\ (z \div n) * n <= z /\ z < (z \div n) * n + n /\ z \in Nat
        BY <1>1, <2>1, <2>2, <2>3
    <2> QED BY <2>4 DEF z
<1>4. a \in Nat /\ a <= x
    <2>1. OsTick(os, x, n, d)
        BY <1>1, <1>3, OsTickIs
    <2> QED BY <1>3, <2>1 DEF OsTick
<1>5. Core(c, ref, base, os, n, d)
    OBVIOUS
<1> HIDE DEF os
<1>6. (os + micros) * n \in Nat /\ (os + micros) * n = os * n + micros * n /\ micros * n \in Nat /\ os * n \in Nat
    BY <1>1, <1>3
<1>7. end \in Nat /\ (os + micros) * n <= end * d /\ end * d <= (os + micros) * n + d - 1
    BY <1>1, <1>6, CeilIs
<1> HIDE DEF end, a, hw, k
<1>8. micros * n <= c.maxTimeout * n
    BY <1>1, <1>2, MulMono
<1>9. micros <= c.osMax
    <2>1. micros * n < k * n
        <3> DEFINE e == o.headroom * d
                   f == c.maxTimeout * n
                   g == k * n
                   i == micros * n
        <3>1. e \in Nat /\ f \in Nat /\ g \in Nat /\ i \in Nat
            BY <1>1, <1>2
        <3>2. i <= f /\ f <= g - d - e /\ d \in Nat \ {0}
            BY <1>1, <1>2, <1>8
        <3> HIDE DEF e, f, g, i
        <3>3. i < g
            BY <3>1, <3>2
        <3> QED BY <3>3 DEF g, i
    <2>2. micros < k
        BY <1>1, <1>2, <2>1, MulCancel
    <2> QED BY <1>2, <2>2, WordIs
<1>10. x < end
    <2>1. 1 * n <= micros * n
        <3>1. 1 <= micros /\ 1 \in Int /\ micros \in Int
            OBVIOUS
        <3> QED BY <1>1, <3>1, MulMono
    <2>2. x * d < end * d
        BY <1>1, <1>3, <1>6, <1>7, <2>1
    <2> QED BY <1>1, <1>7, <2>2, MulCancel
<1>11. /\ c.algorithm = "Stateful" => end - a <= WordMax
       /\ c.algorithm = "Stateful" => x - a <= WordMax
    <2>1. end <= CeilDiv((os + micros) * n, d) + o.headroom
        BY <1>7 DEF end
    <2>2. c.algorithm = "Stateful" => end - ((os * n) \div d) <= WordMax
        BY <1>2, <1>3, <1>7, <2>1, LateIs
    <2> QED BY <1>4, <1>7, <1>10, <2>2, WordIs DEF a
<1>12. end - x <= c.hwMax
    <2>1. CASE c.algorithm = "Stateful"
        BY <1>2, <1>4, <1>7, <1>10, <1>11, <2>1, WordIs
    <2>2. CASE c.algorithm = "Stateless"
        <3>1. end * d < x * d + hw * d
            <4> DEFINE e == o.headroom * d
                       f == c.maxTimeout * n
                       g == k * n
                       i == micros * n
                       v == end * d
                       y == os * n
                       z == x * d
                       w == hw * d
            <4>1. e \in Nat /\ f \in Nat /\ g \in Nat /\ i \in Nat /\ v \in Nat /\ y \in Nat /\ z \in Nat
                BY <1>1, <1>2, <1>3, <1>7
            <4>2. /\ i <= f /\ f <= g - d - e /\ d \in Nat \ {0} /\ w = g
                  /\ v <= y + i + d - 1 /\ y <= z
                BY <1>1, <1>2, <1>3, <1>6, <1>7, <1>8, <2>2
            <4> HIDE DEF e, f, g, i, v, y, z, w
            <4>3. v < z + w
                BY <4>1, <4>2
            <4> QED BY <4>3 DEF v, z, w
        <3>2. x * d + hw * d = (x + hw) * d /\ x + hw \in Int /\ end \in Int
            BY <1>1, <1>2, <1>7
        <3>3. end < x + hw
            BY <1>1, <3>1, <3>2, MulCancel
        <3> QED BY <1>2, <1>7, <3>3, WordIs
    <2> QED BY <2>1, <2>2 DEF Limits
<1>13. TickCount(c, ref, (base + x) % hw) = os % k
    <2>1. os * n <= x * d /\ (c.algorithm = "Stateful" => x - ((os * n) \div d) <= WordMax)
        BY <1>3, <1>11 DEF a
    <2>2. Counted(c, ref, base, x, n, d)
        BY <1>3, <1>5, <2>1, CountIs
    <2> QED BY <2>2 DEF Counted, os, hw, k
<1>14. AddMod(os % k, micros, c.osMax) = (os + micros) % k
    <2>1. micros \in 0 .. c.osMax
        BY <1>2, <1>9, WordIs
    <2> QED BY <1>2, <1>3, <2>1, AddModIs DEF k
<1>15. HwTick(c, ref, (os + micros) % k) = (base + end) % hw
    <2>1. CASE c.algorithm = "Stateful"
        <3>1. RefAt(ref, base, os, n, d) /\ k = Word /\ hw = Word /\ "Stateful" # "Stateless"
            BY <1>2, <1>5, <2>1 DEF Core
        <3>2. micros <= WordMax /\ micros \in Nat
            BY <1>2, <1>9, WordIs
        <3>3. HwTickStateful(c, ref, (os + micros) % Word) = (base + CeilDiv((os + micros) * n, d)) % Word
            BY <1>3, <3>1, <3>2, StatefulHwTick
        <3> QED BY <2>1, <3>1, <3>3 DEF HwTick, end
    <2>2. CASE c.algorithm = "Stateless"
        <3>1. base + end = end
            BY <1>5, <1>7, <2>2 DEF Core
        <3>2. os + micros \in Nat /\ (c.hwMax + 1) * d = k * n
            BY <1>2, <1>3, <2>2 DEF hw
        <3>3. HwTickStateless(c, (os + micros) % k) = CeilDiv((os + micros) * n, d) % (c.hwMax + 1)
            BY <1>2, <3>2, StatelessHwTick
        <3>4. HwTick(c, ref, (os + micros) % k) = HwTickStateless(c, (os + micros) % k)
            BY <2>2 DEF HwTick
        <3> QED BY <3>1, <3>3, <3>4 DEF end, hw
    <2> QED BY <2>1, <2>2 DEF Limits
<1>16. SubMod((base + end) % hw, (base + x) % hw, c.hwMax) = end - x
    <2>1. /\ base + end \in Nat /\ base + x \in Nat /\ base + x < base + end
          /\ (base + end) - (base + x) = end - x
        BY <1>7, <1>10
    <2>2. SubMod((base + end) % hw, (base + x) % hw, c.hwMax) = (base + end) - (base + x)
        BY <1>2, <1>12, <2>1, SubModIs DEF hw
    <2> QED BY <2>1, <2>2
<1>17. m.endHw = (base + end) % hw /\ m.hwTicks = end - x
    BY <1>13, <1>14, <1>15, <1>16 DEF Measure
<1> QED BY <1>7, <1>10, <1>12, <1>17 DEF Measured, os, end, hw

-----------------------------------------------------------------------------
(* The same, for the times of TimerDriver.                                 *)

NumOf(c) == c.perMicro * c.division + c.subPerMicro

\* OsTime, HwTime and HwCount.
OsAt(c, base, t) == ((t - base) * c.division) \div NumOf(c)
HwAt(c, base, os) == base + CeilDiv(os * NumOf(c), c.division)
CountAt(c, t) == t % (c.hwMax + 1)

CoreAt(c, ref, base, os) == Core(c, ref, base, os, NumOf(c), c.division)

Fits(o, c) == /\ o.denom \in Nat /\ o.headroom \in Nat /\ Rate(o, c, NumOf(c), c.division)
              /\ Limits(o, c, NumOf(c), c.division)

LEMMA CfgFits ==
    ASSUME NEW o \in TdOptions, o.driver # "systick", TicklessCfg(o).err = "none"
    PROVE  Fits(o, TicklessCfg(o))
PROOF
<1> DEFINE c == TicklessCfg(o)
<1>1. o.num \in Nat /\ o.denom \in Nat /\ o.headroom \in Nat
    BY TimerDriverAssumption
<1>2. PICK n \in Nat \ {0}, d \in Nat \ {0} : Rate(o, c, n, d) /\ Limits(o, c, n, d)
    BY <1>1, TicklessIs
<1>3. c.division = d /\ NumOf(c) = n
    BY <1>2 DEF Rate, NumOf
<1> HIDE DEF c
<1>4. Fits(o, c)
    BY <1>1, <1>2, <1>3 DEF Fits
<1> QED BY <1>4 DEF c

\* The real times are these.
LEMMA RealTimes ==
    ASSUME NEW o, NEW c, Fits(o, c), NEW base \in Nat
    PROVE  /\ \A t \in Nat : base <= t =>
                ((t - base) * o.denom * MicrosPerSec) \div o.num = OsAt(c, base, t)
           /\ \A os \in Nat : base + CeilDiv(os * o.num, o.denom * MicrosPerSec) = HwAt(c, base, os)
PROOF
<1> DEFINE n == NumOf(c)
           d == c.division
<1>1. n \in Nat \ {0} /\ d \in Nat \ {0}
    BY DEF Fits, Rate
<1>2. PICK g \in Nat \ {0} : o.num = g * n /\ o.denom * MicrosPerSec = g * d
    BY DEF Fits, Rate
<1>5. o.denom \in Nat
    BY DEF Fits
<1> HIDE DEF n, d
<1>3. ASSUME NEW t \in Nat, base <= t
      PROVE  ((t - base) * o.denom * MicrosPerSec) \div o.num = OsAt(c, base, t)
    <2> DEFINE x == t - base
               y == x * d
    <2>1. x \in Nat
        BY <1>3
    <2> HIDE DEF x
    <2>2. (x * o.denom * MicrosPerSec) = x * (o.denom * MicrosPerSec)
        BY <1>5, <2>1, TicklessAssumption
    <2>3. x * (g * d) = g * y /\ y \in Int
        BY <1>1, <2>1
    <2> HIDE DEF y
    <2>4. (g * y) \div (g * n) = y \div n
        BY <1>1, <2>3, DivFactor
    <2> QED BY <1>2, <2>2, <2>3, <2>4 DEF OsAt, x, y, n, d
<1>4. ASSUME NEW os \in Nat
      PROVE  base + CeilDiv(os * o.num, o.denom * MicrosPerSec) = HwAt(c, base, os)
    <2> DEFINE y == os * n
               u == CeilDiv(y, d)
               v == CeilDiv(g * y, g * d)
    <2>1. y \in Nat /\ os * (g * n) = g * y
        BY <1>1
    <2> HIDE DEF y
    <2>2. g * y \in Nat /\ g * d \in Nat \ {0} /\ y \in Int
        BY <1>1, <2>1, DivFactor
    <2>3. /\ u \in Nat /\ v \in Nat
          /\ \A k \in Int : u <= k <=> y <= k * d
          /\ \A k \in Int : v <= k <=> g * y <= k * (g * d)
        <3>1. u \in Nat /\ \A k \in Int : u <= k <=> y <= k * d
            BY <1>1, <2>1, CeilIs
        <3> DEFINE gy == g * y
                   gd == g * d
        <3>2. gy \in Nat /\ gd \in Nat \ {0}
            BY <2>2
        <3> HIDE DEF gy, gd
        <3>3. CeilDiv(gy, gd) \in Nat /\ \A k \in Int : CeilDiv(gy, gd) <= k <=> gy <= k * gd
            BY <3>2, CeilIs
        <3> QED BY <3>1, <3>3 DEF gy, gd
    <2> HIDE DEF u, v
    <2>4. \A k \in Int : g * y <= k * (g * d) <=> y <= k * d
        <3> SUFFICES ASSUME NEW k \in Int PROVE g * y <= k * (g * d) <=> y <= k * d
            OBVIOUS
        <3> DEFINE w == k * d
        <3>1. w \in Int /\ k * (g * d) = w * g /\ g * y = y * g
            BY <1>1, <2>2
        <3> HIDE DEF w
        <3>2. y <= w => y * g <= w * g
            BY <2>2, <3>1, MulMono
        <3>3. w < y => w * g < y * g
            <4>1. w + 1 <= y => (w + 1) * g <= y * g
                BY <2>2, <3>1, MulMono
            <4>2. (w + 1) * g = w * g + g
                BY <3>1
            <4>3. w * g \in Int /\ y * g \in Int
                BY <2>2, <3>1
            <4> QED BY <2>2, <3>1, <4>1, <4>2, <4>3
        <3>4. y * g <= w * g <=> y <= w
            <4>1. w * g \in Int /\ y * g \in Int
                BY <2>2, <3>1
            <4> QED BY <2>2, <3>1, <3>2, <3>3, <4>1
        <3> QED BY <3>1, <3>4 DEF w
    <2>5. u = v
        <3>1. u <= v /\ v <= u
            BY <2>3, <2>4
        <3> QED BY <2>3, <3>1
    <2> QED BY <1>2, <2>1, <2>5 DEF HwAt, u, v, y, n, d
<1> QED BY <1>3, <1>4

LEMMA TimesAre ==
    ASSUME NEW o, NEW c, Fits(o, c), NEW base \in Nat
    PROVE  /\ \A s, t \in Nat : base <= s /\ s <= t =>
                /\ OsAt(c, base, s) \in Nat /\ OsAt(c, base, t) \in Nat
                /\ OsAt(c, base, s) <= OsAt(c, base, t)
           /\ \A j, k \in Nat : j <= k =>
                HwAt(c, base, j) \in Nat /\ base <= HwAt(c, base, j) /\ HwAt(c, base, j) <= HwAt(c, base, k)
PROOF
<1> DEFINE n == NumOf(c)
           d == c.division
<1>1. n \in Nat \ {0} /\ d \in Nat \ {0}
    BY DEF Fits, Rate
<1> HIDE DEF n, d
<1>2. ASSUME NEW s \in Nat, NEW t \in Nat, base <= s, s <= t
      PROVE  /\ OsAt(c, base, s) \in Nat /\ OsAt(c, base, t) \in Nat
             /\ OsAt(c, base, s) <= OsAt(c, base, t)
    <2> DEFINE x == (s - base) * d
               y == (t - base) * d
    <2>1. x \in Nat /\ y \in Nat /\ x <= y
        <3>1. s - base \in Int /\ t - base \in Int /\ s - base <= t - base /\ s - base >= 0 /\ d \in Nat
            BY <1>1, <1>2
        <3>2. x <= y
            BY <3>1, MulMono
        <3>3. x \in Nat /\ y \in Nat
            <4>1. s - base \in Nat /\ t - base \in Nat
                BY <3>1
            <4> QED BY <3>1, <4>1
        <3> QED BY <3>2, <3>3
    <2> HIDE DEF x, y
    <2>2. x \div n \in Nat /\ y \div n \in Nat
        BY <1>1, <2>1, DivNat
    <2>3. x \div n <= y \div n
        <3>1. x \in Int /\ y \in Int
            BY <2>1
        <3> QED BY <1>1, <2>1, <3>1, DivMono
    <2> QED BY <2>2, <2>3 DEF OsAt, x, y, n, d
<1>3. ASSUME NEW j \in Nat, NEW k \in Nat, j <= k
      PROVE  HwAt(c, base, j) \in Nat /\ base <= HwAt(c, base, j) /\ HwAt(c, base, j) <= HwAt(c, base, k)
    <2> DEFINE x == j * n
               y == k * n
    <2>1. x \in Nat /\ y \in Nat /\ x <= y
        <3>1. x <= y
            BY <1>1, <1>3, MulMono
        <3>2. x \in Nat /\ y \in Nat
            BY <1>1
        <3> QED BY <3>1, <3>2
    <2> HIDE DEF x, y
    <2>2. CeilDiv(x, d) \in Nat /\ CeilDiv(y, d) \in Nat
        BY <1>1, <2>1, CeilIs
    <2>3. CeilDiv(x, d) <= CeilDiv(y, d)
        <3>1. y <= CeilDiv(y, d) * d
            BY <1>1, <2>1, CeilIs
        <3>2. x <= CeilDiv(y, d) * d
            <4>1. CeilDiv(y, d) * d \in Int
                BY <1>1, <2>2
            <4> QED BY <2>1, <3>1, <4>1
        <3>3. CeilDiv(y, d) \in Int
            BY <2>2
        <3> QED BY <1>1, <2>1, <3>2, <3>3, CeilIs
    <2>4. base + CeilDiv(x, d) \in Nat /\ base <= base + CeilDiv(x, d) /\ base + CeilDiv(x, d) <= base + CeilDiv(y, d)
        BY <2>2, <2>3
    <2> QED BY <2>4 DEF HwAt, x, y, n, d
<1> QED BY <1>2, <1>3

\* A tick that is due in at least one OS tick is in the future.
\* Within the longest timeout and the headroom after a reference point the count is
\* exact and a new reference point can be marked.
LEMMA WithinReach ==
    ASSUME NEW o, NEW c, Fits(o, c), NEW base \in Nat, NEW os \in Nat, NEW t \in Nat, base <= t,
           t <= HwAt(c, base, os + c.maxTimeout) + o.headroom
    PROVE  /\ OsAt(c, base, t) - os <= c.osMax
           /\ \A ref : CoreAt(c, ref, base, os) /\ os <= OsAt(c, base, t) =>
                /\ TickCount(c, ref, CountAt(c, t)) = OsAt(c, base, t) % (c.osMax + 1)
                /\ CoreAt(c, MarkReference(c, ref, CountAt(c, t)), base, OsAt(c, base, t))
PROOF
<1> DEFINE n == NumOf(c)
           d == c.division
           x == t - base
           m == c.maxTimeout
           e == (x * d) \div n
<1>1. n \in Nat \ {0} /\ d \in Nat \ {0} /\ Rate(o, c, n, d) /\ Limits(o, c, n, d) /\ o.headroom \in Nat
    BY DEF Fits, Rate
<1>2. OsAt(c, base, t) = e
    BY DEF OsAt
<1>3. x \in Nat /\ base + x = t /\ m \in Nat /\ m <= m
    BY <1>1 DEF Limits
<1>4. x <= CeilDiv((os + m) * n, d) + o.headroom
    <2>1. HwAt(c, base, os + m) = base + CeilDiv((os + m) * n, d)
        BY DEF HwAt
    <2>2. CeilDiv((os + m) * n, d) \in Nat
        <3>1. (os + m) * n \in Nat
            BY <1>1, <1>3
        <3> QED BY <1>1, <3>1, CeilIs
    <2> HIDE DEF n, d, m
    <2> QED BY <1>1, <1>3, <2>1, <2>2 DEF m
<1> HIDE DEF n, d, x, m
<1>5. /\ e - os <= c.osMax
      /\ c.algorithm = "Stateful" => x - ((os * n) \div d) <= WordMax
    BY <1>1, <1>3, <1>4, LateIs DEF m
<1>6. ASSUME NEW ref, Core(c, ref, base, os, n, d), os <= e
      PROVE  /\ TickCount(c, ref, (base + x) % (c.hwMax + 1)) = e % (c.osMax + 1)
             /\ Core(c, MarkReference(c, ref, (base + x) % (c.hwMax + 1)), base, e, n, d)
    <2>1. os * n <= x * d
        <3>1. OsTick(os, x, n, d)
            BY <1>1, <1>3, OsTickIs
        <3> QED BY <1>6, <3>1 DEF OsTick
    <2>2. TickCount(c, ref, (base + x) % (c.hwMax + 1)) = e % (c.osMax + 1)
        <3>1. Counted(c, ref, base, x, n, d)
            BY <1>1, <1>3, <1>5, <1>6, <2>1, CountIs
        <3> QED BY <3>1 DEF Counted
    <2>3. Core(c, MarkReference(c, ref, (base + x) % (c.hwMax + 1)), base, e, n, d)
        BY <1>1, <1>3, <1>5, <1>6, <2>1, MarkIs
    <2> QED BY <2>2, <2>3
<1> HIDE DEF e
<1> QED BY <1>2, <1>3, <1>5, <1>6 DEF CoreAt, CountAt, n, d

\* What the driver programs after it has marked the reference point at hardware tick t.
LEMMA MeasuredIs ==
    ASSUME NEW o, NEW c, Fits(o, c), NEW base \in Nat, NEW t \in Nat, base <= t,
           NEW ref, CoreAt(c, ref, base, OsAt(c, base, t)),
           NEW micros \in Nat \ {0}, micros <= c.maxTimeout
    PROVE  LET due == HwAt(c, base, OsAt(c, base, t) + micros)
               m == Measure(c, ref, CountAt(c, t), micros)
           IN due \in Nat /\ t < due /\ due - t <= c.hwMax /\ m.endHw = CountAt(c, due) /\ m.hwTicks = due - t
PROOF
<1> DEFINE n == NumOf(c)
           d == c.division
           x == t - base
           e == (x * d) \div n
           end == CeilDiv((e + micros) * n, d)
           m == Measure(c, ref, CountAt(c, t), micros)
<1>1. n \in Nat \ {0} /\ d \in Nat \ {0} /\ Rate(o, c, n, d) /\ Limits(o, c, n, d) /\ o.headroom \in Nat
    BY DEF Fits, Rate
<1>2. OsAt(c, base, t) = e
    BY DEF OsAt
<1>3. x \in Nat /\ base + x = t
    OBVIOUS
<1>4. Core(c, ref, base, e, n, d)
    BY <1>2 DEF CoreAt
<1>5. HwAt(c, base, e + micros) = base + end
    BY DEF HwAt
<1>6. CountAt(c, t) = (base + x) % (c.hwMax + 1) /\ CountAt(c, base + end) = (base + end) % (c.hwMax + 1)
    BY <1>3 DEF CountAt
<1> HIDE DEF n, d, x
<1>7. LET mm == Measure(c, ref, (base + x) % (c.hwMax + 1), micros)
      IN /\ end \in Nat /\ x < end /\ end - x <= c.hwMax
         /\ mm.endHw = (base + end) % (c.hwMax + 1) /\ mm.hwTicks = end - x
    <2>1. Measured(c, ref, base, x, n, d, micros)
        BY <1>1, <1>3, <1>4, MeasureIs
    <2> QED BY <2>1 DEF Measured
<1> HIDE DEF e, end
<1>8. /\ end \in Nat /\ x < end /\ end - x <= c.hwMax
      /\ m.endHw = CountAt(c, base + end) /\ m.hwTicks = end - x
    BY <1>6, <1>7
<1>9. base + end \in Nat /\ t < base + end /\ (base + end) - t = end - x
    BY <1>3, <1>8
<1> QED BY <1>2, <1>5, <1>8, <1>9

\* The headroom is less than a revolution of the hardware tick count.
LEMMA HeadroomIs ==
    ASSUME NEW o, NEW c, Fits(o, c)
    PROVE  /\ o.headroom \in Nat /\ o.headroom <= c.hwMax /\ c.hwMax \in 0 .. WordMax /\ c.osMax \in 0 .. WordMax
           /\ c.maxTimeout \in Nat \ {0} /\ c.hwMax + 1 \in Nat \ {0}
PROOF
<1> DEFINE n == NumOf(c)
           d == c.division
           h == o.headroom
           k == c.osMax + 1
           m == c.maxTimeout
           hw == c.hwMax + 1
<1>1. n \in Nat \ {0} /\ d \in Nat \ {0} /\ h \in Nat
    BY DEF Fits, Rate
<1>2. /\ k \in Nat \ {0} /\ c.hwMax \in 0 .. WordMax /\ c.osMax \in 0 .. WordMax /\ m \in Nat \ {0}
      /\ m * n <= k * n - d - h * d
      /\ \/ hw * d = k * n
         \/ c.hwMax = WordMax /\ m * n <= (WordMax - h) * d - (d - 1)
    BY WordIs DEF Fits, Limits
<1> HIDE DEF n, d, h, k, m
<1>3. m * n \in Nat /\ m * n > 0
    <2>1. 1 * n <= m * n
        <3>1. 1 \in Int /\ m \in Int /\ 1 <= m
            BY <1>2
        <3> QED BY <1>1, <3>1, MulMono
    <2>2. m * n \in Nat
        BY <1>1, <1>2
    <2> QED BY <1>1, <2>1, <2>2
<1>4. CASE hw * d = k * n
    <2>1. h * d < hw * d
        <3> DEFINE f == m * n
                   e == h * d
                   w == hw * d
        <3>1. f \in Nat /\ f > 0 /\ e \in Nat /\ w \in Int /\ f <= w - d - e
            BY <1>1, <1>2, <1>3, <1>4, WordIs
        <3> HIDE DEF f, e, w
        <3>2. e < w
            BY <1>1, <3>1
        <3> QED BY <3>2 DEF e, w
    <2>2. h \in Int /\ hw \in Int
        BY <1>1, <1>2, WordIs
    <2>3. h < hw
        BY <1>1, <2>1, <2>2, MulCancel
    <2> QED BY <1>1, <1>2, <2>3, WordIs DEF h, m
<1>5. CASE c.hwMax = WordMax /\ m * n <= (WordMax - h) * d - (d - 1)
    <2>1. 0 * d < (WordMax - h) * d
        <3>1. (WordMax - h) * d \in Int
            BY <1>1, WordIs
        <3> DEFINE f == m * n
                   e == (WordMax - h) * d
        <3>2. f \in Nat /\ f > 0 /\ e \in Int /\ f <= e - (d - 1)
            BY <1>3, <1>5, <3>1
        <3> HIDE DEF f, e
        <3>3. 0 < e
            BY <1>1, <3>2
        <3> QED BY <1>1, <3>3 DEF e
    <2>2. 0 \in Int /\ WordMax - h \in Int
        BY <1>1, WordIs
    <2>3. 0 < WordMax - h
        BY <1>1, <2>1, <2>2, MulCancel
    <2> QED BY <1>1, <1>2, <1>5, <2>3, WordIs DEF h, m
<1> QED BY <1>2, <1>4, <1>5

-----------------------------------------------------------------------------
(* The tickful algorithm: k periods have been counted, each of which is n  *)
(* parts of OS ticks long, of which an OS tick has d.                      *)

TickfulAt(c, s, k) ==
    LET n == c.micros * c.division + c.submicros
    IN s.micros = ((k * n) \div c.division) % Word /\ s.sub = (k * n) % c.division

TickfulFits(o, c) ==
    /\ c.division \in Nat \ {0} /\ c.micros \in Nat /\ c.submicros \in 0 .. c.division - 1
    /\ \E g \in Nat \ {0} : /\ o.num = g * c.division
                            /\ o.denom * o.period * MicrosPerSec = g * (c.micros * c.division + c.submicros)

-----------------------------------------------------------------------------
(* The inductive invariant.                                                *)

TdTypes ==
    /\ tdOpt \in TdOptions
    /\ tdCfg = IF Tickful THEN TickfulCfg(tdOpt) ELSE TicklessCfg(tdOpt)
    /\ tdNow \in Nat /\ tdBase \in Nat /\ tdBase <= tdNow
    /\ tdDev \in [at : Nat, latch : BOOLEAN]
    /\ tdStep \in {"off", "idle", "arm", "check"} /\ tdArm \in [hw : Nat, micros : Nat]
    /\ tdHandler \in {"none", "read", "tick"} /\ tdHandlerHw \in Nat
    /\ tdDue \in Nat /\ tdSeen \in Nat
    /\ tdStep # "off" => tdCfg.err = "none"

TdOff ==
    /\ tdRef = IF Tickful THEN TickfulInit ELSE RefInit
    /\ tdNow = 0 /\ tdBase = 0 /\ tdSeen = 0 /\ tdHandler = "none" /\ tdDev = [at |-> 0, latch |-> FALSE]

\* The counter is at most the headroom behind what was asked for, and that is no longer
\* away from the reference point than the longest timeout.
TdTimes ==
    /\ CoreAt(tdCfg, tdRef, tdBase, tdSeen)
    /\ tdSeen <= OsAt(tdCfg, tdBase, tdNow)
    /\ tdStep = "idle" =>
          /\ tdBase <= tdDue /\ tdNow <= tdDue + tdOpt.headroom
          /\ tdDue <= HwAt(tdCfg, tdBase, tdSeen + tdCfg.maxTimeout)
    /\ tdStep \in {"arm", "check"} =>
          /\ tdBase <= tdArm.hw /\ tdArm.hw <= tdNow /\ tdNow <= tdArm.hw + tdOpt.headroom
          /\ tdArm.micros # 0 /\ tdArm.micros <= tdCfg.maxTimeout
    /\ tdStep = "arm" =>
          /\ tdSeen <= OsAt(tdCfg, tdBase, tdArm.hw)
          /\ tdArm.hw <= HwAt(tdCfg, tdBase, tdSeen + tdCfg.maxTimeout) + tdOpt.headroom
    /\ tdStep = "check" =>
          /\ tdSeen = OsAt(tdCfg, tdBase, tdArm.hw)
          /\ tdDue = HwAt(tdCfg, tdBase, tdSeen + tdArm.micros)
    /\ tdHandler = "read" =>
          /\ tdBase <= tdHandlerHw /\ tdHandlerHw <= tdNow
          /\ tdCfg.algorithm = "Stateful" =>
                tdStep = "idle" /\ tdSeen <= OsAt(tdCfg, tdBase, tdHandlerHw)

\* What the timer will do about it.
TdAlarm ==
    /\ Level => ~tdDev.latch
    /\ tdStep = "check" => tdOpt.driver = "ostm" /\ tdDev.at = CountAt(tdCfg, tdDue)
    /\ tdStep = "idle" =>
          /\ Level => tdDev.at = tdDue \/ (tdDev.at = 0 /\ tdDue <= tdNow)
          /\ tdOpt.driver = "sp804" /\ tdHandler = "none" =>
                tdDev.latch \/ tdDev.at <= tdDue + tdOpt.headroom
          /\ tdOpt.driver = "ostm" /\ tdHandler = "none" =>
                tdDev.latch \/ ( /\ tdNow < tdDue /\ tdDue - tdNow <= tdCfg.hwMax
                                 /\ tdDev.at = CountAt(tdCfg, tdDue))

TdTickful ==
    /\ tdStep \in {"off", "idle"} /\ tdHandler = "none"
    /\ tdDev.latch => tdNow # 0
    /\ tdStep = "idle" => TickfulAt(tdCfg, tdRef, IF tdDev.latch THEN tdNow - 1 ELSE tdNow)

TdInv ==
    /\ TdTypes
    /\ tdStep = "off" => TdOff
    /\ tdStep # "off" /\ ~Tickful => TdTimes /\ TdAlarm
    /\ Tickful => TdTickful

LEMMA TdOptionIs ==
    ASSUME TdTypes
    PROVE  /\ tdOpt.driver \in {"mtime", "sbi", "sp804", "ostm", "systick"} /\ tdOpt.denom \in Nat /\ tdOpt.num \in Nat
           /\ Tickful => tdOpt.period \in Nat
           /\ tdOpt.driver = "ostm" => tdOpt.full
PROOF
BY TimerDriverAssumption DEF TdTypes, Tickful

LEMMA TdFits ==
    ASSUME TdTypes, ~Tickful, tdCfg.err = "none"
    PROVE  /\ Fits(tdOpt, tdCfg)
           /\ \A t \in Nat : tdBase <= t => OsTime(t) = OsAt(tdCfg, tdBase, t)
           /\ \A os \in Nat : HwTime(os) = HwAt(tdCfg, tdBase, os)
PROOF
<1>1. Fits(tdOpt, tdCfg)
    BY CfgFits DEF TdTypes, Tickful
<1>2. tdBase \in Nat
    BY DEF TdTypes
<1> QED BY <1>1, <1>2, RealTimes DEF OsTime, HwTime

\* The configuration of the tickful algorithm.
LEMMA TickfulIs ==
    ASSUME NEW o, o.num \in Nat, o.denom \in Nat, o.period \in Nat, TickfulCfg(o).err = "none"
    PROVE  TickfulFits(o, TickfulCfg(o))
PROOF
<1> DEFINE D == o.denom * o.period * MicrosPerSec
           r == Reduced(D, o.num)
           ceil == CeilDiv(r.n, r.d)
           c == TickfulCfg(o)
           good == [err |-> "none", micros |-> FloorRatio(r), submicros |-> r.n % r.d, division |-> r.d]
<1>1. o.denom # 0 /\ o.num # 0 /\ o.period # 0 /\ c = good
    <2> HIDE DEF r
    <2>1. CfgError("FreqDenomZero").err # "none" /\ CfgError("FreqNumZero").err # "none"
          /\ CfgError("PeriodZero").err # "none" /\ CfgError("PeriodOverflowsU32").err # "none"
          /\ CfgError("PeriodExceedsKernelHeadroom").err # "none"
        BY DEF CfgError
    <2>2. c.err = "none"
        OBVIOUS
    <2>3. CASE o.denom = 0
        <3>1. c = CfgError("FreqDenomZero")
            BY <2>3 DEF TickfulCfg
        <3> HIDE DEF c
        <3> QED BY <2>1, <2>2, <3>1
    <2>4. CASE o.denom # 0 /\ o.num = 0
        <3>1. c = CfgError("FreqNumZero")
            BY <2>4 DEF TickfulCfg
        <3> HIDE DEF c
        <3> QED BY <2>1, <2>2, <3>1
    <2>5. CASE o.denom # 0 /\ o.num # 0 /\ o.period = 0
        <3>1. c = CfgError("PeriodZero")
            BY <2>5 DEF TickfulCfg
        <3> HIDE DEF c
        <3> QED BY <2>1, <2>2, <3>1
    <2>6. CASE o.denom # 0 /\ o.num # 0 /\ o.period # 0
        <3>1. c = IF ceil >= Word THEN CfgError("PeriodOverflowsU32")
                  ELSE IF ceil > HardHeadroom THEN CfgError("PeriodExceedsKernelHeadroom") ELSE good
            BY <2>6 DEF TickfulCfg, r
        <3> HIDE DEF c, good, ceil
        <3> QED BY <2>1, <2>2, <2>6, <3>1
    <2> QED BY <2>3, <2>4, <2>5, <2>6
<1>2. D \in Nat \ {0} /\ o.num \in Nat \ {0}
    <2>1. o.denom \in Nat \ {0} /\ o.period \in Nat \ {0} /\ MicrosPerSec \in Nat \ {0}
        BY <1>1, TicklessAssumption
    <2>2. o.denom * o.period \in Nat \ {0}
        BY <2>1
    <2> QED BY <1>1, <2>1, <2>2
<1>3. /\ r.n \in Nat \ {0} /\ r.d \in Nat \ {0}
      /\ \E g \in Nat \ {0} : D = g * r.n /\ o.num = g * r.d
    BY <1>2, ReducedIs
<1> HIDE DEF r
<1>4. r.n \div r.d \in Nat /\ r.n % r.d \in 0 .. r.d - 1 /\ (r.n \div r.d) * r.d + (r.n % r.d) = r.n
    <2>1. r.n \in Nat /\ r.n \in Int
        BY <1>3
    <2> QED BY <1>3, <2>1, DivIs, DivNat
<1>5. c.division = r.d /\ c.micros = r.n \div r.d /\ c.submicros = r.n % r.d
    BY <1>1 DEF FloorRatio
<1> HIDE DEF c
<1>6. c.micros * c.division + c.submicros = r.n
    BY <1>4, <1>5
<1>7. TickfulFits(o, c)
    BY <1>3, <1>4, <1>5, <1>6 DEF TickfulFits
<1> QED BY <1>7 DEF c

LEMMA TickIs ==
    ASSUME NEW o, NEW c, TickfulFits(o, c), NEW s, NEW k \in Nat, TickfulAt(c, s, k)
    PROVE  TickfulAt(c, Tick(c, s), k + 1)
PROOF
<1> DEFINE d == c.division
           n == c.micros * d + c.submicros
           a == (k * n) \div d
           b == (k * n) % d
           u == b + c.submicros
           q == u \div d
           r == u % d
           m == Tick(c, s)
<1>1. d \in Nat \ {0} /\ c.micros \in Nat /\ c.submicros \in Nat
    BY DEF TickfulFits
<1>2. n \in Nat
    BY <1>1
<1>3. a \in Nat /\ b \in 0 .. d - 1 /\ k * n = a * d + b
    <2> DEFINE y == k * n
    <2>1. y \in Nat /\ y \in Int
        BY <1>2
    <2> HIDE DEF y
    <2>2. y \div d \in Nat
        BY <1>1, <2>1, DivNat
    <2>3. y % d \in 0 .. d - 1 /\ y = (y \div d) * d + (y % d)
        BY <1>1, <2>1, DivIs
    <2> QED BY <2>2, <2>3 DEF y
<1>4. s.micros = a % Word /\ s.sub = b
    BY DEF TickfulAt
<1>5. u \in Nat
    BY <1>1, <1>3
<1>6. m = [micros |-> Wrap32(s.micros + c.micros + (u \div (d - 1 + 1))), sub |-> u % (d - 1 + 1)]
    <2> HIDE DEF a, b
    <2> QED BY <1>1, <1>4 DEF Tick, WrappingAdd
<1> HIDE DEF a, b, u, m
<1>7. q \in Nat /\ r \in 0 .. d - 1 /\ u = q * d + r
    <2>1. u \in Int
        BY <1>5
    <2> HIDE DEF d
    <2>2. q \in Nat
        BY <1>1, <1>5, DivNat
    <2>3. r \in 0 .. d - 1 /\ u = q * d + r
        BY <1>1, <2>1, DivIs
    <2> QED BY <2>2, <2>3
<1>8. m.micros = (s.micros + c.micros + q) % Word /\ m.sub = r
    <2>1. d - 1 + 1 = d
        BY <1>1
    <2> QED BY <1>6, <2>1 DEF Wrap32
<1> HIDE DEF q, r
<1> DEFINE w == a + c.micros + q
<1>9. w \in Nat /\ (k + 1) * n = w * d + r /\ (k + 1) * n \in Int
    <2>1. (k + 1) * n = k * n + n
        BY <1>2
    <2>2. k * n + n = w * d + r
        <3> DEFINE ad == a * d
                   qd == q * d
                   pd == c.micros * d
                   y == k * n
        <3>1. w * d = ad + pd + qd /\ ad \in Nat /\ qd \in Nat /\ pd \in Nat
            BY <1>1, <1>3, <1>7
        <3>2. y = ad + b /\ u = qd + r /\ n = pd + c.submicros
            BY <1>3, <1>7
        <3>3. b \in Int /\ r \in Int /\ c.submicros \in Int /\ u = b + c.submicros
            BY <1>1, <1>3, <1>7 DEF u
        <3> HIDE DEF ad, qd, pd, y, n
        <3>4. y + n = ad + pd + qd + r
            BY <3>1, <3>2, <3>3
        <3> QED BY <3>1, <3>4 DEF y
    <2>3. w \in Nat
        BY <1>1, <1>3, <1>7
    <2>4. (k + 1) * n \in Int
        BY <1>2
    <2> QED BY <2>1, <2>2, <2>3, <2>4
<1>10. ((k + 1) * n) \div d = w /\ ((k + 1) * n) % d = r
    <2> DEFINE z == (k + 1) * n
    <2>1. z \in Int /\ w \in Int /\ z = w * d + r
        BY <1>9
    <2> HIDE DEF z, w, d
    <2>2. z \div d = w /\ z % d = r
        BY <1>1, <1>7, <2>1, DivUnique
    <2> QED BY <2>2 DEF z
<1>11. m.micros = w % Word
    <2> DEFINE e == c.micros + q
    <2>1. a \in Int /\ e \in Int
        BY <1>1, <1>3, <1>7
    <2>2. ((a % Word) + e) % Word = (a + e) % Word
        BY <2>1, WordIs, ModSum
    <2>3. a % Word \in Int
        BY <2>1, WordIs, DivIs
    <2>4. s.micros + c.micros + q = (a % Word) + e /\ w = a + e
        BY <1>1, <1>3, <1>4, <1>7, <2>3
    <2> QED BY <1>8, <2>2, <2>4
<1> HIDE DEF w
<1>12. TickfulAt(c, m, k + 1)
    BY <1>8, <1>10, <1>11 DEF TickfulAt
<1> QED BY <1>12 DEF m

-----------------------------------------------------------------------------
(* Every step keeps the invariant.                                         *)

LEMMA TdRunning ==
    ASSUME TdInv, tdStep # "off"
    PROVE  /\ TdTypes /\ (tdStep # "idle" \/ tdHandler # "none" => ~Tickful)
           /\ ~Tickful =>
                 /\ TdTimes /\ TdAlarm /\ Fits(tdOpt, tdCfg) /\ tdOpt.headroom \in Nat
                 /\ tdOpt.headroom <= tdCfg.hwMax /\ tdCfg.hwMax \in 0 .. WordMax
                 /\ tdCfg.osMax \in 0 .. WordMax /\ tdCfg.maxTimeout \in Nat \ {0}
                 /\ \A t \in Nat : tdBase <= t => OsTime(t) = OsAt(tdCfg, tdBase, t)
                 /\ \A os \in Nat : HwTime(os) = HwAt(tdCfg, tdBase, os)
PROOF
<1>1. TdTypes /\ tdCfg.err = "none"
    BY DEF TdInv, TdTypes
<1>2. tdStep # "idle" \/ tdHandler # "none" => ~Tickful
    BY DEF TdInv, TdTickful
<1>3. ASSUME ~Tickful
      PROVE  /\ TdTimes /\ TdAlarm /\ Fits(tdOpt, tdCfg) /\ tdOpt.headroom \in Nat
             /\ tdOpt.headroom <= tdCfg.hwMax /\ tdCfg.hwMax \in 0 .. WordMax
             /\ tdCfg.osMax \in 0 .. WordMax /\ tdCfg.maxTimeout \in Nat \ {0}
             /\ \A t \in Nat : tdBase <= t => OsTime(t) = OsAt(tdCfg, tdBase, t)
             /\ \A os \in Nat : HwTime(os) = HwAt(tdCfg, tdBase, os)
    <2>1. TdTimes /\ TdAlarm
        BY <1>3 DEF TdInv
    <2>2. /\ Fits(tdOpt, tdCfg)
          /\ \A t \in Nat : tdBase <= t => OsTime(t) = OsAt(tdCfg, tdBase, t)
          /\ \A os \in Nat : HwTime(os) = HwAt(tdCfg, tdBase, os)
        BY <1>1, <1>3, TdFits
    <2> QED BY <2>1, <2>2, HeadroomIs
<1> QED BY <1>1, <1>2, <1>3

LEMMA TdKept ==
    ASSUME ~Tickful, UNCHANGED tdOpt, tdStep' # "off", TdTypes', TdTimes', TdAlarm'
    PROVE  TdInv'
PROOF
BY DEF TdInv, Tickful

LEMMA TdBootKeeps ==
    ASSUME TdInv, TdBoot PROVE TdInv'
PROOF
<1>1. TdTypes /\ TdOff /\ ~Tickful /\ tdCfg.err = "none"
    BY DEF TdInv, TdBoot
<1>2. Fits(tdOpt, tdCfg)
    BY <1>1, TdFits
<1>3. PICK s \in CountsAtBoot :
        /\ tdNow' = s /\ tdBase' = s
        /\ tdRef' = ResetRef(tdRef, HwCount(s))
        /\ tdDev' = DummyCompare(s)
        /\ tdArm' = [hw |-> s, micros |-> tdCfg.maxTimeout]
        /\ tdDue' = s + WordMax
    BY DEF TdBoot
<1>4. /\ tdStep' = "arm"
      /\ UNCHANGED <<tdOpt, tdCfg, tdHandler, tdHandlerHw, tdSeen>>
    BY DEF TdBoot
<1>5. s \in Nat /\ WordMax \in Nat /\ (s # 0 => tdOpt.resettable)
    BY <1>3, WordIs DEF CountsAtBoot
<1>6. /\ tdOpt.headroom \in Nat /\ tdCfg.maxTimeout \in Nat \ {0}
    BY <1>2, HeadroomIs
<1>7. /\ tdRef = [os |-> 0, hw |-> 0, sub |-> 0] /\ tdSeen = 0 /\ tdHandler = "none"
      /\ tdDev = [at |-> 0, latch |-> FALSE]
    BY <1>1 DEF TdOff, RefInit
<1>8. tdDev' = [at |-> s + WordMax, latch |-> FALSE]
    BY <1>3, <1>7 DEF DummyCompare
<1>9. TdTypes'
    BY <1>1, <1>3, <1>4, <1>5, <1>6, <1>8 DEF TdTypes, Tickful
<1>10. CoreAt(tdCfg, tdRef', s, 0)
    <2> DEFINE n == NumOf(tdCfg)
               d == tdCfg.division
    <2>1. n \in Nat \ {0} /\ d \in Nat \ {0} /\ Limits(tdOpt, tdCfg, n, d)
        BY <1>2 DEF Fits, Rate
    <2>2. tdRef' = [os |-> 0, hw |-> s % (tdCfg.hwMax + 1), sub |-> 0]
        BY <1>3, <1>7 DEF ResetRef, HwCount
    <2> HIDE DEF n, d
    <2>3. ASSUME tdCfg.algorithm = "Stateless" PROVE s = 0
        <3>1. "Stateless" # "Stateful"
            OBVIOUS
        <3> QED BY <1>5, <2>1, <2>3, <3>1 DEF Limits
    <2>4. ASSUME tdCfg.algorithm = "Stateful" PROVE RefAt(tdRef', s, 0, n, d)
        <3>1. "Stateless" # "Stateful"
            OBVIOUS
        <3>2. tdCfg.hwMax + 1 = Word
            BY <2>1, <2>4, <3>1, WordIs DEF Limits
        <3>3. 0 * n = 0 /\ 0 \in Int /\ 0 = 0 * d + 0 /\ 0 = 0 * Word + 0 /\ 0 \in 0 .. d - 1 /\ 0 \in 0 .. Word - 1
            BY <2>1, WordIs
        <3>4. 0 \div d = 0 /\ 0 % d = 0 /\ 0 % Word = 0
            BY <2>1, <3>3, WordIs, DivUnique
        <3>5. s + 0 = s
            BY <1>5
        <3> QED BY <2>2, <3>2, <3>3, <3>4, <3>5 DEF RefAt
    <2> QED BY <2>3, <2>4 DEF CoreAt, Core, n, d
<1>11. /\ OsAt(tdCfg, s, s) \in Nat /\ 0 + tdCfg.maxTimeout \in Nat
       /\ HwAt(tdCfg, s, 0 + tdCfg.maxTimeout) \in Nat /\ s <= HwAt(tdCfg, s, 0 + tdCfg.maxTimeout)
    <2>1. s <= s /\ 0 + tdCfg.maxTimeout \in Nat /\ 0 + tdCfg.maxTimeout <= 0 + tdCfg.maxTimeout
        BY <1>5, <1>6
    <2> QED BY <1>2, <1>5, <2>1, TimesAre
<1>12. TdTimes'
    <2>1. CoreAt(tdCfg', tdRef', tdBase', tdSeen')
        BY <1>3, <1>4, <1>7, <1>10
    <2>2. tdSeen' <= OsAt(tdCfg', tdBase', tdNow')
        BY <1>3, <1>4, <1>7, <1>11
    <2>3. /\ tdBase' <= tdArm'.hw /\ tdArm'.hw <= tdNow' /\ tdNow' <= tdArm'.hw + tdOpt'.headroom
          /\ tdArm'.micros # 0 /\ tdArm'.micros <= tdCfg'.maxTimeout
        BY <1>3, <1>4, <1>5, <1>6
    <2>4. /\ tdSeen' <= OsAt(tdCfg', tdBase', tdArm'.hw)
          /\ tdArm'.hw <= HwAt(tdCfg', tdBase', tdSeen' + tdCfg'.maxTimeout) + tdOpt'.headroom
        BY <1>3, <1>4, <1>5, <1>6, <1>7, <1>11
    <2> QED BY <1>4, <1>7, <2>1, <2>2, <2>3, <2>4 DEF TdTimes
<1>13. TdAlarm'
    BY <1>4, <1>8 DEF TdAlarm
<1> QED BY <1>1, <1>4, <1>9, <1>12, <1>13, TdKept

LEMMA TdAdvanceKeeps ==
    ASSUME TdInv, TdAdvance PROVE TdInv'
PROOF
<1>1. /\ tdStep # "off" /\ ~Tickful
      /\ IF tdStep = "idle" THEN tdNow < tdDue + tdOpt.headroom ELSE tdNow < tdArm.hw + tdOpt.headroom
      /\ tdNow' = tdNow + 1
      /\ tdDev' = [tdDev EXCEPT !.latch = @ \/ (tdOpt.driver = "ostm" /\ HwCount(tdNow + 1) = tdDev.at)]
      /\ UNCHANGED <<tdOpt, tdCfg, tdRef, tdBase, tdStep, tdArm, tdHandler, tdHandlerHw, tdDue, tdSeen>>
    BY DEF TdAdvance
<1>2. /\ TdTypes /\ TdTimes /\ TdAlarm /\ Fits(tdOpt, tdCfg) /\ tdOpt.headroom \in Nat
      /\ tdCfg.hwMax \in 0 .. WordMax
    BY <1>1, TdRunning
<1>3. /\ tdNow \in Nat /\ tdBase \in Nat /\ tdBase <= tdNow /\ tdDue \in Nat /\ tdSeen \in Nat
      /\ tdArm.hw \in Nat /\ tdHandlerHw \in Nat /\ tdDev \in [at : Nat, latch : BOOLEAN]
    BY <1>2 DEF TdTypes
<1>4. /\ tdDev'.at = tdDev.at /\ tdDev' \in [at : Nat, latch : BOOLEAN]
      /\ tdDev'.latch <=> tdDev.latch \/ (tdOpt.driver = "ostm" /\ CountAt(tdCfg, tdNow + 1) = tdDev.at)
    BY <1>1, <1>3 DEF HwCount, CountAt
<1>5. TdTypes'
    BY <1>1, <1>2, <1>3, <1>4 DEF TdTypes, Tickful
<1>6. tdSeen <= OsAt(tdCfg, tdBase, tdNow + 1)
    <2>1. tdNow + 1 \in Nat /\ tdNow <= tdNow + 1
        BY <1>3
    <2>2. /\ OsAt(tdCfg, tdBase, tdNow) \in Nat /\ OsAt(tdCfg, tdBase, tdNow + 1) \in Nat
          /\ OsAt(tdCfg, tdBase, tdNow) <= OsAt(tdCfg, tdBase, tdNow + 1)
        BY <1>2, <1>3, <2>1, TimesAre
    <2>3. tdSeen <= OsAt(tdCfg, tdBase, tdNow)
        BY <1>2 DEF TdTimes
    <2> QED BY <1>3, <2>2, <2>3
<1>7. TdTimes'
    <2>1. tdStep \in {"off", "idle", "arm", "check"}
        BY <1>2 DEF TdTypes
    <2>2. tdStep = "idle" => tdNow + 1 <= tdDue + tdOpt.headroom
        BY <1>1, <1>2, <1>3
    <2>3. tdStep \in {"arm", "check"} => tdNow + 1 <= tdArm.hw + tdOpt.headroom
        BY <1>1, <1>2, <1>3
    <2>4. tdArm.hw <= tdNow => tdArm.hw <= tdNow + 1
        BY <1>3
    <2>5. tdHandlerHw <= tdNow => tdHandlerHw <= tdNow + 1
        BY <1>3
    <2> QED BY <1>1, <1>2, <1>6, <2>1, <2>2, <2>3, <2>4, <2>5 DEF TdTimes
<1>8. TdAlarm'
    <2>1. Level => ~tdDev'.latch
        BY <1>2, <1>4 DEF TdAlarm, Level
    <2>2. ASSUME tdStep = "idle", Level PROVE tdDev.at = tdDue \/ (tdDev.at = 0 /\ tdDue <= tdNow + 1)
        BY <1>2, <1>3, <2>2 DEF TdAlarm
    <2>3. ASSUME tdStep = "idle", tdOpt.driver = "ostm", tdHandler = "none", ~tdDev'.latch
          PROVE  /\ tdNow + 1 < tdDue /\ tdDue - (tdNow + 1) <= tdCfg.hwMax
                 /\ tdDev.at = CountAt(tdCfg, tdDue)
        <3>1. ~tdDev.latch /\ CountAt(tdCfg, tdNow + 1) # tdDev.at
            BY <1>4, <2>3
        <3>2. tdNow < tdDue /\ tdDue - tdNow <= tdCfg.hwMax /\ tdDev.at = CountAt(tdCfg, tdDue)
            BY <1>2, <2>3, <3>1 DEF TdAlarm
        <3>3. tdNow + 1 # tdDue
            BY <3>1, <3>2
        <3>4. tdCfg.hwMax \in Int
            BY <1>2, WordIs
        <3> QED BY <1>3, <3>2, <3>3, <3>4
    <2>4. ASSUME tdStep = "idle", tdOpt.driver = "sp804", tdHandler = "none"
          PROVE  tdDev'.latch \/ tdDev.at <= tdDue + tdOpt.headroom
        BY <1>2, <1>4, <2>4 DEF TdAlarm
    <2>5. tdStep = "check" => tdOpt.driver = "ostm" /\ tdDev.at = CountAt(tdCfg, tdDue)
        BY <1>2 DEF TdAlarm
    <2> QED BY <1>1, <1>4, <2>1, <2>2, <2>3, <2>4, <2>5 DEF TdAlarm, Level
<1> QED BY <1>1, <1>5, <1>7, <1>8, TdKept

LEMMA TdPendTickAfterKeeps ==
    ASSUME TdInv, "Stateful" \notin TdNested, NEW micros \in 1 .. Word, micros <= tdCfg.maxTimeout,
           TdPendTickAfter(micros)
    PROVE  TdInv'
PROOF
<1>1. /\ tdStep = "idle" /\ ~Tickful /\ (tdHandler = "read" => tdCfg.algorithm # "Stateful")
      /\ tdArm' = [hw |-> tdNow, micros |-> micros] /\ tdStep' = "arm"
      /\ UNCHANGED <<tdOpt, tdCfg, tdRef, tdNow, tdBase, tdDev, tdHandler, tdHandlerHw, tdDue, tdSeen>>
    BY DEF TdPendTickAfter, TdEnter
<1>2. /\ TdTypes /\ TdTimes /\ TdAlarm /\ Fits(tdOpt, tdCfg) /\ tdOpt.headroom \in Nat
      /\ tdCfg.maxTimeout \in Nat
    BY <1>1, TdRunning
<1>3. tdNow \in Nat /\ tdBase \in Nat /\ tdBase <= tdNow /\ tdDue \in Nat /\ tdSeen \in Nat
    BY <1>2 DEF TdTypes
<1>4. micros \in Nat /\ micros # 0
    BY WordIs
<1>5. TdTypes'
    BY <1>1, <1>2, <1>3, <1>4 DEF TdTypes, Tickful
<1>6. tdNow <= HwAt(tdCfg, tdBase, tdSeen + tdCfg.maxTimeout) + tdOpt.headroom
    <2>1. tdNow <= tdDue + tdOpt.headroom /\ tdDue <= HwAt(tdCfg, tdBase, tdSeen + tdCfg.maxTimeout)
        BY <1>1, <1>2 DEF TdTimes
    <2>2. tdSeen + tdCfg.maxTimeout \in Nat /\ tdSeen + tdCfg.maxTimeout <= tdSeen + tdCfg.maxTimeout
        BY <1>2, <1>3
    <2>3. HwAt(tdCfg, tdBase, tdSeen + tdCfg.maxTimeout) \in Nat
        BY <1>2, <1>3, <2>2, TimesAre
    <2> QED BY <1>2, <1>3, <2>1, <2>3
<1>7. TdTimes'
    <2>1. /\ tdBase <= tdNow /\ tdNow <= tdNow /\ tdNow <= tdNow + tdOpt.headroom
        BY <1>2, <1>3
    <2> QED BY <1>1, <1>2, <1>4, <1>6, <2>1 DEF TdTimes
<1>8. TdAlarm'
    BY <1>1, <1>2 DEF TdAlarm, Level
<1> QED BY <1>1, <1>5, <1>7, <1>8, TdKept

LEMMA TdProgramKeeps ==
    ASSUME TdInv, TdProgram PROVE TdInv'
PROOF
<1> DEFINE t == tdArm.hw
           marked == MarkReference(tdCfg, tdRef, HwCount(t))
           m == Measure(tdCfg, marked, HwCount(t), tdArm.micros)
           os == OsAt(tdCfg, tdBase, t)
           due == HwAt(tdCfg, tdBase, os + tdArm.micros)
<1>1. tdStep = "arm" /\ ~Tickful
    BY TdRunning DEF TdProgram
<1>2. /\ TdTypes /\ TdTimes /\ TdAlarm /\ Fits(tdOpt, tdCfg) /\ tdOpt.headroom \in Nat
      /\ tdCfg.maxTimeout \in Nat /\ tdCfg.hwMax \in 0 .. WordMax
      /\ \A s \in Nat : tdBase <= s => OsTime(s) = OsAt(tdCfg, tdBase, s)
      /\ \A k \in Nat : HwTime(k) = HwAt(tdCfg, tdBase, k)
    BY <1>1, TdRunning
<1>3. /\ tdNow \in Nat /\ tdBase \in Nat /\ tdBase <= tdNow /\ tdSeen \in Nat
      /\ t \in Nat /\ tdArm.micros \in Nat /\ tdHandlerHw \in Nat
      /\ tdDev \in [at : Nat, latch : BOOLEAN] /\ tdHandler \in {"none", "read", "tick"}
    BY <1>2 DEF TdTypes
<1>4. /\ tdBase <= t /\ t <= tdNow /\ tdNow <= t + tdOpt.headroom
      /\ tdArm.micros # 0 /\ tdArm.micros <= tdCfg.maxTimeout
      /\ tdSeen <= os /\ t <= HwAt(tdCfg, tdBase, tdSeen + tdCfg.maxTimeout) + tdOpt.headroom
      /\ CoreAt(tdCfg, tdRef, tdBase, tdSeen)
    BY <1>1, <1>2 DEF TdTimes
<1>5. os \in Nat /\ os <= OsAt(tdCfg, tdBase, tdNow)
    BY <1>2, <1>3, <1>4, TimesAre
<1>6. OsTime(t) = os /\ HwTime(os + tdArm.micros) = due /\ HwCount(t) = CountAt(tdCfg, t)
    <2>1. os + tdArm.micros \in Nat
        BY <1>3, <1>5
    <2> QED BY <1>2, <1>3, <1>4, <2>1 DEF HwCount, CountAt
<1>7. CoreAt(tdCfg, marked, tdBase, os)
    <2>1. CoreAt(tdCfg, MarkReference(tdCfg, tdRef, CountAt(tdCfg, t)), tdBase, OsAt(tdCfg, tdBase, t))
        BY <1>2, <1>3, <1>4, WithinReach
    <2> QED BY <1>6, <2>1
<1>8. due \in Nat /\ t < due /\ due - t <= tdCfg.hwMax /\ m.endHw = CountAt(tdCfg, due) /\ m.hwTicks = due - t
    <2> DEFINE micros == tdArm.micros
    <2>1. micros \in Nat \ {0} /\ micros <= tdCfg.maxTimeout
        BY <1>3, <1>4
    <2> HIDE DEF marked, micros, t
    <2>2. LET e == HwAt(tdCfg, tdBase, OsAt(tdCfg, tdBase, t) + micros)
              mm == Measure(tdCfg, marked, CountAt(tdCfg, t), micros)
          IN e \in Nat /\ t < e /\ e - t <= tdCfg.hwMax /\ mm.endHw = CountAt(tdCfg, e) /\ mm.hwTicks = e - t
        BY <1>2, <1>3, <1>4, <1>7, <2>1, MeasuredIs
    <2> QED BY <1>6, <2>2 DEF micros
<1>9. /\ tdRef' = marked /\ tdSeen' = os /\ tdDue' = due
      /\ tdDev' = CASE Level -> ProgramMtimecmp(m)
                    [] tdOpt.driver = "sp804" -> ProgramTimer2(m)
                    [] tdOpt.driver = "ostm" -> ProgramOstmCmp(m)
      /\ IF tdOpt.driver = "ostm" THEN tdStep' = "check" /\ UNCHANGED <<tdArm, tdHandler>>
         ELSE tdStep' = "idle" /\ tdArm' = NoArm /\ tdHandler' = TickDone
      /\ UNCHANGED <<tdOpt, tdCfg, tdNow, tdBase, tdHandlerHw>>
    BY <1>6 DEF TdProgram
<1>10. tdOpt.driver \in {"mtime", "sbi", "sp804", "ostm"}
    BY <1>1, <1>2, TdOptionIs DEF Tickful
<1> HIDE DEF t, marked, m, os, due
<1>11. tdHandler' \in {"none", "read", "tick"} /\ (tdHandler' = "read" => tdHandler = "read")
       /\ (tdHandler' # "none" => tdHandler' = tdHandler)
    BY <1>3, <1>9 DEF TickDone
<1>12. /\ Level => tdDev' = [tdDev EXCEPT !.at = due]
       /\ tdOpt.driver = "sp804" => tdDev' = [tdDev EXCEPT !.at = tdNow + (due - t)]
       /\ tdOpt.driver = "ostm" => tdDev' = [tdDev EXCEPT !.at = CountAt(tdCfg, due)]
    <2>1. CASE Level
        <3>1. tdDev' = ProgramMtimecmp(m)
            BY <1>9, <2>1 DEF Level
        <3>2. t + (due - t) = due
            BY <1>3, <1>8
        <3> QED BY <1>8, <2>1, <3>1, <3>2 DEF ProgramMtimecmp, Level, t
    <2>2. CASE tdOpt.driver = "sp804"
        <3>1. ~Level /\ tdDev' = ProgramTimer2(m)
            BY <1>9, <2>2 DEF Level
        <3> QED BY <1>8, <2>2, <3>1 DEF ProgramTimer2
    <2>3. CASE tdOpt.driver = "ostm"
        <3>1. ~Level /\ tdDev' = ProgramOstmCmp(m)
            BY <1>9, <2>3 DEF Level
        <3> QED BY <1>8, <2>3, <3>1 DEF ProgramOstmCmp
    <2> QED BY <1>10, <2>1, <2>2, <2>3 DEF Level
<1>13. tdDev' \in [at : Nat, latch : BOOLEAN] /\ tdDev'.latch = tdDev.latch
       /\ (Level => tdDev'.at = due) /\ (tdOpt.driver = "sp804" => tdDev'.at = tdNow + (due - t))
       /\ (tdOpt.driver = "ostm" => tdDev'.at = CountAt(tdCfg, due))
    <2>1. tdNow + (due - t) \in Nat
        BY <1>3, <1>8
    <2>2. CountAt(tdCfg, due) \in Nat
        <3> DEFINE k == tdCfg.hwMax + 1
        <3>1. k \in Nat \ {0} /\ due \in Int
            BY <1>2, <1>8, WordIs
        <3> HIDE DEF k
        <3>2. due % k \in 0 .. k - 1
            BY <3>1, DivIs
        <3>3. due % k \in Nat
            BY <3>1, <3>2
        <3> QED BY <3>3 DEF k, CountAt
    <2> QED BY <1>3, <1>8, <1>10, <1>12, <2>1, <2>2 DEF Level
<1>14. TdTypes'
    <2>1. tdArm' \in [hw : Nat, micros : Nat]
        <3>1. tdArm \in [hw : Nat, micros : Nat]
            BY <1>2 DEF TdTypes
        <3> QED BY <1>9, <3>1 DEF NoArm
    <2>2. tdStep' \in {"off", "idle", "arm", "check"}
        BY <1>9
    <2> QED BY <1>1, <1>2, <1>3, <1>5, <1>8, <1>9, <1>11, <1>13, <2>1, <2>2 DEF TdTypes, Tickful
<1>15. tdDue' <= HwAt(tdCfg, tdBase, os + tdCfg.maxTimeout) /\ tdBase <= tdDue'
    <2> DEFINE j == os + tdArm.micros
               k == os + tdCfg.maxTimeout
    <2>1. j \in Nat /\ k \in Nat /\ j <= k
        BY <1>2, <1>3, <1>4, <1>5
    <2> HIDE DEF j, k
    <2>2. tdBase <= HwAt(tdCfg, tdBase, j) /\ HwAt(tdCfg, tdBase, j) <= HwAt(tdCfg, tdBase, k)
        BY <1>2, <1>3, <2>1, TimesAre
    <2> QED BY <1>9, <2>2 DEF due, j, k
<1>16. tdNow <= tdDue' + tdOpt.headroom
    BY <1>2, <1>3, <1>4, <1>8, <1>9
<1>17. TdTimes'
    <2>1. tdHandler' = "read" =>
             /\ tdBase <= tdHandlerHw /\ tdHandlerHw <= tdNow /\ tdCfg.algorithm # "Stateful"
        BY <1>1, <1>2, <1>11 DEF TdTimes
    <2>2. CoreAt(tdCfg', tdRef', tdBase', tdSeen') /\ tdSeen' <= OsAt(tdCfg', tdBase', tdNow')
        BY <1>5, <1>7, <1>9
    <2>3. tdStep' = "idle" =>
             /\ tdBase' <= tdDue' /\ tdNow' <= tdDue' + tdOpt'.headroom
             /\ tdDue' <= HwAt(tdCfg', tdBase', tdSeen' + tdCfg'.maxTimeout)
        BY <1>9, <1>15, <1>16
    <2>4. tdStep' # "arm" /\ (tdStep' = "check" => tdArm' = tdArm)
        BY <1>9
    <2>5. tdStep' = "check" =>
             /\ tdBase' <= tdArm'.hw /\ tdArm'.hw <= tdNow' /\ tdNow' <= tdArm'.hw + tdOpt'.headroom
             /\ tdArm'.micros # 0 /\ tdArm'.micros <= tdCfg'.maxTimeout
             /\ tdSeen' = OsAt(tdCfg', tdBase', tdArm'.hw)
             /\ tdDue' = HwAt(tdCfg', tdBase', tdSeen' + tdArm'.micros)
        BY <1>4, <1>9, <2>4 DEF t, os, due
    <2> QED BY <1>9, <2>1, <2>2, <2>3, <2>4, <2>5 DEF TdTimes
<1>18. TdAlarm'
    <2>1. Level => ~tdDev'.latch
        BY <1>2, <1>13 DEF TdAlarm
    <2>2. tdStep' = "check" => tdOpt.driver = "ostm"
        BY <1>9
    <2>3. tdOpt.driver = "sp804" => tdDev'.at <= tdDue' + tdOpt.headroom
        BY <1>2, <1>3, <1>4, <1>8, <1>9, <1>13
    <2>4. tdStep' = "idle" => tdOpt.driver # "ostm"
        BY <1>9
    <2> QED BY <1>9, <1>13, <2>1, <2>2, <2>3, <2>4 DEF TdAlarm, Level
<1>19. tdStep' # "off"
    BY <1>9
<1> QED BY <1>1, <1>9, <1>14, <1>17, <1>18, <1>19, TdKept

LEMMA TdCheckKeeps ==
    ASSUME TdInv, TdCheck PROVE TdInv'
PROOF
<1> DEFINE t == tdArm.hw
           m == Measure(tdCfg, tdRef, HwCount(t), tdArm.micros)
           os == OsAt(tdCfg, tdBase, t)
<1>1. tdStep = "check" /\ ~Tickful
    BY TdRunning DEF TdCheck
<1>2. /\ TdTypes /\ TdTimes /\ TdAlarm /\ Fits(tdOpt, tdCfg) /\ tdOpt.headroom \in Nat
      /\ tdCfg.maxTimeout \in Nat /\ tdCfg.hwMax \in 0 .. WordMax /\ tdOpt.headroom <= tdCfg.hwMax
    BY <1>1, TdRunning
<1>3. /\ tdNow \in Nat /\ tdBase \in Nat /\ tdBase <= tdNow /\ tdSeen \in Nat
      /\ t \in Nat /\ tdArm.micros \in Nat /\ tdHandlerHw \in Nat /\ tdDue \in Nat
      /\ tdDev \in [at : Nat, latch : BOOLEAN] /\ tdHandler \in {"none", "read", "tick"}
    BY <1>2 DEF TdTypes
<1>4. /\ tdBase <= t /\ t <= tdNow /\ tdNow <= t + tdOpt.headroom
      /\ tdArm.micros # 0 /\ tdArm.micros <= tdCfg.maxTimeout
      /\ tdSeen = os /\ tdDue = HwAt(tdCfg, tdBase, os + tdArm.micros)
      /\ CoreAt(tdCfg, tdRef, tdBase, os)
    BY <1>1, <1>2 DEF TdTimes
<1>5. t < tdDue /\ tdDue - t <= tdCfg.hwMax /\ m.hwTicks = tdDue - t
    <2> DEFINE micros == tdArm.micros
    <2>1. micros \in Nat \ {0} /\ micros <= tdCfg.maxTimeout
        BY <1>3, <1>4
    <2>2. HwCount(t) = CountAt(tdCfg, t)
        BY DEF HwCount, CountAt
    <2> HIDE DEF micros, t
    <2>3. LET e == HwAt(tdCfg, tdBase, OsAt(tdCfg, tdBase, t) + micros)
              mm == Measure(tdCfg, tdRef, CountAt(tdCfg, t), micros)
          IN e \in Nat /\ t < e /\ e - t <= tdCfg.hwMax /\ mm.endHw = CountAt(tdCfg, e) /\ mm.hwTicks = e - t
        BY <1>2, <1>3, <1>4, <2>1, MeasuredIs
    <2> QED BY <1>4, <2>2, <2>3 DEF micros
<1>6. /\ tdDev' = [tdDev EXCEPT !.latch = @ \/ Wrap32(HwCount(tdNow) - HwCount(t)) >= m.hwTicks]
      /\ tdStep' = "idle" /\ tdArm' = NoArm /\ tdHandler' = TickDone
      /\ UNCHANGED <<tdOpt, tdCfg, tdRef, tdNow, tdBase, tdHandlerHw, tdDue, tdSeen>>
    BY DEF TdCheck
<1>7. tdOpt.driver = "ostm" /\ tdDev.at = CountAt(tdCfg, tdDue)
    BY <1>1, <1>2 DEF TdAlarm
<1>8. tdCfg.hwMax = WordMax
    <2>1. tdOpt.full
        BY <1>2, <1>7, TdOptionIs
    <2> QED BY <1>2, <2>1 DEF Fits, Limits
<1>9. Wrap32(HwCount(tdNow) - HwCount(t)) = tdNow - t
    <2>1. tdCfg.hwMax + 1 = Word
        BY <1>8, WordIs
    <2>2. tdNow \in Int /\ t \in Int /\ t <= tdNow /\ tdNow - t <= WordMax
        BY <1>2, <1>3, <1>4, <1>8, WordIs
    <2>3. Wrap32((tdNow % Word) - (t % Word)) = tdNow - t
        BY <2>2, WrappedGap
    <2> QED BY <2>1, <2>3 DEF HwCount
<1> HIDE DEF t, m, os
<1>10. /\ tdDev' \in [at : Nat, latch : BOOLEAN] /\ tdDev'.at = tdDev.at
       /\ tdDev'.latch <=> tdDev.latch \/ tdNow - t >= tdDue - t
    BY <1>3, <1>5, <1>6, <1>9
<1>11. tdHandler' \in {"none", "read", "tick"} /\ (tdHandler' = "read" => tdHandler = "read")
    BY <1>3, <1>6 DEF TickDone
<1>12. TdTypes'
    BY <1>1, <1>2, <1>3, <1>6, <1>10, <1>11 DEF TdTypes, Tickful, NoArm
<1>13. tdDue <= HwAt(tdCfg, tdBase, tdSeen + tdCfg.maxTimeout) /\ tdBase <= tdDue
    <2> DEFINE j == os + tdArm.micros
               k == os + tdCfg.maxTimeout
    <2>1. j \in Nat /\ k \in Nat /\ j <= k
        BY <1>2, <1>3, <1>4
    <2> HIDE DEF j, k
    <2>2. tdBase <= HwAt(tdCfg, tdBase, j) /\ HwAt(tdCfg, tdBase, j) <= HwAt(tdCfg, tdBase, k)
        BY <1>2, <1>3, <2>1, TimesAre
    <2> QED BY <1>4, <2>2 DEF j, k
<1>14. tdNow <= tdDue + tdOpt.headroom
    BY <1>2, <1>3, <1>4, <1>5
<1>15. TdTimes'
    <2>1. tdHandler' = "read" =>
             /\ tdBase <= tdHandlerHw /\ tdHandlerHw <= tdNow /\ tdCfg.algorithm # "Stateful"
        BY <1>1, <1>2, <1>11 DEF TdTimes
    <2>2. CoreAt(tdCfg, tdRef, tdBase, tdSeen) /\ tdSeen <= OsAt(tdCfg, tdBase, tdNow)
        BY <1>2 DEF TdTimes
    <2> QED BY <1>6, <1>13, <1>14, <2>1, <2>2 DEF TdTimes
<1>16. TdAlarm'
    <2>1. ASSUME ~tdDev'.latch PROVE tdNow < tdDue /\ tdDue - tdNow <= tdCfg.hwMax
        <3>1. tdNow < tdDue
            BY <1>3, <1>10, <2>1
        <3>2. tdDue - tdNow <= tdDue - t
            BY <1>3, <1>4 DEF t
        <3> QED BY <1>2, <1>3, <1>5, <3>1, <3>2, WordIs
    <2> QED BY <1>6, <1>7, <1>10, <2>1 DEF TdAlarm, Level
<1> QED BY <1>1, <1>6, <1>12, <1>15, <1>16, TdKept

LEMMA TdPendTickKeeps ==
    ASSUME TdInv, TdPendTick PROVE TdInv'
PROOF
<1>1. /\ tdStep = "idle" /\ ~Tickful
      /\ tdDev' = PendNow /\ tdDue' = Least(tdNow, tdDue) /\ tdHandler' = TickDone
      /\ UNCHANGED <<tdOpt, tdCfg, tdRef, tdNow, tdBase, tdStep, tdArm, tdHandlerHw, tdSeen>>
    BY DEF TdPendTick, TdEnter
<1>2. TdTypes /\ TdTimes /\ TdAlarm /\ Fits(tdOpt, tdCfg) /\ tdOpt.headroom \in Nat
      /\ tdCfg.maxTimeout \in Nat
    BY <1>1, TdRunning
<1>3. /\ tdNow \in Nat /\ tdBase \in Nat /\ tdBase <= tdNow /\ tdDue \in Nat /\ tdSeen \in Nat
      /\ tdDev \in [at : Nat, latch : BOOLEAN] /\ tdHandler \in {"none", "read", "tick"}
    BY <1>2 DEF TdTypes
<1>4. tdDue' \in Nat /\ tdDue' <= tdDue /\ tdDue' <= tdNow /\ (tdDue' = tdNow \/ tdDue' = tdDue)
    BY <1>1, <1>3 DEF Least
<1>5. /\ tdDev' \in [at : Nat, latch : BOOLEAN]
      /\ Level => tdDev'.at = 0 /\ tdDev'.latch = tdDev.latch
      /\ ~Level => tdDev'.latch
    BY <1>1, <1>3 DEF PendNow
<1>6. tdHandler' \in {"none", "read", "tick"} /\ (tdHandler' = "read" => tdHandler = "read")
    BY <1>1, <1>3 DEF TickDone
<1>7. TdTypes'
    BY <1>1, <1>2, <1>4, <1>5, <1>6 DEF TdTypes, Tickful
<1>8. TdTimes'
    <2>1. /\ tdBase <= tdDue /\ tdNow <= tdDue + tdOpt.headroom
          /\ tdDue <= HwAt(tdCfg, tdBase, tdSeen + tdCfg.maxTimeout)
        BY <1>1, <1>2 DEF TdTimes
    <2>2. HwAt(tdCfg, tdBase, tdSeen + tdCfg.maxTimeout) \in Nat
        <3>1. tdSeen + tdCfg.maxTimeout \in Nat /\ tdSeen + tdCfg.maxTimeout <= tdSeen + tdCfg.maxTimeout
            BY <1>2, <1>3
        <3> QED BY <1>2, <1>3, <3>1, TimesAre
    <2>3. /\ tdBase <= tdDue' /\ tdNow <= tdDue' + tdOpt.headroom
          /\ tdDue' <= HwAt(tdCfg, tdBase, tdSeen + tdCfg.maxTimeout)
        BY <1>2, <1>3, <1>4, <2>1, <2>2
    <2> QED BY <1>1, <1>2, <1>6, <2>3 DEF TdTimes
<1>9. TdAlarm'
    <2>1. Level => ~tdDev.latch
        BY <1>2 DEF TdAlarm
    <2>2. tdOpt.driver \in {"sp804", "ostm"} => ~Level
        BY DEF Level
    <2> QED BY <1>1, <1>4, <1>5, <2>1, <2>2 DEF TdAlarm, Level
<1> QED BY <1>1, <1>7, <1>8, <1>9, TdKept

LEMMA TdHandleTickKeeps ==
    ASSUME TdInv, TdHandleTick PROVE TdInv'
PROOF
<1>1. /\ tdStep = "idle" /\ ~Tickful /\ tdHandler = "none"
      /\ tdDev' = [tdDev EXCEPT !.latch = FALSE]
      /\ tdHandler' = "read" /\ tdHandlerHw' = tdNow
      /\ UNCHANGED <<tdOpt, tdCfg, tdRef, tdNow, tdBase, tdStep, tdArm, tdDue, tdSeen>>
    BY DEF TdHandleTick
<1>2. TdTypes /\ TdTimes /\ TdAlarm
    BY <1>1, TdRunning
<1>3. tdNow \in Nat /\ tdBase <= tdNow /\ tdNow <= tdNow /\ tdDev \in [at : Nat, latch : BOOLEAN]
    BY <1>2 DEF TdTypes
<1>4. tdDev' \in [at : Nat, latch : BOOLEAN] /\ tdDev'.at = tdDev.at /\ ~tdDev'.latch
    BY <1>1, <1>3
<1>5. TdTypes'
    BY <1>1, <1>2, <1>3, <1>4 DEF TdTypes, Tickful
<1>6. TdTimes'
    BY <1>1, <1>2, <1>3 DEF TdTimes
<1>7. TdAlarm'
    BY <1>1, <1>2, <1>4 DEF TdAlarm, Level
<1> QED BY <1>1, <1>5, <1>6, <1>7, TdKept

LEMMA TdMarkKeeps ==
    ASSUME TdInv, TdMark PROVE TdInv'
PROOF
<1> DEFINE t == tdHandlerHw
           os == OsAt(tdCfg, tdBase, t)
<1>1. /\ tdStep = "idle" /\ tdHandler = "read" /\ ~Tickful
      /\ tdRef' = MarkReference(tdCfg, tdRef, HwCount(t))
      /\ tdSeen' = Most(tdSeen, OsTime(t)) /\ tdHandler' = "tick" /\ tdHandlerHw' = 0
      /\ UNCHANGED <<tdOpt, tdCfg, tdNow, tdBase, tdDev, tdStep, tdArm, tdDue>>
    BY TdRunning DEF TdMark
<1>2. /\ TdTypes /\ TdTimes /\ TdAlarm /\ Fits(tdOpt, tdCfg) /\ tdOpt.headroom \in Nat
      /\ tdCfg.maxTimeout \in Nat
      /\ \A s \in Nat : tdBase <= s => OsTime(s) = OsAt(tdCfg, tdBase, s)
    BY <1>1, TdRunning
<1>3. tdNow \in Nat /\ tdBase \in Nat /\ tdSeen \in Nat /\ t \in Nat /\ tdDue \in Nat
    BY <1>2 DEF TdTypes
<1>4. /\ tdBase <= t /\ t <= tdNow /\ tdSeen <= OsAt(tdCfg, tdBase, tdNow)
      /\ tdNow <= tdDue + tdOpt.headroom /\ tdBase <= tdDue
      /\ tdDue <= HwAt(tdCfg, tdBase, tdSeen + tdCfg.maxTimeout)
      /\ CoreAt(tdCfg, tdRef, tdBase, tdSeen)
      /\ tdCfg.algorithm = "Stateful" => tdSeen <= os
    BY <1>1, <1>2 DEF TdTimes
<1>5. os \in Nat /\ os <= OsAt(tdCfg, tdBase, tdNow) /\ OsTime(t) = os
    BY <1>2, <1>3, <1>4, TimesAre
<1> HIDE DEF os, t
<1>6. tdSeen' \in Nat /\ tdSeen <= tdSeen' /\ tdSeen' <= OsAt(tdCfg, tdBase, tdNow)
      /\ (tdSeen <= os => tdSeen' = os)
    BY <1>1, <1>3, <1>4, <1>5 DEF Most
<1>7. tdDue <= HwAt(tdCfg, tdBase, tdSeen' + tdCfg.maxTimeout)
      /\ HwAt(tdCfg, tdBase, tdSeen + tdCfg.maxTimeout) \in Nat
    <2> DEFINE j == tdSeen + tdCfg.maxTimeout
               k == tdSeen' + tdCfg.maxTimeout
    <2>1. j \in Nat /\ k \in Nat /\ j <= k /\ k <= k
        BY <1>2, <1>3, <1>6
    <2>2. tdDue <= HwAt(tdCfg, tdBase, j)
        BY <1>4
    <2> HIDE DEF j, k
    <2>3. /\ HwAt(tdCfg, tdBase, j) \in Nat /\ HwAt(tdCfg, tdBase, k) \in Nat
          /\ HwAt(tdCfg, tdBase, j) <= HwAt(tdCfg, tdBase, k)
        BY <1>2, <1>3, <2>1, TimesAre
    <2>4. tdDue <= HwAt(tdCfg, tdBase, k)
        BY <1>3, <2>2, <2>3
    <2> QED BY <2>3, <2>4 DEF j, k
<1>8. CoreAt(tdCfg, tdRef', tdBase, tdSeen')
    <2>1. CASE tdCfg.algorithm = "Stateful"
        <3>1. t <= HwAt(tdCfg, tdBase, tdSeen + tdCfg.maxTimeout) + tdOpt.headroom
            BY <1>2, <1>3, <1>4, <1>7
        <3>2. tdSeen <= os /\ tdSeen' = os
            BY <1>4, <1>6, <2>1
        <3>3. CoreAt(tdCfg, MarkReference(tdCfg, tdRef, CountAt(tdCfg, t)), tdBase, OsAt(tdCfg, tdBase, t))
            BY <1>2, <1>3, <1>4, <3>1, <3>2, WithinReach DEF os
        <3>4. HwCount(t) = CountAt(tdCfg, t)
            BY DEF HwCount, CountAt
        <3> QED BY <1>1, <3>2, <3>3, <3>4 DEF os
    <2>2. CASE tdCfg.algorithm # "Stateful"
        BY <1>4, <2>2 DEF CoreAt, Core
    <2> QED BY <2>1, <2>2
<1>9. TdTypes'
    BY <1>1, <1>2, <1>6 DEF TdTypes, Tickful
<1>10. TdTimes'
    BY <1>1, <1>4, <1>6, <1>7, <1>8 DEF TdTimes
<1>11. TdAlarm'
    BY <1>1, <1>2 DEF TdAlarm, Level
<1> QED BY <1>1, <1>9, <1>10, <1>11, TdKept

LEMMA SysTickFits ==
    ASSUME TdTypes, Tickful, tdCfg.err = "none" PROVE TickfulFits(tdOpt, tdCfg)
PROOF
<1>1. tdOpt.num \in Nat /\ tdOpt.denom \in Nat /\ tdOpt.period \in Nat
    BY TdOptionIs
<1>2. tdCfg = TickfulCfg(tdOpt)
    BY DEF TdTypes
<1> QED BY <1>1, <1>2, TickfulIs

LEMMA SysTickKeeps ==
    ASSUME TdInv, SysTickInit \/ SysTickPeriod \/ SysTickHandler PROVE TdInv'
PROOF
<1>1. Tickful /\ TdTypes /\ TdTickful /\ (tdStep = "off" => TdOff) /\ tdCfg.err = "none"
      /\ UNCHANGED tdOpt /\ tdStep' = "idle"
    BY DEF TdInv, TdTypes, SysTickInit, SysTickPeriod, SysTickHandler
<1>2. TickfulFits(tdOpt, tdCfg)
    BY <1>1, SysTickFits
<1>3. tdNow \in Nat /\ tdBase <= tdNow /\ tdBase \in Nat /\ tdDev \in [at : Nat, latch : BOOLEAN]
    BY <1>1 DEF TdTypes
<1>4. ASSUME TdTypes', TdTickful' PROVE TdInv'
    BY <1>1, <1>4 DEF TdInv, Tickful
<1>5. CASE SysTickInit
    <2>1. /\ tdStep = "off"
          /\ UNCHANGED <<tdOpt, tdCfg, tdRef, tdNow, tdBase, tdDev, tdArm, tdHandler, tdHandlerHw, tdDue, tdSeen>>
        BY <1>5 DEF SysTickInit
    <2>2. tdRef = [micros |-> 0, sub |-> 0] /\ tdNow = 0 /\ ~tdDev.latch
        BY <1>1, <2>1 DEF TdOff, TickfulInit
    <2>3. TickfulAt(tdCfg, tdRef, 0)
        <3> DEFINE d == tdCfg.division
                   n == tdCfg.micros * d + tdCfg.submicros
        <3>1. d \in Nat \ {0} /\ n \in Nat
            BY <1>2 DEF TickfulFits
        <3> HIDE DEF d, n
        <3>2. 0 * n = 0 /\ 0 \in Int /\ 0 = 0 * d + 0 /\ 0 = 0 * Word + 0 /\ 0 \in 0 .. d - 1 /\ 0 \in 0 .. Word - 1
            BY <3>1, WordIs
        <3>3. 0 \div d = 0 /\ 0 % d = 0 /\ 0 % Word = 0
            BY <3>1, <3>2, WordIs, DivUnique
        <3> QED BY <2>2, <3>2, <3>3 DEF TickfulAt, d, n
    <2>4. TdTypes'
        BY <1>1, <2>1 DEF TdTypes, Tickful
    <2>5. TdTickful'
        BY <1>1, <2>1, <2>2, <2>3 DEF TdTickful
    <2> QED BY <1>4, <2>4, <2>5
<1>6. CASE SysTickPeriod
    <2>1. /\ tdStep = "idle" /\ ~tdDev.latch /\ tdNow' = tdNow + 1 /\ tdDev' = [tdDev EXCEPT !.latch = TRUE]
          /\ UNCHANGED <<tdOpt, tdCfg, tdRef, tdBase, tdStep, tdArm, tdHandler, tdHandlerHw, tdDue, tdSeen>>
        BY <1>6 DEF SysTickPeriod
    <2>2. tdDev' \in [at : Nat, latch : BOOLEAN] /\ tdDev'.latch
        BY <1>3, <2>1
    <2>3. tdNow + 1 \in Nat /\ tdBase <= tdNow + 1 /\ tdNow + 1 # 0 /\ (tdNow + 1) - 1 = tdNow
        BY <1>3
    <2>4. TdTypes'
        BY <1>1, <2>1, <2>2, <2>3 DEF TdTypes, Tickful
    <2>5. TickfulAt(tdCfg, tdRef, tdNow)
        BY <1>1, <2>1 DEF TdTickful
    <2>6. TdTickful'
        BY <1>1, <2>1, <2>2, <2>3, <2>5 DEF TdTickful
    <2> QED BY <1>4, <2>4, <2>6
<1>7. CASE SysTickHandler
    <2>1. /\ tdStep = "idle" /\ tdDev.latch /\ tdDev' = [tdDev EXCEPT !.latch = FALSE] /\ tdRef' = Tick(tdCfg, tdRef)
          /\ UNCHANGED <<tdOpt, tdCfg, tdNow, tdBase, tdStep, tdArm, tdHandler, tdHandlerHw, tdDue, tdSeen>>
        BY <1>7 DEF SysTickHandler
    <2>2. tdDev' \in [at : Nat, latch : BOOLEAN] /\ ~tdDev'.latch
        BY <1>3, <2>1
    <2>3. TickfulAt(tdCfg, tdRef, tdNow - 1) /\ tdNow # 0
        BY <1>1, <2>1 DEF TdTickful
    <2>4. TickfulAt(tdCfg, Tick(tdCfg, tdRef), tdNow)
        <3> DEFINE k == tdNow - 1
        <3>1. k \in Nat /\ k + 1 = tdNow
            BY <1>3, <2>3
        <3>2. TickfulAt(tdCfg, tdRef, k)
            BY <2>3
        <3> HIDE DEF k
        <3>3. TickfulAt(tdCfg, Tick(tdCfg, tdRef), k + 1)
            BY <1>2, <3>1, <3>2, TickIs
        <3> QED BY <3>1, <3>3
    <2>5. TdTypes'
        BY <1>1, <2>1, <2>2 DEF TdTypes, Tickful
    <2>6. TdTickful'
        BY <1>1, <2>1, <2>2, <2>4 DEF TdTickful
    <2> QED BY <1>4, <2>5, <2>6
<1> QED BY <1>5, <1>6, <1>7

-----------------------------------------------------------------------------
(* The theorems about the timer drivers.                                   *)

\* The inductive invariant of the timer drivers, for any word, frequency and headroom:
\* the reference point is exactly an OS tick, the counter is at most the headroom
\* behind what the kernel has asked for, and the timer is set to that moment
\* (tickless.rs, tickful.rs and the drivers that use them).
THEOREM TdInvariant == "Stateful" \notin TdNested => (TdSpec => []TdInv)
PROOF
<1> SUFFICES ASSUME "Stateful" \notin TdNested PROVE TdSpec => []TdInv
    OBVIOUS
<1>1. TdInit => TdInv
    <2> SUFFICES ASSUME TdInit PROVE TdInv
        OBVIOUS
    <2>1. TdTypes
        BY DEF TdInit, TdTypes, NoArm, Tickful
    <2>2. TdOff /\ tdStep = "off"
        BY DEF TdInit, TdOff, Tickful
    <2>3. TdTickful
        BY <2>2 DEF TdTickful, TdOff
    <2> QED BY <2>1, <2>2, <2>3 DEF TdInv
<1>2. TdInv /\ [TdNext]_tdVars => TdInv'
    <2> SUFFICES ASSUME TdInv, [TdNext]_tdVars PROVE TdInv'
        OBVIOUS
    <2>1. CASE TdBoot
        BY <2>1, TdBootKeeps
    <2>2. CASE TdAdvance
        BY <2>2, TdAdvanceKeeps
    <2>3. CASE TdProgram
        BY <2>3, TdProgramKeeps
    <2>4. CASE TdCheck
        BY <2>4, TdCheckKeeps
    <2>5. CASE TdPendTick
        BY <2>5, TdPendTickKeeps
    <2>6. CASE TdHandleTick
        BY <2>6, TdHandleTickKeeps
    <2>7. CASE TdMark
        BY <2>7, TdMarkKeeps
    <2>8. CASE \E micros \in 1 .. Word : tdCfg.err = "none" /\ ~Tickful /\ micros <= tdCfg.maxTimeout
                                         /\ TdPendTickAfter(micros)
        BY <2>8, TdPendTickAfterKeeps
    <2>9. CASE SysTickInit \/ SysTickPeriod \/ SysTickHandler
        BY <2>9, SysTickKeeps
    <2>10. CASE UNCHANGED tdVars
        BY <2>10 DEF tdVars, TdInv, TdTypes, TdOff, TdTimes, TdAlarm, TdTickful, Tickful, Level
    <2> QED BY <2>1, <2>2, <2>3, <2>4, <2>5, <2>6, <2>7, <2>8, <2>9, <2>10 DEF TdNext
<1> QED BY <1>1, <1>2, PTL DEF TdSpec

\* tick_count is exact, across wrap-arounds of both counts and without drift
\* (TicklessStateTrait::tick_count and TickfulStateTrait::tick_count).
THEOREM TickCountExactCorrect == "Stateful" \notin TdNested => (TdSpec => []TickCountExact)
PROOF
<1> SUFFICES ASSUME "Stateful" \notin TdNested PROVE TdSpec => []TickCountExact
    OBVIOUS
<1>1. TdInv => TickCountExact
    <2> SUFFICES ASSUME TdInv, tdStep = "idle"
                 PROVE  IF Tickful
                        THEN ~tdDev.latch =>
                                TdTickCount = Wrap32((tdNow * tdOpt.period * tdOpt.denom * MicrosPerSec) \div tdOpt.num)
                        ELSE TdTickCount = OsTime(tdNow) % (tdCfg.osMax + 1)
        BY DEF TickCountExact
    <2>1. TdTypes /\ tdNow \in Nat /\ tdBase \in Nat /\ tdBase <= tdNow /\ tdSeen \in Nat /\ tdDue \in Nat
          /\ tdCfg.err = "none"
        BY DEF TdInv, TdTypes
    <2>2. ASSUME Tickful, ~tdDev.latch
          PROVE  TdTickCount = Wrap32((tdNow * tdOpt.period * tdOpt.denom * MicrosPerSec) \div tdOpt.num)
        <3> DEFINE d == tdCfg.division
                   n == tdCfg.micros * d + tdCfg.submicros
                   y == tdNow * n
        <3>1. TickfulFits(tdOpt, tdCfg)
            BY <2>1, <2>2, SysTickFits
        <3>2. TickfulAt(tdCfg, tdRef, tdNow)
            BY <2>2 DEF TdInv, TdTickful
        <3>3. tdRef.micros = (y \div d) % Word
            BY <3>2 DEF TickfulAt
        <3>4. d \in Nat \ {0} /\ n \in Nat
            BY <3>1 DEF TickfulFits
        <3>5. PICK g \in Nat \ {0} : tdOpt.num = g * d /\ tdOpt.denom * tdOpt.period * MicrosPerSec = g * n
            BY <3>1 DEF TickfulFits
        <3>6. tdOpt.denom \in Nat /\ tdOpt.period \in Nat /\ MicrosPerSec \in Nat
            BY <2>1, <2>2, TdOptionIs, TicklessAssumption
        <3> HIDE DEF d, n
        <3>7. tdNow * tdOpt.period * tdOpt.denom * MicrosPerSec = g * y
            <4>1. tdNow * tdOpt.period * tdOpt.denom * MicrosPerSec = tdNow * (tdOpt.denom * tdOpt.period * MicrosPerSec)
                BY <2>1, <3>6
            <4>2. tdNow * (g * n) = g * y
                BY <2>1, <3>4
            <4> QED BY <3>5, <4>1, <4>2
        <3>8. y \in Int
            BY <2>1, <3>4
        <3> HIDE DEF y
        <3>9. (g * y) \div (g * d) = y \div d
            BY <3>4, <3>8, DivFactor
        <3> QED BY <2>2, <3>3, <3>5, <3>7, <3>9 DEF TdTickCount, Wrap32
    <2>3. ASSUME ~Tickful
          PROVE  TdTickCount = OsTime(tdNow) % (tdCfg.osMax + 1)
        <3>1. /\ TdTimes /\ Fits(tdOpt, tdCfg) /\ tdOpt.headroom \in Nat /\ tdCfg.maxTimeout \in Nat
              /\ OsTime(tdNow) = OsAt(tdCfg, tdBase, tdNow)
            BY <2>1, <2>3, TdRunning
        <3>2. /\ CoreAt(tdCfg, tdRef, tdBase, tdSeen) /\ tdSeen <= OsAt(tdCfg, tdBase, tdNow)
              /\ tdNow <= tdDue + tdOpt.headroom
              /\ tdDue <= HwAt(tdCfg, tdBase, tdSeen + tdCfg.maxTimeout)
            BY <3>1 DEF TdTimes
        <3>3. tdNow <= HwAt(tdCfg, tdBase, tdSeen + tdCfg.maxTimeout) + tdOpt.headroom
            <4>1. tdSeen + tdCfg.maxTimeout \in Nat /\ tdSeen + tdCfg.maxTimeout <= tdSeen + tdCfg.maxTimeout
                BY <2>1, <3>1
            <4>2. HwAt(tdCfg, tdBase, tdSeen + tdCfg.maxTimeout) \in Nat
                BY <2>1, <3>1, <4>1, TimesAre
            <4> QED BY <2>1, <3>1, <3>2, <4>2
        <3>4. TickCount(tdCfg, tdRef, CountAt(tdCfg, tdNow)) = OsAt(tdCfg, tdBase, tdNow) % (tdCfg.osMax + 1)
            BY <2>1, <3>1, <3>2, <3>3, WithinReach
        <3> QED BY <2>3, <3>1, <3>4 DEF TdTickCount, HwCount, CountAt
    <2> QED BY <2>2, <2>3
<1> QED BY <1>1, TdInvariant, PTL

\* A requested tick comes in time and not early, and the kernel hears of the time
\* before a revolution of the tick count (pend_tick_after and handle_tick of the drivers).
THEOREM AlarmInTimeCorrect == "Stateful" \notin TdNested => (TdSpec => []AlarmInTime)
PROOF
<1> SUFFICES ASSUME "Stateful" \notin TdNested PROVE TdSpec => []AlarmInTime
    OBVIOUS
<1>1. TdInv => AlarmInTime
    <2> SUFFICES ASSUME TdInv, tdStep = "idle", ~Tickful
                 PROVE  /\ tdHandler = "none" =>
                              /\ tdNow >= tdDue + (IF tdOpt.driver = "sp804" THEN tdOpt.headroom ELSE 0) => TdPending
                              /\ Level /\ TdPending => tdNow >= tdDue
                        /\ OsTime(tdNow) - tdSeen <= tdCfg.osMax
        BY DEF AlarmInTime
    <2>1. /\ TdTypes /\ TdTimes /\ TdAlarm /\ Fits(tdOpt, tdCfg) /\ tdOpt.headroom \in Nat /\ tdCfg.maxTimeout \in Nat
          /\ \A t \in Nat : tdBase <= t => OsTime(t) = OsAt(tdCfg, tdBase, t)
        BY TdRunning
    <2>2. /\ tdNow \in Nat /\ tdBase \in Nat /\ tdBase <= tdNow /\ tdSeen \in Nat /\ tdDue \in Nat
          /\ tdDev \in [at : Nat, latch : BOOLEAN]
        BY <2>1 DEF TdTypes
    <2>3. tdOpt.driver \in {"mtime", "sbi", "sp804", "ostm"}
        BY <2>1, TdOptionIs DEF Tickful
    <2>4. ASSUME tdHandler = "none",
                 tdNow >= tdDue + (IF tdOpt.driver = "sp804" THEN tdOpt.headroom ELSE 0)
          PROVE  TdPending
        <3>1. CASE Level
            <4>1. tdDev.at = tdDue \/ tdDev.at = 0
                BY <2>1, <3>1 DEF TdAlarm
            <4>2. tdNow >= tdDue
                BY <2>2, <2>4, <3>1 DEF Level
            <4>3. tdNow >= tdDev.at
                BY <2>2, <4>1, <4>2
            <4> QED BY <3>1, <4>3 DEF TdPending, Level
        <3>2. CASE tdOpt.driver = "sp804"
            <4>1. tdDev.latch \/ tdDev.at <= tdDue + tdOpt.headroom
                BY <2>1, <2>4, <3>2 DEF TdAlarm
            <4>2. tdNow >= tdDue + tdOpt.headroom
                BY <2>4, <3>2
            <4>3. tdDev.latch \/ tdNow >= tdDev.at
                BY <2>1, <2>2, <4>1, <4>2
            <4> QED BY <3>2, <4>3 DEF TdPending
        <3>3. CASE tdOpt.driver = "ostm"
            <4>1. tdNow >= tdDue
                BY <2>2, <2>4, <3>3
            <4>2. tdDev.latch \/ tdNow < tdDue
                BY <2>1, <2>4, <3>3 DEF TdAlarm
            <4> QED BY <2>2, <4>1, <4>2 DEF TdPending
        <3> QED BY <2>3, <3>1, <3>2, <3>3 DEF Level
    <2>5. ASSUME Level, TdPending PROVE tdNow >= tdDue
        <3>1. ~tdDev.latch /\ (tdDev.at = tdDue \/ (tdDev.at = 0 /\ tdDue <= tdNow))
            BY <2>1, <2>5 DEF TdAlarm
        <3>2. tdNow >= tdDev.at
            BY <2>5, <3>1 DEF TdPending
        <3> QED BY <2>2, <3>1, <3>2
    <2>6. OsTime(tdNow) - tdSeen <= tdCfg.osMax
        <3>1. /\ tdNow <= tdDue + tdOpt.headroom
              /\ tdDue <= HwAt(tdCfg, tdBase, tdSeen + tdCfg.maxTimeout)
            BY <2>1 DEF TdTimes
        <3>2. tdNow <= HwAt(tdCfg, tdBase, tdSeen + tdCfg.maxTimeout) + tdOpt.headroom
            <4>1. tdSeen + tdCfg.maxTimeout \in Nat /\ tdSeen + tdCfg.maxTimeout <= tdSeen + tdCfg.maxTimeout
                BY <2>1, <2>2
            <4>2. HwAt(tdCfg, tdBase, tdSeen + tdCfg.maxTimeout) \in Nat
                BY <2>1, <2>2, <4>1, TimesAre
            <4> QED BY <2>1, <2>2, <3>1, <4>2
        <3>3. OsAt(tdCfg, tdBase, tdNow) - tdSeen <= tdCfg.osMax
            BY <2>1, <2>2, <3>2, WithinReach
        <3> QED BY <2>1, <2>2, <3>3
    <2> QED BY <2>4, <2>5, <2>6
<1> QED BY <1>1, TdInvariant, PTL
=============================================================================
