----------------------------- MODULE ListLemmas -----------------------------
(***************************************************************************)
(* Facts about minima, maxima, linked lists and iteration that the proofs  *)
(* use.                                                                    *)
(***************************************************************************)
EXTENDS Integers, SequencesExt, SequenceTheorems, WellFoundedInduction, TLAPS

\* A set of natural numbers that is not empty has a minimum.
LEMMA MinNat ==
  ASSUME NEW S \in SUBSET Nat, S # {}
  PROVE  Min(S) \in S /\ \A y \in S : Min(S) <= y
<1>1. \E x \in S : \A y \in S : ~(<<y, x>> \in OpToRel(<, Nat))
  BY NatLessThanWellFounded, WFMin
<1>2. OpToRel(<, Nat) = {p \in Nat \X Nat : p[1] < p[2]}
  BY DEF OpToRel
<1>3. PICK x \in S : \A y \in S : ~(<<y, x>> \in {p \in Nat \X Nat : p[1] < p[2]})
  BY <1>1, <1>2, Zenon
<1>4. \A y \in S : x <= y
  <2> SUFFICES ASSUME NEW y \in S, y < x PROVE FALSE
    OBVIOUS
  <2> QED
    BY <1>3
<1> QED
  BY <1>4 DEF Min

\* An element that none is less than is the minimum.
LEMMA MinIs ==
  ASSUME NEW S \in SUBSET Nat, NEW x \in S, \A y \in S : x <= y
  PROVE  Min(S) = x
<1> DEFINE n == Min(S)
<1>1. n \in S /\ n <= x
  BY MinNat
<1> HIDE DEF n
<1>2. n = x
  BY <1>1
<1> QED
  BY <1>2 DEF n

\* A set of natural numbers with an upper bound that is not empty has a maximum.
LEMMA MaxNat ==
  ASSUME NEW n \in Nat, NEW S \in SUBSET (0 .. n), S # {}
  PROVE  Max(S) \in S /\ \A y \in S : y <= Max(S)
<1> DEFINE T == {n - x : x \in S}
<1>1. T \in SUBSET Nat /\ T # {}
  <2>1. \A x \in S : n - x \in Nat
    OBVIOUS
  <2>2. T \in SUBSET Nat
    BY <2>1
  <2>3. PICK x \in S : TRUE
    OBVIOUS
  <2>4. n - x \in T
    OBVIOUS
  <2> QED
    BY <2>2, <2>4
<1>2. Min(T) \in T /\ \A y \in T : Min(T) <= y
  BY <1>1, MinNat
<1>3. PICK x \in S : Min(T) = n - x
  BY <1>2
<1>4. \A y \in S : x >= y
  <2> SUFFICES ASSUME NEW y \in S PROVE x >= y
    OBVIOUS
  <2>1. n - x <= n - y
    BY <1>2, <1>3
  <2> QED
    BY <2>1
<1>5. \E z \in S : \A y \in S : z >= y
  BY <1>4
<1> QED
  BY <1>5 DEF Max

\* Removing an element of a list leaves a list.
LEMMA RemoveAtType ==
  ASSUME NEW S, NEW q \in Seq(S), NEW i \in DOMAIN q
  PROVE  RemoveAt(q, i) \in Seq(S)
<1>1. i \in 1 .. Len(q)
  OBVIOUS
<1>2. SubSeq(q, 1, i - 1) \in Seq(S)
  BY <1>1, SubSeqProperties
<1>3. SubSeq(q, i + 1, Len(q)) \in Seq(S)
  BY <1>1, SubSeqProperties
<1> QED
  BY <1>2, <1>3 DEF RemoveAt

\* Inserting an element in a list leaves a list, which is not empty.
LEMMA InsertAtType ==
  ASSUME NEW S, NEW q \in Seq(S), NEW i \in 1 .. Len(q) + 1, NEW e \in S
  PROVE  InsertAt(q, i, e) \in Seq(S)
<1>1. SubSeq(q, 1, i - 1) \in Seq(S)
  BY SubSeqProperties
<1>2. SubSeq(q, i, Len(q)) \in Seq(S)
  BY SubSeqProperties
<1> QED
  BY <1>1, <1>2 DEF InsertAt

\* The last element of a list and the rest of it.
LEMMA FrontLastType ==
  ASSUME NEW S, NEW q \in Seq(S), q # <<>>
  PROVE  Front(q) \in Seq(S) /\ Last(q) \in S
<1>1. Len(q) \in Nat \ {0}
  OBVIOUS
<1>2. SubSeq(q, 1, Len(q) - 1) \in Seq(S)
  BY <1>1, SubSeqProperties
<1> QED
  BY <1>1, <1>2 DEF Front, Last

\* The elements of a list to which one is appended, and that it has no
\* duplicates if the element is new.
LEMMA AppendElements ==
  ASSUME NEW S, NEW q \in Seq(S), NEW x \in S
  PROVE  /\ ToSet(Append(q, x)) = ToSet(q) \cup {x}
         /\ IsInjective(q) /\ x \notin ToSet(q) => IsInjective(Append(q, x))
<1>1. /\ Append(q, x) \in Seq(S) /\ Len(Append(q, x)) = Len(q) + 1
      /\ \A i \in 1 .. Len(q) : Append(q, x)[i] = q[i]
      /\ Append(q, x)[Len(q) + 1] = x
  BY AppendProperties
<1> QED
  BY <1>1 DEF ToSet, IsInjective

\* The elements of a list without duplicates from which the first is removed.
LEMMA TailElements ==
  ASSUME NEW S, NEW q \in Seq(S), q # <<>>
  PROVE  /\ Head(q) \in ToSet(q)
         /\ IsInjective(q) => /\ ToSet(Tail(q)) = ToSet(q) \ {Head(q)}
                              /\ IsInjective(Tail(q))
<1>1. /\ Tail(q) \in Seq(S) /\ Len(Tail(q)) = Len(q) - 1
      /\ \A i \in 1 .. Len(q) - 1 : Tail(q)[i] = q[i + 1]
      /\ Head(q) = q[1] /\ Len(q) \in Nat \ {0}
  OBVIOUS
<1>2. Head(q) \in ToSet(q)
  BY <1>1 DEF ToSet
<1>3. ASSUME IsInjective(q) PROVE IsInjective(Tail(q))
  BY <1>1, <1>3 DEF IsInjective
<1>4. ASSUME IsInjective(q), NEW y PROVE y \in ToSet(Tail(q)) => y \in ToSet(q) \ {Head(q)}
  BY <1>1, <1>4 DEF IsInjective, ToSet
<1>5. ASSUME NEW y \in ToSet(q) \ {Head(q)} PROVE y \in ToSet(Tail(q))
  <2>1. PICK i \in 1 .. Len(q) : q[i] = y
    BY DEF ToSet
  <2>2. i # 1 /\ i - 1 \in 1 .. Len(q) - 1 /\ Tail(q)[i - 1] = y
    BY <1>1, <2>1
  <2>3. DOMAIN Tail(q) = 1 .. Len(q) - 1
    BY <1>1
  <2> QED
    BY <2>2, <2>3, Zenon DEF ToSet
<1> QED
  BY <1>2, <1>3, <1>4, <1>5

\* The elements of a list, by position.
LEMMA ElementPositions ==
  ASSUME NEW S, NEW q \in Seq(S)
  PROVE  \A y : y \in ToSet(q) <=> \E i \in 1 .. Len(q) : q[i] = y
<1>1. DOMAIN q = 1 .. Len(q)
  OBVIOUS
<1> QED
  BY <1>1, Zenon DEF ToSet

\* Where the elements of a list are after one is removed.
LEMMA RemoveAtPositions ==
  ASSUME NEW S, NEW q \in Seq(S), NEW k \in DOMAIN q
  PROVE  /\ RemoveAt(q, k) \in Seq(S) /\ Len(RemoveAt(q, k)) = Len(q) - 1
         /\ \A i \in 1 .. Len(q) - 1 :
              RemoveAt(q, k)[i] = IF i < k THEN q[i] ELSE q[i + 1]
<1> DEFINE r == RemoveAt(q, k)
           a == SubSeq(q, 1, k - 1)
           b == SubSeq(q, k + 1, Len(q))
<1>0. k \in 1 .. Len(q) /\ Len(q) \in Nat
  OBVIOUS
<1>1. a \in Seq(S) /\ Len(a) = k - 1 /\ \A i \in 1 .. k - 1 : a[i] = q[i]
  BY <1>0, SubSeqProperties
<1>2. b \in Seq(S) /\ Len(b) = Len(q) - k /\ \A i \in 1 .. Len(q) - k : b[i] = q[k + i]
  BY <1>0, SubSeqProperties
<1>3. r = a \o b
  BY DEF RemoveAt
<1> HIDE DEF a, b, r
<1>4. r \in Seq(S) /\ Len(r) = Len(q) - 1
  BY <1>0, <1>1, <1>2, <1>3, ConcatProperties
<1>5. ASSUME NEW i \in 1 .. Len(q) - 1 PROVE r[i] = IF i < k THEN q[i] ELSE q[i + 1]
  <2>1. r[i] = IF i <= Len(a) THEN a[i] ELSE b[i - Len(a)]
    BY SMTT(30), <1>0, <1>1, <1>2, <1>3, ConcatProperties
  <2>2. CASE i < k
    BY <1>0, <1>1, <2>1, <2>2
  <2>3. CASE i >= k
    <3>1. i - (k - 1) \in 1 .. Len(q) - k /\ k + (i - (k - 1)) = i + 1
      BY <1>0, <2>3
    <3>2. b[i - (k - 1)] = q[i + 1]
      BY <1>2, <3>1
    <3> QED
      BY <1>0, <1>1, <2>1, <2>3, <3>2
  <2> QED
    BY <1>0, <2>2, <2>3
<1> QED
  BY <1>4, <1>5 DEF r

\* The elements of a list without duplicates from which one is removed.
LEMMA RemoveAtElements ==
  ASSUME NEW S, NEW q \in Seq(S), NEW k \in DOMAIN q, IsInjective(q)
  PROVE  ToSet(RemoveAt(q, k)) = ToSet(q) \ {q[k]} /\ IsInjective(RemoveAt(q, k))
<1> DEFINE r == RemoveAt(q, k)
<1>1. k \in 1 .. Len(q) /\ Len(q) \in Nat
  OBVIOUS
<1>2. r \in Seq(S) /\ Len(r) = Len(q) - 1
      /\ \A i \in 1 .. Len(q) - 1 : r[i] = IF i < k THEN q[i] ELSE q[i + 1]
  BY RemoveAtPositions
<1> HIDE DEF r
<1>3. IsInjective(r)
  <2> SUFFICES ASSUME NEW i \in 1 .. Len(q) - 1, NEW j \in 1 .. Len(q) - 1, r[i] = r[j]
               PROVE  i = j
    BY <1>2 DEF IsInjective
  <2> DEFINE f(n) == IF n < k THEN n ELSE n + 1
  <2>1. f(i) \in DOMAIN q /\ f(j) \in DOMAIN q
    BY <1>1
  <2>2. r[i] = q[f(i)] /\ r[j] = q[f(j)]
    BY <1>2
  <2>3. f(i) = f(j)
    BY <2>1, <2>2 DEF IsInjective
  <2> QED
    BY <1>1, <2>3
<1>4. ASSUME NEW y \in ToSet(r) PROVE y \in ToSet(q) \ {q[k]}
  <2>1. PICK i \in 1 .. Len(q) - 1 : r[i] = y
    BY <1>2, ElementPositions
  <2>2. PICK j \in 1 .. Len(q) : j # k /\ q[j] = y
    <3>1. CASE i < k
      BY <1>1, <1>2, <2>1, <3>1
    <3>2. CASE i >= k
      <4>1. i + 1 \in 1 .. Len(q) /\ i + 1 # k /\ q[i + 1] = y
        BY <1>1, <1>2, <2>1, <3>2
      <4> QED
        BY <4>1
    <3> QED
      BY <1>1, <3>1, <3>2
  <2>3. q[j] # q[k]
    BY <2>2 DEF IsInjective
  <2>4. y \in ToSet(q)
    BY <2>2, ElementPositions
  <2> QED
    BY <2>2, <2>3, <2>4
<1>5. ASSUME NEW y \in ToSet(q) \ {q[k]} PROVE y \in ToSet(r)
  <2>1. PICK i \in 1 .. Len(q) : q[i] = y
    BY ElementPositions
  <2>2. PICK j \in 1 .. Len(q) - 1 : r[j] = y
    <3>1. CASE i < k
      BY <1>1, <1>2, <2>1, <3>1
    <3>2. CASE i > k
      <4>1. i - 1 \in 1 .. Len(q) - 1 /\ r[i - 1] = y
        BY <1>1, <1>2, <2>1, <3>2
      <4> QED
        BY <4>1
    <3> QED
      BY <1>1, <2>1, <3>1, <3>2
  <2> QED
    BY <1>2, <2>2, ElementPositions
<1> QED
  BY <1>3, <1>4, <1>5 DEF r

\* Where the elements of a list are after one is inserted.
LEMMA InsertAtPositions ==
  ASSUME NEW S, NEW q \in Seq(S), NEW k \in 1 .. Len(q) + 1, NEW x \in S
  PROVE  /\ InsertAt(q, k, x) \in Seq(S) /\ Len(InsertAt(q, k, x)) = Len(q) + 1
         /\ \A i \in 1 .. Len(q) + 1 :
              InsertAt(q, k, x)[i] =
                IF i < k THEN q[i] ELSE IF i = k THEN x ELSE q[i - 1]
<1> DEFINE r == InsertAt(q, k, x)
           a == SubSeq(q, 1, k - 1)
           b == SubSeq(q, k, Len(q))
           c == a \o <<x>>
<1>0. Len(q) \in Nat
  OBVIOUS
<1>1. a \in Seq(S) /\ Len(a) = k - 1 /\ \A i \in 1 .. k - 1 : a[i] = q[i]
  BY <1>0, SubSeqProperties
<1>2. b \in Seq(S) /\ Len(b) = Len(q) - k + 1 /\ \A i \in 1 .. Len(q) - k + 1 : b[i] = q[k + i - 1]
  BY <1>0, SubSeqProperties
<1>3. r = c \o b
  BY DEF InsertAt
<1> HIDE DEF a, b, r
<1>4. c \in Seq(S) /\ Len(c) = k /\ \A i \in 1 .. k : c[i] = IF i < k THEN q[i] ELSE x
  BY <1>0, <1>1, ConcatProperties
<1> HIDE DEF c
<1>5. r \in Seq(S) /\ Len(r) = Len(q) + 1
  <2>1. r \in Seq(S) /\ Len(r) = Len(c) + Len(b)
    BY <1>2, <1>3, <1>4, ConcatProperties
  <2> QED
    BY <1>0, <1>2, <1>4, <2>1
<1>6. ASSUME NEW i \in 1 .. Len(q) + 1
      PROVE  r[i] = IF i < k THEN q[i] ELSE IF i = k THEN x ELSE q[i - 1]
  <2>1. r[i] = IF i <= Len(c) THEN c[i] ELSE b[i - Len(c)]
    BY <1>0, <1>2, <1>3, <1>4, ConcatProperties
  <2> QED
    BY <1>0, <1>2, <1>4, <2>1
<1> QED
  BY <1>5, <1>6 DEF r

\* The elements of a list in which one is inserted, and that it has no
\* duplicates if the element is new.
LEMMA InsertAtElements ==
  ASSUME NEW S, NEW q \in Seq(S), NEW k \in 1 .. Len(q) + 1, NEW x \in S
  PROVE  /\ ToSet(InsertAt(q, k, x)) = ToSet(q) \cup {x}
         /\ IsInjective(q) /\ x \notin ToSet(q) => IsInjective(InsertAt(q, k, x))
<1> DEFINE r == InsertAt(q, k, x)
<1>1. Len(q) \in Nat
  OBVIOUS
<1>2. r \in Seq(S) /\ Len(r) = Len(q) + 1
      /\ \A i \in 1 .. Len(q) + 1 :
           r[i] = IF i < k THEN q[i] ELSE IF i = k THEN x ELSE q[i - 1]
  BY InsertAtPositions
<1> HIDE DEF r
<1>3. ASSUME IsInjective(q), x \notin ToSet(q) PROVE IsInjective(r)
  <2> SUFFICES ASSUME NEW i \in 1 .. Len(q) + 1, NEW j \in 1 .. Len(q) + 1, r[i] = r[j]
               PROVE  i = j
    BY <1>2 DEF IsInjective
  <2> DEFINE f(n) == IF n < k THEN n ELSE n - 1
  <2>1. \A n \in 1 .. Len(q) + 1 : n # k => f(n) \in DOMAIN q /\ r[n] = q[f(n)]
    BY <1>1, <1>2
  <2>2. \A n \in 1 .. Len(q) + 1 : n # k => r[n] # x
    BY <1>3, <2>1 DEF ToSet
  <2>3. r[k] = x
    BY <1>1, <1>2
  <2>4. CASE i # k /\ j # k
    <3>1. f(i) = f(j)
      BY <1>3, <2>1, <2>4 DEF IsInjective
    <3> QED
      BY <2>4, <3>1
  <2> QED
    BY <2>2, <2>3, <2>4
<1>4. ASSUME NEW y \in ToSet(r) PROVE y \in ToSet(q) \cup {x}
  <2>1. PICK i \in 1 .. Len(q) + 1 : r[i] = y
    BY <1>2, ElementPositions
  <2>2. CASE i = k
    BY <1>2, <2>1, <2>2
  <2>3. CASE i # k
    <3>1. PICK j \in 1 .. Len(q) : q[j] = y
      <4>1. CASE i < k
        BY <1>1, <1>2, <2>1, <4>1
      <4>2. CASE i > k
        <5>1. i - 1 \in 1 .. Len(q) /\ q[i - 1] = y
          BY <1>1, <1>2, <2>1, <4>2
        <5> QED
          BY <5>1
      <4> QED
        BY <1>1, <2>3, <4>1, <4>2
    <3> QED
      BY <3>1, ElementPositions
  <2> QED
    BY <2>2, <2>3
<1>5. x \in ToSet(r)
  <2>1. k \in 1 .. Len(q) + 1 /\ r[k] = x
    BY <1>1, <1>2
  <2> QED
    BY <1>2, <2>1, ElementPositions
<1>6. ASSUME NEW y \in ToSet(q) PROVE y \in ToSet(r)
  <2>1. PICK i \in 1 .. Len(q) : q[i] = y
    BY ElementPositions
  <2>2. PICK j \in 1 .. Len(q) + 1 : r[j] = y
    <3>1. CASE i < k
      BY <1>1, <1>2, <2>1, <3>1
    <3>2. CASE i >= k
      <4>1. i + 1 \in 1 .. Len(q) + 1 /\ r[i + 1] = y
        BY <1>1, <1>2, <2>1, <3>2
      <4> QED
        BY <4>1
    <3> QED
      BY <1>1, <3>1, <3>2
  <2> QED
    BY <1>2, <2>2, ElementPositions
<1> QED
  BY <1>3, <1>4, <1>5, <1>6 DEF r

\* What is left of a list without its last element.
LEMMA FrontPositions ==
  ASSUME NEW S, NEW q \in Seq(S), q # <<>>
  PROVE  /\ Front(q) \in Seq(S) /\ Len(Front(q)) = Len(q) - 1
         /\ \A i \in 1 .. Len(q) - 1 : Front(q)[i] = q[i]
<1>1. Len(q) \in Nat \ {0}
  OBVIOUS
<1> DEFINE n == Len(q)
           f == Front(q)
<1>2. f = SubSeq(q, 1, n - 1)
  BY DEF Front
<1>3. 1 \in 1 .. Len(q) + 1 /\ n - 1 \in 1 - 1 .. Len(q)
  BY <1>1
<1> HIDE DEF f, n
<1>4. f \in Seq(S) /\ Len(f) = n - 1
  <2>1. f \in Seq(S)
    BY <1>1, <1>2, <1>3, SubSeqProperties DEF n
  <2>2. Len(f) = IF 1 <= n - 1 THEN (n - 1) - 1 + 1 ELSE 0
    BY <1>1, <1>2, <1>3, SubSeqProperties
  <2>3. n \in Nat \ {0}
    BY <1>1 DEF n
  <2>4. Len(f) = n - 1
    BY <2>2, <2>3
  <2> QED
    BY <2>1, <2>4
<1>5. ASSUME NEW i \in 1 .. n - 1 PROVE f[i] = q[i]
  BY <1>1, <1>2, <1>3, SubSeqProperties DEF n
<1> QED
  BY <1>4, <1>5 DEF f, n

\* The elements of a list without duplicates from which the last is removed.
LEMMA FrontElements ==
  ASSUME NEW S, NEW q \in Seq(S), q # <<>>
  PROVE  /\ Last(q) \in ToSet(q)
         /\ IsInjective(q) => /\ ToSet(Front(q)) = ToSet(q) \ {Last(q)}
                              /\ IsInjective(Front(q))
<1>1. Len(q) \in Nat \ {0} /\ Last(q) = q[Len(q)]
  BY DEF Last
<1> DEFINE n == Len(q)
           f == Front(q)
<1>2. f \in Seq(S) /\ Len(f) = n - 1 /\ \A i \in 1 .. n - 1 : f[i] = q[i]
  BY FrontPositions
<1> HIDE DEF f
<1>3. Last(q) \in ToSet(q)
  BY <1>1 DEF ToSet
<1>4. ASSUME IsInjective(q) PROVE IsInjective(f)
  BY SMTT(30), <1>1, <1>2, <1>4 DEF IsInjective
<1>5. ASSUME IsInjective(q), NEW y \in ToSet(f) PROVE y \in ToSet(q) \ {Last(q)}
  <2>1. PICK i \in 1 .. n - 1 : f[i] = y
    BY <1>2, <1>5, ElementPositions
  <2>2. i \in DOMAIN q /\ n \in DOMAIN q /\ i # n /\ q[i] = y
    BY <1>1, <1>2, <2>1
  <2> QED
    BY <1>1, <1>5, <2>2 DEF IsInjective, ToSet
<1>6. ASSUME NEW y \in ToSet(q) \ {Last(q)} PROVE y \in ToSet(f)
  <2>1. PICK i \in 1 .. n : q[i] = y
    BY ElementPositions
  <2>2. i \in 1 .. n - 1 /\ f[i] = y
    BY <1>1, <1>2, <2>1
  <2> QED
    BY <1>2, <2>2, ElementPositions
<1> QED
  BY <1>3, <1>4, <1>5, <1>6 DEF f

-----------------------------------------------------------------------------
(* Lists in the order of a key *)

SortedBy(q, key) == \A i, j \in DOMAIN q : i < j => key[q[i]] <= key[q[j]]

\* Removing an element leaves a list sorted.
LEMMA RemoveAtSorted ==
  ASSUME NEW S, NEW q \in Seq(S), NEW k \in DOMAIN q, NEW key, SortedBy(q, key)
  PROVE  SortedBy(RemoveAt(q, k), key)
<1> DEFINE r == RemoveAt(q, k)
<1>1. /\ r \in Seq(S) /\ Len(r) = Len(q) - 1 /\ Len(q) \in Nat /\ k \in 1 .. Len(q)
      /\ \A i \in 1 .. Len(q) - 1 : r[i] = IF i < k THEN q[i] ELSE q[i + 1]
  BY RemoveAtPositions
<1> HIDE DEF r
<1> SUFFICES ASSUME NEW i \in 1 .. Len(q) - 1, NEW j \in 1 .. Len(q) - 1, i < j
             PROVE  key[r[i]] <= key[r[j]]
  BY <1>1 DEF SortedBy, r
<1> DEFINE f(n) == IF n < k THEN n ELSE n + 1
<1>2. f(i) \in DOMAIN q /\ f(j) \in DOMAIN q /\ f(i) < f(j)
  BY <1>1
<1>3. r[i] = q[f(i)] /\ r[j] = q[f(j)]
  BY <1>1
<1> HIDE DEF f
<1> QED
  BY <1>2, <1>3 DEF SortedBy

\* Removing the first element leaves a list sorted, and none is smaller.
LEMMA TailSorted ==
  ASSUME NEW S, NEW q \in Seq(S), q # <<>>, NEW key, SortedBy(q, key),
         \A x \in S : key[x] \in Int
  PROVE  /\ SortedBy(Tail(q), key)
         /\ \A x \in ToSet(q) : key[Head(q)] <= key[x]
<1>1. /\ Tail(q) \in Seq(S) /\ Len(Tail(q)) = Len(q) - 1
      /\ \A i \in 1 .. Len(q) - 1 : Tail(q)[i] = q[i + 1]
      /\ Head(q) = q[1] /\ Len(q) \in Nat \ {0}
  OBVIOUS
<1>2. SortedBy(Tail(q), key)
  <2> DEFINE r == Tail(q)
  <2> HIDE DEF r
  <2> SUFFICES ASSUME NEW i \in 1 .. Len(q) - 1, NEW j \in 1 .. Len(q) - 1, i < j
               PROVE  key[r[i]] <= key[r[j]]
    BY SMTT(30), <1>1 DEF SortedBy, r
  <2>1. i + 1 \in DOMAIN q /\ j + 1 \in DOMAIN q /\ i + 1 < j + 1
    BY <1>1
  <2>2. r[i] = q[i + 1] /\ r[j] = q[j + 1]
    BY <1>1 DEF r
  <2> QED
    BY <2>1, <2>2 DEF SortedBy
<1>3. ASSUME NEW x \in ToSet(q) PROVE key[Head(q)] <= key[x]
  <2>1. PICK i \in 1 .. Len(q) : q[i] = x
    BY ElementPositions
  <2>2. 1 \in DOMAIN q /\ i \in DOMAIN q /\ x \in S
    BY <1>1, <2>1
  <2>3. CASE i = 1
    BY <1>1, <2>1, <2>2, <2>3
  <2>4. CASE 1 < i
    BY <1>1, <2>1, <2>2, <2>4 DEF SortedBy
  <2> QED
    BY <2>3, <2>4
<1> QED
  BY <1>2, <1>3

\* Inserting an element after the ones that are not greater, before the others,
\* leaves a list sorted.
LEMMA InsertAtSorted ==
  ASSUME NEW S, NEW q \in Seq(S), NEW k \in 1 .. Len(q) + 1, NEW x \in S,
         NEW key, \A y \in S : key[y] \in Int, SortedBy(q, key),
         \A i \in 1 .. Len(q) : i < k => key[q[i]] <= key[x],
         \A i \in 1 .. Len(q) : i >= k => key[x] <= key[q[i]]
  PROVE  SortedBy(InsertAt(q, k, x), key)
<1> DEFINE r == InsertAt(q, k, x)
<1>1. /\ r \in Seq(S) /\ Len(r) = Len(q) + 1 /\ Len(q) \in Nat
      /\ \A i \in 1 .. Len(q) + 1 :
           r[i] = IF i < k THEN q[i] ELSE IF i = k THEN x ELSE q[i - 1]
  BY InsertAtPositions
<1> HIDE DEF r
<1> SUFFICES ASSUME NEW i \in 1 .. Len(q) + 1, NEW j \in 1 .. Len(q) + 1, i < j
             PROVE  key[r[i]] <= key[r[j]]
  BY <1>1 DEF SortedBy, r
<1> DEFINE f(n) == IF n < k THEN n ELSE n - 1
<1>2. /\ i # k => f(i) \in 1 .. Len(q) /\ r[i] = q[f(i)]
      /\ j # k => f(j) \in 1 .. Len(q) /\ r[j] = q[f(j)]
      /\ i = k => r[i] = x
      /\ j = k => r[j] = x
  BY <1>1
<1>3. CASE i # k /\ j # k
  <2>1. f(i) < f(j)
    BY <1>1, <1>3
  <2> HIDE DEF f
  <2> QED
    BY <1>2, <1>3, <2>1 DEF SortedBy
<1>4. CASE i = k
  <2>1. j # k /\ f(j) >= k
    BY <1>1, <1>4
  <2> HIDE DEF f
  <2> QED
    BY <1>2, <1>4, <2>1
<1>5. CASE j = k
  <2>1. i # k /\ f(i) < k
    BY <1>1, <1>5
  <2> HIDE DEF f
  <2> QED
    BY <1>2, <1>5, <2>1
<1> QED
  BY <1>3, <1>4, <1>5

-----------------------------------------------------------------------------
(* Induction over the natural numbers, and functions defined by it. *)

\* Induction over the natural numbers, for a set of them.
LEMMA NatSet ==
    ASSUME NEW A, 0 \in A, \A n \in Nat : n \in A => n + 1 \in A
    PROVE  \A n \in Nat : n \in A
PROOF
<1> DEFINE C == {n \in Nat : n \notin A}
<1>1. SUFFICES ASSUME C # {} PROVE FALSE
    OBVIOUS
<1>2. PICK m \in C : \A n \in C : m <= n
    BY <1>1, MinNat
<1>3. m # 0 /\ m - 1 \in Nat
    BY DEF C
<1>4. m - 1 \in A
    BY <1>2, <1>3 DEF C
<1>5. m \in A
    BY <1>3, <1>4
<1> QED BY <1>5 DEF C

\* A function can be iterated.
LEMMA Iterates ==
    ASSUME NEW S, NEW s \in S, NEW F \in [S -> S]
    PROVE  \E f \in [Nat -> S] : f = [n \in Nat |-> IF n = 0 THEN s ELSE F[f[n - 1]]]
PROOF
<1> DEFINE Good(n, g) == g[0] = s /\ \A k \in 1 .. n : g[k] = F[g[k - 1]]
           A == {n \in Nat : \E g \in [0 .. n -> S] : Good(n, g)}
           G == [n \in Nat |-> CHOOSE g \in [0 .. n -> S] : Good(n, g)]
           f == [n \in Nat |-> G[n][n]]
<1>1. 0 \in A
    <2>1. [k \in 0 .. 0 |-> s] \in [0 .. 0 -> S] /\ Good(0, [k \in 0 .. 0 |-> s])
        OBVIOUS
    <2> QED BY <2>1
<1>2. ASSUME NEW n \in Nat, n \in A PROVE n + 1 \in A
    <2>1. PICK g \in [0 .. n -> S] : Good(n, g)
        BY <1>2
    <2> DEFINE e == [k \in 0 .. n + 1 |-> IF k = n + 1 THEN F[g[n]] ELSE g[k]]
    <2>2. e \in [0 .. n + 1 -> S]
        OBVIOUS
    <2>3. Good(n + 1, e)
        BY <2>1
    <2> QED BY <2>2, <2>3
<1>3. \A n \in Nat : n \in A
    <2> HIDE DEF A
    <2> QED BY <1>1, <1>2, NatSet
<1>4. \A n \in Nat : G[n] \in [0 .. n -> S] /\ Good(n, G[n])
    BY <1>3
<1>5. ASSUME NEW n \in Nat PROVE \A k \in Nat : k <= n => G[n][k] = G[n + 1][k]
    <2> DEFINE B == {k \in Nat : k <= n => G[n][k] = G[n + 1][k]}
    <2> HIDE DEF G
    <2>1. 0 \in B
        BY <1>4
    <2>2. ASSUME NEW k \in Nat, k \in B PROVE k + 1 \in B
        <3>1. CASE k + 1 <= n
            <4>1. k + 1 \in 1 .. n /\ k + 1 \in 1 .. n + 1 /\ (k + 1) - 1 = k /\ k <= n
                BY <3>1
            <4>2. G[n][k + 1] = F[G[n][k]] /\ G[n + 1][k + 1] = F[G[n + 1][k]]
                BY <1>4, <4>1
            <4> QED BY <2>2, <4>1, <4>2
        <3>2. CASE ~(k + 1 <= n)
            BY <3>2
        <3> QED BY <3>1, <3>2
    <2>3. \A k \in Nat : k \in B
        <3> HIDE DEF B
        <3> QED BY <2>1, <2>2, NatSet
    <2> QED BY <2>3
<1>6. f \in [Nat -> S]
    <2> HIDE DEF G
    <2> QED BY <1>4
<1>7. ASSUME NEW n \in Nat PROVE f[n] = IF n = 0 THEN s ELSE F[f[n - 1]]
    <2> HIDE DEF G
    <2>1. CASE n = 0
        BY <2>1, <1>4
    <2>2. CASE n # 0
        <3>1. n \in 1 .. n /\ n - 1 \in Nat /\ (n - 1) + 1 = n /\ n - 1 <= n - 1
            BY <2>2
        <3>2. G[n][n] = F[G[n][n - 1]]
            BY <3>1, <1>4
        <3>3. G[n - 1][n - 1] = G[n][n - 1]
            BY <3>1, <1>5
        <3> QED BY <2>2, <3>1, <3>2, <3>3
    <2> QED BY <2>1, <2>2
<1>8. f = [n \in Nat |-> IF n = 0 THEN s ELSE F[f[n - 1]]]
    <2> HIDE DEF f
    <2> QED BY <1>6, <1>7
<1> QED BY <1>6, <1>8
=============================================================================
