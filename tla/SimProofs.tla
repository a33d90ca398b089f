----------------------------- MODULE SimProofs ------------------------------
(***************************************************************************)
(* Proofs about the simulator port (SimPort).                              *)
(***************************************************************************)
EXTENDS SimPort, ListLemmas, FiniteSetTheorems

-----------------------------------------------------------------------------
(* The inductive invariant.                                                *)

SmPlaces == {"boot", "code", "exit", "zombie", "enter", "choose", "leave", "set", "return"}
SmIds == Nat \cup Tasks
SmHandlerPlaces(l) == IF l = SimDispatch THEN {"enter", "choose", "leave", "set", "return"} ELSE {"code"}

SmHandlerTypes == [pri : Int, line : SimLines, id : Nat]

SmHwTypes ==
    [line : [SimLines -> [enable : BOOLEAN, pended : BOOLEAN]],
     pended : SUBSET {<<SimPri(l), l>> : l \in SimLines},
     active : Seq(SmHandlerTypes),
     pc : UNION {[D -> SmPlaces] : D \in SUBSET SmIds},
     lock : BOOLEAN, zombies : Seq(SmIds), task : SmIds \cup {NoTask}]

\* Every active handler has a thread of its own, and a handler that masks
\* another one has the same or a higher priority.
SmStack(h) ==
    /\ \A i \in DOMAIN h.active :
          /\ h.active[i].pri = SimPri(h.active[i].line)
          /\ h.active[i].id # BootThread /\ h.active[i].id \in DOMAIN h.pc
          /\ h.pc[h.active[i].id] \in SmHandlerPlaces(h.active[i].line)
    /\ \A i, j \in DOMAIN h.active :
          i < j => h.active[i].pri >= h.active[j].pri /\ h.active[i].id # h.active[j].id

SmHwInv(h) == h \in SmHwTypes /\ IsFiniteSet(DOMAIN h.pc) /\ SmStack(h)

SmTypes ==
    /\ SmHwInv(Hw)
    /\ smTask \in Tasks \cup {NoTask, BootThread}
    /\ smTsm \in [Tasks -> {"Uninit", "Dormant", "Running"}]
    /\ smRunning \in Tasks \cup {NoTask} /\ smReady \subseteq Tasks
    /\ smWanted \in BOOLEAN /\ smRaises \in Nat

SmPlace(h, x) == IF x \in DOMAIN h.pc THEN h.pc[x] ELSE "none"

\* Where the handler of nesting level i is.
SmLevel(h, i) == h.pc[h.active[i].id]

\* At most one thread is to be run to its end, and it is the one that has
\* parted with its handler or task.
SmEnding(h) ==
    /\ h.zombies = <<>> \/ \E z \in DOMAIN h.pc : h.zombies = <<z>>
    /\ \A x \in DOMAIN h.pc : h.pc[x] \in {"boot", "exit", "zombie"} <=> h.zombies = <<x>>
    /\ \A x \in DOMAIN h.pc : h.pc[x] = "exit" => x \in Tasks /\ ~h.lock

\* A task has a thread while it is running.
SmThreads(h, tsm) == \A t \in Tasks : SmPlace(h, t) = "code" <=> tsm[t] = "Running"

\* CPU Lock has an owner: the task, or a handler that is managed and has only
\* been preempted by handlers that are not.
SmOwnerTask(h, owner) ==
    /\ owner \in Tasks /\ h.task = owner /\ SmPlace(h, owner) = "code"
    /\ \A i \in DOMAIN h.active : ~SimManaged(h.active[i].pri)

SmOwnerAt(h, owner, i) ==
    /\ owner = h.active[i].id /\ SimManaged(h.active[i].pri)
    /\ h.active[i].line = SimDispatch => SmLevel(h, i) \in {"choose", "leave"}
    /\ \A j \in DOMAIN h.active : j > i => ~SimManaged(h.active[j].pri)

SmLocking(h, owner) ==
    /\ h.lock => SmOwnerTask(h, owner) \/ \E i \in DOMAIN h.active : SmOwnerAt(h, owner, i)
    /\ \A i \in DOMAIN h.active :
          SmLevel(h, i) \in {"choose", "leave"} => h.lock /\ owner = h.active[i].id
    /\ h.lock /\ <<SimLowest, SimDispatch>> \in h.pended =>
          \E i \in DOMAIN h.active : h.active[i].id = owner /\ h.active[i].line # SimDispatch

SmExiting(h) == \E t \in Tasks : SmPlace(h, t) = "exit"

\* A dispatch is on its way: its line is pended, the thread that has parted with
\* its task will pend it, or a handler of it is at one of places.
SmDispatches(h, places) ==
    \/ <<SimLowest, SimDispatch>> \in h.pended
    \/ SmExiting(h)
    \/ \E i \in DOMAIN h.active : SmLevel(h, i) \in places

\* The task whose thread the scheduler has been told to run.
SmHeld(h, tsm) == IF h.task \in Tasks THEN IF tsm[h.task] = "Running" THEN h.task ELSE NoTask ELSE NoTask

\* The dispatcher at level i is about to tell the scheduler the task.
SmSets(h, i) == /\ SmLevel(h, i) \in {"leave", "set"}
                /\ \A j \in DOMAIN h.active : j > i => SmLevel(h, j) # "return"

\* What was asked of the dispatcher is on its way, and the scheduler runs the
\* thread of the running task unless it is about to be told so.
SmChosen(h, tsm, running, ready, wanted) ==
    /\ wanted => SmDispatches(h, {"enter", "choose"})
    /\ h.task # NoTask /\ SmHeld(h, tsm) = NoTask => SmDispatches(h, {"enter", "choose", "leave", "set"})
    /\ \A t \in Tasks : t = running \/ t \in ready => tsm[t] # "Uninit"
    /\ running = SmHeld(h, tsm) \/ \E i \in DOMAIN h.active : SmSets(h, i)

SmSound(h, tsm, running, ready, wanted, owner) ==
    /\ h.line[SimDispatch].enable
    /\ SmEnding(h) /\ SmThreads(h, tsm) /\ SmLocking(h, owner)
    /\ SmChosen(h, tsm, running, ready, wanted)

\* Nothing that could be taken waits, but for a thread that is about to ask for
\* a dispatch; and the thread that executes is the one the hardware would run.
SmRunning(h, cur) == (TakesInterrupt(h) => SmExiting(h)) /\ cur = ChooseNextThread(h)

SmBootedInv == /\ SmTypes /\ SmBooted
               /\ SmSound(Hw, smTsm, smRunning, smReady, smWanted, smOwner)
               /\ SmRunning(Hw, smCur)

SmInv == SmTypes /\ (SmInit \/ SmBootedInv)

-----------------------------------------------------------------------------
(* Lemmas.  The loop of check_preemption_by_interrupt.                     *)

\* Whatever one turn of the loop keeps is kept by all.
LEMMA ActivationsAre ==
    ASSUME NEW S, NEW h \in S, \A g \in S : Activated(g) \in S
    PROVE  /\ Activations(h) = [n \in Nat |-> IF n = 0 THEN h ELSE Activated(Activations(h)[n - 1])]
           /\ \A n \in Nat : Activations(h)[n] \in S
PROOF
<1> DEFINE F == [g \in S |-> Activated(g)]
           Loop(f) == f = [n \in Nat |-> IF n = 0 THEN h ELSE Activated(f[n - 1])]
<1>1. F \in [S -> S]
    OBVIOUS
<1>2. PICK f \in [Nat -> S] : f = [n \in Nat |-> IF n = 0 THEN h ELSE F[f[n - 1]]]
    <2> HIDE DEF F
    <2> QED BY <1>1, Iterates
<1>3. Loop(f)
    <2>1. ASSUME NEW n \in Nat PROVE f[n] = IF n = 0 THEN h ELSE Activated(f[n - 1])
        <3>1. f[n] = IF n = 0 THEN h ELSE F[f[n - 1]]
            BY <1>2
        <3>2. n # 0 => f[n - 1] \in S
            OBVIOUS
        <3> QED BY <3>1, <3>2
    <2> QED BY <2>1
<1>4. Activations(h) = CHOOSE g : Loop(g)
    BY DEF Activations
<1>5. Loop(Activations(h))
    <2> HIDE DEF Loop
    <2> QED BY <1>3, <1>4
<1>6. \A n \in Nat : Activations(h)[n] \in S
    <2> DEFINE A == {n \in Nat : Activations(h)[n] \in S}
    <2>1. 0 \in A
        BY <1>5
    <2>2. ASSUME NEW n \in Nat, n \in A PROVE n + 1 \in A
        <3>1. Activations(h)[n + 1] = Activated(Activations(h)[n])
            BY <1>5
        <3> QED BY <2>2, <3>1
    <2>3. \A n \in Nat : n \in A
        <3> HIDE DEF A
        <3> QED BY <2>1, <2>2, NatSet
    <2> QED BY <2>3
<1> QED BY <1>5, <1>6

\* The priorities of the lines.
LEMMA SimPriIs ==
    /\ IsFiniteSet(SimLines) /\ SimLines \subseteq Nat /\ SimLowest \in Nat /\ SimDispatch \in SimLines
    /\ \A l \in SimLines : SimPri(l) \in Int /\ SimPri(l) <= SimLowest
    /\ \A l \in SimLines : SimPri(l) < SimLowest <=> l # SimDispatch
PROOF
<1>1. IsFiniteSet(SimDevices \cup {SimDispatch})
    BY SimAssumption, FS_AddElement
<1> QED BY <1>1, SimAssumption DEF SimLines, SimPri

LEMMA PendedIs ==
    ASSUME NEW P, P \subseteq {<<SimPri(l), l>> : l \in SimLines}
    PROVE  /\ IsFiniteSet(P) /\ Cardinality(P) \in Nat
           /\ \A p \in P : p[2] \in SimLines /\ p = <<SimPri(p[2]), p[2]>>
PROOF
<1>1. \A p \in P : p[2] \in SimLines /\ p = <<SimPri(p[2]), p[2]>>
    OBVIOUS
<1> DEFINE f == [p \in P |-> p[2]]
<1>2. f \in [P -> SimLines]
    BY <1>1
<1>3. \A p, q \in P : f[p] = f[q] => p = q
    BY <1>1
<1>4. f \in Injection(P, SimLines)
    <2> HIDE DEF f
    <2> QED BY <1>2, <1>3 DEF Injection, IsInjective
<1>5. IsFiniteSet(P)
    BY <1>4, FS_Injection, SimPriIs
<1> QED BY <1>1, <1>5, FS_CardinalityType

\* The set of pended lines has a first element.
LEMMA FirstPendedIs ==
    ASSUME NEW h, h.pended \subseteq {<<SimPri(l), l>> : l \in SimLines}, h.pended # {}
    PROVE  /\ FirstPended(h) \in h.pended
           /\ \A q \in h.pended : FirstPended(h)[1] <= q[1]
PROOF
<1> DEFINE P == h.pended
           n == Cardinality(P)
           Least(p, q) == p[1] < q[1] \/ (p[1] = q[1] /\ p[2] <= q[2])
<1>1. /\ IsFiniteSet(P) /\ n \in Nat
      /\ \A p \in P : p[2] \in SimLines /\ p = <<SimPri(p[2]), p[2]>>
    BY PendedIs
<1>2. \A p \in P : p[1] \in Int /\ p[2] \in Nat
    <2> SUFFICES ASSUME NEW p \in P PROVE p[1] \in Int /\ p[2] \in Nat
        OBVIOUS
    <2>1. p[1] = SimPri(p[2]) /\ p[2] \in SimLines
        <3>1. p = <<SimPri(p[2]), p[2]>> /\ p[2] \in SimLines
            BY <1>1
        <3> QED BY <3>1
    <2> QED BY <2>1, SimPriIs
<1>3. PICK f \in Surjection(1 .. n, P) : TRUE
    BY <1>1, FS_CardinalityType DEF ExistsBijection, Bijection
<1>4. f \in [1 .. n -> P] /\ \A p \in P : \E k \in 1 .. n : f[k] = p
    BY <1>3 DEF Surjection
<1>t. ASSUME NEW a \in Int, NEW b \in Nat, NEW c \in Int, NEW d \in Nat, NEW u \in Int, NEW v \in Nat,
             a < c \/ (a = c /\ b <= d), ~(a < u \/ (a = u /\ b <= v))
      PROVE  u < c \/ (u = c /\ v <= d)
    BY <1>t
<1> DEFINE A == {k \in Nat : k \in 1 .. n => \E m \in 1 .. k : \A j \in 1 .. k : Least(f[m], f[j])}
<1>5. 0 \in A
    OBVIOUS
<1>6. ASSUME NEW k \in Nat, k \in A PROVE k + 1 \in A
    <2> SUFFICES ASSUME k + 1 \in 1 .. n
                 PROVE  \E m \in 1 .. k + 1 : \A j \in 1 .. k + 1 : Least(f[m], f[j])
        OBVIOUS
    <2> HIDE DEF n
    <2>1. \A j \in 1 .. k + 1 : f[j] \in P /\ f[j][1] \in Int /\ f[j][2] \in Nat
        BY <1>1, <1>2, <1>4
    <2>2. CASE k = 0
        BY <2>1, <2>2
    <2>3. CASE k # 0
        <3>1. PICK m \in 1 .. k : \A j \in 1 .. k : Least(f[m], f[j])
            <4>1. k \in 1 .. n
                BY <1>1, <2>3
            <4> HIDE DEF Least
            <4> QED BY <1>6, <4>1
        <3>2. /\ m \in 1 .. k + 1 /\ k + 1 \in 1 .. k + 1
              /\ \A j \in 1 .. k + 1 : j \in 1 .. k \/ j = k + 1
            OBVIOUS
        <3>3. CASE Least(f[m], f[k + 1])
            <4> HIDE DEF Least
            <4> QED BY <3>1, <3>2, <3>3
        <3>4. CASE ~Least(f[m], f[k + 1])
            <4>1. ASSUME NEW j \in 1 .. k + 1 PROVE Least(f[k + 1], f[j])
                <5>1. CASE j = k + 1
                    BY <2>1, <5>1
                <5>2. CASE j \in 1 .. k
                    <6>1. Least(f[m], f[j]) /\ ~Least(f[m], f[k + 1])
                        BY <3>1, <3>4, <5>2
                    <6>2. /\ f[m][1] \in Int /\ f[m][2] \in Nat
                          /\ f[j][1] \in Int /\ f[j][2] \in Nat
                          /\ f[k + 1][1] \in Int /\ f[k + 1][2] \in Nat
                        BY <2>1, <3>2
                    <6> HIDE DEF n, P
                    <6> QED BY ONLY <6>1, <6>2, <1>t
                <5> QED BY <3>2, <5>1, <5>2
            <4> HIDE DEF Least
            <4> QED BY <3>2, <4>1
        <3> QED BY <3>3, <3>4
    <2> QED BY <2>2, <2>3
<1>7. n \in A
    <2> HIDE DEF A, n
    <2> QED BY <1>1, <1>5, <1>6, NatSet
<1>8. n # 0
    BY <1>1, FS_EmptySet
<1>9. PICK m \in 1 .. n : \A j \in 1 .. n : Least(f[m], f[j])
    <2> HIDE DEF n
    <2> QED BY <1>1, <1>7, <1>8
<1>10. \E p \in P : \A q \in P : Least(p, q)
    <2> HIDE DEF n, Least
    <2> QED BY <1>4, <1>9
<1>11. FirstPended(h) \in P /\ \A q \in P : Least(FirstPended(h), q)
    BY <1>10 DEF FirstPended
<1> QED BY <1>2, <1>11

\* There is a free id.
LEMMA FreeIdIs ==
    ASSUME NEW pc, IsFiniteSet(DOMAIN pc)
    PROVE  FreeId(pc) \in Nat \ {0} /\ FreeId(pc) \notin DOMAIN pc
PROOF
<1> DEFINE n == Cardinality(DOMAIN pc)
<1>1. n \in Nat
    BY FS_CardinalityType
<1>2. \E k \in 1 .. n + 1 : k \notin DOMAIN pc
    <2> SUFFICES ASSUME 1 .. n + 1 \subseteq DOMAIN pc PROVE FALSE
        OBVIOUS
    <2> HIDE DEF n
    <2>1. Cardinality(1 .. n + 1) = n + 1
        BY <1>1, FS_Interval
    <2>2. Cardinality(1 .. n + 1) <= n
        BY FS_Subset DEF n
    <2> QED BY <1>1, <2>1, <2>2
<1>3. FreeId(pc) \in 1 .. n + 1 /\ FreeId(pc) \notin DOMAIN pc
    BY <1>2 DEF FreeId
<1> QED BY <1>1, <1>3

\* Interrupts were activated between h and g: what their handlers are, and that
\* nothing else has changed.
SmNew(h, g, i) ==
    /\ g.active[i].id \notin DOMAIN h.pc
    /\ <<g.active[i].pri, g.active[i].line>> \in h.pended \ g.pended
    /\ g.pc[g.active[i].id] = IF g.active[i].line = SimDispatch THEN "enter" ELSE "code"
    /\ h.lock => ~SimManaged(g.active[i].pri)

SmGrown(h, g) ==
    /\ g.line = h.line /\ g.lock = h.lock /\ g.zombies = h.zombies /\ g.task = h.task
    /\ g.pended \subseteq h.pended
    /\ Len(h.active) <= Len(g.active)
    /\ \A i \in DOMAIN h.active : g.active[i] = h.active[i]
    /\ DOMAIN h.pc \subseteq DOMAIN g.pc
    /\ \A x \in DOMAIN h.pc : g.pc[x] = h.pc[x]
    /\ \A i \in DOMAIN g.active : i > Len(h.active) => SmNew(h, g, i)
    /\ \A x \in DOMAIN g.pc \ DOMAIN h.pc :
          \E i \in DOMAIN g.active : i > Len(h.active) /\ g.active[i].id = x
    /\ \A p \in h.pended \ g.pended :
          \E i \in DOMAIN g.active : i > Len(h.active) /\ g.active[i].line = p[2]
    /\ Len(g.active) = Len(h.active) => g = h

\* What one turn of the loop does.
LEMMA ActivatedIs ==
    ASSUME NEW h, SmHwInv(h), TakesInterrupt(h)
    PROVE  LET p == FirstPended(h)
               e == [pri |-> p[1], line |-> p[2], id |-> FreeId(h.pc)]
               r == Activated(h)
           IN /\ p \in h.pended /\ p = <<SimPri(p[2]), p[2]>> /\ p[2] \in SimLines /\ p[1] \in Int
              /\ e \in SmHandlerTypes /\ e.id # BootThread /\ e.id \notin DOMAIN h.pc
              /\ r.line = h.line /\ r.lock = h.lock /\ r.zombies = h.zombies /\ r.task = h.task
              /\ r.pended = h.pended \ {p}
              /\ r.active \in Seq(SmHandlerTypes) /\ Len(r.active) = Len(h.active) + 1
              /\ \A i \in DOMAIN h.active : r.active[i] = h.active[i]
              /\ r.active[Len(h.active) + 1] = e
              /\ DOMAIN r.pc = DOMAIN h.pc \cup {e.id}
              /\ \A x \in DOMAIN h.pc : r.pc[x] = h.pc[x]
              /\ r.pc[e.id] = IF p[2] = SimDispatch THEN "enter" ELSE "code"
              /\ r \in SmHwTypes /\ IsFiniteSet(DOMAIN r.pc)
PROOF
<1> DEFINE p == FirstPended(h)
           e == [pri |-> p[1], line |-> p[2], id |-> FreeId(h.pc)]
           where == IF p[2] = SimDispatch THEN "enter" ELSE "code"
           r == Activated(h)
<1>1. h \in SmHwTypes /\ IsFiniteSet(DOMAIN h.pc) /\ h.pended # {}
    BY DEF SmHwInv, TakesInterrupt
<1>2. p \in h.pended /\ h.pended \subseteq {<<SimPri(l), l>> : l \in SimLines}
    BY <1>1, FirstPendedIs DEF SmHwTypes
<1>3. p = <<SimPri(p[2]), p[2]>> /\ p[2] \in SimLines
    <2> HIDE DEF p
    <2> QED BY <1>2, PendedIs
<1>4. p[1] \in Int
    <2>1. p[1] = SimPri(p[2])
        <3> HIDE DEF p
        <3> QED BY <1>3
    <2> HIDE DEF p
    <2> QED BY <2>1, <1>3, SimPriIs
<1>5. e.id \in Nat \ {0} /\ e.id \notin DOMAIN h.pc
    BY <1>1, FreeIdIs
<1>6. e \in SmHandlerTypes
    <2> HIDE DEF p
    <2> QED BY <1>3, <1>4, <1>5 DEF SmHandlerTypes
<1>7. r = [h EXCEPT !.pended = @ \ {p}, !.pc = Spawn(@, FreeId(h.pc), where), !.active = Append(@, e)]
    BY DEF Activated
<1> HIDE DEF p, e, where, r
<1>8. r = [line |-> h.line, pended |-> h.pended \ {p}, active |-> Append(h.active, e),
           pc |-> Spawn(h.pc, FreeId(h.pc), where),
           lock |-> h.lock, zombies |-> h.zombies, task |-> h.task]
    BY <1>1, <1>7 DEF SmHwTypes
<1>9. h.active \in Seq(SmHandlerTypes)
    BY <1>1 DEF SmHwTypes
<1>10. /\ Append(h.active, e) \in Seq(SmHandlerTypes) /\ Len(Append(h.active, e)) = Len(h.active) + 1
       /\ \A i \in DOMAIN h.active : Append(h.active, e)[i] = h.active[i]
       /\ Append(h.active, e)[Len(h.active) + 1] = e
    BY <1>6, <1>9, AppendProperties
<1>11. FreeId(h.pc) = e.id
    BY DEF e
<1>12. /\ DOMAIN r.pc = DOMAIN h.pc \cup {e.id}
       /\ \A x \in DOMAIN h.pc : r.pc[x] = h.pc[x]
       /\ r.pc[e.id] = where
    BY <1>5, <1>8, <1>11 DEF Spawn
<1>13. r.pc \in UNION {[D -> SmPlaces] : D \in SUBSET SmIds}
    <2>1. PICK D \in SUBSET SmIds : h.pc \in [D -> SmPlaces]
        BY <1>1 DEF SmHwTypes
    <2>2. e.id \in SmIds /\ where \in SmPlaces
        BY <1>5 DEF SmIds, where, SmPlaces
    <2>3. r.pc \in [D \cup {e.id} -> SmPlaces]
        BY <2>1, <2>2, <1>8, <1>11 DEF Spawn
    <2>4. D \cup {e.id} \in SUBSET SmIds
        BY <2>1, <2>2
    <2> QED BY <2>3, <2>4
<1>14. IsFiniteSet(DOMAIN r.pc)
    BY <1>1, <1>12, FS_AddElement
<1>15. r \in SmHwTypes
    <2>1. r.pended \in SUBSET {<<SimPri(l), l>> : l \in SimLines}
        BY <1>2, <1>8
    <2>2. /\ h.line \in [SimLines -> [enable : BOOLEAN, pended : BOOLEAN]]
          /\ h.lock \in BOOLEAN /\ h.zombies \in Seq(SmIds) /\ h.task \in SmIds \cup {NoTask}
        BY <1>1 DEF SmHwTypes
    <2> QED BY <2>1, <2>2, <1>8, <1>10, <1>13 DEF SmHwTypes
<1>16. e.id # BootThread
    BY <1>5 DEF BootThread
<1>17. r.line = h.line /\ r.lock = h.lock /\ r.zombies = h.zombies /\ r.task = h.task /\ r.pended = h.pended \ {p}
       /\ r.active = Append(h.active, e)
    BY <1>8
<1>18. r.pc[e.id] = IF p[2] = SimDispatch THEN "enter" ELSE "code"
    BY <1>12 DEF where
<1> QED BY <1>2, <1>3, <1>4, <1>5, <1>6, <1>10, <1>12, <1>14, <1>15, <1>16, <1>17, <1>18 DEF p, e, r

\* The new handler is the innermost: it fits on the stack.
LEMMA ActivatedKeeps ==
    ASSUME NEW h, SmHwInv(h)
    PROVE  SmHwInv(Activated(h)) /\ SmGrown(h, Activated(h))
PROOF
<1>1. CASE ~TakesInterrupt(h)
    <2>1. Activated(h) = h
        BY <1>1 DEF Activated
    <2>2. h.active \in Seq(SmHandlerTypes) /\ Len(h.active) \in Nat /\ DOMAIN h.active = 1 .. Len(h.active)
        BY DEF SmHwInv, SmHwTypes
    <2> QED BY <2>1, <2>2 DEF SmGrown
<1>2. CASE TakesInterrupt(h)
    <2> DEFINE p == FirstPended(h)
               e == [pri |-> p[1], line |-> p[2], id |-> FreeId(h.pc)]
               r == Activated(h)
               n == Len(h.active)
    <2>1. /\ p \in h.pended /\ p = <<SimPri(p[2]), p[2]>> /\ p[2] \in SimLines /\ p[1] \in Int
          /\ e \in SmHandlerTypes /\ e.id # BootThread /\ e.id \notin DOMAIN h.pc
          /\ r.line = h.line /\ r.lock = h.lock /\ r.zombies = h.zombies /\ r.task = h.task
          /\ r.pended = h.pended \ {p}
          /\ r.active \in Seq(SmHandlerTypes) /\ Len(r.active) = n + 1
          /\ \A i \in DOMAIN h.active : r.active[i] = h.active[i]
          /\ r.active[n + 1] = e
          /\ DOMAIN r.pc = DOMAIN h.pc \cup {e.id}
          /\ \A x \in DOMAIN h.pc : r.pc[x] = h.pc[x]
          /\ r.pc[e.id] = IF p[2] = SimDispatch THEN "enter" ELSE "code"
          /\ r \in SmHwTypes /\ IsFiniteSet(DOMAIN r.pc)
        BY <1>2, ActivatedIs
    <2>2. /\ ~(h.lock /\ SimManaged(p[1]))
          /\ h.active # <<>> => h.active[n].pri >= p[1]
        BY <1>2 DEF TakesInterrupt
    <2>3. /\ e.pri = p[1] /\ e.line = p[2] /\ SimPri(p[2]) = p[1]
        <3>1. p[1] = SimPri(p[2])
            <4> HIDE DEF p
            <4> QED BY <2>1
        <3> QED BY <3>1
    <2>4. h \in SmHwTypes /\ SmStack(h)
        BY DEF SmHwInv
    <2>5. h.active \in Seq(SmHandlerTypes) /\ n \in Nat /\ DOMAIN h.active = 1 .. n
        BY <2>4 DEF SmHwTypes
    <2>13. \A k \in DOMAIN h.active : h.active[k].pri \in Int
        <3>1. \A k \in DOMAIN h.active : h.active[k] \in SmHandlerTypes
            BY <2>5, ElementOfSeq
        <3> QED BY <3>1 DEF SmHandlerTypes
    <2>6. DOMAIN r.active = 1 .. n + 1
        BY <2>1, <2>5
    <2> HIDE DEF p, e, r, n
    <2>7. ASSUME NEW i \in DOMAIN r.active
          PROVE  \/ i \in DOMAIN h.active /\ r.active[i] = h.active[i] /\ i <= n
                 \/ i = n + 1 /\ r.active[i] = e
        BY <2>1, <2>5, <2>6
    <2>8. ASSUME NEW i \in DOMAIN r.active
          PROVE  /\ r.active[i].pri = SimPri(r.active[i].line)
                 /\ r.active[i].id # BootThread /\ r.active[i].id \in DOMAIN r.pc
                 /\ r.pc[r.active[i].id] \in SmHandlerPlaces(r.active[i].line)
        <3>1. CASE i \in DOMAIN h.active /\ r.active[i] = h.active[i]
            BY <3>1, <2>1, <2>4 DEF SmStack
        <3>2. CASE i = n + 1 /\ r.active[i] = e
            BY <3>2, <2>1, <2>3 DEF SmHandlerPlaces
        <3> QED BY <3>1, <3>2, <2>7
    <2>9. ASSUME NEW i \in DOMAIN r.active, NEW j \in DOMAIN r.active, i < j
          PROVE  r.active[i].pri >= r.active[j].pri /\ r.active[i].id # r.active[j].id
        <3>1. i \in DOMAIN h.active /\ r.active[i] = h.active[i] /\ i <= n
            BY <2>5, <2>6, <2>7, <2>9
        <3>2. CASE j \in DOMAIN h.active /\ r.active[j] = h.active[j]
            BY <3>1, <3>2, <2>4, <2>9 DEF SmStack
        <3>3. CASE j = n + 1 /\ r.active[j] = e
            <4>1. h.active # <<>> /\ n \in DOMAIN h.active
                BY <3>1, <2>5 DEF n
            <4>2. h.active[i].pri >= h.active[n].pri
                <5>1. h.active[i].pri \in Int
                    BY <3>1, <2>13
                <5>2. i < n \/ i = n
                    BY <3>1, <2>5
                <5> QED BY <5>1, <5>2, <3>1, <4>1, <2>4 DEF SmStack
            <4>3. h.active[i].pri \in Int /\ h.active[n].pri \in Int
                BY <3>1, <4>1, <2>13
            <4>4. h.active[i].id \in DOMAIN h.pc
                BY <3>1, <2>4 DEF SmStack
            <4> QED BY <3>1, <3>3, <4>1, <4>2, <4>3, <4>4, <2>1, <2>2, <2>3
        <3> QED BY <3>2, <3>3, <2>7
    <2>10. SmHwInv(r)
        BY <2>1, <2>8, <2>9 DEF SmHwInv, SmStack
    <2>11. SmNew(h, r, n + 1)
        <3>1. <<e.pri, e.line>> = p
            BY <2>1, <2>3
        <3>2. p \in h.pended \ r.pended
            BY <2>1
        <3> QED BY <3>1, <3>2, <2>1, <2>2, <2>3 DEF SmNew
    <2>12. SmGrown(h, r)
        <3>1. \A i \in DOMAIN r.active : i > n => i = n + 1
            BY <2>5, <2>6
        <3>2. n + 1 \in DOMAIN r.active /\ n + 1 > n
            BY <2>5, <2>6
        <3>3. \A q \in h.pended \ r.pended : r.active[n + 1].line = q[2]
            BY <2>1, <2>3
        <3>4. \A x \in DOMAIN r.pc \ DOMAIN h.pc : r.active[n + 1].id = x
            BY <2>1
        <3>5. n <= Len(r.active) /\ Len(r.active) # n
            BY <2>1, <2>5
        <3> QED BY <2>1, <2>11, <3>1, <3>2, <3>3, <3>4, <3>5 DEF SmGrown, n
    <2> QED BY <2>10, <2>12 DEF r
<1> QED BY <1>1, <1>2

LEMMA GrownTwice ==
    ASSUME NEW h, NEW g, NEW r, SmHwInv(h), SmHwInv(g), SmHwInv(r), SmGrown(h, g), SmGrown(g, r)
    PROVE  SmGrown(h, r)
PROOF
<1> DEFINE n == Len(h.active)
           m == Len(g.active)
           k == Len(r.active)
<1>1. /\ n \in Nat /\ m \in Nat /\ k \in Nat
      /\ DOMAIN h.active = 1 .. n /\ DOMAIN g.active = 1 .. m /\ DOMAIN r.active = 1 .. k
    BY DEF SmHwInv, SmHwTypes
<1>2. n <= m /\ m <= k
    BY DEF SmGrown
<1> HIDE DEF n, m, k
<1>3. \A i \in DOMAIN h.active : i \in DOMAIN g.active /\ r.active[i] = h.active[i]
    <2>1. \A i \in DOMAIN h.active : i \in DOMAIN g.active
        BY <1>1, <1>2
    <2> QED BY <2>1 DEF SmGrown
<1>4. ASSUME NEW i \in DOMAIN g.active, i > n
      PROVE  i \in DOMAIN r.active /\ r.active[i] = g.active[i] /\ SmNew(h, r, i)
    <2>1. i \in DOMAIN r.active /\ r.active[i] = g.active[i]
        BY <1>1, <1>2 DEF SmGrown
    <2>2. SmNew(h, g, i)
        BY <1>4 DEF SmGrown, n
    <2>3. g.active[i].id \in DOMAIN g.pc
        BY DEF SmHwInv, SmStack
    <2>4. r.pc[g.active[i].id] = g.pc[g.active[i].id] /\ r.pended \subseteq g.pended
        BY <2>3 DEF SmGrown
    <2> QED BY <2>1, <2>2, <2>4 DEF SmNew
<1>5. ASSUME NEW i \in DOMAIN r.active, i > m
      PROVE  i > n /\ SmNew(h, r, i)
    <2>1. SmNew(g, r, i)
        BY <1>5 DEF SmGrown, m
    <2>2. i > n
        BY <1>1, <1>2, <1>5
    <2>3. DOMAIN h.pc \subseteq DOMAIN g.pc /\ g.pended \subseteq h.pended /\ g.lock = h.lock
        BY DEF SmGrown
    <2> QED BY <2>1, <2>2, <2>3 DEF SmNew
<1>6. ASSUME NEW i \in DOMAIN r.active, i > n
      PROVE  SmNew(h, r, i)
    <2>1. i > m \/ i \in DOMAIN g.active
        BY <1>1
    <2> QED BY <2>1, <1>4, <1>5, <1>6
<1>7. ASSUME NEW x \in DOMAIN r.pc \ DOMAIN h.pc
      PROVE  \E i \in DOMAIN r.active : i > n /\ r.active[i].id = x
    <2>1. CASE x \in DOMAIN g.pc
        <3>1. PICK i \in DOMAIN g.active : i > n /\ g.active[i].id = x
            BY <2>1 DEF SmGrown, n
        <3> QED BY <3>1, <1>4
    <2>2. CASE x \notin DOMAIN g.pc
        <3>1. PICK i \in DOMAIN r.active : i > m /\ r.active[i].id = x
            BY <2>2 DEF SmGrown, m
        <3> QED BY <3>1, <1>5
    <2> QED BY <2>1, <2>2
<1>8. ASSUME NEW p \in h.pended \ r.pended
      PROVE  \E i \in DOMAIN r.active : i > n /\ r.active[i].line = p[2]
    <2>1. CASE p \notin g.pended
        <3>1. PICK i \in DOMAIN g.active : i > n /\ g.active[i].line = p[2]
            BY <2>1 DEF SmGrown, n
        <3> QED BY <3>1, <1>4
    <2>2. CASE p \in g.pended
        <3>1. PICK i \in DOMAIN r.active : i > m /\ r.active[i].line = p[2]
            BY <2>2 DEF SmGrown, m
        <3> QED BY <3>1, <1>5
    <2> QED BY <2>1, <2>2
<1>9. k = n => r = h
    <2> SUFFICES ASSUME k = n PROVE r = h
        OBVIOUS
    <2>1. k = m /\ m = n
        BY <1>1, <1>2
    <2> QED BY <2>1 DEF SmGrown, n, m, k
<1>10. n <= k
    BY <1>1, <1>2
<1>11. /\ r.line = h.line /\ r.lock = h.lock /\ r.zombies = h.zombies /\ r.task = h.task
       /\ r.pended \subseteq h.pended /\ DOMAIN h.pc \subseteq DOMAIN r.pc
       /\ \A x \in DOMAIN h.pc : r.pc[x] = h.pc[x]
    BY DEF SmGrown
<1> QED BY <1>3, <1>6, <1>7, <1>8, <1>9, <1>10, <1>11 DEF SmGrown, n, k

\* What the loop of check_preemption_by_interrupt does: it activates handlers
\* until there is nothing left that could be taken.
LEMMA CheckPreemptionIs ==
    ASSUME NEW h, SmHwInv(h)
    PROVE  /\ SmHwInv(CheckPreemption(h)) /\ SmGrown(h, CheckPreemption(h))
           /\ ~TakesInterrupt(CheckPreemption(h))
PROOF
<1> DEFINE S == {g \in SmHwTypes : SmHwInv(g) /\ SmGrown(h, g)}
           N == Cardinality(h.pended)
           T == Activations(h)
<1>1. h \in S
    <2>1. h.active \in Seq(SmHandlerTypes) /\ Len(h.active) \in Nat /\ DOMAIN h.active = 1 .. Len(h.active)
        BY DEF SmHwInv, SmHwTypes
    <2> QED BY <2>1 DEF SmGrown, SmHwInv
<1>2. ASSUME NEW g \in S PROVE Activated(g) \in S
    <2>1. SmHwInv(Activated(g)) /\ SmGrown(g, Activated(g))
        BY <1>2, ActivatedKeeps
    <2>2. SmGrown(h, Activated(g))
        BY <1>2, <2>1, GrownTwice
    <2> QED BY <2>1, <2>2 DEF SmHwInv
<1>3. /\ T = [n \in Nat |-> IF n = 0 THEN h ELSE Activated(T[n - 1])]
      /\ \A n \in Nat : T[n] \in S
    <2> HIDE DEF S
    <2> QED BY <1>1, <1>2, ActivationsAre
<1>4. N \in Nat /\ IsFiniteSet(h.pended)
    <2>1. h.pended \subseteq {<<SimPri(l), l>> : l \in SimLines}
        BY DEF SmHwInv, SmHwTypes
    <2> QED BY <2>1, PendedIs
<1> DEFINE A == {n \in Nat : TakesInterrupt(T[n]) => Cardinality(T[n].pended) = N - n}
<1> HIDE DEF T
<1>5. 0 \in A
    BY <1>3, <1>4
<1>6. ASSUME NEW n \in Nat, n \in A PROVE n + 1 \in A
    <2>1. T[n + 1] = Activated(T[n]) /\ T[n] \in S
        BY <1>3
    <2>2. CASE ~TakesInterrupt(T[n])
        <3>1. T[n + 1] = T[n]
            BY <2>1, <2>2 DEF Activated
        <3> QED BY <2>2, <3>1
    <2>3. CASE TakesInterrupt(T[n])
        <3>1. SmHwInv(T[n])
            BY <2>1
        <3>2. /\ FirstPended(T[n]) \in T[n].pended
              /\ T[n + 1].pended = T[n].pended \ {FirstPended(T[n])}
            BY <2>1, <2>3, <3>1, ActivatedIs
        <3>3. IsFiniteSet(T[n].pended) /\ Cardinality(T[n].pended) \in Nat
            <4>1. T[n].pended \subseteq {<<SimPri(l), l>> : l \in SimLines}
                BY <3>1 DEF SmHwInv, SmHwTypes
            <4> QED BY <4>1, PendedIs
        <3>4. Cardinality(T[n + 1].pended) = Cardinality(T[n].pended) - 1
            BY <3>2, <3>3, FS_RemoveElement
        <3>5. Cardinality(T[n].pended) = N - n
            BY <1>6, <2>3
        <3>6. Cardinality(T[n + 1].pended) = N - (n + 1)
            <4> HIDE DEF N
            <4> QED BY <1>4, <3>4, <3>5
        <3> QED BY <3>6
    <2> QED BY <2>2, <2>3
<1>7. N \in A
    <2> HIDE DEF A, N
    <2> QED BY <1>4, <1>5, <1>6, NatSet
<1>8. CheckPreemption(h) = T[N] /\ T[N] \in S
    BY <1>3, <1>4 DEF CheckPreemption, T
<1>9. ~TakesInterrupt(T[N])
    <2> SUFFICES ASSUME TakesInterrupt(T[N]) PROVE FALSE
        OBVIOUS
    <2>1. Cardinality(T[N].pended) = 0
        <3> HIDE DEF N
        <3> QED BY <1>4, <1>7
    <2>2. T[N].pended \subseteq {<<SimPri(l), l>> : l \in SimLines}
        BY <1>8 DEF SmHwInv, SmHwTypes
    <2>3. T[N].pended = {}
        BY <2>1, <2>2, PendedIs, FS_EmptySet
    <2> QED BY <2>3 DEF TakesInterrupt
<1> QED BY <1>8, <1>9

\* The places of threads and the levels of handlers, when some were activated.
LEMMA GrownLevels ==
    ASSUME NEW h, NEW g, SmHwInv(h), SmHwInv(g), SmGrown(h, g)
    PROVE  /\ \A i \in DOMAIN h.active : /\ i \in DOMAIN g.active /\ i <= Len(h.active)
                                         /\ g.active[i] = h.active[i] /\ SmLevel(g, i) = SmLevel(h, i)
           /\ \A i \in DOMAIN g.active :
                 \/ i \in DOMAIN h.active
                 \/ /\ i > Len(h.active) /\ SmNew(h, g, i) /\ SmLevel(g, i) \in {"enter", "code"}
           /\ \A i \in DOMAIN h.active, j \in DOMAIN g.active : j > Len(h.active) => j > i
           /\ \A t \in Tasks : SmPlace(g, t) = SmPlace(h, t)
           /\ \A x \in DOMAIN g.pc : x \in DOMAIN h.pc \/ (x \in Nat \ {0} /\ g.pc[x] \in {"enter", "code"})
PROOF
<1> DEFINE n == Len(h.active)
           m == Len(g.active)
<1>1. /\ n \in Nat /\ m \in Nat /\ DOMAIN h.active = 1 .. n /\ DOMAIN g.active = 1 .. m
      /\ h.active \in Seq(SmHandlerTypes) /\ g.active \in Seq(SmHandlerTypes)
    BY DEF SmHwInv, SmHwTypes
<1>2. n <= m
    BY DEF SmGrown
<1> HIDE DEF n, m
<1>3. ASSUME NEW i \in DOMAIN h.active
      PROVE  /\ i \in DOMAIN g.active /\ i <= n
             /\ g.active[i] = h.active[i] /\ SmLevel(g, i) = SmLevel(h, i)
    <2>1. i \in DOMAIN g.active /\ i <= n
        BY <1>1, <1>2
    <2>2. g.active[i] = h.active[i] /\ h.active[i].id \in DOMAIN h.pc
        BY DEF SmGrown, SmHwInv, SmStack
    <2> QED BY <2>1, <2>2 DEF SmGrown, SmLevel
<1>4. ASSUME NEW i \in DOMAIN g.active, i > n
      PROVE  SmNew(h, g, i) /\ SmLevel(g, i) \in {"enter", "code"}
    BY <1>4 DEF SmGrown, SmNew, SmLevel, n
<1>5. \A i \in DOMAIN g.active : i \in DOMAIN h.active \/ i > n
    BY <1>1
<1>6. ASSUME NEW x \in DOMAIN g.pc, x \notin DOMAIN h.pc
      PROVE  x \in Nat \ {0} /\ g.pc[x] \in {"enter", "code"}
    <2>1. PICK i \in DOMAIN g.active : i > n /\ g.active[i].id = x
        BY <1>6 DEF SmGrown, n
    <2>2. g.active[i] \in SmHandlerTypes
        BY <1>1, ElementOfSeq
    <2>3. x # 0
        BY <2>1 DEF SmHwInv, SmStack, BootThread
    <2> QED BY <2>1, <2>2, <2>3, <1>4 DEF SmHandlerTypes, SmLevel
<1>7. ASSUME NEW t \in Tasks PROVE SmPlace(g, t) = SmPlace(h, t)
    <2>1. t \notin Nat
        BY SimAssumption
    <2> QED BY <2>1, <1>6 DEF SmPlace, SmGrown
<1>8. \A i \in DOMAIN h.active, j \in DOMAIN g.active : j > n => j > i
    BY <1>1
<1> QED BY <1>3, <1>4, <1>5, <1>6, <1>7, <1>8 DEF n

\* The invariant is kept by the activation of interrupts.
LEMMA GrownSound ==
    ASSUME NEW h, NEW g, SmHwInv(h), SmHwInv(g), SmGrown(h, g),
           NEW tsm, NEW running, NEW ready, NEW wanted, NEW owner,
           SmSound(h, tsm, running, ready, wanted, owner)
    PROVE  SmSound(g, tsm, running, ready, wanted, owner)
PROOF
<1>1. /\ g.line = h.line /\ g.lock = h.lock /\ g.zombies = h.zombies /\ g.task = h.task
      /\ g.pended \subseteq h.pended
      /\ DOMAIN h.pc \subseteq DOMAIN g.pc /\ \A x \in DOMAIN h.pc : g.pc[x] = h.pc[x]
      /\ \A p \in h.pended \ g.pended :
            \E i \in DOMAIN g.active : i > Len(h.active) /\ g.active[i].line = p[2]
    BY DEF SmGrown
<1>2. /\ \A i \in DOMAIN h.active : /\ i \in DOMAIN g.active /\ i <= Len(h.active)
                                    /\ g.active[i] = h.active[i] /\ SmLevel(g, i) = SmLevel(h, i)
      /\ \A i \in DOMAIN g.active :
            \/ i \in DOMAIN h.active
            \/ /\ i > Len(h.active) /\ SmNew(h, g, i) /\ SmLevel(g, i) \in {"enter", "code"}
      /\ \A i \in DOMAIN h.active, j \in DOMAIN g.active : j > Len(h.active) => j > i
    BY GrownLevels
<1>3. /\ \A t \in Tasks : SmPlace(g, t) = SmPlace(h, t)
      /\ \A x \in DOMAIN g.pc : x \in DOMAIN h.pc \/ (x \in Nat \ {0} /\ g.pc[x] \in {"enter", "code"})
    BY GrownLevels
<1>4. SmEnding(g)
    <2>1. SmEnding(h)
        BY DEF SmSound
    <2>2. \A x \in DOMAIN g.pc \ DOMAIN h.pc : h.zombies # <<x>>
        <3> SUFFICES ASSUME NEW x \in DOMAIN g.pc \ DOMAIN h.pc, h.zombies = <<x>> PROVE FALSE
            OBVIOUS
        <3>1. PICK z \in DOMAIN h.pc : h.zombies = <<z>>
            BY <2>1 DEF SmEnding
        <3> QED BY <3>1
    <2> QED BY <2>1, <2>2, <1>1, <1>3 DEF SmEnding
<1>5. SmThreads(g, tsm)
    BY <1>3 DEF SmSound, SmThreads
<1>6. SmLocking(g, owner)
    <2>1. SmLocking(h, owner)
        BY DEF SmSound
    <2>2. ASSUME h.lock PROVE SmOwnerTask(g, owner) \/ \E i \in DOMAIN g.active : SmOwnerAt(g, owner, i)
        <3>1. \A i \in DOMAIN g.active : i \in DOMAIN h.active \/ ~SimManaged(g.active[i].pri)
            BY <1>2, <2>2 DEF SmNew
        <3>2. CASE SmOwnerTask(h, owner)
            BY <3>1, <3>2, <1>1, <1>2, <1>3 DEF SmOwnerTask
        <3>3. ASSUME NEW i \in DOMAIN h.active, SmOwnerAt(h, owner, i)
              PROVE  SmOwnerAt(g, owner, i)
            <4>1. \A j \in DOMAIN g.active : j > i => ~SimManaged(g.active[j].pri)
                BY <3>1, <3>3, <1>2 DEF SmOwnerAt
            <4> QED BY <3>3, <4>1, <1>2 DEF SmOwnerAt
        <3> QED BY <2>1, <2>2, <3>2, <3>3, <1>2 DEF SmLocking
    <2>3. \A i \in DOMAIN g.active :
             SmLevel(g, i) \in {"choose", "leave"} => g.lock /\ owner = g.active[i].id
        BY <2>1, <1>1, <1>2 DEF SmLocking
    <2>4. g.lock /\ <<SimLowest, SimDispatch>> \in g.pended =>
             \E i \in DOMAIN g.active : g.active[i].id = owner /\ g.active[i].line # SimDispatch
        BY <2>1, <1>1, <1>2 DEF SmLocking
    <2> QED BY <2>2, <2>3, <2>4, <1>1 DEF SmLocking
<1>7. SmExiting(g) <=> SmExiting(h)
    BY <1>3 DEF SmExiting
<1>8. ASSUME NEW places, "enter" \in places, SmDispatches(h, places) PROVE SmDispatches(g, places)
    <2>1. CASE <<SimLowest, SimDispatch>> \in h.pended \ g.pended
        <3>1. PICK i \in DOMAIN g.active : i > Len(h.active) /\ g.active[i].line = SimDispatch
            BY <1>1, <2>1
        <3>2. i \notin DOMAIN h.active
            <4>1. DOMAIN h.active = 1 .. Len(h.active) /\ Len(h.active) \in Nat
                BY DEF SmHwInv, SmHwTypes
            <4> QED BY <3>1, <4>1
        <3>3. SmLevel(g, i) = "enter"
            BY <3>1, <3>2, <1>2 DEF SmNew, SmLevel
        <3> QED BY <3>3, <1>8 DEF SmDispatches
    <2>2. CASE <<SimLowest, SimDispatch>> \notin h.pended \ g.pended
        BY <2>2, <1>1, <1>2, <1>7, <1>8 DEF SmDispatches
    <2> QED BY <2>1, <2>2
<1>9. SmChosen(g, tsm, running, ready, wanted)
    <2>1. SmChosen(h, tsm, running, ready, wanted)
        BY DEF SmSound
    <2>2. SmHeld(g, tsm) = SmHeld(h, tsm)
        BY <1>1 DEF SmHeld
    <2>3. ASSUME NEW i \in DOMAIN h.active, SmSets(h, i) PROVE SmSets(g, i)
        BY <2>3, <1>2 DEF SmSets
    <2>4. wanted => SmDispatches(g, {"enter", "choose"})
        BY <2>1, <1>8 DEF SmChosen
    <2>5. g.task # NoTask /\ SmHeld(g, tsm) = NoTask => SmDispatches(g, {"enter", "choose", "leave", "set"})
        BY <2>1, <2>2, <1>1, <1>8 DEF SmChosen
    <2>6. running = SmHeld(g, tsm) \/ \E i \in DOMAIN g.active : SmSets(g, i)
        BY <2>1, <2>2, <2>3, <1>2 DEF SmChosen
    <2>7. \A t \in Tasks : t = running \/ t \in ready => tsm[t] # "Uninit"
        BY <2>1 DEF SmChosen
    <2> QED BY <2>4, <2>5, <2>6, <2>7 DEF SmChosen
<1>10. g.line[SimDispatch].enable
    BY <1>1 DEF SmSound
<1> QED BY <1>4, <1>5, <1>6, <1>9, <1>10 DEF SmSound

-----------------------------------------------------------------------------
(* The state of the hardware in a step.                                    *)

LEMMA HwIs ==
    /\ Hw.line = smLine /\ Hw.pended = smPended /\ Hw.active = smActive /\ Hw.pc = smPc
    /\ Hw.lock = smLock /\ Hw.zombies = smZombies /\ Hw.task = smTask
    /\ Hw' = [line |-> smLine', pended |-> smPended', active |-> smActive', pc |-> smPc',
              lock |-> smLock', zombies |-> smZombies', task |-> smTask']
PROOF
    BY DEF Hw

LEMMA InstallIs ==
    ASSUME NEW g \in SmHwTypes, Install(g)
    PROVE  Hw' = g
PROOF
<1>1. g = [line |-> g.line, pended |-> g.pended, active |-> g.active, pc |-> g.pc,
           lock |-> g.lock, zombies |-> g.zombies, task |-> g.task]
    BY DEF SmHwTypes
<1> QED BY <1>1, HwIs DEF Install

\* A step that ends with check_preemption_by_interrupt.
LEMMA ActivationStep ==
    ASSUME NEW h, SmHwInv(h), Install(CheckPreemption(h)),
           NEW tsm, NEW running, NEW ready, NEW wanted, NEW owner,
           SmSound(h, tsm, running, ready, wanted, owner)
    PROVE  /\ SmHwInv(Hw') /\ SmGrown(h, Hw') /\ ~TakesInterrupt(Hw')
           /\ SmSound(Hw', tsm, running, ready, wanted, owner)
           /\ BootThread \notin DOMAIN h.pc => BootThread \notin DOMAIN Hw'.pc
PROOF
<1>1. /\ SmHwInv(CheckPreemption(h)) /\ SmGrown(h, CheckPreemption(h))
      /\ ~TakesInterrupt(CheckPreemption(h))
    BY CheckPreemptionIs
<1>2. Hw' = CheckPreemption(h)
    BY <1>1, InstallIs DEF SmHwInv
<1>3. SmSound(CheckPreemption(h), tsm, running, ready, wanted, owner)
    BY <1>1, GrownSound
<1>4. BootThread \notin DOMAIN h.pc => BootThread \notin DOMAIN CheckPreemption(h).pc
    BY <1>1, GrownLevels DEF BootThread
<1> QED BY <1>1, <1>2, <1>3, <1>4

LEMMA PreemptedStep ==
    ASSUME NEW h, SmHwInv(h), Preempted(h), smCur = ChooseNextThread(h),
           NEW tsm, NEW running, NEW ready, NEW wanted, NEW owner,
           SmSound(h, tsm, running, ready, wanted, owner)
    PROVE  /\ SmHwInv(Hw') /\ SmGrown(h, Hw') /\ SmRunning(Hw', smCur') /\ ~TakesInterrupt(Hw')
           /\ SmSound(Hw', tsm, running, ready, wanted, owner)
           /\ BootThread \notin DOMAIN h.pc => BootThread \notin DOMAIN Hw'.pc
PROOF
<1>1. /\ SmHwInv(CheckPreemption(h)) /\ SmGrown(h, CheckPreemption(h))
    BY CheckPreemptionIs
<1>2. Install(CheckPreemption(h)) /\ Hw' = CheckPreemption(h)
    BY <1>1, InstallIs DEF SmHwInv, Preempted
<1>3. /\ SmHwInv(Hw') /\ SmGrown(h, Hw') /\ ~TakesInterrupt(Hw')
      /\ SmSound(Hw', tsm, running, ready, wanted, owner)
      /\ BootThread \notin DOMAIN h.pc => BootThread \notin DOMAIN Hw'.pc
    BY <1>2, ActivationStep
<1>4. smCur' = ChooseNextThread(Hw')
    <2>1. smCur' = IF CheckPreemption(h).active # h.active THEN ChooseNextThread(CheckPreemption(h)) ELSE smCur
        BY DEF Preempted
    <2>2. CASE CheckPreemption(h).active = h.active
        <3>1. CheckPreemption(h) = h
            BY <1>1, <2>2 DEF SmGrown
        <3> QED BY <2>1, <2>2, <3>1, <1>2
    <2>3. CASE CheckPreemption(h).active # h.active
        BY <2>1, <2>3, <1>2
    <2> QED BY <2>2, <2>3
<1> QED BY <1>3, <1>4 DEF SmRunning

LEMMA UpdateLineIs ==
    ASSUME NEW h, SmHwInv(h), NEW l \in SimLines, NEW ln \in [enable : BOOLEAN, pended : BOOLEAN]
    PROVE  LET u == UpdateLine(h, l, ln)
           IN /\ SmHwInv(u) /\ u.line = [h.line EXCEPT ![l] = ln]
              /\ u.pended = (h.pended \ {<<SimPri(l), l>>})
                            \cup (IF ln.enable /\ ln.pended THEN {<<SimPri(l), l>>} ELSE {})
              /\ u.active = h.active /\ u.pc = h.pc /\ u.lock = h.lock
              /\ u.zombies = h.zombies /\ u.task = h.task
PROOF
<1> DEFINE u == UpdateLine(h, l, ln)
           P == (h.pended \ {<<SimPri(l), l>>})
                \cup (IF ln.enable /\ ln.pended THEN {<<SimPri(l), l>>} ELSE {})
<1>1. h \in SmHwTypes
    BY DEF SmHwInv
<1>2. u = [line |-> [h.line EXCEPT ![l] = ln], pended |-> P, active |-> h.active, pc |-> h.pc,
           lock |-> h.lock, zombies |-> h.zombies, task |-> h.task]
    <2>1. u = [h EXCEPT !.line[l] = ln, !.pended = P]
        BY Zenon DEF UpdateLine
    <2>2. h = [line |-> h.line, pended |-> h.pended, active |-> h.active, pc |-> h.pc,
               lock |-> h.lock, zombies |-> h.zombies, task |-> h.task]
        BY <1>1 DEF SmHwTypes
    <2> HIDE DEF u, P
    <2> QED BY <2>1, <2>2
<1>3. P \in SUBSET {<<SimPri(k), k>> : k \in SimLines}
    BY <1>1 DEF SmHwTypes
<1>4. [h.line EXCEPT ![l] = ln] \in [SimLines -> [enable : BOOLEAN, pended : BOOLEAN]]
    BY <1>1 DEF SmHwTypes
<1>5. u \in SmHwTypes
    <2> HIDE DEF P
    <2> QED BY <1>1, <1>2, <1>3, <1>4 DEF SmHwTypes
<1>6. /\ u.active = h.active /\ u.pc = h.pc /\ u.lock = h.lock
      /\ u.zombies = h.zombies /\ u.task = h.task /\ u.pended = P /\ u.line = [h.line EXCEPT ![l] = ln]
    BY <1>2
<1> HIDE DEF u, P
<1>7. SmHwInv(u)
    BY <1>5, <1>6 DEF SmHwInv, SmStack
<1> QED BY <1>6, <1>7 DEF u, P

\* What lines are pended matters to the invariant for the dispatcher only.
LEMMA SoundSame ==
    ASSUME NEW h, NEW u, NEW tsm, NEW running, NEW ready, NEW wanted, NEW owner,
           SmSound(h, tsm, running, ready, wanted, owner),
           u.active = h.active, u.pc = h.pc, u.lock = h.lock, u.zombies = h.zombies, u.task = h.task,
           u.line[SimDispatch].enable,
           NEW asked, asked => wanted \/ <<SimLowest, SimDispatch>> \in u.pended,
           <<SimLowest, SimDispatch>> \in h.pended => <<SimLowest, SimDispatch>> \in u.pended,
           <<SimLowest, SimDispatch>> \in u.pended /\ u.lock => <<SimLowest, SimDispatch>> \in h.pended
    PROVE  SmSound(u, tsm, running, ready, asked, owner)
PROOF
<1>1. SmEnding(u) /\ SmThreads(u, tsm)
    BY DEF SmSound, SmEnding, SmThreads, SmPlace
<1>2. SmLocking(u, owner)
    BY DEF SmSound, SmLocking, SmOwnerTask, SmOwnerAt, SmPlace, SmLevel
<1>3. ASSUME NEW places, SmDispatches(h, places) PROVE SmDispatches(u, places)
    BY <1>3 DEF SmDispatches, SmExiting, SmPlace, SmLevel
<1>4. SmChosen(u, tsm, running, ready, asked)
    <2>1. SmChosen(h, tsm, running, ready, wanted)
        BY DEF SmSound
    <2>2. asked => SmDispatches(u, {"enter", "choose"})
        <3>1. wanted => SmDispatches(u, {"enter", "choose"})
            BY <2>1, <1>3 DEF SmChosen
        <3>2. <<SimLowest, SimDispatch>> \in u.pended => SmDispatches(u, {"enter", "choose"})
            BY DEF SmDispatches
        <3> QED BY <3>1, <3>2
    <2>3. u.task # NoTask /\ SmHeld(u, tsm) = NoTask => SmDispatches(u, {"enter", "choose", "leave", "set"})
        BY <2>1, <1>3 DEF SmChosen, SmHeld
    <2>4. running = SmHeld(u, tsm) \/ \E i \in DOMAIN u.active : SmSets(u, i)
        BY SMTT(20), <2>1 DEF SmChosen, SmHeld, SmSets, SmLevel
    <2>5. \A t \in Tasks : t = running \/ t \in ready => tsm[t] # "Uninit"
        BY <2>1 DEF SmChosen
    <2> QED BY <2>2, <2>3, <2>4, <2>5 DEF SmChosen
<1> QED BY <1>1, <1>2, <1>4 DEF SmSound

\* The thread that executes.
LEMMA CurIs ==
    ASSUME NEW h, SmHwInv(h), SmEnding(h), NEW cur, cur = ChooseNextThread(h)
    PROVE  /\ h.zombies # <<>> => /\ cur \in DOMAIN h.pc /\ h.zombies = <<cur>>
                                  /\ h.pc[cur] \in {"boot", "exit", "zombie"}
                                  /\ \A i \in DOMAIN h.active : cur # h.active[i].id
           /\ h.zombies = <<>> => ~SmExiting(h) /\ SmPlace(h, cur) \notin {"boot", "exit", "zombie"}
           /\ h.zombies = <<>> /\ h.active # <<>> =>
                 /\ Len(h.active) \in DOMAIN h.active /\ cur = h.active[Len(h.active)].id
                 /\ cur \in Nat \ {0} /\ cur \notin Tasks /\ SmPlace(h, cur) = SmLevel(h, Len(h.active))
           /\ h.zombies = <<>> /\ h.active = <<>> => cur = h.task
PROOF
<1>1. /\ h.active \in Seq(SmHandlerTypes) /\ h.zombies \in Seq(SmIds)
      /\ DOMAIN h.active = 1 .. Len(h.active) /\ Len(h.active) \in Nat
    BY DEF SmHwInv, SmHwTypes
<1>2. ASSUME h.zombies # <<>>
      PROVE  /\ cur \in DOMAIN h.pc /\ h.zombies = <<cur>>
             /\ h.pc[cur] \in {"boot", "exit", "zombie"}
             /\ \A i \in DOMAIN h.active : cur # h.active[i].id
    <2>1. PICK z \in DOMAIN h.pc : h.zombies = <<z>>
        BY <1>2 DEF SmEnding
    <2>2. cur = z
        BY <1>2, <2>1 DEF ChooseNextThread
    <2>3. h.pc[z] \in {"boot", "exit", "zombie"}
        BY <2>1 DEF SmEnding
    <2>4. \A i \in DOMAIN h.active : h.pc[h.active[i].id] \in SmHandlerPlaces(h.active[i].line)
        BY DEF SmHwInv, SmStack
    <2>5. \A i \in DOMAIN h.active : h.active[i].id # z
        BY <2>3, <2>4 DEF SmHandlerPlaces
    <2> QED BY <2>1, <2>2, <2>3, <2>5
<1>3. ASSUME h.zombies = <<>>
      PROVE  ~SmExiting(h) /\ \A x : SmPlace(h, x) \notin {"boot", "exit", "zombie"}
    <2>1. \A x \in DOMAIN h.pc : h.zombies # <<x>>
        BY <1>3
    <2>2. \A x : SmPlace(h, x) \notin {"boot", "exit", "zombie"}
        BY <2>1 DEF SmEnding, SmPlace
    <2> QED BY <2>2 DEF SmExiting
<1>4. ASSUME h.zombies = <<>>, h.active # <<>>
      PROVE  /\ Len(h.active) \in DOMAIN h.active /\ cur = h.active[Len(h.active)].id
             /\ cur \in Nat \ {0} /\ cur \notin Tasks /\ SmPlace(h, cur) = SmLevel(h, Len(h.active))
    <2>1. Len(h.active) \in DOMAIN h.active
        BY <1>1, <1>4
    <2>2. cur = h.active[Len(h.active)].id
        BY <1>4 DEF ChooseNextThread
    <2>3. h.active[Len(h.active)] \in SmHandlerTypes
        BY <1>1, <2>1, ElementOfSeq
    <2>4. cur \in Nat /\ cur # 0 /\ cur \in DOMAIN h.pc
        BY <2>1, <2>2, <2>3 DEF SmHandlerTypes, SmHwInv, SmStack, BootThread
    <2> QED BY <2>1, <2>2, <2>4, SimAssumption DEF SmPlace, SmLevel
<1>5. ASSUME h.zombies = <<>>, h.active = <<>> PROVE cur = h.task
    BY <1>5 DEF ChooseNextThread
<1> QED BY <1>2, <1>3, <1>4, <1>5

\* What executes under CPU Lock, unless a thread is run to its end, is the owner
\* of the lock or an unmanaged handler.
LEMMA OwnerIs ==
    ASSUME NEW h, SmHwInv(h), NEW owner, SmLocking(h, owner), h.lock, h.zombies = <<>>,
           h.active # <<>> => SimManaged(h.active[Len(h.active)].pri)
    PROVE  owner = ChooseNextThread(h)
PROOF
<1>1. DOMAIN h.active = 1 .. Len(h.active) /\ Len(h.active) \in Nat /\ h.active \in Seq(SmHandlerTypes)
    BY DEF SmHwInv, SmHwTypes
<1>2. CASE h.active = <<>>
    <2>1. DOMAIN h.active = {}
        BY <1>2
    <2>2. SmOwnerTask(h, owner)
        BY <2>1 DEF SmLocking
    <2> QED BY <1>2, <2>2 DEF SmOwnerTask, ChooseNextThread
<1>3. CASE h.active # <<>>
    <2>1. Len(h.active) \in DOMAIN h.active
        BY <1>1, <1>3
    <2>2. PICK i \in DOMAIN h.active : SmOwnerAt(h, owner, i)
        BY <1>3, <2>1 DEF SmLocking, SmOwnerTask
    <2>3. i = Len(h.active)
        BY <1>1, <1>3, <2>1, <2>2 DEF SmOwnerAt
    <2> QED BY <1>3, <2>2, <2>3 DEF SmOwnerAt, ChooseNextThread
<1> QED BY <1>2, <1>3

-----------------------------------------------------------------------------
(* Every action keeps the invariant.                                       *)

\* The invariant, spelled out.
LEMMA BootedIs ==
    ASSUME SmBootedInv
    PROVE  /\ SmHwInv(Hw) /\ SmEnding(Hw) /\ SmThreads(Hw, smTsm) /\ SmLocking(Hw, smOwner)
           /\ SmChosen(Hw, smTsm, smRunning, smReady, smWanted)
           /\ SmSound(Hw, smTsm, smRunning, smReady, smWanted, smOwner)
           /\ smLine[SimDispatch].enable /\ BootThread \notin DOMAIN smPc
           /\ smCur = ChooseNextThread(Hw) /\ (TakesInterrupt(Hw) => SmExiting(Hw))
           /\ smTask \in Tasks \cup {NoTask, BootThread} /\ smRaises \in Nat
           /\ smTsm \in [Tasks -> {"Uninit", "Dormant", "Running"}]
           /\ smRunning \in Tasks \cup {NoTask} /\ smReady \subseteq Tasks /\ smWanted \in BOOLEAN
PROOF
    BY HwIs DEF SmBootedInv, SmTypes, SmBooted, SmSound, SmRunning

LEMMA BootedNext ==
    ASSUME SmHwInv(Hw'), BootThread \notin DOMAIN Hw'.pc,
           SmSound(Hw', smTsm', smRunning', smReady', smWanted', smOwner'), SmRunning(Hw', smCur'),
           smTask' \in Tasks \cup {NoTask, BootThread}, smRaises' \in Nat,
           smTsm' \in [Tasks -> {"Uninit", "Dormant", "Running"}],
           smRunning' \in Tasks \cup {NoTask}, smReady' \subseteq Tasks, smWanted' \in BOOLEAN
    PROVE  SmBootedInv'
PROOF
<1>1. SmBooted'
    BY HwIs DEF SmBooted, BootThread
<1> QED BY <1>1 DEF SmBootedInv, SmTypes

\* The code of a task, or of a managed handler, executes.
LEMMA InCodeIs ==
    ASSUME SmBootedInv, InCode
    PROVE  /\ smZombies = <<>> /\ ~TakesInterrupt(Hw) /\ ~SmExiting(Hw)
           /\ smActive = <<>> => smTask = smCur /\ smCur \in Tasks
           /\ smActive # <<>> => /\ Len(smActive) \in DOMAIN smActive
                                 /\ smCur = smActive[Len(smActive)].id /\ smCur \notin Tasks
                                 /\ SmLevel(Hw, Len(smActive)) = "code"
                                 /\ smActive[Len(smActive)].line # SimDispatch
                                 /\ SimManaged(smActive[Len(smActive)].pri)
           /\ smLock => smOwner = smCur
           /\ \A i \in DOMAIN smActive : SmLevel(Hw, i) \notin {"choose", "leave"}
PROOF
<1>1. /\ SmHwInv(Hw) /\ SmEnding(Hw) /\ SmLocking(Hw, smOwner)
      /\ smCur = ChooseNextThread(Hw) /\ (TakesInterrupt(Hw) => SmExiting(Hw))
      /\ BootThread \notin DOMAIN smPc
    BY BootedIs
<1>2. /\ smCur \in DOMAIN smPc /\ smPc[smCur] = "code" /\ SmPlace(Hw, smCur) = "code"
    BY HwIs DEF InCode, Where, SmPlace
<1>3. /\ smZombies # <<>> => smPc[smCur] \in {"boot", "exit", "zombie"}
      /\ smZombies = <<>> => ~SmExiting(Hw)
      /\ smZombies = <<>> /\ smActive # <<>> =>
            /\ Len(smActive) \in DOMAIN smActive /\ smCur = smActive[Len(smActive)].id
            /\ smCur \notin Tasks /\ SmPlace(Hw, smCur) = SmLevel(Hw, Len(smActive))
      /\ smZombies = <<>> /\ smActive = <<>> => smCur = smTask
    BY <1>1, CurIs, HwIs
<1>4. smZombies = <<>>
    BY <1>2, <1>3
<1>5. smActive = <<>> => smCur \in Tasks
    <2>1. smCur \in SmIds
        BY <1>1, <1>2, HwIs DEF SmHwInv, SmHwTypes
    <2>2. smTask \in Tasks \cup {NoTask, BootThread}
        BY BootedIs
    <2>3. NoTask \notin SmIds
        BY SimAssumption, TasksAssumption DEF SmIds
    <2> QED BY <1>1, <1>2, <1>3, <1>4, <2>1, <2>2, <2>3
<1>6. smActive # <<>> => /\ SmLevel(Hw, Len(smActive)) = "code"
                         /\ smActive[Len(smActive)].line # SimDispatch
                         /\ SimManaged(smActive[Len(smActive)].pri)
    <2> SUFFICES ASSUME smActive # <<>>
                 PROVE  /\ SmLevel(Hw, Len(smActive)) = "code"
                        /\ smActive[Len(smActive)].line # SimDispatch
                        /\ SimManaged(smActive[Len(smActive)].pri)
        OBVIOUS
    <2>1. SmLevel(Hw, Len(smActive)) = "code" /\ Len(smActive) \in DOMAIN smActive
        BY <1>2, <1>3, <1>4
    <2>2. SmLevel(Hw, Len(smActive)) \in SmHandlerPlaces(smActive[Len(smActive)].line)
        BY <1>1, <2>1, HwIs DEF SmHwInv, SmStack, SmLevel
    <2>3. SimManaged(smActive[Len(smActive)].pri)
        BY <1>3, <1>4 DEF InCode, InHandler, Innermost
    <2> QED BY <2>1, <2>2, <2>3 DEF SmHandlerPlaces
<1>7. smLock => smOwner = smCur
    BY <1>1, <1>4, <1>6, OwnerIs, HwIs
<1>8. ASSUME NEW i \in DOMAIN smActive, SmLevel(Hw, i) \in {"choose", "leave"} PROVE FALSE
    <2>1. smOwner = smActive[i].id /\ smLock
        BY <1>1, <1>8, HwIs DEF SmLocking
    <2>2. SmLevel(Hw, i) = "code"
        BY <2>1, <1>2, <1>7, HwIs DEF SmLevel
    <2> QED BY <1>8, <2>2
<1> QED BY <1>1, <1>3, <1>4, <1>5, <1>6, <1>7, <1>8

\* What is pended while CPU Lock is not active is masked by a device handler.
LEMMA UnlockedIs ==
    ASSUME NEW h, SmHwInv(h), ~TakesInterrupt(h), ~h.lock, h.pended # {}
    PROVE  /\ h.active # <<>> /\ Len(h.active) \in DOMAIN h.active
           /\ h.active[Len(h.active)].line # SimDispatch
PROOF
<1>1. /\ h.active \in Seq(SmHandlerTypes) /\ DOMAIN h.active = 1 .. Len(h.active) /\ Len(h.active) \in Nat
      /\ h.pended \subseteq {<<SimPri(l), l>> : l \in SimLines}
    BY DEF SmHwInv, SmHwTypes
<1>2. FirstPended(h) \in h.pended
    BY <1>1, FirstPendedIs
<1>3. PICK l \in SimLines : FirstPended(h) = <<SimPri(l), l>>
    BY <1>1, <1>2
<1>4. FirstPended(h)[1] = SimPri(l) /\ SimPri(l) \in Int /\ SimPri(l) <= SimLowest
    BY <1>3, SimPriIs
<1>5. h.active # <<>> /\ ~(h.active[Len(h.active)].pri >= FirstPended(h)[1])
    BY DEF TakesInterrupt
<1>6. Len(h.active) \in DOMAIN h.active
    BY <1>1, <1>5
<1>7. h.active[Len(h.active)].pri = SimPri(h.active[Len(h.active)].line)
    BY <1>6 DEF SmHwInv, SmStack
<1>8. h.active[Len(h.active)].line # SimDispatch
    <2> SUFFICES ASSUME h.active[Len(h.active)].line = SimDispatch PROVE FALSE
        OBVIOUS
    <2>1. h.active[Len(h.active)].pri = SimLowest /\ SimLowest \in Nat
        BY <1>7, SimPriIs DEF SimPri
    <2> QED BY <2>1, <1>4, <1>5
<1> QED BY <1>5, <1>6, <1>8

LEMMA SmEnterCpuLockKeeps == SmBootedInv /\ SmEnterCpuLock => SmBootedInv'
PROOF
<1> SUFFICES ASSUME SmBootedInv, SmEnterCpuLock PROVE SmBootedInv'
    OBVIOUS
<1>1. /\ InCode /\ ~smLock /\ smLock' = TRUE /\ smOwner' = smCur
      /\ UNCHANGED <<smLine, smPended, smActive, smZombies, smPc, smCur, smTask, smTsm,
                     smRunning, smReady, smWanted, smRaises>>
    BY DEF SmEnterCpuLock, smHardware, smKernel
<1>2. /\ SmHwInv(Hw) /\ SmEnding(Hw) /\ SmThreads(Hw, smTsm) /\ SmLocking(Hw, smOwner)
      /\ SmChosen(Hw, smTsm, smRunning, smReady, smWanted)
      /\ smLine[SimDispatch].enable /\ BootThread \notin DOMAIN smPc /\ smCur = ChooseNextThread(Hw)
    BY BootedIs
<1>3. /\ Hw'.line = Hw.line /\ Hw'.pended = Hw.pended /\ Hw'.active = Hw.active /\ Hw'.pc = Hw.pc
      /\ Hw'.lock = TRUE /\ Hw'.zombies = Hw.zombies /\ Hw'.task = Hw.task
    BY <1>1, HwIs
<1>4. Hw' \in SmHwTypes
    BY <1>1, <1>2, HwIs DEF SmHwInv, SmHwTypes
<1>5. SmHwInv(Hw')
    BY <1>2, <1>3, <1>4 DEF SmHwInv, SmStack
<1>6. ~SmExiting(Hw) /\ ~TakesInterrupt(Hw)
    BY <1>1, InCodeIs
<1>7. SmEnding(Hw')
    <2>1. \A x \in DOMAIN Hw.pc : Hw.pc[x] # "exit"
        BY <1>2, <1>6 DEF SmEnding, SmExiting, SmPlace
    <2> QED BY <1>2, <1>3, <2>1 DEF SmEnding
<1>8. SmThreads(Hw', smTsm)
    BY <1>2, <1>3 DEF SmThreads, SmPlace
<1>9. SmChosen(Hw', smTsm, smRunning, smReady, smWanted)
    BY SMTT(20), <1>2, <1>3 DEF SmChosen, SmDispatches, SmExiting, SmPlace, SmLevel, SmHeld, SmSets
<1>10. SmLocking(Hw', smOwner')
    <2>1. \A i \in DOMAIN Hw'.active : SmLevel(Hw', i) \notin {"choose", "leave"}
        BY <1>1, <1>3, InCodeIs, HwIs DEF SmLevel
    <2>2. CASE smActive = <<>>
        <3>1. smTask = smCur /\ smCur \in Tasks /\ DOMAIN Hw'.active = {}
            BY <1>1, <2>2, InCodeIs, HwIs
        <3>2. SmPlace(Hw', smCur) = "code"
            BY <1>1, HwIs DEF InCode, Where, SmPlace
        <3>3. SmOwnerTask(Hw', smOwner')
            BY <1>1, <1>3, <3>1, <3>2, HwIs DEF SmOwnerTask
        <3>4. Hw.pended = {}
            BY <1>1, <1>2, <1>6, <2>2, UnlockedIs, HwIs
        <3> QED BY <2>1, <3>3, <3>4, <1>3 DEF SmLocking
    <2>3. CASE smActive # <<>>
        <3> DEFINE n == Len(smActive)
        <3>1. /\ n \in DOMAIN smActive /\ smCur = smActive[n].id
              /\ smActive[n].line # SimDispatch /\ SimManaged(smActive[n].pri)
            BY <1>1, <2>3, InCodeIs
        <3>2. DOMAIN smActive = 1 .. n /\ n \in Nat
            BY <1>2, HwIs DEF SmHwInv, SmHwTypes
        <3> HIDE DEF n
        <3>3. \A j \in DOMAIN smActive : ~(j > n)
            BY <3>2
        <3>4. SmOwnerAt(Hw', smOwner', n)
            BY <1>1, <1>3, <3>1, <3>3, HwIs DEF SmOwnerAt
        <3>5. n \in DOMAIN Hw'.active /\ Hw'.active[n].id = smOwner' /\ Hw'.active[n].line # SimDispatch
            BY <1>1, <1>3, <3>1, HwIs
        <3> QED BY <2>1, <3>4, <3>5, <1>3 DEF SmLocking
    <2> QED BY <2>2, <2>3
<1>11. SmSound(Hw', smTsm', smRunning', smReady', smWanted', smOwner')
    BY <1>1, <1>2, <1>3, <1>7, <1>8, <1>9, <1>10, HwIs DEF SmSound
<1>12. SmRunning(Hw', smCur')
    <2>1. ~TakesInterrupt(Hw')
        <3>1. FirstPended(Hw') = FirstPended(Hw)
            BY <1>3 DEF FirstPended
        <3> QED BY <1>1, <1>3, <1>6, <3>1, HwIs DEF TakesInterrupt
    <2> QED BY <1>1, <1>2, <1>3, <2>1 DEF SmRunning, ChooseNextThread
<1> QED BY <1>1, <1>2, <1>3, <1>5, <1>11, <1>12, BootedIs, BootedNext, HwIs

LEMMA UnlockIs ==
    ASSUME NEW h, SmHwInv(h), NEW tsm, NEW running, NEW ready, NEW wanted, NEW owner, NEW next,
           SmSound(h, tsm, running, ready, wanted, owner),
           \A i \in DOMAIN h.active : SmLevel(h, i) \notin {"choose", "leave"}
    PROVE  LET u == [h EXCEPT !.lock = FALSE]
           IN /\ SmHwInv(u) /\ SmSound(u, tsm, running, ready, wanted, next)
              /\ ChooseNextThread(u) = ChooseNextThread(h) /\ u.pc = h.pc
              /\ u.task = h.task /\ u.active = h.active /\ u.pended = h.pended /\ ~u.lock
PROOF
<1> DEFINE u == [h EXCEPT !.lock = FALSE]
<1>1. h \in SmHwTypes
    BY DEF SmHwInv
<1>2. u \in SmHwTypes
    BY <1>1 DEF SmHwTypes
<1>3. /\ u.line = h.line /\ u.pended = h.pended /\ u.active = h.active /\ u.pc = h.pc
      /\ u.lock = FALSE /\ u.zombies = h.zombies /\ u.task = h.task
    BY <1>1 DEF SmHwTypes
<1> HIDE DEF u
<1>4. SmHwInv(u)
    BY <1>2, <1>3 DEF SmHwInv, SmStack
<1>5. SmEnding(u) /\ SmThreads(u, tsm)
    BY <1>3 DEF SmSound, SmEnding, SmThreads, SmPlace
<1>6. SmLocking(u, next)
    BY <1>3 DEF SmLocking, SmLevel
<1>7. SmChosen(u, tsm, running, ready, wanted)
    BY SMTT(20), <1>3 DEF SmSound, SmChosen, SmDispatches, SmExiting, SmPlace, SmLevel, SmHeld, SmSets
<1>8. ChooseNextThread(u) = ChooseNextThread(h)
    BY <1>3 DEF ChooseNextThread
<1> QED BY <1>3, <1>4, <1>5, <1>6, <1>7, <1>8 DEF SmSound, u

LEMMA SmLeaveCpuLockKeeps == SmBootedInv /\ SmLeaveCpuLock => SmBootedInv'
PROOF
<1> SUFFICES ASSUME SmBootedInv, SmLeaveCpuLock PROVE SmBootedInv'
    OBVIOUS
<1> DEFINE u == [Hw EXCEPT !.lock = FALSE]
<1>1. /\ InCode /\ Preempted(u) /\ smOwner' = NoTask
      /\ UNCHANGED <<smTsm, smRunning, smReady, smWanted, smRaises>>
    BY DEF SmLeaveCpuLock, smKernel
<1>2. /\ SmHwInv(u) /\ SmSound(u, smTsm, smRunning, smReady, smWanted, NoTask)
      /\ ChooseNextThread(u) = ChooseNextThread(Hw) /\ u.pc = Hw.pc /\ u.task = Hw.task
    BY <1>1, BootedIs, InCodeIs, UnlockIs, HwIs
<1> HIDE DEF u
<1>3. /\ SmHwInv(Hw') /\ SmGrown(u, Hw') /\ SmRunning(Hw', smCur')
      /\ SmSound(Hw', smTsm, smRunning, smReady, smWanted, NoTask)
      /\ BootThread \notin DOMAIN u.pc => BootThread \notin DOMAIN Hw'.pc
    BY <1>1, <1>2, BootedIs, PreemptedStep
<1>4. smTask' = smTask
    BY <1>2, <1>3, HwIs DEF SmGrown
<1> QED BY <1>1, <1>2, <1>3, <1>4, BootedIs, BootedNext, HwIs

\* A line of a device is changed or pended.
LEMMA SmLineKeeps ==
    ASSUME SmBootedInv, NEW l \in SimDevices, NEW ln \in [enable : BOOLEAN, pended : BOOLEAN],
           Preempted(UpdateLine(Hw, l, ln)), smRaises' = smRaises + 1,
           UNCHANGED <<smTsm, smKernel, smOwner>>
    PROVE  SmBootedInv'
PROOF
<1> DEFINE u == UpdateLine(Hw, l, ln)
           d == <<SimLowest, SimDispatch>>
<1>1. l \in SimLines /\ l # SimDispatch
    BY SimAssumption DEF SimLines
<1>2. /\ SmHwInv(u) /\ u.line = [Hw.line EXCEPT ![l] = ln]
      /\ u.pended = (Hw.pended \ {<<SimPri(l), l>>})
                    \cup (IF ln.enable /\ ln.pended THEN {<<SimPri(l), l>>} ELSE {})
      /\ u.active = Hw.active /\ u.pc = Hw.pc /\ u.lock = Hw.lock
      /\ u.zombies = Hw.zombies /\ u.task = Hw.task
    BY <1>1, BootedIs, UpdateLineIs
<1> HIDE DEF u
<1>3. u.line[SimDispatch].enable
    BY <1>1, <1>2, BootedIs, HwIs DEF SmHwInv, SmHwTypes
<1>4. d \in u.pended <=> d \in Hw.pended
    BY <1>1, <1>2
<1>5. SmSound(u, smTsm, smRunning, smReady, smWanted, smOwner)
    BY <1>2, <1>3, <1>4, BootedIs, SoundSame
<1>6. smCur = ChooseNextThread(u)
    BY <1>2, BootedIs DEF ChooseNextThread
<1>7. /\ SmHwInv(Hw') /\ SmGrown(u, Hw') /\ SmRunning(Hw', smCur')
      /\ SmSound(Hw', smTsm, smRunning, smReady, smWanted, smOwner)
      /\ BootThread \notin DOMAIN u.pc => BootThread \notin DOMAIN Hw'.pc
    BY <1>2, <1>5, <1>6, PreemptedStep DEF u
<1>8. smTask' = smTask
    BY <1>2, <1>7, HwIs DEF SmGrown
<1>9. smRaises' \in Nat
    BY BootedIs
<1> QED BY <1>2, <1>7, <1>8, <1>9, BootedIs, BootedNext, HwIs DEF smKernel

LEMMA SmConfigureKeeps ==
    ASSUME SmBootedInv, NEW l \in SimDevices, NEW enable \in BOOLEAN, NEW pended \in BOOLEAN,
           SmConfigure(l, enable, pended)
    PROVE  SmBootedInv'
PROOF
<1>1. [enable |-> enable, pended |-> pended] \in [enable : BOOLEAN, pended : BOOLEAN]
    OBVIOUS
<1> QED BY <1>1, SmLineKeeps DEF SmConfigure

LEMMA PendIs ==
    ASSUME NEW h, SmHwInv(h), NEW l \in SimLines
    PROVE  /\ [h.line[l] EXCEPT !.pended = TRUE] \in [enable : BOOLEAN, pended : BOOLEAN]
           /\ [h.line[l] EXCEPT !.pended = TRUE].pended
           /\ [h.line[l] EXCEPT !.pended = TRUE].enable = h.line[l].enable
PROOF
<1>1. h.line[l] \in [enable : BOOLEAN, pended : BOOLEAN]
    BY DEF SmHwInv, SmHwTypes
<1> QED BY <1>1

LEMMA SmPendLineKeeps ==
    ASSUME SmBootedInv, NEW l \in SimDevices, SmPendLine(l)
    PROVE  SmBootedInv'
PROOF
<1>1. [Hw.line[l] EXCEPT !.pended = TRUE] \in [enable : BOOLEAN, pended : BOOLEAN]
    BY PendIs, BootedIs DEF SimLines
<1> QED BY <1>1, SmLineKeeps DEF SmPendLine, Pend

\* The dispatch line is pended.
LEMMA PendDispatchIs ==
    ASSUME NEW h, SmHwInv(h), h.line[SimDispatch].enable
    PROVE  LET u == Pend(h, SimDispatch)
           IN /\ SmHwInv(u) /\ u.line[SimDispatch].enable
              /\ u.pended = h.pended \cup {<<SimLowest, SimDispatch>>}
              /\ u.active = h.active /\ u.pc = h.pc /\ u.lock = h.lock
              /\ u.zombies = h.zombies /\ u.task = h.task
PROOF
<1> DEFINE ln == [h.line[SimDispatch] EXCEPT !.pended = TRUE]
<1>1. SimDispatch \in SimLines /\ SimPri(SimDispatch) = SimLowest
    BY SimPriIs DEF SimPri
<1>2. ln \in [enable : BOOLEAN, pended : BOOLEAN] /\ ln.pended /\ ln.enable
    BY <1>1, PendIs
<1>3. Pend(h, SimDispatch) = UpdateLine(h, SimDispatch, ln)
    BY DEF Pend
<1> HIDE DEF ln
<1>4. h.line \in [SimLines -> [enable : BOOLEAN, pended : BOOLEAN]]
    BY DEF SmHwInv, SmHwTypes
<1> DEFINE u == UpdateLine(h, SimDispatch, ln)
<1>5. /\ SmHwInv(u) /\ u.line = [h.line EXCEPT ![SimDispatch] = ln]
      /\ u.pended = (h.pended \ {<<SimPri(SimDispatch), SimDispatch>>})
                    \cup (IF ln.enable /\ ln.pended THEN {<<SimPri(SimDispatch), SimDispatch>>} ELSE {})
      /\ u.active = h.active /\ u.pc = h.pc /\ u.lock = h.lock
      /\ u.zombies = h.zombies /\ u.task = h.task
    BY <1>1, <1>2, UpdateLineIs
<1> HIDE DEF u
<1>6. u.line[SimDispatch].enable
    BY <1>1, <1>2, <1>4, <1>5
<1>7. u.pended = h.pended \cup {<<SimLowest, SimDispatch>>}
    BY <1>1, <1>2, <1>5
<1> QED BY <1>3, <1>5, <1>6, <1>7 DEF u

LEMMA SmYieldCpuKeeps == SmBootedInv /\ SmYieldCpu => SmBootedInv'
PROOF
<1> SUFFICES ASSUME SmBootedInv, SmYieldCpu PROVE SmBootedInv'
    OBVIOUS
<1> DEFINE u == Pend(Hw, SimDispatch)
<1>1. /\ ~smLock /\ Preempted(u) /\ smWanted' = TRUE
      /\ UNCHANGED <<smTsm, smRunning, smReady, smOwner, smRaises>>
    BY DEF SmYieldCpu
<1>2. /\ SmHwInv(u) /\ u.line[SimDispatch].enable
      /\ u.pended = Hw.pended \cup {<<SimLowest, SimDispatch>>}
      /\ u.active = Hw.active /\ u.pc = Hw.pc /\ u.lock = Hw.lock
      /\ u.zombies = Hw.zombies /\ u.task = Hw.task
    BY PendDispatchIs, BootedIs, HwIs
<1> HIDE DEF u
<1>3. SmSound(u, smTsm, smRunning, smReady, TRUE, smOwner)
    BY <1>1, <1>2, BootedIs, SoundSame, HwIs
<1>4. smCur = ChooseNextThread(u)
    BY <1>2, BootedIs DEF ChooseNextThread
<1>5. /\ SmHwInv(Hw') /\ SmGrown(u, Hw') /\ SmRunning(Hw', smCur')
      /\ SmSound(Hw', smTsm, smRunning, smReady, TRUE, smOwner)
      /\ BootThread \notin DOMAIN u.pc => BootThread \notin DOMAIN Hw'.pc
    BY <1>1, <1>2, <1>3, <1>4, PreemptedStep
<1>6. smTask' = smTask
    BY <1>2, <1>5, HwIs DEF SmGrown
<1> QED BY <1>1, <1>2, <1>5, <1>6, BootedIs, BootedNext, HwIs

LEMMA SmActivateKeeps ==
    ASSUME SmBootedInv, NEW t \in Tasks, SmActivate(t)
    PROVE  SmBootedInv'
PROOF
<1>1. /\ InCode /\ smTsm[t] # "Running" /\ smTsm' = [smTsm EXCEPT ![t] = "Dormant"]
      /\ smReady' = smReady \cup {t}
      /\ UNCHANGED <<smLine, smPended, smActive, smZombies, smPc, smCur, smLock, smTask,
                     smRunning, smWanted, smOwner, smRaises>>
    BY DEF SmActivate, smHardware
<1>2. Hw' = Hw
    BY <1>1, HwIs DEF Hw
<1>3. /\ SmThreads(Hw, smTsm) /\ SmChosen(Hw, smTsm, smRunning, smReady, smWanted)
      /\ smTsm \in [Tasks -> {"Uninit", "Dormant", "Running"}]
    BY BootedIs
<1>4. \A s \in Tasks : smTsm'[s] = "Running" <=> smTsm[s] = "Running"
    BY <1>1, <1>3
<1>5. SmThreads(Hw, smTsm')
    BY <1>3, <1>4 DEF SmThreads
<1>6. SmHeld(Hw, smTsm') = SmHeld(Hw, smTsm)
    BY <1>4 DEF SmHeld
<1>7. \A s \in Tasks : s = smRunning' \/ s \in smReady' => smTsm'[s] # "Uninit"
    BY <1>1, <1>3 DEF SmChosen
<1>8. SmChosen(Hw, smTsm', smRunning', smReady', smWanted')
    BY <1>1, <1>3, <1>6, <1>7 DEF SmChosen
<1>9. SmSound(Hw', smTsm', smRunning', smReady', smWanted', smOwner')
    BY <1>1, <1>2, <1>5, <1>8, BootedIs, HwIs DEF SmSound
<1> QED BY <1>1, <1>2, <1>3, <1>9, BootedIs, BootedNext, HwIs DEF SmRunning

LEMMA SmExitKeeps ==
    ASSUME SmBootedInv, NEW t \in Tasks, SmExit(t)
    PROVE  SmBootedInv'
PROOF
<1>1. /\ smCur = t /\ Where(t) = "code" /\ smLock
      /\ smTsm' = [smTsm EXCEPT ![t] = "Uninit"]
      /\ smZombies' = Append(smZombies, t) /\ smLock' = FALSE /\ smOwner' = NoTask
      /\ smPc' = [smPc EXCEPT ![t] = "exit"]
      /\ smRunning' = NoTask /\ smReady' = smReady \ {t} /\ smWanted' = TRUE
      /\ UNCHANGED <<smLine, smPended, smActive, smTask, smCur, smRaises>>
    BY DEF SmExit
<1>2. /\ SmHwInv(Hw) /\ SmEnding(Hw) /\ SmThreads(Hw, smTsm)
      /\ SmChosen(Hw, smTsm, smRunning, smReady, smWanted)
      /\ smLine[SimDispatch].enable /\ BootThread \notin DOMAIN smPc
      /\ smTsm \in [Tasks -> {"Uninit", "Dormant", "Running"}] /\ smCur = ChooseNextThread(Hw)
    BY BootedIs
<1>3. /\ t \in DOMAIN smPc /\ smPc[t] = "code"
    BY <1>1 DEF Where
<1>4. /\ smZombies = <<>> /\ smActive = <<>> /\ smTask = t
    BY <1>1, <1>2, <1>3, CurIs, HwIs DEF SmPlace
<1>5. smZombies' = <<t>>
    BY <1>1, <1>4
<1>6. DOMAIN smPc' = DOMAIN smPc /\ \A x \in DOMAIN smPc : smPc'[x] = IF x = t THEN "exit" ELSE smPc[x]
    BY <1>1
<1>7. Hw' \in SmHwTypes
    <2>1. /\ smLine' \in [SimLines -> [enable : BOOLEAN, pended : BOOLEAN]]
          /\ smPended' \in SUBSET {<<SimPri(l), l>> : l \in SimLines}
          /\ smActive' \in Seq(SmHandlerTypes) /\ smTask' \in SmIds \cup {NoTask}
        BY <1>1, <1>2, HwIs DEF SmHwInv, SmHwTypes
    <2>2. PICK D \in SUBSET SmIds : smPc \in [D -> SmPlaces]
        BY <1>2, HwIs DEF SmHwInv, SmHwTypes
    <2>3. smPc' \in [D -> SmPlaces]
        BY <1>1, <2>2 DEF SmPlaces
    <2>4. smZombies' \in Seq(SmIds)
        BY <1>5 DEF SmIds
    <2>5. smPc' \in UNION {[E -> SmPlaces] : E \in SUBSET SmIds}
        BY <2>2, <2>3
    <2> QED BY <1>1, <2>1, <2>4, <2>5, HwIs DEF SmHwTypes
<1>8. DOMAIN Hw'.active = {} /\ Hw'.active = <<>>
    BY <1>1, <1>4, HwIs
<1>9. SmHwInv(Hw')
    BY <1>2, <1>6, <1>7, <1>8, HwIs DEF SmHwInv, SmStack
<1>10. SmEnding(Hw')
    <2>1. \A x \in DOMAIN smPc : smPc[x] \notin {"boot", "exit", "zombie"}
        <3>1. \A x : smZombies # <<x>>
            BY <1>4
        <3> QED BY <1>2, <3>1, HwIs DEF SmEnding
    <2>2. \A x : <<t>> = <<x>> <=> x = t
        OBVIOUS
    <2> QED BY <1>1, <1>3, <1>5, <1>6, <2>1, <2>2, HwIs DEF SmEnding
<1>11. SmThreads(Hw', smTsm')
    BY <1>1, <1>2, <1>6, HwIs DEF SmThreads, SmPlace
<1>12. SmLocking(Hw', smOwner')
    BY <1>1, <1>8, HwIs DEF SmLocking
<1>13. SmExiting(Hw')
    BY <1>3, <1>6, HwIs DEF SmExiting, SmPlace
<1>14. SmChosen(Hw', smTsm', smRunning', smReady', smWanted')
    <2>1. SmHeld(Hw', smTsm') = NoTask
        BY <1>1, <1>2, <1>4, HwIs DEF SmHeld
    <2>2. \A s \in Tasks : s = smRunning' \/ s \in smReady' => smTsm'[s] # "Uninit"
        BY <1>1, <1>2, TasksAssumption DEF SmChosen
    <2> QED BY <1>1, <1>13, <2>1, <2>2 DEF SmChosen, SmDispatches
<1>15. SmSound(Hw', smTsm', smRunning', smReady', smWanted', smOwner')
    BY <1>1, <1>2, <1>10, <1>11, <1>12, <1>14, HwIs DEF SmSound
<1>16. SmRunning(Hw', smCur')
    BY <1>1, <1>5, <1>13, HwIs DEF SmRunning, ChooseNextThread
<1>17. smTsm' \in [Tasks -> {"Uninit", "Dormant", "Running"}]
    BY <1>1, <1>2
<1> QED BY <1>1, <1>2, <1>6, <1>9, <1>15, <1>16, <1>17, BootedIs, BootedNext, HwIs

\* A function that holds the places of threads, and one of them changes.
LEMMA PlacesType ==
    ASSUME NEW h \in SmHwTypes, NEW x, NEW where \in SmPlaces
    PROVE  [h.pc EXCEPT ![x] = where] \in UNION {[D -> SmPlaces] : D \in SUBSET SmIds}
PROOF
<1>1. PICK D \in SUBSET SmIds : h.pc \in [D -> SmPlaces]
    BY DEF SmHwTypes
<1>2. [h.pc EXCEPT ![x] = where] \in [D -> SmPlaces]
    BY <1>1
<1> QED BY <1>1, <1>2

\* The thread that has parted with its task pends the dispatch line.
LEMMA ExitYieldIs ==
    ASSUME SmBootedInv, NEW t \in Tasks, SmExitYield(t)
    PROVE  LET h == [Pend(Hw, SimDispatch) EXCEPT !.pc[t] = "zombie"]
           IN /\ SmHwInv(h) /\ h.line[SimDispatch].enable
              /\ h.pended = Hw.pended \cup {<<SimLowest, SimDispatch>>}
              /\ h.active = smActive /\ h.lock = FALSE
              /\ h.zombies = <<t>> /\ h.task = smTask /\ h.pc = [smPc EXCEPT ![t] = "zombie"]
              /\ \A i \in DOMAIN smActive : /\ smActive[i].id \in DOMAIN smPc /\ smActive[i].id # t
                                            /\ SmLevel(h, i) = SmLevel(Hw, i)
PROOF
<1> DEFINE u == Pend(Hw, SimDispatch)
           h == [u EXCEPT !.pc[t] = "zombie"]
<1>1. /\ smCur = t /\ Where(t) = "exit"
      /\ Install(CheckPreemption(h)) /\ smCur' = ChooseNextThread(CheckPreemption(h))
      /\ UNCHANGED <<smTsm, smRunning, smReady, smWanted, smOwner, smRaises>>
    BY DEF SmExitYield, smKernel
<1>2. /\ SmHwInv(u) /\ u.line[SimDispatch].enable
      /\ u.pended = Hw.pended \cup {<<SimLowest, SimDispatch>>}
      /\ u.active = smActive /\ u.pc = smPc /\ u.lock = smLock
      /\ u.zombies = smZombies /\ u.task = smTask
    BY PendDispatchIs, BootedIs, HwIs
<1> HIDE DEF u
<1>3. t \in DOMAIN smPc /\ smPc[t] = "exit"
    BY <1>1 DEF Where
<1>4. /\ SmHwInv(Hw) /\ SmEnding(Hw) /\ SmThreads(Hw, smTsm) /\ SmLocking(Hw, smOwner)
      /\ SmChosen(Hw, smTsm, smRunning, smReady, smWanted) /\ BootThread \notin DOMAIN smPc
    BY BootedIs
<1>5. smZombies = <<t>> /\ ~smLock
    BY <1>3, <1>4, HwIs DEF SmEnding
<1>6. /\ h.line = u.line /\ h.pended = u.pended /\ h.active = smActive /\ h.lock = FALSE
      /\ h.zombies = <<t>> /\ h.task = smTask /\ h.pc = [smPc EXCEPT ![t] = "zombie"]
    BY <1>2, <1>5 DEF SmHwInv, SmHwTypes
<1>7. h \in SmHwTypes
    <2>1. h.pc \in UNION {[D -> SmPlaces] : D \in SUBSET SmIds}
        <3>1. Hw \in SmHwTypes /\ "zombie" \in SmPlaces /\ Hw.pc = smPc
            BY <1>4, HwIs DEF SmHwInv, SmPlaces
        <3>2. [Hw.pc EXCEPT ![t] = "zombie"] \in UNION {[D -> SmPlaces] : D \in SUBSET SmIds}
            BY <3>1, PlacesType
        <3> QED BY <3>1, <3>2, <1>6
    <2>2. u \in SmHwTypes
        BY <1>2 DEF SmHwInv
    <2>3. h = [u EXCEPT !.pc = h.pc]
        BY <2>2 DEF SmHwTypes
    <2> HIDE DEF h
    <2> QED BY <2>1, <2>2, <2>3 DEF SmHwTypes
<1> HIDE DEF h
<1>8. DOMAIN h.pc = DOMAIN smPc /\ \A x \in DOMAIN smPc : h.pc[x] = IF x = t THEN "zombie" ELSE smPc[x]
    BY <1>6
<1>9. \A i \in DOMAIN smActive : /\ smActive[i].id \in DOMAIN smPc /\ smActive[i].id # t
                                 /\ SmLevel(h, i) = SmLevel(Hw, i)
    <2> SUFFICES ASSUME NEW i \in DOMAIN smActive
                 PROVE  smActive[i].id \in DOMAIN smPc /\ smActive[i].id # t /\ SmLevel(h, i) = SmLevel(Hw, i)
        OBVIOUS
    <2>1. smActive[i].id \in DOMAIN smPc /\ smPc[smActive[i].id] \in SmHandlerPlaces(smActive[i].line)
        BY <1>4, HwIs DEF SmHwInv, SmStack
    <2>2. smActive[i].id # t
        BY <2>1, <1>3 DEF SmHandlerPlaces
    <2> QED BY <2>1, <2>2, <1>6, <1>8, HwIs DEF SmLevel
<1>10. SmHwInv(h)
    BY <1>4, <1>6, <1>7, <1>8, <1>9, HwIs DEF SmHwInv, SmStack
<1> QED BY <1>2, <1>6, <1>9, <1>10 DEF h, u

LEMMA SmExitYieldKeeps ==
    ASSUME SmBootedInv, NEW t \in Tasks, SmExitYield(t)
    PROVE  SmBootedInv'
PROOF
<1> DEFINE h == [Pend(Hw, SimDispatch) EXCEPT !.pc[t] = "zombie"]
<1>1. /\ smCur = t /\ Where(t) = "exit"
      /\ Install(CheckPreemption(h)) /\ smCur' = ChooseNextThread(CheckPreemption(h))
      /\ UNCHANGED <<smTsm, smRunning, smReady, smWanted, smOwner, smRaises>>
    BY DEF SmExitYield, smKernel
<1>2. /\ SmHwInv(h) /\ h.line[SimDispatch].enable
      /\ h.pended = Hw.pended \cup {<<SimLowest, SimDispatch>>}
      /\ h.active = smActive /\ h.lock = FALSE
      /\ h.zombies = <<t>> /\ h.task = smTask /\ h.pc = [smPc EXCEPT ![t] = "zombie"]
      /\ \A i \in DOMAIN smActive : /\ smActive[i].id \in DOMAIN smPc /\ smActive[i].id # t
                                    /\ SmLevel(h, i) = SmLevel(Hw, i)
    BY ExitYieldIs
<1> HIDE DEF h
<1>3. t \in DOMAIN smPc /\ smPc[t] = "exit"
    BY <1>1 DEF Where
<1>4. /\ SmHwInv(Hw) /\ SmEnding(Hw) /\ SmThreads(Hw, smTsm) /\ SmLocking(Hw, smOwner)
      /\ SmChosen(Hw, smTsm, smRunning, smReady, smWanted) /\ BootThread \notin DOMAIN smPc
    BY BootedIs
<1>5. smZombies = <<t>> /\ ~smLock
    BY <1>3, <1>4, HwIs DEF SmEnding
<1>8. DOMAIN h.pc = DOMAIN smPc /\ \A x \in DOMAIN smPc : h.pc[x] = IF x = t THEN "zombie" ELSE smPc[x]
    BY <1>2
<1>11. SmEnding(h)
    <2>1. \A x : <<t>> = <<x>> <=> x = t
        OBVIOUS
    <2>2. \A x \in DOMAIN smPc : x # t => smPc[x] \notin {"boot", "exit", "zombie"}
        BY <1>4, <1>5, <2>1, HwIs DEF SmEnding
    <2> QED BY <1>3, <1>2, <1>8, <2>1, <2>2 DEF SmEnding
<1>12. SmThreads(h, smTsm)
    BY <1>3, <1>4, <1>8, HwIs DEF SmThreads, SmPlace
<1>13. SmLocking(h, smOwner)
    BY <1>4, <1>5, <1>2, <1>2, HwIs DEF SmLocking
<1>14. SmChosen(h, smTsm, smRunning, smReady, smWanted)
    <2>1. SmHeld(h, smTsm) = SmHeld(Hw, smTsm)
        BY <1>2, HwIs DEF SmHeld
    <2>2. \A i \in DOMAIN smActive : SmSets(Hw, i) => SmSets(h, i)
        BY <1>2, <1>2, HwIs DEF SmSets
    <2>3. \A places : SmDispatches(h, places)
        BY <1>2, <1>2 DEF SmDispatches
    <2>4. smRunning = SmHeld(h, smTsm) \/ \E i \in DOMAIN h.active : SmSets(h, i)
        BY <1>4, <1>2, <2>1, <2>2, HwIs DEF SmChosen
    <2> QED BY <1>4, <2>3, <2>4 DEF SmChosen
<1>15. SmSound(h, smTsm, smRunning, smReady, smWanted, smOwner)
    BY <1>2, <1>2, <1>11, <1>12, <1>13, <1>14 DEF SmSound
<1>16. /\ SmHwInv(Hw') /\ SmGrown(h, Hw') /\ ~TakesInterrupt(Hw')
       /\ SmSound(Hw', smTsm, smRunning, smReady, smWanted, smOwner)
       /\ BootThread \notin DOMAIN h.pc => BootThread \notin DOMAIN Hw'.pc
    BY <1>1, <1>2, <1>15, ActivationStep
<1>17. CheckPreemption(h) = Hw'
    BY <1>1, <1>2, CheckPreemptionIs, InstallIs DEF SmHwInv
<1>18. SmRunning(Hw', smCur') /\ smTask' = smTask
    BY <1>1, <1>2, <1>16, <1>17, HwIs DEF SmRunning, SmGrown
<1> QED BY <1>1, <1>4, <1>8, <1>16, <1>18, BootedIs, BootedNext

\* The end of a thread that is to be run to its end.
LEMMA ExitedIs ==
    ASSUME NEW h, SmHwInv(h), NEW x, h.zombies = <<x>>, x \in DOMAIN h.pc, h.pc[x] # "exit",
           NEW tsm, NEW running, NEW ready, NEW wanted, NEW owner,
           SmSound(h, tsm, running, ready, wanted, owner), TakesInterrupt(h) => SmExiting(h)
    PROVE  LET u == Exited(h, x)
           IN /\ SmHwInv(u) /\ SmSound(u, tsm, running, ready, wanted, owner)
              /\ SmRunning(u, ChooseNextThread(u)) /\ ~TakesInterrupt(u)
              /\ DOMAIN u.pc = DOMAIN h.pc \ {x} /\ u.task = h.task
              /\ u.active = h.active /\ u.pended = h.pended
              /\ \A i \in DOMAIN h.active : SmLevel(u, i) = SmLevel(h, i)
PROOF
<1> DEFINE u == Exited(h, x)
<1>1. h \in SmHwTypes /\ SmStack(h) /\ IsFiniteSet(DOMAIN h.pc)
    BY DEF SmHwInv
<1>2. SmEnding(h) /\ SmThreads(h, tsm) /\ SmLocking(h, owner) /\ SmChosen(h, tsm, running, ready, wanted)
    BY DEF SmSound
<1>3. Len(<<x>>) - 1 = 0 /\ 1 .. 0 = {}
    OBVIOUS
<1> DEFINE z == [k \in 1 .. Len(h.zombies) - 1 |->
                    IF h.zombies[k] = x THEN h.zombies[Len(h.zombies)] ELSE h.zombies[k]]
<1>4. z = <<>>
    <2>1. DOMAIN z = {}
        BY <1>3
    <2> QED BY <2>1
<1>5. /\ u.line = h.line /\ u.pended = h.pended /\ u.active = h.active /\ u.lock = h.lock
      /\ u.zombies = z /\ u.task = h.task
      /\ u.pc = [i \in DOMAIN h.pc \ {x} |-> h.pc[i]]
    BY <1>1 DEF SmHwTypes, Exited
<1>6. u \in SmHwTypes
    <2>1. PICK D \in SUBSET SmIds : h.pc \in [D -> SmPlaces]
        BY <1>1 DEF SmHwTypes
    <2>2. u.pc \in [D \ {x} -> SmPlaces]
        BY <1>5, <2>1
    <2>3. u.pc \in UNION {[E -> SmPlaces] : E \in SUBSET SmIds}
        BY <2>1, <2>2
    <2>4. u.zombies \in Seq(SmIds)
        BY <1>4, <1>5
    <2>5. u = [h EXCEPT !.pc = u.pc, !.zombies = u.zombies]
        BY <1>1 DEF SmHwTypes, Exited
    <2> HIDE DEF u
    <2> QED BY <1>1, <2>3, <2>4, <2>5 DEF SmHwTypes
<1> HIDE DEF u, z
<1>7. DOMAIN u.pc = DOMAIN h.pc \ {x} /\ \A y \in DOMAIN u.pc : u.pc[y] = h.pc[y]
    BY <1>5
<1>8. h.pc[x] \in {"boot", "zombie"}
    BY <1>2 DEF SmEnding
<1>9. \A i \in DOMAIN h.active : /\ h.active[i].id \in DOMAIN u.pc
                                 /\ SmLevel(u, i) = SmLevel(h, i)
    <2> SUFFICES ASSUME NEW i \in DOMAIN h.active
                 PROVE  h.active[i].id \in DOMAIN u.pc /\ SmLevel(u, i) = SmLevel(h, i)
        OBVIOUS
    <2>1. h.active[i].id \in DOMAIN h.pc /\ h.pc[h.active[i].id] \in SmHandlerPlaces(h.active[i].line)
        BY <1>1 DEF SmStack
    <2>2. h.active[i].id # x
        BY <2>1, <1>8 DEF SmHandlerPlaces
    <2> QED BY <2>1, <2>2, <1>5, <1>7 DEF SmLevel
<1>10. IsFiniteSet(DOMAIN u.pc)
    BY <1>1, <1>7, FS_Subset
<1>11. SmHwInv(u)
    <2>1. SmStack(u)
        <3>1. \A i \in DOMAIN h.active :
                 /\ h.active[i].pri = SimPri(h.active[i].line) /\ h.active[i].id # BootThread
                 /\ u.pc[h.active[i].id] \in SmHandlerPlaces(h.active[i].line)
            BY <1>1, <1>7, <1>9 DEF SmStack
        <3> QED BY <3>1, <1>1, <1>5, <1>9 DEF SmStack
    <2> QED BY <2>1, <1>6, <1>10 DEF SmHwInv
<1>12. ASSUME NEW y \in DOMAIN u.pc PROVE u.pc[y] \notin {"boot", "exit", "zombie"}
    <2>1. h.zombies # <<y>>
        <3>1. y # x
            BY <1>7
        <3> QED BY <3>1
    <2> QED BY <2>1, <1>2, <1>7 DEF SmEnding
<1>13. SmEnding(u)
    <2>1. \A y : u.zombies # <<y>>
        BY <1>4, <1>5
    <2> QED BY <2>1, <1>4, <1>5, <1>12 DEF SmEnding
<1>14. SmThreads(u, tsm)
    BY <1>2, <1>7, <1>8 DEF SmThreads, SmPlace
<1>15. ~SmExiting(h)
    <2> SUFFICES ASSUME NEW t \in Tasks, SmPlace(h, t) = "exit" PROVE FALSE
        BY DEF SmExiting
    <2>1. t \in DOMAIN h.pc /\ h.pc[t] = "exit"
        BY DEF SmPlace
    <2>2. h.zombies = <<t>>
        BY <2>1, <1>2 DEF SmEnding
    <2> QED BY <2>1, <2>2
<1>16. SmLocking(u, owner)
    <2>1. SmPlace(h, owner) = "code" => SmPlace(u, owner) = "code"
        BY <1>7, <1>8 DEF SmPlace
    <2>2. SmOwnerTask(h, owner) => SmOwnerTask(u, owner)
        BY <2>1, <1>5 DEF SmOwnerTask
    <2>3. \A i \in DOMAIN h.active : SmOwnerAt(h, owner, i) => SmOwnerAt(u, owner, i)
        BY <1>5, <1>9 DEF SmOwnerAt
    <2> QED BY <2>2, <2>3, <1>2, <1>5, <1>9 DEF SmLocking
<1>17. SmChosen(u, tsm, running, ready, wanted)
    <2>1. ASSUME NEW places, SmDispatches(h, places) PROVE SmDispatches(u, places)
        BY <2>1, <1>5, <1>9, <1>15 DEF SmDispatches
    <2>2. SmHeld(u, tsm) = SmHeld(h, tsm)
        BY <1>5 DEF SmHeld
    <2>3. \A i \in DOMAIN h.active : SmSets(h, i) => SmSets(u, i)
        BY <1>5, <1>9 DEF SmSets
    <2>4. running = SmHeld(u, tsm) \/ \E i \in DOMAIN u.active : SmSets(u, i)
        BY <2>2, <2>3, <1>2, <1>5 DEF SmChosen
    <2> QED BY <2>1, <2>2, <2>4, <1>2, <1>5 DEF SmChosen
<1>18. SmSound(u, tsm, running, ready, wanted, owner)
    BY <1>5, <1>13, <1>14, <1>16, <1>17 DEF SmSound
<1>19. ~TakesInterrupt(u)
    <2>1. FirstPended(u) = FirstPended(h)
        BY <1>5 DEF FirstPended
    <2> QED BY <2>1, <1>5, <1>15 DEF TakesInterrupt
<1> QED BY <1>5, <1>7, <1>9, <1>11, <1>18, <1>19 DEF SmRunning, u

LEMMA SmThreadExitsKeeps == SmBootedInv /\ SmThreadExits => SmBootedInv'
PROOF
<1> SUFFICES ASSUME SmBootedInv, SmThreadExits PROVE SmBootedInv'
    OBVIOUS
<1> DEFINE u == Exited(Hw, smCur)
<1>1. /\ Where(smCur) = "zombie" /\ Install(u) /\ smCur' = ChooseNextThread(u)
      /\ UNCHANGED <<smTsm, smRunning, smReady, smWanted, smOwner, smRaises>>
    BY DEF SmThreadExits, smKernel
<1>2. smCur \in DOMAIN smPc /\ smPc[smCur] = "zombie"
    BY <1>1 DEF Where
<1>3. smZombies = <<smCur>>
    BY <1>2, BootedIs, HwIs DEF SmEnding
<1>4. /\ SmHwInv(u) /\ SmSound(u, smTsm, smRunning, smReady, smWanted, smOwner)
      /\ SmRunning(u, ChooseNextThread(u))
      /\ DOMAIN u.pc = DOMAIN smPc \ {smCur} /\ u.task = smTask
    BY <1>2, <1>3, BootedIs, ExitedIs, HwIs
<1> HIDE DEF u
<1>5. Hw' = u
    BY <1>1, <1>4, InstallIs DEF SmHwInv
<1> QED BY <1>1, <1>4, <1>5, BootedIs, BootedNext, HwIs

\* The thread of a handler ends.
LEMMA ReturnIs ==
    ASSUME SmBootedInv, SmHandlerReturns
    PROVE  LET n == Len(smActive)
               h == [Hw EXCEPT !.active = SubSeq(@, 1, Len(@) - 1), !.pc[smCur] = "zombie",
                               !.zombies = Append(@, smCur)]
           IN /\ smZombies = <<>> /\ smActive # <<>> /\ ~SmExiting(Hw)
              /\ n \in DOMAIN smActive /\ DOMAIN smActive = 1 .. n /\ n \in Nat \ {0}
              /\ smCur = smActive[n].id /\ smCur \notin Tasks
              /\ smCur \in DOMAIN smPc /\ smPc[smCur] \in {"code", "return"}
              /\ SmLevel(Hw, n) \in {"code", "return"}
              /\ SmHwInv(h) /\ SmEnding(h) /\ h.line = smLine /\ h.pended = smPended /\ h.lock = smLock
              /\ h.zombies = <<smCur>> /\ h.task = smTask /\ h.pc = [smPc EXCEPT ![smCur] = "zombie"]
              /\ \A i \in DOMAIN h.active :
                    /\ i \in DOMAIN smActive /\ i < n /\ i # n /\ h.active[i] = smActive[i]
                    /\ smActive[i].id \in DOMAIN smPc /\ smActive[i].id # smCur
                    /\ SmLevel(h, i) = SmLevel(Hw, i)
              /\ \A i \in DOMAIN smActive : i # n => i \in DOMAIN h.active
PROOF
<1> DEFINE n == Len(smActive)
           h == [Hw EXCEPT !.active = SubSeq(@, 1, Len(@) - 1), !.pc[smCur] = "zombie",
                           !.zombies = Append(@, smCur)]
<1>1. /\ InHandler /\ Where(smCur) \in {"code", "return"} /\ (SimManaged(smActive[n].pri) => ~smLock)
      /\ Install(CheckPreemption(h))
      /\ UNCHANGED <<smCur, smTsm, smRunning, smReady, smWanted, smOwner, smRaises>>
    BY DEF SmHandlerReturns, smKernel, Innermost
<1>2. /\ SmHwInv(Hw) /\ SmEnding(Hw) /\ SmThreads(Hw, smTsm) /\ SmLocking(Hw, smOwner)
      /\ SmChosen(Hw, smTsm, smRunning, smReady, smWanted)
      /\ smLine[SimDispatch].enable /\ BootThread \notin DOMAIN smPc /\ smCur = ChooseNextThread(Hw)
    BY BootedIs
<1>3. smCur \in DOMAIN smPc /\ smPc[smCur] \in {"code", "return"}
    BY <1>1 DEF Where
<1>4. /\ smZombies = <<>> /\ smActive # <<>> /\ ~SmExiting(Hw)
      /\ n \in DOMAIN smActive /\ smCur = smActive[n].id /\ smCur \notin Tasks
      /\ SmLevel(Hw, n) \in {"code", "return"}
    <2>1. smActive # <<>> /\ smCur = smActive[Len(smActive)].id
        BY <1>1 DEF InHandler, Innermost
    <2> QED BY <2>1, <1>2, <1>3, CurIs, HwIs DEF SmLevel
<1>5. /\ smActive \in Seq(SmHandlerTypes) /\ DOMAIN smActive = 1 .. n /\ n \in Nat \ {0}
      /\ Hw \in SmHwTypes
    BY <1>2, <1>4, HwIs DEF SmHwInv, SmHwTypes
<1> DEFINE a == SubSeq(smActive, 1, n - 1)
<1>6. /\ h.line = smLine /\ h.pended = smPended /\ h.active = a /\ h.lock = smLock
      /\ h.zombies = <<smCur>> /\ h.task = smTask /\ h.pc = [smPc EXCEPT ![smCur] = "zombie"]
    BY <1>4, <1>5, HwIs DEF SmHwTypes
<1>7. /\ a \in Seq(SmHandlerTypes) /\ Len(a) = n - 1 /\ DOMAIN a = 1 .. n - 1
      /\ \A i \in 1 .. n - 1 : a[i] = smActive[i]
    <2>1. \A i \in 1 .. n - 1 : smActive[i] \in SmHandlerTypes
        BY <1>5, ElementOfSeq
    <2>2. n - 1 \in Int /\ n - 1 \in Nat
        BY <1>5
    <2> HIDE DEF n
    <2> QED BY <2>1, <2>2, SubSeqProperties
<1>8. h \in SmHwTypes
    <2>1. [Hw.pc EXCEPT ![smCur] = "zombie"] \in UNION {[D -> SmPlaces] : D \in SUBSET SmIds}
        <3>1. "zombie" \in SmPlaces
            BY DEF SmPlaces
        <3> QED BY <3>1, <1>5, PlacesType
    <2>2. smCur \in SmIds
        BY <1>3, <1>5, HwIs DEF SmHwTypes
    <2>3. h = [Hw EXCEPT !.active = h.active, !.pc = h.pc, !.zombies = h.zombies]
        BY <1>5 DEF SmHwTypes
    <2>4. h.zombies \in Seq(SmIds)
        <3> HIDE DEF h
        <3> QED BY <1>6, <2>2
    <2> HIDE DEF h, a
    <2> QED BY <1>5, <1>6, <1>7, <2>1, <2>3, <2>4, HwIs DEF SmHwTypes
<1> HIDE DEF h, a, n
<1>9. DOMAIN h.pc = DOMAIN smPc /\ \A x \in DOMAIN smPc : h.pc[x] = IF x = smCur THEN "zombie" ELSE smPc[x]
    BY <1>6
<1>10. ASSUME NEW i \in DOMAIN h.active
       PROVE  /\ i \in DOMAIN smActive /\ i < n /\ i # n /\ h.active[i] = smActive[i]
              /\ smActive[i].id \in DOMAIN smPc /\ smActive[i].id # smCur
              /\ SmLevel(h, i) = SmLevel(Hw, i)
    <2>1. i \in DOMAIN smActive /\ i < n /\ i # n /\ h.active[i] = smActive[i]
        BY <1>5, <1>6, <1>7
    <2>2. smActive[i].id \in DOMAIN smPc /\ smActive[i].id # smCur
        BY <2>1, <1>2, <1>4, HwIs DEF SmHwInv, SmStack
    <2> QED BY <2>1, <2>2, <1>9, HwIs DEF SmLevel
<1>11. ASSUME NEW i \in DOMAIN smActive, i # n PROVE i \in DOMAIN h.active
    BY <1>5, <1>6, <1>7, <1>11
<1>12. SmHwInv(h)
    <2>1. SmStack(Hw)
        BY <1>2 DEF SmHwInv
    <2>2. \A i \in DOMAIN h.active :
             /\ h.active[i].pri = SimPri(h.active[i].line)
             /\ h.active[i].id # BootThread /\ h.active[i].id \in DOMAIN h.pc
             /\ h.pc[h.active[i].id] \in SmHandlerPlaces(h.active[i].line)
        BY <2>1, <1>9, <1>10, HwIs DEF SmStack
    <2>3. \A i, j \in DOMAIN h.active :
             i < j => h.active[i].pri >= h.active[j].pri /\ h.active[i].id # h.active[j].id
        BY <2>1, <1>10, HwIs DEF SmStack
    <2> QED BY <2>2, <2>3, <1>2, <1>8, <1>9, HwIs DEF SmHwInv, SmStack
<1>13. SmEnding(h)
    <2>1. \A x : <<smCur>> = <<x>> <=> x = smCur
        OBVIOUS
    <2>2. \A x \in DOMAIN smPc : smPc[x] \notin {"boot", "exit", "zombie"}
        <3>1. \A x : smZombies # <<x>>
            BY <1>4
        <3> QED BY <1>2, <3>1, HwIs DEF SmEnding
    <2> QED BY <1>3, <1>6, <1>9, <2>1, <2>2 DEF SmEnding
<1> QED BY <1>3, <1>4, <1>5, <1>6, <1>10, <1>11, <1>12, <1>13 DEF h, n

LEMMA SmHandlerReturnsKeeps == SmBootedInv /\ SmHandlerReturns => SmBootedInv'
PROOF
<1> SUFFICES ASSUME SmBootedInv, SmHandlerReturns PROVE SmBootedInv'
    OBVIOUS
<1> DEFINE n == Len(smActive)
           h == [Hw EXCEPT !.active = SubSeq(@, 1, Len(@) - 1), !.pc[smCur] = "zombie",
                           !.zombies = Append(@, smCur)]
<1>1. /\ InHandler /\ Where(smCur) \in {"code", "return"} /\ (SimManaged(smActive[n].pri) => ~smLock)
      /\ Install(CheckPreemption(h))
      /\ UNCHANGED <<smCur, smTsm, smRunning, smReady, smWanted, smOwner, smRaises>>
    BY DEF SmHandlerReturns, smKernel, Innermost
<1>2. /\ SmHwInv(Hw) /\ SmEnding(Hw) /\ SmThreads(Hw, smTsm) /\ SmLocking(Hw, smOwner)
      /\ SmChosen(Hw, smTsm, smRunning, smReady, smWanted)
      /\ smLine[SimDispatch].enable /\ BootThread \notin DOMAIN smPc /\ smCur = ChooseNextThread(Hw)
    BY BootedIs
<1>3. /\ smZombies = <<>> /\ smActive # <<>> /\ ~SmExiting(Hw)
      /\ n \in DOMAIN smActive /\ DOMAIN smActive = 1 .. n /\ n \in Nat \ {0}
      /\ smCur = smActive[n].id /\ smCur \notin Tasks
      /\ smCur \in DOMAIN smPc /\ smPc[smCur] \in {"code", "return"}
      /\ SmLevel(Hw, n) \in {"code", "return"}
      /\ SmHwInv(h) /\ SmEnding(h) /\ h.line = smLine /\ h.pended = smPended /\ h.lock = smLock
      /\ h.zombies = <<smCur>> /\ h.task = smTask /\ h.pc = [smPc EXCEPT ![smCur] = "zombie"]
      /\ \A i \in DOMAIN h.active :
            /\ i \in DOMAIN smActive /\ i < n /\ i # n /\ h.active[i] = smActive[i]
            /\ smActive[i].id \in DOMAIN smPc /\ smActive[i].id # smCur
            /\ SmLevel(h, i) = SmLevel(Hw, i)
      /\ \A i \in DOMAIN smActive : i # n => i \in DOMAIN h.active
    BY ReturnIs
<1> HIDE DEF h, n
<1>9. DOMAIN h.pc = DOMAIN smPc /\ \A x \in DOMAIN smPc : h.pc[x] = IF x = smCur THEN "zombie" ELSE smPc[x]
    BY <1>3
<1>14. SmThreads(h, smTsm)
    BY <1>2, <1>3, <1>9, HwIs DEF SmThreads, SmPlace
<1>15. SmLocking(h, smOwner)
    <2>1. \A i \in DOMAIN h.active :
             SmLevel(h, i) \in {"choose", "leave"} => h.lock /\ smOwner = h.active[i].id
        BY <1>2, <1>3, HwIs DEF SmLocking
    <2>2. CASE ~smLock
        BY <2>1, <2>2, <1>3 DEF SmLocking
    <2>3. CASE smLock
        <3>1. ~SimManaged(smActive[n].pri)
            BY <1>1, <2>3 DEF n
        <3>2. smOwner # smActive[n].id
            <4>1. CASE SmOwnerTask(Hw, smOwner)
                BY <4>1, <1>3 DEF SmOwnerTask
            <4>2. ASSUME NEW i \in DOMAIN smActive, SmOwnerAt(Hw, smOwner, i) PROVE smOwner # smActive[n].id
                <5>1. i # n
                    BY <3>1, <4>2, HwIs DEF SmOwnerAt
                <5>2. i \in DOMAIN h.active
                    BY <5>1, <1>3
                <5> QED BY <4>2, <5>2, <1>3, HwIs DEF SmOwnerAt
            <4> QED BY <4>1, <4>2, <1>2, <2>3, HwIs DEF SmLocking
        <3>3. SmOwnerTask(Hw, smOwner) => SmOwnerTask(h, smOwner)
            <4>1. SmPlace(Hw, smOwner) = "code" /\ smOwner # smCur => SmPlace(h, smOwner) = "code"
                BY <1>9, HwIs DEF SmPlace
            <4> QED BY <3>2, <4>1, <1>3, HwIs DEF SmOwnerTask
        <3>4. ASSUME NEW i \in DOMAIN smActive, SmOwnerAt(Hw, smOwner, i) PROVE i \in DOMAIN h.active /\ SmOwnerAt(h, smOwner, i)
            <4>1. i \in DOMAIN h.active
                BY <3>2, <3>4, <1>3, HwIs DEF SmOwnerAt
            <4> QED BY <3>4, <4>1, <1>3, HwIs DEF SmOwnerAt
        <3>5. h.lock => SmOwnerTask(h, smOwner) \/ \E i \in DOMAIN h.active : SmOwnerAt(h, smOwner, i)
            BY <3>3, <3>4, <1>2, <2>3, HwIs DEF SmLocking
        <3>6. <<SimLowest, SimDispatch>> \in h.pended =>
                 \E i \in DOMAIN h.active : h.active[i].id = smOwner /\ h.active[i].line # SimDispatch
            <4> SUFFICES ASSUME <<SimLowest, SimDispatch>> \in smPended
                         PROVE  \E i \in DOMAIN h.active : h.active[i].id = smOwner /\ h.active[i].line # SimDispatch
                BY <1>3
            <4>1. PICK i \in DOMAIN smActive : smActive[i].id = smOwner /\ smActive[i].line # SimDispatch
                BY <1>2, <2>3, HwIs DEF SmLocking
            <4>2. i \in DOMAIN h.active /\ h.active[i] = smActive[i]
                BY <3>2, <4>1, <1>3
            <4> QED BY <4>1, <4>2
        <3> QED BY <2>1, <3>5, <3>6 DEF SmLocking
    <2> QED BY <2>2, <2>3
<1>16. SmChosen(h, smTsm, smRunning, smReady, smWanted)
    <2>1. ASSUME NEW places, "code" \notin places, "return" \notin places, SmDispatches(Hw, places)
          PROVE  SmDispatches(h, places)
        <3>1. CASE <<SimLowest, SimDispatch>> \in smPended
            BY <3>1, <1>3 DEF SmDispatches
        <3>2. ASSUME NEW i \in DOMAIN smActive, SmLevel(Hw, i) \in places PROVE SmDispatches(h, places)
            <4>1. i \in DOMAIN h.active
                BY <2>1, <3>2, <1>3
            <4> QED BY <3>2, <4>1, <1>3 DEF SmDispatches
        <3> QED BY <2>1, <3>1, <3>2, <1>3, HwIs DEF SmDispatches
    <2>2. SmHeld(h, smTsm) = SmHeld(Hw, smTsm)
        BY <1>3, HwIs DEF SmHeld
    <2>3. ASSUME NEW i \in DOMAIN smActive, SmSets(Hw, i) PROVE i \in DOMAIN h.active /\ SmSets(h, i)
        <3>1. i \in DOMAIN h.active
            BY <2>3, <1>3 DEF SmSets
        <3> QED BY <2>3, <3>1, <1>3, HwIs DEF SmSets
    <2>4. smRunning = SmHeld(h, smTsm) \/ \E i \in DOMAIN h.active : SmSets(h, i)
        BY <2>2, <2>3, <1>2, HwIs DEF SmChosen
    <2>5. smWanted => SmDispatches(h, {"enter", "choose"})
        BY <2>1, <1>2 DEF SmChosen
    <2>6. h.task # NoTask /\ SmHeld(h, smTsm) = NoTask => SmDispatches(h, {"enter", "choose", "leave", "set"})
        BY <2>1, <2>2, <1>2, <1>3, HwIs DEF SmChosen
    <2> QED BY <2>4, <2>5, <2>6, <1>2 DEF SmChosen
<1>17. SmSound(h, smTsm, smRunning, smReady, smWanted, smOwner)
    BY <1>2, <1>3, <1>14, <1>15, <1>16 DEF SmSound
<1>18. /\ SmHwInv(Hw') /\ SmGrown(h, Hw') /\ ~TakesInterrupt(Hw')
       /\ SmSound(Hw', smTsm, smRunning, smReady, smWanted, smOwner)
       /\ BootThread \notin DOMAIN h.pc => BootThread \notin DOMAIN Hw'.pc
    BY <1>1, <1>3, <1>17, ActivationStep DEF h
<1>19. SmRunning(Hw', smCur') /\ smTask' = smTask
    <2>1. Hw'.zombies = <<smCur>> /\ smTask' = smTask
        BY <1>3, <1>18, HwIs DEF SmGrown
    <2> QED BY <2>1, <1>1, <1>18 DEF SmRunning, ChooseNextThread
<1> QED BY <1>1, <1>2, <1>9, <1>18, <1>19, BootedIs, BootedNext

\* The handler of the dispatch line executes.
LEMMA DispatcherIs ==
    ASSUME SmBootedInv, InHandler, Where(smCur) \in {"enter", "choose", "leave", "set"}
    PROVE  LET n == Len(smActive)
           IN /\ smZombies = <<>> /\ ~SmExiting(Hw) /\ ~TakesInterrupt(Hw)
              /\ DOMAIN smActive = 1 .. n /\ n \in Nat \ {0} /\ n \in DOMAIN smActive /\ smActive # <<>>
              /\ smCur = smActive[n].id /\ smCur \in DOMAIN smPc /\ smCur \notin Tasks
              /\ SmLevel(Hw, n) = Where(smCur) /\ SimManaged(smActive[n].pri)
              /\ \A i \in DOMAIN smActive : smActive[i].line = SimDispatch /\ smActive[i].id \in DOMAIN smPc
              /\ \A i \in DOMAIN smActive : i # n => i < n /\ smActive[i].id # smCur
              /\ smLock => smOwner = smCur
PROOF
<1> DEFINE n == Len(smActive)
<1>1. /\ SmHwInv(Hw) /\ SmEnding(Hw) /\ SmLocking(Hw, smOwner)
      /\ smCur = ChooseNextThread(Hw) /\ (TakesInterrupt(Hw) => SmExiting(Hw))
    BY BootedIs
<1>2. smCur \in DOMAIN smPc /\ smPc[smCur] = Where(smCur)
    BY DEF Where
<1>3. smActive # <<>> /\ smCur = smActive[n].id
    BY DEF InHandler, Innermost
<1>4. /\ smZombies = <<>> /\ ~SmExiting(Hw) /\ n \in DOMAIN smActive /\ smCur \notin Tasks
    BY <1>1, <1>2, <1>3, CurIs, HwIs
<1>5. DOMAIN smActive = 1 .. n /\ n \in Nat \ {0} /\ smActive \in Seq(SmHandlerTypes)
    BY <1>1, <1>4, HwIs DEF SmHwInv, SmHwTypes
<1>6. \A i \in DOMAIN smActive : smActive[i].line \in SimLines
    <2>1. \A i \in DOMAIN smActive : smActive[i] \in SmHandlerTypes
        BY <1>5, ElementOfSeq
    <2> QED BY <2>1 DEF SmHandlerTypes
<1>7. SmLevel(Hw, n) = Where(smCur)
    BY <1>2, <1>3, HwIs DEF SmLevel
<1>8. \A i \in DOMAIN smActive :
         /\ smActive[i].pri = SimPri(smActive[i].line) /\ smActive[i].id \in DOMAIN smPc
         /\ SmLevel(Hw, i) \in SmHandlerPlaces(smActive[i].line)
    BY <1>1, HwIs DEF SmHwInv, SmStack, SmLevel
<1> HIDE DEF n
<1>9. smActive[n].line = SimDispatch
    BY <1>4, <1>7, <1>8 DEF SmHandlerPlaces
<1>10. smActive[n].pri = SimLowest /\ SimLowest \in Nat
    BY <1>4, <1>8, <1>9, SimPriIs DEF SimPri
<1>11. ASSUME NEW i \in DOMAIN smActive, i # n
       PROVE  i < n /\ smActive[i].pri >= SimLowest /\ smActive[i].id # smCur
    <2>1. i < n
        BY <1>5, <1>11
    <2>2. smActive[i].pri >= smActive[n].pri /\ smActive[i].id # smActive[n].id
        BY <1>1, <1>4, <2>1, HwIs DEF SmHwInv, SmStack
    <2> QED BY <1>3, <1>10, <2>1, <2>2 DEF n
<1>12. ASSUME NEW i \in DOMAIN smActive PROVE smActive[i].line = SimDispatch
    <2>1. CASE i = n
        BY <2>1, <1>9
    <2>2. CASE i # n
        <3>1. SimPri(smActive[i].line) >= SimLowest
            BY <2>2, <1>8, <1>11
        <3>2. smActive[i].line \in SimLines
            BY <1>6
        <3>3. /\ SimPri(smActive[i].line) \in Int
              /\ SimPri(smActive[i].line) < SimLowest <=> smActive[i].line # SimDispatch
            BY <3>2, SimPriIs
        <3> QED BY <3>1, <3>3, <1>10
    <2> QED BY <2>1, <2>2
<1>13. SimManaged(smActive[n].pri)
    BY <1>10 DEF SimManaged
<1>14. smLock => smOwner = smCur
    BY <1>1, <1>4, <1>13, OwnerIs, HwIs DEF n
<1> QED BY <1>1, <1>2, <1>3, <1>4, <1>5, <1>7, <1>8, <1>11, <1>12, <1>13, <1>14 DEF n

\* The innermost handler, a dispatcher, goes on to another place.
LEMMA MoveIs ==
    ASSUME NEW h, SmHwInv(h), SmEnding(h), h.zombies = <<>>,
           NEW n \in DOMAIN h.active, h.active[n].line = SimDispatch,
           NEW where \in {"enter", "choose", "leave", "set", "return"}, NEW lock \in BOOLEAN, NEW u,
           u = [line |-> h.line, pended |-> h.pended, active |-> h.active,
                pc |-> [h.pc EXCEPT ![h.active[n].id] = where],
                lock |-> lock, zombies |-> h.zombies, task |-> h.task]
    PROVE  /\ SmHwInv(u) /\ SmEnding(u) /\ DOMAIN u.pc = DOMAIN h.pc
           /\ u.line = h.line /\ u.pended = h.pended /\ u.active = h.active /\ u.lock = lock
           /\ u.zombies = h.zombies /\ u.task = h.task
           /\ \A i \in DOMAIN h.active : SmLevel(u, i) = IF i = n THEN where ELSE SmLevel(h, i)
           /\ \A t \in Tasks : SmPlace(u, t) = SmPlace(h, t)
PROOF
<1>1. /\ u.line = h.line /\ u.pended = h.pended /\ u.active = h.active /\ u.lock = lock
      /\ u.zombies = h.zombies /\ u.task = h.task /\ u.pc = [h.pc EXCEPT ![h.active[n].id] = where]
    OBVIOUS
<1>2. h \in SmHwTypes /\ SmStack(h) /\ IsFiniteSet(DOMAIN h.pc)
    BY DEF SmHwInv
<1>3. /\ h.active \in Seq(SmHandlerTypes) /\ DOMAIN h.active = 1 .. Len(h.active) /\ Len(h.active) \in Nat
    BY <1>2 DEF SmHwTypes
<1>4. h.active[n].id \in DOMAIN h.pc /\ h.active[n].id \in Nat
    <2>1. h.active[n] \in SmHandlerTypes
        BY <1>3, ElementOfSeq
    <2> QED BY <2>1, <1>2 DEF SmStack, SmHandlerTypes
<1>5. /\ DOMAIN u.pc = DOMAIN h.pc
      /\ \A x \in DOMAIN h.pc : u.pc[x] = IF x = h.active[n].id THEN where ELSE h.pc[x]
    BY <1>1
<1>6. u \in SmHwTypes
    <2>1. u.pc \in UNION {[D -> SmPlaces] : D \in SUBSET SmIds}
        <3>1. where \in SmPlaces
            BY DEF SmPlaces
        <3> QED BY <3>1, <1>1, <1>2, PlacesType
    <2>2. /\ h.line \in [SimLines -> [enable : BOOLEAN, pended : BOOLEAN]]
          /\ h.pended \in SUBSET {<<SimPri(l), l>> : l \in SimLines}
          /\ h.zombies \in Seq(SmIds) /\ h.task \in SmIds \cup {NoTask}
        BY <1>2 DEF SmHwTypes
    <2> QED BY <1>1, <1>3, <2>1, <2>2 DEF SmHwTypes
<1>7. \A i \in DOMAIN h.active : i # n => h.active[i].id # h.active[n].id
    BY <1>2, <1>3 DEF SmStack
<1>8. \A i \in DOMAIN h.active : SmLevel(u, i) = IF i = n THEN where ELSE SmLevel(h, i)
    BY <1>1, <1>2, <1>5, <1>7 DEF SmLevel, SmStack
<1>9. SmHwInv(u)
    <2>1. \A i \in DOMAIN h.active : u.pc[h.active[i].id] \in SmHandlerPlaces(h.active[i].line)
        BY <1>2, <1>5, <1>7 DEF SmStack, SmHandlerPlaces
    <2>2. SmStack(u)
        BY <2>1, <1>1, <1>2, <1>5 DEF SmStack
    <2> QED BY <2>2, <1>2, <1>5, <1>6 DEF SmHwInv
<1>10. SmEnding(u)
    <2>1. \A x : h.zombies # <<x>>
        OBVIOUS
    <2>2. \A x \in DOMAIN h.pc : h.pc[x] \notin {"boot", "exit", "zombie"}
        BY <2>1 DEF SmEnding
    <2>3. \A x \in DOMAIN u.pc : u.pc[x] \notin {"boot", "exit", "zombie"}
        BY <2>2, <1>5
    <2> QED BY <2>1, <2>3, <1>1 DEF SmEnding
<1>11. \A t \in Tasks : SmPlace(u, t) = SmPlace(h, t)
    BY <1>4, <1>5, SimAssumption DEF SmPlace
<1> QED BY <1>1, <1>5, <1>8, <1>9, <1>10, <1>11

LEMMA SmDispatchEnterKeeps == SmBootedInv /\ SmDispatchEnter => SmBootedInv'
PROOF
<1> SUFFICES ASSUME SmBootedInv, SmDispatchEnter PROVE SmBootedInv'
    OBVIOUS
<1> DEFINE n == Len(smActive)
<1>1. /\ InHandler /\ Where(smCur) = "enter" /\ ~smLock
      /\ smLock' = TRUE /\ smOwner' = smCur /\ smPc' = [smPc EXCEPT ![smCur] = "choose"]
      /\ UNCHANGED <<smLine, smPended, smActive, smZombies, smCur, smTask, smTsm,
                     smRunning, smReady, smWanted, smRaises>>
    BY DEF SmDispatchEnter, smKernel
<1>2. /\ SmHwInv(Hw) /\ SmEnding(Hw) /\ SmThreads(Hw, smTsm) /\ SmLocking(Hw, smOwner)
      /\ SmChosen(Hw, smTsm, smRunning, smReady, smWanted)
      /\ smLine[SimDispatch].enable /\ BootThread \notin DOMAIN smPc /\ smCur = ChooseNextThread(Hw)
    BY BootedIs
<1>3. /\ smZombies = <<>> /\ ~SmExiting(Hw) /\ ~TakesInterrupt(Hw)
      /\ DOMAIN smActive = 1 .. n /\ n \in Nat \ {0} /\ n \in DOMAIN smActive /\ smActive # <<>>
      /\ smCur = smActive[n].id
      /\ SmLevel(Hw, n) = "enter" /\ SimManaged(smActive[n].pri)
      /\ \A i \in DOMAIN smActive : smActive[i].line = SimDispatch
    BY <1>1, DispatcherIs
<1>4. Hw' = [line |-> Hw.line, pended |-> Hw.pended, active |-> Hw.active,
             pc |-> [Hw.pc EXCEPT ![Hw.active[n].id] = "choose"],
             lock |-> smLock', zombies |-> Hw.zombies, task |-> Hw.task]
    BY <1>1, <1>3, HwIs
<1> HIDE DEF n
<1>5. /\ SmHwInv(Hw') /\ SmEnding(Hw') /\ DOMAIN Hw'.pc = DOMAIN Hw.pc
      /\ Hw'.line = Hw.line /\ Hw'.pended = Hw.pended /\ Hw'.active = Hw.active /\ Hw'.lock = smLock'
      /\ Hw'.zombies = Hw.zombies /\ Hw'.task = Hw.task
      /\ \A i \in DOMAIN Hw.active : SmLevel(Hw', i) = IF i = n THEN "choose" ELSE SmLevel(Hw, i)
      /\ \A t \in Tasks : SmPlace(Hw', t) = SmPlace(Hw, t)
    <2>1. Hw.zombies = <<>> /\ n \in DOMAIN Hw.active /\ Hw.active[n].line = SimDispatch
        BY <1>3, HwIs
    <2>2. "choose" \in {"enter", "choose", "leave", "set", "return"} /\ smLock' \in BOOLEAN
        BY <1>1
    <2> QED BY <2>1, <2>2, <1>2, <1>3, <1>4, MoveIs, HwIs
<1>6. SmThreads(Hw', smTsm)
    BY <1>2, <1>5 DEF SmThreads
<1>7. SmLocking(Hw', smOwner')
    <2>1. Hw.pended = {}
        BY <1>1, <1>2, <1>3, UnlockedIs, HwIs
    <2>2. \A i \in DOMAIN smActive : SmLevel(Hw, i) \notin {"choose", "leave"}
        BY <1>1, <1>2, HwIs DEF SmLocking
    <2>3. \A j \in DOMAIN smActive : ~(j > n)
        BY <1>3
    <2>4. SmOwnerAt(Hw', smOwner', n)
        BY <1>1, <1>3, <1>5, <2>3, HwIs DEF SmOwnerAt
    <2>5. \A i \in DOMAIN Hw'.active :
             SmLevel(Hw', i) \in {"choose", "leave"} => Hw'.lock /\ smOwner' = Hw'.active[i].id
        <3>1. Hw'.lock /\ smOwner' = Hw'.active[n].id
            BY <1>1, <1>3, <1>5, HwIs
        <3>2. \A i \in DOMAIN Hw'.active : i # n => SmLevel(Hw', i) \notin {"choose", "leave"}
            BY <1>5, <2>2, HwIs
        <3> QED BY <3>1, <3>2
    <2>6. <<SimLowest, SimDispatch>> \notin Hw'.pended
        BY <1>5, <2>1
    <2>7. n \in DOMAIN Hw'.active
        BY <1>3, <1>5, HwIs
    <2> QED BY <2>4, <2>5, <2>6, <2>7 DEF SmLocking
<1>8. SmChosen(Hw', smTsm, smRunning, smReady, smWanted)
    <2>1. SmDispatches(Hw', {"enter", "choose"}) /\ SmDispatches(Hw', {"enter", "choose", "leave", "set"})
        BY <1>3, <1>5, HwIs DEF SmDispatches
    <2>2. SmHeld(Hw', smTsm) = SmHeld(Hw, smTsm)
        BY <1>5 DEF SmHeld
    <2>3. ASSUME NEW i \in DOMAIN smActive, SmSets(Hw, i) PROVE SmSets(Hw', i)
        <3>1. i # n
            BY <2>3, <1>3 DEF SmSets
        <3>2. SmLevel(Hw', i) = SmLevel(Hw, i)
            BY <3>1, <1>5, HwIs
        <3>3. \A j \in DOMAIN Hw'.active : SmLevel(Hw', j) = "return" => SmLevel(Hw, j) = "return"
            BY <1>5
        <3>4. DOMAIN Hw'.active = DOMAIN Hw.active
            BY <1>5
        <3> QED BY <2>3, <3>2, <3>3, <3>4 DEF SmSets
    <2>4. smRunning = SmHeld(Hw', smTsm) \/ \E i \in DOMAIN Hw'.active : SmSets(Hw', i)
        BY <1>2, <1>5, <2>2, <2>3, HwIs DEF SmChosen
    <2> QED BY <1>2, <2>1, <2>4 DEF SmChosen
<1>9. SmSound(Hw', smTsm', smRunning', smReady', smWanted', smOwner')
    BY <1>1, <1>2, <1>5, <1>6, <1>7, <1>8, HwIs DEF SmSound
<1>10. SmRunning(Hw', smCur')
    <2>1. FirstPended(Hw') = FirstPended(Hw)
        BY <1>5 DEF FirstPended
    <2>2. ~TakesInterrupt(Hw')
        BY <1>1, <1>3, <1>5, <2>1, HwIs DEF TakesInterrupt
    <2> QED BY <1>1, <1>2, <1>5, <2>2 DEF SmRunning, ChooseNextThread
<1> QED BY <1>1, <1>2, <1>5, <1>9, <1>10, BootedIs, BootedNext, HwIs

LEMMA SmChooseKeeps == SmBootedInv /\ SmChoose => SmBootedInv'
PROOF
<1> SUFFICES ASSUME SmBootedInv, SmChoose PROVE SmBootedInv'
    OBVIOUS
<1> DEFINE n == Len(smActive)
<1>1. /\ InHandler /\ Where(smCur) = "choose"
      /\ smRunning' \in IF smReady = {} THEN {NoTask} ELSE smReady
      /\ smWanted' = FALSE /\ smPc' = [smPc EXCEPT ![smCur] = "leave"]
      /\ UNCHANGED <<smLine, smPended, smActive, smZombies, smCur, smLock, smTask, smTsm,
                     smReady, smOwner, smRaises>>
    BY DEF SmChoose
<1>2. /\ SmHwInv(Hw) /\ SmEnding(Hw) /\ SmThreads(Hw, smTsm) /\ SmLocking(Hw, smOwner)
      /\ SmChosen(Hw, smTsm, smRunning, smReady, smWanted) /\ smReady \subseteq Tasks
      /\ smLine[SimDispatch].enable /\ BootThread \notin DOMAIN smPc /\ smCur = ChooseNextThread(Hw)
    BY BootedIs
<1>3. /\ smZombies = <<>> /\ ~SmExiting(Hw) /\ ~TakesInterrupt(Hw)
      /\ DOMAIN smActive = 1 .. n /\ n \in Nat \ {0} /\ n \in DOMAIN smActive /\ smActive # <<>>
      /\ smCur = smActive[n].id
      /\ SmLevel(Hw, n) = "choose" /\ SimManaged(smActive[n].pri)
      /\ \A i \in DOMAIN smActive : smActive[i].line = SimDispatch
      /\ \A i \in DOMAIN smActive : i # n => i < n /\ smActive[i].id # smCur
    BY <1>1, DispatcherIs
<1>4. Hw' = [line |-> Hw.line, pended |-> Hw.pended, active |-> Hw.active,
             pc |-> [Hw.pc EXCEPT ![Hw.active[n].id] = "leave"],
             lock |-> Hw.lock, zombies |-> Hw.zombies, task |-> Hw.task]
    BY <1>1, <1>3, HwIs
<1> HIDE DEF n
<1>5. /\ SmHwInv(Hw') /\ SmEnding(Hw') /\ DOMAIN Hw'.pc = DOMAIN Hw.pc
      /\ Hw'.line = Hw.line /\ Hw'.pended = Hw.pended /\ Hw'.active = Hw.active /\ Hw'.lock = Hw.lock
      /\ Hw'.zombies = Hw.zombies /\ Hw'.task = Hw.task
      /\ \A i \in DOMAIN Hw.active : SmLevel(Hw', i) = IF i = n THEN "leave" ELSE SmLevel(Hw, i)
      /\ \A t \in Tasks : SmPlace(Hw', t) = SmPlace(Hw, t)
    <2>1. Hw.lock \in BOOLEAN
        BY <1>2 DEF SmHwInv, SmHwTypes
    <2> QED BY <2>1, <1>2, <1>3, <1>4, MoveIs, HwIs
<1>6. SmThreads(Hw', smTsm)
    BY <1>2, <1>5 DEF SmThreads
<1>7. smLock /\ smOwner = smCur
    BY <1>2, <1>3, HwIs DEF SmLocking
<1>8. SmLocking(Hw', smOwner')
    <2>1. \A j \in DOMAIN smActive : ~(j > n)
        BY <1>3
    <2>2. SmOwnerAt(Hw', smOwner', n)
        BY ZenonT(40), <1>1, <1>3, <1>5, <1>7, <2>1, HwIs DEF SmOwnerAt
    <2>3. \A i \in DOMAIN Hw'.active :
             SmLevel(Hw', i) \in {"choose", "leave"} => Hw'.lock /\ smOwner' = Hw'.active[i].id
        <3>1. \A i \in DOMAIN smActive :
                 SmLevel(Hw, i) \in {"choose", "leave"} => smOwner = smActive[i].id
            BY <1>2, HwIs DEF SmLocking
        <3>2. SmLevel(Hw, n) \in {"choose", "leave"}
            BY <1>3
        <3>3. \A i \in DOMAIN smActive :
                 SmLevel(Hw', i) \in {"choose", "leave"} => smOwner = smActive[i].id
            BY <3>1, <3>2, <1>5, HwIs
        <3> QED BY <3>3, <1>1, <1>5, <1>7, HwIs
    <2>4. <<SimLowest, SimDispatch>> \notin Hw'.pended
        BY <1>2, <1>3, <1>5, <1>7, HwIs DEF SmLocking
    <2> QED BY <1>3, <1>5, <2>2, <2>3, <2>4, HwIs DEF SmLocking
<1>9. SmChosen(Hw', smTsm, smRunning', smReady, smWanted')
    <2>1. SmDispatches(Hw', {"enter", "choose", "leave", "set"})
        BY <1>3, <1>5, HwIs DEF SmDispatches
    <2>2. SmSets(Hw', n)
        <3>1. \A j \in DOMAIN smActive : ~(j > n)
            BY <1>3
        <3> QED BY <3>1, <1>3, <1>5, HwIs DEF SmSets
    <2>3. \A t \in Tasks : t = smRunning' \/ t \in smReady => smTsm[t] # "Uninit"
        BY <1>1, <1>2, TasksAssumption DEF SmChosen
    <2> QED BY <1>1, <1>3, <1>5, <2>1, <2>2, <2>3, HwIs DEF SmChosen
<1>10. SmSound(Hw', smTsm', smRunning', smReady', smWanted', smOwner')
    BY <1>1, <1>2, <1>5, <1>6, <1>8, <1>9, HwIs DEF SmSound
<1>11. SmRunning(Hw', smCur')
    <2>1. FirstPended(Hw') = FirstPended(Hw)
        BY <1>5 DEF FirstPended
    <2>2. ~TakesInterrupt(Hw')
        BY <1>1, <1>3, <1>5, <2>1, HwIs DEF TakesInterrupt
    <2> QED BY <1>1, <1>2, <1>5, <2>2 DEF SmRunning, ChooseNextThread
<1>12. smRunning' \in Tasks \cup {NoTask}
    BY <1>1, <1>2
<1> QED BY <1>1, <1>2, <1>5, <1>10, <1>11, <1>12, BootedIs, BootedNext, HwIs

\* The thread that executes goes on to another place, and CPU Lock is released.
LEMMA ReleaseIs ==
    ASSUME Hw \in SmHwTypes
    PROVE  [Hw EXCEPT !.lock = FALSE, !.pc[smCur] = "set"]
              = [line |-> smLine, pended |-> smPended, active |-> smActive,
                 pc |-> [smPc EXCEPT ![smCur] = "set"],
                 lock |-> FALSE, zombies |-> smZombies, task |-> smTask]
PROOF
<1> DEFINE u == [Hw EXCEPT !.lock = FALSE, !.pc[smCur] = "set"]
<1>1. /\ u.line = smLine /\ u.pended = smPended /\ u.active = smActive
      /\ u.pc = [smPc EXCEPT ![smCur] = "set"] /\ u.lock = FALSE
      /\ u.zombies = smZombies /\ u.task = smTask
    BY DEF Hw
<1>2. [Hw.pc EXCEPT ![smCur] = "set"] \in UNION {[D -> SmPlaces] : D \in SUBSET SmIds}
    <2>1. "set" \in SmPlaces
        BY DEF SmPlaces
    <2> QED BY <2>1, PlacesType
<1>3. u \in SmHwTypes
    BY <1>2 DEF SmHwTypes
<1> HIDE DEF u
<1>4. u = [line |-> u.line, pended |-> u.pended, active |-> u.active, pc |-> u.pc, lock |-> u.lock,
           zombies |-> u.zombies, task |-> u.task]
    BY <1>3 DEF SmHwTypes
<1>5. u = [line |-> smLine, pended |-> smPended, active |-> smActive,
           pc |-> [smPc EXCEPT ![smCur] = "set"],
           lock |-> FALSE, zombies |-> smZombies, task |-> smTask]
    BY <1>1, <1>4
<1> QED BY <1>5 DEF u

LEMMA DispatchLeaveIs ==
    ASSUME SmBootedInv, SmDispatchLeave
    PROVE  LET n == Len(smActive)
               u == [Hw EXCEPT !.lock = FALSE, !.pc[smCur] = "set"]
           IN /\ SmHwInv(u) /\ SmEnding(u) /\ DOMAIN u.pc = DOMAIN Hw.pc
              /\ u.line = Hw.line /\ u.pended = Hw.pended /\ u.active = Hw.active /\ ~u.lock
              /\ u.zombies = Hw.zombies /\ u.task = Hw.task
              /\ \A i \in DOMAIN Hw.active : SmLevel(u, i) = IF i = n THEN "set" ELSE SmLevel(Hw, i)
              /\ \A t \in Tasks : SmPlace(u, t) = SmPlace(Hw, t)
PROOF
<1> DEFINE n == Len(smActive)
           u == [Hw EXCEPT !.lock = FALSE, !.pc[smCur] = "set"]
<1>1. /\ InHandler /\ Where(smCur) = "leave" /\ Preempted(u) /\ smOwner' = NoTask
      /\ UNCHANGED <<smTsm, smRunning, smReady, smWanted, smRaises>>
    BY DEF SmDispatchLeave, smKernel
<1>2. /\ SmHwInv(Hw) /\ SmEnding(Hw) /\ SmThreads(Hw, smTsm) /\ SmLocking(Hw, smOwner)
      /\ SmChosen(Hw, smTsm, smRunning, smReady, smWanted)
      /\ smLine[SimDispatch].enable /\ BootThread \notin DOMAIN smPc /\ smCur = ChooseNextThread(Hw)
    BY BootedIs
<1>3. /\ smZombies = <<>> /\ ~SmExiting(Hw)
      /\ DOMAIN smActive = 1 .. n /\ n \in Nat \ {0} /\ n \in DOMAIN smActive /\ smActive # <<>>
      /\ smCur = smActive[n].id /\ SmLevel(Hw, n) = "leave"
      /\ \A i \in DOMAIN smActive : smActive[i].line = SimDispatch
      /\ \A i \in DOMAIN smActive : i # n => i < n /\ smActive[i].id # smCur
    BY <1>1, DispatcherIs
<1>4. u = [line |-> Hw.line, pended |-> Hw.pended, active |-> Hw.active,
           pc |-> [Hw.pc EXCEPT ![Hw.active[n].id] = "set"],
           lock |-> FALSE, zombies |-> Hw.zombies, task |-> Hw.task]
    <2>1. Hw.active[n].id = smCur
        BY <1>3, HwIs
    <2>2. u = [line |-> smLine, pended |-> smPended, active |-> smActive,
               pc |-> [smPc EXCEPT ![smCur] = "set"],
               lock |-> FALSE, zombies |-> smZombies, task |-> smTask]
        BY <1>2, ReleaseIs DEF SmHwInv
    <2> QED BY <2>1, <2>2, HwIs
<1> HIDE DEF n, u
<1>5. /\ SmHwInv(u) /\ SmEnding(u) /\ DOMAIN u.pc = DOMAIN Hw.pc
      /\ u.line = Hw.line /\ u.pended = Hw.pended /\ u.active = Hw.active /\ ~u.lock
      /\ u.zombies = Hw.zombies /\ u.task = Hw.task
      /\ \A i \in DOMAIN Hw.active : SmLevel(u, i) = IF i = n THEN "set" ELSE SmLevel(Hw, i)
      /\ \A t \in Tasks : SmPlace(u, t) = SmPlace(Hw, t)
    <2>1. Hw.zombies = <<>> /\ n \in DOMAIN Hw.active /\ Hw.active[n].line = SimDispatch
        BY <1>3, HwIs
    <2>2. "set" \in {"enter", "choose", "leave", "set", "return"}
        OBVIOUS
    <2>3. PICK lock \in BOOLEAN : ~lock
        OBVIOUS
    <2>4. u = [line |-> Hw.line, pended |-> Hw.pended, active |-> Hw.active,
               pc |-> [Hw.pc EXCEPT ![Hw.active[n].id] = "set"],
               lock |-> lock, zombies |-> Hw.zombies, task |-> Hw.task]
        BY <2>3, <1>4
    <2>5. /\ SmHwInv(u) /\ SmEnding(u) /\ DOMAIN u.pc = DOMAIN Hw.pc
          /\ u.line = Hw.line /\ u.pended = Hw.pended /\ u.active = Hw.active /\ u.lock = lock
          /\ u.zombies = Hw.zombies /\ u.task = Hw.task
          /\ \A i \in DOMAIN Hw.active : SmLevel(u, i) = IF i = n THEN "set" ELSE SmLevel(Hw, i)
          /\ \A t \in Tasks : SmPlace(u, t) = SmPlace(Hw, t)
        BY <2>1, <2>2, <2>4, <1>2, MoveIs
    <2> QED BY <2>3, <2>5
<1> QED BY <1>5 DEF n, u

LEMMA SmDispatchLeaveKeeps == SmBootedInv /\ SmDispatchLeave => SmBootedInv'
PROOF
<1> SUFFICES ASSUME SmBootedInv, SmDispatchLeave PROVE SmBootedInv'
    OBVIOUS
<1> DEFINE n == Len(smActive)
           u == [Hw EXCEPT !.lock = FALSE, !.pc[smCur] = "set"]
<1>1. /\ InHandler /\ Where(smCur) = "leave" /\ Preempted(u) /\ smOwner' = NoTask
      /\ UNCHANGED <<smTsm, smRunning, smReady, smWanted, smRaises>>
    BY DEF SmDispatchLeave, smKernel
<1>2. /\ SmHwInv(Hw) /\ SmEnding(Hw) /\ SmThreads(Hw, smTsm) /\ SmLocking(Hw, smOwner)
      /\ SmChosen(Hw, smTsm, smRunning, smReady, smWanted)
      /\ smLine[SimDispatch].enable /\ BootThread \notin DOMAIN smPc /\ smCur = ChooseNextThread(Hw)
    BY BootedIs
<1>3. /\ smZombies = <<>> /\ ~SmExiting(Hw)
      /\ DOMAIN smActive = 1 .. n /\ n \in Nat \ {0} /\ n \in DOMAIN smActive /\ smActive # <<>>
      /\ smCur = smActive[n].id /\ SmLevel(Hw, n) = "leave"
      /\ \A i \in DOMAIN smActive : smActive[i].line = SimDispatch
      /\ \A i \in DOMAIN smActive : i # n => i < n /\ smActive[i].id # smCur
    BY <1>1, DispatcherIs
<1>4. /\ SmHwInv(u) /\ SmEnding(u) /\ DOMAIN u.pc = DOMAIN Hw.pc
      /\ u.line = Hw.line /\ u.pended = Hw.pended /\ u.active = Hw.active /\ ~u.lock
      /\ u.zombies = Hw.zombies /\ u.task = Hw.task
      /\ \A i \in DOMAIN Hw.active : SmLevel(u, i) = IF i = n THEN "set" ELSE SmLevel(Hw, i)
      /\ \A t \in Tasks : SmPlace(u, t) = SmPlace(Hw, t)
    BY DispatchLeaveIs
<1> HIDE DEF n, u
<1>6. SmThreads(u, smTsm)
    BY <1>2, <1>4 DEF SmThreads
<1>7. SmLocking(u, NoTask)
    <2>1. SmLevel(Hw, n) \in {"choose", "leave"} /\ n \in DOMAIN Hw.active
        BY <1>3, HwIs
    <2>2. smOwner = smCur
        BY <2>1, <1>2, <1>3, HwIs DEF SmLocking
    <2>3. \A i \in DOMAIN Hw.active : i # n => SmLevel(Hw, i) \notin {"choose", "leave"}
        BY <2>2, <1>2, <1>3, HwIs DEF SmLocking
    <2>4. \A i \in DOMAIN u.active : SmLevel(u, i) \notin {"choose", "leave"}
        BY <2>3, <1>4
    <2> QED BY <2>4, <1>4 DEF SmLocking
<1>8. SmChosen(u, smTsm, smRunning, smReady, smWanted)
    <2>1. smWanted => SmDispatches(u, {"enter", "choose"})
        <3>1. SmExiting(u) <=> SmExiting(Hw)
            BY <1>4 DEF SmExiting
        <3>2. \A i \in DOMAIN Hw.active :
                 SmLevel(Hw, i) \in {"enter", "choose"} => SmLevel(u, i) = SmLevel(Hw, i)
            BY <1>3, <1>4
        <3> QED BY <3>1, <3>2, <1>2, <1>4 DEF SmChosen, SmDispatches
    <2>2. n \in DOMAIN u.active /\ SmLevel(u, n) = "set"
        BY <1>3, <1>4, HwIs
    <2>3. SmDispatches(u, {"enter", "choose", "leave", "set"})
        BY <2>2 DEF SmDispatches
    <2>4. SmSets(u, n)
        <3>1. \A j \in DOMAIN u.active : ~(j > n)
            BY <1>3, <1>4, HwIs
        <3> QED BY <3>1, <2>2 DEF SmSets
    <2> QED BY <1>2, <2>1, <2>2, <2>3, <2>4 DEF SmChosen
<1>9. SmSound(u, smTsm, smRunning, smReady, smWanted, NoTask)
    BY <1>2, <1>4, <1>6, <1>7, <1>8, HwIs DEF SmSound
<1>10. smCur = ChooseNextThread(u)
    BY <1>2, <1>4 DEF ChooseNextThread
<1>11. /\ SmHwInv(Hw') /\ SmGrown(u, Hw') /\ SmRunning(Hw', smCur')
       /\ SmSound(Hw', smTsm, smRunning, smReady, smWanted, NoTask)
       /\ BootThread \notin DOMAIN u.pc => BootThread \notin DOMAIN Hw'.pc
    BY <1>1, <1>4, <1>9, <1>10, PreemptedStep
<1>12. smTask' = smTask
    BY <1>4, <1>11, HwIs DEF SmGrown
<1> QED BY <1>1, <1>2, <1>4, <1>11, <1>12, BootedIs, BootedNext, HwIs

\* A dispatcher that has not acquired CPU Lock yet, or has released it, does not
\* execute under it.
LEMMA DispatcherUnlocked ==
    ASSUME SmBootedInv, InHandler, Where(smCur) \in {"enter", "set"}
    PROVE  ~smLock
PROOF
<1> DEFINE n == Len(smActive)
<1>1. /\ smCur = smActive[n].id /\ smCur \notin Tasks
      /\ SmLevel(Hw, n) = Where(smCur)
      /\ \A i \in DOMAIN smActive : smActive[i].line = SimDispatch
      /\ \A i \in DOMAIN smActive : i # n => smActive[i].id # smCur
      /\ smLock => smOwner = smCur
    BY DispatcherIs
<1> HIDE DEF n
<1>2. ~SmOwnerTask(Hw, smCur)
    BY <1>1 DEF SmOwnerTask
<1>3. ASSUME NEW i \in DOMAIN smActive, SmOwnerAt(Hw, smCur, i) PROVE FALSE
    <2>1. i = n
        BY <1>1, <1>3, HwIs DEF SmOwnerAt
    <2> QED BY <1>1, <1>3, <2>1, HwIs DEF SmOwnerAt
<1> QED BY <1>1, <1>2, <1>3, BootedIs, HwIs DEF SmLocking

LEMMA SmSetTaskKeeps == SmBootedInv /\ SmSetTask => SmBootedInv'
PROOF
<1> SUFFICES ASSUME SmBootedInv, SmSetTask PROVE SmBootedInv'
    OBVIOUS
<1> DEFINE n == Len(smActive)
           created == {t \in Tasks : t = smRunning /\ smTsm[t] = "Dormant"}
<1>1. /\ InHandler /\ Where(smCur) = "set" /\ smTask' = smRunning
      /\ smTsm' = IF smRunning = NoTask THEN smTsm ELSE [smTsm EXCEPT ![smRunning] = "Running"]
      /\ smPc' = [i \in DOMAIN smPc \cup created |->
                     IF i = smCur THEN "return" ELSE IF i \in created THEN "code" ELSE smPc[i]]
      /\ UNCHANGED <<smLine, smPended, smActive, smZombies, smCur, smLock,
                     smRunning, smReady, smWanted, smOwner, smRaises>>
    BY DEF SmSetTask, smKernel
<1>2. /\ SmHwInv(Hw) /\ SmEnding(Hw) /\ SmThreads(Hw, smTsm) /\ SmLocking(Hw, smOwner)
      /\ SmChosen(Hw, smTsm, smRunning, smReady, smWanted)
      /\ smLine[SimDispatch].enable /\ BootThread \notin DOMAIN smPc /\ smCur = ChooseNextThread(Hw)
      /\ smTsm \in [Tasks -> {"Uninit", "Dormant", "Running"}]
      /\ smRunning \in Tasks \cup {NoTask} /\ smReady \subseteq Tasks
    BY BootedIs
<1>3. /\ smZombies = <<>> /\ ~SmExiting(Hw) /\ ~TakesInterrupt(Hw) /\ ~smLock
      /\ DOMAIN smActive = 1 .. n /\ n \in Nat \ {0} /\ n \in DOMAIN smActive /\ smActive # <<>>
      /\ smCur = smActive[n].id /\ smCur \in DOMAIN smPc /\ smCur \notin Tasks /\ SmLevel(Hw, n) = "set"
      /\ \A i \in DOMAIN smActive : smActive[i].line = SimDispatch /\ smActive[i].id \in DOMAIN smPc
      /\ \A i \in DOMAIN smActive : i # n => i < n /\ smActive[i].id # smCur
    BY <1>1, DispatcherIs, DispatcherUnlocked
<1>4. /\ created \subseteq Tasks /\ (created = {} \/ created = {smRunning})
      /\ DOMAIN smPc' = DOMAIN smPc \cup created /\ smCur \notin created
      /\ smPc'[smCur] = "return" /\ \A t \in created : smPc'[t] = "code"
      /\ \A x \in DOMAIN smPc : x # smCur /\ x \notin created => smPc'[x] = smPc[x]
    BY <1>1, <1>3
<1>5. /\ Hw'.line = Hw.line /\ Hw'.pended = Hw.pended /\ Hw'.active = Hw.active
      /\ Hw'.lock = Hw.lock /\ Hw'.zombies = Hw.zombies /\ Hw'.task = smRunning /\ Hw'.pc = smPc'
    BY <1>1, HwIs
<1>6. smActive \in Seq(SmHandlerTypes) /\ \A i \in DOMAIN smActive : smActive[i].id \notin Tasks
    <2>1. smActive \in Seq(SmHandlerTypes)
        BY <1>2, HwIs DEF SmHwInv, SmHwTypes
    <2>2. \A i \in DOMAIN smActive : smActive[i] \in SmHandlerTypes
        BY <2>1, <1>3, ElementOfSeq
    <2> QED BY <2>1, <2>2, SimAssumption DEF SmHandlerTypes
<1> HIDE DEF n, created
<1>7. \A i \in DOMAIN Hw.active : SmLevel(Hw', i) = IF i = n THEN "return" ELSE SmLevel(Hw, i)
    BY <1>3, <1>4, <1>5, <1>6, HwIs DEF SmLevel
<1>8. SmHwInv(Hw')
    <2>1. smPc' \in UNION {[D -> SmPlaces] : D \in SUBSET SmIds}
        <3>1. PICK D \in SUBSET SmIds : smPc \in [D -> SmPlaces]
            BY <1>2, HwIs DEF SmHwInv, SmHwTypes
        <3>2. DOMAIN smPc = D /\ D \cup created \in SUBSET SmIds
            BY <3>1, <1>4 DEF SmIds
        <3>3. \A x \in D \cup created : smPc'[x] \in SmPlaces
            <4>1. \A x \in D : smPc[x] \in SmPlaces
                BY <3>1
            <4>2. "return" \in SmPlaces /\ "code" \in SmPlaces
                BY DEF SmPlaces
            <4> QED BY <4>1, <4>2, <3>2, <1>4
        <3>4. smPc' = [x \in D \cup created |-> smPc'[x]]
            BY <3>2, <1>1, <1>4
        <3>5. smPc' \in [D \cup created -> SmPlaces]
            BY <3>3, <3>4
        <3> QED BY <3>2, <3>5
    <2>2. IsFiniteSet(DOMAIN smPc')
        <3>1. IsFiniteSet(DOMAIN smPc)
            BY <1>2, HwIs DEF SmHwInv
        <3>2. IsFiniteSet(DOMAIN smPc \cup {smRunning})
            BY <3>1, FS_AddElement
        <3> QED BY <3>1, <3>2, <1>4
    <2>3. Hw' \in SmHwTypes
        <3>1. /\ Hw.line \in [SimLines -> [enable : BOOLEAN, pended : BOOLEAN]]
              /\ Hw.pended \in SUBSET {<<SimPri(l), l>> : l \in SimLines}
              /\ Hw.active \in Seq(SmHandlerTypes) /\ Hw.lock \in BOOLEAN /\ Hw.zombies \in Seq(SmIds)
            BY <1>2 DEF SmHwInv, SmHwTypes
        <3>2. smRunning \in SmIds \cup {NoTask}
            BY <1>2 DEF SmIds
        <3>3. Hw' = [line |-> Hw.line, pended |-> Hw.pended, active |-> Hw.active, pc |-> smPc',
                     lock |-> Hw.lock, zombies |-> Hw.zombies, task |-> smRunning]
            BY <1>1, HwIs
        <3> QED BY <3>1, <3>2, <3>3, <2>1 DEF SmHwTypes
    <2>4. SmStack(Hw')
        <3>1. SmStack(Hw)
            BY <1>2 DEF SmHwInv
        <3>2. \A i \in DOMAIN Hw'.active :
                 /\ Hw'.active[i].pri = SimPri(Hw'.active[i].line)
                 /\ Hw'.active[i].id # BootThread /\ Hw'.active[i].id \in DOMAIN Hw'.pc
            BY <3>1, <1>4, <1>5, HwIs DEF SmStack
        <3>3. \A i \in DOMAIN Hw'.active : Hw'.pc[Hw'.active[i].id] \in SmHandlerPlaces(Hw'.active[i].line)
            <4>1. \A i \in DOMAIN Hw.active : SmLevel(Hw, i) \in SmHandlerPlaces(SimDispatch)
                BY <3>1, <1>3, HwIs DEF SmStack, SmLevel
            <4>2. "return" \in SmHandlerPlaces(SimDispatch)
                BY DEF SmHandlerPlaces
            <4>3. \A i \in DOMAIN Hw.active : SmLevel(Hw', i) \in SmHandlerPlaces(SimDispatch)
                BY <4>1, <4>2, <1>7
            <4> QED BY <4>3, <1>3, <1>5, HwIs DEF SmLevel
        <3> QED BY <3>1, <3>2, <3>3, <1>5 DEF SmStack
    <2> QED BY <2>2, <2>3, <2>4, HwIs DEF SmHwInv
<1>9. SmEnding(Hw')
    <2>1. \A x : Hw.zombies # <<x>>
        BY <1>3, HwIs
    <2>2. \A x \in DOMAIN smPc : smPc[x] \notin {"boot", "exit", "zombie"}
        BY <2>1, <1>2, HwIs DEF SmEnding
    <2>3. \A x \in DOMAIN smPc' : smPc'[x] \notin {"boot", "exit", "zombie"}
        BY <2>2, <1>4
    <2> QED BY <2>1, <2>3, <1>3, <1>5, HwIs DEF SmEnding
<1>10. \A t \in Tasks : SmPlace(Hw', t) = IF t \in created THEN "code" ELSE SmPlace(Hw, t)
    BY <1>3, <1>4, <1>5, HwIs DEF SmPlace
<1>11. smTsm' \in [Tasks -> {"Uninit", "Dormant", "Running"}]
    BY <1>1, <1>2
<1>12. \A t \in Tasks : smTsm'[t] = IF t = smRunning THEN "Running" ELSE smTsm[t]
    BY <1>1, <1>2, TasksAssumption
<1>13. SmThreads(Hw', smTsm')
    <2> SUFFICES ASSUME NEW t \in Tasks PROVE SmPlace(Hw', t) = "code" <=> smTsm'[t] = "Running"
        BY DEF SmThreads
    <2>1. CASE t = smRunning
        <3>1. smTsm[t] = "Dormant" \/ smTsm[t] = "Running"
            BY <2>1, <1>2 DEF SmChosen
        <3>2. t \in created \/ SmPlace(Hw, t) = "code"
            BY <3>1, <2>1, <1>2 DEF created, SmThreads
        <3> QED BY <3>2, <2>1, <1>10, <1>12
    <2>2. CASE t # smRunning
        <3>1. t \notin created
            BY <2>2 DEF created
        <3> QED BY <3>1, <2>2, <1>2, <1>10, <1>12 DEF SmThreads
    <2> QED BY <2>1, <2>2
<1>14. SmLocking(Hw', smOwner')
    <2>1. \A i \in DOMAIN Hw.active : SmLevel(Hw, i) \notin {"choose", "leave"}
        BY <1>2, <1>3, HwIs DEF SmLocking
    <2>2. \A i \in DOMAIN Hw'.active : SmLevel(Hw', i) \notin {"choose", "leave"}
        BY <2>1, <1>5, <1>7
    <2> QED BY <2>2, <1>3, <1>5, HwIs DEF SmLocking
<1>15. SmHeld(Hw', smTsm') = smRunning
    BY <1>2, <1>5, <1>12 DEF SmHeld
<1>16. SmChosen(Hw', smTsm', smRunning, smReady, smWanted)
    <2>1. smWanted => SmDispatches(Hw', {"enter", "choose"})
        <3>1. \A i \in DOMAIN Hw.active :
                 SmLevel(Hw, i) \in {"enter", "choose"} => SmLevel(Hw', i) = SmLevel(Hw, i)
            BY <1>3, <1>7
        <3> QED BY <3>1, <1>2, <1>3, <1>5 DEF SmChosen, SmDispatches
    <2>2. \A t \in Tasks : t = smRunning \/ t \in smReady => smTsm'[t] # "Uninit"
        BY <1>2, <1>12 DEF SmChosen
    <2> QED BY <2>1, <2>2, <1>5, <1>15 DEF SmChosen
<1>17. SmSound(Hw', smTsm', smRunning', smReady', smWanted', smOwner')
    BY <1>1, <1>2, <1>5, <1>9, <1>13, <1>14, <1>16, HwIs DEF SmSound
<1>18. SmRunning(Hw', smCur')
    <2>1. FirstPended(Hw') = FirstPended(Hw)
        BY <1>5 DEF FirstPended
    <2>2. ~TakesInterrupt(Hw')
        BY <1>3, <1>5, <2>1, HwIs DEF TakesInterrupt
    <2>3. ChooseNextThread(Hw') = ChooseNextThread(Hw)
        BY <1>3, <1>5, HwIs DEF ChooseNextThread
    <2> QED BY <1>1, <1>2, <2>2, <2>3 DEF SmRunning
<1>19. BootThread \notin DOMAIN Hw'.pc
    BY <1>2, <1>4, <1>5, SimAssumption DEF BootThread
<1> QED BY <1>1, <1>2, <1>8, <1>11, <1>17, <1>18, <1>19, BootedIs, BootedNext

-----------------------------------------------------------------------------
(* Boot.                                                                   *)

LEMMA SmInitTypes == SmInit => SmTypes
PROOF
<1> SUFFICES ASSUME SmInit PROVE SmTypes
    OBVIOUS
<1>1. /\ smLine = [l \in SimLines |-> [enable |-> FALSE, pended |-> FALSE]]
      /\ smPended = {} /\ smActive = <<>> /\ smLock = TRUE
      /\ smTask = BootThread /\ smZombies = <<BootThread>>
      /\ smPc = [i \in {BootThread} |-> "boot"]
      /\ smTsm = [t \in Tasks |-> "Uninit"]
      /\ smRunning = NoTask /\ smReady = {} /\ smWanted = FALSE /\ smRaises = 0
    BY DEF SmInit
<1>2. Hw \in SmHwTypes
    <2>1. smPc \in UNION {[D -> SmPlaces] : D \in SUBSET SmIds}
        <3>1. smPc \in [{BootThread} -> SmPlaces]
            BY <1>1 DEF SmPlaces
        <3>2. {BootThread} \in SUBSET SmIds
            BY DEF BootThread, SmIds
        <3> QED BY <3>1, <3>2
    <2>2. /\ smLine \in [SimLines -> [enable : BOOLEAN, pended : BOOLEAN]]
          /\ smPended \in SUBSET {<<SimPri(l), l>> : l \in SimLines}
          /\ smActive \in Seq(SmHandlerTypes) /\ smLock \in BOOLEAN
          /\ smZombies \in Seq(SmIds) /\ smTask \in SmIds \cup {NoTask}
        BY <1>1 DEF BootThread, SmIds
    <2> QED BY <2>1, <2>2 DEF SmHwTypes, Hw
<1>3. IsFiniteSet(DOMAIN Hw.pc)
    <2>1. IsFiniteSet({BootThread})
        BY FS_Singleton
    <2>2. DOMAIN Hw.pc = {BootThread}
        BY <1>1, HwIs
    <2> QED BY <2>1, <2>2
<1>4. SmStack(Hw)
    <2>1. DOMAIN Hw.active = {}
        BY <1>1, HwIs
    <2> QED BY <2>1 DEF SmStack
<1> QED BY <1>1, <1>2, <1>3, <1>4 DEF SmTypes, SmHwInv

\* The first dispatch.
LEMMA SmDispatchFirstTaskKeeps ==
    ASSUME SmInit, SmTypes, NEW ready \in SUBSET Tasks, NEW enabled \in SUBSET SimDevices,
           SmDispatchFirstTask(ready, enabled)
    PROVE  SmBootedInv' /\ smTask' = smTask
PROOF
<1> DEFINE on == [Hw EXCEPT !.line = [l \in SimLines |-> [@[l] EXCEPT !.enable = l \in enabled]]]
           w == UpdateLine(on, SimDispatch, [enable |-> TRUE, pended |-> TRUE])
           u == [w EXCEPT !.lock = FALSE]
           g == CheckPreemption(u)
           e == Exited(g, BootThread)
<1>1. /\ smLine = [l \in SimLines |-> [enable |-> FALSE, pended |-> FALSE]]
      /\ smPended = {} /\ smActive = <<>> /\ smLock = TRUE
      /\ smTask = BootThread /\ smZombies = <<BootThread>>
      /\ smPc = [i \in {BootThread} |-> "boot"]
      /\ smRunning = NoTask /\ smWanted = FALSE
    BY DEF SmInit
<1>2. /\ smTsm' = [t \in Tasks |-> IF t \in ready THEN "Dormant" ELSE "Uninit"] /\ smReady' = ready
      /\ Install(e) /\ smCur' = ChooseNextThread(e) /\ smOwner' = NoTask
      /\ UNCHANGED <<smRunning, smWanted, smRaises>>
    BY DEF SmDispatchFirstTask
<1>3. SmHwInv(Hw) /\ smRunning \in Tasks \cup {NoTask} /\ smRaises \in Nat
    BY DEF SmTypes
<1>4. /\ on.line \in [SimLines -> [enable : BOOLEAN, pended : BOOLEAN]]
      /\ on.pended = {} /\ on.active = <<>> /\ on.pc = smPc
      /\ on.zombies = <<BootThread>> /\ on.task = BootThread /\ on \in SmHwTypes
    <2>1. Hw \in SmHwTypes /\ smLine \in [SimLines -> [enable : BOOLEAN, pended : BOOLEAN]]
        BY <1>3, HwIs DEF SmHwInv, SmHwTypes
    <2>2. ASSUME NEW l \in SimLines
          PROVE  [smLine[l] EXCEPT !.enable = l \in enabled] \in [enable : BOOLEAN, pended : BOOLEAN]
        <3> DEFINE b == l \in enabled
        <3>1. b \in BOOLEAN
            OBVIOUS
        <3> HIDE DEF b
        <3>2. [smLine[l] EXCEPT !.enable = b] \in [enable : BOOLEAN, pended : BOOLEAN]
            BY <3>1, <2>1
        <3> QED BY <3>2 DEF b
    <2> DEFINE lines == [l \in SimLines |-> [smLine[l] EXCEPT !.enable = l \in enabled]]
    <2>3. lines \in [SimLines -> [enable : BOOLEAN, pended : BOOLEAN]]
        BY <2>2
    <2>4. on = [Hw EXCEPT !.line = lines]
        BY HwIs
    <2> HIDE DEF on, lines
    <2>5. /\ on.line = lines /\ on.pended = Hw.pended /\ on.active = Hw.active /\ on.pc = Hw.pc
          /\ on.zombies = Hw.zombies /\ on.task = Hw.task
        BY <2>1, <2>4 DEF SmHwTypes
    <2>6. on \in SmHwTypes
        BY <2>1, <2>3, <2>4 DEF SmHwTypes
    <2> QED BY <2>3, <2>5, <2>6, <1>1, HwIs
<1> HIDE DEF on
<1>5. SmHwInv(on)
    <2>1. DOMAIN on.active = {} /\ IsFiniteSet(DOMAIN on.pc)
        BY <1>3, <1>4, HwIs DEF SmHwInv
    <2> QED BY <2>1, <1>4 DEF SmHwInv, SmStack
<1>6. /\ SmHwInv(w) /\ w.line = [on.line EXCEPT ![SimDispatch] = [enable |-> TRUE, pended |-> TRUE]]
      /\ w.pended = {<<SimPri(SimDispatch), SimDispatch>>}
      /\ w.active = <<>> /\ w.pc = smPc /\ w.zombies = <<BootThread>> /\ w.task = BootThread
    <2>1. [enable |-> TRUE, pended |-> TRUE] \in [enable : BOOLEAN, pended : BOOLEAN] /\ SimDispatch \in SimLines
        BY SimPriIs
    <2>2. /\ SmHwInv(w) /\ w.line = [on.line EXCEPT ![SimDispatch] = [enable |-> TRUE, pended |-> TRUE]]
          /\ w.pended = (on.pended \ {<<SimPri(SimDispatch), SimDispatch>>})
                        \cup {<<SimPri(SimDispatch), SimDispatch>>}
          /\ w.active = on.active /\ w.pc = on.pc /\ w.zombies = on.zombies /\ w.task = on.task
        <3> DEFINE ln == [enable |-> TRUE, pended |-> TRUE]
        <3>1. w = UpdateLine(on, SimDispatch, ln) /\ ln.enable /\ ln.pended
            OBVIOUS
        <3> HIDE DEF w, ln
        <3>2. /\ SmHwInv(w) /\ w.line = [on.line EXCEPT ![SimDispatch] = ln]
              /\ w.pended = (on.pended \ {<<SimPri(SimDispatch), SimDispatch>>})
                            \cup (IF ln.enable /\ ln.pended THEN {<<SimPri(SimDispatch), SimDispatch>>} ELSE {})
              /\ w.active = on.active /\ w.pc = on.pc /\ w.zombies = on.zombies /\ w.task = on.task
            <4>1. ln \in [enable : BOOLEAN, pended : BOOLEAN]
                BY <2>1 DEF ln
            <4> QED BY <2>1, <3>1, <4>1, <1>5, UpdateLineIs
        <3> QED BY <3>1, <3>2 DEF ln
    <2> HIDE DEF w
    <2> QED BY <2>2, <1>4
<1> HIDE DEF w
<1>7. /\ SmHwInv(u) /\ u.line = w.line /\ u.pended = w.pended /\ u.active = <<>> /\ u.pc = smPc
      /\ ~u.lock /\ u.zombies = <<BootThread>> /\ u.task = BootThread
    <2>1. w \in SmHwTypes /\ IsFiniteSet(DOMAIN w.pc) /\ SmStack(w)
        BY <1>6 DEF SmHwInv
    <2>2. /\ u.line = w.line /\ u.pended = w.pended /\ u.active = w.active /\ u.pc = w.pc
          /\ ~u.lock /\ u.zombies = w.zombies /\ u.task = w.task /\ u \in SmHwTypes
        BY <2>1 DEF SmHwTypes
    <2>3. SmStack(u)
        BY <2>1, <2>2 DEF SmStack
    <2> HIDE DEF u
    <2> QED BY <2>1, <2>2, <2>3, <1>6 DEF SmHwInv
<1> HIDE DEF u
<1>8. SmSound(u, smTsm', NoTask, ready, FALSE, NoTask)
    <2>1. u.line[SimDispatch].enable
        BY <1>4, <1>6, <1>7, SimPriIs
    <2>2. SmEnding(u)
        BY <1>1, <1>7 DEF SmEnding
    <2>3. \A t \in Tasks : t # BootThread
        BY SimAssumption DEF BootThread
    <2>4. SmThreads(u, smTsm')
        BY <2>3, <1>1, <1>2, <1>7 DEF SmThreads, SmPlace
    <2>5. DOMAIN u.active = {}
        BY <1>7
    <2>6. SmLocking(u, NoTask)
        BY <2>5, <1>7 DEF SmLocking
    <2>7. SmHeld(u, smTsm') = NoTask
        BY <2>3, <1>7 DEF SmHeld
    <2>8. \A places : SmDispatches(u, places)
        <3>1. <<SimLowest, SimDispatch>> \in u.pended
            BY <1>6, <1>7 DEF SimPri
        <3> QED BY <3>1 DEF SmDispatches
    <2>9. \A t \in Tasks : t = NoTask \/ t \in ready => smTsm'[t] # "Uninit"
        BY <1>2, TasksAssumption
    <2>10. SmChosen(u, smTsm', NoTask, ready, FALSE)
        BY <2>7, <2>8, <2>9 DEF SmChosen
    <2> QED BY <2>1, <2>2, <2>4, <2>6, <2>10 DEF SmSound
<1>9. SmHwInv(g) /\ SmGrown(u, g) /\ ~TakesInterrupt(g) /\ SmSound(g, smTsm', NoTask, ready, FALSE, NoTask)
    BY <1>7, <1>8, CheckPreemptionIs, GrownSound
<1>10. /\ g.zombies = <<BootThread>> /\ g.task = BootThread
       /\ BootThread \in DOMAIN g.pc /\ g.pc[BootThread] # "exit"
    BY <1>1, <1>7, <1>9 DEF SmGrown
<1> HIDE DEF g
<1>11. /\ SmHwInv(e) /\ SmSound(e, smTsm', NoTask, ready, FALSE, NoTask)
       /\ SmRunning(e, ChooseNextThread(e)) /\ DOMAIN e.pc = DOMAIN g.pc \ {BootThread} /\ e.task = BootThread
    BY <1>9, <1>10, ExitedIs
<1> HIDE DEF e
<1>12. Hw' = e /\ smTask' = BootThread
    BY <1>2, <1>11, InstallIs, HwIs DEF SmHwInv
<1>13. smTsm' \in [Tasks -> {"Uninit", "Dormant", "Running"}]
    BY <1>2
<1> QED BY <1>1, <1>2, <1>3, <1>11, <1>12, <1>13, BootedNext

\* What the state of boot rules out.
LEMMA SmInitStep ==
    ASSUME SmInit, SmTypes, SmNext
    PROVE  SmBootedInv' /\ smTask' = smTask
PROOF
<1>1. /\ smActive = <<>> /\ smCur = BootThread /\ smPc = [i \in {BootThread} |-> "boot"]
    BY DEF SmInit
<1>2. ~InHandler /\ Where(smCur) = "boot" /\ ~SmBooted
    BY <1>1 DEF InHandler, Where, SmBooted
<1>3. ~InCode
    BY <1>2 DEF InCode
<1>4. ~SmEnterCpuLock /\ ~SmLeaveCpuLock /\ ~SmYieldCpu
    BY <1>3 DEF SmEnterCpuLock, SmLeaveCpuLock, SmYieldCpu
<1>5. \A t \in Tasks : ~SmActivate(t) /\ ~SmExit(t) /\ ~SmExitYield(t)
    BY <1>2, <1>3 DEF SmActivate, SmExit, SmExitYield
<1>6. \A l \in SimDevices : ~SmPendLine(l) /\ \A enable, pended \in BOOLEAN : ~SmConfigure(l, enable, pended)
    BY <1>2, <1>3 DEF SmPendLine, SmConfigure
<1>7. ~SmHandlerReturns /\ ~SmThreadExits /\ ~SmDispatchEnter /\ ~SmChoose /\ ~SmDispatchLeave /\ ~SmSetTask
    BY <1>2 DEF SmHandlerReturns, SmThreadExits, SmDispatchEnter, SmChoose, SmDispatchLeave, SmSetTask
<1>8. PICK ready \in SUBSET Tasks, enabled \in SUBSET SimDevices : SmDispatchFirstTask(ready, enabled)
    BY <1>4, <1>5, <1>6, <1>7 DEF SmNext
<1> QED BY <1>8, SmDispatchFirstTaskKeeps

LEMMA SmBootedStep ==
    ASSUME SmBootedInv, SmNext
    PROVE  SmBootedInv'
PROOF
<1>1. \A active, enabled : ~SmDispatchFirstTask(active, enabled)
    BY DEF SmBootedInv, SmBooted, SmDispatchFirstTask
<1>2. CASE SmEnterCpuLock
    BY <1>2, SmEnterCpuLockKeeps
<1>3. CASE SmLeaveCpuLock
    BY <1>3, SmLeaveCpuLockKeeps
<1>4. CASE SmYieldCpu
    BY <1>4, SmYieldCpuKeeps
<1>5. ASSUME NEW t \in Tasks, SmActivate(t) PROVE SmBootedInv'
    BY <1>5, SmActivateKeeps
<1>6. ASSUME NEW t \in Tasks, SmExit(t) PROVE SmBootedInv'
    BY <1>6, SmExitKeeps
<1>7. ASSUME NEW t \in Tasks, SmExitYield(t) PROVE SmBootedInv'
    BY <1>7, SmExitYieldKeeps
<1>8. ASSUME NEW l \in SimDevices, SmPendLine(l) PROVE SmBootedInv'
    BY <1>8, SmPendLineKeeps
<1>9. ASSUME NEW l \in SimDevices, NEW enable \in BOOLEAN, NEW pended \in BOOLEAN,
             SmConfigure(l, enable, pended)
      PROVE  SmBootedInv'
    BY <1>9, SmConfigureKeeps
<1>10. CASE SmHandlerReturns
    BY <1>10, SmHandlerReturnsKeeps
<1>11. CASE SmThreadExits
    BY <1>11, SmThreadExitsKeeps
<1>12. CASE SmDispatchEnter \/ SmChoose \/ SmDispatchLeave \/ SmSetTask
    BY <1>12, SmDispatchEnterKeeps, SmChooseKeeps, SmDispatchLeaveKeeps, SmSetTaskKeeps
<1> QED BY <1>1, <1>2, <1>3, <1>4, <1>5, <1>6, <1>7, <1>8, <1>9, <1>10, <1>11, <1>12 DEF SmNext

LEMMA SmStutterKeeps ==
    ASSUME SmInv, UNCHANGED smVars
    PROVE  SmInv'
PROOF
<1>1. /\ UNCHANGED <<smLine, smPended, smActive, smZombies, smPc, smCur>>
      /\ UNCHANGED <<smLock, smTask, smTsm, smRunning, smReady, smWanted, smOwner, smRaises>>
    BY DEF smVars, smHardware, smKernel
<1>2. Hw' = Hw
    BY <1>1, HwIs DEF Hw
<1>3. SmTypes'
    BY <1>1, <1>2 DEF SmInv, SmTypes
<1>4. SmInit => SmInit'
    BY <1>1 DEF SmInit
<1>5. ASSUME SmBootedInv PROVE SmBootedInv'
    <2>1. /\ SmHwInv(Hw') /\ BootThread \notin DOMAIN Hw'.pc
          /\ SmSound(Hw', smTsm', smRunning', smReady', smWanted', smOwner')
        BY <1>1, <1>2, <1>5, BootedIs, HwIs
    <2>2. SmRunning(Hw', smCur')
        BY <1>1, <1>2, <1>5, BootedIs DEF SmRunning
    <2> QED BY <2>1, <2>2, <1>1, <1>5, BootedIs, BootedNext
<1> QED BY <1>3, <1>4, <1>5 DEF SmInv

LEMMA SmStep == SmInv /\ [SmNext]_smVars => SmInv'
PROOF
<1> SUFFICES ASSUME SmInv, [SmNext]_smVars PROVE SmInv'
    OBVIOUS
<1>1. CASE UNCHANGED smVars
    BY <1>1, SmStutterKeeps
<1>2. CASE SmNext
    <2>1. SmBootedInv'
        BY <1>2, SmInitStep, SmBootedStep DEF SmInv
    <2>2. SmTypes'
        BY <2>1 DEF SmBootedInv
    <2> QED BY <2>1, <2>2 DEF SmInv
<1> QED BY <1>1, <1>2

\* The inductive invariant of the simulator port holds in every state.
THEOREM SmInvariant == SmSpec => []SmInv
PROOF
<1>1. SmInit => SmInv
    BY SmInitTypes DEF SmInv
<1> QED BY <1>1, SmStep, PTL DEF SmSpec

-----------------------------------------------------------------------------
(* The properties.                                                         *)

\* With no handler and no thread to be run to its end, no dispatch is on its
\* way, and the thread the scheduler runs is the one of the running task.
LEMMA QuietIs ==
    ASSUME SmBootedInv, smZombies = <<>>, smActive = <<>>
    PROVE  /\ smCur = smTask /\ smRunning = smTask /\ ~smWanted
           /\ smTask \in Tasks \cup {NoTask}
           /\ smTask \in Tasks => smTsm[smTask] = "Running" /\ SmPlace(Hw, smTask) = "code"
PROOF
<1>1. /\ SmHwInv(Hw) /\ SmEnding(Hw) /\ SmThreads(Hw, smTsm) /\ SmLocking(Hw, smOwner)
      /\ SmChosen(Hw, smTsm, smRunning, smReady, smWanted)
      /\ smCur = ChooseNextThread(Hw) /\ (TakesInterrupt(Hw) => SmExiting(Hw))
    BY BootedIs
<1>2. DOMAIN Hw.active = {} /\ Hw.active = <<>> /\ Hw.zombies = <<>>
    BY HwIs
<1>3. ~SmExiting(Hw) /\ smCur = smTask
    BY <1>1, <1>2, CurIs, HwIs
<1>4. \A places : ~SmDispatches(Hw, places)
    <2>1. <<SimLowest, SimDispatch>> \notin smPended
        <3> SUFFICES ASSUME <<SimLowest, SimDispatch>> \in smPended PROVE FALSE
            OBVIOUS
        <3>1. ~smLock
            BY <1>1, <1>2, HwIs DEF SmLocking
        <3>2. TakesInterrupt(Hw)
            BY <3>1, <1>2, HwIs DEF TakesInterrupt
        <3> QED BY <3>2, <1>1, <1>3
    <2> QED BY <2>1, <1>2, <1>3, HwIs DEF SmDispatches
<1>5. ~smWanted /\ (smTask = NoTask \/ SmHeld(Hw, smTsm) # NoTask) /\ smRunning = SmHeld(Hw, smTsm)
    BY <1>1, <1>2, <1>4, HwIs DEF SmChosen
<1>6. smRunning = smTask /\ smTask \in Tasks \cup {NoTask} /\ (smTask \in Tasks => smTsm[smTask] = "Running")
    BY <1>5, TasksAssumption, HwIs DEF SmHeld
<1> QED BY <1>1, <1>3, <1>5, <1>6 DEF SmThreads

\* The code of a task executes.
LEMMA TaskCodeIs ==
    ASSUME SmBootedInv, smCur \in Tasks, Where(smCur) = "code"
    PROVE  smZombies = <<>> /\ smActive = <<>>
PROOF
<1>1. SmHwInv(Hw) /\ SmEnding(Hw) /\ smCur = ChooseNextThread(Hw)
    BY BootedIs
<1>2. smCur \in DOMAIN smPc /\ smPc[smCur] = "code"
    BY DEF Where
<1> QED BY <1>1, <1>2, CurIs, HwIs

\* The thread that executes on the simulated hardware is the one it would run;
\* a task only executes on a thread of its own while it is the running task.
THEOREM SimContextCorrect == SmSpec => []SmContextIntact
PROOF
<1>1. ASSUME SmInv PROVE SmContextIntact
    <2>1. CASE SmInit
        <3>1. /\ smActive = <<>> /\ smTask = BootThread /\ smZombies = <<BootThread>> /\ smCur = BootThread
              /\ smPc = [i \in {BootThread} |-> "boot"] /\ smTsm = [t \in Tasks |-> "Uninit"]
            BY <2>1 DEF SmInit
        <3>2. smCur = ChooseNextThread(Hw)
            BY <3>1, HwIs DEF ChooseNextThread
        <3>3. \A t \in Tasks : Where(t) = "none"
            BY <3>1, SimAssumption DEF Where, BootThread
        <3> QED BY <3>1, <3>2, <3>3 DEF SmContextIntact
    <2>2. CASE SmBootedInv
        <3>1. /\ SmHwInv(Hw) /\ SmEnding(Hw) /\ SmThreads(Hw, smTsm)
              /\ smCur = ChooseNextThread(Hw)
            BY <2>2, BootedIs
        <3>2. smCur # NoTask => smCur \in DOMAIN smPc
            <4>1. CASE smZombies # <<>>
                BY <4>1, <3>1, CurIs, HwIs
            <4>2. CASE smZombies = <<>> /\ smActive # <<>>
                <5>1. Len(smActive) \in DOMAIN smActive /\ smCur = smActive[Len(smActive)].id
                    BY <4>2, <3>1, CurIs, HwIs
                <5> QED BY <5>1, <3>1, HwIs DEF SmHwInv, SmStack
            <4>3. CASE smZombies = <<>> /\ smActive = <<>>
                BY <4>3, <2>2, QuietIs, HwIs DEF SmPlace
            <4> QED BY <4>1, <4>2, <4>3
        <3>3. ASSUME NEW t \in Tasks, smCur = t, Where(t) = "code"
              PROVE  smRunning = t /\ smTsm[t] = "Running"
            BY <3>3, <2>2, TaskCodeIs, QuietIs
        <3>4. \A t \in Tasks : Where(t) = "code" <=> smTsm[t] = "Running"
            BY <3>1, HwIs DEF SmThreads, SmPlace, Where
        <3> QED BY <3>1, <3>2, <3>3, <3>4 DEF SmContextIntact
    <2> QED BY <1>1, <2>1, <2>2 DEF SmInv
<1> QED BY <1>1, SmInvariant, PTL

\* The simulated handlers are nested in the order of their priorities, and none
\* that could be taken waits while code of a lower priority executes.
THEOREM SimPriorityOrderCorrect == SmSpec => []SmPriorityOrder
PROOF
<1>1. ASSUME SmInv PROVE SmPriorityOrder
    <2>1. CASE SmInit
        <3>1. smActive = <<>> /\ smZombies = <<BootThread>>
            BY <2>1 DEF SmInit
        <3> QED BY <3>1 DEF SmPriorityOrder
    <2>2. CASE SmBootedInv
        <3>1. SmHwInv(Hw) /\ SmEnding(Hw) /\ smCur = ChooseNextThread(Hw) /\ (TakesInterrupt(Hw) => SmExiting(Hw))
            BY <2>2, BootedIs
        <3>2. DOMAIN smActive = 1 .. Len(smActive) /\ Len(smActive) \in Nat
            BY <3>1, HwIs DEF SmHwInv, SmHwTypes
        <3>3. ASSUME NEW i \in 1 .. Len(smActive) - 1 PROVE smActive[i].pri >= smActive[i + 1].pri
            <4>1. i \in DOMAIN smActive /\ i + 1 \in DOMAIN smActive /\ i < i + 1
                BY <3>2
            <4> QED BY <3>1, <4>1, HwIs DEF SmHwInv, SmStack
        <3>4. smZombies = <<>> => ~TakesInterrupt(Hw)
            BY <3>1, CurIs, HwIs
        <3> QED BY <3>3, <3>4 DEF SmPriorityOrder
    <2> QED BY <1>1, <2>1, <2>2 DEF SmInv
<1> QED BY <1>1, SmInvariant, PTL

\* A task of the simulator does not go on after yield_cpu before the dispatcher
\* has run.
THEOREM SimNoLostDispatchCorrect == SmSpec => []SmNoLostDispatch
PROOF
<1>1. ASSUME SmInv PROVE SmNoLostDispatch
    <2>1. SmInit => ~smWanted
        BY DEF SmInit
    <2>2. SmBootedInv => SmNoLostDispatch
        BY TaskCodeIs, QuietIs DEF SmNoLostDispatch
    <2> QED BY <1>1, <2>1, <2>2 DEF SmInv, SmNoLostDispatch
<1> QED BY <1>1, SmInvariant, PTL

\* Under the CPU Lock of the simulated hardware nothing but its owner, unmanaged
\* handlers and a thread that ends execute.
THEOREM SimLockHonouredCorrect == SmSpec => []SmLockHonoured
PROOF
<1>1. ASSUME SmInv PROVE SmLockHonoured
    <2>1. SmInit => smZombies # <<>>
        BY DEF SmInit
    <2>2. ASSUME SmBootedInv, smLock, smZombies = <<>>, ~(InHandler /\ ~SimManaged(Innermost.pri))
          PROVE  smCur = smOwner
        <3>1. SmHwInv(Hw) /\ SmEnding(Hw) /\ SmLocking(Hw, smOwner) /\ smCur = ChooseNextThread(Hw)
            BY <2>2, BootedIs
        <3>2. smActive # <<>> => smCur = smActive[Len(smActive)].id
            BY <2>2, <3>1, CurIs, HwIs
        <3>3. smActive # <<>> => SimManaged(smActive[Len(smActive)].pri)
            BY <2>2, <3>2 DEF InHandler, Innermost
        <3> QED BY <2>2, <3>1, <3>3, OwnerIs, HwIs
    <2> QED BY <1>1, <2>1, <2>2 DEF SmInv, SmLockHonoured
<1> QED BY <1>1, SmInvariant, PTL

-----------------------------------------------------------------------------
(* The refinement of PortContract.                                         *)

\* The handlers the contract counts, of any state of the hardware scheduler.
SmDevicesOf(h) == {i \in DOMAIN h.active : h.active[i].line # SimDispatch}
SmEnteredOf(h) == {i \in DOMAIN h.active : h.active[i].line = SimDispatch /\ SmLevel(h, i) # "enter"}
SmDispatchingOf(h) == \E i \in SmEnteredOf(h) : /\ \A j \in SmEnteredOf(h) : j <= i
                                               /\ SmLevel(h, i) \in {"choose", "leave", "set"}
SmDepthOf(h) == Cardinality(SmDevicesOf(h)) + IF SmDispatchingOf(h) THEN 1 ELSE 0

LEMMA DepthIs == SmDepth = SmDepthOf(Hw) /\ SmDepth' = SmDepthOf(Hw')
PROOF
<1>1. SmDepth = SmDepthOf(Hw)
    BY HwIs DEF SmDepth, SmDepthOf, SmDeviceLevels, SmDevicesOf, SmDispatching, SmDispatchingOf,
                SmEntered, SmEnteredOf, SmLevel
<1>2. SmDepth' = SmDepthOf(Hw')
    BY HwIs DEF SmDepth, SmDepthOf, SmDeviceLevels, SmDevicesOf, SmDispatching, SmDispatchingOf,
                SmEntered, SmEnteredOf, SmLevel
<1> QED BY <1>1, <1>2

LEMMA DepthType ==
    ASSUME NEW h, SmHwInv(h)
    PROVE  /\ IsFiniteSet(SmDevicesOf(h)) /\ Cardinality(SmDevicesOf(h)) \in Nat /\ SmDepthOf(h) \in Nat
           /\ DOMAIN h.active = 1 .. Len(h.active) /\ Len(h.active) \in Nat
PROOF
<1>1. DOMAIN h.active = 1 .. Len(h.active) /\ Len(h.active) \in Nat
    BY DEF SmHwInv, SmHwTypes
<1>2. IsFiniteSet(DOMAIN h.active)
    <2> DEFINE m == Len(h.active)
    <2>1. m \in Int
        BY <1>1
    <2> HIDE DEF m
    <2>2. IsFiniteSet(1 .. m)
        BY <2>1, FS_Interval
    <2> QED BY <2>2, <1>1 DEF m
<1>3. SmDevicesOf(h) \subseteq DOMAIN h.active
    BY DEF SmDevicesOf
<1>4. IsFiniteSet(SmDevicesOf(h))
    BY <1>2, <1>3, FS_Subset
<1>5. Cardinality(SmDevicesOf(h)) \in Nat
    BY <1>4, FS_CardinalityType
<1> QED BY <1>1, <1>4, <1>5 DEF SmDepthOf

\* What matters to the depth.
LEMMA DepthSame ==
    ASSUME NEW h, NEW g, g.active = h.active, \A i \in DOMAIN h.active : SmLevel(g, i) = SmLevel(h, i)
    PROVE  SmDepthOf(g) = SmDepthOf(h)
PROOF
<1>1. SmDevicesOf(g) = SmDevicesOf(h) /\ SmEnteredOf(g) = SmEnteredOf(h)
    BY DEF SmDevicesOf, SmEnteredOf
<1>2. \A i \in SmEnteredOf(h) : SmLevel(g, i) = SmLevel(h, i)
    BY DEF SmEnteredOf
<1>3. SmDispatchingOf(g) <=> SmDispatchingOf(h)
    BY <1>1, <1>2 DEF SmDispatchingOf
<1> QED BY <1>1, <1>3 DEF SmDepthOf

\* The activation of interrupts.
LEMMA GrownDepth ==
    ASSUME NEW h, NEW g, SmHwInv(h), SmHwInv(g), SmGrown(h, g)
    PROVE  /\ SmDepthOf(g) >= SmDepthOf(h)
           /\ (\A i \in DOMAIN g.active : i > Len(h.active) => g.active[i].line = SimDispatch)
                 => SmDepthOf(g) = SmDepthOf(h)
PROOF
<1>1. /\ \A i \in DOMAIN h.active : /\ i \in DOMAIN g.active /\ i <= Len(h.active)
                                    /\ g.active[i] = h.active[i] /\ SmLevel(g, i) = SmLevel(h, i)
      /\ \A i \in DOMAIN g.active :
            \/ i \in DOMAIN h.active
            \/ /\ i > Len(h.active) /\ SmNew(h, g, i) /\ SmLevel(g, i) \in {"enter", "code"}
    BY GrownLevels
<1>2. SmDevicesOf(h) \subseteq SmDevicesOf(g)
    BY <1>1 DEF SmDevicesOf
<1>3. SmEnteredOf(g) = SmEnteredOf(h)
    <2>1. ASSUME NEW i \in DOMAIN g.active, i \notin DOMAIN h.active PROVE i \notin SmEnteredOf(g)
        BY <2>1, <1>1 DEF SmEnteredOf, SmNew, SmLevel
    <2> QED BY <2>1, <1>1 DEF SmEnteredOf
<1>4. \A i \in SmEnteredOf(h) : SmLevel(g, i) = SmLevel(h, i)
    BY <1>1 DEF SmEnteredOf
<1>5. SmDispatchingOf(g) <=> SmDispatchingOf(h)
    BY <1>3, <1>4 DEF SmDispatchingOf
<1>6. IsFiniteSet(SmDevicesOf(g)) /\ Cardinality(SmDevicesOf(g)) \in Nat /\ Cardinality(SmDevicesOf(h)) \in Nat
    BY DepthType
<1>7. Cardinality(SmDevicesOf(h)) <= Cardinality(SmDevicesOf(g))
    BY <1>2, <1>6, FS_Subset
<1>8. ASSUME \A i \in DOMAIN g.active : i > Len(h.active) => g.active[i].line = SimDispatch
      PROVE  SmDevicesOf(g) = SmDevicesOf(h)
    BY <1>1, <1>8 DEF SmDevicesOf
<1> QED BY <1>5, <1>6, <1>7, <1>8 DEF SmDepthOf

\* While a dispatcher is the innermost handler, it is all that counts.
LEMMA DispatcherDepth ==
    ASSUME NEW h, NEW n \in DOMAIN h.active, SmHwInv(h),
           \A i \in DOMAIN h.active : h.active[i].line = SimDispatch /\ i <= n
    PROVE  /\ SmLevel(h, n) \in {"choose", "leave", "set"} => SmDepthOf(h) = 1
           /\ SmLevel(h, n) = "return" => SmDepthOf(h) = 0
           /\ SmDepthOf(h) \in {0, 1}
PROOF
<1>1. SmDevicesOf(h) = {}
    BY DEF SmDevicesOf
<1>2. Cardinality(SmDevicesOf(h)) = 0
    BY <1>1, FS_EmptySet
<1>3. SmLevel(h, n) \in {"choose", "leave", "set", "return"} => n \in SmEnteredOf(h)
    BY DEF SmEnteredOf
<1>4. \A j \in SmEnteredOf(h) : j <= n
    BY DEF SmEnteredOf
<1>5. SmLevel(h, n) \in {"choose", "leave", "set"} => SmDispatchingOf(h)
    BY <1>3, <1>4 DEF SmDispatchingOf
<1>6. SmLevel(h, n) = "return" => ~SmDispatchingOf(h)
    <2> SUFFICES ASSUME SmLevel(h, n) = "return", NEW i \in SmEnteredOf(h),
                        \A j \in SmEnteredOf(h) : j <= i, SmLevel(h, i) \in {"choose", "leave", "set"}
                 PROVE  FALSE
        BY DEF SmDispatchingOf
    <2>1. i <= n /\ n <= i
        BY <1>3, <1>4
    <2>2. i \in 1 .. Len(h.active) /\ n \in 1 .. Len(h.active) /\ Len(h.active) \in Nat
        BY DepthType DEF SmEnteredOf
    <2>3. i = n
        BY <2>1, <2>2
    <2> QED BY <2>3
<1> QED BY <1>2, <1>5, <1>6 DEF SmDepthOf

\* What the contract sees.
LEMMA SmSeen ==
    ASSUME SmBootedInv
    PROVE  /\ SmStarted => SmThread = SmHeld(Hw, smTsm) /\ SmThread \in Tasks \cup {NoTask} /\ SmThread # "boot"
           /\ ~SmStarted => SmThread = "boot"
           /\ SmDepth \in Nat
PROOF
<1>1. SmDepth \in Nat
    BY DepthIs, DepthType, BootedIs
<1>2. SmStarted => SmThread = SmHeld(Hw, smTsm)
    BY HwIs DEF SmThread, SmHeld
<1>3. SmHeld(Hw, smTsm) \in Tasks \cup {NoTask}
    BY DEF SmHeld
<1> QED BY <1>1, <1>2, <1>3, TasksAssumption DEF SmThread

\* A step that may activate handlers of devices.
LEMMA SmTakes ==
    ASSUME SmBootedInv, SmDepth' \in Nat, SmDepth' >= SmDepth,
           SmHeld(Hw', smTsm') = SmHeld(Hw, smTsm),
           UNCHANGED <<smTask, smRunning, smWanted>>
    PROVE  [SmContract!ContractNext]_(SmContract!contractVars)
PROOF
<1>1. SmDepth \in Nat
    BY SmSeen
<1>3. SmStarted' <=> SmStarted
    BY DEF SmStarted
<1>4. CASE ~SmStarted
    BY <1>3, <1>4 DEF SmContract!contractVars, SmThread
<1>5. CASE SmStarted
    <2>1. SmThread' = SmHeld(Hw', smTsm')
        BY <1>3, <1>5, HwIs DEF SmThread, SmHeld
    <2>2. SmThread' = SmThread /\ SmThread # "boot"
        BY <2>1, <1>5, SmSeen
    <2>3. CASE SmDepth' = SmDepth
        BY <2>2, <2>3, <1>3 DEF SmContract!contractVars
    <2>4. CASE SmDepth' # SmDepth
        <3>1. SmDepth' > SmDepth
            BY <2>4, <1>1
        <3>2. SmContract!TakeInterrupt
            BY <2>2, <3>1, <1>1, <1>3, <1>5 DEF SmContract!TakeInterrupt
        <3> QED BY <3>2 DEF SmContract!ContractNext
    <2> QED BY <2>3, <2>4
<1> QED BY <1>4, <1>5

\* A step that none of it is seen of.
LEMMA SmUnseen ==
    ASSUME SmBootedInv, SmDepth' = SmDepth, SmHeld(Hw', smTsm') = SmHeld(Hw, smTsm),
           UNCHANGED <<smTask, smRunning, smWanted>>
    PROVE  UNCHANGED SmContract!contractVars
PROOF
<1>1. SmStarted' <=> SmStarted
    BY DEF SmStarted
<1>2. SmThread' = SmThread
    BY <1>1, HwIs DEF SmThread, SmHeld
<1> QED BY <1>1, <1>2 DEF SmContract!contractVars

\* Before the first dispatch has been made none of the steps is seen.
LEMMA SmNotStarted ==
    ASSUME ~SmStarted, smTask' = smTask
    PROVE  UNCHANGED SmContract!contractVars
PROOF
    BY DEF SmStarted, SmThread, SmContract!contractVars

\* Where a step ends with check_preemption_by_interrupt.
LEMMA InstalledIs ==
    ASSUME NEW u, SmHwInv(u), Preempted(u) \/ Install(CheckPreemption(u))
    PROVE  SmGrown(u, Hw') /\ SmHwInv(Hw') /\ Hw'.task = u.task
PROOF
<1>1. Install(CheckPreemption(u))
    BY DEF Preempted
<1>2. SmHwInv(CheckPreemption(u)) /\ SmGrown(u, CheckPreemption(u))
    BY CheckPreemptionIs
<1>3. Hw' = CheckPreemption(u)
    BY <1>1, <1>2, InstallIs DEF SmHwInv
<1> QED BY <1>2, <1>3 DEF SmGrown

\* A step that changes lines, or CPU Lock, and activates what can be taken.
LEMMA SmActivates ==
    ASSUME SmBootedInv, NEW u, SmHwInv(u), Preempted(u) \/ Install(CheckPreemption(u)),
           u.active = smActive, u.task = smTask, SmDepthOf(u) >= SmDepth,
           UNCHANGED <<smTsm, smRunning, smWanted>>
    PROVE  [SmContract!ContractNext]_(SmContract!contractVars)
PROOF
<1>1. SmGrown(u, Hw') /\ SmHwInv(Hw') /\ Hw'.task = u.task
    BY InstalledIs
<1>2. smTask' = smTask
    BY <1>1, HwIs
<1>3. SmHeld(Hw', smTsm') = SmHeld(Hw, smTsm)
    BY <1>2, HwIs DEF SmHeld
<1>4. SmDepth' \in Nat /\ SmDepth' >= SmDepth
    <2>1. /\ SmDepthOf(Hw') \in Nat /\ SmDepthOf(u) \in Nat /\ SmDepth \in Nat
          /\ SmDepthOf(Hw') >= SmDepthOf(u)
        BY <1>1, DepthType, GrownDepth, SmSeen
    <2> QED BY <2>1, DepthIs
<1> QED BY <1>2, <1>3, <1>4, SmTakes

\* Code enters or leaves CPU Lock, or changes or pends a line of a device.
LEMMA SmCodeSeen ==
    ASSUME SmBootedInv,
           \/ SmEnterCpuLock \/ SmLeaveCpuLock
           \/ \E l \in SimDevices : \/ SmPendLine(l)
                                    \/ \E enable, pended \in BOOLEAN : SmConfigure(l, enable, pended)
    PROVE  [SmContract!ContractNext]_(SmContract!contractVars)
PROOF
<1>1. CASE SmEnterCpuLock
    <2>1. UNCHANGED <<smActive, smPc, smTask, smTsm, smRunning, smWanted>>
        BY <1>1 DEF SmEnterCpuLock, smHardware, smKernel
    <2>2. SmDepthOf(Hw') = SmDepthOf(Hw)
        BY <2>1, DepthSame, HwIs DEF SmLevel
    <2>3. SmHeld(Hw', smTsm') = SmHeld(Hw, smTsm)
        BY <2>1, HwIs DEF SmHeld
    <2> QED BY <2>1, <2>2, <2>3, DepthIs, SmUnseen
<1>2. CASE SmLeaveCpuLock
    <2> DEFINE u == [Hw EXCEPT !.lock = FALSE]
    <2>1. InCode /\ Preempted(u) /\ UNCHANGED <<smTsm, smRunning, smWanted>>
        BY <1>2 DEF SmLeaveCpuLock, smKernel
    <2>2. SmHwInv(u) /\ u.active = Hw.active /\ u.pc = Hw.pc /\ u.task = Hw.task
        BY <2>1, BootedIs, InCodeIs, UnlockIs, HwIs
    <2> HIDE DEF u
    <2>3. SmDepthOf(u) = SmDepthOf(Hw)
        BY <2>2, DepthSame DEF SmLevel
    <2>4. SmDepthOf(u) >= SmDepth
        BY <2>3, DepthIs, SmSeen
    <2> QED BY <2>1, <2>2, <2>4, SmActivates, HwIs
<1>3. ASSUME NEW l \in SimDevices, NEW ln \in [enable : BOOLEAN, pended : BOOLEAN],
             Preempted(UpdateLine(Hw, l, ln)), UNCHANGED <<smTsm, smRunning, smWanted>>
      PROVE  [SmContract!ContractNext]_(SmContract!contractVars)
    <2> DEFINE u == UpdateLine(Hw, l, ln)
    <2>1. SmHwInv(u) /\ u.active = Hw.active /\ u.pc = Hw.pc /\ u.task = Hw.task
        <3>1. l \in SimLines
            BY DEF SimLines
        <3>2. SmHwInv(Hw)
            BY BootedIs
        <3>3. /\ SmHwInv(u) /\ u.line = [Hw.line EXCEPT ![l] = ln]
              /\ u.active = Hw.active /\ u.pc = Hw.pc /\ u.lock = Hw.lock
              /\ u.zombies = Hw.zombies /\ u.task = Hw.task
            BY <3>1, <3>2, UpdateLineIs
        <3> QED BY <3>3
    <2>2. Preempted(u)
        BY <1>3
    <2> HIDE DEF u
    <2>3. SmDepthOf(u) = SmDepthOf(Hw)
        BY <2>1, DepthSame DEF SmLevel
    <2>4. SmDepthOf(u) >= SmDepth
        BY <2>3, DepthIs, SmSeen
    <2> QED BY <1>3, <2>1, <2>2, <2>4, SmActivates, HwIs
<1>4. ASSUME NEW l \in SimDevices, SmPendLine(l)
      PROVE  [SmContract!ContractNext]_(SmContract!contractVars)
    <2>1. [Hw.line[l] EXCEPT !.pended = TRUE] \in [enable : BOOLEAN, pended : BOOLEAN]
        BY PendIs, BootedIs DEF SimLines
    <2>2. Preempted(UpdateLine(Hw, l, [Hw.line[l] EXCEPT !.pended = TRUE]))
          /\ UNCHANGED <<smTsm, smRunning, smWanted>>
        BY <1>4 DEF SmPendLine, Pend, smKernel
    <2> QED BY <2>1, <2>2, <1>3
<1>5. ASSUME NEW l \in SimDevices, NEW enable \in BOOLEAN, NEW pended \in BOOLEAN,
             SmConfigure(l, enable, pended)
      PROVE  [SmContract!ContractNext]_(SmContract!contractVars)
    <2>1. [enable |-> enable, pended |-> pended] \in [enable : BOOLEAN, pended : BOOLEAN]
        OBVIOUS
    <2>2. Preempted(UpdateLine(Hw, l, [enable |-> enable, pended |-> pended]))
          /\ UNCHANGED <<smTsm, smRunning, smWanted>>
        BY <1>5 DEF SmConfigure, smKernel
    <2> QED BY <2>1, <2>2, <1>3
<1> QED BY <1>1, <1>2, <1>4, <1>5

\* All that yield_cpu can activate is the dispatcher.
LEMMA YieldIs ==
    ASSUME SmBootedInv, SmYieldCpu
    PROVE  SmDepth' = SmDepth /\ smTask' = smTask
PROOF
<1> DEFINE u == Pend(Hw, SimDispatch)
           m == Len(smActive)
<1>1. InCode /\ ~smLock /\ Preempted(u)
    BY DEF SmYieldCpu
<1>2. /\ SmHwInv(u) /\ u.pended = Hw.pended \cup {<<SimLowest, SimDispatch>>}
      /\ u.active = smActive /\ u.pc = Hw.pc /\ u.task = smTask
    BY PendDispatchIs, BootedIs, HwIs
<1> HIDE DEF u
<1>3. SmGrown(u, Hw') /\ SmHwInv(Hw') /\ Hw'.task = u.task
    BY <1>1, <1>2, InstalledIs
<1>4. SmDepthOf(u) = SmDepth
    BY <1>2, DepthSame, DepthIs, HwIs DEF SmLevel
<1>5. ASSUME NEW i \in DOMAIN Hw'.active, i > Len(u.active) PROVE Hw'.active[i].line = SimDispatch
    <2>1. <<Hw'.active[i].pri, Hw'.active[i].line>> \in u.pended
        BY <1>3, <1>5 DEF SmGrown, SmNew
    <2>2. CASE Hw.pended = {}
        BY <2>1, <2>2, <1>2
    <2>3. CASE Hw.pended # {}
        <3>1. /\ SmHwInv(Hw) /\ ~TakesInterrupt(Hw) /\ ~Hw.lock
              /\ Hw.pended \subseteq {<<SimPri(l), l>> : l \in SimLines}
            BY <1>1, BootedIs, InCodeIs, HwIs DEF SmHwInv, SmHwTypes
        <3>2. /\ smActive # <<>> /\ m \in DOMAIN smActive /\ smActive[m].line # SimDispatch
            BY <2>3, <3>1, UnlockedIs, HwIs
        <3>3. smActive \in Seq(SmHandlerTypes) /\ DOMAIN smActive = 1 .. m /\ m \in Nat
            BY <3>1, HwIs DEF SmHwInv, SmHwTypes
        <3>4. smActive[m].line \in SimLines /\ smActive[m].pri = SimPri(smActive[m].line)
            <4>1. smActive[m] \in SmHandlerTypes
                BY <3>2, <3>3, ElementOfSeq
            <4> QED BY <4>1, <3>1, <3>2, HwIs DEF SmHandlerTypes, SmHwInv, SmStack
        <3>5. smActive[m].pri \in Int /\ smActive[m].pri < SimLowest /\ SimLowest \in Nat
            BY <3>2, <3>4, SimPriIs
        <3>6. ASSUME NEW q \in Hw.pended PROVE q[1] > smActive[m].pri
            <4>1. ~(smActive[m].pri >= FirstPended(Hw)[1]) /\ FirstPended(Hw)[1] <= q[1]
                  /\ FirstPended(Hw) \in Hw.pended
                BY <2>3, <3>1, FirstPendedIs, HwIs DEF TakesInterrupt
            <4>2. \A p \in Hw.pended : p[1] \in Int
                <5> SUFFICES ASSUME NEW l \in SimLines PROVE <<SimPri(l), l>>[1] \in Int
                    BY <3>1
                <5> QED BY SimPriIs
            <4> QED BY <4>1, <4>2, <3>5
        <3>7. Hw'.active[i].pri > smActive[m].pri
            <4>1. CASE <<Hw'.active[i].pri, Hw'.active[i].line>> \in Hw.pended
                BY <4>1, <3>6
            <4>2. CASE <<Hw'.active[i].pri, Hw'.active[i].line>> = <<SimLowest, SimDispatch>>
                BY <4>2, <3>5
            <4> QED BY <4>1, <4>2, <2>1, <1>2
        <3>8. m \in DOMAIN Hw'.active /\ Hw'.active[m] = smActive[m] /\ m < i
            BY <1>2, <1>3, <1>5, <3>2, GrownLevels
        <3>9. smActive[m].pri >= Hw'.active[i].pri
            BY <3>8, <1>3 DEF SmHwInv, SmStack
        <3>10. Hw'.active[i].pri \in Int
            <4>1. Hw'.active \in Seq(SmHandlerTypes) /\ DOMAIN Hw'.active = 1 .. Len(Hw'.active)
                BY <1>3 DEF SmHwInv, SmHwTypes
            <4>2. Hw'.active[i] \in SmHandlerTypes
                BY <4>1, ElementOfSeq
            <4> QED BY <4>2 DEF SmHandlerTypes
        <3> QED BY <3>5, <3>7, <3>9, <3>10
    <2> QED BY <2>2, <2>3
<1>6. SmDepthOf(Hw') = SmDepthOf(u)
    BY <1>2, <1>3, <1>5, GrownDepth
<1> QED BY <1>2, <1>3, <1>4, <1>6, DepthIs, HwIs

LEMMA SmYieldCpuSeen ==
    ASSUME SmBootedInv, SmYieldCpu
    PROVE  [SmContract!ContractNext]_(SmContract!contractVars)
PROOF
<1>1. SmDepth' = SmDepth /\ smTask' = smTask
    BY YieldIs
<1>2. smWanted' = TRUE /\ UNCHANGED <<smTsm, smRunning>>
    BY DEF SmYieldCpu
<1>3. SmStarted' <=> SmStarted
    BY <1>1 DEF SmStarted
<1>4. CASE ~SmStarted
    BY <1>1, <1>4, SmNotStarted
<1>5. CASE SmStarted
    <2>1. SmThread' = SmThread /\ SmThread # "boot"
        BY <1>1, <1>2, <1>3, <1>5, SmSeen DEF SmThread
    <2>2. SmContract!Request
        BY <2>1, <1>1, <1>2, <1>3, <1>5 DEF SmContract!Request
    <2> QED BY <2>2 DEF SmContract!ContractNext
<1> QED BY <1>4, <1>5

\* No handler.
LEMMA NoHandlerDepth ==
    ASSUME NEW h, h.active = <<>>
    PROVE  SmDepthOf(h) = 0
PROOF
<1>1. SmDevicesOf(h) = {} /\ SmEnteredOf(h) = {}
    BY DEF SmDevicesOf, SmEnteredOf
<1>2. Cardinality(SmDevicesOf(h)) = 0
    BY <1>1, FS_EmptySet
<1> QED BY <1>1, <1>2 DEF SmDepthOf, SmDispatchingOf

\* The kernel activates a task, or the code of a task exits.
LEMMA SmTaskSeen ==
    ASSUME SmBootedInv, NEW t \in Tasks, SmActivate(t) \/ SmExit(t) \/ SmExitYield(t)
    PROVE  [SmContract!ContractNext]_(SmContract!contractVars)
PROOF
<1>1. CASE SmActivate(t)
    <2>1. /\ smTsm[t] # "Running" /\ smTsm' = [smTsm EXCEPT ![t] = "Dormant"]
          /\ UNCHANGED <<smActive, smPc, smTask, smRunning, smWanted>>
        BY <1>1 DEF SmActivate, smHardware
    <2>2. SmDepthOf(Hw') = SmDepthOf(Hw)
        BY <2>1, DepthSame, HwIs DEF SmLevel
    <2>3. smTsm \in [Tasks -> {"Uninit", "Dormant", "Running"}]
        BY BootedIs
    <2>4. \A s \in Tasks : smTsm'[s] = "Running" <=> smTsm[s] = "Running"
        BY <2>1, <2>3
    <2>5. SmHeld(Hw', smTsm') = SmHeld(Hw, smTsm)
        BY <2>1, <2>4, HwIs DEF SmHeld
    <2> QED BY <2>1, <2>2, <2>5, DepthIs, SmUnseen
<1>2. CASE SmExit(t)
    <2>1. /\ smCur = t /\ Where(t) = "code" /\ smTsm' = [smTsm EXCEPT ![t] = "Uninit"]
          /\ smRunning' = NoTask /\ smWanted' = TRUE
          /\ UNCHANGED <<smActive, smTask>>
        BY <1>2 DEF SmExit
    <2>2. smZombies = <<>> /\ smActive = <<>>
        BY <2>1, TaskCodeIs
    <2>3. smTask = t /\ smTsm[t] = "Running"
        BY <2>1, <2>2, QuietIs
    <2>4. t # BootThread /\ t # NoTask /\ smTsm'[t] = "Uninit"
        <3>1. smTsm \in [Tasks -> {"Uninit", "Dormant", "Running"}]
            BY BootedIs
        <3> QED BY <3>1, <2>1, SimAssumption, TasksAssumption DEF BootThread
    <2>5. SmDepth = 0 /\ SmDepth' = 0
        BY <2>1, <2>2, NoHandlerDepth, DepthIs, HwIs
    <2>6. SmStarted /\ SmStarted' /\ SmThread = t /\ SmThread' = NoTask
        BY <2>1, <2>3, <2>4 DEF SmStarted, SmThread
    <2>7. SmContract!Exit
        BY <2>1, <2>5, <2>6 DEF SmContract!Exit
    <2> QED BY <2>7 DEF SmContract!ContractNext
<1>3. CASE SmExitYield(t)
    <2> DEFINE h == [Pend(Hw, SimDispatch) EXCEPT !.pc[t] = "zombie"]
    <2>1. Install(CheckPreemption(h)) /\ UNCHANGED <<smTsm, smRunning, smWanted>>
        BY <1>3 DEF SmExitYield, smKernel
    <2>2. /\ SmHwInv(h) /\ h.active = smActive /\ h.task = smTask
          /\ \A i \in DOMAIN smActive : SmLevel(h, i) = SmLevel(Hw, i)
        BY <1>3, ExitYieldIs
    <2> HIDE DEF h
    <2>3. SmDepthOf(h) = SmDepthOf(Hw)
        BY <2>2, DepthSame, HwIs
    <2>4. SmDepthOf(h) >= SmDepth
        BY <2>3, DepthIs, SmSeen
    <2> QED BY <2>1, <2>2, <2>4, SmActivates
<1> QED BY <1>1, <1>2, <1>3

\* A dispatcher that is about to tell the scheduler the task is what counts.
LEMMA SetsCounts ==
    ASSUME NEW h, SmHwInv(h), NEW i \in DOMAIN h.active, SmSets(h, i)
    PROVE  SmDispatchingOf(h)
PROOF
<1>1. \A j \in DOMAIN h.active : SmLevel(h, j) \in SmHandlerPlaces(h.active[j].line)
    BY DEF SmHwInv, SmStack, SmLevel
<1>2. i \in SmEnteredOf(h)
    BY <1>1 DEF SmSets, SmEnteredOf, SmHandlerPlaces
<1> DEFINE m == Len(h.active)
<1>3. m \in Nat /\ DOMAIN h.active = 1 .. m
    BY DepthType
<1>4. SmEnteredOf(h) \in SUBSET (0 .. m) /\ SmEnteredOf(h) \subseteq DOMAIN h.active
    BY <1>3 DEF SmEnteredOf
<1> HIDE DEF m
<1>5. PICK k \in SmEnteredOf(h) : \A j \in SmEnteredOf(h) : j <= k
    BY <1>2, <1>3, <1>4, MaxNat
<1>6. k = i \/ k > i
    BY <1>2, <1>3, <1>4, <1>5
<1>7. SmLevel(h, k) \in {"choose", "leave", "set", "return"}
    BY <1>1 DEF SmEnteredOf, SmHandlerPlaces
<1>8. SmLevel(h, k) # "return"
    BY <1>4, <1>6 DEF SmSets
<1> QED BY <1>5, <1>7, <1>8 DEF SmDispatchingOf

\* The thread of a handler, or one that is run to its end, ends.
LEMMA SmHandlerReturnsSeen ==
    ASSUME SmBootedInv, SmHandlerReturns
    PROVE  [SmContract!ContractNext]_(SmContract!contractVars)
PROOF
<1> DEFINE n == Len(smActive)
           h == [Hw EXCEPT !.active = SubSeq(@, 1, Len(@) - 1), !.pc[smCur] = "zombie",
                           !.zombies = Append(@, smCur)]
<1>1. Install(CheckPreemption(h)) /\ UNCHANGED <<smTsm, smRunning, smWanted>>
    BY DEF SmHandlerReturns, smKernel
<1>2. /\ n \in DOMAIN smActive /\ DOMAIN smActive = 1 .. n /\ n \in Nat \ {0}
      /\ SmLevel(Hw, n) \in {"code", "return"} /\ SmHwInv(h) /\ h.task = smTask
      /\ \A i \in DOMAIN h.active :
            /\ i \in DOMAIN smActive /\ i # n /\ h.active[i] = smActive[i]
            /\ SmLevel(h, i) = SmLevel(Hw, i)
      /\ \A i \in DOMAIN smActive : i # n => i \in DOMAIN h.active
    BY ReturnIs
<1> HIDE DEF h, n
<1>3. SmGrown(h, Hw') /\ SmHwInv(Hw') /\ Hw'.task = h.task
    BY <1>1, <1>2, InstalledIs
<1>4. smTask' = smTask /\ SmHeld(Hw', smTsm') = SmHeld(Hw, smTsm) /\ (SmStarted' <=> SmStarted)
    BY <1>1, <1>2, <1>3, HwIs DEF SmHeld, SmStarted
<1>5. /\ SmDepth \in Nat /\ SmDepth' \in Nat /\ SmDepthOf(h) \in Nat /\ SmDepth' >= SmDepthOf(h)
      /\ SmDepth = SmDepthOf(Hw)
    BY <1>2, <1>3, SmSeen, DepthIs, DepthType, GrownDepth
<1>6. SmHwInv(Hw) /\ SmChosen(Hw, smTsm, smRunning, smReady, smWanted)
    BY BootedIs
<1>7. SmLevel(Hw, n) \in SmHandlerPlaces(smActive[n].line)
    BY <1>2, <1>6, HwIs DEF SmHwInv, SmStack, SmLevel
<1>8. IsFiniteSet(SmDevicesOf(Hw)) /\ Cardinality(SmDevicesOf(Hw)) \in Nat
    BY <1>6, DepthType
<1>9. CASE smActive[n].line = SimDispatch
    <2>1. SmLevel(Hw, n) = "return"
        BY <1>2, <1>7, <1>9 DEF SmHandlerPlaces
    <2>2. ~SmDispatchingOf(Hw)
        <3> SUFFICES ASSUME NEW i \in SmEnteredOf(Hw), \A j \in SmEnteredOf(Hw) : j <= i,
                            SmLevel(Hw, i) \in {"choose", "leave", "set"}
                     PROVE  FALSE
            BY DEF SmDispatchingOf
        <3>1. n \in SmEnteredOf(Hw) /\ i \in DOMAIN smActive
            BY <2>1, <1>2, <1>9, HwIs DEF SmEnteredOf
        <3>2. n <= i /\ i \in 1 .. n
            BY <3>1, <1>2
        <3>3. i = n
            BY <3>2, <1>2
        <3> QED BY <3>3, <2>1
    <2>3. SmDevicesOf(h) = SmDevicesOf(Hw)
        BY <1>2, <1>9, HwIs DEF SmDevicesOf
    <2>4. SmDepthOf(h) >= SmDepth
        BY <2>2, <2>3, <1>5, <1>8 DEF SmDepthOf
    <2>5. SmDepth' >= SmDepth
        BY <2>4, <1>5
    <2> QED BY <2>5, <1>1, <1>4, <1>5, SmTakes
<1>10. CASE smActive[n].line # SimDispatch
    <2>1. SmDevicesOf(h) = SmDevicesOf(Hw) \ {n} /\ n \in SmDevicesOf(Hw)
        BY <1>2, <1>10, HwIs DEF SmDevicesOf
    <2>2. SmEnteredOf(h) = SmEnteredOf(Hw)
        BY <1>2, <1>10, HwIs DEF SmEnteredOf
    <2>3. \A i \in SmEnteredOf(h) : SmLevel(h, i) = SmLevel(Hw, i)
        BY <1>2 DEF SmEnteredOf
    <2>4. SmDispatchingOf(h) <=> SmDispatchingOf(Hw)
        BY <2>2, <2>3 DEF SmDispatchingOf
    <2>5. Cardinality(SmDevicesOf(h)) = Cardinality(SmDevicesOf(Hw)) - 1
        BY <2>1, <1>8, FS_RemoveElement
    <2>6. Cardinality(SmDevicesOf(h)) \in Nat
        BY <1>2, DepthType
    <2>7. SmDepthOf(h) = SmDepth - 1
        BY <2>4, <2>5, <1>5, <1>8 DEF SmDepthOf
    <2>8. CASE SmDepth' >= SmDepth
        BY <2>8, <1>1, <1>4, <1>5, SmTakes
    <2>9. CASE ~(SmDepth' >= SmDepth)
        <3>1. SmDepth' = SmDepth - 1 /\ SmDepth > 0
            BY <2>7, <2>9, <1>5
        <3>2. CASE ~SmStarted
            BY <3>2, <1>4, SmNotStarted
        <3>3. CASE SmStarted
            <4>1. SmThread = SmHeld(Hw, smTsm) /\ SmThread' = SmThread
                BY <3>3, <1>1, <1>4, SmSeen DEF SmThread
            <4>2. ASSUME SmDepth = 1 PROVE smRunning = SmThread
                <5>1. ~SmDispatchingOf(Hw)
                    BY <4>2, <2>5, <2>6, <1>5, <1>8 DEF SmDepthOf
                <5>2. \A i \in DOMAIN Hw.active : ~SmSets(Hw, i)
                    BY <5>1, <1>6, SetsCounts
                <5> QED BY <5>2, <4>1, <1>6 DEF SmChosen
            <4>3. SmContract!LeaveInterrupt
                BY <3>1, <3>3, <4>1, <4>2, <1>1, <1>4 DEF SmContract!LeaveInterrupt
            <4> QED BY <4>3 DEF SmContract!ContractNext
        <3> QED BY <3>2, <3>3
    <2> QED BY <2>8, <2>9
<1> QED BY <1>9, <1>10

LEMMA SmThreadExitsSeen ==
    ASSUME SmBootedInv, SmThreadExits
    PROVE  [SmContract!ContractNext]_(SmContract!contractVars)
PROOF
<1> DEFINE u == Exited(Hw, smCur)
<1>1. Where(smCur) = "zombie" /\ Install(u) /\ UNCHANGED <<smTsm, smRunning, smWanted>>
    BY DEF SmThreadExits, smKernel
<1>2. smCur \in DOMAIN smPc /\ smPc[smCur] = "zombie"
    BY <1>1 DEF Where
<1>3. smZombies = <<smCur>>
    BY <1>2, BootedIs, HwIs DEF SmEnding
<1>4. /\ SmHwInv(u) /\ u.task = smTask /\ u.active = Hw.active
      /\ \A i \in DOMAIN Hw.active : SmLevel(u, i) = SmLevel(Hw, i)
    BY <1>2, <1>3, BootedIs, ExitedIs, HwIs
<1> HIDE DEF u
<1>5. Hw' = u
    BY <1>1, <1>4, InstallIs DEF SmHwInv
<1>6. SmDepthOf(Hw') = SmDepthOf(Hw)
    BY <1>4, <1>5, DepthSame
<1>7. smTask' = smTask /\ SmHeld(Hw', smTsm') = SmHeld(Hw, smTsm)
    BY <1>1, <1>4, <1>5, HwIs DEF SmHeld
<1> QED BY <1>1, <1>6, <1>7, DepthIs, SmUnseen

\* The steps of the dispatcher.
LEMMA SmDispatcherSeen ==
    ASSUME SmBootedInv, SmBootedInv',
           SmDispatchEnter \/ SmChoose \/ SmDispatchLeave \/ SmSetTask
    PROVE  [SmContract!ContractNext]_(SmContract!contractVars)
PROOF
<1> DEFINE n == Len(smActive)
<1>1. InHandler /\ Where(smCur) \in {"enter", "choose", "leave", "set"}
    BY DEF SmDispatchEnter, SmChoose, SmDispatchLeave, SmSetTask
<1>2. /\ n \in DOMAIN smActive /\ smCur = smActive[n].id /\ smCur \in DOMAIN smPc
      /\ SmLevel(Hw, n) = Where(smCur)
      /\ \A i \in DOMAIN smActive : smActive[i].line = SimDispatch /\ i <= n
    <2>1. /\ n \in DOMAIN smActive /\ smCur = smActive[n].id /\ smCur \in DOMAIN smPc
          /\ SmLevel(Hw, n) = Where(smCur) /\ DOMAIN smActive = 1 .. n /\ n \in Nat \ {0}
          /\ \A i \in DOMAIN smActive : smActive[i].line = SimDispatch
        BY <1>1, DispatcherIs
    <2> QED BY <2>1
<1> HIDE DEF n
<1>3. SmHwInv(Hw) /\ SmHwInv(Hw') /\ SmDepth \in Nat /\ SmDepth' \in Nat
    BY DepthIs, DepthType, BootedIs DEF SmBootedInv, SmTypes
<1>4. /\ SmDepth \in {0, 1}
      /\ Where(smCur) \in {"choose", "leave", "set"} => SmDepth = 1
    <2>1. n \in DOMAIN Hw.active /\ \A i \in DOMAIN Hw.active : Hw.active[i].line = SimDispatch /\ i <= n
        BY <1>2, HwIs
    <2>2. /\ SmLevel(Hw, n) \in {"choose", "leave", "set"} => SmDepthOf(Hw) = 1
          /\ SmDepthOf(Hw) \in {0, 1}
        BY <2>1, <1>3, DispatcherDepth
    <2> QED BY <2>2, <1>2, DepthIs
<1>5. ASSUME smActive' = smActive
      PROVE  /\ smPc'[smCur] \in {"choose", "leave", "set"} => SmDepth' = 1
             /\ smPc'[smCur] = "return" => SmDepth' = 0
    <2>1. /\ n \in DOMAIN Hw'.active
          /\ \A i \in DOMAIN Hw'.active : Hw'.active[i].line = SimDispatch /\ i <= n
        BY <1>2, <1>5, HwIs
    <2>2. SmLevel(Hw', n) = smPc'[smCur]
        BY <1>2, <1>5, HwIs DEF SmLevel
    <2>3. /\ SmLevel(Hw', n) \in {"choose", "leave", "set"} => SmDepthOf(Hw') = 1
          /\ SmLevel(Hw', n) = "return" => SmDepthOf(Hw') = 0
        BY <2>1, <1>3, DispatcherDepth
    <2> QED BY <2>2, <2>3, DepthIs
<1>6. CASE SmDispatchEnter
    <2>1. /\ smPc' = [smPc EXCEPT ![smCur] = "choose"]
          /\ UNCHANGED <<smActive, smTask, smTsm, smRunning, smWanted>>
        BY <1>6 DEF SmDispatchEnter, smKernel
    <2>2. SmDepth' = 1 /\ SmDepth' >= SmDepth
        BY <2>1, <1>2, <1>4, <1>5
    <2>3. SmHeld(Hw', smTsm') = SmHeld(Hw, smTsm)
        BY <2>1, HwIs DEF SmHeld
    <2> QED BY <2>1, <2>2, <2>3, SmTakes
<1>7. CASE SmChoose
    <2>1. /\ Where(smCur) = "choose" /\ smPc' = [smPc EXCEPT ![smCur] = "leave"]
          /\ smRunning' \in IF smReady = {} THEN {NoTask} ELSE smReady
          /\ smWanted' = FALSE /\ UNCHANGED <<smActive, smTask, smTsm>>
        BY <1>7 DEF SmChoose
    <2>2. SmDepth = 1 /\ SmDepth' = 1
        BY <2>1, <1>2, <1>4, <1>5
    <2>3. SmStarted' <=> SmStarted
        BY <2>1 DEF SmStarted
    <2>4. CASE ~SmStarted
        BY <2>1, <2>4, SmNotStarted
    <2>5. CASE SmStarted
        <3>1. SmThread' = SmThread /\ SmThread # "boot"
            BY <2>1, <2>3, <2>5, SmSeen DEF SmThread
        <3>2. smRunning' \in Tasks \cup {NoTask}
            BY DEF SmBootedInv, SmTypes
        <3>3. SmContract!Choose
            BY <2>1, <2>2, <2>3, <2>5, <3>1, <3>2 DEF SmContract!Choose, SmContract!Threads
        <3> QED BY <3>3 DEF SmContract!ContractNext
    <2> QED BY <2>4, <2>5
<1>8. CASE SmDispatchLeave
    <2> DEFINE u == [Hw EXCEPT !.lock = FALSE, !.pc[smCur] = "set"]
    <2>1. Preempted(u) /\ UNCHANGED <<smTsm, smRunning, smWanted>>
        BY <1>8 DEF SmDispatchLeave, smKernel
    <2>2. /\ SmHwInv(u) /\ u.active = Hw.active /\ u.task = Hw.task
          /\ \A i \in DOMAIN Hw.active : SmLevel(u, i) = IF i = n THEN "set" ELSE SmLevel(Hw, i)
        BY <1>8, DispatchLeaveIs DEF n
    <2> HIDE DEF u
    <2>3. /\ n \in DOMAIN u.active /\ SmLevel(u, n) = "set"
          /\ \A i \in DOMAIN u.active : u.active[i].line = SimDispatch /\ i <= n
        BY <2>2, <1>2, HwIs
    <2>4. SmDepthOf(u) = 1
        BY <2>2, <2>3, DispatcherDepth
    <2>5. SmDepthOf(u) >= SmDepth
        BY <2>4, <1>4
    <2> QED BY <2>1, <2>2, <2>5, SmActivates, HwIs
<1>9. CASE SmSetTask
    <2>1. /\ Where(smCur) = "set" /\ smTask' = smRunning
          /\ smTsm' = IF smRunning = NoTask THEN smTsm ELSE [smTsm EXCEPT ![smRunning] = "Running"]
          /\ smPc'[smCur] = "return"
          /\ UNCHANGED <<smActive, smRunning, smWanted>>
        BY <1>2, <1>9 DEF SmSetTask, smKernel
    <2>2. SmDepth = 1 /\ SmDepth' = 0
        BY <2>1, <1>4, <1>5
    <2>3. smRunning \in Tasks \cup {NoTask} /\ smTsm \in [Tasks -> {"Uninit", "Dormant", "Running"}]
          /\ smWanted \in BOOLEAN
        BY BootedIs
    <2>4. smRunning # BootThread
        BY <2>3, SimAssumption DEF BootThread
    <2>5. SmStarted' /\ SmThread' = smRunning
        BY <2>1, <2>3, <2>4, TasksAssumption DEF SmStarted, SmThread
    <2>6. CASE SmStarted
        <3>1. SmContract!Switch
            BY <2>1, <2>2, <2>5, <2>6 DEF SmContract!Switch
        <3> QED BY <3>1 DEF SmContract!ContractNext
    <2>7. CASE ~SmStarted
        <3>1. SmThread = "boot"
            BY <2>7 DEF SmThread
        <3>2. SmContract!Start
            BY <2>1, <2>2, <2>3, <2>5, <2>7, <3>1 DEF SmContract!Start, SmContract!Threads
        <3> QED BY <3>2 DEF SmContract!ContractNext
    <2> QED BY <2>6, <2>7
<1> QED BY <1>6, <1>7, <1>8, <1>9

LEMMA SmContractStep ==
    ASSUME SmInv, [SmNext]_smVars
    PROVE  [SmContract!ContractNext]_(SmContract!contractVars)
PROOF
<1>1. CASE UNCHANGED smVars
    <2>1. UNCHANGED <<smActive, smPc, smTask, smTsm, smRunning, smWanted>>
        BY <1>1 DEF smVars, smHardware, smKernel
    <2>2. SmDepthOf(Hw') = SmDepthOf(Hw)
        BY <2>1, DepthSame, HwIs DEF SmLevel
    <2>3. SmDepth' = SmDepth
        BY <2>2, DepthIs
    <2> QED BY <2>1, <2>3 DEF SmContract!contractVars, SmThread, SmStarted
<1>2. CASE SmNext /\ SmInit
    <2>1. smTask' = smTask
        BY <1>2, SmInitStep DEF SmInv
    <2>2. ~SmStarted
        BY <1>2 DEF SmInit, SmStarted
    <2> QED BY <2>1, <2>2, SmNotStarted
<1>3. CASE SmNext /\ SmBootedInv
    <2>1. SmBootedInv'
        BY <1>3, SmBootedStep
    <2>2. \A active, enabled : ~SmDispatchFirstTask(active, enabled)
        BY <1>3 DEF SmBootedInv, SmBooted, SmDispatchFirstTask
    <2>3. CASE \/ SmEnterCpuLock \/ SmLeaveCpuLock
               \/ \E l \in SimDevices : \/ SmPendLine(l)
                                        \/ \E enable, pended \in BOOLEAN : SmConfigure(l, enable, pended)
        BY <1>3, <2>3, SmCodeSeen
    <2>4. CASE SmYieldCpu
        BY <1>3, <2>4, SmYieldCpuSeen
    <2>5. CASE \E t \in Tasks : SmActivate(t) \/ SmExit(t) \/ SmExitYield(t)
        BY <1>3, <2>5, SmTaskSeen
    <2>6. CASE SmHandlerReturns \/ SmThreadExits
        BY <1>3, <2>6, SmHandlerReturnsSeen, SmThreadExitsSeen
    <2>7. CASE SmDispatchEnter \/ SmChoose \/ SmDispatchLeave \/ SmSetTask
        BY <1>3, <2>1, <2>7, SmDispatcherSeen
    <2> QED BY <1>3, <2>2, <2>3, <2>4, <2>5, <2>6, <2>7 DEF SmNext
<1> QED BY <1>1, <1>2, <1>3 DEF SmInv

\* The simulator port keeps the contract the kernel is written against: what it
\* does with threads and handlers is what the ports for real hardware do.
THEOREM SimKeepsContract == SmSpec => SmKeepsContract
PROOF
<1>1. SmInit => SmContract!ContractInit
    BY DEF SmInit, SmContract!ContractInit, SmThread, SmStarted
<1>2. SmInv /\ [SmNext]_smVars => [SmContract!ContractNext]_(SmContract!contractVars)
    BY SmContractStep
<1> QED BY <1>1, <1>2, SmInvariant, PTL DEF SmSpec, SmKeepsContract, SmContract!ContractSpec
=============================================================================
