----------------------------- MODULE Structures -----------------------------
(***************************************************************************)
(* The data structures under the kernel: circular intrusive lists          *)
(* (utils/intrusive_list.rs), the bitmap of priorities with its two levels *)
(* (prio_bitmap.rs) and the count of trailing zeros each target uses       *)
(* (ctz.rs), the ready queue (task/readyqueue.rs) and a wait queue         *)
(* (wait.rs) built from them, the binary heap of timeouts with position    *)
(* tracking (r3_core/src/utils/binary_heap), and the sort of startup hooks *)
(* and interrupt handlers (r3_core/src/utils/sort.rs).                     *)
(*                                                                         *)
(* Sched and Timeout take these for sequences and sets; here they are      *)
(* compared with them.                                                     *)
(***************************************************************************)
EXTENDS Integers, Sequences, FiniteSets, SequencesExt

CONSTANTS StTasks,     \* tasks, positive numbers
          WordLen,     \* bits in a Word of the bitmap
          Groups,      \* words in the second level of the bitmap
          Arrival,     \* the arrival time of each timeout
          BitmapLens,  \* sizes of a one-level bitmap
          MaxOnes      \* bound: bits set in a one-level bitmap

VARIABLES
    stPart,     \* which structure this behaviour uses, and its configuration
    stPrio,     \* TaskCb::effective_priority
    stReady,    \* BitmapQueue::queues and the links of the tasks
    stBits,     \* BitmapQueue::bitmap, two levels
    stWaits,    \* WaitQueue::waits and the links of the Waits
    stHeap,     \* TimeoutGlobals::heap
    stPos,      \* Timeout::heap_pos
    stWord,     \* OneLevelPrioBitmapImpl::bits
    stVec,      \* a slice to be sorted
    stQueues,   \* history: the ready queues as sequences
    stOrder     \* history: the wait queue as a sequence

stVars == <<stPart, stPrio, stReady, stBits, stWaits, stHeap, stPos, stWord, stVec,
            stQueues, stOrder>>

StPrio == 0 .. WordLen * Groups - 1
Timeouts == DOMAIN Arrival
Nil == 0

-----------------------------------------------------------------------------
(* Intrusive lists.  A list is a head and the links of all that may be in  *)
(* it; l[q] is the first element of the list q.                            *)

Unlinked == [prev |-> Nil, next |-> Nil]
NoLists(heads) == [first |-> [q \in heads |-> Nil], link |-> [t \in StTasks |-> Unlinked]]

ListFront(l, q) == l.first[q]
ListBack(l, q) == IF l.first[q] = Nil THEN Nil ELSE l.link[l.first[q]].prev
NextItem(l, q, x) == IF l.link[x].next = l.first[q] THEN Nil ELSE l.link[x].next
PrevItem(l, q, x) == IF l.first[q] = x THEN Nil ELSE l.link[x].prev

\* Mutant: an insertion before the first element does not move the head.
InsertItemBehindHead(l, q, x, at) ==
    LET next == IF at = Nil THEN l.first[q] ELSE at
        prev == l.link[next].prev
    IN IF l.first[q] = Nil
       THEN [first |-> [l.first EXCEPT ![q] = x], link |-> [l.link EXCEPT ![x] = [prev |-> x, next |-> x]]]
       ELSE [l EXCEPT !.link = [[@ EXCEPT ![prev].next = x, ![next].prev = x]
                                   EXCEPT ![x] = [prev |-> prev, next |-> next]]]

\* insert: before `at`, or at the back.
InsertItem(l, q, x, at) ==
    LET next == IF at = Nil THEN l.first[q] ELSE at
        prev == l.link[next].prev
    IN IF l.first[q] = Nil
       THEN [first |-> [l.first EXCEPT ![q] = x], link |-> [l.link EXCEPT ![x] = [prev |-> x, next |-> x]]]
       ELSE [first |-> IF at = l.first[q] THEN [l.first EXCEPT ![q] = x] ELSE l.first,
             link  |-> [[l.link EXCEPT ![prev].next = x, ![next].prev = x]
                           EXCEPT ![x] = [prev |-> prev, next |-> next]]]

PushBack(l, q, x) == InsertItem(l, q, x, Nil)

\* Mutant: the head is not moved off the element that is removed.
RemoveItemAtHead(l, q, x) ==
    LET link == l.link[x]
    IN IF l.first[q] = x /\ link.next = x
       THEN [first |-> [l.first EXCEPT ![q] = Nil], link |-> [l.link EXCEPT ![x] = Unlinked]]
       ELSE [l EXCEPT !.link = [[@ EXCEPT ![link.prev].next = link.next, ![link.next].prev = link.prev]
                                   EXCEPT ![x] = Unlinked]]

\* remove: the head moves on if it is removed, and becomes empty with the last.
RemoveItem(l, q, x) ==
    LET link == l.link[x]
        rest == IF link.next = x THEN Nil ELSE link.next
    IN [first |-> IF l.first[q] = x THEN [l.first EXCEPT ![q] = rest] ELSE l.first,
        link  |-> [[l.link EXCEPT ![link.prev].next = link.next, ![link.next].prev = link.prev]
                      EXCEPT ![x] = Unlinked]]

PopFront(l, q) == RemoveItem(l, q, ListFront(l, q))

-----------------------------------------------------------------------------
(* The bitmap of priorities; a word is the set of its bits. *)

\* Mutant: the group is taken for empty when its first bit is cleared.
BitmapClearFirst(b, i) ==
    LET group == b.second[i \div WordLen] \ {i % WordLen}
    IN [first  |-> IF 0 \notin group THEN b.first \ {i \div WordLen} ELSE b.first,
        second |-> [b.second EXCEPT ![i \div WordLen] = group]]

BitmapClear(b, i) ==
    LET group == b.second[i \div WordLen] \ {i % WordLen}
    IN [first  |-> IF group = {} THEN b.first \ {i \div WordLen} ELSE b.first,
        second |-> [b.second EXCEPT ![i \div WordLen] = group]]

BitmapSet(b, i) ==
    [first  |-> b.first \cup {i \div WordLen},
     second |-> [b.second EXCEPT ![i \div WordLen] = @ \cup {i % WordLen}]]

\* find_set, or the default the caller gives to unwrap_or
BitmapFindSet(b, default) ==
    IF b.first = {} THEN default
    ELSE LET group == Min(b.first) IN Min(b.second[group]) + group * WordLen

-----------------------------------------------------------------------------
(* The ready queue *)

StLinked(l, t) == l.link[t] # Unlinked

\* push_back_task
StPushBackTask(t) ==
    /\ stPart.kind = "queues" /\ ~StLinked(stReady, t) /\ ~StLinked(stWaits, t)
    /\ stReady' = PushBack(stReady, stPrio[t], t)
    /\ stBits' = BitmapSet(stBits, stPrio[t])
    /\ stQueues' = [stQueues EXCEPT ![stPrio[t]] = Append(@, t)]
    /\ UNCHANGED <<stPart, stPrio, stWaits, stHeap, stPos, stWord, stVec, stOrder>>

\* Mutant: the bit is cleared with the first task of the queue.
StPopFrontTaskAll(prev) ==
    LET next == BitmapFindSet(stBits, WordLen * Groups)
    IN /\ stPart.kind = "queues" /\ prev > next /\ next \in StPrio
       /\ stReady' = PopFront(stReady, next)
       /\ stBits' = BitmapClear(stBits, next)
       /\ stQueues' = [stQueues EXCEPT ![next] = Tail(@)]
       /\ UNCHANGED <<stPart, stPrio, stWaits, stHeap, stPos, stWord, stVec, stOrder>>

\* pop_front_task that finds a task of a higher priority than prev, which is
\* above all priorities when no task is running
StPopFrontTask(prev) ==
    LET next == BitmapFindSet(stBits, WordLen * Groups)
    IN /\ stPart.kind = "queues" /\ prev > next /\ next \in StPrio
       /\ stReady' = PopFront(stReady, next)
       /\ stBits' = IF ListFront(stReady', next) = Nil THEN BitmapClear(stBits, next) ELSE stBits
       /\ stQueues' = [stQueues EXCEPT ![next] = Tail(@)]
       /\ UNCHANGED <<stPart, stPrio, stWaits, stHeap, stPos, stWord, stVec, stOrder>>

\* reorder_task, after the effective priority has become p
StReorderTask(t, p) ==
    LET old == stPrio[t]
        taken == RemoveItem(stReady, old, t)
        marked == BitmapSet(stBits, p)
    IN /\ stReady' = PushBack(taken, p, t)
       /\ stBits' = IF ListFront(taken, old) = Nil THEN BitmapClear(marked, old) ELSE marked
       /\ stQueues' = [stQueues EXCEPT ![old] = SelectSeq(@, LAMBDA u : u # t), ![p] = Append(@, t)]
       /\ UNCHANGED <<stWaits, stOrder>>

-----------------------------------------------------------------------------
(* A wait queue ordered by priority, and one in order of arrival *)

WaitHead == "waits"

\* find_insertion_position_by_task_priority: the backward scan from cursor
RECURSIVE InsertionItem(_, _, _, _)
InsertionItem(l, prio, p, at) ==
    LET cursor == IF at = Nil THEN ListBack(l, WaitHead) ELSE PrevItem(l, WaitHead, at)
    IN IF cursor # Nil /\ prio[cursor] > p THEN InsertionItem(l, prio, p, cursor) ELSE at

EnqueueItem(l, prio, t) ==
    InsertItem(l, WaitHead, t, IF stPart.fifo THEN Nil ELSE InsertionItem(l, prio, prio[t], Nil))

\* What the scan is for: behind all whose priority is not lower.
EnqueueSeq(s, prio, t) ==
    IF stPart.fifo THEN Append(s, t)
    ELSE LET Before(u) == prio[u] <= prio[t]
             After(u) == ~Before(u)
         IN SelectSeq(s, Before) \o <<t>> \o SelectSeq(s, After)

StOnlyWaits == UNCHANGED <<stPart, stPrio, stReady, stBits, stHeap, stPos, stWord, stVec, stQueues>>

\* WaitQueue::wait links the Wait of t.
StWait(t) ==
    /\ stPart.kind = "queues" /\ ~StLinked(stReady, t) /\ ~StLinked(stWaits, t)
    /\ stWaits' = EnqueueItem(stWaits, stPrio, t)
    /\ stOrder' = EnqueueSeq(stOrder, stPrio, t)
    /\ StOnlyWaits

\* wake_up_one
StWakeUpOne ==
    /\ stPart.kind = "queues" /\ ListFront(stWaits, WaitHead) # Nil
    /\ stWaits' = PopFront(stWaits, WaitHead)
    /\ stOrder' = Tail(stOrder)
    /\ StOnlyWaits

\* interrupt_task and the timeout of a wait unlink it wherever it is.
StUnlinkWait(t) ==
    /\ stPart.kind = "queues" /\ StLinked(stWaits, t)
    /\ stWaits' = RemoveItem(stWaits, WaitHead, t)
    /\ stOrder' = SelectSeq(stOrder, LAMBDA u : u # t)
    /\ StOnlyWaits

\* Mutant: the next element is looked up after the removal.
RECURSIVE WakeSatisfiedLate(_, _, _)
WakeSatisfiedLate(l, cur, satisfied) ==
    IF cur = Nil THEN l
    ELSE LET left == IF cur \in satisfied THEN RemoveItem(l, WaitHead, cur) ELSE l
             next == NextItem(left, WaitHead, cur)
         IN WakeSatisfiedLate(left, next, satisfied)

\* The loop of wake_up_all_conditional from cur on: it finds the next element
\* before it removes this one.
RECURSIVE WakeSatisfied(_, _, _)
WakeSatisfied(l, cur, satisfied) ==
    IF cur = Nil THEN l
    ELSE LET next == NextItem(l, WaitHead, cur)
             left == IF cur \in satisfied THEN RemoveItem(l, WaitHead, cur) ELSE l
         IN WakeSatisfied(left, next, satisfied)

\* wake_up_all_conditional with a condition that holds for `satisfied`
StWakeUpAllConditional(satisfied) ==
    /\ stPart.kind = "queues"
    /\ stWaits' = WakeSatisfied(stWaits, ListFront(stWaits, WaitHead), satisfied)
    /\ stOrder' = SelectSeq(stOrder, LAMBDA u : u \notin satisfied)
    /\ StOnlyWaits

\* reorder_wait: taken out and inserted under the new priority.
StReorderWait(t, p) ==
    LET prio == [stPrio EXCEPT ![t] = p]
    IN /\ IF stPart.fifo THEN UNCHANGED <<stWaits, stOrder>>
          ELSE /\ stWaits' = EnqueueItem(RemoveItem(stWaits, WaitHead, t), prio, t)
               /\ stOrder' = EnqueueSeq(SelectSeq(stOrder, LAMBDA u : u # t), prio, t)
       /\ UNCHANGED <<stReady, stBits, stQueues>>

\* The effective priority of a task changes, which moves it where it is queued.
StSetPriority(t, p) ==
    /\ stPart.kind = "queues" /\ p # stPrio[t]
    /\ stPrio' = [stPrio EXCEPT ![t] = p]
    /\ \/ StLinked(stReady, t) /\ StReorderTask(t, p)
       \/ StLinked(stWaits, t) /\ StReorderWait(t, p)
       \/ /\ ~StLinked(stReady, t) /\ ~StLinked(stWaits, t)
          /\ UNCHANGED <<stReady, stBits, stQueues, stWaits, stOrder>>
    /\ UNCHANGED <<stPart, stHeap, stPos, stWord, stVec>>

-----------------------------------------------------------------------------
(* The binary heap, whose indices begin at 1 here.  on_move writes the new *)
(* index of an element to its heap_pos.                                    *)

HeapLt(x, y) == Arrival[x] < Arrival[y]
HeapParent(i) == i \div 2
Moved(h, x, i) == [vec |-> [h.vec EXCEPT ![i] = x], pos |-> [h.pos EXCEPT ![x] = i]]

\* sift_up: x rises from the hole at i past the elements it is less than.
RECURSIVE SiftUp(_, _, _)
SiftUp(h, x, i) ==
    IF i > 1 /\ HeapLt(x, h.vec[HeapParent(i)])
    THEN SiftUp(Moved(h, h.vec[HeapParent(i)], i), x, HeapParent(i))
    ELSE Moved(h, x, i)

\* Mutant: the first child is taken for the lesser one.
RECURSIVE SiftDownLeft(_, _, _)
SiftDownLeft(h, x, i) ==
    LET child == 2 * i
    IN IF child <= Len(h.vec) /\ HeapLt(h.vec[child], x)
       THEN SiftDownLeft(Moved(h, h.vec[child], i), x, child)
       ELSE Moved(h, x, i)

\* sift_down: x sinks from the hole at i along the lesser children.
RECURSIVE SiftDown(_, _, _)
SiftDown(h, x, i) ==
    LET left == 2 * i
        right == left + 1
        child == IF right <= Len(h.vec) /\ ~HeapLt(h.vec[left], h.vec[right]) THEN right ELSE left
    IN IF left <= Len(h.vec) /\ HeapLt(h.vec[child], x)
       THEN SiftDown(Moved(h, h.vec[child], i), x, child)
       ELSE Moved(h, x, i)

HeapPush(h, x) == SiftUp([h EXCEPT !.vec = Append(@, x)], x, Len(h.vec) + 1)

\* Mutant: what fills the gap only ever sinks.
HeapRemoveSink(h, i) ==
    LET x == Last(h.vec)
        rest == [h EXCEPT !.vec = SubSeq(@, 1, Len(@) - 1)]
    IN IF i = Len(h.vec) THEN rest ELSE SiftDown(Moved(rest, x, i), x, i)

\* heap_remove: the last element fills the gap at i and rises or sinks from it.
HeapRemove(h, i) ==
    LET x == Last(h.vec)
        rest == [h EXCEPT !.vec = SubSeq(@, 1, Len(@) - 1)]
        filled == Moved(rest, x, i)
    IN IF i = Len(h.vec) THEN rest
       ELSE IF i > 1 /\ HeapLt(x, rest.vec[HeapParent(i)]) THEN SiftUp(filled, x, i)
       ELSE SiftDown(filled, x, i)

StHeap == [vec |-> stHeap, pos |-> stPos]
StOnlyHeap == UNCHANGED <<stPart, stPrio, stReady, stBits, stWaits, stWord, stVec, stQueues, stOrder>>

\* insert_timeout
StInsertTimeout(x) ==
    LET h == HeapPush(StHeap, x)
    IN /\ stPart.kind = "heap" /\ stPos[x] = Nil
       /\ stHeap' = h.vec /\ stPos' = h.pos
       /\ StOnlyHeap

\* remove_timeout of a linked one, and the removal of the earliest one in
\* handle_tick: by the position on record, which is reset.
StRemoveTimeout(x) ==
    LET h == HeapRemove(StHeap, stPos[x])
    IN /\ stPart.kind = "heap" /\ stPos[x] # Nil
       /\ stHeap' = h.vec /\ stPos' = [h.pos EXCEPT ![x] = Nil]
       /\ StOnlyHeap

-----------------------------------------------------------------------------
(* Counting trailing zeros.  A target has an instruction for it or not, a  *)
(* multiplier, a barrel shifter, and fast loads.                           *)

Target(ctz, mul, shifter, load) == [ctz |-> ctz, mul |-> mul, shifter |-> shifter, load |-> load]
ArmV6M == Target(FALSE, TRUE, TRUE, TRUE)
RiscvM == Target(FALSE, TRUE, TRUE, FALSE)
RiscvE == Target(FALSE, FALSE, TRUE, FALSE)
Msp430 == Target(FALSE, FALSE, FALSE, TRUE)
Native == Target(TRUE, TRUE, TRUE, FALSE)
Targets == {ArmV6M, RiscvM, RiscvE, Msp430, Native}

UsizeBits == 32
Bit(x, i) == (x \div 2^i) % 2 = 1
FirstSetBit(x) == CHOOSE i \in 0 .. UsizeBits - 2 : Bit(x, i) /\ \A j \in 0 .. i - 1 : ~Bit(x, j)

\* The instruction, LLVM's emulation of it, and a table made with it.
CtzNative(x) == IF x = 0 THEN UsizeBits ELSE FirstSetBit(x)

\* ctz2
Ctz2(x) == 1 - (x % 2)

\* A table of two bits per entry in a word, shifted left by 2 * x and then right
\* by 30: the lookups of ctz3_lut_nonzero and ctz4_lut_nonzero.
Ctz4Table == 75809924    \* 0b01_00_10_00_01_00_11_00_01_00_10_00_01_00
Ctz4Lut(x) == (Ctz4Table \div 2^(30 - 2 * x)) % 4

Ctz3Table == 75759616    \* 0b01_00_10_00_01_00_0000_0000_0000_0000
Ctz3Lut(x) == (Ctz3Table \div 2^(30 - 2 * x)) % 4

\* ctz8_debruijn: the lowest bit times the sequence selects one of the nibbles.
DeBruijnTable == 878126608    \* 0b0011_0100_0101_0111_0010_0110_0001_0000
Ctz8DeBruijn(x) ==
    LET pat == ((2^FirstSetBit(x) * 29) \div 32) % 8
    IN (DeBruijnTable \div 2^(4 * pat)) % 8

\* ctz_linear
CtzLinear(bits, x) == Min({i \in 0 .. bits - 1 : Bit(x, i)} \cup {UsizeBits})

\* Mutant: the second step looks at four bits and skips eight.
CtzBsearchShort(target, bits, x) ==
    LET s16 == IF bits > 16 /\ x % 65536 = 0 THEN 16 ELSE 0
        s8  == IF bits > 8 /\ (x \div 2^s16) % 16 = 0 THEN s16 + 8 ELSE s16
        s4  == IF bits > 4 /\ (x \div 2^s8) % 16 = 0 THEN s8 + 4 ELSE s8
        rest == (x \div 2^s4) % 16
    IN s4 + (IF target.load THEN CtzNative(rest) ELSE Ctz4Lut(rest))

\* ctz_bsearch32: halves of 16, 8 and 4 bits are skipped while they are zero.
CtzBsearch(target, bits, x) ==
    LET s16 == IF bits > 16 /\ x % 65536 = 0 THEN 16 ELSE 0
        s8  == IF bits > 8 /\ (x \div 2^s16) % 256 = 0 THEN s16 + 8 ELSE s16
        s4  == IF bits > 4 /\ (x \div 2^s8) % 16 = 0 THEN s8 + 4 ELSE s8
        rest == (x \div 2^s4) % 16
    IN s4 + (IF target.load THEN CtzNative(rest) ELSE Ctz4Lut(rest))

\* trailing_zeros: the choice among them, each of which begins with a test for zero
TrailingZeros(target, bits, x) ==
    IF bits = 0 \/ x = 0 THEN UsizeBits
    ELSE IF bits = 1 THEN 0
    ELSE IF target.ctz \/ (bits \in 2 .. 4 /\ target.load) THEN CtzNative(x)
    ELSE IF bits <= 2 THEN Ctz2(x)
    ELSE IF bits <= 3 /\ target.shifter THEN Ctz3Lut(x)
    ELSE IF bits <= 4 /\ target.shifter THEN Ctz4Lut(x)
    ELSE IF bits <= 8 /\ target.mul /\ target.shifter THEN Ctz8DeBruijn(x)
    ELSE IF bits > 16 /\ target.mul /\ target.shifter THEN CtzNative(x)
    ELSE IF target.shifter THEN CtzBsearch(target, bits, x)
    ELSE CtzLinear(bits, x)

\* set and clear of a one-level bitmap
StToggle(i) ==
    /\ stPart.kind = "word" /\ i < stPart.len
    /\ stWord' = IF Bit(stWord, i) THEN stWord - 2^i ELSE stWord + 2^i
    /\ Cardinality({j \in 0 .. stPart.len - 1 : Bit(stWord', j)}) <= MaxOnes
    /\ UNCHANGED <<stPart, stPrio, stReady, stBits, stWaits, stHeap, stPos, stVec, stQueues, stOrder>>

-----------------------------------------------------------------------------
(* slice_sort_unstable_by, a heap sort.  Elements are pairs of a priority  *)
(* and the order of registration.                                          *)

SortLess(x, y) == x[1] < y[1] \/ (x[1] = y[1] /\ x[2] < y[2])
Swapped(v, i, j) == [v EXCEPT ![i] = v[j], ![j] = v[i]]

\* sift_down over the first n elements
RECURSIVE SortSift(_, _, _)
SortSift(v, n, node) ==
    LET left == 2 * node
        right == left + 1
        greater == IF right <= n /\ SortLess(v[left], v[right]) THEN right ELSE left
    IN IF greater > n \/ ~SortLess(v[node], v[greater]) THEN v
       ELSE SortSift(Swapped(v, node, greater), n, greater)

\* The heap is built from its lower half up.
BuildHeap(v) ==
    FoldLeft(LAMBDA u, i : SortSift(u, Len(v), i), v, Reverse([i \in 1 .. Len(v) \div 2 |-> i]))

\* Mutant: the last swap leaves the first two elements to luck.
SortedSliceShort(v) ==
    IF Len(v) < 3 THEN v ELSE
    FoldLeft(LAMBDA u, n : SortSift(Swapped(u, 1, n), n - 1, 1), BuildHeap(v),
             Reverse([i \in 1 .. Len(v) - 2 |-> i + 2]))

\* Greatest elements go to the back one after the other.
SortedSlice(v) ==
    IF Len(v) < 2 THEN v ELSE
    FoldLeft(LAMBDA u, n : SortSift(Swapped(u, 1, n), n - 1, 1), BuildHeap(v),
             Reverse([i \in 1 .. Len(v) - 1 |-> i + 1]))

\* define_hook or define_interrupt_handler adds an element.
StDefine(key) ==
    /\ stPart.kind = "sort" /\ Len(stVec) < Cardinality(StTasks) + 2
    /\ stVec' = Append(stVec, <<key, Len(stVec) + 1>>)
    /\ UNCHANGED <<stPart, stPrio, stReady, stBits, stWaits, stHeap, stPos, stWord, stQueues, stOrder>>

-----------------------------------------------------------------------------
StInit ==
    /\ stPart \in [kind : {"queues"}, fifo : BOOLEAN] \cup [kind : {"heap", "sort"}]
                  \cup [kind : {"word"}, len : BitmapLens, target : Targets]
    /\ stPrio = [t \in StTasks |-> 0]
    /\ stReady = NoLists(StPrio) /\ stWaits = NoLists({WaitHead})
    /\ stBits = [first |-> {}, second |-> [g \in 0 .. Groups - 1 |-> {}]]
    /\ stHeap = <<>> /\ stPos = [x \in Timeouts |-> Nil]
    /\ stWord = 0 /\ stVec = <<>>
    /\ stQueues = [p \in StPrio |-> <<>>] /\ stOrder = <<>>

StNext ==
    \/ \E t \in StTasks : StPushBackTask(t) \/ StWait(t) \/ StUnlinkWait(t)
    \/ \E t \in StTasks, p \in StPrio : StSetPriority(t, p)
    \/ \E p \in StPrio \cup {WordLen * Groups + 1} : StPopFrontTask(p)
    \/ StWakeUpOne
    \/ \E satisfied \in SUBSET StTasks : StWakeUpAllConditional(satisfied)
    \/ \E x \in Timeouts : StInsertTimeout(x) \/ StRemoveTimeout(x)
    \/ \E i \in 0 .. Max(BitmapLens) - 1 : StToggle(i)
    \/ \E key \in 0 .. 2 : StDefine(key)

-----------------------------------------------------------------------------
(* Walked forwards and backwards, the links of q show the sequence s. *)
LinksShow(l, q, s) ==
    /\ ListFront(l, q) = (IF s = <<>> THEN Nil ELSE s[1])
    /\ ListBack(l, q) = (IF s = <<>> THEN Nil ELSE Last(s))
    /\ \A i \in DOMAIN s :
          /\ NextItem(l, q, s[i]) = (IF i = Len(s) THEN Nil ELSE s[i + 1])
          /\ PrevItem(l, q, s[i]) = (IF i = 1 THEN Nil ELSE s[i - 1])

\* Links, bitmap and sequences agree, and exactly what is in a list is linked.
QueuesShown ==
    /\ \A p \in StPrio : LinksShow(stReady, p, stQueues[p])
    /\ \A p \in StPrio :
          (stQueues[p] # <<>>) <=> (p % WordLen \in stBits.second[p \div WordLen])
    /\ \A g \in 0 .. Groups - 1 : g \in stBits.first <=> stBits.second[g] # {}
    /\ LinksShow(stWaits, WaitHead, stOrder)
    /\ \A t \in StTasks : /\ StLinked(stWaits, t) <=> t \in ToSet(stOrder)
                         /\ StLinked(stReady, t) <=> t \in ToSet(stQueues[stPrio[t]])

\* No timeout is earlier than its parent, so that the top is an earliest one,
\* and each knows its position.
HeapOrdered ==
    /\ \A i \in 2 .. Len(stHeap) : ~HeapLt(stHeap[i], stHeap[HeapParent(i)])
    /\ \A x \in Timeouts : stPos[x] # Nil => stPos[x] <= Len(stHeap) /\ stHeap[stPos[x]] = x
    /\ \A i \in DOMAIN stHeap : stPos[stHeap[i]] = i

\* Whatever the target, the first bit of a bitmap is found.
ZerosCounted ==
    TrailingZeros(stPart.target, stPart.len, stWord) = CtzNative(stWord)

\* Sorting keeps every element and leaves no pair out of order.
SliceSorted ==
    LET sorted == SortedSlice(stVec)
    IN /\ Len(sorted) = Len(stVec) /\ ToSet(sorted) = ToSet(stVec)
       /\ \A i \in 2 .. Len(sorted) : SortLess(sorted[i - 1], sorted[i])

\* The structures are what the rest of the project takes them for: intrusive
\* lists under any insertion, removal and scan are sequences, the bitmap in
\* two levels and its count of trailing zeros give the first non-empty queue, the
\* heap has an earliest timeout on top and every timeout at the position on
\* record, and hooks and handlers are sorted.
StructuresExact ==
    CASE stPart.kind = "queues" -> QueuesShown
      [] stPart.kind = "heap" -> HeapOrdered
      [] stPart.kind = "word" -> ZerosCounted
      [] stPart.kind = "sort" -> SliceSorted
=============================================================================
