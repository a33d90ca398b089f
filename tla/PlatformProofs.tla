--------------------------- MODULE PlatformProofs ---------------------------
(***************************************************************************)
(* Proofs about what is below the kernel.                                  *)
(***************************************************************************)
EXTENDS Ums, Ports, RiscvProofs, SimProofs

-----------------------------------------------------------------------------
(* User-mode scheduling of the simulator *)

UmsTypes ==
  /\ umLock \in Workers \cup {NoWorker, Outside} /\ umCur \in Workers \cup {NoWorker}
  /\ umTokens \in [Workers -> Nat] /\ umPending \in [Workers -> Nat]
  /\ umLocal \in [Workers -> Nat] /\ umTicket \in Int
  /\ umFlag \in [Workers -> BOOLEAN] /\ umSignal \in [Workers -> BOOLEAN]
  /\ umHandler \in [Workers -> {"none", "entry", "test", "recv", "store", "clear"}]
  /\ umPc \in [Workers -> {"user", "lock", "next", "park", "final", "gone"}]
  /\ umOut \in {"idle", "request", "kill", "wait", "next"}

\* What the lock of the group guards.
UmsLocked ==
  /\ umLock = Outside <=> umOut # "idle"
  /\ umOut \in {"request", "kill", "wait"} => umCur # NoWorker
  /\ umCur # NoWorker => umPc[umCur] # "gone"
  /\ \A w \in Workers :
       /\ umLock = w => umPc[w] \in {"next", "final"} /\ umCur = w
       /\ umPc[w] = "next" => umLock = w

\* Where a thread is in its signal handler and what it has counted there.
UmsHandling ==
  \A w \in Workers :
    /\ umLocal[w] <= umPending[w]
    /\ umHandler[w] \in {"none", "entry", "clear"} => umLocal[w] = 0
    /\ umFlag[w] <=> umHandler[w] \in {"test", "recv", "store", "clear"}
    /\ umPc[w] = "gone" => umHandler[w] = "none" /\ umPending[w] = 0

\* A request the handler has not seen has a signal that is not delivered yet or a
\* handler that will look again, and holds up its sender if the thread is elsewhere.
UmsAnnounced ==
  /\ umOut \in {"kill", "wait"} => umPending[umCur] = umTicket + 1
  /\ \A w \in Workers :
       /\ umPending[w] > umLocal[w] =>
            \/ umSignal[w] \/ umHandler[w] \in {"entry", "test", "recv"}
            \/ umOut = "kill" /\ umCur = w
       /\ umHandler[w] = "none" /\ umPending[w] > 0 => umOut \in {"kill", "wait"} /\ umCur = w

\* The tokens a thread still has to take before it executes code of its own: one if
\* it has yielded, and one for every request.
Debt(w) == (IF umPc[w] \in {"park", "gone"} THEN 1 ELSE 0) + (umPending[w] - umLocal[w])
             + (IF umHandler[w] = "recv" THEN 1 ELSE 0)

\* Every thread but the current one is short of one token.
Behind(w) == umCur # w \/ umOut \in {"kill", "wait", "next"}
UmsBalanced == \A w \in Workers : Debt(w) = umTokens[w] + (IF Behind(w) THEN 1 ELSE 0)

UmsInv == UmsTypes /\ UmsLocked /\ UmsHandling /\ UmsAnnounced /\ UmsBalanced

\* A thread that executes code of its own, in the group or outside of it, is the
\* current one and not being preempted.
LEMMA UmsExecutes ==
  ASSUME UmsInv, NEW w \in Workers, umHandler[w] = "none", umPc[w] \notin {"park", "gone"},
         umOut \notin {"kill", "wait"} \/ umCur # w
  PROVE  umCur = w /\ umOut # "next" /\ umPending[w] = 0 /\ umTokens[w] = 0
<1>1. umPending[w] = 0 /\ umLocal[w] = 0
  BY DEF UmsInv, UmsTypes, UmsHandling, UmsAnnounced
<1>2. Debt(w) = 0
  BY <1>1 DEF Debt
<1>3. umTokens[w] \in Nat /\ Debt(w) = umTokens[w] + (IF Behind(w) THEN 1 ELSE 0)
  BY DEF UmsInv, UmsTypes, UmsBalanced
<1> QED
  BY <1>1, <1>2, <1>3 DEF Behind

LEMMA CallYieldKeeps ==
  ASSUME UmsInv, NEW w \in Workers, CallYield(w)
  PROVE  UmsInv'
<1> USE UmsAssumption DEF CallYield, Acts, umThreadVars
<1>1. UmsTypes'
  BY DEF UmsInv, UmsTypes
<1>2. UmsLocked'
  BY UmsExecutes DEF UmsInv, UmsTypes, UmsLocked
<1>3. UmsHandling'
  BY UmsExecutes DEF UmsInv, UmsTypes, UmsLocked, UmsHandling, UmsAnnounced
<1>4. UmsAnnounced'
  BY UmsExecutes DEF UmsInv, UmsTypes, UmsLocked, UmsHandling, UmsAnnounced
<1>5. UmsBalanced'
  BY UmsExecutes DEF UmsInv, UmsTypes, UmsLocked, UmsHandling, UmsBalanced, Debt, Behind
<1> QED
  BY <1>1, <1>2, <1>3, <1>4, <1>5 DEF UmsInv

LEMMA AcquireLockKeeps ==
  ASSUME UmsInv, NEW w \in Workers, AcquireLock(w)
  PROVE  UmsInv'
<1> USE UmsAssumption DEF AcquireLock, Acts, umThreadVars
<1>1. UmsTypes'
  BY DEF UmsInv, UmsTypes
<1>2. UmsLocked'
  BY UmsExecutes DEF UmsInv, UmsTypes, UmsLocked
<1>3. UmsHandling'
  BY UmsExecutes DEF UmsInv, UmsTypes, UmsLocked, UmsHandling, UmsAnnounced
<1>4. UmsAnnounced'
  BY UmsExecutes DEF UmsInv, UmsTypes, UmsLocked, UmsHandling, UmsAnnounced
<1>5. UmsBalanced'
  BY UmsExecutes DEF UmsInv, UmsTypes, UmsLocked, UmsHandling, UmsBalanced, Debt, Behind
<1> QED
  BY <1>1, <1>2, <1>3, <1>4, <1>5 DEF UmsInv

LEMMA YieldNowKeeps ==
  ASSUME UmsInv, NEW w \in Workers, YieldNow(w)
  PROVE  UmsInv'
<1> USE UmsAssumption DEF YieldNow, Acts, Unpark, UnparkNextThread, Live, umThreadVars
<1>1. UmsTypes'
  BY DEF UmsInv, UmsTypes
<1>2. UmsLocked'
  BY UmsExecutes DEF UmsInv, UmsTypes, UmsLocked
<1>3. UmsHandling'
  BY UmsExecutes DEF UmsInv, UmsTypes, UmsLocked, UmsHandling, UmsAnnounced
<1>4. UmsAnnounced'
  BY UmsExecutes DEF UmsInv, UmsTypes, UmsLocked, UmsHandling, UmsAnnounced
<1>5. UmsBalanced'
  BY UmsExecutes DEF UmsInv, UmsTypes, UmsLocked, UmsHandling, UmsBalanced, Debt, Behind
<1> QED
  BY <1>1, <1>2, <1>3, <1>4, <1>5 DEF UmsInv

LEMMA FinalizeThreadKeeps ==
  ASSUME UmsInv, NEW w \in Workers, FinalizeThread(w)
  PROVE  UmsInv'
<1> USE UmsAssumption DEF FinalizeThread, Acts, Unpark, UnparkNextThread, Live, umThreadVars
<1>1. UmsTypes'
  BY DEF UmsInv, UmsTypes
<1>2. UmsLocked'
  BY UmsExecutes DEF UmsInv, UmsTypes, UmsLocked
<1>3. UmsHandling'
  BY UmsExecutes DEF UmsInv, UmsTypes, UmsLocked, UmsHandling, UmsAnnounced
<1>4. UmsAnnounced'
  BY UmsExecutes DEF UmsInv, UmsTypes, UmsLocked, UmsHandling, UmsAnnounced
<1>5. UmsBalanced'
  BY UmsExecutes DEF UmsInv, UmsTypes, UmsLocked, UmsHandling, UmsBalanced, Debt, Behind
<1> QED
  BY <1>1, <1>2, <1>3, <1>4, <1>5 DEF UmsInv

LEMMA TakeTokenKeeps ==
  ASSUME UmsInv, NEW w \in Workers, TakeToken(w)
  PROVE  UmsInv'
<1> USE UmsAssumption DEF TakeToken, Acts, umThreadVars
<1>1. UmsTypes'
  BY DEF UmsInv, UmsTypes
<1>2. UmsLocked'
  BY UmsExecutes DEF UmsInv, UmsTypes, UmsLocked
<1>3. UmsHandling'
  BY UmsExecutes DEF UmsInv, UmsTypes, UmsLocked, UmsHandling, UmsAnnounced
<1>4. UmsAnnounced'
  BY UmsExecutes DEF UmsInv, UmsTypes, UmsLocked, UmsHandling, UmsAnnounced
<1>5. UmsBalanced'
  BY UmsExecutes DEF UmsInv, UmsTypes, UmsLocked, UmsHandling, UmsBalanced, Debt, Behind
<1> QED
  BY <1>1, <1>2, <1>3, <1>4, <1>5 DEF UmsInv

LEMMA PreemptKeeps ==
  ASSUME UmsInv, Preempt
  PROVE  UmsInv'
<1> USE UmsAssumption DEF Preempt, umThreadVars
<1>1. UmsTypes'
  BY DEF UmsInv, UmsTypes
<1>2. UmsLocked'
  BY DEF UmsInv, UmsTypes, UmsLocked
<1>3. UmsHandling'
  BY DEF UmsInv, UmsTypes, UmsLocked, UmsHandling, UmsAnnounced
<1>4. UmsAnnounced'
  BY DEF UmsInv, UmsTypes, UmsLocked, UmsHandling, UmsAnnounced
<1>5. UmsBalanced'
  BY DEF UmsInv, UmsTypes, UmsLocked, UmsHandling, UmsBalanced, Debt, Behind
<1> QED
  BY <1>1, <1>2, <1>3, <1>4, <1>5 DEF UmsInv

LEMMA RequestParkKeeps ==
  ASSUME UmsInv, RequestPark
  PROVE  UmsInv'
<1> USE UmsAssumption DEF RequestPark, umThreadVars
<1>1. UmsTypes'
  BY DEF UmsInv, UmsTypes, UmsLocked
<1>2. UmsLocked'
  BY DEF UmsInv, UmsTypes, UmsLocked
<1>3. UmsHandling'
  BY DEF UmsInv, UmsTypes, UmsLocked, UmsHandling, UmsAnnounced
<1>4. UmsAnnounced'
  BY DEF UmsInv, UmsTypes, UmsLocked, UmsHandling, UmsAnnounced
<1>5. UmsBalanced'
  BY DEF UmsInv, UmsTypes, UmsLocked, UmsHandling, UmsBalanced, Debt, Behind
<1> QED
  BY <1>1, <1>2, <1>3, <1>4, <1>5 DEF UmsInv

LEMMA RaiseSignalKeeps ==
  ASSUME UmsInv, RaiseSignal
  PROVE  UmsInv'
<1> USE UmsAssumption DEF RaiseSignal, umThreadVars
<1>1. UmsTypes'
  BY DEF UmsInv, UmsTypes
<1>2. UmsLocked'
  BY DEF UmsInv, UmsTypes, UmsLocked
<1>3. UmsHandling'
  BY DEF UmsInv, UmsTypes, UmsLocked, UmsHandling, UmsAnnounced
<1>4. UmsAnnounced'
  BY DEF UmsInv, UmsTypes, UmsLocked, UmsHandling, UmsAnnounced
<1>5. UmsBalanced'
  BY DEF UmsInv, UmsTypes, UmsLocked, UmsHandling, UmsBalanced, Debt, Behind
<1> QED
  BY <1>1, <1>2, <1>3, <1>4, <1>5 DEF UmsInv

LEMMA AwaitParkKeeps ==
  ASSUME UmsInv, AwaitPark
  PROVE  UmsInv'
<1> USE UmsAssumption DEF AwaitPark, umThreadVars
<1>1. UmsTypes'
  BY DEF UmsInv, UmsTypes
<1>2. UmsLocked'
  BY DEF UmsInv, UmsTypes, UmsLocked
<1>3. UmsHandling'
  BY DEF UmsInv, UmsTypes, UmsLocked, UmsHandling, UmsAnnounced
<1>4. UmsAnnounced'
  BY DEF UmsInv, UmsTypes, UmsLocked, UmsHandling, UmsAnnounced
<1>5. UmsBalanced'
  BY DEF UmsInv, UmsTypes, UmsLocked, UmsHandling, UmsBalanced, Debt, Behind
<1> QED
  BY <1>1, <1>2, <1>3, <1>4, <1>5 DEF UmsInv

LEMMA PreemptEndKeeps ==
  ASSUME UmsInv, PreemptEnd
  PROVE  UmsInv'
<1> USE UmsAssumption DEF PreemptEnd, Unpark, UnparkNextThread, Live, umThreadVars
<1>1. UmsTypes'
  BY DEF UmsInv, UmsTypes
<1>2. UmsLocked'
  BY DEF UmsInv, UmsTypes, UmsLocked
<1>3. UmsHandling'
  BY DEF UmsInv, UmsTypes, UmsLocked, UmsHandling, UmsAnnounced
<1>4. UmsAnnounced'
  BY DEF UmsInv, UmsTypes, UmsLocked, UmsHandling, UmsAnnounced
<1>5. UmsBalanced'
  BY DEF UmsInv, UmsTypes, UmsLocked, UmsHandling, UmsBalanced, Debt, Behind
<1> QED
  BY <1>1, <1>2, <1>3, <1>4, <1>5 DEF UmsInv

LEMMA DeliverSignalKeeps ==
  ASSUME UmsInv, NEW w \in Workers, DeliverSignal(w)
  PROVE  UmsInv'
<1> USE UmsAssumption DEF DeliverSignal, umThreadVars
<1>1. UmsTypes'
  BY DEF UmsInv, UmsTypes
<1>2. UmsLocked'
  BY DEF UmsInv, UmsTypes, UmsLocked
<1>3. UmsHandling'
  BY DEF UmsInv, UmsTypes, UmsLocked, UmsHandling, UmsAnnounced
<1>4. UmsAnnounced'
  BY DEF UmsInv, UmsTypes, UmsLocked, UmsHandling, UmsAnnounced
<1>5. UmsBalanced'
  BY DEF UmsInv, UmsTypes, UmsLocked, UmsHandling, UmsBalanced, Debt, Behind
<1> QED
  BY <1>1, <1>2, <1>3, <1>4, <1>5 DEF UmsInv

LEMMA HandlerEntryKeeps ==
  ASSUME UmsInv, NEW w \in Workers, HandlerEntry(w)
  PROVE  UmsInv'
<1> USE UmsAssumption DEF HandlerEntry, umThreadVars
<1>1. UmsTypes'
  BY DEF UmsInv, UmsTypes
<1>2. UmsLocked'
  BY DEF UmsInv, UmsTypes, UmsLocked
<1>3. UmsHandling'
  BY DEF UmsInv, UmsTypes, UmsLocked, UmsHandling, UmsAnnounced
<1>4. UmsAnnounced'
  BY DEF UmsInv, UmsTypes, UmsLocked, UmsHandling, UmsAnnounced
<1>5. UmsBalanced'
  BY DEF UmsInv, UmsTypes, UmsLocked, UmsHandling, UmsBalanced, Debt, Behind
<1> QED
  BY <1>1, <1>2, <1>3, <1>4, <1>5 DEF UmsInv

LEMMA HandlerTestKeeps ==
  ASSUME UmsInv, NEW w \in Workers, HandlerTest(w)
  PROVE  UmsInv'
<1> USE UmsAssumption DEF HandlerTest, umThreadVars
<1>1. UmsTypes'
  BY DEF UmsInv, UmsTypes
<1>2. UmsLocked'
  BY DEF UmsInv, UmsTypes, UmsLocked
<1>3. UmsHandling'
  BY DEF UmsInv, UmsTypes, UmsLocked, UmsHandling, UmsAnnounced
<1>4. UmsAnnounced'
  BY DEF UmsInv, UmsTypes, UmsLocked, UmsHandling, UmsAnnounced
<1>5. UmsBalanced'
  BY DEF UmsInv, UmsTypes, UmsLocked, UmsHandling, UmsBalanced, Debt, Behind
<1> QED
  BY <1>1, <1>2, <1>3, <1>4, <1>5 DEF UmsInv

LEMMA HandlerParkKeeps ==
  ASSUME UmsInv, NEW w \in Workers, HandlerPark(w)
  PROVE  UmsInv'
<1> USE UmsAssumption DEF HandlerPark, umThreadVars
<1>1. UmsTypes'
  BY DEF UmsInv, UmsTypes
<1>2. UmsLocked'
  BY DEF UmsInv, UmsTypes, UmsLocked
<1>3. UmsHandling'
  BY DEF UmsInv, UmsTypes, UmsLocked, UmsHandling, UmsAnnounced
<1>4. UmsAnnounced'
  BY DEF UmsInv, UmsTypes, UmsLocked, UmsHandling, UmsAnnounced
<1>5. UmsBalanced'
  BY DEF UmsInv, UmsTypes, UmsLocked, UmsHandling, UmsBalanced, Debt, Behind
<1> QED
  BY <1>1, <1>2, <1>3, <1>4, <1>5 DEF UmsInv

LEMMA HandlerStoreKeeps ==
  ASSUME UmsInv, NEW w \in Workers, HandlerStore(w)
  PROVE  UmsInv'
<1> USE UmsAssumption DEF HandlerStore, umThreadVars
<1>1. UmsTypes'
  BY DEF UmsInv, UmsTypes, UmsHandling
<1>2. UmsLocked'
  BY DEF UmsInv, UmsTypes, UmsLocked
<1>3. UmsHandling'
  BY DEF UmsInv, UmsTypes, UmsLocked, UmsHandling, UmsAnnounced
<1>4. UmsAnnounced'
  BY DEF UmsInv, UmsTypes, UmsLocked, UmsHandling, UmsAnnounced
<1>5. UmsBalanced'
  BY DEF UmsInv, UmsTypes, UmsLocked, UmsHandling, UmsBalanced, Debt, Behind
<1> QED
  BY <1>1, <1>2, <1>3, <1>4, <1>5 DEF UmsInv

LEMMA HandlerReturnKeeps ==
  ASSUME UmsInv, NEW w \in Workers, HandlerReturn(w)
  PROVE  UmsInv'
<1> USE UmsAssumption DEF HandlerReturn, umThreadVars
<1>1. UmsTypes'
  BY DEF UmsInv, UmsTypes
<1>2. UmsLocked'
  BY DEF UmsInv, UmsTypes, UmsLocked
<1>3. UmsHandling'
  BY DEF UmsInv, UmsTypes, UmsLocked, UmsHandling, UmsAnnounced
<1>4. UmsAnnounced'
  BY DEF UmsInv, UmsTypes, UmsLocked, UmsHandling, UmsAnnounced
<1>5. UmsBalanced'
  BY DEF UmsInv, UmsTypes, UmsLocked, UmsHandling, UmsBalanced, Debt, Behind
<1> QED
  BY <1>1, <1>2, <1>3, <1>4, <1>5 DEF UmsInv

LEMMA UmsInitKeeps == UmsInit => UmsInv
BY UmsAssumption DEF UmsInit, UmsInv, UmsTypes, UmsLocked, UmsHandling, UmsAnnounced, UmsBalanced,
                     Debt, Behind

LEMMA UmsStep == UmsInv /\ [UmsNext]_umVars => UmsInv'
<1> SUFFICES ASSUME UmsInv, [UmsNext]_umVars PROVE UmsInv'
  OBVIOUS
<1>1. CASE UmsNext
  BY <1>1, CallYieldKeeps, AcquireLockKeeps, YieldNowKeeps, FinalizeThreadKeeps, TakeTokenKeeps,
     PreemptKeeps, RequestParkKeeps, RaiseSignalKeeps, AwaitParkKeeps, PreemptEndKeeps,
     DeliverSignalKeeps, HandlerEntryKeeps, HandlerTestKeeps, HandlerParkKeeps, HandlerStoreKeeps,
     HandlerReturnKeeps
     DEF UmsNext, Worker, PreemptStep
<1>2. CASE UNCHANGED umVars
  BY <1>2 DEF umVars, umThreadVars, UmsInv, UmsTypes, UmsLocked, UmsHandling, UmsAnnounced,
              UmsBalanced, Debt, Behind
<1> QED
  BY <1>1, <1>2

\* At most one thread of a group executes code of its own, the one the scheduler chose
\* last and nobody is preempting, for any number of threads and of park requests in
\* flight (yield_now and preempt of ums.rs over park and unpark of threading_unix.rs).
THEOREM UmsExclusiveCorrect == UmsSpec => []UmsExclusive
<1>1. UmsInv => UmsExclusive
  <2> SUFFICES ASSUME UmsInv, NEW w \in Workers
               PROVE  /\ UserCode(w) => umCur = w /\ umOut # "next"
                      /\ umHandler[w] = "none" /\ umPending[w] = 0 /\ umTokens[w] > 0
                            => umCur = w /\ umTokens[w] = 1 /\ umPc[w] = "park"
    BY DEF UmsExclusive
  <2>1. UserCode(w) => umCur = w /\ umOut # "next"
    BY UmsExecutes DEF UserCode
  <2>2. ASSUME umHandler[w] = "none", umPending[w] = 0, umTokens[w] > 0
        PROVE  umCur = w /\ umTokens[w] = 1 /\ umPc[w] = "park"
    <3>1. /\ Debt(w) = umTokens[w] + (IF Behind(w) THEN 1 ELSE 0) /\ umTokens[w] \in Nat
          /\ umLocal[w] = 0
      BY <2>2 DEF UmsInv, UmsTypes, UmsHandling, UmsBalanced
    <3>2. Debt(w) = IF umPc[w] \in {"park", "gone"} THEN 1 ELSE 0
      BY <2>2, <3>1 DEF Debt
    <3>3. umTokens[w] = 1 /\ ~Behind(w) /\ umPc[w] \in {"park", "gone"}
      BY <2>2, <3>1, <3>2
    <3> QED
      BY <3>3, UmsAssumption DEF Behind, UmsInv, UmsLocked
  <2> QED
    BY <2>1, <2>2
<1> QED
  BY <1>1, UmsInitKeeps, UmsStep, PTL DEF UmsSpec

\* The guard of a step that a thread takes by itself is true: in its signal handler, or
\* to enter it, or in yield_now, park and finalize_thread.
WorkerReady(w) ==
  \/ umHandler[w] \in {"entry", "test", "store", "clear"}
  \/ umHandler[w] = "recv" /\ umTokens[w] > 0
  \/ /\ umHandler[w] = "none"
     /\ \/ umSignal[w] /\ umPc[w] # "gone"
        \/ umPc[w] \in {"lock", "final"} /\ umLock = NoWorker
        \/ umPc[w] = "next" \/ (umPc[w] = "final" /\ umLock = w)
        \/ umPc[w] = "park" /\ umTokens[w] > 0

\* UmsNeverStuck with the guards of the steps for ENABLED.
UmsReady ==
  /\ umCur # NoWorker /\ umOut = "idle" => UserCode(umCur) \/ WorkerReady(umCur)
  /\ umOut = "wait" => (umFlag[umCur] \/ umTicket < 0) \/ WorkerReady(umCur)

\* The thread that was chosen never waits for a token, a signal or the lock in vain, and
\* neither does the thread that preempts it (Thread::park of threading_unix.rs),
\* for any number of threads and of park requests in flight.
THEOREM UmsReadyCorrect == UmsSpec => []UmsReady
<1>1. ASSUME UmsInv, umCur # NoWorker, umOut = "idle"
      PROVE  UserCode(umCur) \/ WorkerReady(umCur)
  <2>1. /\ umCur \in Workers /\ umPc[umCur] \in {"user", "lock", "next", "park", "final"}
        /\ umLock \in {umCur, NoWorker} /\ (umPc[umCur] = "lock" => umLock = NoWorker)
        /\ umTokens[umCur] \in Nat /\ umPending[umCur] - umLocal[umCur] >= 0
        /\ umHandler[umCur] \in {"none", "entry", "test", "recv", "store", "clear"}
    BY <1>1 DEF UmsInv, UmsTypes, UmsLocked, UmsHandling
  <2>2. umTokens[umCur] = Debt(umCur)
    BY <1>1, <2>1 DEF UmsInv, UmsBalanced, Behind
  <2>3. umHandler[umCur] = "recv" \/ umPc[umCur] = "park" => umTokens[umCur] > 0
    <3>1. umPending[umCur] - umLocal[umCur] \in Nat
      BY <1>1, <2>1 DEF UmsInv, UmsTypes
    <3> QED
      BY <2>1, <2>2, <3>1 DEF Debt
  <2> QED
    BY <2>1, <2>3 DEF UserCode, WorkerReady
<1>2. ASSUME UmsInv, umOut = "wait"
      PROVE  (umFlag[umCur] \/ umTicket < 0) \/ WorkerReady(umCur)
  <2>1. /\ umCur \in Workers /\ umPc[umCur] # "gone" /\ umPending[umCur] = umTicket + 1
        /\ umTicket \in Int
        /\ umHandler[umCur] \in {"none", "entry", "test", "recv", "store", "clear"}
        /\ (umHandler[umCur] \notin {"none", "entry"} => umFlag[umCur])
        /\ (umHandler[umCur] = "none" => umLocal[umCur] = 0)
    BY <1>2 DEF UmsInv, UmsTypes, UmsLocked, UmsHandling, UmsAnnounced
  <2>2. CASE umHandler[umCur] = "none" /\ umTicket >= 0
    <3>1. umPending[umCur] > umLocal[umCur]
      BY <2>1, <2>2
    <3>2. umSignal[umCur]
      BY <1>2, <2>1, <2>2, <3>1 DEF UmsInv, UmsAnnounced
    <3> QED
      BY <2>1, <2>2, <3>2 DEF WorkerReady
  <2> QED
    BY <2>1, <2>2 DEF WorkerReady
<1>3. UmsInv => UmsReady
  BY <1>1, <1>2 DEF UmsReady
<1> QED
  BY <1>3, UmsInitKeeps, UmsStep, PTL DEF UmsSpec

-----------------------------------------------------------------------------
(* The Arm-M port *)

AmReturns == [psp : BOOLEAN, fp : BOOLEAN]

AmValues == Tasks \cup {NoTask, Junk} \cup {HandlerValue(k) : k \in Nat} \cup AmReturns

AmFrames == [kind : {"basic", "FP", "s", "fs", "ret", "boot"}, val : AmValues]

AmRegisters == [x : AmValues, s : AmValues, f : AmValues, fs : AmValues, fpca : BOOLEAN,
                spsel : BOOLEAN, psp : Seq(AmFrames), msp : Seq(AmFrames)]

AmNesting == Seq([exc : AmLines \cup {"PendSV"}, ret : AmReturns,
                  step : {"save", "choose", "restore"}, usesFp : BOOLEAN])

AmTypes ==
  /\ amCpu \in AmRegisters /\ amLevels \in AmNesting
  /\ amStarted \in BOOLEAN /\ amLock \in BOOLEAN /\ amPendSv \in BOOLEAN
  /\ amWanted \in BOOLEAN
  /\ amTaskSp \in [Tasks -> Seq(AmFrames)] /\ amRunning \in Tasks \cup {NoTask}
  /\ amActive \subseteq Tasks /\ amFpUsers \subseteq Tasks
  /\ amPspOwner \in Tasks \cup {NoTask}

\* The frame the hardware stacks for a task, and the context handle_pend_sv saves.
AmTaskFrame(t, fp) == Push(IF fp THEN Push(<<>>, "FP", t) ELSE <<>>, "basic", t)

AmSaved(t, fp) ==
  LET sx == Push(AmTaskFrame(t, fp), "s", t)
  IN  Push(IF fp THEN Push(sx, "fs", t) ELSE sx, "ret", [psp |-> TRUE, fp |-> fp])

\* handle_pend_sv has saved the context of the previous task and not yet restored
\* that of the next one.
AmSwitching == amLevels # <<>> /\ amLevels[1].exc = "PendSV" /\ amLevels[1].step # "save"

\* What the nesting of exceptions says of the stacks they return to.
AmNested ==
  /\ ~amStarted => amLevels = <<>> /\ amRunning = NoTask /\ ~amCpu.spsel /\ amFpUsers = {}
  /\ amLevels # <<>> => amLevels[1].ret.psp = amCpu.spsel
  /\ \A i \in 2 .. AmLevel : amLevels[i].exc # "PendSV" /\ ~amLevels[i].ret.psp

\* The thread the CPU is in, its registers and its stack, interrupted or not.
AmCurrent ==
  /\ amCpu.spsel => amPspOwner \in amActive
  /\ amRunning \in amActive \cup {NoTask}
  /\ amLevels = <<>> \/ amLevels[1].exc # "PendSV" \/ amLevels[1].step # "restore"
        => amRunning = AmThread
  /\ amCpu.spsel /\ ~AmSwitching =>
        /\ amCpu.s = amPspOwner
        /\ amPspOwner \in amFpUsers => amCpu.fs = amPspOwner
        /\ IF amLevels = <<>>
           THEN /\ amCpu.x = amPspOwner /\ amCpu.psp = <<>>
                /\ amCpu.fpca = (amPspOwner \in amFpUsers)
                /\ amCpu.fpca => amCpu.f = amPspOwner
           ELSE /\ amLevels[1].ret.fp = (amPspOwner \in amFpUsers)
                /\ amCpu.psp = AmTaskFrame(amPspOwner, amLevels[1].ret.fp)

\* The saved contexts of the other tasks.
AmParked ==
  \A t \in amActive :
     AmSwitching \/ ~amCpu.spsel \/ t # amPspOwner => amTaskSp[t] = AmSaved(t, t \in amFpUsers)

\* The handler that executes.
AmHandling ==
  amLevels # <<>> =>
     /\ amCpu.x = HandlerValue(AmLevel)
     /\ AmTop.usesFp => amCpu.fpca /\ amCpu.f = HandlerValue(AmLevel)

\* What the exceptions, the first one below and so on, have left of MSP: b[i] is the
\* stack of the handler of level i, b[0] that of the idle task.
AmIdleStack(b, fp) ==
  \/ ~amCpu.spsel /\ b = <<>>
  \/ \E w \in AmValues : ~amCpu.spsel /\ b = Push(<<>>, "FP", w) /\ ~fp
  \/ \E v \in AmValues : amCpu.spsel /\ b = Push(<<>>, "basic", v)
  \/ \E v, w \in AmValues : amCpu.spsel /\ b = Push(Push(<<>>, "FP", w), "basic", v)

AmEntered(i, lower, upper) ==
  \E v, w \in AmValues :
     /\ upper = Push(IF amLevels[i].ret.fp THEN Push(lower, "FP", w) ELSE lower, "basic", v)
     /\ i > 1 => /\ v = HandlerValue(i - 1)
                 /\ amLevels[i - 1].usesFp => amLevels[i].ret.fp /\ w = HandlerValue(i - 1)

AmStacks(b) ==
  /\ b[AmLevel] = amCpu.msp
  /\ AmIdleStack(b[0], IF amLevels = <<>> THEN amCpu.fpca ELSE amLevels[1].ret.fp)
  /\ \A i \in 1 .. AmLevel : IF amLevels[i].ret.psp THEN b[i] = b[i - 1]
                             ELSE AmEntered(i, b[i - 1], b[i])

AmMainStack == amStarted => \E b \in [0 .. AmLevel -> Seq(AmFrames)] : AmStacks(b)

\* A dispatch that has been asked for is pending, or PendSV is about to choose; and
\* CPU Lock masks a pending one only while the handler that took it executes.
AmRequested ==
  /\ ~amStarted => ~amPendSv /\ ~amWanted
  /\ amWanted => amPendSv \/ (amLevels # <<>> /\ amLevels[1].exc = "PendSV"
                              /\ amLevels[1].step # "restore")
  /\ amLock /\ amPendSv =>
        \E i \in 1 .. AmLevel : amLevels[i].exc # "PendSV" /\ AmManaged(amLevels[i].exc)

AmInv == /\ AmTypes /\ AmNested /\ AmCurrent /\ AmParked /\ AmHandling /\ AmMainStack
         /\ AmRequested

\* The frames of the Arm-M port.
LEMMA FrameType ==
  ASSUME NEW k \in {"basic", "FP", "s", "fs", "ret", "boot"}, NEW v \in AmValues
  PROVE  Frame(k, v) \in AmFrames
BY DEF Frame, AmFrames

LEMMA PushFrame ==
  ASSUME NEW s \in Seq(AmFrames), NEW k \in {"basic", "FP", "s", "fs", "ret", "boot"},
         NEW v \in AmValues
  PROVE  /\ Push(s, k, v) \in Seq(AmFrames) /\ Push(s, k, v) # <<>>
         /\ Len(Push(s, k, v)) = Len(s) + 1 /\ Push(s, k, v)[1].kind = k
         /\ \A i \in 1 .. Len(s) : Push(s, k, v)[i + 1] = s[i]
         /\ Drop(Push(s, k, v)) = s
         /\ \A d : OnTop(Push(s, k, v), k, d) = v
<1>1. Frame(k, v) \in AmFrames
  BY FrameType
<1> QED
  BY <1>1, PushDrop

LEMMA DropType ==
  ASSUME NEW s \in Seq(AmFrames), NEW k, NEW d \in AmValues
  PROVE  Drop(s) \in Seq(AmFrames) /\ OnTop(s, k, d) \in AmValues
<1>1. CASE s = <<>>
  BY <1>1 DEF Drop, OnTop
<1>2. CASE s # <<>>
  <2>1. Tail(s) \in Seq(AmFrames) /\ Head(s) \in AmFrames
    BY <1>2
  <2> QED
    BY <1>2, <2>1 DEF Drop, OnTop, AmFrames
<1> QED
  BY <1>1, <1>2

LEMMA AmValueTypes ==
  /\ Junk \in AmValues /\ NoTask \in AmValues /\ Tasks \subseteq AmValues
  /\ AmReturns \subseteq AmValues /\ \A k \in Nat : HandlerValue(k) \in AmValues
BY DEF AmValues

LEMMA AmStackTypes ==
  ASSUME AmTypes, NEW s \in Seq(AmFrames)
  PROVE  AmStack(s) \in Seq(AmFrames)
<1>1. amCpu.x \in AmValues /\ amCpu.f \in AmValues
  BY DEF AmTypes, AmRegisters
<1>2. Push(s, "FP", amCpu.f) \in Seq(AmFrames)
  BY <1>1, PushFrame
<1> QED
  BY <1>1, <1>2, PushFrame DEF AmStack

LEMMA AmEntryTypes ==
  ASSUME AmTypes, NEW exc \in AmLines \cup {"PendSV"}, AmEntry(exc)
  PROVE  amCpu' \in AmRegisters /\ amLevels' \in AmNesting
<1>1. amCpu.psp \in Seq(AmFrames) /\ amCpu.msp \in Seq(AmFrames)
      /\ amCpu.fpca \in BOOLEAN /\ amCpu.spsel \in BOOLEAN /\ AmLevel \in Nat
  BY DEF AmTypes, AmRegisters, AmNesting, AmLevel
<1>2. AmStack(amCpu.psp) \in Seq(AmFrames) /\ AmStack(amCpu.msp) \in Seq(AmFrames)
  BY <1>1, AmStackTypes
<1>3. HandlerValue(AmLevel + 1) \in AmValues /\ Junk \in AmValues
  BY <1>1, AmValueTypes
<1>4. amCpu' \in AmRegisters
  BY <1>1, <1>2, <1>3 DEF AmEntry, AmTypes, AmRegisters
<1>5. amLevels' \in AmNesting
  BY <1>1 DEF AmEntry, AmTypes, AmNesting, AmReturns
<1> QED
  BY <1>4, <1>5

\* The levels after an exception has returned, and after one has been entered.
LEMMA AmPopLevels ==
  ASSUME AmTypes, AmLevel > 0, amLevels' = SubSeq(amLevels, 1, AmLevel - 1)
  PROVE  /\ amLevels' \in AmNesting /\ AmLevel' = AmLevel - 1 /\ AmLevel \in Nat
         /\ \A i \in 1 .. AmLevel - 1 : amLevels'[i] = amLevels[i]
         /\ amLevels' = <<>> <=> AmLevel = 1
<1> DEFINE R == [exc : AmLines \cup {"PendSV"}, ret : AmReturns,
                 step : {"save", "choose", "restore"}, usesFp : BOOLEAN]
           n == AmLevel - 1
<1>1. amLevels \in Seq(R) /\ AmLevel = Len(amLevels) /\ Len(amLevels) \in Nat
  BY DEF AmTypes, AmNesting, AmLevel
<1> HIDE DEF R
<1>2. \A i \in 1 .. n : amLevels[i] \in R
  <2> SUFFICES ASSUME NEW i \in 1 .. n PROVE amLevels[i] \in R
    OBVIOUS
  <2>1. i \in 1 .. Len(amLevels)
    BY <1>1
  <2> QED
    BY <1>1, <2>1
<1>3. n \in Nat /\ n <= Len(amLevels)
  BY <1>1
<1>4. amLevels' = [i \in 1 .. n |-> amLevels[i]]
  BY <1>1, <1>3
<1>5. amLevels' \in Seq(R) /\ Len(amLevels') = n /\ \A i \in 1 .. n : amLevels'[i] = amLevels[i]
  BY <1>2, <1>3, <1>4
<1>6. amLevels' = <<>> <=> n = 0
  <2>1. amLevels' = <<>> <=> Len(amLevels') = 0
    BY <1>5, LenEmpty
  <2> QED
    BY <1>5, <2>1
<1> QED
  BY <1>1, <1>5, <1>6 DEF R, AmNesting, AmLevel

LEMMA AmReturnTypes ==
  ASSUME AmTypes, NEW c \in AmRegisters, NEW ret \in AmReturns, AmReturn(c, ret), AmLevel > 0
  PROVE  amCpu' \in AmRegisters /\ amLevels' \in AmNesting
<1> DEFINE frames == IF ret.psp THEN c.psp ELSE c.msp
           rest == Drop(frames)
           left == IF ret.fp THEN Drop(rest) ELSE rest
<1>1. frames \in Seq(AmFrames) /\ ret.fp \in BOOLEAN
  BY DEF AmRegisters, AmReturns
<1>2. Junk \in AmValues
  BY AmValueTypes
<1> HIDE DEF frames
<1>3. rest \in Seq(AmFrames) /\ OnTop(frames, "basic", Junk) \in AmValues
  BY <1>1, <1>2, DropType
<1> HIDE DEF rest
<1>4. Drop(rest) \in Seq(AmFrames) /\ OnTop(rest, "FP", Junk) \in AmValues
  BY <1>2, <1>3, DropType
<1>5. left \in Seq(AmFrames)
  BY <1>3, <1>4
<1> HIDE DEF left
<1>6. amCpu' = [c EXCEPT !.x = OnTop(frames, "basic", Junk),
                         !.f = IF ret.fp THEN OnTop(rest, "FP", Junk) ELSE @,
                         !.fpca = ret.fp,
                         !.psp = IF ret.psp THEN left ELSE @,
                         !.msp = IF ret.psp THEN @ ELSE left]
  BY DEF AmReturn, AmUnstack, frames, rest, left
<1>7. amCpu' \in AmRegisters
  BY <1>1, <1>3, <1>4, <1>5, <1>6 DEF AmRegisters
<1>8. amLevels' \in AmNesting
  BY AmPopLevels DEF AmReturn
<1> QED
  BY <1>7, <1>8

LEMMA AmPushLevels ==
  ASSUME AmTypes, NEW exc \in AmLines \cup {"PendSV"}, AmEntry(exc)
  PROVE  /\ amLevels' \in AmNesting /\ AmLevel' = AmLevel + 1 /\ AmLevel \in Nat
         /\ \A i \in 1 .. AmLevel : amLevels'[i] = amLevels[i]
         /\ amLevels'[AmLevel + 1] =
               [exc |-> exc, ret |-> [psp |-> amCpu.spsel /\ AmLevel = 0, fp |-> amCpu.fpca],
                step |-> "save", usesFp |-> FALSE]
         /\ amLevels' # <<>>
<1> DEFINE R == [exc : AmLines \cup {"PendSV"}, ret : AmReturns,
                 step : {"save", "choose", "restore"}, usesFp : BOOLEAN]
           e == [exc |-> exc, ret |-> [psp |-> amCpu.spsel /\ AmLevel = 0, fp |-> amCpu.fpca],
                 step |-> "save", usesFp |-> FALSE]
<1>1. amLevels \in Seq(R) /\ AmLevel = Len(amLevels) /\ Len(amLevels) \in Nat
  BY DEF AmTypes, AmNesting, AmLevel
<1>2. e \in R
  <2>1. amCpu.spsel \in BOOLEAN /\ amCpu.fpca \in BOOLEAN
    BY DEF AmTypes, AmRegisters
  <2>2. [psp |-> amCpu.spsel /\ AmLevel = 0, fp |-> amCpu.fpca] \in AmReturns
    BY <2>1 DEF AmReturns
  <2> QED
    BY <2>2
<1>3. amLevels' = Append(amLevels, e)
  BY DEF AmEntry
<1> HIDE DEF R, e
<1>4. /\ amLevels' \in Seq(R) /\ Len(amLevels') = Len(amLevels) + 1
      /\ \A i \in 1 .. Len(amLevels) : amLevels'[i] = amLevels[i]
      /\ amLevels'[Len(amLevels) + 1] = e
  BY <1>1, <1>2, <1>3, AppendProperties
<1>5. amLevels' # <<>>
  BY <1>1, <1>4, LenEmpty
<1> QED
  BY <1>1, <1>4, <1>5 DEF R, e, AmNesting, AmLevel

LEMMA AmTopLevel ==
  ASSUME AmTypes, AmLevel > 0
  PROVE  /\ AmLevel \in Nat /\ AmLevel \in 1 .. Len(amLevels) /\ amLevels # <<>>
         /\ AmTop \in [exc : AmLines \cup {"PendSV"}, ret : AmReturns,
                       step : {"save", "choose", "restore"}, usesFp : BOOLEAN]
<1> DEFINE R == [exc : AmLines \cup {"PendSV"}, ret : AmReturns,
                 step : {"save", "choose", "restore"}, usesFp : BOOLEAN]
<1>1. /\ amLevels \in Seq(R) /\ AmLevel = Len(amLevels) /\ AmTop = amLevels[Len(amLevels)]
      /\ Len(amLevels) > 0
  BY DEF AmTypes, AmNesting, AmLevel, AmTop
<1> HIDE DEF R
<1>2. Len(amLevels) \in Nat /\ Len(amLevels) \in 1 .. Len(amLevels) /\ amLevels # <<>>
  BY <1>1, LenEmpty
<1>3. AmTop \in R
  BY <1>1, <1>2
<1> QED
  BY <1>1, <1>2, <1>3 DEF R

\* The levels after something of the innermost one has changed.
LEMMA AmSetTopLevels ==
  ASSUME AmTypes, AmLevel > 0,
         NEW lv \in [exc : AmLines \cup {"PendSV"}, ret : AmReturns,
                     step : {"save", "choose", "restore"}, usesFp : BOOLEAN],
         amLevels' = AmSetTop(lv)
  PROVE  /\ amLevels' \in AmNesting /\ AmLevel' = AmLevel
         /\ \A i \in 1 .. AmLevel - 1 : amLevels'[i] = amLevels[i]
         /\ amLevels'[AmLevel] = lv
         /\ amLevels' # <<>>
<1> DEFINE R == [exc : AmLines \cup {"PendSV"}, ret : AmReturns,
                 step : {"save", "choose", "restore"}, usesFp : BOOLEAN]
<1>1. amLevels \in Seq(R) /\ AmLevel = Len(amLevels) /\ Len(amLevels) \in Nat /\ lv \in R
  BY DEF AmTypes, AmNesting, AmLevel
<1>2. amLevels' = [amLevels EXCEPT ![Len(amLevels)] = lv]
  BY <1>1 DEF AmSetTop
<1> HIDE DEF R
<1>3. Len(amLevels) \in 1 .. Len(amLevels)
  BY <1>1 DEF AmLevel
<1>4. /\ amLevels' \in Seq(R) /\ Len(amLevels') = Len(amLevels)
      /\ \A i \in 1 .. Len(amLevels) - 1 : amLevels'[i] = amLevels[i]
      /\ amLevels'[Len(amLevels)] = lv
  BY <1>1, <1>2, <1>3, ExceptSeq
<1>5. amLevels' # <<>>
  BY <1>1, <1>3, <1>4, LenEmpty
<1> QED
  BY <1>1, <1>4, <1>5 DEF R, AmNesting, AmLevel

\* What handle_pend_sv finds in a context it saved, or initialize_task_state made.
LEMMA AmTaskFrameIs ==
  ASSUME NEW t \in Tasks, NEW fp \in BOOLEAN
  PROVE  /\ AmTaskFrame(t, fp) \in Seq(AmFrames)
         /\ \A d : OnTop(AmTaskFrame(t, fp), "basic", d) = t
         /\ fp => /\ \A d : OnTop(Drop(AmTaskFrame(t, fp)), "FP", d) = t
                  /\ Drop(Drop(AmTaskFrame(t, fp))) = <<>>
         /\ ~fp => Drop(AmTaskFrame(t, fp)) = <<>>
<1>1. t \in AmValues /\ <<>> \in Seq(AmFrames)
  BY AmValueTypes
<1> DEFINE l == IF fp THEN Push(<<>>, "FP", t) ELSE <<>>
<1>0. PICK e \in Seq(AmFrames) : e = <<>>
  BY <1>1
<1>2. /\ Push(<<>>, "FP", t) \in Seq(AmFrames) /\ Drop(Push(<<>>, "FP", t)) = <<>>
      /\ \A d : OnTop(Push(<<>>, "FP", t), "FP", d) = t
  <2>1. /\ Push(e, "FP", t) \in Seq(AmFrames) /\ Drop(Push(e, "FP", t)) = e
        /\ \A d : OnTop(Push(e, "FP", t), "FP", d) = t
    BY <1>1, PushFrame
  <2> QED
    BY <1>0, <2>1
<1>3. l \in Seq(AmFrames)
  BY <1>1, <1>2
<1>4. AmTaskFrame(t, fp) = Push(l, "basic", t)
  BY DEF AmTaskFrame
<1>5. fp => l = Push(<<>>, "FP", t)
  OBVIOUS
<1>6. ~fp => l = <<>>
  OBVIOUS
<1> HIDE DEF l
<1>7. /\ AmTaskFrame(t, fp) \in Seq(AmFrames) /\ Drop(AmTaskFrame(t, fp)) = l
      /\ \A d : OnTop(AmTaskFrame(t, fp), "basic", d) = t
  BY <1>1, <1>3, <1>4, PushFrame
<1> QED
  BY <1>2, <1>5, <1>6, <1>7

LEMMA AmSavedIs ==
  ASSUME NEW t \in Tasks, NEW fp \in BOOLEAN
  PROVE  LET sf == Drop(AmSaved(t, fp))
             sx == IF fp THEN Drop(sf) ELSE sf
         IN  /\ AmSaved(t, fp) \in Seq(AmFrames)
             /\ \A d : OnTop(AmSaved(t, fp), "ret", d) = [psp |-> TRUE, fp |-> fp]
             /\ fp => \A d : OnTop(sf, "fs", d) = t
             /\ \A d : OnTop(sx, "s", d) = t
             /\ Drop(sx) = AmTaskFrame(t, fp)
<1> DEFINE ret == [psp |-> TRUE, fp |-> fp]
           ux == Push(AmTaskFrame(t, fp), "s", t)
           uf == IF fp THEN Push(ux, "fs", t) ELSE ux
<1>1. t \in AmValues /\ ret \in AmValues
  BY AmValueTypes DEF AmReturns
<1>2. AmTaskFrame(t, fp) \in Seq(AmFrames)
  BY AmTaskFrameIs
<1>3. /\ ux \in Seq(AmFrames) /\ Drop(ux) = AmTaskFrame(t, fp)
      /\ \A d : OnTop(ux, "s", d) = t
  BY <1>1, <1>2, PushFrame
<1>4. AmSaved(t, fp) = Push(uf, "ret", ret)
  BY DEF AmSaved
<1> HIDE DEF ux, ret
<1>5. /\ Push(ux, "fs", t) \in Seq(AmFrames) /\ Drop(Push(ux, "fs", t)) = ux
      /\ \A d : OnTop(Push(ux, "fs", t), "fs", d) = t
  BY <1>1, <1>3, PushFrame
<1>6. uf \in Seq(AmFrames) /\ (fp => Drop(uf) = ux /\ \A d : OnTop(uf, "fs", d) = t)
      /\ (~fp => uf = ux)
  BY <1>3, <1>5
<1> HIDE DEF uf
<1>7. /\ AmSaved(t, fp) \in Seq(AmFrames) /\ Drop(AmSaved(t, fp)) = uf
      /\ \A d : OnTop(AmSaved(t, fp), "ret", d) = ret
  BY <1>1, <1>4, <1>6, PushFrame
<1>8. (IF fp THEN Drop(uf) ELSE uf) = ux
  BY <1>6
<1> QED
  BY <1>3, <1>6, <1>7, <1>8 DEF ret

LEMMA AmInitializeIs ==
  ASSUME NEW t \in Tasks
  PROVE  AmInitializeTaskState(t) = AmSaved(t, FALSE)
BY DEF AmInitializeTaskState, AmSaved, AmTaskFrame

\* The context AmSave saves, by the name of its parts.
LEMMA AmSaveIs ==
  ASSUME AmTypes, AmLevel > 0, NEW t \in Tasks
  PROVE  LET sx == Push(amCpu.psp, "s", amCpu.s)
             sf == IF AmTop.ret.fp THEN Push(sx, "fs", amCpu.fs) ELSE sx
         IN  Push(sf, "ret", AmTop.ret) \in Seq(AmFrames)
<1> DEFINE sx == Push(amCpu.psp, "s", amCpu.s)
           sf == IF AmTop.ret.fp THEN Push(sx, "fs", amCpu.fs) ELSE sx
<1>1. amCpu.psp \in Seq(AmFrames) /\ amCpu.s \in AmValues /\ amCpu.fs \in AmValues
  BY DEF AmTypes, AmRegisters
<1>2. sx \in Seq(AmFrames)
  BY <1>1, PushFrame
<1> HIDE DEF sx
<1>3. Push(sx, "fs", amCpu.fs) \in Seq(AmFrames)
  BY <1>1, <1>2, PushFrame
<1>4. sf \in Seq(AmFrames)
  BY <1>2, <1>3
<1> HIDE DEF sf
<1>5. AmTop.ret \in AmValues
  BY AmTopLevel, AmValueTypes
<1>6. Push(sf, "ret", AmTop.ret) \in Seq(AmFrames)
  BY <1>4, <1>5, PushFrame
<1> QED
  BY <1>6 DEF sf, sx

\* PendSV is only ever the outermost exception.
LEMMA AmPendSvOutermost ==
  ASSUME AmInv, AmLevel > 0, AmTop.exc = "PendSV"
  PROVE  /\ AmLevel = 1 /\ AmTop = amLevels[1] /\ amLevels[1].exc = "PendSV" /\ amLevels # <<>>
         /\ amStarted
<1>1. AmLevel \in Nat /\ AmLevel \in 1 .. Len(amLevels) /\ amLevels # <<>>
  BY AmTopLevel DEF AmInv
<1>2. ~(AmLevel \in 2 .. AmLevel)
  BY DEF AmInv, AmNested, AmTop
<1>3. AmLevel = 1
  BY <1>1, <1>2
<1> QED
  BY <1>1, <1>3 DEF AmTop, AmInv, AmNested

\* handle_pend_sv takes exactly what was saved for the task it returns to.
LEMMA AmRestoreIs ==
  ASSUME AmInv, AmRestore, amRunning # NoTask
  PROVE  /\ AmReturn([amCpu EXCEPT !.fs = IF amRunning \in amFpUsers THEN amRunning ELSE @,
                                   !.s = amRunning, !.spsel = TRUE,
                                   !.psp = AmTaskFrame(amRunning, amRunning \in amFpUsers)],
                     [psp |-> TRUE, fp |-> amRunning \in amFpUsers])
         /\ amRunning \in Tasks /\ amRunning \in amActive
<1>0. PICK u \in BOOLEAN : u = (amRunning \in amFpUsers)
  BY TruthOfMembership
<1> DEFINE frames == amTaskSp[amRunning]
           ret    == OnTop(frames, "ret", [psp |-> FALSE, fp |-> FALSE])
           sf     == Drop(frames)
           sx     == IF ret.fp THEN Drop(sf) ELSE sf
<1>1. AmLevel > 0 /\ AmTop.exc = "PendSV" /\ AmTop.step = "restore"
  BY DEF AmRestore, AmPendSvAt
<1>2. amLevels # <<>> /\ amLevels[1].exc = "PendSV" /\ amLevels[1].step = "restore"
  BY <1>1, AmPendSvOutermost
<1>3. amRunning \in amActive /\ amRunning \in Tasks
  BY DEF AmInv, AmCurrent, AmTypes
<1>4. frames = AmSaved(amRunning, u)
  BY <1>0, <1>2, <1>3 DEF AmInv, AmParked, AmSwitching
<1>5. AmReturn([amCpu EXCEPT !.fs = IF ret.fp THEN OnTop(sf, "fs", Junk) ELSE @,
                             !.s = OnTop(sx, "s", Junk), !.psp = Drop(sx), !.spsel = TRUE], ret)
  BY DEF AmRestore
<1> HIDE DEF frames
<1>6. ret = [psp |-> TRUE, fp |-> u] /\ ret.fp = u
  <2>1. ret = [psp |-> TRUE, fp |-> u]
    <3>1. \A d : OnTop(AmSaved(amRunning, u), "ret", d) = [psp |-> TRUE, fp |-> u]
      BY <1>3, AmSavedIs
    <3> QED
      BY <1>4, <3>1
  <2> QED
    BY <2>1
<1>7. /\ u => OnTop(sf, "fs", Junk) = amRunning
      /\ OnTop(sx, "s", Junk) = amRunning /\ Drop(sx) = AmTaskFrame(amRunning, u)
  BY <1>3, <1>4, <1>6, AmSavedIs
<1> HIDE DEF ret, sf, sx
<1> QED
  BY <1>0, <1>3, <1>5, <1>6, <1>7

LEMMA AmTypesStep ==
  ASSUME AmInv, AmNext
  PROVE  AmTypes'
<1>. AmTypes
  BY DEF AmInv
<1>0. /\ amCpu \in AmRegisters /\ amLevels \in AmNesting
      /\ amTaskSp \in [Tasks -> Seq(AmFrames)] /\ amActive \subseteq Tasks
      /\ <<>> \in Seq(AmFrames)
  BY DEF AmTypes
<1>1. ASSUME NEW active \in SUBSET Tasks, AmPortBoot(active) PROVE AmTypes'
  <2>1. amCpu' \in AmRegisters
    BY <1>0, <1>1, AmValueTypes DEF AmPortBoot, AmIdleTask, AmRegisters
  <2>2. \A t \in Tasks : AmInitializeTaskState(t) \in Seq(AmFrames)
    BY AmInitializeIs, AmSavedIs
  <2>3. amTaskSp' \in [Tasks -> Seq(AmFrames)]
    BY <1>0, <1>1, <2>2 DEF AmPortBoot
  <2> QED
    BY <1>1, <2>1, <2>3 DEF AmTypes, AmPortBoot, amLineVars
<1>2. ASSUME NEW t \in Tasks, AmActivate(t) PROVE AmTypes'
  <2>1. AmInitializeTaskState(t) \in Seq(AmFrames)
    BY AmInitializeIs, AmSavedIs
  <2>2. amTaskSp' \in [Tasks -> Seq(AmFrames)]
    BY <1>0, <1>2, <2>1 DEF AmActivate
  <2> QED
    BY <1>2, <2>2 DEF AmTypes, AmActivate, amLineVars
<1>3. ASSUME NEW t \in Tasks, AmExit(t) PROVE AmTypes'
  <2>1. amCpu' \in AmRegisters
    BY <1>0, <1>3, AmValueTypes DEF AmExit, AmIdleTask, AmRegisters
  <2> QED
    BY <1>3, <2>1 DEF AmTypes, AmExit, amLineVars
<1>4. CASE AmYieldCpu
  BY <1>4 DEF AmYieldCpu, AmTypes, amLineVars, amKernelVars
<1>5. CASE AmCpuLock
  BY <1>5 DEF AmCpuLock, AmTypes, amLineVars, amKernelVars
<1>6. CASE AmUseFp
  <2>1. CASE AmInThread
    <3>1. AmThread \in AmValues
      BY AmValueTypes DEF AmThread, AmTypes
    <3>2. amCpu' \in AmRegisters
      BY <1>0, <1>6, <2>1, <3>1 DEF AmUseFp, AmRegisters
    <3>3. AmThread \in Tasks
      BY <1>6, <2>1 DEF AmUseFp, AmInBody, AmInThread, AmLevel
    <3> QED
      BY <1>6, <2>1, <3>2, <3>3 DEF AmUseFp, AmTypes, amLineVars, amKernelVars
  <2>2. CASE ~AmInThread
    <3>1. AmLevel > 0 /\ AmLevel \in Nat
      BY <1>6, <2>2, AmTopLevel DEF AmUseFp, AmInBody
    <3>2. HandlerValue(AmLevel) \in AmValues
      BY <3>1, AmValueTypes
    <3>3. amCpu' \in AmRegisters
      BY <1>0, <1>6, <2>2, <3>2 DEF AmUseFp, AmRegisters
    <3>4. amLevels' \in AmNesting
      <4>1. amLevels' = AmSetTop([AmTop EXCEPT !.usesFp = TRUE])
        BY <1>6, <2>2 DEF AmUseFp
      <4> QED
        BY <3>1, <4>1, AmTopLevel, AmSetTopLevels
    <3> QED
      BY <1>6, <2>2, <3>3, <3>4 DEF AmUseFp, AmTypes, amLineVars, amKernelVars
  <2> QED
    BY <2>1, <2>2
<1>7. ASSUME NEW l \in AmLines, AmRaise(l) PROVE AmTypes'
  BY <1>7 DEF AmRaise, AmTypes, amKernelVars
<1>8. ASSUME NEW l \in AmLines, AmTakeInterrupt(l) PROVE AmTypes'
  <2>1. AmEntry(l)
    BY <1>8 DEF AmTakeInterrupt
  <2>2. amCpu' \in AmRegisters /\ amLevels' \in AmNesting
    BY <2>1, AmEntryTypes
  <2> QED
    BY <1>8, <2>2 DEF AmTakeInterrupt, AmTypes, amKernelVars
<1>9. ASSUME NEW l \in AmLines, AmToggleLine(l) PROVE AmTypes'
  BY <1>9 DEF AmToggleLine, AmTypes, amKernelVars
<1>10. CASE AmHandlerReturns
  <2>1. AmLevel > 0 /\ AmReturn(amCpu, AmTop.ret) /\ AmTop.ret \in AmReturns
    BY <1>10, AmTopLevel DEF AmHandlerReturns, AmInBody
  <2>2. amCpu' \in AmRegisters /\ amLevels' \in AmNesting
    BY <1>0, <2>1, AmReturnTypes
  <2> QED
    BY <1>10, <2>2 DEF AmHandlerReturns, AmTypes, amLineVars, amKernelVars
<1>11. CASE AmPendSvEntry
  <2>1. AmEntry("PendSV")
    BY <1>11 DEF AmPendSvEntry
  <2>2. amCpu' \in AmRegisters /\ amLevels' \in AmNesting
    BY <2>1, AmEntryTypes
  <2> QED
    BY <1>11, <2>2 DEF AmPendSvEntry, AmTypes, amLineVars, amKernelVars
<1>12. CASE AmSave
  <2>1. AmLevel > 0 /\ amLevels' = AmSetTop([AmTop EXCEPT !.step = "choose"])
    BY <1>12 DEF AmSave, AmPendSvAt
  <2>2. amLevels' \in AmNesting
    BY <2>1, AmTopLevel, AmSetTopLevels
  <2>3. amCpu' \in AmRegisters
    BY <1>0, <1>12, AmValueTypes DEF AmSave, AmRegisters
  <2>4. amTaskSp' \in [Tasks -> Seq(AmFrames)]
    <3>1. CASE amRunning = NoTask
      BY <1>0, <1>12, <3>1 DEF AmSave
    <3>2. CASE amRunning # NoTask
      <4>1. amRunning \in Tasks
        BY <3>2 DEF AmTypes
      <4>2. LET sx == Push(amCpu.psp, "s", amCpu.s)
                sf == IF AmTop.ret.fp THEN Push(sx, "fs", amCpu.fs) ELSE sx
            IN  /\ Push(sf, "ret", AmTop.ret) \in Seq(AmFrames)
                /\ amTaskSp' = [amTaskSp EXCEPT ![amRunning] = Push(sf, "ret", AmTop.ret)]
        BY <1>12, <2>1, <3>2, <4>1, AmSaveIs DEF AmSave
      <4> QED
        BY <1>0, <4>1, <4>2
    <3> QED
      BY <3>1, <3>2
  <2> QED
    BY <1>12, <2>2, <2>3, <2>4 DEF AmSave, AmTypes, amLineVars
<1>13. CASE AmChoose
  <2>1. AmLevel > 0 /\ amLevels' = AmSetTop([AmTop EXCEPT !.step = "restore"])
    BY <1>13 DEF AmChoose, AmPendSvAt
  <2>2. amLevels' \in AmNesting
    BY <2>1, AmTopLevel, AmSetTopLevels
  <2> QED
    BY <1>13, <2>2 DEF AmChoose, AmTypes, amLineVars
<1>14. CASE AmRestore
  <2>0. AmLevel > 0
    BY <1>14 DEF AmRestore, AmPendSvAt
  <2>1. CASE amRunning = NoTask
    <3>1. [amCpu EXCEPT !.spsel = FALSE] \in AmRegisters /\ [psp |-> FALSE, fp |-> FALSE] \in AmReturns
      BY <1>0 DEF AmRegisters, AmReturns
    <3>2. AmReturn([amCpu EXCEPT !.spsel = FALSE], [psp |-> FALSE, fp |-> FALSE])
      BY <1>14, <2>1 DEF AmRestore
    <3>3. amCpu' \in AmRegisters /\ amLevels' \in AmNesting
      BY <2>0, <3>1, <3>2, AmReturnTypes
    <3> QED
      BY <1>14, <2>1, <3>3 DEF AmRestore, AmTypes, amLineVars
  <2>2. CASE amRunning # NoTask
    <3>0. PICK u \in BOOLEAN : u = (amRunning \in amFpUsers)
      BY TruthOfMembership
    <3> DEFINE c == [amCpu EXCEPT !.fs = IF u THEN amRunning ELSE @, !.s = amRunning,
                                  !.spsel = TRUE, !.psp = AmTaskFrame(amRunning, u)]
               ret == [psp |-> TRUE, fp |-> u]
    <3>1. AmReturn(c, ret) /\ amRunning \in Tasks
      BY <1>14, <2>2, <3>0, AmRestoreIs
    <3>2. AmTaskFrame(amRunning, u) \in Seq(AmFrames)
      BY <3>1, AmTaskFrameIs
    <3>3. amRunning \in AmValues
      BY <3>1, AmValueTypes
    <3>4. c \in AmRegisters /\ ret \in AmReturns
      BY <1>0, <3>2, <3>3 DEF AmRegisters, AmReturns
    <3> HIDE DEF c, ret
    <3>5. amCpu' \in AmRegisters /\ amLevels' \in AmNesting
      BY <2>0, <3>1, <3>4, AmReturnTypes
    <3>6. amTaskSp' \in [Tasks -> Seq(AmFrames)] /\ amPspOwner' = amRunning
      BY <1>0, <1>14, <2>2, <3>1 DEF AmRestore
    <3> QED
      BY <1>14, <3>1, <3>5, <3>6 DEF AmRestore, AmTypes, amLineVars
  <2> QED
    BY <2>1, <2>2
<1> QED
  BY <1>1, <1>2, <1>3, <1>4, <1>5, <1>6, <1>7, <1>8, <1>9, <1>10, <1>11, <1>12, <1>13, <1>14
     DEF AmNext

\* A return to a task finds the frame the hardware stacked for it.
LEMMA AmReturnToTask ==
  ASSUME NEW c \in AmRegisters, NEW t \in Tasks, NEW fp \in BOOLEAN,
         c.psp = AmTaskFrame(t, fp), AmReturn(c, [psp |-> TRUE, fp |-> fp])
  PROVE  /\ amCpu'.x = t /\ amCpu'.f = (IF fp THEN t ELSE c.f) /\ amCpu'.fpca = fp
         /\ amCpu'.psp = <<>> /\ amCpu'.msp = c.msp
         /\ amCpu'.s = c.s /\ amCpu'.fs = c.fs /\ amCpu'.spsel = c.spsel
<1> DEFINE frames == AmTaskFrame(t, fp)
           left == IF fp THEN Drop(Drop(frames)) ELSE Drop(frames)
<1>1. amCpu' = [c EXCEPT !.x = OnTop(frames, "basic", Junk),
                         !.f = IF fp THEN OnTop(Drop(frames), "FP", Junk) ELSE @,
                         !.fpca = fp, !.psp = left, !.msp = @]
  BY DEF AmReturn, AmUnstack
<1>2. /\ OnTop(frames, "basic", Junk) = t /\ left = <<>>
      /\ fp => OnTop(Drop(frames), "FP", Junk) = t
  BY AmTaskFrameIs
<1> HIDE DEF frames, left
<1> QED
  BY <1>1, <1>2 DEF AmRegisters

\* A return to the idle task or to a handler pops what was pushed for it.
LEMMA AmReturnToMsp ==
  ASSUME NEW c \in AmRegisters, NEW fp \in BOOLEAN, NEW lower \in Seq(AmFrames),
         NEW v \in AmValues, NEW w \in AmValues,
         c.msp = Push(IF fp THEN Push(lower, "FP", w) ELSE lower, "basic", v),
         AmReturn(c, [psp |-> FALSE, fp |-> fp])
  PROVE  /\ amCpu'.x = v /\ amCpu'.f = (IF fp THEN w ELSE c.f) /\ amCpu'.fpca = fp
         /\ amCpu'.psp = c.psp /\ amCpu'.msp = lower
         /\ amCpu'.s = c.s /\ amCpu'.fs = c.fs /\ amCpu'.spsel = c.spsel
<1> DEFINE l == IF fp THEN Push(lower, "FP", w) ELSE lower
           left == IF fp THEN Drop(Drop(c.msp)) ELSE Drop(c.msp)
<1>1. amCpu' = [c EXCEPT !.x = OnTop(c.msp, "basic", Junk),
                         !.f = IF fp THEN OnTop(Drop(c.msp), "FP", Junk) ELSE @,
                         !.fpca = fp, !.psp = @, !.msp = left]
  BY DEF AmReturn, AmUnstack
<1>2. /\ Push(lower, "FP", w) \in Seq(AmFrames) /\ Drop(Push(lower, "FP", w)) = lower
      /\ \A d : OnTop(Push(lower, "FP", w), "FP", d) = w
  BY PushFrame
<1>3. l \in Seq(AmFrames) /\ c.msp = Push(l, "basic", v)
      /\ (fp => Drop(l) = lower /\ \A d : OnTop(l, "FP", d) = w) /\ (~fp => l = lower)
  BY <1>2
<1> HIDE DEF l
<1>4. Drop(c.msp) = l /\ \A d : OnTop(c.msp, "basic", d) = v
  <2>1. Drop(Push(l, "basic", v)) = l /\ \A d : OnTop(Push(l, "basic", v), "basic", d) = v
    BY <1>3, PushFrame
  <2> QED
    BY <1>3, <2>1
<1>5. /\ OnTop(c.msp, "basic", Junk) = v /\ left = lower
      /\ fp => OnTop(Drop(c.msp), "FP", Junk) = w
  BY <1>3, <1>4
<1> HIDE DEF left
<1> QED
  BY <1>1, <1>5 DEF AmRegisters

AmContext == /\ AmNested /\ AmCurrent /\ AmParked /\ AmHandling /\ AmMainStack

\* Operations that concern no context.
LEMMA AmSameContext ==
  ASSUME AmInv, UNCHANGED <<amCpu, amStarted, amKernelVars, amLevels, amPspOwner, amFpUsers>>
  PROVE  AmContext'
<1>1. AmNested' /\ AmCurrent' /\ AmParked' /\ AmHandling'
  BY DEF AmInv, AmNested, AmCurrent, AmParked, AmHandling, AmThread, AmSwitching, AmLevel, AmTop,
         amKernelVars
<1>2. AmMainStack'
  <2>1. AmLevel' = AmLevel /\ (amStarted' => AmMainStack /\ amStarted)
    BY DEF AmInv, AmLevel
  <2>2. ASSUME NEW b, AmStacks(b) PROVE AmStacks(b)'
    BY <2>2 DEF AmStacks, AmIdleStack, AmEntered, AmLevel
  <2> QED
    BY <2>1, <2>2 DEF AmMainStack
<1> QED
  BY <1>1, <1>2 DEF AmContext

\* The idle task starts with an empty MSP.
LEMMA AmEmptyMainStack ==
  ASSUME amLevels' = <<>>, amCpu'.msp = <<>>, amCpu'.spsel = FALSE
  PROVE  AmMainStack'
<1> DEFINE b == [i \in 0 .. 0 |-> <<>>]
<1>1. AmLevel' = 0
  BY DEF AmLevel
<1>2. b \in [0 .. 0 -> Seq(AmFrames)] /\ b[0] = <<>>
  OBVIOUS
<1> HIDE DEF b
<1>3. AmStacks(b)'
  BY <1>1, <1>2 DEF AmStacks, AmIdleStack
<1> QED
  BY <1>1, <1>2, <1>3 DEF AmMainStack

LEMMA AmPortBootKeeps ==
  ASSUME AmInv, NEW active \in SUBSET Tasks, AmPortBoot(active)
  PROVE  AmContext'
<1>1. /\ amLevels = <<>> /\ amLevels' = <<>> /\ amRunning' = NoTask /\ amStarted'
      /\ amActive' = active /\ amFpUsers' = {}
  BY DEF AmPortBoot, AmInv, AmNested
<1>2. amCpu'.msp = <<>> /\ amCpu'.spsel = FALSE
  BY DEF AmPortBoot, AmIdleTask, AmInv, AmTypes, AmRegisters
<1>3. AmNested' /\ AmHandling'
  BY <1>1, <1>2 DEF AmNested, AmHandling, AmLevel
<1>4. AmCurrent'
  BY <1>1, <1>2 DEF AmCurrent, AmThread
<1>5. AmParked'
  <2>1. \A t \in active : amTaskSp'[t] = AmSaved(t, FALSE)
    BY AmInitializeIs DEF AmPortBoot
  <2>2. \A t \in active : (t \in amFpUsers') = FALSE
    BY <1>1
  <2> QED
    BY <1>1, <2>1, <2>2 DEF AmParked
<1>6. AmMainStack'
  BY <1>1, <1>2, AmEmptyMainStack
<1> QED
  BY <1>3, <1>4, <1>5, <1>6 DEF AmContext

LEMMA AmActivateKeeps ==
  ASSUME AmInv, NEW t \in Tasks, AmActivate(t)
  PROVE  AmContext'
<1>1. /\ t \notin amActive /\ amActive' = amActive \cup {t} /\ amFpUsers' = amFpUsers \ {t}
      /\ amTaskSp' = [amTaskSp EXCEPT ![t] = AmSaved(t, FALSE)]
      /\ UNCHANGED <<amCpu, amStarted, amRunning, amLevels, amPspOwner>>
  BY AmInitializeIs DEF AmActivate
<1>2. amCpu.spsel => amPspOwner # t
  BY <1>1 DEF AmInv, AmCurrent
<1>3. AmNested' /\ AmHandling'
  BY <1>1 DEF AmInv, AmNested, AmHandling, AmLevel, AmTop
<1>4. AmCurrent'
  BY <1>1, <1>2 DEF AmInv, AmCurrent, AmThread, AmSwitching
<1>5. AmParked'
  <2> SUFFICES ASSUME NEW u \in amActive', AmSwitching' \/ ~amCpu'.spsel \/ u # amPspOwner'
               PROVE  amTaskSp'[u] = AmSaved(u, u \in amFpUsers')
    BY DEF AmParked
  <2>1. CASE u = t
    <3>1. amTaskSp'[u] = AmSaved(u, FALSE) /\ (u \in amFpUsers') = FALSE
      BY <1>1, <2>1 DEF AmInv, AmTypes
    <3> QED
      BY <3>1
  <2>2. CASE u # t
    <3>1. amTaskSp[u] = AmSaved(u, u \in amFpUsers)
      BY <1>1, <2>2 DEF AmInv, AmParked, AmSwitching
    <3>2. amTaskSp'[u] = amTaskSp[u] /\ (u \in amFpUsers') = (u \in amFpUsers)
      BY <1>1, <2>2 DEF AmInv, AmTypes
    <3> QED
      BY <3>1, <3>2
  <2> QED
    BY <2>1, <2>2
<1>6. AmMainStack'
  <2>1. ASSUME NEW b, AmStacks(b) PROVE AmStacks(b)'
    BY <1>1, <2>1 DEF AmStacks, AmIdleStack, AmEntered, AmLevel
  <2> QED
    BY <1>1, <2>1 DEF AmMainStack, AmInv, AmLevel
<1> QED
  BY <1>3, <1>4, <1>5, <1>6 DEF AmContext

LEMMA AmExitKeeps ==
  ASSUME AmInv, NEW t \in Tasks, AmExit(t)
  PROVE  AmContext'
<1>1. /\ amLevels = <<>> /\ amLevels' = <<>> /\ amRunning' = NoTask /\ amStarted /\ amStarted'
      /\ amActive' = amActive \ {t} /\ amFpUsers' = amFpUsers /\ amTaskSp' = amTaskSp
      /\ amCpu.spsel /\ amPspOwner = t
  BY TasksAssumption DEF AmExit, AmInTask, AmInThread, AmThread
<1>2. amCpu'.msp = <<>> /\ amCpu'.spsel = FALSE
  BY DEF AmExit, AmIdleTask, AmInv, AmTypes, AmRegisters
<1>3. AmNested' /\ AmHandling'
  BY <1>1, <1>2 DEF AmNested, AmHandling, AmLevel
<1>4. AmCurrent'
  BY <1>1, <1>2 DEF AmCurrent, AmThread
<1>5. AmParked'
  BY <1>1 DEF AmInv, AmParked
<1>6. AmMainStack'
  BY <1>1, <1>2, AmEmptyMainStack
<1> QED
  BY <1>3, <1>4, <1>5, <1>6 DEF AmContext

\* MSP is not concerned by what an exception that stays the innermost one does.
LEMMA AmSameMainStack ==
  ASSUME AmInv, amStarted, amStarted', AmLevel' = AmLevel, amLevels' = <<>> <=> amLevels = <<>>,
         amCpu'.msp = amCpu.msp, amCpu'.spsel = amCpu.spsel,
         \A i \in 1 .. AmLevel : amLevels'[i].ret = amLevels[i].ret,
         \A i \in 1 .. AmLevel - 1 : amLevels'[i].usesFp = amLevels[i].usesFp,
         amLevels = <<>> /\ ~amCpu.spsel => amCpu'.fpca = amCpu.fpca
  PROVE  AmMainStack'
<1>1. PICK b \in [0 .. AmLevel -> Seq(AmFrames)] : AmStacks(b)
  BY DEF AmInv, AmMainStack
<1>2. AmLevel \in Nat /\ (amLevels # <<>> => 1 \in 1 .. AmLevel)
  BY LenEmpty DEF AmInv, AmTypes, AmNesting, AmLevel
<1>3. AmIdleStack(b[0], IF amLevels = <<>> THEN amCpu.fpca ELSE amLevels[1].ret.fp)'
  BY <1>1, <1>2 DEF AmStacks, AmIdleStack
<1>4. ASSUME NEW i \in 1 .. AmLevel, AmEntered(i, b[i - 1], b[i])
      PROVE  AmEntered(i, b[i - 1], b[i])'
  <2>1. i > 1 => i - 1 \in 1 .. AmLevel - 1
    BY <1>2
  <2> QED
    BY <1>4, <2>1 DEF AmEntered
<1>5. AmStacks(b)'
  BY <1>1, <1>3, <1>4 DEF AmStacks
<1> QED
  BY <1>1, <1>5 DEF AmMainStack

\* An FP instruction of a task or a handler changes no context but its own.
LEMMA AmUseFpKeeps ==
  ASSUME AmInv, AmUseFp
  PROVE  AmContext'
<1>0. /\ AmTypes /\ amStarted /\ amStarted'
      /\ UNCHANGED <<amTaskSp, amRunning, amActive, amPspOwner>>
      /\ amCpu \in AmRegisters
  BY DEF AmUseFp, AmInThread, AmInBody, AmInv, AmNested, AmLevel, amKernelVars, AmTypes
<1>1. CASE AmInThread
  <2>1. /\ amLevels = <<>> /\ amLevels' = <<>> /\ amCpu.spsel /\ AmThread = amPspOwner
        /\ amPspOwner \in amActive /\ amPspOwner \in Tasks
        /\ amFpUsers' = amFpUsers \cup {amPspOwner}
        /\ amCpu' = [amCpu EXCEPT !.fpca = TRUE, !.f = amPspOwner, !.fs = amPspOwner]
    <3>1. amLevels = <<>> /\ AmThread \in Tasks
      BY <1>1 DEF AmUseFp, AmInThread, AmInBody, AmLevel
    <3>2. amCpu.spsel /\ AmThread = amPspOwner
      BY <3>1, TasksAssumption DEF AmThread
    <3>3. amPspOwner \in amActive
      BY <3>2 DEF AmInv, AmCurrent
    <3>4. /\ amLevels' = amLevels /\ amFpUsers' = amFpUsers \cup {AmThread}
          /\ amCpu' = [amCpu EXCEPT !.fpca = TRUE, !.f = AmThread, !.fs = AmThread]
      BY <1>1 DEF AmUseFp
    <3> QED
      BY <3>1, <3>2, <3>3, <3>4
  <2>2. /\ amCpu'.fpca = TRUE /\ amCpu'.f = amPspOwner /\ amCpu'.fs = amPspOwner
        /\ amCpu'.x = amCpu.x /\ amCpu'.s = amCpu.s /\ amCpu'.psp = amCpu.psp
        /\ amCpu'.msp = amCpu.msp /\ amCpu'.spsel = amCpu.spsel
    BY <1>0, <2>1 DEF AmRegisters
  <2>3. AmNested' /\ AmHandling'
    BY <1>0, <2>1 DEF AmNested, AmHandling, AmLevel
  <2>4. AmCurrent'
    BY <1>0, <2>1, <2>2 DEF AmInv, AmCurrent, AmThread, AmSwitching
  <2>5. AmParked'
    <3> SUFFICES ASSUME NEW u \in amActive, u # amPspOwner
                 PROVE  amTaskSp[u] = AmSaved(u, u \in amFpUsers')
      BY <1>0, <2>1, <2>2 DEF AmParked, AmSwitching
    <3>1. (u \in amFpUsers') = (u \in amFpUsers)
      BY <2>1
    <3> QED
      BY <3>1 DEF AmInv, AmParked
  <2>6. AmMainStack'
    <3>1. AmLevel' = AmLevel /\ AmLevel = 0
      BY <2>1 DEF AmLevel
    <3> QED
      BY <1>0, <2>1, <2>2, <3>1, AmSameMainStack
  <2> QED
    BY <2>3, <2>4, <2>5, <2>6 DEF AmContext
<1>2. CASE ~AmInThread
  <2>1. AmLevel > 0 /\ AmLevel \in Nat /\ amLevels # <<>>
    BY <1>0, <1>2, AmTopLevel DEF AmUseFp, AmInBody
  <2>2. /\ amLevels' = AmSetTop([AmTop EXCEPT !.usesFp = TRUE]) /\ amFpUsers' = amFpUsers
        /\ amCpu' = [amCpu EXCEPT !.fpca = TRUE, !.f = HandlerValue(AmLevel)]
    BY <1>2 DEF AmUseFp
  <2>3. /\ amCpu'.fpca = TRUE /\ amCpu'.f = HandlerValue(AmLevel) /\ amCpu'.fs = amCpu.fs
        /\ amCpu'.x = amCpu.x /\ amCpu'.s = amCpu.s /\ amCpu'.psp = amCpu.psp
        /\ amCpu'.msp = amCpu.msp /\ amCpu'.spsel = amCpu.spsel
    BY <1>0, <2>2 DEF AmRegisters
  <2>4. /\ AmLevel' = AmLevel /\ amLevels' # <<>>
        /\ \A i \in 1 .. AmLevel - 1 : amLevels'[i] = amLevels[i]
        /\ \A i \in 1 .. AmLevel : /\ amLevels'[i].exc = amLevels[i].exc
                                   /\ amLevels'[i].ret = amLevels[i].ret
                                   /\ amLevels'[i].step = amLevels[i].step
    <3>1. /\ AmLevel' = AmLevel /\ amLevels' # <<>>
          /\ \A i \in 1 .. AmLevel - 1 : amLevels'[i] = amLevels[i]
          /\ amLevels'[AmLevel] = [AmTop EXCEPT !.usesFp = TRUE]
      BY <1>0, <2>1, <2>2, AmTopLevel, AmSetTopLevels
    <3>2. /\ amLevels'[AmLevel].exc = AmTop.exc /\ amLevels'[AmLevel].ret = AmTop.ret
          /\ amLevels'[AmLevel].step = AmTop.step
      BY <1>0, <2>1, <3>1, AmTopLevel
    <3>3. \A i \in 1 .. AmLevel : i \in 1 .. AmLevel - 1 \/ i = AmLevel
      BY <2>1
    <3> QED
      BY <3>1, <3>2, <3>3 DEF AmTop
  <2>5. 1 \in 1 .. AmLevel /\ \A i \in 2 .. AmLevel : i \in 1 .. AmLevel
    BY <2>1
  <2>6. AmNested' /\ AmHandling'
    BY <1>0, <2>1, <2>3, <2>4, <2>5 DEF AmInv, AmNested, AmHandling
  <2>7. AmSwitching' = AmSwitching /\ AmThread' = AmThread
    BY <1>0, <2>1, <2>3, <2>4, <2>5 DEF AmThread, AmSwitching
  <2>8. AmCurrent'
    BY <1>0, <2>1, <2>2, <2>3, <2>4, <2>5, <2>7 DEF AmInv, AmCurrent, AmThread
  <2>9. AmParked'
    BY <1>0, <2>2, <2>3, <2>7 DEF AmInv, AmParked
  <2>10. AmMainStack'
    BY <1>0, <2>1, <2>3, <2>4, AmSameMainStack
  <2> QED
    BY <2>6, <2>8, <2>9, <2>10 DEF AmContext
<1> QED
  BY <1>1, <1>2

\* An exception is entered: what it interrupts is stacked where it will be found.
LEMMA AmEntryKeeps ==
  ASSUME AmInv, amStarted, amStarted', NEW exc \in AmLines \cup {"PendSV"}, AmEntry(exc),
         exc = "PendSV" => amLevels = <<>>,
         UNCHANGED <<amKernelVars, amPspOwner, amFpUsers>>
  PROVE  AmContext'
<1>l. AmLevel \in Nat /\ (AmLevel = 0 <=> amLevels = <<>>)
  BY LenEmpty DEF AmInv, AmTypes, AmLevel, AmNesting
<1>n. PICK L \in Nat : L = AmLevel
  BY <1>l
<1> DEFINE toPsp == amCpu.spsel /\ L = 0
<1>0. /\ AmTypes /\ amCpu \in AmRegisters /\ L \in Nat /\ (L = 0 <=> amLevels = <<>>)
      /\ (L # 0 => 1 \in 1 .. L) /\ amCpu.spsel \in BOOLEAN
  BY <1>l, <1>n DEF AmInv, AmTypes, AmRegisters
<1>1. /\ amLevels' \in AmNesting /\ AmLevel' = L + 1 /\ amLevels' # <<>>
      /\ \A i \in 1 .. L : amLevels'[i] = amLevels[i]
      /\ amLevels'[L + 1] = [exc |-> exc, ret |-> [psp |-> toPsp, fp |-> amCpu.fpca],
                             step |-> "save", usesFp |-> FALSE]
  BY <1>0, <1>n, AmPushLevels
<1>2. /\ amLevels'[L + 1].exc = exc
      /\ L = 0 => amLevels'[L + 1].ret.psp = amCpu.spsel
      /\ L # 0 => amLevels'[L + 1].ret.psp = FALSE
      /\ amLevels'[L + 1].ret.fp = amCpu.fpca /\ amLevels'[L + 1].step = "save"
      /\ amLevels'[L + 1].usesFp = FALSE
  <2>1. L = 0 => toPsp = amCpu.spsel
    BY <1>0
  <2>2. L # 0 => toPsp = FALSE
    OBVIOUS
  <2> HIDE DEF toPsp
  <2>3. amLevels'[L + 1].ret.psp = toPsp
    BY <1>1
  <2> QED
    BY <1>1, <2>1, <2>2, <2>3
<1>3. amCpu' = [amCpu EXCEPT
                !.psp = IF toPsp THEN AmStack(@) ELSE @, !.msp = IF toPsp THEN @ ELSE AmStack(@),
                !.x = HandlerValue(L + 1), !.f = IF amCpu.fpca THEN Junk ELSE @, !.fpca = FALSE]
  BY <1>n DEF AmEntry
<1>4. /\ amCpu'.x = HandlerValue(L + 1) /\ amCpu'.s = amCpu.s /\ amCpu'.fs = amCpu.fs
      /\ amCpu'.spsel = amCpu.spsel
      /\ amCpu'.psp = (IF toPsp THEN AmStack(amCpu.psp) ELSE amCpu.psp)
      /\ amCpu'.msp = (IF toPsp THEN amCpu.msp ELSE AmStack(amCpu.msp))
  BY <1>0, <1>3 DEF AmRegisters
<1>5. \A i \in 2 .. L + 1 : i = L + 1 \/ (i \in 2 .. L /\ i \in 1 .. L)
  BY <1>0
<1>6. L = 0 \/ (amLevels # <<>> /\ amLevels'[1] = amLevels[1])
  BY <1>0, <1>1
<1>7. AmNested'
  <2>1. amLevels'[1].ret.psp = amCpu.spsel
    BY <1>0, <1>2, <1>6 DEF AmInv, AmNested
  <2>2. \A i \in 2 .. L + 1 : amLevels'[i].exc # "PendSV" /\ ~amLevels'[i].ret.psp
    <3> SUFFICES ASSUME NEW i \in 2 .. L + 1
                 PROVE  amLevels'[i].exc # "PendSV" /\ ~amLevels'[i].ret.psp
      OBVIOUS
    <3>1. CASE i = L + 1
      BY <1>0, <1>2, <3>1
    <3>2. CASE i \in 2 .. L /\ i \in 1 .. L
      BY <1>1, <1>n, <3>2 DEF AmInv, AmNested
    <3> QED
      BY <1>5, <3>1, <3>2
  <2> QED
    BY <1>1, <1>4, <2>1, <2>2 DEF AmNested
<1>8. AmHandling'
  BY <1>1, <1>2, <1>4 DEF AmHandling, AmTop
<1>9. AmCurrent' /\ AmParked'
  <2>1. CASE L = 0
    <3>1. /\ amLevels = <<>> /\ ~AmSwitching /\ ~AmSwitching' /\ amLevels' # <<>>
          /\ amLevels'[1].step = "save" /\ amLevels'[1].ret.fp = amCpu.fpca
      BY <1>0, <1>1, <1>2, <2>1 DEF AmSwitching
    <3>2. amCpu.spsel => amCpu'.psp = AmTaskFrame(amPspOwner, amCpu.fpca)
      BY <1>4, <2>1, <3>1 DEF AmInv, AmCurrent, AmStack, AmTaskFrame
    <3>3. AmCurrent'
      BY <1>4, <3>1, <3>2 DEF AmInv, AmCurrent, AmThread, amKernelVars
    <3>4. AmParked'
      BY <1>4, <3>1 DEF AmInv, AmParked, amKernelVars
    <3> QED
      BY <3>3, <3>4
  <2>2. CASE L # 0
    <3>1. AmSwitching' = AmSwitching /\ amLevels # <<>> /\ amLevels'[1] = amLevels[1] /\ amLevels' # <<>>
      BY <1>1, <1>6, <2>2 DEF AmSwitching
    <3>2. amCpu'.psp = amCpu.psp
      BY <1>4, <2>2
    <3>3. AmCurrent'
      BY <1>4, <3>1, <3>2 DEF AmInv, AmCurrent, AmThread, amKernelVars
    <3>4. AmParked'
      BY <1>4, <3>1 DEF AmInv, AmParked, amKernelVars
    <3> QED
      BY <3>3, <3>4
  <2> QED
    BY <2>1, <2>2
<1>10. AmMainStack'
  <2>1. PICK b \in [0 .. L -> Seq(AmFrames)] : AmStacks(b)
    BY <1>n DEF AmInv, AmMainStack
  <2>2. amCpu'.msp \in Seq(AmFrames)
    BY <1>0, AmEntryTypes DEF AmRegisters
  <2>3. PICK m \in Seq(AmFrames) : m = amCpu'.msp
    BY <2>2
  <2>c. PICK c : c = [i \in 0 .. L + 1 |-> IF i = L + 1 THEN m ELSE b[i]]
    OBVIOUS
  <2>4. c \in [0 .. L + 1 -> Seq(AmFrames)]
    BY <1>0, <2>1, <2>3, <2>c
  <2>5. c[L + 1] = m /\ \A i \in 0 .. L : c[i] = b[i]
    BY <1>0, <2>c
  <2>6. 0 \in 0 .. L /\ L \in 0 .. L
    BY <1>0
  <2>7. AmIdleStack(c[0], amLevels[1].ret.fp)'
    <3>1. AmIdleStack(b[0], IF L = 0 THEN amCpu.fpca ELSE amLevels[1].ret.fp)
      BY <1>0, <2>1 DEF AmStacks
    <3>2. amLevels'[1].ret.fp = IF L = 0 THEN amCpu.fpca ELSE amLevels[1].ret.fp
      BY <1>2, <1>6
    <3> QED
      BY <1>4, <2>5, <2>6, <3>1, <3>2 DEF AmIdleStack
  <2>8. ASSUME NEW i \in 1 .. L
        PROVE  (IF amLevels[i].ret.psp THEN c[i] = c[i - 1] ELSE AmEntered(i, c[i - 1], c[i]))'
    <3>1. i \in 0 .. L /\ i - 1 \in 0 .. L /\ (i > 1 => i - 1 \in 1 .. L)
      BY <1>0
    <3>2. IF amLevels[i].ret.psp THEN b[i] = b[i - 1] ELSE AmEntered(i, b[i - 1], b[i])
      BY <1>n, <2>1 DEF AmStacks
    <3> QED
      BY <1>1, <2>5, <3>1, <3>2 DEF AmEntered
  <2>9. (IF amLevels[L + 1].ret.psp THEN c[L + 1] = c[L] ELSE AmEntered(L + 1, c[L], c[L + 1]))'
    <3>1. c[L] = amCpu.msp
      BY <1>n, <2>1, <2>5, <2>6 DEF AmStacks
    <3>2. CASE toPsp
      BY <1>2, <1>4, <2>3, <2>5, <3>1, <3>2
    <3>3. CASE ~toPsp
      <4>1. /\ m = Push(IF amCpu.fpca THEN Push(c[L], "FP", amCpu.f) ELSE c[L], "basic", amCpu.x)
            /\ amCpu.x \in AmValues /\ amCpu.f \in AmValues
        BY <1>0, <1>4, <2>3, <3>1, <3>3 DEF AmStack, AmRegisters
      <4>2. L + 1 > 1 => /\ amCpu.x = HandlerValue(L)
                         /\ amLevels'[L].usesFp => amCpu.fpca /\ amCpu.f = HandlerValue(L)
        BY <1>0, <1>1, <1>n DEF AmInv, AmHandling, AmTop
      <4>3. (L + 1) - 1 = L
        BY <1>0
      <4>4. AmEntered(L + 1, c[L], c[L + 1])'
        BY <1>2, <2>5, <4>1, <4>2, <4>3 DEF AmEntered
      <4> QED
        BY <1>2, <3>3, <4>4
    <3> QED
      BY <3>2, <3>3
  <2>10. \A i \in 1 .. L + 1 : i \in 1 .. L \/ (i = L + 1 /\ i - 1 = L)
    BY <1>0
  <2>11. AmStacks(c)'
    BY <1>1, <2>3, <2>5, <2>7, <2>8, <2>9, <2>10 DEF AmStacks
  <2> QED
    BY <1>1, <2>4, <2>11 DEF AmMainStack
<1> QED
  BY <1>7, <1>8, <1>9, <1>10 DEF AmContext

\* What is left of MSP after the innermost exception has taken its part of it.
LEMMA AmPopMainStack ==
  ASSUME AmInv, amStarted, amStarted', NEW L \in Nat, L = AmLevel, AmLevel' = L - 1, L > 0,
         amLevels' = <<>> <=> L = 1, \A i \in 1 .. L - 1 : amLevels'[i] = amLevels[i],
         NEW b \in [0 .. L -> Seq(AmFrames)], AmStacks(b), L > 1,
         amCpu'.msp = b[L - 1], amCpu'.spsel = amCpu.spsel
  PROVE  AmMainStack'
<1>1. PICK c : c = [i \in 0 .. L - 1 |-> b[i]]
  OBVIOUS
<1>2. c \in [0 .. L - 1 -> Seq(AmFrames)] /\ \A i \in 0 .. L - 1 : c[i] = b[i]
  BY <1>1
<1>3. 0 \in 0 .. L - 1 /\ L - 1 \in 0 .. L - 1 /\ 1 \in 1 .. L - 1 /\ amLevels # <<>>
  BY LenEmpty DEF AmInv, AmTypes, AmNesting, AmLevel
<1>4. AmIdleStack(c[0], amLevels[1].ret.fp)'
  <2>1. AmIdleStack(b[0], amLevels[1].ret.fp)
    BY <1>3 DEF AmStacks
  <2> QED
    BY <1>2, <1>3, <2>1 DEF AmIdleStack
<1>5. ASSUME NEW i \in 1 .. L - 1
      PROVE  (IF amLevels[i].ret.psp THEN c[i] = c[i - 1] ELSE AmEntered(i, c[i - 1], c[i]))'
  <2>1. i \in 0 .. L - 1 /\ i - 1 \in 0 .. L - 1 /\ (i > 1 => i - 1 \in 1 .. L - 1) /\ i \in 1 .. L
    OBVIOUS
  <2>2. IF amLevels[i].ret.psp THEN b[i] = b[i - 1] ELSE AmEntered(i, b[i - 1], b[i])
    BY <2>1 DEF AmStacks
  <2> QED
    BY <1>2, <2>1, <2>2 DEF AmEntered
<1>6. AmStacks(c)'
  BY <1>2, <1>3, <1>4, <1>5 DEF AmStacks
<1> QED
  BY <1>2, <1>6 DEF AmMainStack

\* The end of a handler, nested or not: what it interrupted goes on as it was.
LEMMA AmHandlerReturnsKeeps ==
  ASSUME AmInv, AmHandlerReturns
  PROVE  AmContext'
<1>0. /\ AmTypes /\ amCpu \in AmRegisters /\ AmLevel > 0 /\ AmLevel \in Nat /\ amLevels # <<>>
      /\ AmTop.exc # "PendSV" /\ AmTop.ret \in AmReturns
      /\ AmReturn(amCpu, AmTop.ret) /\ amLevels' = SubSeq(amLevels, 1, AmLevel - 1)
      /\ UNCHANGED <<amTaskSp, amRunning, amActive, amPspOwner, amFpUsers, amStarted>>
  BY AmTopLevel DEF AmHandlerReturns, AmInBody, AmInv, AmTypes, AmReturn, amKernelVars
<1>s. amStarted /\ amStarted'
  BY <1>0 DEF AmInv, AmNested
<1>n. PICK L \in Nat : L = AmLevel /\ L > 0
  BY <1>0
<1>1. /\ amLevels' \in AmNesting /\ AmLevel' = L - 1
      /\ \A i \in 1 .. L - 1 : amLevels'[i] = amLevels[i]
      /\ amLevels' = <<>> <=> L = 1
  BY <1>0, <1>n, AmPopLevels
<1>b. PICK b \in [0 .. L -> Seq(AmFrames)] : AmStacks(b)
  BY <1>n, <1>s DEF AmInv, AmMainStack
<1>2. PICK fp \in BOOLEAN : fp = AmTop.ret.fp
  BY <1>0 DEF AmReturns
<1>3. CASE L = 1
  <2>1. /\ AmTop = amLevels[1] /\ amLevels' = <<>> /\ ~AmSwitching /\ AmLevel' = 0
        /\ ~AmSwitching' /\ AmTop.ret.psp = amCpu.spsel
    BY <1>0, <1>1, <1>3, <1>n DEF AmTop, AmSwitching, AmInv, AmNested
  <2>2. AmNested' /\ AmHandling'
    BY <1>s, <2>1 DEF AmNested, AmHandling
  <2>3. CASE amCpu.spsel
    <3>1. /\ amPspOwner \in amActive /\ amPspOwner \in Tasks
          /\ fp = (amPspOwner \in amFpUsers) /\ amCpu.s = amPspOwner
          /\ (fp => amCpu.fs = amPspOwner) /\ amCpu.psp = AmTaskFrame(amPspOwner, fp)
      BY <1>0, <1>2, <2>1, <2>3 DEF AmInv, AmCurrent, AmTypes
    <3>2. AmTop.ret = [psp |-> TRUE, fp |-> fp]
      BY <1>0, <1>2, <2>1, <2>3 DEF AmReturns
    <3>3. /\ amCpu'.x = amPspOwner /\ (fp => amCpu'.f = amPspOwner) /\ amCpu'.fpca = fp
          /\ amCpu'.psp = <<>> /\ amCpu'.msp = amCpu.msp
          /\ amCpu'.s = amCpu.s /\ amCpu'.fs = amCpu.fs /\ amCpu'.spsel = amCpu.spsel
      <4>1. AmReturn(amCpu, [psp |-> TRUE, fp |-> fp])
        BY <1>0, <3>2
      <4> QED
        BY <1>0, <3>1, <4>1, AmReturnToTask
    <3>4. AmCurrent'
      BY <1>0, <2>1, <2>3, <3>1, <3>3 DEF AmInv, AmCurrent, AmThread
    <3>5. AmParked'
      BY <1>0, <2>1, <2>3, <3>3 DEF AmInv, AmParked
    <3>6. AmMainStack'
      <4>1. b[0] = amCpu.msp /\ AmIdleStack(b[0], fp)
        <5>1. AmLevel = 1 /\ 1 \in 1 .. AmLevel /\ amLevels[1].ret.psp
          BY <1>3, <1>n, <2>1, <2>3
        <5>2. b[1] = b[0] /\ b[1] = amCpu.msp
          BY <1>b, <5>1 DEF AmStacks
        <5>3. AmIdleStack(b[0], fp)
          BY <1>0, <1>2, <1>b, <2>1 DEF AmStacks
        <5> QED
          BY <5>2, <5>3
      <4>2. PICK c : c = [i \in 0 .. 0 |-> b[0]]
        OBVIOUS
      <4>3. c \in [0 .. 0 -> Seq(AmFrames)] /\ c[0] = b[0]
        BY <1>b, <1>3, <4>2
      <4>4. AmStacks(c)'
        BY <2>1, <2>3, <3>3, <4>1, <4>3 DEF AmStacks, AmIdleStack
      <4> QED
        BY <2>1, <4>3, <4>4 DEF AmMainStack
    <3> QED
      BY <2>2, <3>4, <3>5, <3>6 DEF AmContext
  <2>4. CASE ~amCpu.spsel
    <3>1. AmTop.ret = [psp |-> FALSE, fp |-> fp]
      BY <1>0, <1>2, <2>1, <2>4 DEF AmReturns
    <3>2. b[0] \in Seq(AmFrames) /\ AmIdleStack(b[0], fp) /\ b[1] = amCpu.msp
          /\ AmEntered(1, b[0], b[1])
      BY <1>0, <1>2, <1>3, <1>b, <1>n, <2>1, <2>4 DEF AmStacks
    <3>3. PICK v \in AmValues, w \in AmValues :
            amCpu.msp = Push(IF fp THEN Push(b[0], "FP", w) ELSE b[0], "basic", v)
      BY <1>2, <2>1, <3>2 DEF AmEntered
    <3>4. AmReturn(amCpu, [psp |-> FALSE, fp |-> fp])
      BY <1>0, <3>1
    <3>5. /\ amCpu'.fpca = fp /\ amCpu'.msp = b[0] /\ amCpu'.spsel = amCpu.spsel
      BY <1>0, <3>2, <3>3, <3>4, AmReturnToMsp
    <3>6. AmCurrent' /\ AmParked'
      BY <1>0, <2>1, <2>4, <3>5 DEF AmInv, AmCurrent, AmParked, AmThread
    <3>7. AmMainStack'
      <4>1. PICK c : c = [i \in 0 .. 0 |-> b[0]]
        OBVIOUS
      <4>2. c \in [0 .. 0 -> Seq(AmFrames)] /\ c[0] = b[0]
        BY <3>2, <4>1
      <4>3. AmStacks(c)'
        BY <2>1, <2>4, <3>2, <3>5, <4>2 DEF AmStacks, AmIdleStack
      <4> QED
        BY <2>1, <4>2, <4>3 DEF AmMainStack
    <3> QED
      BY <2>2, <3>6, <3>7 DEF AmContext
  <2> QED
    BY <2>3, <2>4
<1>4. CASE L # 1
  <2>1. /\ L > 1 /\ L \in 2 .. L /\ 1 \in 1 .. L - 1 /\ L - 1 \in 1 .. L - 1 /\ L \in 1 .. L
        /\ L - 1 \in 0 .. L
    BY <1>4, <1>n
  <2>2. amLevels' # <<>> /\ amLevels'[1] = amLevels[1] /\ AmSwitching' = AmSwitching
        /\ AmTop = amLevels[L] /\ ~AmTop.ret.psp
    BY <1>0, <1>1, <1>4, <1>n, <2>1 DEF AmSwitching, AmTop, AmInv, AmNested
  <2>3. AmTop.ret = [psp |-> FALSE, fp |-> fp]
    BY <1>0, <1>2, <2>2 DEF AmReturns
  <2>4. b[L - 1] \in Seq(AmFrames) /\ b[L] = amCpu.msp /\ AmEntered(L, b[L - 1], b[L])
    BY <1>b, <1>n, <2>1, <2>2 DEF AmStacks
  <2>5. PICK v \in AmValues, w \in AmValues :
          /\ amCpu.msp = Push(IF fp THEN Push(b[L - 1], "FP", w) ELSE b[L - 1], "basic", v)
          /\ v = HandlerValue(L - 1)
          /\ amLevels[L - 1].usesFp => fp /\ w = HandlerValue(L - 1)
    BY <1>2, <2>1, <2>2, <2>4 DEF AmEntered
  <2>6. AmReturn(amCpu, [psp |-> FALSE, fp |-> fp])
    BY <1>0, <2>3
  <2>7. /\ amCpu'.x = v /\ amCpu'.f = (IF fp THEN w ELSE amCpu.f) /\ amCpu'.fpca = fp
        /\ amCpu'.psp = amCpu.psp /\ amCpu'.msp = b[L - 1]
        /\ amCpu'.s = amCpu.s /\ amCpu'.fs = amCpu.fs /\ amCpu'.spsel = amCpu.spsel
    BY <1>0, <2>4, <2>5, <2>6, AmReturnToMsp
  <2>8. AmNested'
    <3>1. \A i \in 2 .. L - 1 : i \in 1 .. L - 1 /\ i \in 2 .. L
      OBVIOUS
    <3>2. \A i \in 2 .. L - 1 : amLevels'[i].exc # "PendSV" /\ ~amLevels'[i].ret.psp
      BY <1>1, <1>n, <3>1 DEF AmInv, AmNested
    <3>3. amLevels'[1].ret.psp = amCpu'.spsel
      BY <1>0, <2>2, <2>7 DEF AmInv, AmNested
    <3> QED
      BY <1>1, <1>s, <3>2, <3>3 DEF AmNested
  <2>9. AmHandling'
    BY <1>1, <2>1, <2>2, <2>5, <2>7 DEF AmHandling, AmTop
  <2>10. AmCurrent' /\ AmParked'
    BY <1>0, <2>2, <2>7 DEF AmInv, AmCurrent, AmParked, AmThread
  <2>11. AmMainStack'
    BY <1>1, <1>b, <1>n, <1>s, <2>1, <2>7, AmPopMainStack
  <2> QED
    BY <2>8, <2>9, <2>10, <2>11 DEF AmContext
<1> QED
  BY <1>3, <1>4

\* handle_pend_sv saves the context of the task it interrupted.
LEMMA AmSaveKeeps ==
  ASSUME AmInv, AmSave
  PROVE  AmContext'
<1>0. /\ AmTypes /\ amCpu \in AmRegisters /\ AmTop.exc = "PendSV" /\ AmTop.step = "save"
      /\ AmLevel > 0 /\ amLevels' = AmSetTop([AmTop EXCEPT !.step = "choose"])
      /\ amCpu' = [amCpu EXCEPT !.s = Junk]
      /\ UNCHANGED <<amRunning, amActive, amPspOwner, amFpUsers, amStarted>>
  BY DEF AmSave, AmPendSvAt, AmInv, AmTypes
<1>1. /\ AmLevel = 1 /\ AmTop = amLevels[1] /\ amLevels # <<>> /\ amStarted /\ ~AmSwitching
      /\ AmTop.ret.psp = amCpu.spsel
  BY <1>0, AmPendSvOutermost DEF AmSwitching, AmInv, AmNested
<1>2. /\ AmLevel' = 1 /\ amLevels' # <<>> /\ amLevels'[1] = [AmTop EXCEPT !.step = "choose"]
  BY <1>0, <1>1, AmTopLevel, AmSetTopLevels
<1>3. /\ amLevels'[1].exc = "PendSV" /\ amLevels'[1].step = "choose" /\ AmSwitching'
      /\ amLevels'[1].ret = AmTop.ret /\ amLevels'[1].usesFp = AmTop.usesFp
  BY <1>0, <1>2, AmTopLevel DEF AmSwitching
<1>4. /\ amCpu'.x = amCpu.x /\ amCpu'.f = amCpu.f /\ amCpu'.fs = amCpu.fs
      /\ amCpu'.fpca = amCpu.fpca /\ amCpu'.spsel = amCpu.spsel
      /\ amCpu'.psp = amCpu.psp /\ amCpu'.msp = amCpu.msp
  BY <1>0 DEF AmRegisters
<1>5. AmNested'
  BY <1>0, <1>1, <1>2, <1>3, <1>4 DEF AmNested
<1>6. AmHandling'
  BY <1>0, <1>1, <1>2, <1>3, <1>4 DEF AmInv, AmHandling, AmTop
<1>7. AmCurrent'
  BY <1>0, <1>1, <1>2, <1>3, <1>4 DEF AmInv, AmCurrent, AmThread
<1>8. AmParked'
  <2>1. amRunning = AmThread
    BY <1>0, <1>1 DEF AmInv, AmCurrent
  <2>2. CASE amCpu.spsel
    <3>1. amRunning = amPspOwner /\ amPspOwner \in amActive /\ amPspOwner \in Tasks
          /\ amRunning # NoTask
      BY <2>1, <2>2, TasksAssumption DEF AmThread, AmInv, AmCurrent, AmTypes
    <3>2. PICK u \in BOOLEAN : u = (amPspOwner \in amFpUsers)
      BY TruthOfMembership
    <3>3. AmTop.ret = [psp |-> TRUE, fp |-> u]
      <4>1. AmTop.ret \in AmReturns /\ AmTop.ret.psp = TRUE /\ AmTop.ret.fp = u
        BY <1>0, <1>1, <2>2, <3>2, AmTopLevel DEF AmInv, AmCurrent, AmReturns
      <4> QED
        BY <4>1 DEF AmReturns
    <3>4. /\ amCpu.s = amPspOwner /\ (u => amCpu.fs = amPspOwner)
          /\ amCpu.psp = AmTaskFrame(amPspOwner, u)
      BY <1>1, <2>2, <3>2, <3>3 DEF AmInv, AmCurrent
    <3>5. amTaskSp' = [amTaskSp EXCEPT ![amPspOwner] = AmSaved(amPspOwner, u)]
      <4> DEFINE sx == Push(amCpu.psp, "s", amCpu.s)
                 ux == Push(AmTaskFrame(amPspOwner, u), "s", amPspOwner)
                 sf == IF AmTop.ret.fp THEN Push(sx, "fs", amCpu.fs) ELSE sx
                 uf == IF u THEN Push(ux, "fs", amPspOwner) ELSE ux
      <4>1. amTaskSp' = [amTaskSp EXCEPT ![amPspOwner] = Push(sf, "ret", AmTop.ret)]
        BY <3>1 DEF AmSave
      <4>2. AmSaved(amPspOwner, u) = Push(uf, "ret", [psp |-> TRUE, fp |-> u])
        BY DEF AmSaved
      <4>3. sx = ux
        BY <3>4
      <4>4. AmTop.ret.fp = u
        BY <3>3
      <4> HIDE DEF sx, ux
      <4>5. sf = uf
        BY <3>4, <4>3, <4>4
      <4> HIDE DEF sf, uf
      <4> QED
        BY <3>3, <4>1, <4>2, <4>5
    <3>6. \A t \in amActive : amTaskSp'[t] = AmSaved(t, t \in amFpUsers)
      <4> SUFFICES ASSUME NEW t \in amActive
                   PROVE  amTaskSp'[t] = AmSaved(t, t \in amFpUsers)
        OBVIOUS
      <4>1. amTaskSp \in [Tasks -> Seq(AmFrames)] /\ t \in Tasks
        BY <1>0 DEF AmTypes
      <4>2. CASE t = amPspOwner
        BY <3>2, <3>5, <4>1, <4>2
      <4>3. CASE t # amPspOwner
        BY <3>5, <4>1, <4>3 DEF AmInv, AmParked
      <4> QED
        BY <4>2, <4>3
    <3> QED
      BY <1>0, <3>6 DEF AmParked
  <2>3. CASE ~amCpu.spsel
    <3>1. amTaskSp' = amTaskSp
      BY <2>1, <2>3 DEF AmSave, AmThread
    <3> QED
      BY <1>0, <2>3, <3>1 DEF AmInv, AmParked
  <2> QED
    BY <2>2, <2>3
<1>9. AmMainStack'
  BY <1>0, <1>1, <1>2, <1>3, <1>4, AmSameMainStack
<1> QED
  BY <1>5, <1>6, <1>7, <1>8, <1>9 DEF AmContext

LEMMA AmChooseKeeps ==
  ASSUME AmInv, AmChoose
  PROVE  AmContext'
<1>0. /\ AmTypes /\ AmTop.exc = "PendSV" /\ AmTop.step = "choose"
      /\ AmLevel > 0 /\ amLevels' = AmSetTop([AmTop EXCEPT !.step = "restore"])
      /\ amRunning' \in amActive \cup {NoTask}
      /\ UNCHANGED <<amCpu, amTaskSp, amActive, amPspOwner, amFpUsers, amStarted>>
  BY DEF AmChoose, AmPendSvAt, AmInv
<1>1. /\ AmLevel = 1 /\ AmTop = amLevels[1] /\ amLevels # <<>> /\ amStarted /\ AmSwitching
      /\ AmTop.ret.psp = amCpu.spsel
  BY <1>0, AmPendSvOutermost DEF AmSwitching, AmInv, AmNested
<1>2. /\ AmLevel' = 1 /\ amLevels' # <<>> /\ amLevels'[1] = [AmTop EXCEPT !.step = "restore"]
  BY <1>0, <1>1, AmTopLevel, AmSetTopLevels
<1>3. /\ amLevels'[1].exc = "PendSV" /\ amLevels'[1].step = "restore" /\ AmSwitching'
      /\ amLevels'[1].ret = AmTop.ret /\ amLevels'[1].usesFp = AmTop.usesFp
  BY <1>0, <1>2, AmTopLevel DEF AmSwitching
<1>4. AmNested' /\ AmHandling'
  BY <1>0, <1>1, <1>2, <1>3 DEF AmInv, AmNested, AmHandling, AmTop
<1>5. AmCurrent' /\ AmParked'
  BY <1>0, <1>1, <1>2, <1>3 DEF AmInv, AmCurrent, AmParked, AmThread
<1>6. AmMainStack'
  BY <1>0, <1>1, <1>2, <1>3, AmSameMainStack
<1> QED
  BY <1>4, <1>5, <1>6 DEF AmContext

\* handle_pend_sv returns to the task chosen, or to the idle task: the frame the idle
\* task is resumed from is left on MSP or taken from it.
LEMMA AmRestoreKeeps ==
  ASSUME AmInv, AmRestore
  PROVE  AmContext'
<1>0. /\ AmTypes /\ amCpu \in AmRegisters /\ AmTop.exc = "PendSV" /\ AmTop.step = "restore"
      /\ AmLevel > 0 /\ AmTop.ret \in AmReturns
      /\ UNCHANGED <<amRunning, amActive, amFpUsers, amStarted>>
  BY AmTopLevel DEF AmRestore, AmPendSvAt, AmInv, AmTypes
<1>1. /\ AmLevel = 1 /\ AmTop = amLevels[1] /\ amLevels # <<>> /\ amStarted /\ AmSwitching
      /\ AmTop.ret.psp = amCpu.spsel
  BY <1>0, AmPendSvOutermost DEF AmSwitching, AmInv, AmNested
<1>2. amLevels' = SubSeq(amLevels, 1, AmLevel - 1)
  BY DEF AmRestore, AmReturn
<1>3. AmLevel' = 0 /\ amLevels' = <<>> /\ ~AmSwitching' /\ amStarted'
  BY <1>0, <1>1, <1>2, AmPopLevels DEF AmSwitching
<1>4. AmNested' /\ AmHandling'
  BY <1>3 DEF AmNested, AmHandling
<1>5. PICK fp \in BOOLEAN : fp = AmTop.ret.fp
  BY <1>0 DEF AmReturns
<1>6. PICK b \in [0 .. 1 -> Seq(AmFrames)] : AmStacks(b)
  BY <1>1 DEF AmInv, AmMainStack
<1>7. /\ b[0] \in Seq(AmFrames) /\ b[1] = amCpu.msp /\ AmIdleStack(b[0], fp)
  BY <1>1, <1>5, <1>6 DEF AmStacks
<1>8. amCpu.spsel => amCpu.msp = b[0]
  <2>1. 1 \in 1 .. AmLevel
    BY <1>1
  <2>2. amLevels[1].ret.psp => b[1] = b[1 - 1]
    BY <1>6, <2>1 DEF AmStacks
  <2> QED
    BY <1>1, <1>7, <2>2
<1>9. ~amCpu.spsel => \E v, w \in AmValues :
                          amCpu.msp = Push(IF fp THEN Push(b[0], "FP", w) ELSE b[0], "basic", v)
  BY <1>1, <1>5, <1>6, <1>7 DEF AmStacks, AmEntered
\* The frame on top of MSP, and what is below, is that of the idle task.
<1>10. \E v \in AmValues, low \in Seq(AmFrames) :
          /\ amCpu.msp = Push(low, "basic", v)
          /\ low = <<>> \/ \E w \in AmValues : low = Push(<<>>, "FP", w)
  <2>0. <<>> \in Seq(AmFrames) /\ \A w \in AmValues : Push(<<>>, "FP", w) \in Seq(AmFrames)
    <3>1. <<>> \in Seq(AmFrames)
      OBVIOUS
    <3> QED
      BY <3>1, PushFrame
  <2>1. CASE amCpu.spsel
    BY <1>7, <1>8, <2>0, <2>1 DEF AmIdleStack
  <2>2. CASE ~amCpu.spsel
    <3>1. PICK v \in AmValues, w \in AmValues :
            amCpu.msp = Push(IF fp THEN Push(b[0], "FP", w) ELSE b[0], "basic", v)
      BY <1>9, <2>2
    <3>2. b[0] = <<>> \/ \E z \in AmValues : b[0] = Push(<<>>, "FP", z) /\ ~fp
      BY <1>7, <2>2 DEF AmIdleStack
    <3>3. CASE fp
      BY <2>0, <3>1, <3>2, <3>3
    <3>4. CASE ~fp
      BY <2>0, <3>1, <3>2, <3>4
    <3> QED
      BY <3>3, <3>4
  <2> QED
    BY <2>1, <2>2
<1>11. PICK v \in AmValues, low \in Seq(AmFrames) :
          /\ amCpu.msp = Push(low, "basic", v)
          /\ low = <<>> \/ \E w \in AmValues : low = Push(<<>>, "FP", w)
  BY <1>10
<1>12. CASE amRunning = NoTask
  <2>1. AmReturn([amCpu EXCEPT !.spsel = FALSE], [psp |-> FALSE, fp |-> FALSE])
        /\ amTaskSp' = amTaskSp
    BY <1>12 DEF AmRestore
  <2>2. PICK c \in AmRegisters : c = [amCpu EXCEPT !.spsel = FALSE]
    BY <1>0 DEF AmRegisters
  <2>3. c.msp = amCpu.msp /\ c.spsel = FALSE
    BY <1>0, <2>2 DEF AmRegisters
  <2>4. amCpu'.fpca = FALSE /\ amCpu'.msp = low /\ amCpu'.spsel = FALSE
    <3>1. c.msp = Push(IF FALSE THEN Push(low, "FP", v) ELSE low, "basic", v)
      BY <1>11, <2>3
    <3>2. AmReturn(c, [psp |-> FALSE, fp |-> FALSE])
      BY <2>1, <2>2
    <3> QED
      BY <1>11, <2>3, <3>1, <3>2, AmReturnToMsp
  <2>5. AmCurrent'
    BY <1>0, <1>3, <1>12, <2>4 DEF AmCurrent, AmThread
  <2>6. AmParked'
    BY <1>0, <1>1, <2>1 DEF AmInv, AmParked
  <2>7. AmMainStack'
    <3>1. PICK d : d = [i \in 0 .. 0 |-> low]
      OBVIOUS
    <3>2. d \in [0 .. 0 -> Seq(AmFrames)] /\ d[0] = low
      BY <1>11, <3>1
    <3>3. AmIdleStack(low, FALSE)'
      BY <1>11, <2>4 DEF AmIdleStack
    <3>4. AmStacks(d)'
      <4>1. AmIdleStack(d[0], IF amLevels = <<>> THEN amCpu.fpca ELSE amLevels[1].ret.fp)'
        BY <1>3, <2>4, <3>2, <3>3 DEF AmIdleStack
      <4> QED
        BY <1>3, <2>4, <3>2, <4>1 DEF AmStacks
    <3> QED
      BY <1>3, <3>2, <3>4 DEF AmMainStack
  <2> QED
    BY <1>4, <2>5, <2>6, <2>7 DEF AmContext
<1>13. CASE amRunning # NoTask
  <2>0. PICK u \in BOOLEAN : u = (amRunning \in amFpUsers)
    BY TruthOfMembership
  <2>1. /\ amRunning \in Tasks /\ amRunning \in amActive
        /\ AmReturn([amCpu EXCEPT !.fs = IF u THEN amRunning ELSE @, !.s = amRunning,
                                  !.spsel = TRUE, !.psp = AmTaskFrame(amRunning, u)],
                    [psp |-> TRUE, fp |-> u])
    BY <1>13, <2>0, AmRestoreIs
  <2>2. AmTaskFrame(amRunning, u) \in Seq(AmFrames) /\ amRunning \in AmValues
    BY <2>1, AmTaskFrameIs, AmValueTypes
  <2>3. PICK c \in AmRegisters :
           c = [amCpu EXCEPT !.fs = IF u THEN amRunning ELSE @, !.s = amRunning,
                             !.spsel = TRUE, !.psp = AmTaskFrame(amRunning, u)]
    BY <1>0, <2>2 DEF AmRegisters
  <2>4. /\ c.msp = amCpu.msp /\ c.spsel = TRUE /\ c.s = amRunning
        /\ c.psp = AmTaskFrame(amRunning, u) /\ (u => c.fs = amRunning)
    BY <1>0, <2>3 DEF AmRegisters
  <2>5. AmReturn(c, [psp |-> TRUE, fp |-> u])
    BY <2>1, <2>3
  <2>6. /\ amCpu'.x = amRunning /\ (u => amCpu'.f = amRunning) /\ amCpu'.fpca = u
        /\ amCpu'.psp = <<>> /\ amCpu'.msp = amCpu.msp
        /\ amCpu'.s = amRunning /\ (u => amCpu'.fs = amRunning) /\ amCpu'.spsel = TRUE
    BY <2>1, <2>4, <2>5, AmReturnToTask
  <2>7. /\ amPspOwner' = amRunning
        /\ amTaskSp' = [amTaskSp EXCEPT ![amRunning] = <<>>]
    BY <1>13 DEF AmRestore
  <2>8. AmCurrent'
    BY <1>0, <1>3, <2>0, <2>1, <2>6, <2>7 DEF AmCurrent, AmThread
  <2>9. AmParked'
    <3> SUFFICES ASSUME NEW t \in amActive, t # amRunning
                 PROVE  amTaskSp'[t] = AmSaved(t, t \in amFpUsers)
      BY <1>0, <1>3, <2>6, <2>7 DEF AmParked
    <3>1. amTaskSp'[t] = amTaskSp[t]
      BY <1>0, <2>7 DEF AmTypes
    <3> QED
      BY <1>1, <3>1 DEF AmInv, AmParked
  <2>10. AmMainStack'
    <3>1. PICK d : d = [i \in 0 .. 0 |-> amCpu.msp]
      OBVIOUS
    <3>2. d \in [0 .. 0 -> Seq(AmFrames)] /\ d[0] = amCpu.msp
      BY <1>0, <3>1 DEF AmRegisters
    <3>3. AmIdleStack(amCpu.msp, u)'
      BY <1>11, <2>6 DEF AmIdleStack
    <3>4. AmStacks(d)'
      <4>1. AmIdleStack(d[0], IF amLevels = <<>> THEN amCpu.fpca ELSE amLevels[1].ret.fp)'
        BY <1>3, <2>6, <3>2, <3>3 DEF AmIdleStack
      <4> QED
        BY <1>3, <2>6, <3>2, <4>1 DEF AmStacks
    <3> QED
      BY <1>3, <3>2, <3>4 DEF AmMainStack
  <2> QED
    BY <1>4, <2>8, <2>9, <2>10 DEF AmContext
<1> QED
  BY <1>12, <1>13

LEMMA AmRequestedStep ==
  ASSUME AmInv, AmNext
  PROVE  AmRequested'
<1>0. AmTypes /\ AmNested /\ AmRequested
  BY DEF AmInv
<1>l. AmLevel \in Nat /\ (AmLevel = 0 <=> amLevels = <<>>)
  BY <1>0, LenEmpty DEF AmTypes, AmNesting, AmLevel
<1>n. PICK L \in Nat : L = AmLevel
  BY <1>l
<1>1. ASSUME NEW active \in SUBSET Tasks, AmPortBoot(active) PROVE AmRequested'
  BY <1>1 DEF AmPortBoot, AmRequested
<1>2. ASSUME NEW t \in Tasks, AmActivate(t) PROVE AmRequested'
  BY <1>0, <1>2 DEF AmActivate, AmRequested, AmLevel
<1>3. ASSUME NEW t \in Tasks, AmExit(t) PROVE AmRequested'
  BY <1>3 DEF AmExit, AmRequested, AmInTask, AmInThread
<1>4. CASE AmYieldCpu
  BY <1>0, <1>4 DEF AmYieldCpu, AmRequested, AmInCode, AmInBody, AmInThread, AmLevel, AmNested
<1>5. CASE AmCpuLock
  <2>1. amStarted /\ amStarted' /\ UNCHANGED <<amPendSv, amWanted, amLevels>> /\ amLock' = ~amLock
    BY <1>0, <1>5, <1>l DEF AmCpuLock, AmInCode, AmInBody, AmInThread, AmNested
  <2>2. ASSUME amLock', amPendSv
        PROVE  \E i \in 1 .. AmLevel : amLevels[i].exc # "PendSV" /\ AmManaged(amLevels[i].exc)
    <3>1. AmInBody /\ AmManaged(AmTop.exc)
      BY <1>5, <2>1, <2>2 DEF AmCpuLock, AmInCode
    <3>2. AmLevel \in 1 .. AmLevel
      BY <1>l, <3>1 DEF AmInBody
    <3> QED
      BY <3>1, <3>2 DEF AmInBody, AmTop
  <2> QED
    BY <1>0, <2>1, <2>2 DEF AmRequested, AmLevel
<1>6. CASE AmUseFp
  <2>1. CASE amLevels' = amLevels
    BY <1>0, <1>6, <2>1 DEF AmUseFp, AmRequested, AmLevel
  <2>2. CASE amLevels' # amLevels
    <3>1. AmLevel > 0 /\ amLevels' = AmSetTop([AmTop EXCEPT !.usesFp = TRUE])
      BY <1>6, <2>2 DEF AmUseFp, AmInThread, AmInBody
    <3>2. /\ AmLevel' = AmLevel /\ amLevels' # <<>>
          /\ \A i \in 1 .. AmLevel - 1 : amLevels'[i] = amLevels[i]
          /\ amLevels'[AmLevel] = [AmTop EXCEPT !.usesFp = TRUE]
      BY <1>0, <3>1, AmTopLevel, AmSetTopLevels
    <3>3. \A i \in 1 .. AmLevel : amLevels'[i].exc = amLevels[i].exc
                                  /\ amLevels'[i].step = amLevels[i].step
      <4>1. amLevels'[AmLevel].exc = AmTop.exc /\ amLevels'[AmLevel].step = AmTop.step
        BY <1>0, <3>1, <3>2, AmTopLevel
      <4>2. \A i \in 1 .. AmLevel : i \in 1 .. AmLevel - 1 \/ i = AmLevel
        BY <1>l
      <4> QED
        BY <3>2, <4>1, <4>2 DEF AmTop
    <3>4. 1 \in 1 .. AmLevel /\ amLevels # <<>>
      BY <1>l, <3>1
    <3> QED
      BY <1>0, <1>6, <3>2, <3>3, <3>4 DEF AmUseFp, AmRequested
  <2> QED
    BY <2>1, <2>2
<1>7. ASSUME NEW l \in AmLines, AmRaise(l) PROVE AmRequested'
  BY <1>0, <1>7 DEF AmRaise, AmRequested, AmLevel
<1>8. ASSUME NEW l \in AmLines, AmTakeInterrupt(l) PROVE AmRequested'
  <2>1. /\ AmLevel' = L + 1 /\ amLevels' # <<>>
        /\ \A i \in 1 .. L : amLevels'[i] = amLevels[i]
    BY <1>0, <1>8, <1>n, AmPushLevels DEF AmTakeInterrupt
  <2>2. \A i \in 1 .. L : i \in 1 .. L + 1
    OBVIOUS
  <2>3. amLevels # <<>> => 1 \in 1 .. L
    BY <1>l, <1>n
  <2> QED
    BY <1>0, <1>8, <1>n, <2>1, <2>2, <2>3 DEF AmTakeInterrupt, AmRequested
<1>9. ASSUME NEW l \in AmLines, AmToggleLine(l) PROVE AmRequested'
  BY <1>0, <1>9 DEF AmToggleLine, AmRequested, AmLevel
<1>10. CASE AmHandlerReturns
  <2>1. /\ L > 0 /\ AmTop = amLevels[L] /\ AmTop.exc # "PendSV"
        /\ amLock => ~AmManaged(amLevels[L].exc)
        /\ UNCHANGED <<amPendSv, amWanted, amLock, amStarted>>
    BY <1>10, <1>n DEF AmHandlerReturns, AmInBody, AmTop
  <2>2. /\ AmLevel' = L - 1 /\ \A i \in 1 .. L - 1 : amLevels'[i] = amLevels[i]
        /\ amLevels' = <<>> <=> L = 1
    BY <1>0, <1>10, <1>n, <2>1, AmPopLevels DEF AmHandlerReturns, AmReturn
  <2>3. amLevels # <<>> /\ amStarted
    BY <1>0, <1>l, <1>n, <2>1 DEF AmNested
  <2>4. amWanted' => amPendSv' \/ (amLevels' # <<>> /\ amLevels'[1].exc = "PendSV"
                                   /\ amLevels'[1].step # "restore")
    <3>1. CASE L = 1
      BY <1>0, <2>1, <2>3, <3>1 DEF AmRequested
    <3>2. CASE L # 1
      <4>1. 1 \in 1 .. L - 1
        BY <2>1, <3>2
      <4> QED
        BY <1>0, <2>1, <2>2, <3>2, <4>1 DEF AmRequested
    <3> QED
      BY <3>1, <3>2
  <2>5. ASSUME amLock', amPendSv'
        PROVE  \E i \in 1 .. L - 1 : amLevels'[i].exc # "PendSV" /\ AmManaged(amLevels'[i].exc)
    <3>1. PICK i \in 1 .. L : amLevels[i].exc # "PendSV" /\ AmManaged(amLevels[i].exc)
      BY <1>0, <1>n, <2>1, <2>5 DEF AmRequested
    <3>2. i # L
      BY <2>1, <2>5, <3>1
    <3>3. i \in 1 .. L - 1
      BY <3>2
    <3> QED
      BY <2>2, <3>1, <3>3
  <2> QED
    BY <2>1, <2>2, <2>3, <2>4, <2>5 DEF AmRequested, AmManaged
<1>11. CASE AmPendSvEntry
  <2>1. /\ amLevels' # <<>> /\ amLevels'[1] =
              [exc |-> "PendSV", ret |-> [psp |-> amCpu.spsel /\ AmLevel = 0, fp |-> amCpu.fpca],
                step |-> "save", usesFp |-> FALSE]
    BY <1>0, <1>11, <1>l, AmPushLevels DEF AmPendSvEntry
  <2>2. amLevels'[1].exc = "PendSV" /\ amLevels'[1].step = "save"
    BY <2>1
  <2> QED
    BY <1>11, <2>1, <2>2 DEF AmPendSvEntry, AmRequested
<1>12. CASE AmSave
  <2>1. /\ AmLevel > 0 /\ amLevels' = AmSetTop([AmTop EXCEPT !.step = "choose"])
        /\ AmTop.exc = "PendSV"
    BY <1>12 DEF AmSave, AmPendSvAt
  <2>2. AmLevel = 1 /\ amLevels[1].exc = "PendSV" /\ AmTop = amLevels[1] /\ amStarted
    BY <2>1, AmPendSvOutermost
  <2>3. /\ AmLevel' = 1 /\ amLevels' # <<>> /\ amLevels'[1] = [AmTop EXCEPT !.step = "choose"]
    BY <1>0, <2>1, <2>2, AmTopLevel, AmSetTopLevels
  <2>4. amLevels'[1].exc = "PendSV" /\ amLevels'[1].step = "choose"
    BY <1>0, <2>1, <2>3, AmTopLevel
  <2>5. \A i \in 1 .. AmLevel : i = 1
    BY <2>2
  <2> QED
    BY <1>0, <1>12, <2>2, <2>3, <2>4, <2>5 DEF AmSave, AmRequested
<1>13. CASE AmChoose
  <2>1. AmLevel > 0 /\ AmTop.exc = "PendSV"
    BY <1>13 DEF AmChoose, AmPendSvAt
  <2>2. AmLevel = 1 /\ amLevels[1].exc = "PendSV" /\ amStarted
    BY <2>1, AmPendSvOutermost
  <2>3. \A i \in 1 .. AmLevel : i = 1
    BY <2>2
  <2> QED
    BY <1>0, <1>13, <2>2, <2>3 DEF AmChoose, AmRequested
<1>14. CASE AmRestore
  <2>1. AmLevel > 0 /\ AmTop.exc = "PendSV" /\ AmTop.step = "restore"
    BY <1>14 DEF AmRestore, AmPendSvAt
  <2>2. AmLevel = 1 /\ amLevels[1].exc = "PendSV" /\ amLevels[1].step = "restore" /\ amStarted
    BY <2>1, AmPendSvOutermost
  <2>3. \A i \in 1 .. AmLevel : i = 1
    BY <2>2
  <2> QED
    BY <1>0, <1>14, <2>2, <2>3 DEF AmRestore, AmRequested
<1> QED
  BY <1>1, <1>2, <1>3, <1>4, <1>5, <1>6, <1>7, <1>8, <1>9, <1>10, <1>11, <1>12, <1>13, <1>14
     DEF AmNext

LEMMA AmInitKeeps == AmInit => AmInv
<1> SUFFICES ASSUME AmInit PROVE AmInv
  OBVIOUS
<1>1. AmTypes
  <2>1. <<>> \in Seq(AmFrames)
    OBVIOUS
  <2>2. Junk \in AmValues
    BY AmValueTypes
  <2>3. Push(<<>>, "boot", Junk) \in Seq(AmFrames)
    BY <2>1, <2>2, PushFrame
  <2>4. amCpu \in AmRegisters
    BY <2>1, <2>2, <2>3 DEF AmInit, AmRegisters
  <2>5. amLevels \in AmNesting
    BY DEF AmInit, AmNesting
  <2> QED
    BY <2>1, <2>4, <2>5 DEF AmInit, AmTypes
<1>2. amCpu.spsel = FALSE
  BY DEF AmInit
<1> QED
  BY <1>1, <1>2 DEF AmInit, AmInv, AmNested, AmCurrent, AmParked, AmHandling, AmMainStack,
                    AmRequested, AmThread, AmLevel

LEMMA AmStep == AmInv /\ [AmNext]_amVars => AmInv'
<1> SUFFICES ASSUME AmInv, [AmNext]_amVars PROVE AmInv'
  OBVIOUS
<1>1. CASE AmNext
  <2>1. AmContext'
    <3>1. ASSUME NEW l \in AmLines, AmTakeInterrupt(l) PROVE AmContext'
      BY <3>1, AmAssumption, AmEntryKeeps DEF AmTakeInterrupt
    <3>2. CASE AmPendSvEntry
      BY <3>2, AmEntryKeeps DEF AmPendSvEntry
    <3>3. CASE AmYieldCpu \/ AmCpuLock \/ \E l \in AmLines : AmRaise(l) \/ AmToggleLine(l)
      <4>1. UNCHANGED <<amCpu, amStarted, amKernelVars, amLevels, amPspOwner, amFpUsers>>
        BY <3>3 DEF AmYieldCpu, AmCpuLock, AmRaise, AmToggleLine
      <4> QED
        BY <4>1, AmSameContext
    <3> QED
      BY <1>1, <3>1, <3>2, <3>3, AmPortBootKeeps, AmActivateKeeps, AmExitKeeps, AmUseFpKeeps,
         AmHandlerReturnsKeeps, AmSaveKeeps, AmChooseKeeps, AmRestoreKeeps DEF AmNext
  <2> QED
    BY <1>1, <2>1, AmTypesStep, AmRequestedStep DEF AmContext, AmInv
<1>2. CASE UNCHANGED amVars
  <2>1. AmContext'
    BY <1>2, AmSameContext DEF amVars
  <2>2. AmTypes'
    BY <1>2 DEF amVars, amKernelVars, AmInv, AmTypes
  <2>3. AmRequested'
    BY <1>2 DEF amVars, AmInv, AmRequested, AmLevel
  <2> QED
    BY <2>1, <2>2, <2>3 DEF AmContext, AmInv
<1> QED
  BY <1>1, <1>2

LEMMA AmIntact == AmInv => AmContextIntact
<1> SUFFICES ASSUME AmInv PROVE AmContextIntact
  OBVIOUS
<1>1. AmInThread => amRunning = AmThread
  BY DEF AmInv, AmCurrent, AmInThread
<1>2. ASSUME NEW t \in Tasks, AmInTask(t)
      PROVE  /\ amCpu.x = t /\ amCpu.s = t /\ amCpu.psp = <<>>
             /\ amCpu.fpca = (t \in amFpUsers)
             /\ amCpu.fpca => amCpu.f = t /\ amCpu.fs = t
  <2>1. amLevels = <<>> /\ amCpu.spsel /\ amPspOwner = t /\ ~AmSwitching
    BY <1>2, TasksAssumption DEF AmInTask, AmInThread, AmThread, AmSwitching
  <2> QED
    BY <2>1 DEF AmInv, AmCurrent
<1>3. ASSUME AmInBody
      PROVE  /\ amCpu.x = HandlerValue(AmLevel)
             /\ AmTop.usesFp => amCpu.fpca /\ amCpu.f = HandlerValue(AmLevel)
             /\ amLevels[1].exc # "PendSV" /\ amRunning # NoTask => amCpu.s = amRunning
  <2>1. amLevels # <<>>
    BY <1>3, AmTopLevel DEF AmInBody, AmInv
  <2> QED
    BY <2>1 DEF AmInv, AmHandling, AmCurrent, AmSwitching, AmThread
<1> QED
  BY <1>1, <1>2, <1>3 DEF AmContextIntact

LEMMA AmBalanced == AmInv => AmMainStackBalanced
<1> SUFFICES ASSUME AmInv, AmInThread,
                    AmThread \in Tasks \/ AmThread = NoTask
             PROVE  LET kinds == [i \in 1 .. Len(amCpu.msp) |-> amCpu.msp[i].kind]
                    IN  /\ AmThread \in Tasks => kinds \in {<<"basic">>, <<"basic", "FP">>}
                        /\ AmThread = NoTask => kinds \in {<<>>, <<"FP">>}
  BY DEF AmMainStackBalanced
<1> DEFINE m == amCpu.msp
           kinds == [i \in 1 .. Len(m) |-> m[i].kind]
<1>1. /\ amLevels = <<>> /\ AmLevel = 0 /\ amStarted /\ amCpu.spsel = (AmThread \in Tasks)
      /\ m \in Seq(AmFrames)
  BY TasksAssumption DEF AmInThread, AmThread, AmLevel, AmInv, AmCurrent, AmTypes, AmRegisters
<1>2. PICK b \in [0 .. 0 -> Seq(AmFrames)] : AmStacks(b)
  BY <1>1 DEF AmInv, AmMainStack
<1>3. AmIdleStack(m, amCpu.fpca)
  BY <1>1, <1>2 DEF AmStacks
<1> HIDE DEF m
<1>4. PICK e \in Seq(AmFrames) : e = <<>>
  OBVIOUS
<1>5. Len(e) = 0
  BY <1>4
<1>6. ASSUME m = <<>> PROVE kinds = <<>>
  BY <1>6
<1>7. ASSUME NEW w \in AmValues, NEW k \in {"FP", "basic"}, m = Push(<<>>, k, w) PROVE kinds = <<k>>
  <2>1. Len(m) = 1 /\ m[1].kind = k
    <3>1. Len(Push(e, k, w)) = Len(e) + 1 /\ Push(e, k, w)[1].kind = k
      <4>1. CASE k = "FP"
        BY <4>1, PushFrame
      <4>2. CASE k = "basic"
        BY <4>2, PushFrame
      <4> QED
        BY <4>1, <4>2
    <3> QED
      BY <1>4, <1>5, <1>7, <3>1
  <2> QED
    BY <2>1
<1>8. ASSUME NEW v \in AmValues, NEW w \in AmValues, m = Push(Push(<<>>, "FP", w), "basic", v)
      PROVE  kinds = <<"basic", "FP">>
  <2>1. PICK p \in Seq(AmFrames) : p = Push(<<>>, "FP", w) /\ Len(p) = 1 /\ p[1].kind = "FP"
    <3>1. /\ Push(e, "FP", w) \in Seq(AmFrames) /\ Len(Push(e, "FP", w)) = Len(e) + 1
          /\ Push(e, "FP", w)[1].kind = "FP"
      BY PushFrame
    <3> QED
      BY <1>4, <1>5, <3>1
  <2>2. Len(m) = 2 /\ m[1].kind = "basic" /\ m[2] = p[1]
    <3>1. m = Push(p, "basic", v)
      BY <1>8, <2>1
    <3>2. Len(m) = Len(p) + 1 /\ m[1].kind = "basic" /\ \A i \in 1 .. Len(p) : m[i + 1] = p[i]
      <4>1. /\ Len(Push(p, "basic", v)) = Len(p) + 1 /\ Push(p, "basic", v)[1].kind = "basic"
            /\ \A i \in 1 .. Len(p) : Push(p, "basic", v)[i + 1] = p[i]
        BY PushFrame
      <4> QED
        BY <3>1, <4>1
    <3> QED
      BY <2>1, <3>2
  <2> QED
    BY <2>1, <2>2
<1> QED
  BY <1>1, <1>3, <1>6, <1>7, <1>8, TasksAssumption DEF AmIdleStack, m

\* The Arm-M port gives every task, and every handler whatever it interrupts, its own
\* registers and stacks, FP registers included, and neither leaks nor underruns the
\* interrupt stack, for any lines and priorities and any depth of nesting
\* (handle_pend_sv, port_boot and exit_and_dispatch of threading/imp.rs).
THEOREM ArmMContextCorrect == AmSpec => [](AmContextIntact /\ AmMainStackBalanced)
BY AmInitKeeps, AmStep, AmIntact, AmBalanced, PTL DEF AmSpec

\* On the Arm-M port a task goes on after yield_cpu only once the dispatch it asked for
\* has been made, whatever interrupts it and whoever holds CPU Lock.
THEOREM ArmMNoLostDispatchCorrect == AmSpec => []AmNoLostDispatch
<1>1. AmInv => AmNoLostDispatch
  <2> SUFFICES ASSUME AmInv, AmInThread, amWanted PROVE amPendSv /\ ~amLock
    BY DEF AmNoLostDispatch
  <2>1. amLevels = <<>> /\ AmLevel = 0
    BY DEF AmInThread, AmLevel
  <2>2. amPendSv
    BY <2>1 DEF AmInv, AmRequested
  <2>3. ~(\E i \in 1 .. AmLevel : TRUE)
    BY <2>1
  <2>4. ~amLock
    BY <2>2, <2>3 DEF AmInv, AmRequested
  <2> QED
    BY <2>2, <2>4
<1> QED
  BY <1>1, AmInitKeeps, AmStep, PTL DEF AmSpec

\* A step of the Arm-M port is a step of the contract the kernel is written against.
LEMMA AmContractStep ==
  ASSUME AmInv, AmNext
  PROVE  [AmContract!ContractNext]_(AmContract!contractVars)
<1> DEFINE thread == IF amStarted THEN AmThread ELSE "boot"
<1>0. /\ AmThread \in Tasks \cup {NoTask} /\ amRunning \in Tasks \cup {NoTask}
      /\ AmLevel \in Nat /\ (AmLevel = 0 <=> amLevels = <<>>)
      /\ (thread # "boot" <=> amStarted) /\ AmTypes
  BY LenEmpty, TasksAssumption DEF AmThread, AmInv, AmTypes, AmNesting, AmLevel
<1>1. ASSUME NEW active \in SUBSET Tasks, AmPortBoot(active) PROVE AmContract!Start
  <2>1. amCpu'.spsel = FALSE
    BY <1>1 DEF AmPortBoot, AmIdleTask, AmInv, AmTypes, AmRegisters
  <2>2. ~amStarted /\ amStarted' /\ amRunning' = NoTask /\ amWanted' = TRUE /\ amLevels' = amLevels
    BY <1>1 DEF AmPortBoot, AmInv, AmNested
  <2> QED
    BY <2>1, <2>2 DEF AmContract!Start, AmContract!Threads, AmThread, AmLevel
<1>2. ASSUME NEW t \in Tasks, AmActivate(t) PROVE UNCHANGED AmContract!contractVars
  BY <1>2 DEF AmActivate, AmContract!contractVars, AmThread, AmLevel
<1>3. ASSUME NEW t \in Tasks, AmExit(t) PROVE AmContract!Exit
  <2>1. amCpu'.spsel = FALSE
    BY <1>3 DEF AmExit, AmIdleTask, AmInv, AmTypes, AmRegisters
  <2> QED
    BY <1>3, <2>1 DEF AmExit, AmInTask, AmInThread, AmContract!Exit, AmThread, AmLevel
<1>4. CASE AmYieldCpu
  <2>1. amStarted
    BY <1>0, <1>4 DEF AmYieldCpu, AmInCode, AmInThread, AmInBody, AmInv, AmNested
  <2> QED
    <3>1. UNCHANGED <<AmThread, amStarted, amRunning, AmLevel>> /\ amWanted' = TRUE
      BY <1>4 DEF AmYieldCpu, AmThread, AmLevel, amKernelVars
    <3>2. AmContract!Request
      BY <1>0, <2>1, <3>1 DEF AmContract!Request
    <3> QED
      BY <3>2 DEF AmContract!ContractNext
<1>5. CASE AmCpuLock
  BY <1>5 DEF AmCpuLock, AmContract!contractVars, AmThread, AmLevel, amKernelVars
<1>6. CASE AmUseFp
  <2>1. amCpu'.spsel = amCpu.spsel
    BY <1>6 DEF AmUseFp, AmInv, AmTypes, AmRegisters
  <2>2. AmLevel' = AmLevel
    <3>1. CASE AmInThread
      BY <1>6, <3>1 DEF AmUseFp, AmLevel
    <3>2. CASE ~AmInThread
      <4>1. AmLevel > 0 /\ amLevels' = AmSetTop([AmTop EXCEPT !.usesFp = TRUE])
        BY <1>6, <3>2 DEF AmUseFp, AmInBody
      <4> QED
        BY <1>0, <4>1, AmTopLevel, AmSetTopLevels
    <3> QED
      BY <3>1, <3>2
  <2> QED
    BY <1>6, <2>1, <2>2 DEF AmUseFp, AmContract!contractVars, AmThread, amKernelVars
<1>7. ASSUME NEW l \in AmLines, AmRaise(l) \/ AmToggleLine(l)
      PROVE  UNCHANGED AmContract!contractVars
  BY <1>7 DEF AmRaise, AmToggleLine, AmContract!contractVars, AmThread, AmLevel, amKernelVars
<1>8. ASSUME NEW exc \in AmLines \cup {"PendSV"}, AmEntry(exc), amStarted,
             UNCHANGED <<amKernelVars, amPspOwner, amStarted, amWanted>>
      PROVE  AmContract!TakeInterrupt
  <2>1. AmLevel' = AmLevel + 1
    BY <1>0, <1>8, AmPushLevels
  <2>2. amCpu'.spsel = amCpu.spsel
    BY <1>8 DEF AmEntry, AmInv, AmTypes, AmRegisters
  <2> QED
    BY <1>0, <1>8, <2>1, <2>2 DEF AmContract!TakeInterrupt, AmThread, amKernelVars
<1>9. CASE AmHandlerReturns
  <2>1. /\ AmLevel > 0 /\ AmTop.exc # "PendSV" /\ amLevels # <<>> /\ AmLevel' = AmLevel - 1
        /\ UNCHANGED <<amStarted, amRunning, amPspOwner, amWanted>>
    BY <1>0, <1>9, AmPopLevels DEF AmHandlerReturns, AmInBody, AmReturn, amKernelVars
  <2>2. AmLevel = 1 => amRunning = AmThread /\ amStarted
    BY <2>1 DEF AmTop, AmInv, AmCurrent, AmNested
  <2>3. amStarted
    BY <2>1 DEF AmInv, AmNested
  <2>4. amCpu'.spsel = amCpu.spsel
    BY <1>9 DEF AmHandlerReturns, AmReturn, AmUnstack, AmInv, AmTypes, AmRegisters
  <2> QED
    BY <1>0, <2>1, <2>2, <2>3, <2>4
       DEF AmContract!LeaveInterrupt, AmContract!ContractNext, AmThread
<1>10. CASE AmSave
  <2>1. AmLevel' = AmLevel
    BY <1>0, <1>10, AmTopLevel, AmSetTopLevels DEF AmSave, AmPendSvAt
  <2>2. amCpu'.spsel = amCpu.spsel
    BY <1>10 DEF AmSave, AmInv, AmTypes, AmRegisters
  <2> QED
    BY <1>10, <2>1, <2>2 DEF AmSave, AmContract!contractVars, AmThread
<1>11. CASE AmChoose
  <2>1. AmLevel' = AmLevel
    BY <1>0, <1>11, AmTopLevel, AmSetTopLevels DEF AmChoose, AmPendSvAt
  <2>2. AmLevel = 1 /\ amStarted
    BY <1>11, AmPendSvOutermost DEF AmChoose, AmPendSvAt
  <2>3. amRunning' \in Tasks \cup {NoTask}
    BY <1>11 DEF AmChoose, AmInv, AmTypes
  <2> QED
    BY <1>0, <1>11, <2>1, <2>2, <2>3
       DEF AmChoose, AmContract!Choose, AmContract!Threads, AmContract!ContractNext, AmThread
<1>12. CASE AmRestore
  <2>1. AmLevel > 0 /\ AmTop.exc = "PendSV" /\ amLevels' = SubSeq(amLevels, 1, AmLevel - 1)
    BY <1>12 DEF AmRestore, AmPendSvAt, AmReturn
  <2>2. AmLevel = 1 /\ amStarted
    BY <2>1, AmPendSvOutermost
  <2>3. AmLevel' = 0 /\ amLevels' = <<>>
    BY <1>0, <2>1, <2>2, AmPopLevels
  <2>4. AmThread' = amRunning
    <3>1. AmCurrent'
      BY <1>12, AmRestoreKeeps DEF AmContext
    <3> QED
      BY <1>12, <2>3, <3>1 DEF AmCurrent, AmRestore
  <2> QED
    BY <1>0, <1>12, <2>2, <2>3, <2>4 DEF AmRestore, AmContract!Switch, AmContract!ContractNext
<1>13. CASE AmPendSvEntry
  BY <1>8, <1>13 DEF AmPendSvEntry, AmContract!ContractNext
<1>14. ASSUME NEW l \in AmLines, AmTakeInterrupt(l) PROVE AmContract!TakeInterrupt
  BY <1>8, <1>14 DEF AmTakeInterrupt
<1> QED
  BY <1>1, <1>2, <1>3, <1>4, <1>5, <1>6, <1>7, <1>9, <1>10, <1>11, <1>12, <1>13, <1>14
     DEF AmNext, AmContract!ContractNext

\* The Arm-M port implements the contract the kernel is written against although its
\* PendSV handler can be interrupted between saving, choosing and restoring.
THEOREM ArmMKeepsContract == AmSpec => AmKeepsContract
<1>1. AmInit => AmContract!ContractInit
  BY DEF AmInit, AmContract!ContractInit, AmLevel
<1>2. AmInv /\ [AmNext]_amVars => [AmContract!ContractNext]_(AmContract!contractVars)
  <2> SUFFICES ASSUME AmInv, [AmNext]_amVars
               PROVE  [AmContract!ContractNext]_(AmContract!contractVars)
    OBVIOUS
  <2>1. CASE UNCHANGED amVars
    BY <2>1 DEF amVars, amKernelVars, AmContract!contractVars, AmThread, AmLevel
  <2> QED
    BY <2>1, AmContractStep
<1> QED
  BY <1>1, <1>2, AmInitKeeps, AmStep, PTL DEF AmSpec, AmKeepsContract, AmContract!ContractSpec

-----------------------------------------------------------------------------
(* The Arm port *)

ArValues == Tasks \cup {Junk} \cup {HandlerValue(k) : k \in Nat}

ArFrames == [kind : {"first", "second"}, val : ArValues]

ArLevelType == [saved : Seq(ArFrames), mode : {"sys", "svc"}, run : {"entry", "body", "return"},
                line : GicLines \cup {"none"}]

ArRegisters == [x : ArValues, s : ArValues,
                sp : [on : Tasks \cup {"zero", "main"}, frames : Seq(ArFrames)]]

ArTypes ==
  /\ arCpu \in ArRegisters
  /\ arMask \in BOOLEAN /\ arState \in [pending : BOOLEAN, main : BOOLEAN]
  /\ arTaskSp \in [Tasks -> Seq(ArFrames)] /\ arRunning \in Tasks \cup {NoTask}
  /\ arActive \subseteq Tasks /\ arPc \in [Tasks -> {"code", "yield", "exclusive"}]
  /\ arLevels \in Seq(ArLevelType) /\ arMonitor \in Tasks \cup {NoTask}
  /\ arGic \in [pending : SUBSET GicLines, enabled : SUBSET GicLines, active : SUBSET GicLines]
  /\ arLocked \in BOOLEAN /\ arWanted \in BOOLEAN /\ arDisturbed \in BOOLEAN

\* The stack of a task that is, or is not, in the middle of yield_cpu, and the
\* context that push_second_level_state_and_dispatch leaves on it.
ArStack(t, yields) == IF yields THEN Push(<<>>, "first", t) ELSE <<>>

ArSaved(t, yields) == Push(Push(ArStack(t, yields), "first", t), "second", t)

\* What irq_entry has saved at each level of nesting.
ArNested ==
  /\ ~ArStarted => /\ arLevels = <<>> /\ arCpu.sp.on = "main" /\ arRunning = NoTask
                   /\ arActive = {} /\ \A t \in Tasks : arPc[t] = "code"
  /\ ArStarted => arCpu.sp.on \in arActive \cup {"zero"} /\ arRunning = ArThread
  /\ \A i \in 1 .. ArLevel :
       /\ arLevels[i].mode = IF i = 1 THEN "sys" ELSE "svc"
       /\ arLevels[i].saved = IF i > 1 THEN Push(<<>>, "first", HandlerValue(i - 1))
                              ELSE IF arCpu.sp.on = "zero" THEN <<>>
                              ELSE Push(<<>>, "first", arCpu.sp.on)

\* The thread the CPU is in, and the others.
ArCurrent ==
  /\ ArStarted /\ arCpu.sp.on # "zero" =>
        /\ arCpu.s = arCpu.sp.on
        /\ arCpu.sp.frames = ArStack(arCpu.sp.on, arPc[arCpu.sp.on] = "yield")
        /\ arLevels = <<>> => arCpu.x = arCpu.sp.on
  /\ arLevels # <<>> => arCpu.x = HandlerValue(ArLevel)
  /\ \A t \in arActive \ {arCpu.sp.on} : arTaskSp[t] = ArSaved(t, arPc[t] = "yield")

\* A dispatch that has been asked for is pending for the end of the handlers, or the
\* task is about to make it.
ArRequested ==
  /\ arWanted => \/ arState.pending
                 \/ ArStarted /\ arCpu.sp.on # "zero" /\ arPc[arCpu.sp.on] = "yield"
  /\ arState.pending => arLevels # <<>>

\* What the code believes of CPU Lock, also where no code of the kernel runs.
ArLocking ==
  /\ arLevels = <<>> => arLocked = arMask
  /\ ArStarted /\ arLevels = <<>> /\ arLocked =>
        arCpu.sp.on # "zero" /\ arPc[arCpu.sp.on] # "yield"
  /\ arLevels # <<>> => IF ArTop.run = "body" THEN arLocked = arMask ELSE ~arLocked

ArMonitored ==
  ArStarted /\ arLevels = <<>> /\ arCpu.sp.on # "zero" =>
     arMonitor = NoTask \/ (arMonitor = arCpu.sp.on /\ ~arDisturbed)

ArInv == /\ ArTypes /\ ArNested /\ ArCurrent /\ ArRequested /\ ArLocking /\ ArMonitored
         /\ ArPriorityOrder

LEMMA ArValueTypes ==
  Junk \in ArValues /\ Tasks \subseteq ArValues /\ \A k \in Nat : HandlerValue(k) \in ArValues
BY DEF ArValues

LEMMA ArPushFrame ==
  ASSUME NEW s \in Seq(ArFrames), NEW k \in {"first", "second"}, NEW v \in ArValues
  PROVE  /\ Push(s, k, v) \in Seq(ArFrames) /\ Push(s, k, v) # <<>>
         /\ Drop(Push(s, k, v)) = s
         /\ OnTop(Push(s, k, v), k, Junk) = v
         /\ Push(<<>>, k, v) \o s = Push(s, k, v)
<1>1. Frame(k, v) \in ArFrames
  BY DEF Frame, ArFrames
<1>2. Push(<<>>, k, v) = <<Frame(k, v)>>
  BY DEF Push
<1> QED
  BY <1>1, <1>2, PushDrop DEF Push

LEMMA ArDropType ==
  ASSUME NEW s \in Seq(ArFrames), NEW k
  PROVE  Drop(s) \in Seq(ArFrames) /\ OnTop(s, k, Junk) \in ArValues
<1>1. CASE s = <<>>
  BY <1>1, ArValueTypes DEF Drop, OnTop
<1>2. CASE s # <<>>
  <2>1. Tail(s) \in Seq(ArFrames) /\ Head(s) \in ArFrames
    BY <1>2
  <2> QED
    BY <1>2, <2>1, ArValueTypes DEF Drop, OnTop, ArFrames
<1> QED
  BY <1>1, <1>2

LEMMA ArSavedIs ==
  ASSUME NEW t \in Tasks, NEW y \in BOOLEAN
  PROVE  /\ ArStack(t, y) \in Seq(ArFrames) /\ ArSaved(t, y) \in Seq(ArFrames)
         /\ OnTop(ArSaved(t, y), "second", Junk) = t
         /\ OnTop(Drop(ArSaved(t, y)), "first", Junk) = t
         /\ Drop(Drop(ArSaved(t, y))) = ArStack(t, y)
<1>1. t \in ArValues
  BY ArValueTypes
<1>2. ArStack(t, y) \in Seq(ArFrames)
  <2>0. <<>> \in Seq(ArFrames)
    OBVIOUS
  <2>1. PICK e \in Seq(ArFrames) : e = <<>>
    BY <2>0
  <2>2. Push(e, "first", t) \in Seq(ArFrames)
    BY <1>1, ArPushFrame
  <2> QED
    BY <2>1, <2>2 DEF ArStack
<1>3. PICK a \in Seq(ArFrames) : a = Push(ArStack(t, y), "first", t)
  BY <1>1, <1>2, ArPushFrame
<1>4. Drop(a) = ArStack(t, y) /\ OnTop(a, "first", Junk) = t
  BY <1>1, <1>2, <1>3, ArPushFrame
<1>5. ArSaved(t, y) = Push(a, "second", t)
  BY <1>3 DEF ArSaved
<1>6. /\ ArSaved(t, y) \in Seq(ArFrames) /\ Drop(ArSaved(t, y)) = a
      /\ OnTop(ArSaved(t, y), "second", Junk) = t
  BY <1>1, <1>5, ArPushFrame
<1> QED
  BY <1>2, <1>4, <1>6

\* Push and pops of the registers, field by field.
LEMMA ArPopXIs ==
  ASSUME NEW c, c \in ArRegisters
  PROVE  /\ ArPopX(c).x = OnTop(c.sp.frames, "first", Junk) /\ ArPopX(c).s = c.s
         /\ ArPopX(c).sp.on = c.sp.on /\ ArPopX(c).sp.frames = Drop(c.sp.frames)
         /\ ArPopX(c) \in ArRegisters
BY ArDropType DEF ArPopX, ArRegisters

LEMMA ArPopSIs ==
  ASSUME NEW c, c \in ArRegisters
  PROVE  /\ ArPopS(c).s = OnTop(c.sp.frames, "second", Junk) /\ ArPopS(c).x = c.x
         /\ ArPopS(c).sp.on = c.sp.on /\ ArPopS(c).sp.frames = Drop(c.sp.frames)
         /\ ArPopS(c) \in ArRegisters
BY ArDropType DEF ArPopS, ArRegisters

LEMMA ArPushIs ==
  ASSUME NEW c, c \in ArRegisters,
         NEW k \in {"first", "second"}, NEW v \in ArValues
  PROVE  /\ ArPush(c, k, v).s = c.s /\ ArPush(c, k, v).x = c.x
         /\ ArPush(c, k, v).sp.on = c.sp.on
         /\ ArPush(c, k, v).sp.frames = Push(c.sp.frames, k, v)
         /\ ArPush(c, k, v) \in ArRegisters
BY ArPushFrame DEF ArPush, ArRegisters


\* The levels after an IRQ has been taken, after something of the innermost level has
\* changed, and after the innermost level has returned.
LEMMA ArTopLevel ==
  ASSUME ArTypes, ArLevel > 0
  PROVE  ArLevel \in Nat /\ ArLevel \in 1 .. ArLevel /\ arLevels # <<>> /\ ArTop \in ArLevelType
<1>1. arLevels \in Seq(ArLevelType) /\ ArLevel = Len(arLevels) /\ ArTop = arLevels[Len(arLevels)]
  BY DEF ArTypes, ArLevel, ArTop
<1>2. Len(arLevels) \in Nat /\ Len(arLevels) \in 1 .. Len(arLevels) /\ arLevels # <<>>
  BY <1>1, LenEmpty
<1> QED
  BY <1>1, <1>2

LEMMA ArPushLevel ==
  ASSUME ArTypes, NEW lv \in ArLevelType, arLevels' = Append(arLevels, lv)
  PROVE  /\ arLevels' \in Seq(ArLevelType) /\ ArLevel' = ArLevel + 1 /\ ArLevel \in Nat
         /\ \A i \in 1 .. ArLevel : arLevels'[i] = arLevels[i]
         /\ arLevels'[ArLevel + 1] = lv
         /\ arLevels' # <<>>
<1>1. arLevels \in Seq(ArLevelType) /\ ArLevel = Len(arLevels) /\ Len(arLevels) \in Nat
  BY DEF ArTypes, ArLevel
<1>2. /\ arLevels' \in Seq(ArLevelType) /\ Len(arLevels') = Len(arLevels) + 1
      /\ \A i \in 1 .. Len(arLevels) : arLevels'[i] = arLevels[i]
      /\ arLevels'[Len(arLevels) + 1] = lv
  BY <1>1, AppendProperties
<1>3. arLevels' # <<>>
  BY <1>1, <1>2, LenEmpty
<1> QED
  BY <1>1, <1>2, <1>3 DEF ArLevel

LEMMA ArSetTopLevel ==
  ASSUME ArTypes, ArLevel > 0, NEW lv \in ArLevelType, arLevels' = ArSetTop(lv)
  PROVE  /\ arLevels' \in Seq(ArLevelType) /\ ArLevel' = ArLevel
         /\ \A i \in 1 .. ArLevel - 1 : arLevels'[i] = arLevels[i]
         /\ arLevels'[ArLevel] = lv
         /\ arLevels' # <<>>
<1>1. arLevels \in Seq(ArLevelType) /\ ArLevel = Len(arLevels) /\ Len(arLevels) \in Nat
  BY DEF ArTypes, ArLevel
<1>2. arLevels' = [arLevels EXCEPT ![Len(arLevels)] = lv] /\ Len(arLevels) \in 1 .. Len(arLevels)
  BY <1>1 DEF ArSetTop
<1>3. /\ arLevels' \in Seq(ArLevelType) /\ Len(arLevels') = Len(arLevels)
      /\ \A i \in 1 .. Len(arLevels) - 1 : arLevels'[i] = arLevels[i]
      /\ arLevels'[Len(arLevels)] = lv
  BY <1>1, <1>2, ExceptSeq
<1>4. arLevels' # <<>>
  BY <1>1, <1>2, <1>3, LenEmpty
<1> QED
  BY <1>1, <1>3, <1>4 DEF ArLevel

LEMMA ArPopLevel ==
  ASSUME ArTypes, ArLevel > 0, arLevels' = SubSeq(arLevels, 1, ArLevel - 1)
  PROVE  /\ arLevels' \in Seq(ArLevelType) /\ ArLevel' = ArLevel - 1 /\ ArLevel \in Nat
         /\ \A i \in 1 .. ArLevel - 1 : arLevels'[i] = arLevels[i]
         /\ arLevels' = <<>> <=> ArLevel = 1
<1> DEFINE n == ArLevel - 1
<1>1. arLevels \in Seq(ArLevelType) /\ ArLevel = Len(arLevels) /\ Len(arLevels) \in Nat
  BY DEF ArTypes, ArLevel
<1>2. n \in Nat /\ n <= Len(arLevels)
  BY <1>1
<1>3. \A i \in 1 .. n : arLevels[i] \in ArLevelType
  <2> SUFFICES ASSUME NEW i \in 1 .. n PROVE arLevels[i] \in ArLevelType
    OBVIOUS
  <2>1. i \in 1 .. Len(arLevels)
    BY <1>1, <1>2
  <2> QED
    BY <1>1, <2>1
<1>4. arLevels' = [i \in 1 .. n |-> arLevels[i]]
  BY <1>1, <1>2
<1>5. /\ arLevels' \in Seq(ArLevelType) /\ Len(arLevels') = n
      /\ \A i \in 1 .. n : arLevels'[i] = arLevels[i]
  BY <1>2, <1>3, <1>4
<1>6. arLevels' = <<>> <=> n = 0
  BY <1>5, LenEmpty
<1> QED
  BY <1>1, <1>2, <1>5, <1>6 DEF ArLevel

\* What the dispatcher leaves behind, for whatever task it picks.
ArResumed == /\ arCpu \in ArRegisters /\ arTaskSp \in [Tasks -> Seq(ArFrames)]
             /\ arRunning \in Tasks \cup {NoTask} /\ arMonitor \in Tasks \cup {NoTask}
             /\ arMask = FALSE /\ arWanted = FALSE
             /\ ArNested /\ ArCurrent /\ ArMonitored

LEMMA ArDispatched ==
  ASSUME ArTypes, NEW sps \in [Tasks -> Seq(ArFrames)], NEW active \in SUBSET Tasks,
         NEW pc \in [Tasks -> {"code", "yield", "exclusive"}],
         \A t \in active : sps[t] = ArSaved(t, pc[t] = "yield"),
         ArDispatch(sps, active),
         arPc' = pc, arActive' = active, arLevels' = <<>>, ArStarted'
  PROVE  ArResumed'
<1>1. PICK n \in active \cup {NoTask} :
        /\ arRunning' = n
        /\ arCpu' = IF n = NoTask THEN ArIdleTask
                    ELSE ArPopX(ArPopS([x |-> Junk, s |-> Junk,
                                        sp |-> [on |-> n, frames |-> sps[n]]]))
        /\ arTaskSp' = [t \in Tasks |-> IF t = n THEN <<>> ELSE sps[t]]
        /\ arMonitor' = IF n = NoTask THEN arMonitor ELSE NoTask
        /\ arMask' = FALSE
        /\ arWanted' = FALSE
  BY DEF ArDispatch
<1>2. arTaskSp' \in [Tasks -> Seq(ArFrames)] /\ \A t \in active \ {n} : arTaskSp'[t] = sps[t]
  <2>1. <<>> \in Seq(ArFrames)
    OBVIOUS
  <2> QED
    BY <1>1, <2>1
<1>3. ArLevel' = 0
  BY DEF ArLevel
<1>4. CASE n = NoTask
  <2>1. /\ arCpu' = ArIdleTask /\ arMonitor' = arMonitor
    BY <1>1, <1>4
  <2>2. arCpu' \in ArRegisters /\ arCpu'.sp.on = "zero"
    <3>1. <<>> \in Seq(ArFrames)
      OBVIOUS
    <3> QED
      BY <2>1, <3>1, ArValueTypes DEF ArIdleTask, ArNoStack, ArRegisters
  <2>3. ArNested'
    BY <1>1, <1>3, <1>4, <2>2 DEF ArNested, ArThread
  <2>4. ArCurrent'
    BY <1>2, <1>4, <2>2, TasksAssumption DEF ArCurrent
  <2>5. ArMonitored'
    BY <2>2 DEF ArMonitored
  <2> QED
    BY <1>1, <1>2, <1>4, <2>1, <2>2, <2>3, <2>4, <2>5 DEF ArResumed, ArTypes
<1>5. CASE n # NoTask
  <2>1. n \in active /\ n \in Tasks /\ n # "zero" /\ n # "main"
    BY <1>5, ArAssumption
  <2>2. PICK y \in BOOLEAN : y = (pc[n] = "yield")
    OBVIOUS
  <2>3. PICK c : c = [x |-> Junk, s |-> Junk, sp |-> [on |-> n, frames |-> sps[n]]]
    OBVIOUS
  <2>4. c \in ArRegisters /\ c.sp.on = n /\ c.sp.frames = ArSaved(n, y)
    <3>1. sps[n] = ArSaved(n, y)
      BY <2>1, <2>2
    <3>2. sps[n] \in Seq(ArFrames)
      BY <2>1
    <3> QED
      BY <2>1, <2>3, <3>1, <3>2, ArValueTypes DEF ArRegisters
  <2>5. PICK d : d = ArPopS(c)
    OBVIOUS
  <2>6. /\ d \in ArRegisters /\ d.s = n /\ d.sp.on = n /\ d.sp.frames = Drop(ArSaved(n, y))
    BY <2>1, <2>4, <2>5, ArPopSIs, ArSavedIs
  <2>7. arCpu' = ArPopX(d) /\ arMonitor' = NoTask
    BY <1>1, <1>5, <2>3, <2>5
  <2>8. /\ arCpu' \in ArRegisters /\ arCpu'.s = n /\ arCpu'.x = n /\ arCpu'.sp.on = n
        /\ arCpu'.sp.frames = ArStack(n, y)
    BY <2>1, <2>6, <2>7, ArPopXIs, ArSavedIs
  <2>9. ArNested'
    BY <1>1, <1>3, <2>1, <2>8 DEF ArNested, ArThread
  <2>10. ArCurrent'
    BY <1>2, <2>1, <2>2, <2>8 DEF ArCurrent
  <2>11. ArMonitored'
    BY <2>7 DEF ArMonitored
  <2> QED
    BY <1>1, <1>2, <2>1, <2>7, <2>8, <2>9, <2>10, <2>11 DEF ArResumed
<1> QED
  BY <1>4, <1>5

\* ... and when it is entered from the thread the CPU is in, with the first-level
\* state of that thread on its stack.
LEMMA ArSwitched ==
  ASSUME ArInv, NEW c \in ArRegisters, ArPushSecondLevelStateAndDispatch(c),
         ArStarted, c.sp.on = arCpu.sp.on, c.s = arCpu.s,
         NEW pc \in [Tasks -> {"code", "yield", "exclusive"}], arPc' = pc,
         \A t \in arActive \ {arCpu.sp.on} : pc[t] = arPc[t],
         arCpu.sp.on # "zero" =>
            c.sp.frames = Push(ArStack(arCpu.sp.on, pc[arCpu.sp.on] = "yield"),
                               "first", arCpu.sp.on),
         arActive' = arActive, arLevels' = <<>>, ArStarted'
  PROVE  ArResumed'
<1>0. /\ ArTypes /\ ArNested /\ ArCurrent /\ arTaskSp \in [Tasks -> Seq(ArFrames)]
      /\ arActive \in SUBSET Tasks /\ arCpu.s \in ArValues
      /\ arCpu.sp.on \in arActive \cup {"zero"}
  BY DEF ArInv, ArTypes, ArRegisters, ArNested
<1>1. CASE arCpu.sp.on = "zero"
  <2>1. \A t \in arActive : arTaskSp[t] = ArSaved(t, pc[t] = "yield")
    <3> SUFFICES ASSUME NEW t \in arActive PROVE arTaskSp[t] = ArSaved(t, pc[t] = "yield")
      OBVIOUS
    <3>1. t # "zero"
      BY <1>0, ArAssumption
    <3> QED
      BY <1>0, <1>1, <3>1 DEF ArCurrent
  <2>2. ArDispatch(arTaskSp, arActive)
    BY <1>1 DEF ArPushSecondLevelStateAndDispatch
  <2> QED
    BY <1>0, <2>1, <2>2, ArDispatched
<1>2. CASE arCpu.sp.on # "zero"
  <2>1. PICK n \in arActive : n = arCpu.sp.on
    BY <1>0, <1>2
  <2>2. PICK y \in BOOLEAN : y = (pc[n] = "yield")
    OBVIOUS
  <2>3. n \in Tasks /\ n # NoTask /\ arRunning = n /\ c.s = n
        /\ c.sp.frames = Push(ArStack(n, y), "first", n)
    BY <1>0, <1>2, <2>1, <2>2, TasksAssumption DEF ArNested, ArCurrent, ArThread
  <2>4. ArPush(c, "second", c.s).sp.frames = ArSaved(n, y)
    BY <1>0, <2>3, ArPushIs DEF ArSaved
  <2>5. PICK sps : sps = [arTaskSp EXCEPT ![n] = ArSaved(n, y)]
    OBVIOUS
  <2>6. sps \in [Tasks -> Seq(ArFrames)] /\ sps[n] = ArSaved(n, y)
        /\ \A t \in Tasks \ {n} : sps[t] = arTaskSp[t]
    BY <1>0, <2>3, <2>5, ArSavedIs
  <2>7. ArDispatch(sps, arActive)
    BY <1>2, <2>1, <2>3, <2>4, <2>5 DEF ArPushSecondLevelStateAndDispatch
  <2>8. \A t \in arActive : sps[t] = ArSaved(t, pc[t] = "yield")
    <3> SUFFICES ASSUME NEW t \in arActive PROVE sps[t] = ArSaved(t, pc[t] = "yield")
      OBVIOUS
    <3>1. CASE t = n
      BY <2>2, <2>6, <3>1
    <3>2. CASE t # n
      BY <1>0, <2>1, <2>6, <3>2 DEF ArCurrent
    <3> QED
      BY <3>1, <3>2
  <2> QED
    BY <1>0, <2>6, <2>7, <2>8, ArDispatched
<1> QED
  BY <1>1, <1>2

\* Nothing of this changes with what the lines do.
LEMMA ArSameContext ==
  ASSUME ArNested, ArCurrent, UNCHANGED <<arCpu, arTaskSp, arRunning, arActive, arPc, arLevels>>,
         ArStarted' = ArStarted
  PROVE  ArNested' /\ ArCurrent'
<1>1. ArLevel' = ArLevel
  BY DEF ArLevel
<1> QED
  BY <1>1 DEF ArNested, ArCurrent, ArThread

LEMMA ArSameOrder ==
  ASSUME ArPriorityOrder, arLevels' = arLevels, arGic'.active = arGic.active
  PROVE  ArPriorityOrder'
<1>1. ArLevel' = ArLevel
  BY DEF ArLevel
<1> QED
  BY <1>1 DEF ArPriorityOrder

LEMMA ArLinesKeep ==
  ASSUME ArInv, NEW l \in GicLines, ArRaise(l) \/ ArWithdraw(l) \/ ArToggleLine(l)
  PROVE  ArInv'
<1>1. /\ UNCHANGED <<arCpu, arMask, arState, arTaskSp, arRunning, arActive, arPc, arLevels,
                     arMonitor, arLocked, arWanted, arDisturbed>>
      /\ arGic'.active = arGic.active
      /\ arGic' \in [pending : SUBSET GicLines, enabled : SUBSET GicLines, active : SUBSET GicLines]
  <2>0. arGic \in [pending : SUBSET GicLines, enabled : SUBSET GicLines, active : SUBSET GicLines]
    BY DEF ArInv, ArTypes
  <2>1. CASE ArRaise(l)
    BY <2>0, <2>1 DEF ArRaise, arKernelVars
  <2>2. CASE ArWithdraw(l)
    BY <2>0, <2>2 DEF ArWithdraw, arKernelVars, arHistory
  <2>3. CASE ArToggleLine(l)
    BY <2>0, <2>3 DEF ArToggleLine, arKernelVars, arHistory
  <2> QED
    BY <2>1, <2>2, <2>3
<1>2. ArTypes'
  BY <1>1 DEF ArInv, ArTypes
<1>3. ArNested' /\ ArCurrent'
  BY <1>1, ArSameContext DEF ArInv, ArStarted
<1>4. ArRequested' /\ ArLocking' /\ ArMonitored'
  BY <1>1 DEF ArInv, ArRequested, ArLocking, ArMonitored, ArStarted, ArTop, ArLevel
<1>5. ArPriorityOrder'
  BY <1>1, ArSameOrder DEF ArInv
<1> QED
  BY <1>2, <1>3, <1>4, <1>5 DEF ArInv

LEMMA ArPortBootKeeps ==
  ASSUME ArInv, NEW active \in SUBSET Tasks, ArPortBoot(active)
  PROVE  ArInv' /\ ArHeld' = arRunning'
<1>0. ArTypes /\ ~ArStarted /\ arLevels = <<>> /\ \A t \in Tasks : arPc[t] = "code"
  BY DEF ArInv, ArNested, ArPortBoot
<1>1. PICK pc \in [Tasks -> {"code", "yield", "exclusive"}] : pc = arPc
  BY <1>0 DEF ArTypes
<1>2. /\ arState' = [arState EXCEPT !.main = TRUE] /\ ArStarted' /\ arState'.pending = arState.pending
      /\ arState' \in [pending : BOOLEAN, main : BOOLEAN] /\ arLevels' = <<>> /\ arPc' = pc
      /\ arActive' = active /\ arLocked' = FALSE /\ arGic' = GicInit /\ arDisturbed' = arDisturbed
  BY <1>0, <1>1 DEF ArPortBoot, ArTypes, ArStarted
<1>3. PICK sps : sps = [t \in Tasks |-> IF t \in active THEN ArInitializeTaskState(t) ELSE <<>>]
  OBVIOUS
<1>4. \A t \in Tasks : /\ ArInitializeTaskState(t) = ArSaved(t, FALSE)
                       /\ ArInitializeTaskState(t) \in Seq(ArFrames)
  <2> SUFFICES ASSUME NEW t \in Tasks
               PROVE  /\ ArInitializeTaskState(t) = ArSaved(t, FALSE)
                      /\ ArInitializeTaskState(t) \in Seq(ArFrames)
    OBVIOUS
  <2>1. ArSaved(t, FALSE) \in Seq(ArFrames)
    BY ArSavedIs
  <2> QED
    BY <2>1 DEF ArInitializeTaskState, ArSaved, ArStack
<1>5. sps \in [Tasks -> Seq(ArFrames)]
  <2>1. <<>> \in Seq(ArFrames)
    OBVIOUS
  <2> QED
    BY <1>3, <1>4, <2>1
<1>6. \A t \in active : sps[t] = ArSaved(t, pc[t] = "yield")
  BY <1>0, <1>1, <1>3, <1>4
<1>7. ArDispatch(sps, active)
  BY <1>3 DEF ArPortBoot
<1>8. ArResumed'
  BY <1>0, <1>2, <1>5, <1>6, <1>7, ArDispatched
<1>9. ArTypes'
  <2>1. arLevels' \in Seq(ArLevelType)
    BY <1>2
  <2>2. arGic' \in [pending : SUBSET GicLines, enabled : SUBSET GicLines, active : SUBSET GicLines]
    BY <1>2 DEF GicInit
  <2> QED
    BY <1>0, <1>2, <1>8, <2>1, <2>2 DEF ArTypes, ArResumed
<1>10. ArRequested' /\ ArLocking'
  <2>1. arState'.pending = FALSE
    BY <1>0, <1>2 DEF ArInv, ArRequested, ArTypes
  <2> QED
    BY <1>2, <1>8, <2>1 DEF ArRequested, ArLocking, ArResumed
<1>11. ArLevel' = 0
  BY <1>2 DEF ArLevel
<1>12. ArPriorityOrder'
  BY <1>2, <1>11 DEF ArPriorityOrder, GicInit
<1>13. ArHeld' = arRunning'
  BY <1>2, <1>8 DEF ArResumed, ArNested, ArCurrent, ArHeld, ArThread
<1> QED
  BY <1>8, <1>9, <1>10, <1>12, <1>13 DEF ArInv, ArResumed

LEMMA ArActivateKeeps ==
  ASSUME ArInv, NEW t \in Tasks, ArActivate(t)
  PROVE  ArInv'
<1>0. /\ ArTypes /\ t \notin arActive /\ arActive' = arActive \cup {t}
      /\ arTaskSp' = [arTaskSp EXCEPT ![t] = ArInitializeTaskState(t)]
      /\ arPc' = [arPc EXCEPT ![t] = "code"]
      /\ UNCHANGED <<arCpu, arMask, arState, arRunning, arLevels, arMonitor, arGic, arLocked,
                     arWanted, arDisturbed>>
      /\ arPc \in [Tasks -> {"code", "yield", "exclusive"}]
      /\ arTaskSp \in [Tasks -> Seq(ArFrames)]
  BY DEF ArActivate, arHistory, ArInv, ArTypes
<1>1. ArStarted /\ ArLevel' = ArLevel
  BY <1>0 DEF ArActivate, ArInCode, ArInBody, ArInThread, ArInv, ArNested, ArStarted, ArLevel
<1>2. ArInitializeTaskState(t) = ArSaved(t, FALSE) /\ ArSaved(t, FALSE) \in Seq(ArFrames)
  BY ArSavedIs DEF ArInitializeTaskState, ArSaved, ArStack
<1>3. /\ arTaskSp' \in [Tasks -> Seq(ArFrames)] /\ arTaskSp'[t] = ArSaved(t, FALSE)
      /\ arPc' \in [Tasks -> {"code", "yield", "exclusive"}] /\ arPc'[t] = "code"
      /\ \A u \in Tasks \ {t} : arTaskSp'[u] = arTaskSp[u] /\ arPc'[u] = arPc[u]
  BY <1>0, <1>2
<1>4. PICK n \in arActive \cup {"zero"} : n = arCpu.sp.on /\ n # t
  <2>1. t # "zero"
    BY ArAssumption
  <2> QED
    BY <1>0, <1>1, <2>1 DEF ArInv, ArNested
<1>5. n # "zero" => arPc'[n] = arPc[n]
  BY <1>0, <1>3, <1>4 DEF ArTypes
<1>6. ArTypes'
  BY <1>0, <1>3 DEF ArTypes
<1>7. ArNested'
  BY <1>0, <1>1, <1>4 DEF ArInv, ArNested, ArStarted, ArThread
<1>8. ArCurrent'
  <2>1. \A u \in arActive' \ {n} : arTaskSp'[u] = ArSaved(u, arPc'[u] = "yield")
    <3> SUFFICES ASSUME NEW u \in arActive' \ {n}
                 PROVE  arTaskSp'[u] = ArSaved(u, arPc'[u] = "yield")
      OBVIOUS
    <3>1. CASE u = t
      <4>1. (arPc'[u] = "yield") = FALSE
        BY <1>3, <3>1
      <4> QED
        BY <1>3, <3>1, <4>1
    <3>2. CASE u # t
      BY <1>0, <1>3, <1>4, <3>2 DEF ArInv, ArCurrent, ArTypes
    <3> QED
      BY <3>1, <3>2
  <2>2. /\ ArStarted' /\ arCpu'.sp.on # "zero" =>
              /\ arCpu'.s = arCpu'.sp.on
              /\ arCpu'.sp.frames = ArStack(arCpu'.sp.on, arPc'[arCpu'.sp.on] = "yield")
              /\ arLevels' = <<>> => arCpu'.x = arCpu'.sp.on
        /\ arLevels' # <<>> => arCpu'.x = HandlerValue(ArLevel')
    BY <1>0, <1>1, <1>4, <1>5 DEF ArInv, ArCurrent
  <2> QED
    BY <1>0, <1>4, <2>1, <2>2 DEF ArCurrent
<1>9. ArRequested' /\ ArLocking' /\ ArMonitored'
  BY <1>0, <1>1, <1>4, <1>5 DEF ArInv, ArRequested, ArLocking, ArMonitored, ArStarted, ArTop
<1>10. ArPriorityOrder'
  BY <1>0, ArSameOrder DEF ArInv
<1> QED
  BY <1>6, <1>7, <1>8, <1>9, <1>10 DEF ArInv

LEMMA ArYieldInHandlerKeeps ==
  ASSUME ArInv, ArYieldInHandler
  PROVE  ArInv'
<1>1. /\ arState' = [arState EXCEPT !.pending = TRUE] /\ arWanted' = TRUE /\ ArTypes
      /\ UNCHANGED <<arCpu, arMask, arTaskSp, arRunning, arActive, arPc, arLevels, arMonitor,
                     arGic, arLocked, arDisturbed>>
      /\ ArLevel > 0
  BY DEF ArYieldInHandler, arKernelVars, ArInv, ArInBody
<1>2. /\ arState' \in [pending : BOOLEAN, main : BOOLEAN] /\ arState'.pending = TRUE
      /\ ArStarted' = ArStarted /\ arLevels # <<>>
  BY <1>1, ArTopLevel DEF ArTypes, ArStarted
<1>3. ArTypes'
  BY <1>1, <1>2 DEF ArTypes
<1>4. ArNested' /\ ArCurrent'
  BY <1>1, <1>2, ArSameContext DEF ArInv
<1>5. ArRequested' /\ ArLocking' /\ ArMonitored'
  BY <1>1, <1>2 DEF ArInv, ArRequested, ArLocking, ArMonitored, ArTop, ArLevel
<1>6. ArPriorityOrder'
  BY <1>1, ArSameOrder DEF ArInv
<1> QED
  BY <1>3, <1>4, <1>5, <1>6 DEF ArInv

LEMMA ArCpuLockKeeps ==
  ASSUME ArInv, ArCpuLock
  PROVE  ArInv'
<1>1. /\ arMask' = ~arLocked /\ arLocked' = ~arLocked /\ ArTypes
      /\ UNCHANGED <<arCpu, arState, arTaskSp, arRunning, arActive, arPc, arLevels, arMonitor,
                     arGic, arWanted, arDisturbed>>
      /\ ArStarted' = ArStarted
  BY DEF ArCpuLock, arKernelVars, ArInv, ArStarted
<1>2. ArTypes'
  BY <1>1 DEF ArTypes
<1>3. ArNested' /\ ArCurrent'
  BY <1>1, ArSameContext DEF ArInv
<1>4. ArRequested' /\ ArMonitored'
  BY <1>1 DEF ArInv, ArRequested, ArMonitored
<1>5. ArLocking'
  <2>1. CASE ArInBody
    <3>1. arLevels # <<>> /\ ArTop.run = "body"
      BY <1>1, <2>1, ArTopLevel DEF ArInBody
    <3>2. arLevels' # <<>> /\ ArTop' = ArTop
      BY <1>1, <3>1 DEF ArTop, ArLevel
    <3> QED
      BY <1>1, <3>1, <3>2 DEF ArLocking
  <2>2. CASE ArInThread /\ ArThread \in Tasks /\ arPc[ArThread] = "code"
    <3>1. arLevels = <<>> /\ arCpu.sp.on # "zero" /\ arPc[arCpu.sp.on] = "code"
      BY <2>2, TasksAssumption DEF ArInThread, ArThread
    <3> QED
      BY <1>1, <3>1 DEF ArLocking
  <2> QED
    BY <2>1, <2>2 DEF ArCpuLock, ArInCode
<1>6. ArPriorityOrder'
  BY <1>1, ArSameOrder DEF ArInv
<1> QED
  BY <1>2, <1>3, <1>4, <1>5, <1>6 DEF ArInv

\* A task that executes: the CPU is on its stack.
LEMMA ArTaskRuns ==
  ASSUME ArInv, NEW t \in Tasks, ArInTask(t)
  PROVE  /\ ArStarted /\ arLevels = <<>> /\ arCpu.sp.on = t /\ t # "zero" /\ t \in arActive
         /\ arCpu.s = t /\ arCpu.x = t /\ arCpu.sp.frames = ArStack(t, arPc[t] = "yield")
         /\ arRunning = t
<1>1. ArStarted /\ arLevels = <<>> /\ arCpu.sp.on = t /\ t # "zero"
  BY TasksAssumption, ArAssumption DEF ArInTask, ArInThread, ArThread
<1> QED
  BY <1>1 DEF ArInv, ArNested, ArCurrent, ArThread

LEMMA ArExclusiveKeeps ==
  ASSUME ArInv, NEW t \in Tasks, ArExclusive(t)
  PROVE  ArInv'
<1>0. ArTypes /\ ArInTask(t) /\ arPc[t] # "yield"
      /\ arPc \in [Tasks -> {"code", "yield", "exclusive"}]
      /\ UNCHANGED <<arCpu, arMask, arState, arTaskSp, arRunning, arActive, arLevels, arGic,
                     arLocked, arWanted>>
      /\ arDisturbed' = FALSE /\ arMonitor' \in {t, NoTask}
      /\ arPc' = [arPc EXCEPT ![t] = IF @ = "code" THEN "exclusive" ELSE "code"]
  BY DEF ArExclusive, ArInv, ArTypes
<1>1. /\ ArStarted /\ arLevels = <<>> /\ arCpu.sp.on = t /\ t # "zero" /\ t \in arActive
  BY <1>0, ArTaskRuns
<1>2. /\ arPc' \in [Tasks -> {"code", "yield", "exclusive"}]
      /\ \A u \in Tasks : (arPc'[u] = "yield") = (arPc[u] = "yield")
  BY <1>0
<1>3. ArStarted' /\ arLevels' = <<>> /\ ArLevel' = ArLevel
  BY <1>0, <1>1 DEF ArStarted, ArLevel
<1>4. ArTypes'
  BY <1>0, <1>2 DEF ArTypes
<1>5. ArNested'
  BY <1>0, <1>1, <1>3 DEF ArInv, ArNested, ArThread
<1>6. ArCurrent'
  BY <1>0, <1>1, <1>2, <1>3 DEF ArInv, ArCurrent, ArTypes
<1>7. ArRequested' /\ ArLocking' /\ ArMonitored'
  BY <1>0, <1>1, <1>2, <1>3 DEF ArInv, ArRequested, ArLocking, ArMonitored
<1>8. ArPriorityOrder'
  BY <1>0, ArSameOrder DEF ArInv
<1> QED
  BY <1>4, <1>5, <1>6, <1>7, <1>8 DEF ArInv

LEMMA ArYieldBeginKeeps ==
  ASSUME ArInv, NEW t \in Tasks, ArYieldBegin(t)
  PROVE  ArInv' /\ arCpu'.s = arCpu.s /\ arCpu'.sp.on = arCpu.sp.on
<1>0. /\ ArTypes /\ ArInTask(t) /\ arPc[t] = "code" /\ ~arLocked
      /\ arPc \in [Tasks -> {"code", "yield", "exclusive"}] /\ arCpu \in ArRegisters
      /\ arCpu' = ArPush(arCpu, "first", arCpu.x) /\ arWanted' = TRUE
      /\ arPc' = [arPc EXCEPT ![t] = "yield"]
      /\ UNCHANGED <<arMask, arState, arTaskSp, arRunning, arActive, arLevels, arMonitor, arGic,
                     arLocked, arDisturbed>>
  BY DEF ArYieldBegin, ArInv, ArTypes
<1>1. /\ ArStarted /\ arLevels = <<>> /\ arCpu.sp.on = t /\ t # "zero" /\ t \in arActive
      /\ arCpu.x = t /\ arCpu.s = t /\ arRunning = t /\ arCpu.sp.frames = <<>>
  BY <1>0, ArTaskRuns DEF ArStack
<1>2. /\ arPc' \in [Tasks -> {"code", "yield", "exclusive"}] /\ arPc'[t] = "yield"
      /\ \A u \in Tasks \ {t} : arPc'[u] = arPc[u]
  BY <1>0
<1>3. ArStarted' /\ arLevels' = <<>> /\ ArLevel' = ArLevel
  BY <1>0, <1>1 DEF ArStarted, ArLevel
<1>4. /\ arCpu' \in ArRegisters /\ arCpu'.x = t /\ arCpu'.s = t /\ arCpu'.sp.on = t
      /\ arCpu'.sp.frames = Push(<<>>, "first", t)
  <2>1. t \in ArValues
    BY ArValueTypes
  <2> QED
    BY <1>0, <1>1, <2>1, ArPushIs
<1>5. ArTypes'
  BY <1>0, <1>2, <1>4 DEF ArTypes
<1>6. ArNested'
  BY <1>0, <1>1, <1>3, <1>4 DEF ArInv, ArNested, ArThread
<1>7. ArCurrent'
  <2>1. arCpu'.sp.frames = ArStack(t, arPc'[t] = "yield")
    BY <1>2, <1>4 DEF ArStack
  <2>2. \A u \in arActive \ {t} : arTaskSp[u] = ArSaved(u, arPc'[u] = "yield")
    BY <1>0, <1>1, <1>2 DEF ArInv, ArCurrent, ArTypes
  <2> QED
    BY <1>0, <1>3, <1>4, <2>1, <2>2 DEF ArCurrent
<1>8. ArRequested' /\ ArLocking' /\ ArMonitored'
  BY <1>0, <1>1, <1>2, <1>3, <1>4 DEF ArInv, ArRequested, ArLocking, ArMonitored
<1>9. ArPriorityOrder'
  BY <1>0, ArSameOrder DEF ArInv
<1> QED
  BY <1>1, <1>4, <1>5, <1>6, <1>7, <1>8, <1>9 DEF ArInv

LEMMA ArYieldDispatchKeeps ==
  ASSUME ArInv, NEW t \in Tasks, ArYieldDispatch(t)
  PROVE  ArInv' /\ ArHeld' = arRunning' /\ arLevels = <<>> /\ arWanted' = FALSE
<1>0. /\ ArTypes /\ ArInTask(t) /\ arPc[t] = "yield"
      /\ arPc \in [Tasks -> {"code", "yield", "exclusive"}] /\ arCpu \in ArRegisters
      /\ ArPushSecondLevelStateAndDispatch(arCpu)
      /\ arPc' = [arPc EXCEPT ![t] = "code"]
      /\ UNCHANGED <<arState, arActive, arLevels, arGic, arLocked, arDisturbed>>
  BY DEF ArYieldDispatch, ArInv, ArTypes
<1>1. /\ ArStarted /\ arLevels = <<>> /\ arCpu.sp.on = t /\ t # "zero" /\ t \in arActive
      /\ arCpu.sp.frames = Push(<<>>, "first", t)
  BY <1>0, ArTaskRuns DEF ArStack
<1>2. PICK pc \in [Tasks -> {"code", "yield", "exclusive"}] : pc = arPc'
  BY <1>0
<1>3. pc[t] = "code" /\ \A u \in Tasks \ {t} : pc[u] = arPc[u]
  BY <1>0, <1>2
<1>4. arCpu.sp.frames = Push(ArStack(t, pc[t] = "yield"), "first", t)
  BY <1>1, <1>3 DEF ArStack
<1>5. \A u \in arActive \ {arCpu.sp.on} : pc[u] = arPc[u]
  BY <1>0, <1>1, <1>3 DEF ArTypes
<1>6. ArStarted' /\ arLevels' = <<>> /\ arPc' = pc /\ arActive' = arActive
  BY <1>0, <1>1, <1>2 DEF ArStarted
<1>7. ArResumed'
  BY <1>0, <1>1, <1>4, <1>5, <1>6, ArSwitched
<1>8. ArTypes'
  BY <1>0, <1>2, <1>7 DEF ArTypes, ArResumed
<1>9. ArRequested' /\ ArLocking'
  BY <1>0, <1>1, <1>6, <1>7 DEF ArInv, ArRequested, ArLocking, ArResumed, ArTypes
<1>10. ArPriorityOrder'
  BY <1>0, ArSameOrder DEF ArInv
<1>11. ArHeld' = arRunning'
  BY <1>6, <1>7 DEF ArResumed, ArNested, ArCurrent, ArHeld, ArThread
<1> QED
  BY <1>1, <1>7, <1>8, <1>9, <1>10, <1>11 DEF ArInv, ArResumed

LEMMA ArExitKeeps ==
  ASSUME ArInv, NEW t \in Tasks, ArExit(t)
  PROVE  ArInv' /\ ArHeld' = arRunning' /\ arLevels = <<>> /\ arWanted' = FALSE
<1>0. /\ ArTypes /\ ArInTask(t) /\ arPc[t] = "code" /\ arLocked' = FALSE
      /\ arActive' = arActive \ {t} /\ ArDispatch(arTaskSp, arActive')
      /\ UNCHANGED <<arState, arPc, arLevels, arGic, arDisturbed>>
      /\ arTaskSp \in [Tasks -> Seq(ArFrames)]
  BY DEF ArExit, ArInv, ArTypes
<1>1. /\ ArStarted /\ arLevels = <<>> /\ arCpu.sp.on = t /\ t # "zero" /\ t \in arActive
  BY <1>0, ArTaskRuns
<1>2. PICK pc \in [Tasks -> {"code", "yield", "exclusive"}] : pc = arPc
  BY <1>0 DEF ArTypes
<1>3. PICK active \in SUBSET Tasks : active = arActive \ {t}
  BY <1>0 DEF ArTypes
<1>4. ArDispatch(arTaskSp, active) /\ arActive' = active
  BY <1>0, <1>3
<1>5. \A u \in active : arTaskSp[u] = ArSaved(u, pc[u] = "yield")
  BY <1>1, <1>2, <1>3 DEF ArInv, ArCurrent
<1>6. ArStarted' /\ arLevels' = <<>> /\ arPc' = pc
  BY <1>0, <1>1, <1>2 DEF ArStarted
<1>7. ArResumed'
  BY <1>0, <1>4, <1>5, <1>6, ArDispatched
<1>8. ArTypes'
  BY <1>0, <1>3, <1>4, <1>7 DEF ArTypes, ArResumed
<1>9. ArRequested' /\ ArLocking'
  BY <1>0, <1>1, <1>6, <1>7 DEF ArInv, ArRequested, ArLocking, ArResumed, ArTypes
<1>10. ArPriorityOrder'
  BY <1>0, ArSameOrder DEF ArInv
<1>11. ArHeld' = arRunning'
  BY <1>6, <1>7 DEF ArResumed, ArNested, ArCurrent, ArHeld, ArThread
<1> QED
  BY <1>1, <1>7, <1>8, <1>9, <1>10, <1>11 DEF ArInv, ArResumed

LEMMA ArIrqEntryKeeps ==
  ASSUME ArInv, ArIrqEntry
  PROVE  ArInv' /\ ArLevel' = ArLevel + 1 /\ arCpu'.s = arCpu.s /\ arCpu'.sp = arCpu.sp
<1> DEFINE idle == ArLevel = 0 /\ arCpu.sp.on = "zero"
           lv == [saved |-> IF idle THEN <<>> ELSE Push(<<>>, "first", arCpu.x),
                  mode  |-> IF ArLevel = 0 THEN "sys" ELSE "svc",
                  run   |-> "entry", line |-> "none"]
<1>0. /\ ArTypes /\ ArStarted /\ arMask = FALSE /\ arMask' = TRUE
      /\ arLevels' = Append(arLevels, lv)
      /\ arCpu' = [arCpu EXCEPT !.x = HandlerValue(ArLevel + 1)]
      /\ arDisturbed' = (arMonitor # NoTask) /\ arCpu \in ArRegisters
      /\ UNCHANGED <<arState, arTaskSp, arRunning, arActive, arPc, arMonitor, arGic, arLocked,
                     arWanted>>
  BY DEF ArIrqEntry, arKernelVars, ArInv, ArTypes
<1>1. ArLevel \in Nat /\ (arLevels = <<>> <=> ArLevel = 0)
  BY <1>0, LenEmpty DEF ArTypes, ArLevel
<1>2. lv \in ArLevelType
  <2>1. arCpu.x \in ArValues /\ <<>> \in Seq(ArFrames)
    BY <1>0 DEF ArRegisters
  <2>2. Push(<<>>, "first", arCpu.x) \in Seq(ArFrames)
    BY <2>1, ArPushFrame
  <2> QED
    BY <2>1, <2>2 DEF ArLevelType
<1>3. lv.saved = (IF idle THEN <<>> ELSE Push(<<>>, "first", arCpu.x)) /\ lv.run = "entry"
      /\ lv.mode = IF ArLevel = 0 THEN "sys" ELSE "svc"
  OBVIOUS
<1> HIDE DEF lv
<1>4. /\ arLevels' \in Seq(ArLevelType) /\ ArLevel' = ArLevel + 1 /\ arLevels' # <<>>
      /\ \A i \in 1 .. ArLevel : arLevels'[i] = arLevels[i]
      /\ arLevels'[ArLevel + 1] = lv
  BY <1>0, <1>2, ArPushLevel
<1>5. /\ arCpu' \in ArRegisters /\ arCpu'.x = HandlerValue(ArLevel + 1) /\ arCpu'.s = arCpu.s
      /\ arCpu'.sp = arCpu.sp
  BY <1>0, <1>1, ArValueTypes DEF ArRegisters
<1>6. ArStarted' /\ ArTop'.run = "entry"
  <2>1. ArTop' = lv
    BY <1>1, <1>4 DEF ArTop
  <2> QED
    BY <1>0, <1>3, <2>1 DEF ArStarted
<1>7. ArTypes'
  <2>1. arDisturbed' \in BOOLEAN
    BY <1>0
  <2> QED
    BY <1>0, <1>4, <1>5, <2>1 DEF ArTypes
<1>8. ArNested'
  <2>1. \A i \in 1 .. ArLevel + 1 :
          /\ arLevels'[i].mode = IF i = 1 THEN "sys" ELSE "svc"
          /\ arLevels'[i].saved = IF i > 1 THEN Push(<<>>, "first", HandlerValue(i - 1))
                                  ELSE IF arCpu.sp.on = "zero" THEN <<>>
                                  ELSE Push(<<>>, "first", arCpu.sp.on)
    <3> SUFFICES ASSUME NEW i \in 1 .. ArLevel + 1
                 PROVE  /\ arLevels'[i].mode = IF i = 1 THEN "sys" ELSE "svc"
                        /\ arLevels'[i].saved = IF i > 1 THEN Push(<<>>, "first", HandlerValue(i - 1))
                                                ELSE IF arCpu.sp.on = "zero" THEN <<>>
                                                ELSE Push(<<>>, "first", arCpu.sp.on)
      OBVIOUS
    <3>1. CASE i <= ArLevel
      <4>1. i \in 1 .. ArLevel /\ arLevels'[i] = arLevels[i]
        BY <1>1, <1>4, <3>1
      <4> QED
        BY <4>1 DEF ArInv, ArNested
    <3>2. CASE i = ArLevel + 1 /\ ArLevel = 0
      <4>1. arCpu.sp.on # "zero" => arCpu.x = arCpu.sp.on
        BY <1>0, <1>1, <3>2 DEF ArInv, ArCurrent
      <4> QED
        BY <1>3, <1>4, <3>2, <4>1
    <3>3. CASE i = ArLevel + 1 /\ ArLevel # 0
      <4>1. arCpu.x = HandlerValue(ArLevel)
        BY <1>1, <3>3 DEF ArInv, ArCurrent
      <4> QED
        BY <1>1, <1>3, <1>4, <3>3, <4>1
    <3> QED
      BY <1>1, <3>1, <3>2, <3>3
  <2>2. ArThread' = ArThread
    BY <1>5 DEF ArThread
  <2>3. arCpu'.sp.on \in arActive' \cup {"zero"} /\ arRunning' = ArThread'
    <3>1. ArNested
      BY DEF ArInv
    <3> QED
      BY <1>0, <1>5, <2>2, <3>1 DEF ArNested
  <2>4. \A i \in 1 .. ArLevel' :
          /\ arLevels'[i].mode = IF i = 1 THEN "sys" ELSE "svc"
          /\ arLevels'[i].saved = IF i > 1 THEN Push(<<>>, "first", HandlerValue(i - 1))
                                  ELSE IF arCpu'.sp.on = "zero" THEN <<>>
                                  ELSE Push(<<>>, "first", arCpu'.sp.on)
    BY <1>4, <1>5, <2>1
  <2> QED
    BY <1>6, <2>3, <2>4 DEF ArNested
<1>9. ArCurrent'
  BY <1>0, <1>1, <1>4, <1>5, <1>6 DEF ArInv, ArCurrent
<1>10. ArRequested' /\ ArLocking' /\ ArMonitored'
  <2>1. ~arLocked
    BY <1>0 DEF ArInv, ArLocking
  <2> QED
    BY <1>0, <1>4, <1>5, <1>6, <2>1 DEF ArInv, ArRequested, ArLocking, ArMonitored
<1>11. ArPriorityOrder'
  <2>1. \A i \in 1 .. ArLevel + 1 : arLevels'[i].run = "body" =>
           i \in 1 .. ArLevel /\ arLevels'[i] = arLevels[i]
    <3> SUFFICES ASSUME NEW i \in 1 .. ArLevel + 1, arLevels'[i].run = "body"
                 PROVE  i \in 1 .. ArLevel /\ arLevels'[i] = arLevels[i]
      OBVIOUS
    <3>1. i # ArLevel + 1
      BY <1>3, <1>4
    <3> QED
      BY <1>1, <1>4, <3>1
  <2>2. \A i, j \in 1 .. ArLevel + 1 :
          i < j /\ arLevels'[i].run = "body" /\ arLevels'[j].run = "body" =>
              GicPriority[arLevels'[j].line] < GicPriority[arLevels'[i].line]
    BY <2>1 DEF ArInv, ArPriorityOrder
  <2>3. arGic.active = {arLevels'[i].line : i \in {k \in 1 .. ArLevel + 1 : arLevels'[k].run = "body"}}
    <3>1. arGic.active = {arLevels[i].line : i \in {k \in 1 .. ArLevel : arLevels[k].run = "body"}}
      BY DEF ArInv, ArPriorityOrder
    <3>2. {k \in 1 .. ArLevel + 1 : arLevels'[k].run = "body"}
             = {k \in 1 .. ArLevel : arLevels[k].run = "body"}
      <4>1. \A k \in 1 .. ArLevel : k \in 1 .. ArLevel + 1 /\ arLevels'[k] = arLevels[k]
        BY <1>1, <1>4
      <4> QED
        BY <2>1, <4>1
    <3>3. \A i \in {k \in 1 .. ArLevel : arLevels[k].run = "body"} : arLevels'[i].line = arLevels[i].line
      BY <1>4
    <3> QED
      BY <3>1, <3>2, <3>3
  <2> QED
    BY <1>0, <1>4, <2>2, <2>3 DEF ArPriorityOrder
<1> QED
  BY <1>4, <1>5, <1>7, <1>8, <1>9, <1>10, <1>11 DEF ArInv

\* Whatever else changes of the innermost level, what irq_entry has saved there stays.
LEMMA ArTopChanges ==
  ASSUME ArInv, ArLevel > 0, NEW lv \in ArLevelType, arLevels' = ArSetTop(lv),
         lv.saved = ArTop.saved, lv.mode = ArTop.mode,
         UNCHANGED <<arCpu, arState, arKernelVars>>
  PROVE  ArNested' /\ ArCurrent'
<1>1. /\ ArLevel' = ArLevel /\ arLevels' # <<>> /\ arLevels'[ArLevel] = lv /\ ArLevel \in Nat
      /\ \A i \in 1 .. ArLevel - 1 : arLevels'[i] = arLevels[i]
      /\ arLevels # <<>> /\ ArTop = arLevels[ArLevel]
      /\ UNCHANGED <<arCpu, arState, arTaskSp, arRunning, arActive, arPc>> /\ ArStarted' = ArStarted
  BY ArSetTopLevel, ArTopLevel DEF ArInv, ArTop, arKernelVars, ArStarted
<1>2. \A i \in 1 .. ArLevel : /\ arLevels'[i].saved = arLevels[i].saved
                              /\ arLevels'[i].mode = arLevels[i].mode
  <2> SUFFICES ASSUME NEW i \in 1 .. ArLevel
               PROVE  /\ arLevels'[i].saved = arLevels[i].saved
                      /\ arLevels'[i].mode = arLevels[i].mode
    OBVIOUS
  <2>1. CASE i = ArLevel
    BY <1>1, <2>1
  <2>2. CASE i # ArLevel
    <3>1. i \in 1 .. ArLevel - 1
      BY <1>1, <2>2
    <3> QED
      BY <1>1, <3>1
  <2> QED
    BY <2>1, <2>2
<1>3. ArNested'
  BY <1>1, <1>2 DEF ArInv, ArNested, ArThread
<1>4. ArCurrent'
  BY <1>1 DEF ArInv, ArCurrent
<1> QED
  BY <1>3, <1>4

LEMMA ArAcknowledgeKeeps ==
  ASSUME ArInv, ArAcknowledge
  PROVE  ArInv' /\ ArLevel' = ArLevel
<1>0. /\ ArTypes /\ ArLevel > 0 /\ ArTop.run = "entry" /\ ArLevel \in Nat /\ ArTop \in ArLevelType
      /\ UNCHANGED <<arCpu, arState, arKernelVars, arMonitor, arHistory>> /\ arLevels # <<>>
      /\ ArTop = arLevels[ArLevel] /\ ArLevel \in 1 .. ArLevel
      /\ arGic \in [pending : SUBSET GicLines, enabled : SUBSET GicLines, active : SUBSET GicLines]
  BY ArTopLevel DEF ArAcknowledge, ArInv, ArTypes, ArTop
<1>1. ~arLocked
  BY <1>0 DEF ArInv, ArLocking
<1>2. CASE GicBest = {} /\ arLevels' = ArSetTop([ArTop EXCEPT !.run = "return"])
           /\ UNCHANGED <<arGic, arMask>>
  <2>1. PICK lv \in ArLevelType : /\ lv = [ArTop EXCEPT !.run = "return"] /\ lv.run = "return"
                                  /\ lv.saved = ArTop.saved /\ lv.mode = ArTop.mode
    <3>1. /\ [ArTop EXCEPT !.run = "return"] \in ArLevelType
          /\ [ArTop EXCEPT !.run = "return"].run = "return"
          /\ [ArTop EXCEPT !.run = "return"].saved = ArTop.saved
          /\ [ArTop EXCEPT !.run = "return"].mode = ArTop.mode
      BY <1>0 DEF ArLevelType
    <3> QED
      BY <3>1
  <2>2. arLevels' = ArSetTop(lv)
    BY <1>2, <2>1
  <2>3. /\ arLevels' \in Seq(ArLevelType) /\ ArLevel' = ArLevel /\ arLevels' # <<>>
        /\ \A i \in 1 .. ArLevel - 1 : arLevels'[i] = arLevels[i]
        /\ arLevels'[ArLevel] = lv
    BY <1>0, <2>2, ArSetTopLevel
  <2>4. ArTypes'
    BY <1>0, <1>2, <2>3 DEF ArTypes, arKernelVars, arHistory
  <2>5. ArNested' /\ ArCurrent'
    BY <1>0, <2>1, <2>2, ArTopChanges
  <2>6. ArTop'.run = "return"
    BY <2>1, <2>3 DEF ArTop
  <2>7. ArRequested' /\ ArLocking' /\ ArMonitored'
    BY <1>0, <1>1, <2>3, <2>6
       DEF ArInv, ArRequested, ArLocking, ArMonitored, arKernelVars, arHistory, ArStarted
  <2>8. ArPriorityOrder'
    <3>1. \A i \in 1 .. ArLevel : /\ (arLevels'[i].run = "body") = (arLevels[i].run = "body")
                                  /\ arLevels[i].run = "body" => arLevels'[i] = arLevels[i]
      <4> SUFFICES ASSUME NEW i \in 1 .. ArLevel
                   PROVE  /\ (arLevels'[i].run = "body") = (arLevels[i].run = "body")
                          /\ arLevels[i].run = "body" => arLevels'[i] = arLevels[i]
        OBVIOUS
      <4>1. CASE i = ArLevel
        BY <1>0, <2>1, <2>3, <4>1
      <4>2. CASE i # ArLevel
        <5>1. i \in 1 .. ArLevel - 1
          BY <1>0, <4>2
        <5> QED
          BY <2>3, <5>1
      <4> QED
        BY <4>1, <4>2
    <3>2. \A i, j \in 1 .. ArLevel :
            i < j /\ arLevels'[i].run = "body" /\ arLevels'[j].run = "body" =>
                GicPriority[arLevels'[j].line] < GicPriority[arLevels'[i].line]
      BY <3>1 DEF ArInv, ArPriorityOrder
    <3>3. arGic.active = {arLevels'[i].line : i \in {k \in 1 .. ArLevel : arLevels'[k].run = "body"}}
      <4>1. arGic.active = {arLevels[i].line : i \in {k \in 1 .. ArLevel : arLevels[k].run = "body"}}
        BY DEF ArInv, ArPriorityOrder
      <4>2. {k \in 1 .. ArLevel : arLevels'[k].run = "body"} = {k \in 1 .. ArLevel : arLevels[k].run = "body"}
        BY <3>1
      <4>3. \A i \in {k \in 1 .. ArLevel : arLevels[k].run = "body"} : arLevels'[i].line = arLevels[i].line
        BY <3>1
      <4> QED
        BY <4>1, <4>2, <4>3
    <3> QED
      BY <1>2, <2>3, <3>2, <3>3 DEF ArPriorityOrder
  <2> QED
    BY <2>3, <2>4, <2>5, <2>7, <2>8 DEF ArInv
<1>3. ASSUME NEW l \in GicBest,
             arGic' = [arGic EXCEPT !.pending = @ \ {l}, !.active = @ \cup {l}],
             arLevels' = ArSetTop([ArTop EXCEPT !.run = "body", !.line = l]),
             arMask' = FALSE
      PROVE  ArInv' /\ ArLevel' = ArLevel
  <2>1. l \in GicLines /\ \A m \in arGic.active : GicPriority[l] < GicPriority[m]
    BY <1>0 DEF GicBest, GicSignalled
  <2>2. PICK lv \in ArLevelType :
            /\ lv = [ArTop EXCEPT !.run = "body", !.line = l] /\ lv.run = "body" /\ lv.line = l
            /\ lv.saved = ArTop.saved /\ lv.mode = ArTop.mode
    <3>1. /\ [ArTop EXCEPT !.run = "body", !.line = l] \in ArLevelType
          /\ [ArTop EXCEPT !.run = "body", !.line = l].saved = ArTop.saved
          /\ [ArTop EXCEPT !.run = "body", !.line = l].mode = ArTop.mode
          /\ [ArTop EXCEPT !.run = "body", !.line = l].run = "body"
          /\ [ArTop EXCEPT !.run = "body", !.line = l].line = l
      BY <1>0, <2>1 DEF ArLevelType
    <3> QED
      BY <3>1
  <2>3. arLevels' = ArSetTop(lv)
    BY <1>3, <2>2
  <2>4. /\ arLevels' \in Seq(ArLevelType) /\ ArLevel' = ArLevel /\ arLevels' # <<>>
        /\ \A i \in 1 .. ArLevel - 1 : arLevels'[i] = arLevels[i]
        /\ arLevels'[ArLevel] = lv
    BY <1>0, <2>3, ArSetTopLevel
  <2>5. /\ arGic' \in [pending : SUBSET GicLines, enabled : SUBSET GicLines, active : SUBSET GicLines]
        /\ arGic'.active = arGic.active \cup {l}
    BY <1>0, <1>3, <2>1
  <2>6. ArTypes'
    BY <1>0, <1>3, <2>4, <2>5 DEF ArTypes, arKernelVars, arHistory
  <2>7. ArNested' /\ ArCurrent'
    BY <1>0, <2>2, <2>3, ArTopChanges
  <2>8. ArTop'.run = "body"
    BY <2>2, <2>4 DEF ArTop
  <2>9. ArRequested' /\ ArLocking' /\ ArMonitored'
    BY <1>0, <1>1, <1>3, <2>4, <2>8
       DEF ArInv, ArTypes, ArRequested, ArLocking, ArMonitored, arKernelVars, arHistory, ArStarted
  <2>10. ArPriorityOrder'
    <3>0. arGic.active = {arLevels[i].line : i \in {k \in 1 .. ArLevel : arLevels[k].run = "body"}}
      BY DEF ArInv, ArPriorityOrder
    <3>1. \A i \in 1 .. ArLevel : \/ i = ArLevel /\ arLevels'[i].line = l /\ arLevels'[i].run = "body"
                                     /\ arLevels[i].run # "body"
                                  \/ i < ArLevel /\ arLevels'[i] = arLevels[i]
      <4> SUFFICES ASSUME NEW i \in 1 .. ArLevel, i # ArLevel
                   PROVE  i < ArLevel /\ arLevels'[i] = arLevels[i]
        BY <1>0, <2>2, <2>4
      <4>1. i \in 1 .. ArLevel - 1
        BY <1>0
      <4> QED
        BY <1>0, <2>4, <4>1
    <3>2. \A i, j \in 1 .. ArLevel :
            i < j /\ arLevels'[i].run = "body" /\ arLevels'[j].run = "body" =>
                GicPriority[arLevels'[j].line] < GicPriority[arLevels'[i].line]
      <4> SUFFICES ASSUME NEW i \in 1 .. ArLevel, NEW j \in 1 .. ArLevel, i < j,
                          arLevels'[i].run = "body", arLevels'[j].run = "body"
                   PROVE  GicPriority[arLevels'[j].line] < GicPriority[arLevels'[i].line]
        OBVIOUS
      <4>1. i # ArLevel /\ arLevels'[i] = arLevels[i]
        BY <1>0, <3>1
      <4>2. CASE j = ArLevel
        <5>1. arLevels[i].line \in arGic.active
          BY <3>0, <4>1
        <5>2. arLevels'[j].line = l
          BY <2>2, <2>4, <4>2
        <5> QED
          BY <2>1, <4>1, <5>1, <5>2
      <4>3. CASE j # ArLevel
        BY <3>1, <4>1, <4>3 DEF ArInv, ArPriorityOrder
      <4> QED
        BY <4>2, <4>3
    <3>3. arGic'.active = {arLevels'[i].line : i \in {k \in 1 .. ArLevel : arLevels'[k].run = "body"}}
      <4>1. ASSUME NEW m, m \in arGic.active \cup {l}
            PROVE  m \in {arLevels'[i].line : i \in {k \in 1 .. ArLevel : arLevels'[k].run = "body"}}
        <5>1. CASE m = l
          <6>1. /\ ArLevel \in {k \in 1 .. ArLevel : arLevels'[k].run = "body"}
                /\ arLevels'[ArLevel].line = l
            BY <1>0, <2>2, <2>4
          <6> QED
            BY <5>1, <6>1
        <5>2. CASE m # l
          <6>1. PICK i \in 1 .. ArLevel : arLevels[i].run = "body" /\ m = arLevels[i].line
            BY <3>0, <4>1, <5>2
          <6>2. arLevels'[i] = arLevels[i]
            BY <3>1, <6>1
          <6> QED
            BY <6>1, <6>2
        <5> QED
          BY <5>1, <5>2
      <4>2. ASSUME NEW i \in 1 .. ArLevel, arLevels'[i].run = "body"
            PROVE  arLevels'[i].line \in arGic.active \cup {l}
        BY <3>0, <3>1, <4>2
      <4> QED
        BY <2>5, <4>1, <4>2
    <3> QED
      BY <2>4, <3>2, <3>3 DEF ArPriorityOrder
  <2> QED
    BY <2>4, <2>6, <2>7, <2>9, <2>10 DEF ArInv
<1> QED
  BY <1>2, <1>3 DEF ArAcknowledge

LEMMA ArEndInterruptKeeps ==
  ASSUME ArInv, ArEndInterrupt
  PROVE  ArInv' /\ ArLevel' = ArLevel
<1>0. /\ ArTypes /\ ArLevel > 0 /\ ArTop.run = "body" /\ ArLevel \in Nat /\ ArTop \in ArLevelType
      /\ ~arLocked
      /\ arGic' = [arGic EXCEPT !.active = @ \ {ArTop.line}]
      /\ UNCHANGED <<arCpu, arMask, arState, arKernelVars, arMonitor, arHistory>> /\ arLevels # <<>>
      /\ ArTop = arLevels[ArLevel] /\ ArLevel \in 1 .. ArLevel
      /\ arGic \in [pending : SUBSET GicLines, enabled : SUBSET GicLines, active : SUBSET GicLines]
  BY ArTopLevel DEF ArEndInterrupt, ArInBody, ArInv, ArTypes, ArTop
<1>2. PICK lv \in ArLevelType :
          /\ lv = [ArTop EXCEPT !.run = "return", !.line = "none"] /\ lv.run = "return"
          /\ lv.saved = ArTop.saved /\ lv.mode = ArTop.mode
  <2>1. /\ [ArTop EXCEPT !.run = "return", !.line = "none"] \in ArLevelType
        /\ [ArTop EXCEPT !.run = "return", !.line = "none"].saved = ArTop.saved
        /\ [ArTop EXCEPT !.run = "return", !.line = "none"].mode = ArTop.mode
        /\ [ArTop EXCEPT !.run = "return", !.line = "none"].run = "return"
    BY <1>0 DEF ArLevelType
  <2> QED
    BY <2>1
<1>3. arLevels' = ArSetTop(lv)
  BY <1>2 DEF ArEndInterrupt
<1>4. /\ arLevels' \in Seq(ArLevelType) /\ ArLevel' = ArLevel /\ arLevels' # <<>>
      /\ \A i \in 1 .. ArLevel - 1 : arLevels'[i] = arLevels[i]
      /\ arLevels'[ArLevel] = lv
  BY <1>0, <1>3, ArSetTopLevel
<1>5. /\ arGic' \in [pending : SUBSET GicLines, enabled : SUBSET GicLines, active : SUBSET GicLines]
      /\ arGic'.active = arGic.active \ {ArTop.line}
  BY <1>0
<1>6. ArTypes'
  BY <1>0, <1>4, <1>5 DEF ArTypes, arKernelVars, arHistory
<1>7. ArNested' /\ ArCurrent'
  BY <1>0, <1>2, <1>3, ArTopChanges
<1>8. ArTop'.run = "return"
  BY <1>2, <1>4 DEF ArTop
<1>9. ArRequested' /\ ArLocking' /\ ArMonitored'
  BY <1>0, <1>4, <1>8
     DEF ArInv, ArRequested, ArLocking, ArMonitored, arKernelVars, arHistory, ArStarted
<1>10. ArPriorityOrder'
  <2>0. /\ arGic.active = {arLevels[i].line : i \in {k \in 1 .. ArLevel : arLevels[k].run = "body"}}
        /\ \A i, j \in 1 .. ArLevel :
             i < j /\ arLevels[i].run = "body" /\ arLevels[j].run = "body" =>
                 GicPriority[arLevels[j].line] < GicPriority[arLevels[i].line]
    BY DEF ArInv, ArPriorityOrder
  <2>1. \A i \in 1 .. ArLevel : \/ i = ArLevel /\ arLevels'[i].run # "body"
                                \/ i < ArLevel /\ arLevels'[i] = arLevels[i]
    <3> SUFFICES ASSUME NEW i \in 1 .. ArLevel, i # ArLevel
                 PROVE  i < ArLevel /\ arLevels'[i] = arLevels[i]
      BY <1>0, <1>2, <1>4
    <3>1. i \in 1 .. ArLevel - 1
      BY <1>0
    <3> QED
      BY <1>0, <1>4, <3>1
  <2>2. \A i, j \in 1 .. ArLevel :
          i < j /\ arLevels'[i].run = "body" /\ arLevels'[j].run = "body" =>
              GicPriority[arLevels'[j].line] < GicPriority[arLevels'[i].line]
    BY <2>0, <2>1
  <2>3. arGic'.active = {arLevels'[i].line : i \in {k \in 1 .. ArLevel : arLevels'[k].run = "body"}}
    <3>1. ASSUME NEW m \in arGic.active, m # ArTop.line
          PROVE  m \in {arLevels'[i].line : i \in {k \in 1 .. ArLevel : arLevels'[k].run = "body"}}
      <4>1. PICK i \in 1 .. ArLevel : arLevels[i].run = "body" /\ m = arLevels[i].line
        BY <2>0
      <4>2. i # ArLevel
        BY <1>0, <3>1, <4>1
      <4>3. arLevels'[i] = arLevels[i]
        BY <2>1, <4>2
      <4> QED
        BY <4>1, <4>3
    <3>2. ASSUME NEW i \in 1 .. ArLevel, arLevels'[i].run = "body"
          PROVE  arLevels'[i].line \in arGic.active \ {ArTop.line}
      <4>1. i < ArLevel /\ arLevels'[i] = arLevels[i]
        BY <2>1, <3>2
      <4>2. /\ arLevels[i].line \in arGic.active /\ ArTop.line \in arGic.active
        BY <1>0, <2>0, <3>2, <4>1
      <4>3. GicPriority[ArTop.line] < GicPriority[arLevels[i].line]
        BY <1>0, <2>0, <3>2, <4>1
      <4>4. GicPriority[ArTop.line] \in Int
        <5>1. ArTop.line \in GicLines
          BY <1>0, <4>2
        <5> QED
          BY <5>1, ArAssumption
      <4>5. arLevels[i].line # ArTop.line
        BY <4>3, <4>4
      <4> QED
        BY <4>1, <4>2, <4>5
    <3> QED
      BY <1>5, <3>1, <3>2
  <2> QED
    BY <1>4, <2>2, <2>3 DEF ArPriorityOrder
<1> QED
  BY <1>4, <1>6, <1>7, <1>9, <1>10 DEF ArInv

\* The rest of irq_entry returns to what was interrupted, or dispatches.
LEMMA ArIrqReturnKeeps ==
  ASSUME ArInv, ArIrqReturn
  PROVE  /\ ArInv' /\ ArStarted /\ ArLevel > 0
         /\ \/ /\ ArLevel' = ArLevel - 1 /\ ArHeld' = ArHeld
               /\ arRunning' = arRunning /\ arWanted' = arWanted
               /\ ArLevel = 1 => arRunning = ArHeld
            \/ ArLevel = 1 /\ ArLevel' = 0 /\ ArHeld' = arRunning' /\ arWanted' = FALSE
<1> DEFINE bg == [arCpu EXCEPT !.sp.frames = ArTop.saved \o @]
<1>0. /\ ArTypes /\ ArLevel > 0 /\ ArTop.run = "return" /\ ArLevel \in Nat /\ ArTop \in ArLevelType
      /\ arLevels # <<>> /\ ArTop = arLevels[ArLevel] /\ ArLevel \in 1 .. ArLevel
      /\ arLevels' = SubSeq(arLevels, 1, ArLevel - 1)
      /\ arDisturbed' = (arDisturbed /\ arMonitor' # NoTask)
      /\ UNCHANGED <<arActive, arPc, arGic, arLocked>>
      /\ arCpu \in ArRegisters /\ arState \in [pending : BOOLEAN, main : BOOLEAN]
      /\ arPc \in [Tasks -> {"code", "yield", "exclusive"}]
  BY ArTopLevel DEF ArIrqReturn, ArInv, ArTypes, ArTop
<1>1. /\ arLevels' \in Seq(ArLevelType) /\ ArLevel' = ArLevel - 1
      /\ \A i \in 1 .. ArLevel - 1 : arLevels'[i] = arLevels[i]
      /\ arLevels' = <<>> <=> ArLevel = 1
  BY <1>0, ArPopLevel
<1>2. ArStarted /\ arCpu.sp.on \in arActive \cup {"zero"} /\ arRunning = ArThread /\ ~arLocked
  BY <1>0 DEF ArInv, ArNested, ArLocking
<1>3. PICK n \in arActive \cup {"zero"} : n = arCpu.sp.on
  BY <1>2
<1>4. /\ n # "zero" => /\ n \in Tasks /\ arCpu.s = n /\ arRunning = n
                       /\ arCpu.sp.frames = ArStack(n, arPc[n] = "yield")
      /\ n = "zero" => arRunning = NoTask
      /\ ArTop.mode = (IF ArLevel = 1 THEN "sys" ELSE "svc")
      /\ ArTop.saved = IF ArLevel > 1 THEN Push(<<>>, "first", HandlerValue(ArLevel - 1))
                       ELSE IF n = "zero" THEN <<>> ELSE Push(<<>>, "first", n)
  BY <1>0, <1>2, <1>3 DEF ArInv, ArTypes, ArNested, ArCurrent, ArThread
<1>5. /\ ArHeld = arRunning /\ ArHeld \in Tasks \cup {NoTask}
  BY <1>0, <1>2, <1>3, <1>4 DEF ArHeld, ArTypes
<1>6. arDisturbed' \in BOOLEAN
  BY <1>0
<1>7. ArPriorityOrder'
  <2>0. /\ arGic.active = {arLevels[i].line : i \in {k \in 1 .. ArLevel : arLevels[k].run = "body"}}
        /\ \A i, j \in 1 .. ArLevel :
             i < j /\ arLevels[i].run = "body" /\ arLevels[j].run = "body" =>
                 GicPriority[arLevels[j].line] < GicPriority[arLevels[i].line]
    BY DEF ArInv, ArPriorityOrder
  <2>1. {k \in 1 .. ArLevel - 1 : arLevels'[k].run = "body"}
           = {k \in 1 .. ArLevel : arLevels[k].run = "body"}
    <3>1. \A k \in 1 .. ArLevel : k \in 1 .. ArLevel - 1 \/ k = ArLevel
      BY <1>0
    <3>2. \A k \in 1 .. ArLevel - 1 : k \in 1 .. ArLevel
      BY <1>0
    <3> QED
      BY <1>0, <1>1, <3>1, <3>2
  <2>2. \A i \in 1 .. ArLevel - 1 : i \in 1 .. ArLevel /\ arLevels'[i] = arLevels[i]
    BY <1>0, <1>1
  <2>3. \A i, j \in 1 .. ArLevel - 1 :
          i < j /\ arLevels'[i].run = "body" /\ arLevels'[j].run = "body" =>
              GicPriority[arLevels'[j].line] < GicPriority[arLevels'[i].line]
    BY <2>0, <2>2
  <2>4. arGic.active = {arLevels'[i].line : i \in {k \in 1 .. ArLevel - 1 : arLevels'[k].run = "body"}}
    BY <2>0, <2>1, <2>2
  <2> QED
    BY <1>0, <1>1, <2>3, <2>4 DEF ArPriorityOrder
<1>8. PICK c : c = bg
  OBVIOUS
<1>9. c.sp.on = n /\ c.s = arCpu.s /\ c.sp.frames = ArTop.saved \o arCpu.sp.frames
  BY <1>0, <1>3, <1>8 DEF ArRegisters
<1>10. ASSUME NEW v \in ArValues, ArTop.saved = Push(<<>>, "first", v)
       PROVE  /\ c \in ArRegisters /\ c.sp.frames = Push(arCpu.sp.frames, "first", v)
              /\ ArPopX(c) \in ArRegisters /\ ArPopX(c).x = v /\ ArPopX(c).s = arCpu.s
              /\ ArPopX(c).sp = arCpu.sp
  <2>1. arCpu.sp.frames \in Seq(ArFrames)
    BY <1>0 DEF ArRegisters
  <2>2. /\ c.sp.frames = Push(arCpu.sp.frames, "first", v) /\ c.sp.frames \in Seq(ArFrames)
        /\ Drop(c.sp.frames) = arCpu.sp.frames /\ OnTop(c.sp.frames, "first", Junk) = v
    <3>1. PICK f \in Seq(ArFrames) : f = arCpu.sp.frames
      BY <2>1
    <3>2. /\ Push(f, "first", v) \in Seq(ArFrames) /\ Drop(Push(f, "first", v)) = f
          /\ OnTop(Push(f, "first", v), "first", Junk) = v
          /\ Push(<<>>, "first", v) \o f = Push(f, "first", v)
      BY ArPushFrame
    <3>3. c.sp.frames = Push(f, "first", v)
      BY <1>9, <1>10, <3>1, <3>2
    <3> QED
      BY <3>1, <3>2, <3>3
  <2>3. c \in ArRegisters
    <3>1. ArTop.saved \o arCpu.sp.frames \in Seq(ArFrames)
      BY <1>9, <2>2
    <3> QED
      BY <1>0, <1>8, <3>1 DEF ArRegisters
  <2>4. /\ ArPopX(c) \in ArRegisters /\ ArPopX(c).x = v /\ ArPopX(c).s = arCpu.s
        /\ ArPopX(c).sp.on = arCpu.sp.on /\ ArPopX(c).sp.frames = arCpu.sp.frames
    BY <1>3, <1>9, <2>2, <2>3, ArPopXIs
  <2>5. ArPopX(c).sp = arCpu.sp
    BY <1>0, <2>4 DEF ArRegisters
  <2> QED
    BY <2>2, <2>3, <2>4, <2>5
<1>11. CASE ArLevel > 1
  <2>1. HandlerValue(ArLevel - 1) \in ArValues
    BY <1>0, <1>11, ArValueTypes
  <2>2. /\ ArPopFirstLevelState(c) /\ UNCHANGED <<arState, arRunning, arTaskSp, arWanted>>
    BY <1>0, <1>4, <1>8, <1>11 DEF ArIrqReturn
  <2>3. /\ arCpu' \in ArRegisters /\ arCpu'.x = HandlerValue(ArLevel - 1) /\ arCpu'.s = arCpu.s
        /\ arCpu'.sp = arCpu.sp /\ arMonitor' = NoTask /\ arMask' = FALSE /\ ArStarted'
        /\ arLevels' # <<>>
    BY <1>1, <1>2, <1>4, <1>10, <1>11, <2>1, <2>2 DEF ArPopFirstLevelState, ArStarted
  <2>4. ArTypes'
    BY <1>0, <1>1, <1>6, <2>2, <2>3 DEF ArTypes
  <2>5. ArNested'
    <3>1. \A i \in 1 .. ArLevel - 1 : i \in 1 .. ArLevel /\ arLevels'[i] = arLevels[i]
      BY <1>0, <1>1
    <3> QED
      BY <1>0, <1>1, <2>2, <2>3, <3>1 DEF ArInv, ArNested, ArThread
  <2>6. ArCurrent'
    BY <1>0, <1>1, <1>2, <2>2, <2>3 DEF ArInv, ArCurrent
  <2>7. ArRequested' /\ ArMonitored'
    BY <1>0, <1>2, <2>2, <2>3 DEF ArInv, ArRequested, ArMonitored
  <2>8. ArLocking'
    BY <1>0, <1>2, <2>3 DEF ArInv, ArTypes, ArLocking
  <2>9. ArHeld' = ArHeld
    BY <1>2, <2>3 DEF ArHeld
  <2> QED
    BY <1>0, <1>1, <1>2, <1>7, <1>11, <2>2, <2>4, <2>5, <2>6, <2>7, <2>8, <2>9 DEF ArInv
<1>12. CASE ArLevel = 1
  <2>1. ArShortcutting(c) /\ arLevels' = <<>> /\ ArLevel' = 0
    BY <1>0, <1>1, <1>4, <1>8, <1>12 DEF ArIrqReturn
  <2>2. n # "zero" => ArTop.saved = Push(<<>>, "first", n) /\ n \in ArValues
    BY <1>0, <1>4, <1>12, ArValueTypes
  <2>3. CASE ~arState.pending
    <3>1. /\ UNCHANGED <<arState, arRunning, arTaskSp, arWanted>> /\ arMask' = FALSE
          /\ n = "zero" => arCpu' = ArIdleTask /\ arMonitor' = arMonitor
          /\ n # "zero" => arCpu' = ArPopX(c) /\ arMonitor' = NoTask
      BY <1>9, <2>1, <2>3 DEF ArShortcutting, ArPopFirstLevelState
    <3>2. /\ arCpu' \in ArRegisters /\ arCpu'.sp.on = n
          /\ n # "zero" => arCpu'.x = n /\ arCpu'.s = n /\ arCpu'.sp.frames = arCpu.sp.frames
      <4>1. CASE n = "zero"
        <5>1. <<>> \in Seq(ArFrames)
          OBVIOUS
        <5>2. ArIdleTask \in ArRegisters /\ ArIdleTask.sp.on = "zero"
          BY <5>1, ArValueTypes DEF ArIdleTask, ArNoStack, ArRegisters
        <5> QED
          BY <3>1, <4>1, <5>2
      <4>2. CASE n # "zero"
        BY <1>3, <1>4, <1>10, <2>2, <3>1, <4>2
      <4> QED
        BY <4>1, <4>2
    <3>3. ArStarted'
      BY <1>2, <3>1 DEF ArStarted
    <3>4. ArTypes'
      BY <1>0, <1>1, <1>6, <3>1, <3>2 DEF ArTypes
    <3>5. ArNested'
      BY <1>0, <1>2, <1>3, <2>1, <3>1, <3>2, <3>3 DEF ArNested, ArThread
    <3>6. ArCurrent'
      BY <1>0, <1>2, <1>3, <1>4, <2>1, <3>1, <3>2, <3>3 DEF ArInv, ArCurrent
    <3>7. ArRequested' /\ ArMonitored'
      BY <1>0, <1>2, <1>3, <2>1, <2>3, <3>1, <3>2, <3>3 DEF ArInv, ArRequested, ArMonitored
    <3>8. ArLocking'
      BY <1>0, <1>2, <2>1, <3>1 DEF ArTypes, ArLocking
    <3>9. ArHeld' = ArHeld
      BY <1>2, <1>3, <1>4, <3>2, <3>3 DEF ArHeld
    <3> QED
      BY <1>0, <1>2, <1>5, <1>7, <1>12, <2>1, <3>1, <3>4, <3>5, <3>6, <3>7, <3>8, <3>9 DEF ArInv
  <2>4. CASE arState.pending
    <3>1. /\ arState' = [arState EXCEPT !.pending = FALSE]
          /\ ArPushSecondLevelStateAndDispatch(c)
      BY <2>1, <2>4 DEF ArShortcutting
    <3>2. /\ arState' \in [pending : BOOLEAN, main : BOOLEAN] /\ arState'.pending = FALSE
          /\ ArStarted'
      BY <1>0, <1>2, <3>1 DEF ArStarted
    <3>3. c \in ArRegisters
      <4>1. CASE n # "zero"
        BY <1>10, <2>2, <4>1
      <4>2. CASE n = "zero"
        <5>1. ArTop.saved = <<>> /\ arCpu.sp.frames \in Seq(ArFrames)
          BY <1>0, <1>4, <1>12, <4>2 DEF ArRegisters
        <5>2. ArTop.saved \o arCpu.sp.frames \in Seq(ArFrames)
          BY <5>1
        <5> QED
          BY <1>0, <1>8, <5>2 DEF ArRegisters
      <4> QED
        BY <4>1, <4>2
    <3>4. PICK pc \in [Tasks -> {"code", "yield", "exclusive"}] : pc = arPc
      BY <1>0
    <3>5. n # "zero" => c.sp.frames = Push(ArStack(n, pc[n] = "yield"), "first", n)
      BY <1>4, <1>10, <2>2, <3>4
    <3>6. ArResumed'
      BY <1>0, <1>2, <1>3, <1>9, <2>1, <3>1, <3>2, <3>3, <3>4, <3>5, ArSwitched
    <3>7. ArTypes'
      BY <1>0, <1>1, <1>6, <3>2, <3>6 DEF ArTypes, ArResumed
    <3>8. ArRequested' /\ ArLocking'
      BY <1>0, <1>2, <2>1, <3>2, <3>6 DEF ArRequested, ArLocking, ArResumed, ArTypes
    <3>9. ArHeld' = arRunning'
      BY <2>1, <3>2, <3>6 DEF ArResumed, ArNested, ArCurrent, ArHeld, ArThread
    <3> QED
      BY <1>0, <1>2, <1>7, <1>12, <2>1, <3>6, <3>7, <3>8, <3>9 DEF ArInv, ArResumed
  <2> QED
    BY <2>3, <2>4
<1>13. ArLevel = 1 \/ ArLevel > 1
  BY <1>0
<1> QED
  BY <1>11, <1>12, <1>13

LEMMA ArInitKeeps == ArInit => ArInv
<1> SUFFICES ASSUME ArInit PROVE ArInv
  OBVIOUS
<1>1. <<>> \in Seq(ArFrames) /\ <<>> \in Seq(ArLevelType) /\ ArLevel = 0
  BY DEF ArInit, ArLevel
<1>2. /\ arCpu \in ArRegisters /\ arCpu.sp.on = "main" /\ arState.main = FALSE
      /\ arState.pending = FALSE
  BY <1>1, ArValueTypes DEF ArInit, ArRegisters, ArMainStack
<1>3. ArTypes
  BY <1>1, <1>2 DEF ArInit, ArTypes
<1>4. ArNested /\ ArCurrent
  BY <1>1, <1>2 DEF ArInit, ArNested, ArCurrent, ArStarted
<1>5. ArRequested /\ ArLocking /\ ArMonitored
  BY <1>1, <1>2 DEF ArInit, ArRequested, ArLocking, ArMonitored, ArStarted
<1>6. ArPriorityOrder
  BY <1>1 DEF ArInit, ArPriorityOrder
<1> QED
  BY <1>3, <1>4, <1>5, <1>6 DEF ArInv

LEMMA ArStep == ArInv /\ [ArNext]_arVars => ArInv'
<1> SUFFICES ASSUME ArInv, [ArNext]_arVars PROVE ArInv'
  OBVIOUS
<1>1. CASE ArNext
  BY <1>1, ArPortBootKeeps, ArActivateKeeps, ArYieldBeginKeeps, ArYieldDispatchKeeps, ArExitKeeps,
     ArExclusiveKeeps, ArYieldInHandlerKeeps, ArCpuLockKeeps, ArLinesKeep, ArIrqEntryKeeps,
     ArAcknowledgeKeeps, ArEndInterruptKeeps, ArIrqReturnKeeps DEF ArNext
<1>2. CASE UNCHANGED arVars
  <2>1. /\ UNCHANGED <<arCpu, arMask, arState, arTaskSp, arRunning, arActive, arPc, arLevels,
                       arMonitor, arGic, arLocked, arWanted, arDisturbed>>
        /\ ArStarted' = ArStarted
    BY <1>2 DEF arVars, arKernelVars, arHistory, ArStarted
  <2>2. ArTypes'
    BY <2>1 DEF ArInv, ArTypes
  <2>3. ArNested' /\ ArCurrent' /\ ArPriorityOrder'
    BY <2>1, ArSameContext, ArSameOrder DEF ArInv
  <2>4. ArRequested' /\ ArLocking' /\ ArMonitored'
    BY <2>1 DEF ArInv, ArRequested, ArLocking, ArMonitored, ArTop, ArLevel
  <2> QED
    BY <2>2, <2>3, <2>4 DEF ArInv
<1> QED
  BY <1>1, <1>2

\* The Arm port gives every task its own registers and stack, and every handler its own
\* caller-saved registers, for any lines, priorities and depth of nesting (irq_entry,
\* yield_cpu and push_second_level_state_and_dispatch of threading/imp.rs).
THEOREM ArmContextCorrect == ArSpec => []ArContextIntact
<1>1. ArInv => ArContextIntact
  <2> SUFFICES ASSUME ArInv PROVE ArContextIntact
    OBVIOUS
  <2>1. ArInThread => arRunning = ArThread
    BY DEF ArInv, ArNested, ArInThread
  <2>2. ASSUME NEW t \in Tasks, ArInTask(t)
        PROVE  /\ arCpu.x = t /\ arCpu.s = t
               /\ arCpu.sp.frames = IF arPc[t] = "yield" THEN Push(<<>>, "first", t) ELSE <<>>
    BY <2>2, ArTaskRuns DEF ArStack
  <2>3. ASSUME ArInBody
        PROVE  arCpu.x = HandlerValue(ArLevel) /\ (arRunning # NoTask => arCpu.s = arRunning)
    <3>1. arLevels # <<>>
      BY <2>3, ArTopLevel DEF ArInBody, ArInv
    <3> QED
      BY <3>1 DEF ArInv, ArNested, ArCurrent, ArThread
  <2> QED
    BY <2>1, <2>2, <2>3 DEF ArContextIntact
<1> QED
  BY <1>1, ArInitKeeps, ArStep, PTL DEF ArSpec

\* On the Arm port no task goes on, and the idle loop does not run, before a dispatch that
\* was asked for has been made, whatever interrupts it (yield_cpu, dispatch_pending).
THEOREM ArmNoLostDispatchCorrect == ArSpec => []ArNoLostDispatch
<1>1. ArInv => ArNoLostDispatch
  <2> SUFFICES ASSUME ArInv, ArInThread, arWanted, ArThread = NoTask \/ arPc[ArThread] # "yield"
               PROVE  FALSE
    BY DEF ArNoLostDispatch
  <2>1. ArStarted /\ arLevels = <<>>
    BY DEF ArInThread
  <2>2. arCpu.sp.on # "zero" /\ arPc[arCpu.sp.on] = "yield"
    BY <2>1 DEF ArInv, ArRequested
  <2>3. arCpu.sp.on \in Tasks
    BY <2>1, <2>2 DEF ArInv, ArNested, ArTypes
  <2> QED
    BY <2>2, <2>3, TasksAssumption DEF ArThread
<1> QED
  BY <1>1, ArInitKeeps, ArStep, PTL DEF ArSpec

\* On the Arm port IRQs are masked in code exactly when that code believes CPU Lock is
\* active, whichever task the dispatcher has resumed (enter_cpu_lock, irq_entry).
THEOREM ArmLockHonouredCorrect == ArSpec => []ArLockHonoured
<1>1. ArInv => ArLockHonoured
  <2> SUFFICES ASSUME ArInv, ArInThread \/ ArInBody PROVE arLocked <=> arMask
    BY DEF ArLockHonoured
  <2>1. CASE ArInThread
    BY <2>1 DEF ArInThread, ArInv, ArLocking
  <2>2. CASE ArInBody
    <3>1. arLevels # <<>> /\ ArTop.run = "body"
      BY <2>2, ArTopLevel DEF ArInBody, ArInv
    <3> QED
      BY <3>1 DEF ArInv, ArLocking
  <2> QED
    BY <2>1, <2>2
<1> QED
  BY <1>1, ArInitKeeps, ArStep, PTL DEF ArSpec

\* With the GIC, a handler is interrupted by lines of higher priority only until it ends
\* its interrupt, and no acknowledged line is left active (handle_irq of gic/imp.rs).
THEOREM ArmPriorityOrderCorrect == ArSpec => []ArPriorityOrder
<1>1. ArInv => ArPriorityOrder
  BY DEF ArInv
<1> QED
  BY <1>1, ArInitKeeps, ArStep, PTL DEF ArSpec

\* On the Arm port a STREX of a task succeeds only if nothing interrupted it since its
\* LDREX: every way back to a task clears the monitor (clrex).
THEOREM ArmMonitorCorrect == ArSpec => []ArMonitorSound
<1>1. ArInv => ArMonitorSound
  <2> SUFFICES ASSUME ArInv, ArInThread, ArThread # NoTask
               PROVE  arMonitor = NoTask \/ (arMonitor = ArThread /\ ~arDisturbed)
    BY DEF ArMonitorSound
  <2>1. ArStarted /\ arLevels = <<>> /\ arCpu.sp.on # "zero" /\ ArThread = arCpu.sp.on
    BY DEF ArInThread, ArThread
  <2> QED
    BY <2>1 DEF ArInv, ArMonitored
<1> QED
  BY <1>1, ArInitKeeps, ArStep, PTL DEF ArSpec

\* A step of the Arm port is a step of the contract the kernel is written against.
LEMMA ArContractStep ==
  ASSUME ArInv, ArNext
  PROVE  [ArContract!ContractNext]_(ArContract!contractVars)
<1>0. /\ ArLevel \in Nat /\ (ArLevel = 0 <=> arLevels = <<>>) /\ arRunning \in Tasks \cup {NoTask}
      /\ ArTypes /\ arCpu.sp.on \in Tasks \cup {"zero", "main"}
  BY LenEmpty DEF ArInv, ArTypes, ArLevel, ArRegisters
<1>1. ArStarted => ArHeld \in Tasks \cup {NoTask} /\ ArHeld = arRunning
  BY <1>0 DEF ArInv, ArNested, ArCurrent, ArTypes, ArHeld, ArThread
<1>2. ASSUME NEW active \in SUBSET Tasks, ArPortBoot(active) PROVE ArContract!Start
  <2>1. ArHeld = "boot" /\ ArLevel' = ArLevel
    BY <1>2 DEF ArPortBoot, ArHeld, ArLevel
  <2>2. ArInv' /\ ArHeld' = arRunning'
    BY <1>2, ArPortBootKeeps
  <2>3. arRunning' \in Tasks \cup {NoTask} /\ arWanted' \in BOOLEAN
    BY <2>2 DEF ArInv, ArTypes
  <2> QED
    BY <2>1, <2>2, <2>3 DEF ArContract!Start, ArContract!Threads
<1>3. ASSUME UNCHANGED <<arCpu, arRunning, arWanted>>, arState'.main = arState.main, ArLevel' = ArLevel
      PROVE  UNCHANGED ArContract!contractVars
  BY <1>3 DEF ArContract!contractVars, ArHeld, ArStarted
<1>4. ASSUME NEW t \in Tasks, ArActivate(t) \/ ArExclusive(t)
      PROVE  UNCHANGED ArContract!contractVars
  BY <1>3, <1>4 DEF ArActivate, ArExclusive, arHistory, ArLevel
<1>5. ASSUME NEW l \in GicLines, ArRaise(l) \/ ArWithdraw(l) \/ ArToggleLine(l)
      PROVE  UNCHANGED ArContract!contractVars
  BY <1>3, <1>5 DEF ArRaise, ArWithdraw, ArToggleLine, arHistory, arKernelVars, ArLevel
<1>6. CASE ArCpuLock
  BY <1>3, <1>6 DEF ArCpuLock, arKernelVars, ArLevel
<1>7. CASE ArAcknowledge
  BY <1>3, <1>7, ArAcknowledgeKeeps DEF ArAcknowledge, arHistory, arKernelVars
<1>8. CASE ArEndInterrupt
  BY <1>3, <1>8, ArEndInterruptKeeps DEF ArEndInterrupt, arHistory, arKernelVars
<1>9. ASSUME NEW t \in Tasks, ArYieldBegin(t) PROVE ArContract!Request
  <2>1. ArStarted /\ ArLevel' = ArLevel /\ arState' = arState /\ arRunning' = arRunning /\ arWanted' = TRUE
    BY <1>9 DEF ArYieldBegin, ArInTask, ArInThread, ArLevel
  <2>2. ArHeld' = ArHeld
    BY <1>9, <2>1, ArYieldBeginKeeps DEF ArHeld, ArStarted
  <2> QED
    BY <1>1, <2>1, <2>2, TasksAssumption DEF ArContract!Request
<1>10. CASE ArYieldInHandler
  <2>1. ArLevel > 0 /\ ArLevel' = ArLevel /\ arWanted' = TRUE /\ UNCHANGED <<arCpu, arRunning>>
    BY <1>10 DEF ArYieldInHandler, ArInBody, arKernelVars, ArLevel
  <2>2. ArStarted
    BY <1>0, <2>1 DEF ArInv, ArNested
  <2>3. arState'.main = arState.main
    BY <1>0, <1>10 DEF ArYieldInHandler, ArTypes
  <2>4. ArHeld' = ArHeld
    BY <2>1, <2>3 DEF ArHeld, ArStarted
  <2> QED
    BY <1>1, <2>1, <2>2, <2>4, TasksAssumption DEF ArContract!Request, ArContract!ContractNext
<1>11. ASSUME ArStarted, ArLevel = 0 \/ ArLevel = 1, ArLevel' = 0, ArHeld' = arRunning', ArInv', arWanted' = FALSE
       PROVE  ArContract!Choose
  <2>1. arRunning' \in Tasks \cup {NoTask}
    BY <1>11 DEF ArInv, ArTypes
  <2> QED
    BY <1>1, <1>11, <2>1, TasksAssumption DEF ArContract!Choose, ArContract!Threads
<1>12. ASSUME NEW t \in Tasks, ArYieldDispatch(t) \/ ArExit(t) PROVE ArContract!Choose
  <2>1. ArStarted /\ arLevels' = arLevels
    BY <1>12 DEF ArYieldDispatch, ArExit, ArInTask, ArInThread
  <2>2. ArInv' /\ ArHeld' = arRunning' /\ arLevels = <<>> /\ arWanted' = FALSE
    BY <1>12, ArYieldDispatchKeeps, ArExitKeeps
  <2>3. ArLevel = 0 /\ ArLevel' = 0
    BY <2>1, <2>2 DEF ArLevel
  <2> QED
    BY <1>11, <2>1, <2>2, <2>3
<1>13. CASE ArIrqEntry
  <2>1. /\ ArStarted /\ ArLevel' = ArLevel + 1 /\ arCpu'.s = arCpu.s /\ arCpu'.sp = arCpu.sp
        /\ UNCHANGED <<arState, arRunning, arWanted>>
    BY <1>13, ArIrqEntryKeeps DEF ArIrqEntry, arKernelVars
  <2>2. ArHeld' = ArHeld
    BY <2>1 DEF ArHeld, ArStarted
  <2> QED
    BY <1>0, <1>1, <2>1, <2>2, TasksAssumption DEF ArContract!TakeInterrupt, ArContract!ContractNext
<1>14. CASE ArIrqReturn
  <2>1. /\ ArInv' /\ ArStarted /\ ArLevel > 0
        /\ \/ /\ ArLevel' = ArLevel - 1 /\ ArHeld' = ArHeld
              /\ arRunning' = arRunning /\ arWanted' = arWanted
              /\ ArLevel = 1 => arRunning = ArHeld
           \/ ArLevel = 1 /\ ArLevel' = 0 /\ ArHeld' = arRunning' /\ arWanted' = FALSE
    BY <1>14, ArIrqReturnKeeps
  <2>2. CASE /\ ArLevel' = ArLevel - 1 /\ ArHeld' = ArHeld
             /\ arRunning' = arRunning /\ arWanted' = arWanted
             /\ ArLevel = 1 => arRunning = ArHeld
    BY <2>1, <2>2 DEF ArContract!LeaveInterrupt, ArContract!ContractNext
  <2>3. CASE ArLevel = 1 /\ ArLevel' = 0 /\ ArHeld' = arRunning' /\ arWanted' = FALSE
    BY <1>11, <2>1, <2>3 DEF ArContract!ContractNext
  <2> QED
    BY <2>1, <2>2, <2>3
<1> QED
  BY <1>2, <1>4, <1>5, <1>6, <1>7, <1>8, <1>9, <1>10, <1>12, <1>13, <1>14
     DEF ArNext, ArContract!ContractNext

\* The Arm port implements the contract the kernel is written against although an IRQ can
\* be taken in the middle of yield_cpu and after a handler has ended its interrupt.
THEOREM ArmKeepsContract == ArSpec => ArKeepsContract
<1>1. ArInit => ArContract!ContractInit
  BY DEF ArInit, ArContract!ContractInit, ArHeld, ArStarted, ArLevel
<1>2. ArInv /\ [ArNext]_arVars => [ArContract!ContractNext]_(ArContract!contractVars)
  <2> SUFFICES ASSUME ArInv, [ArNext]_arVars
               PROVE  [ArContract!ContractNext]_(ArContract!contractVars)
    OBVIOUS
  <2>1. CASE UNCHANGED arVars
    BY <2>1 DEF arVars, arKernelVars, arHistory, ArContract!contractVars, ArHeld, ArStarted, ArLevel
  <2> QED
    BY <2>1, ArContractStep
<1> QED
  BY <1>1, <1>2, ArInitKeeps, ArStep, PTL DEF ArSpec, ArKeepsContract, ArContract!ContractSpec

-----------------------------------------------------------------------------
(* The four ports side by side *)

\* What the machine does is a behaviour of each port: the one it runs, and three that
\* do nothing.
LEMMA PortsAreEach == PortsSpec => RvSpec /\ ArSpec /\ AmSpec /\ SmSpec
<1>1. PortsInit => RvInit /\ ArInit /\ AmInit /\ SmInit
  BY DEF PortsInit, PortsReset
<1>2. [PortsNext]_<<part, portsVars>> =>
         /\ [RvNext]_<<rvVars, plVars>> /\ [ArNext]_arVars /\ [AmNext]_amVars /\ [SmNext]_smVars
  <2>1. PortsNext => /\ RvNext \/ UNCHANGED <<rvVars, plVars>>
                     /\ ArNext \/ UNCHANGED arVars
                     /\ AmNext \/ UNCHANGED amVars
                     /\ SmNext \/ UNCHANGED smVars
    BY DEF PortsNext
  <2>2. UNCHANGED <<part, portsVars>> =>
           UNCHANGED <<rvVars, plVars>> /\ UNCHANGED arVars /\ UNCHANGED amVars /\ UNCHANGED smVars
    BY DEF portsVars
  <2> QED
    BY <2>1, <2>2
<1> QED
  BY <1>1, <1>2, PTL DEF PortsSpec, RvSpec, ArSpec, AmSpec, SmSpec

\* On every port the context of a thread or handler survives every preemption and every
\* context switch.
THEOREM PortsContextIntact == PortsSpec => []ContextIntact
<1>1. /\ RvContextIntact /\ RvReservationSound /\ ArContextIntact /\ ArMonitorSound
      /\ AmContextIntact /\ AmMainStackBalanced /\ SmContextIntact
      => ContextIntact
  BY DEF ContextIntact
<1> QED
  BY <1>1, PortsAreEach, RiscvContextCorrect, ArmContextCorrect, ArmMonitorCorrect, ArmMContextCorrect,
     SimContextCorrect, PTL

\* On the RISC-V and Arm ports and in the simulator interrupts nest in the order of their
\* priorities, and handlers leave the enable bits of the PLIC as they found them.
THEOREM PortsPriorityOrder == PortsSpec => []PriorityOrder
<1>1. RvPriorityOrder /\ RvEnableRestored /\ ArPriorityOrder /\ SmPriorityOrder => PriorityOrder
  BY DEF PriorityOrder
<1> QED
  BY <1>1, PortsAreEach, RiscvPriorityOrderCorrect, ArmPriorityOrderCorrect, SimPriorityOrderCorrect, PTL

\* On no port does a task go on after yield_cpu before the dispatch it asked for has been
\* made.
THEOREM PortsNoLostDispatch == PortsSpec => []NoLostDispatch
<1>1. RvNoLostDispatch /\ ArNoLostDispatch /\ AmNoLostDispatch /\ SmNoLostDispatch => NoLostDispatch
  BY DEF NoLostDispatch
<1> QED
  BY <1>1, PortsAreEach, RiscvNoLostDispatchCorrect, ArmNoLostDispatchCorrect, ArmMNoLostDispatchCorrect,
     SimNoLostDispatchCorrect, PTL

\* On the RISC-V and Arm ports and in the simulator CPU Lock is what the code takes it to be.
THEOREM PortsLockHonoured == PortsSpec => []LockHonoured
<1>1. RvLockHonoured /\ ArLockHonoured /\ SmLockHonoured => LockHonoured
  BY DEF LockHonoured
<1> QED
  BY <1>1, PortsAreEach, RiscvLockHonouredCorrect, ArmLockHonouredCorrect, SimLockHonouredCorrect, PTL

\* All four ports implement the contract the kernel is written against.
THEOREM PortsKeepContract == PortsSpec => KeepsContract
BY PortsAreEach, RiscvKeepsContract, ArmKeepsContract, ArmMKeepsContract, SimKeepsContract
   DEF KeepsContract
=============================================================================
