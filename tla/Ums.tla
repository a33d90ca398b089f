--------------------------------- MODULE Ums ---------------------------------
(***************************************************************************)
(* The user-mode scheduling of the simulator port: thread groups (ums.rs)  *)
(* over host threads that can be parked by other threads with a signal     *)
(* (threading_unix.rs).  Worker threads yield, wait for the lock of the    *)
(* group and exit; a thread outside the group (a device, the timer thread) *)
(* preempts the current one.  The scheduler of the client is any choice of *)
(* a live worker.                                                          *)
(*                                                                         *)
(* A worker executes instructions of its own when its signal handler is    *)
(* not active.  A signal is delivered to a running thread some time after  *)
(* pthread_kill, to a thread that returns from the handler at once.        *)
(***************************************************************************)
EXTENDS Integers

CONSTANTS Workers,     \* the threads of the group
          NoWorker,    \* cur_thread_id = None
          Outside,     \* the thread that calls preempt
          MaxRequests  \* bound: park requests the thread has not yet accepted

ASSUME UmsAssumption == /\ NoWorker \notin Workers /\ Outside \notin Workers
                        /\ NoWorker # Outside
                        /\ MaxRequests \in Nat \ {0}

VARIABLES
    umLock,      \* who holds the mutex of the group's State
    umCur,       \* cur_thread_id
    umTokens,    \* bytes in each park socket
    umPending,   \* park_requests_pending - park_requests_accepted: the
                 \* counters only matter by their differences
    umFlag,      \* in_remote_park_signal_handler
    umSignal,    \* SIGNAL_REMOTE_PARK is pending for the thread
    umHandler,   \* where each thread is in remote_park_signal_handler
    umLocal,     \* the handler's local park_requests_accepted, less the field
    umPc,        \* where each worker is outside of the handler
    umOut,       \* where the outside thread is in preempt and Thread::park
    umTicket     \* its ticket_num - park_requests_accepted

umThreadVars == <<umPending, umFlag, umSignal, umHandler, umLocal>>
umVars == <<umLock, umCur, umTokens, umThreadVars, umPc, umOut, umTicket>>

\* Every worker has been spawned and is in the park of its entry point.
UmsInit ==
    /\ umLock = NoWorker /\ umCur = NoWorker
    /\ umTokens = [w \in Workers |-> 0]
    /\ umPending = [w \in Workers |-> 0]
    /\ umLocal = [w \in Workers |-> 0] /\ umTicket = 0
    /\ umFlag = [w \in Workers |-> FALSE] /\ umSignal = [w \in Workers |-> FALSE]
    /\ umHandler = [w \in Workers |-> "none"]
    /\ umPc = [w \in Workers |-> "park"]
    /\ umOut = "idle"

Live == {w \in Workers : umPc[w] \notin {"final", "gone"}}
----------------------------------------------------------------------------
(* The group *)

\* unpark writes a byte to the socket of the thread.
Unpark(w) == umTokens' = [umTokens EXCEPT ![w] = @ + 1]

\* unpark_next_thread: the scheduler's choice gets a park token.
UnparkNextThread(live) ==
    \E n \in live \cup {NoWorker} :
        /\ umCur' = n
        /\ IF n = NoWorker THEN UNCHANGED umTokens ELSE Unpark(n)

\* w itself can take a step.
Acts(w) == umHandler[w] = "none"

\* yield_now and finalize_thread wait for the lock.
CallYield(w) ==
    /\ Acts(w) /\ umPc[w] = "user"
    /\ \E pc \in {"lock", "final"} : umPc' = [umPc EXCEPT ![w] = pc]
    /\ UNCHANGED <<umLock, umCur, umTokens, umThreadVars, umOut, umTicket>>

AcquireLock(w) ==
    /\ Acts(w) /\ umPc[w] \in {"lock", "final"} /\ umLock = NoWorker
    /\ umLock' = w
    /\ umPc' = [umPc EXCEPT ![w] = IF @ = "lock" THEN "next" ELSE @]
    /\ UNCHANGED <<umCur, umTokens, umThreadVars, umOut, umTicket>>

\* yield_now: the next thread is unparked and the lock released.
YieldNow(w) ==
    /\ Acts(w) /\ umPc[w] = "next"
    /\ UnparkNextThread(Live)
    /\ umLock' = NoWorker
    /\ umPc' = [umPc EXCEPT ![w] = "park"]
    /\ UNCHANGED <<umThreadVars, umOut, umTicket>>

\* finalize_thread, from the lock to the end of the thread.
FinalizeThread(w) ==
    /\ Acts(w) /\ umPc[w] = "final" /\ umLock = w
    /\ umPc' = [umPc EXCEPT ![w] = "gone"]
    /\ UnparkNextThread(Live)
    /\ umLock' = NoWorker
    /\ UNCHANGED <<umThreadVars, umOut, umTicket>>

\* park, which is park_inner: a token is taken.
TakeToken(w) ==
    /\ Acts(w) /\ umPc[w] = "park" /\ umTokens[w] > 0
    /\ umTokens' = [umTokens EXCEPT ![w] = @ - 1]
    /\ umPc' = [umPc EXCEPT ![w] = "user"]
    /\ UNCHANGED <<umLock, umCur, umThreadVars, umOut, umTicket>>
----------------------------------------------------------------------------
(* preempt, and Thread::park in it *)

Preempt ==
    /\ umOut = "idle" /\ umLock = NoWorker
    /\ umCur # NoWorker => umPending[umCur] < MaxRequests
    /\ umLock' = Outside
    /\ umOut' = IF umCur = NoWorker THEN "next" ELSE "request"
    /\ UNCHANGED <<umCur, umTokens, umThreadVars, umPc, umTicket>>

RequestPark ==
    /\ umOut = "request"
    /\ umTicket' = umPending[umCur]
    /\ umPending' = [umPending EXCEPT ![umCur] = @ + 1]
    /\ umOut' = "kill"
    /\ UNCHANGED <<umLock, umCur, umTokens, umFlag, umSignal, umHandler, umLocal, umPc>>

RaiseSignal ==
    /\ umOut = "kill"
    /\ umSignal' = [umSignal EXCEPT ![umCur] = TRUE]
    /\ umOut' = "wait"
    /\ UNCHANGED <<umLock, umCur, umTokens, umPending, umFlag, umHandler, umLocal,
                   umPc, umTicket>>

\* Mutant: preempt does not wait until the thread is parked.
AwaitParkAtOnce ==
    /\ umOut = "wait"
    /\ umOut' = "next" /\ umTicket' = 0
    /\ UNCHANGED <<umLock, umCur, umTokens, umThreadVars, umPc>>

\* The thread is parked, in its signal handler, or has been since the request.
AwaitPark ==
    /\ umOut = "wait"
    /\ umFlag[umCur] \/ umTicket < 0
    /\ umOut' = "next" /\ umTicket' = 0
    /\ UNCHANGED <<umLock, umCur, umTokens, umThreadVars, umPc>>

PreemptEnd ==
    /\ umOut = "next"
    /\ UnparkNextThread(Live)
    /\ umLock' = NoWorker /\ umOut' = "idle"
    /\ UNCHANGED <<umThreadVars, umPc, umTicket>>
----------------------------------------------------------------------------
(* remote_park_signal_handler *)

DeliverSignal(w) ==
    /\ umHandler[w] = "none" /\ umSignal[w] /\ umPc[w] # "gone"
    /\ umSignal' = [umSignal EXCEPT ![w] = FALSE]
    /\ umHandler' = [umHandler EXCEPT ![w] = "entry"]
    /\ UNCHANGED <<umLock, umCur, umTokens, umPending, umFlag, umLocal, umPc, umOut, umTicket>>

HandlerEntry(w) ==
    /\ umHandler[w] = "entry"
    /\ umFlag' = [umFlag EXCEPT ![w] = TRUE]
    /\ umLocal' = [umLocal EXCEPT ![w] = 0]
    /\ umHandler' = [umHandler EXCEPT ![w] = "test"]
    /\ UNCHANGED <<umLock, umCur, umTokens, umPending, umSignal, umPc, umOut, umTicket>>

HandlerTest(w) ==
    /\ umHandler[w] = "test"
    /\ umHandler' = [umHandler EXCEPT ![w] = IF umLocal[w] # umPending[w] THEN "recv" ELSE "store"]
    /\ umLocal' = [umLocal EXCEPT ![w] = IF @ # umPending[w] THEN @ + 1 ELSE @]
    /\ UNCHANGED <<umLock, umCur, umTokens, umPending, umFlag, umSignal, umPc, umOut, umTicket>>

\* park_inner, called by the handler.
HandlerPark(w) ==
    /\ umHandler[w] = "recv" /\ umTokens[w] > 0
    /\ umTokens' = [umTokens EXCEPT ![w] = @ - 1]
    /\ umHandler' = [umHandler EXCEPT ![w] = "test"]
    /\ UNCHANGED <<umLock, umCur, umPending, umFlag, umSignal, umLocal, umPc, umOut, umTicket>>

HandlerStore(w) ==
    /\ umHandler[w] = "store"
    /\ umPending' = [umPending EXCEPT ![w] = @ - umLocal[w]]
    /\ umTicket' = IF umOut \in {"kill", "wait"} /\ umCur = w THEN umTicket - umLocal[w] ELSE umTicket
    /\ umLocal' = [umLocal EXCEPT ![w] = 0]
    /\ umHandler' = [umHandler EXCEPT ![w] = "clear"]
    /\ UNCHANGED <<umLock, umCur, umTokens, umFlag, umSignal, umPc, umOut>>

\* Mutant: the signal stays unblocked in the handler and is lost there.
HandlerReturnLost(w) ==
    /\ umHandler[w] = "clear"
    /\ umFlag' = [umFlag EXCEPT ![w] = FALSE]
    /\ umHandler' = [umHandler EXCEPT ![w] = "none"]
    /\ umSignal' = [umSignal EXCEPT ![w] = FALSE]
    /\ UNCHANGED <<umLock, umCur, umTokens, umPending, umLocal, umPc, umOut, umTicket>>

\* The handler returns; a signal that was blocked meanwhile is delivered
\* before the thread executes anything else.
HandlerReturn(w) ==
    /\ umHandler[w] = "clear"
    /\ umFlag' = [umFlag EXCEPT ![w] = FALSE]
    /\ umHandler' = [umHandler EXCEPT ![w] = IF umSignal[w] THEN "entry" ELSE "none"]
    /\ umSignal' = [umSignal EXCEPT ![w] = FALSE]
    /\ UNCHANGED <<umLock, umCur, umTokens, umPending, umLocal, umPc, umOut, umTicket>>

Worker(w) == \/ AcquireLock(w) \/ YieldNow(w) \/ FinalizeThread(w) \/ TakeToken(w)
             \/ DeliverSignal(w) \/ HandlerEntry(w) \/ HandlerTest(w) \/ HandlerPark(w)
             \/ HandlerStore(w) \/ HandlerReturn(w)

PreemptStep == RequestPark \/ RaiseSignal \/ AwaitPark \/ PreemptEnd

UmsNext == \/ \E w \in Workers : CallYield(w) \/ Worker(w)
           \/ Preempt \/ PreemptStep

UmsSpec == UmsInit /\ [][UmsNext]_umVars

----------------------------------------------------------------------------
UserCode(w) == umPc[w] = "user" /\ umHandler[w] = "none"

\* At most one worker thread executes code of its own, and it is the one the
\* scheduler chose: not while it is preempted from outside, and not while
\* park requests, tokens and signals overtake each other.  Of every token and
\* request there is one taken back later: a thread that has used up its requests
\* is ahead by a token only when it is the current one.
UmsExclusive ==
    \A w \in Workers :
        /\ UserCode(w) => umCur = w /\ umOut # "next"
        /\ umHandler[w] = "none" /\ umPending[w] = 0 /\ umTokens[w] > 0
              => umCur = w /\ umTokens[w] = 1 /\ umPc[w] = "park"

\* Nobody waits for a signal, a token or a lock that does not come: a worker
\* that was chosen and not preempted since has a step to take until it is in
\* its own code, and so has, until its handshake is over, the one that is
\* being preempted.
UmsNeverStuck ==
    /\ umCur # NoWorker /\ umOut = "idle" => UserCode(umCur) \/ ENABLED Worker(umCur)
    /\ umOut = "wait" => ENABLED AwaitPark \/ ENABLED Worker(umCur)
==============================================================================
