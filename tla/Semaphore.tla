------------------------------ MODULE Semaphore ------------------------------
(***************************************************************************)
(* Semaphores (semaphore.rs) over the tasks and wait queues of Kernel.     *)
(*                                                                         *)
(* signal wakes up one waiter per permit in a loop and deposits what is    *)
(* left; the loop is one step per waiter, with CPU Lock held, so nothing   *)
(* runs between its steps.                                                 *)
(***************************************************************************)
EXTENDS Kernel

CONSTANTS
  Semaphores,
  MaxValue,       \* SemaphoreCb::max_value
  InitValue,      \* SemaphoreBuilder::initial
  SignalCounts    \* the arguments of signal to consider

ASSUME SemaphoreAssumption ==
  /\ Semaphores \subseteq Objects
  /\ Semaphores \cap Mutexes = {}
  /\ MaxValue \in [Semaphores -> Nat]
  /\ InitValue \in [Semaphores -> Nat]
  /\ \A s \in Semaphores : InitValue[s] <= MaxValue[s]
  /\ SignalCounts \subseteq Nat \ {0}

VARIABLES
  value,          \* SemaphoreCb::value
  signalling      \* the local variables of the call of signal under way: the
                  \* permits not given away yet, whether it woke up a task,
                  \* and who calls it

Signalling == [sem : Semaphores, count : Nat, woke : BOOLEAN, by : Context]

ASSUME SignallingAssumption == None \notin Signalling

semVars == <<value, signalling>>
semAllVars == <<vars, semVars>>

SemInit ==
  /\ Init
  /\ value = InitValue
  /\ signalling = None

-----------------------------------------------------------------------------
\* poll_core succeeds: wait_one, wait_one_timeout or poll_one of a semaphore
\* that has a permit.  poll_one is allowed in every context, the other two in
\* a waitable one.
PollOne(c, s) ==
  /\ InContext(c)
  /\ value[s] > 0
  /\ value' = [value EXCEPT ![s] = @ - 1]
  /\ UNCHANGED <<vars, signalling>>

\* wait_one and wait_one_timeout of a semaphore that has none
WaitOne(t, s, timed) ==
  /\ WaitableContext(t)
  /\ value[s] = 0
  /\ BeginWait(t, s, timed)
  /\ UNCHANGED <<park_token, cpuVars, yield_pending, mutexVars, semVars>>

\* Mutant: the limit is checked without the permits already there.
SignalNoLimit(c, s, n) ==
  /\ InContext(c)
  /\ n <= MaxValue[s]
  /\ signalling' = [sem |-> s, count |-> n, woke |-> FALSE, by |-> c]
  /\ cpu_lock' = "service"
  /\ UNCHANGED <<taskVars, prioVars, park_token, waitVars, stackVars, pc,
                 priority_boost, interrupt, yield_pending, mutexVars, value>>

\* signal_one and signal: QueueOverflow if the semaphore could not hold all
\* the permits, even when tasks wait for them.
Signal(c, s, n) ==
  /\ InContext(c)
  /\ n <= MaxValue[s] - value[s]
  /\ signalling' = [sem |-> s, count |-> n, woke |-> FALSE, by |-> c]
  /\ cpu_lock' = "service"
  /\ UNCHANGED <<taskVars, prioVars, park_token, waitVars, stackVars, pc,
                 priority_boost, interrupt, yield_pending, mutexVars, value>>

\* An iteration that gives a permit to the first waiter
SignalWakeUpOne ==
  /\ signalling # None
  /\ signalling.count > 0
  /\ wait_queue[signalling.sem] # <<>>
  /\ UNCHANGED prioVars
  /\ WakeUpOne(signalling.sem)
  /\ signalling' = [signalling EXCEPT !.count = @ - 1, !.woke = TRUE]
  /\ UNCHANGED <<running_task, park_token, stackVars, pc, cpuVars,
                 yield_pending, mutexVars, value>>

\* Mutant: the permits are deposited although they have been given away.
SignalEndDouble ==
  /\ signalling # None
  /\ signalling.count = 0 \/ wait_queue[signalling.sem] = <<>>
  /\ value' = [value EXCEPT ![signalling.sem] =
                 @ + signalling.count + (IF signalling.woke THEN 1 ELSE 0)]
  /\ signalling' = None
  /\ cpu_lock' = "free"
  /\ UNCHANGED <<taskVars, prioVars, park_token, waitVars, stackVars,
                 priority_boost, interrupt, mutexVars>>
  /\ IF signalling.woke THEN UnlockCpuAndCheckPreemption(signalling.by, pc)
                        ELSE UNCHANGED <<pc, yield_pending>>

\* The loop ends: the permits left are deposited (there is no waiter then),
\* and preemption is checked if a task was woken up.
SignalEnd ==
  /\ signalling # None
  /\ signalling.count = 0 \/ wait_queue[signalling.sem] = <<>>
  /\ value' = [value EXCEPT ![signalling.sem] = @ + signalling.count]
  /\ signalling' = None
  /\ cpu_lock' = "free"
  /\ UNCHANGED <<taskVars, prioVars, park_token, waitVars, stackVars,
                 priority_boost, interrupt, mutexVars>>
  /\ IF signalling.woke THEN UnlockCpuAndCheckPreemption(signalling.by, pc)
                        ELSE UNCHANGED <<pc, yield_pending>>

\* drain
Drain(c, s) ==
  /\ InContext(c)
  /\ value[s] # 0
  /\ value' = [value EXCEPT ![s] = 0]
  /\ UNCHANGED <<vars, signalling>>

SemaphoreService ==
  \/ \E c \in Context, s \in Semaphores :
       \/ PollOne(c, s)
       \/ \E n \in SignalCounts : Signal(c, s, n)
       \/ Drain(c, s)
  \/ \E t \in Tasks, s \in Semaphores, timed \in Timed : WaitOne(t, s, timed)
  \/ SignalWakeUpOne
  \/ SignalEnd

SemNext ==
  \/ Next /\ UNCHANGED semVars
  \/ SemaphoreService

SemSpec == SemInit /\ [][SemNext]_semAllVars

-----------------------------------------------------------------------------
(* Properties *)

\* No permit is withheld: a semaphore with a permit has no waiter, whatever
\* mix of signals, timeouts and interruptions came before, and it never holds
\* more than its maximum.
NoIdlePermit ==
  \A s \in Semaphores :
    /\ value[s] > 0 => wait_queue[s] = <<>>
    /\ value[s] <= MaxValue[s]

\* The promise of a semaphore, Permits, is kept.  While signal is in its loop
\* the promised effect has already happened: the waiters it has not reached
\* count as released and the permits it will deposit as deposited.
Pending(s) ==
  IF signalling # None /\ signalling.sem = s THEN signalling.count ELSE 0
Given(s) == Min({Pending(s), Len(wait_queue[s])})

Permitted == [s \in Semaphores |-> value[s] + Pending(s) - Given(s)]
Blocked ==
  [s \in Semaphores |-> {wait_queue[s][i] : i \in Given(s) + 1 .. Len(wait_queue[s])}]

PermitsImpl ==
  INSTANCE Permits WITH Clients <- Tasks, permits <- Permitted, blocked <- Blocked

\* Every step of the kernel is a step of Permits or changes nothing it sees:
\* a signal of n permits releases waiters and deposits permits, n together,
\* and a wait that ends otherwise takes none.
PermitsKept == PermitsImpl!Spec

=============================================================================
