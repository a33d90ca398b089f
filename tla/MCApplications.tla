--------------------------- MODULE MCApplications ---------------------------
(***************************************************************************)
(* Kernel for TLC: one of three applications runs, each with services that *)
(* interact.  All properties are checked in all of them.                   *)
(***************************************************************************)
EXTENDS MCKernel

VARIABLE application

\* "contend": tasks lock mutexes of both protocols, and owners and waiters change
\* priorities and exit.  This is Kernel with the constants of the configuration.

\* "preempt": tasks of several priorities and interrupt handlers activate and
\* unpark each other; tasks change priorities and boost themselves.
Awake == {1}
PreemptServices ==
  {"activate", "exit", "park", "unpark", "set_priority", "boost", "handler"}

Preempt == INSTANCE Kernel WITH InitActive <- Awake, Services <- PreemptServices

\* "wait": two tasks wait in every way, also for the plain mutex, and timeouts,
\* interruptions, timer callbacks and wake-ups race for the same wait.
PlainMutexes == {m2}
WaitServices ==
  {"park", "sleep", "lock", "try_lock", "unlock", "timed", "unpark", "interrupt",
   "callback", "handler"}

Waiting == INSTANCE Kernel WITH Mutexes <- PlainMutexes, Services <- WaitServices

MCInit ==
  \/ application \in {"contend", "wait"} /\ Init
  \/ application = "preempt" /\ Preempt!Init

MCNext ==
  /\ UNCHANGED application
  /\ \/ application = "contend" /\ Next
     \/ application = "preempt" /\ Preempt!Next
     \/ application = "wait" /\ Waiting!Next

MCSpec == MCInit /\ [][MCNext]_<<vars, application>>
=============================================================================
