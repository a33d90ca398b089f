----------------------------- MODULE MCProgress -----------------------------
(***************************************************************************)
(* Kernel for TLC, under fair scheduling: one of two applications runs.    *)
(***************************************************************************)
EXTENDS MCKernel

VARIABLE application

\* "schedule": tasks of several priorities activate each other, change their
\* priorities, boost themselves and exit.  This is Kernel with the constants of
\* the configuration.

\* "wait": tasks wait for permits and for a mutex, with timeouts, and exit with
\* the mutex held; whoever is woken up competes for the processor again.
WaitServices ==
  {"park", "unpark", "try_lock", "lock", "unlock", "timed", "interrupt", "exit",
   "handler"}

Waiting == INSTANCE Kernel WITH Services <- WaitServices

MCInit == application \in {"schedule", "wait"} /\ Init

MCNext ==
  /\ UNCHANGED application
  /\ \/ application = "schedule" /\ Next
     \/ application = "wait" /\ Waiting!Next

MCFairSpec == MCInit /\ [][MCNext]_<<vars, application>> /\ Fairness
=============================================================================
