------------------------------ MODULE MCKernel ------------------------------
(***************************************************************************)
(* Kernel for TLC.                                                         *)
(***************************************************************************)
EXTENDS Kernel

CONSTANTS m1, m2

\* Task 1 has the highest initial priority a ceiling mutex admits; the others
\* share the lowest one.
MCInitPrio == [t \in Tasks |-> IF t = 1 THEN NumPrio - 2 ELSE NumPrio - 1]

MCQueueOrder == [o \in Objects |-> "TaskPriority"]

\* m1 follows the ceiling protocol, m2 has no protocol.
MCCeiling == [m \in Mutexes |-> IF m = m1 THEN NumPrio - 2 ELSE NumPrio]
=============================================================================
