---------------------------- MODULE PortContract ----------------------------
(***************************************************************************)
(* What a port promises the kernel about threads and interrupts: the       *)
(* contract PortRiscv, PortArm, PortArmM and SimPort each implement, and   *)
(* the one the module Kernel is written against.                           *)
(***************************************************************************)
EXTENDS PortBase

VARIABLES thread,    \* the thread whose context the CPU holds; NoTask: idle
          running,   \* running_task, as the kernel sees it
          depth,     \* how many handlers (the dispatcher included) are active
          wanted     \* yield_cpu was called and no task has been chosen since

contractVars == <<thread, running, depth, wanted>>

Threads == Tasks \cup {NoTask}

ContractInit == thread = "boot" /\ running = NoTask /\ depth = 0 /\ wanted = FALSE

\* dispatch_first_task.
Start == /\ thread = "boot"
         /\ \E n \in Threads : thread' = n /\ running' = n
         /\ wanted' \in BOOLEAN
         /\ UNCHANGED depth

\* Several at once, when the controller finds them pending.
TakeInterrupt == /\ thread # "boot"
                 /\ depth' \in Nat /\ depth' > depth
                 /\ UNCHANGED <<thread, running, wanted>>

\* Back to what was interrupted; a thread is only returned to as the running
\* task.
LeaveInterrupt == /\ depth > 0 /\ depth' = depth - 1
                  /\ depth = 1 => running = thread
                  /\ UNCHANGED <<thread, running, wanted>>

\* yield_cpu.
Request == /\ thread # "boot" /\ wanted' = TRUE
           /\ UNCHANGED <<thread, running, depth>>

\* choose_running_task, when no handler is waiting to be resumed; the thread is
\* switched to at the same time or in a later step (Switch).
Choose == /\ thread # "boot" /\ depth <= 1
          /\ \E n \in Threads :
                /\ running' = n
                /\ \/ thread' = n /\ depth' = 0
                   \/ depth = 1 /\ UNCHANGED <<thread, depth>>
          /\ wanted' = FALSE

Switch == /\ depth = 1 /\ depth' = 0
          /\ thread' = running
          /\ UNCHANGED <<running, wanted>>

\* exit_and_dispatch of a port that goes through the idle task.
Exit == /\ thread \in Tasks /\ depth = 0
        /\ thread' = NoTask /\ running' = NoTask /\ wanted' = TRUE
        /\ UNCHANGED depth

ContractNext == \/ Start \/ TakeInterrupt \/ LeaveInterrupt \/ Request
                \/ Choose \/ Switch \/ Exit

ContractSpec == ContractInit /\ [][ContractNext]_contractVars
=============================================================================
