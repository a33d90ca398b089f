------------------------------- MODULE Ports --------------------------------
(***************************************************************************)
(* The four ports side by side, and what each of them has to guarantee the *)
(* kernel.  A machine runs one of them; the others stay as they were.      *)
(***************************************************************************)
EXTENDS PortRiscv, PortArm, PortArmM, SimPort

VARIABLE part  \* what a behaviour is about: a port, or another part of the platform

portsVars == <<rvVars, plVars, arVars, amVars, smVars>>

PortNames == {"riscv", "arm", "arm_m", "simulator"}

PortsReset == RvInit /\ ArInit /\ AmInit /\ SmInit

PortsInit == part \in PortNames /\ PortsReset

PortsNext ==
    /\ UNCHANGED part
    /\ \/ part = "riscv" /\ RvNext /\ UNCHANGED <<arVars, amVars, smVars>>
       \/ part = "arm" /\ ArNext /\ UNCHANGED <<rvVars, plVars, amVars, smVars>>
       \/ part = "arm_m" /\ AmNext /\ UNCHANGED <<rvVars, plVars, arVars, smVars>>
       \/ part = "simulator" /\ SmNext /\ UNCHANGED <<rvVars, plVars, arVars, amVars>>

PortsSpec == PortsInit /\ [][PortsNext]_<<part, portsVars>>
-----------------------------------------------------------------------------

\* The context of a thread or handler survives every preemption by others and
\* every context switch, floating-point registers, stacks and the reservations
\* of atomic instructions included.
ContextIntact == CASE part = "riscv" -> RvContextIntact /\ RvReservationSound
                   [] part = "arm" -> ArContextIntact /\ ArMonitorSound
                   [] part = "arm_m" -> AmContextIntact /\ AmMainStackBalanced
                   [] part = "simulator" -> SmContextIntact
                   [] OTHER -> TRUE

\* Interrupts are taken and nested in the order of their priorities, and the
\* enable bits of the interrupt controller are as the handlers found them.
PriorityOrder == CASE part = "riscv" -> RvPriorityOrder /\ RvEnableRestored
                   [] part = "arm" -> ArPriorityOrder
                   [] part = "simulator" -> SmPriorityOrder
                   [] OTHER -> TRUE

\* A dispatch that yield_cpu asked for happens before the task goes on, also
\* when it was asked for in a handler or in a nested one.
NoLostDispatch == CASE part = "riscv" -> RvNoLostDispatch
                    [] part = "arm" -> ArNoLostDispatch
                    [] part = "arm_m" -> AmNoLostDispatch
                    [] part = "simulator" -> SmNoLostDispatch
                    [] OTHER -> TRUE

\* CPU Lock, as the code that runs believes it to be, is what the processor
\* enforces.
LockHonoured == CASE part = "riscv" -> RvLockHonoured
                  [] part = "arm" -> ArLockHonoured
                  [] part = "simulator" -> SmLockHonoured
                  [] OTHER -> TRUE

\* Each port implements the contract the kernel is written against.
KeepsContract == RvKeepsContract /\ ArKeepsContract /\ AmKeepsContract /\ SmKeepsContract
=============================================================================
