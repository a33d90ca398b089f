----------------------------- MODULE MCPlatform -----------------------------
(***************************************************************************)
(* What is below the kernel, for TLC: the ports, the user-mode scheduling  *)
(* of the simulator and the timer drivers.  They share no state; part says *)
(* which one a behaviour is about.                                         *)
(***************************************************************************)
EXTENDS Ports, Ums, TimerDriver, TLC

CONSTANTS t1, t2, ext1, ext2, w1, w2

MCTasks == {t1, t2}
Symmetry == Permutations(MCTasks) \cup Permutations({w1, w2})

\* Two lines of different priority for each interrupt controller; the second
\* line of the Arm-M port and of the simulator is unmanaged.
MCPlicPriority == (ext1 :> 1) @@ (ext2 :> 2)
MCGicPriority == (ext1 :> 128) @@ (ext2 :> 64)
MCAmPriority == (ext1 :> 128) @@ (ext2 :> 0)
MCSimPriority == (1 :> 5) @@ (2 :> -1)

Driver(d, num, denom, headroom, full, resettable) ==
    [driver |-> d, num |-> num, denom |-> denom, headroom |-> headroom,
     full |-> full, resettable |-> resettable]

\* Frequencies with and without a whole number of hardware ticks per OS tick,
\* faster and slower than the OS tick, at the limits of the word; both
\* algorithms; and frequencies the configuration must refuse.
MCTdOptions ==
    {Driver("mtime", 5, 1, 1, TRUE, TRUE), Driver("sbi", 2, 3, 1, TRUE, TRUE),
     Driver("mtime", 8, 1, 1, TRUE, FALSE), Driver("sp804", 3, 2, 1, FALSE, FALSE),
     Driver("sp804", 2, 2, 1, FALSE, FALSE), Driver("ostm", 4, 1, 1, TRUE, FALSE),
     Driver("ostm", 3, 1, 2, TRUE, FALSE)}
    \cup {[driver |-> "systick", num |-> n, denom |-> 2, period |-> 1] : n \in {0, 2, 3}}

MCInit == /\ part \in PortNames \cup {"ums", "timer"} /\ PortsReset /\ UmsInit
          /\ IF part = "timer" THEN TdInit ELSE TdInit /\ tdOpt = Driver("mtime", 8, 1, 1, TRUE, FALSE)

MCNext ==
    \/ PortsNext /\ UNCHANGED <<umVars, tdVars>>
    \/ part = "ums" /\ UmsNext /\ UNCHANGED <<part, portsVars, tdVars>>
    \/ part = "timer" /\ TdNext /\ UNCHANGED <<part, portsVars, umVars>>

MCSpec == MCInit /\ [][MCNext]_<<part, portsVars, umVars, tdVars>>
=============================================================================
