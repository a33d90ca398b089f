-------------------------------- MODULE Plic --------------------------------
(***************************************************************************)
(* The Platform-Level Interrupt Controller driver of the RISC-V port       *)
(* (plic/imp.rs).  The controller itself is hardware: a line that is       *)
(* pending, enabled and above the threshold asserts the external interrupt *)
(* of the hart (PlicAsserted).                                             *)
(***************************************************************************)
EXTENDS PortBase

CONSTANTS PlicPriority,   \* interrupt_priority, a function of the lines
          UseNesting      \* Plic::USE_NESTING

PlicLines == DOMAIN PlicPriority

ASSUME PlicAssumption == /\ IsFiniteSet(PlicLines)
                         /\ \A l \in PlicLines : PlicPriority[l] \in Nat \ {0}
                         /\ UseNesting \in BOOLEAN

VARIABLES plPending,      \* lines latched by their gateways
          plInService,    \* lines claimed and not yet completed
          plEnabled,      \* interrupt_enable
          plThreshold     \* priority_threshold

plVars == <<plPending, plInService, plEnabled, plThreshold>>

\* What an earlier boot stage may have left behind.
PlicReset == /\ plPending = {} /\ plInService = {}
             /\ plEnabled = PlicLines
             /\ plThreshold = 0

\* init: every line disabled, every priority accepted.
PlicInit == plEnabled' = {} /\ plThreshold' = 0

PlicAsserted == \E l \in plPending \cap plEnabled : PlicPriority[l] > plThreshold

\* The device raises its line; the gateway holds back a line in service.
PlicRaise(l) == /\ l \notin plPending \cup plInService
                /\ plPending' = plPending \cup {l}
                /\ UNCHANGED <<plInService, plEnabled, plThreshold>>

\* What reading claim_complete returns; the threshold plays no part in it.
Claimable == {l \in plPending \cap plEnabled :
                \A m \in plPending \cap plEnabled : PlicPriority[m] <= PlicPriority[l]}

\* claim_interrupt: the token end_interrupt is given is the old threshold or
\* the line.
PlicClaim(l) ==
    /\ l \in Claimable
    /\ plPending' = plPending \ {l}
    /\ IF UseNesting THEN /\ plThreshold' = PlicPriority[l]
                          /\ UNCHANGED plInService
                     ELSE /\ plInService' = plInService \cup {l}
                          /\ UNCHANGED plThreshold
    /\ UNCHANGED plEnabled

PlicToken(l) == [line |-> l, old |-> plThreshold]

\* Mutant: the priority threshold is left raised.
PlicEndRaised(token) == UNCHANGED plVars

PlicEnd(token) ==
    /\ IF UseNesting THEN /\ plThreshold' = token.old
                          /\ UNCHANGED plInService
                     ELSE /\ plInService' = plInService \ {token.line}
                          /\ UNCHANGED plThreshold
    /\ UNCHANGED <<plPending, plEnabled>>

PlicEnableLine(l) == /\ l \notin plEnabled
                     /\ plEnabled' = plEnabled \cup {l}
                     /\ UNCHANGED <<plPending, plInService, plThreshold>>

PlicDisableLine(l) == /\ l \in plEnabled
                      /\ plEnabled' = plEnabled \ {l}
                      /\ UNCHANGED <<plPending, plInService, plThreshold>>
=============================================================================
