----------------------------- MODULE MCTimeout -----------------------------
(***************************************************************************)
(* Timeout for TLC, with words of few values divided as those of 32 bits.  *)
(***************************************************************************)
EXTENDS Timeout

MCInitDelay == [x \in Timers |-> IF x = 1 THEN 3 ELSE DurationMax]
MCTogether == [x \in Timers |-> 3]
MCInitPeriod == [x \in Timers |-> IF x = 1 THEN 2 ELSE Bad]
MCOneShot == [x \in Timers |-> Bad]
MCBothWays == {-2, -1, 0, 2}
MCBackward == {-1}
=============================================================================
