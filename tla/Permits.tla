------------------------------- MODULE Permits -------------------------------
(***************************************************************************)
(* What a counting semaphore promises: permits are neither lost nor        *)
(* invented.  A signal of n permits releases as many blocked clients as    *)
(* there are, at most n, and keeps the rest; a client that stops waiting   *)
(* otherwise takes no permit.                                              *)
(***************************************************************************)
EXTENDS Naturals, FiniteSets

CONSTANTS Semaphores, Clients, MaxValue, InitValue, SignalCounts

VARIABLES permits, blocked

Init ==
  /\ permits = InitValue
  /\ blocked = [s \in Semaphores |-> {}]

Take(s) ==
  /\ permits[s] > 0
  /\ permits' = [permits EXCEPT ![s] = @ - 1]
  /\ UNCHANGED blocked

Block(s, c) ==
  /\ permits[s] = 0
  /\ blocked' = [blocked EXCEPT ![s] = @ \cup {c}]
  /\ UNCHANGED permits

\* The wait of c is interrupted or times out.
Cancel(s, c) ==
  /\ c \in blocked[s]
  /\ blocked' = [blocked EXCEPT ![s] = @ \ {c}]
  /\ UNCHANGED permits

Signal(s, n) ==
  /\ permits[s] + n <= MaxValue[s]
  /\ \E released \in SUBSET blocked[s] :
       /\ \/ Cardinality(released) = n
          \/ Cardinality(released) < n /\ released = blocked[s]
       /\ blocked' = [blocked EXCEPT ![s] = @ \ released]
       /\ permits' = [permits EXCEPT ![s] = @ + n - Cardinality(released)]

Drain(s) ==
  /\ permits' = [permits EXCEPT ![s] = 0]
  /\ UNCHANGED blocked

Next ==
  \E s \in Semaphores :
    \/ Take(s)
    \/ Drain(s)
    \/ \E c \in Clients : Block(s, c) \/ Cancel(s, c)
    \/ \E n \in SignalCounts : Signal(s, n)

Spec == Init /\ [][Next]_<<permits, blocked>>

=============================================================================
