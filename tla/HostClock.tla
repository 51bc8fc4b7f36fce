----------------------------- MODULE HostClock -----------------------------
(***************************************************************************)
(* What the clock discipline promises to the rest of the client: how the   *)
(* process time c.t and the poll exponent s.poll of the host may change in *)
(* a turn of the loop and in a call of clock_filter(), wherever it ends.   *)
(* ClockDiscipline implements it; PollProcess is built on it.              *)
(***************************************************************************)
EXTENDS Integers

CONSTANTS MINPOLL, MAXPOLL

VARIABLES cT, sPoll

\* The head of clock_adjust().
clock_adjust == cT' = cT + 1 /\ UNCHANGED sPoll

\* clock_filter() may reach local_clock(), which changes s.poll by one or, in a
\* step, back to MINPOLL, and advances c.t in rstclock().
clock_filter ==
  /\ cT' \in {cT, cT + 1}
  /\ sPoll' \in {sPoll - 1, sPoll, sPoll + 1, MINPOLL} \intersect MINPOLL .. MAXPOLL

Init == cT = 2 /\ sPoll = MINPOLL
Next == clock_adjust \/ clock_filter
Spec == Init /\ [][Next]_<<cT, sPoll>>
============================================================================
