---------------------------- MODULE MCLocalClock ---------------------------
(***************************************************************************)
(* LocalClock for TLC: words of four bits, five ticks to the second, a     *)
(* tick count that wraps, and a server whose clock is little more than a   *)
(* second from the end of its era.                                         *)
(***************************************************************************)
EXTENDS LocalClock

\* Offsets beyond the step threshold: under a second, over one, and negative.
StepOffsets == {5, 21, -3}
\* Phase corrections of either sign, and the frequency of a thousand seconds
\* per second that FREQ_EXISTS sets.
LoopAdjustments == {1, -1, 1000 * WORD + 2}
============================================================================
