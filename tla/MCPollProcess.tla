--------------------------- MODULE MCPollProcess ---------------------------
(***************************************************************************)
(* PollProcess for TLC, with the interval 2^n of every poll exponent n.    *)
(***************************************************************************)
EXTENDS PollProcess

PowersOfTwo == [n \in 0 .. MAXPOLL |-> 2 ^ n]
============================================================================
