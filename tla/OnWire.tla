------------------------------- MODULE OnWire ------------------------------
(***************************************************************************)
(* What the client wants of the exchange of packets with its servers: it   *)
(* asks one association at a time, and a reply is accepted by the          *)
(* association that was asked, for the request that is still open, once.   *)
(***************************************************************************)
EXTENDS Naturals

CONSTANT Peers

VARIABLES
  request,   \* the number of requests so far; the last one is the current one
  asked,     \* the association it was sent for
  open,      \* whether its reply may still be accepted
  accepted   \* accepted replies: the request answered, and by which association

vars == <<request, asked, open, accepted>>

Init ==
  /\ request = 0
  /\ asked \in Peers
  /\ open = FALSE
  /\ accepted = {}

Ask(p) ==
  /\ ~open
  /\ request' = request + 1
  /\ asked' = p
  /\ open' = TRUE
  /\ UNCHANGED accepted

Accept ==
  /\ open
  /\ accepted' = accepted \union {<<request, asked>>}
  /\ open' = FALSE
  /\ UNCHANGED <<request, asked>>

\* No reply came, or none that the client accepts.
GiveUp ==
  /\ open
  /\ open' = FALSE
  /\ UNCHANGED <<request, asked, accepted>>

Next == (\E p \in Peers : Ask(p)) \/ Accept \/ GiveUp

Spec == Init /\ [][Next]_vars
============================================================================
