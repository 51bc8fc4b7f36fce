----------------------------- MODULE MCExchange ----------------------------
(***************************************************************************)
(* Exchange for TLC: ticks of half a second, a timeout of two seconds.     *)
(***************************************************************************)
EXTENDS Exchange
============================================================================
