----------------------------- MODULE MCStartup -----------------------------
(***************************************************************************)
(* Startup for TLC: three hosts with three lookups each, two addresses, so *)
(* that two hosts may share one, and a heap that other tasks may exhaust   *)
(* before any of the client's allocations.                                 *)
(***************************************************************************)
EXTENDS Startup

CONSTANTS a1, a2
Servers == {a1, a2}
============================================================================
