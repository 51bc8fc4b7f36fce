------------------------- MODULE MCClockDiscipline -------------------------
(***************************************************************************)
(* Instances of ClockDiscipline for TLC: both builds of freq.h, on scaled  *)
(* thresholds.  Peers are interchangeable.                                 *)
(***************************************************************************)
EXTENDS ClockDiscipline, TLC

CONSTANTS p1, p2

\* No offset, one below the jitter gate, one above it, an outlier, the negative
\* offset of a sum that has lost its seconds, and one beyond the panic threshold.
OffsetClasses == {0, 1, 4, 9, -9, 21}

PeerSymmetry == Permutations(Peers)
============================================================================
