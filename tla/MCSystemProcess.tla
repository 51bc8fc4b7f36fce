-------------------------- MODULE MCSystemProcess --------------------------
(***************************************************************************)
(* SystemProcess for TLC: samples of two primary servers whose intervals   *)
(* are disjoint, and of a secondary server whose interval meets the first  *)
(* and that follows a source of its own.                                   *)
(***************************************************************************)
EXTENDS SystemProcess, TLC

CONSTANTS p1, p2, p3, gps, up

Reply(o, d, st, r) ==
  [offset |-> o, dist |-> d, jitter |-> 2, stratum |-> st, refid |-> r,
   synced |-> TRUE, reached |-> TRUE]

PeerSymmetry == Permutations(Peers)

FewSamples == {Reply(-1, 2, 1, gps), Reply(8, 2, 1, gps), Reply(2, 3, 2, up)}
============================================================================
