---------------------------- MODULE MCClockFilter ---------------------------
(***************************************************************************)
(* ClockFilter for TLC: sixteen units to the second, and the constants of  *)
(* NTP_TDMG.h and NTP_peer.h in that unit.                                 *)
(***************************************************************************)
EXTENDS ClockFilter

Reply(ok, rd, rdisp, o, d) ==
  [valid |-> ok, rootdelay |-> rd, rootdisp |-> rdisp, offset |-> o, delay |-> d,
   disp |-> 1]

SampleReplies ==
  { Reply(TRUE, 0, 15, 0, 1), Reply(TRUE, 0, 0, 14, 4), Reply(TRUE, 31, 0, -1, 2),
    Reply(TRUE, 0, 16, 0, 1), Reply(FALSE, 0, 400000, 0, 1) }

PollExtremes == {6, 17}
============================================================================
