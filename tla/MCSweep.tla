------------------------------- MODULE MCSweep -------------------------------
(* Sweep for TLC: one core component and one that may be absent, which has  *)
(* enough addresses to be skipped (after two failures here) both inside the *)
(* priority batch, at its end, and behind it.                               *)
EXTENDS Sweep

E(c, p) == [component |-> c, priority |-> p]

MCEntries ==
    <<E("DriveUnit", TRUE), E("HeadUnit", TRUE), E("HeadUnit", TRUE), E("HeadUnit", TRUE),
      E("HeadUnit", FALSE)>>
=============================================================================
