---------------------------- MODULE MCRingBuffer ----------------------------
(***************************************************************************)
(* RingBuffer on one device with two lines of four cells: every position   *)
(* of start and end, full, empty and wrapped, with two distinguishable     *)
(* samples.                                                                *)
(***************************************************************************)
EXTENDS RingBuffer

CONSTANTS d1, w1, w2, s1, s2

MCDevice == {d1}
MCWhich == {w1, w2}
MCSample == {s1, s2}

=============================================================================
