------------------------------ MODULE MCSetup ------------------------------
(***************************************************************************)
(* Three GPUs, one without a fdinfo callback, three metrics of which two   *)
(* can be drawn per GPU, and two refreshes.  The configuration asks for    *)
(* the same metrics everywhere, or for different ones that are together    *)
(* more than the lines of a chart; any GPUs may be switched off in it.     *)
(* Two options are changed: one moves the rows of the other.               *)
(***************************************************************************)
EXTENDS SetupWindow

CONSTANTS g1, g2, g3

MCOrder == <<g1, g2, g3>>
Alike == [g \in Gpu |-> {0, 1}]
Different == [g \in Gpu |-> IF g = g1 THEN {0, 2} ELSE {1}]
MCConfigured == {Alike, Different}
=============================================================================
