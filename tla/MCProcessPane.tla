--------------------------- MODULE MCProcessPane ---------------------------
(***************************************************************************)
(* nvtop and two other processes in at most two rows of which one fits on  *)
(* the screen, two fields that order them differently, and ten signals, so *)
(* that the number of a signal can have two digits.                        *)
(***************************************************************************)
EXTENDS ProcessPane

CONSTANTS self, p1, p2

MCRank == 0 :> (self :> 1 @@ p1 :> 2 @@ p2 :> 3) @@ 1 :> (self :> 2 @@ p1 :> 3 @@ p2 :> 1)
MCPreference == 0 :> 2 @@ 1 :> 1
=============================================================================
