--------------------------- MODULE MCProcessCache ---------------------------
(***************************************************************************)
(* Two GPUs and two pids: a process can use both GPUs, be listed twice for *)
(* one, exit and come back under the same pid at any point of a refresh.   *)
(***************************************************************************)
EXTENDS ProcessCache, TLC

CONSTANTS g1, g2, p1, p2

MCSymmetry == Permutations(Gpu) \cup Permutations(Pid)
=============================================================================
