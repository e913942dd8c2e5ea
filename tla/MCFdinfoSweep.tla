--------------------------- MODULE MCFdinfoSweep ---------------------------
(***************************************************************************)
(* Two processes with three descriptors each, two GPUs; three files: two   *)
(* of the first GPU that share a DRM client, and one of the second GPU     *)
(* that names no client.                                                   *)
(***************************************************************************)
EXTENDS FdinfoSweep, TLC

CONSTANTS g1, g2, f1, f2, f3, c1

MCFileGpu == f1 :> g1 @@ f2 :> g1 @@ f3 :> g2
MCFileClient == f1 :> c1 @@ f2 :> c1 @@ f3 :> NoClient
MCCallbacks == <<g1, g2>>
MCSymmetry == Permutations(Pid) \cup Permutations({f1, f2})
=============================================================================
