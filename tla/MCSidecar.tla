----------------------------- MODULE MCSidecar -----------------------------
(***************************************************************************)
(* The sidecar with two process identifiers (a restart and its predecessor *)
(* can be told apart), a backoff that grows twice, two refused frames in a *)
(* row before a kill.                                                      *)
(***************************************************************************)
EXTENDS Sidecar, TLC

MCSymmetry == Permutations(Pid)
=============================================================================
