---------------------------- MODULE MCTelemetry ----------------------------
(***************************************************************************)
(* Arrays of up to seven bytes and frames of up to five: enough for a      *)
(* string with an escaped quote, for a nested array and for an array that  *)
(* is too long.  A ring of two points, four snapshots so that it wraps     *)
(* around, and two seconds in any order so that the clock may go back.     *)
(***************************************************************************)
EXTENDS Telemetry
=============================================================================
