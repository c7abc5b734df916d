---------------------------- MODULE MCTimingWheel ----------------------------
(* Small instances of TimingWheel for TLC. *)
EXTENDS TimingWheel
=============================================================================
