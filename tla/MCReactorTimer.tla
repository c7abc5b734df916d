--------------------------- MODULE MCReactorTimer ---------------------------
(* Small instances of ReactorTimer for TLC. *)
EXTENDS ReactorTimer
=============================================================================
