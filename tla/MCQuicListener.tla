--------------------------- MODULE MCQuicListener ---------------------------
(* Small instances of QuicListener for TLC. *)
EXTENDS QuicListener
=============================================================================
