----------------------------- MODULE MCQuicConn -----------------------------
(* Small instances of QuicConn for TLC. *)
EXTENDS QuicConn
=============================================================================
