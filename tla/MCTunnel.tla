------------------------------- MODULE MCTunnel -------------------------------
(* A small instance of Tunnel for TLC. *)
EXTENDS Tunnel

Sends == [h \in Hops |-> IF h = "agent" THEN 2 ELSE 1]
=============================================================================
