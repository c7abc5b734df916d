------------------------------ MODULE QuicClient ------------------------------
(***************************************************************************)
(* QUIC connections of a client (crates/quic/src/client.rs): the handshake *)
(* loop of QuicConn::connect_with, then a send loop and a recv loop that   *)
(* share the UDP socket.  Each connection has a socket of its own.  The    *)
(* caller may drop connect_with while it waits.                            *)
(*                                                                         *)
(* quiche is external: a packet it rejects makes it close the connection,  *)
(* one it cannot decrypt or that comes too late is ignored.  What the      *)
(* loops share of QuicConnState is modelled in QuicConn; here a loop takes *)
(* its step whenever it can.  Who uses the connections is in Agent.        *)
(***************************************************************************)
EXTENDS Naturals

CONSTANT Conns    \* connections

VARIABLES
  hs,        \* connect_with: "none", "send", "wait", "up" or "failed"
  conn,      \* "handshaking", "open", "closing", "draining" or "closed"
  sendLoop,  \* client_send_loop: "none", "run" or "done"
  recvLoop,  \* client_recv_loop: "none", "run" or "done"
  shut       \* connections whose socket was shut down

client == <<hs, conn, sendLoop, recvLoop, shut>>

ClientInit == /\ hs = [c \in Conns |-> "none"]
              /\ conn = [c \in Conns |-> "closed"]
              /\ sendLoop = [c \in Conns |-> "none"] /\ recvLoop = sendLoop
              /\ shut = {}

is_closed(c) == conn[c] = "closed"

\* A datagram is a packet of the handshake or of a stream, a CONNECTION_CLOSE, or
\* one that breaks the protocol.  It is chosen when it is read; any may be lost.
Datagrams == {"good", "close", "bad"}

-----------------------------------------------------------------------------
\* connect_with binds a socket and calls quiche::connect.
Connect(c) ==
  /\ hs[c] = "none"
  /\ hs' = [hs EXCEPT ![c] = "send"]
  /\ conn' = [conn EXCEPT ![c] = "handshaking"]
  /\ UNCHANGED <<sendLoop, recvLoop, shut>>

\* connect_with returns an error or is dropped: the socket and the connection
\* go, and the peer is told nothing.
Abandon(c) ==
  /\ hs' = [hs EXCEPT ![c] = "failed"]
  /\ conn' = [conn EXCEPT ![c] = "closed"]
  /\ UNCHANGED <<sendLoop, recvLoop, shut>>

\* dispatcher.send and send_to.  A connection the peer closed has nothing to
\* send until it times out, and then send fails.
HandshakeSend(c) ==
  /\ hs[c] = "send"
  /\ \/ /\ conn[c] = "handshaking"
        /\ hs' = [hs EXCEPT ![c] = "wait"]
        /\ UNCHANGED <<conn, sendLoop, recvLoop, shut>>
     \/ Abandon(c)

\* recv_from returned in time.
HandshakeRecv(c, kind) ==
  /\ hs[c] = "wait"
  /\ \/ /\ kind = "good"
        /\ hs' = [hs EXCEPT ![c] = "up"] /\ conn' = [conn EXCEPT ![c] = "open"]
        /\ sendLoop' = [sendLoop EXCEPT ![c] = "run"]
        /\ recvLoop' = [recvLoop EXCEPT ![c] = "run"]
        /\ UNCHANGED shut
     \/ /\ kind \in {"good", "close"}
        /\ hs' = [hs EXCEPT ![c] = "send"]
        /\ conn' = [conn EXCEPT ![c] = IF kind = "close" THEN "draining" ELSE @]
        /\ UNCHANGED <<sendLoop, recvLoop, shut>>
     \/ kind = "bad" /\ Abandon(c)

\* It did not: on_timeout, which may give the connection up.
HandshakeTimeout(c) ==
  /\ hs[c] = "wait"
  /\ hs' = [hs EXCEPT ![c] = "send"]
  /\ conn' \in {conn, [conn EXCEPT ![c] = "closed"]}
  /\ UNCHANGED <<sendLoop, recvLoop, shut>>

-----------------------------------------------------------------------------
\* client_recv_loop: recv_from, then dispatcher.recv.  The loop ends when quiche
\* rejects the packet, when recv_from fails, and when the socket is shut down.
RecvPacket(c, kind) ==
  /\ recvLoop[c] = "run"
  /\ IF conn[c] \in {"open", "closing"} /\ kind # "good"
     THEN /\ conn' = [conn EXCEPT ![c] = IF kind = "close" THEN "draining" ELSE "closing"]
          /\ recvLoop' = [recvLoop EXCEPT ![c] = IF kind = "bad" THEN "done" ELSE "run"]
     ELSE UNCHANGED <<conn, recvLoop>>
  /\ UNCHANGED <<hs, sendLoop, shut>>

RecvLoopEnds(c) ==
  /\ recvLoop[c] = "run"
  /\ recvLoop' = [recvLoop EXCEPT ![c] = "done"]
  /\ UNCHANGED <<hs, conn, sendLoop, shut>>

\* Mutant of ShutdownSocket: the send loop ends and leaves the socket alone.
LeaveSocket(c) == UNCHANGED shut

ShutdownSocket(c) == shut' = shut \cup {c}

\* client_send_loop: the CONNECTION_CLOSE of a closing connection.
SendClose(c) ==
  /\ sendLoop[c] = "run" /\ conn[c] = "closing"
  /\ conn' = [conn EXCEPT ![c] = "draining"]
  /\ UNCHANGED <<hs, sendLoop, recvLoop, shut>>

\* The draining or the idle timeout, which dispatcher.send waits for.
TimesOut(c) ==
  /\ sendLoop[c] = "run" /\ conn[c] \in {"open", "draining"}
  /\ conn' = [conn EXCEPT ![c] = "closed"]
  /\ UNCHANGED <<hs, sendLoop, recvLoop, shut>>

\* dispatcher.send fails on a closed connection; the socket is shut down.
SendLoopEnds(c) ==
  /\ sendLoop[c] = "run" /\ conn[c] = "closed"
  /\ sendLoop' = [sendLoop EXCEPT ![c] = "done"]
  /\ ShutdownSocket(c)
  /\ UNCHANGED <<hs, conn, recvLoop>>

\* send_to fails: the loop ends and the connection is left as it is, with
\* nobody to drive it to its end.
SendToFails(c) ==
  /\ sendLoop[c] = "run" /\ conn[c] \in {"open", "closing"}
  /\ sendLoop' = [sendLoop EXCEPT ![c] = "done"]
  /\ conn' = [conn EXCEPT ![c] = IF @ = "closing" THEN "draining" ELSE @]
  /\ ShutdownSocket(c)
  /\ UNCHANGED <<hs, recvLoop>>

-----------------------------------------------------------------------------
Loops(c) == \/ (\E kind \in Datagrams : RecvPacket(c, kind)) \/ RecvLoopEnds(c)
            \/ SendClose(c) \/ TimesOut(c) \/ SendLoopEnds(c) \/ SendToFails(c)

Handshake(c) == \/ HandshakeSend(c) \/ HandshakeTimeout(c)
                \/ \E kind \in Datagrams : HandshakeRecv(c, kind)

ClientNext(c) == Handshake(c) \/ Loops(c)

ClientTypeOK ==
  /\ hs \in [Conns -> {"none", "send", "wait", "up", "failed"}]
  /\ conn \in [Conns -> {"handshaking", "open", "closing", "draining", "closed"}]
  /\ sendLoop \in [Conns -> {"none", "run", "done"}]
  /\ recvLoop \in [Conns -> {"none", "run", "done"}]
  /\ shut \subseteq Conns

\* The two loops end together: once one of them is over, or the connection is on
\* its way down, both end, whatever ends first and whatever the peer sends.  No
\* loop stays behind with the socket.
LoopsEnd ==
  \A c \in Conns :
    (hs[c] = "up" /\ (conn[c] # "open" \/ sendLoop[c] = "done" \/ recvLoop[c] = "done"))
      ~> (sendLoop[c] # "run" /\ recvLoop[c] # "run")
=============================================================================
