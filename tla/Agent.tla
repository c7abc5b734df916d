-------------------------------- MODULE Agent --------------------------------
(***************************************************************************)
(* The agent (crates/agent/src/lib.rs): Agent::bind accepts one inbound    *)
(* TCP connection at a time, QuicPool::connect finds it a stream, on a     *)
(* pooled connection or on a new one, and two tasks copy (see Tunnel).     *)
(* The accept loop is one task; the loops of the connections run beside    *)
(* it, so that a connection may go down between any two of its steps.      *)
(***************************************************************************)
EXTENDS QuicClient

CONSTANTS InitialMaxStreams,  \* initial_max_streams_bidi of n3
          NoConn

\* The first stream opened has the second id of its kind and needs a limit of
\* two; with no credit at all conn.open() would never return.
ASSUME InitialMaxStreamsAssumption == InitialMaxStreams \in Nat \ {0, 1}
ASSUME NoConnAssumption == NoConn \notin Conns

VARIABLES
  acc,      \* the accept loop: "accept", "scan", "connect", "connecting", "open" or "ended"
  pool,     \* QuicPool.conns
  todo,     \* pooled connections the scan has not looked at
  dead,     \* those it found closed
  found,    \* the connection it opened a stream on, or NoConn
  cur,      \* the connection being made, or NoConn
  left,     \* connection -> peer_streams_left_bidi
  tunnels,  \* connection -> streams in use
  owed      \* connection -> ended streams n3 has not given credit for

agent == <<acc, pool, todo, dead, found, cur>>
streams == <<left, tunnels, owed>>
vars == <<client, agent, streams>>

Init == /\ ClientInit
        /\ acc = "accept" /\ pool = {} /\ todo = {} /\ dead = {}
        /\ found = NoConn /\ cur = NoConn
        /\ left = [c \in Conns |-> InitialMaxStreams]
        /\ tunnels = [c \in Conns |-> 0] /\ owed = tunnels

-----------------------------------------------------------------------------
\* Mutant of HasCredit: off by one.
HasCreditForOneMore(c) == left[c] >= 0

HasCredit(c) == left[c] > 0

\* The first stream of a connection has the second id: the first is used up too.
TakeCredit(c) ==
  left' = [left EXCEPT ![c] = @ - (IF @ = InitialMaxStreams THEN 2 ELSE 1)]

\* Mutant of DropConns: dropping a QuicConn does not close it.
DropConnsOnly(S) == UNCHANGED conn

\* Drop of QuicConn: close(), which does nothing to one that is already down.
DropConns(S) ==
  conn' = [c \in Conns |-> IF c \in S /\ conn[c] = "open" THEN "closing" ELSE conn[c]]

\* listener.accept, then QuicPool::connect goes through the pool.
Accept ==
  /\ acc = "accept" /\ acc' = "scan" /\ todo' = pool
  /\ UNCHANGED <<client, pool, dead, found, cur, streams>>

\* listener.accept fails: the agent ends and the pool with it.
AcceptFails ==
  /\ acc = "accept" /\ acc' = "ended"
  /\ DropConns(pool) /\ pool' = {}
  /\ UNCHANGED <<hs, sendLoop, recvLoop, shut, todo, dead, found, cur, streams>>

\* Mutant of IsDead: a connection without credit counts as broken.
IsDeadOrBusy(c) == is_closed(c) \/ left[c] = 0

\* try_open cannot fail but for want of credit: a connection is pooled with a
\* stream open, and then credit covers the next id (NextIdInStep of QuicConn).
IsDead(c) == is_closed(c)

\* One connection of the pool: it is closed, or a stream was found already, or
\* try_open gives one, or there is no credit.
Scan(c) ==
  /\ acc = "scan" /\ c \in todo /\ todo' = todo \ {c}
  /\ \/ /\ IsDead(c) /\ dead' = dead \cup {c}
        /\ UNCHANGED <<found, left>>
     \/ /\ ~IsDead(c) /\ found = NoConn /\ HasCredit(c)
        /\ found' = c /\ TakeCredit(c)
        /\ UNCHANGED dead
     \/ /\ ~IsDead(c) /\ (found # NoConn \/ ~HasCredit(c))
        /\ UNCHANGED <<dead, found, left>>
  /\ UNCHANGED <<client, acc, pool, cur, tunnels, owed>>

\* Closed connections leave the pool; a stream goes to its tunnel.
ScanDone ==
  /\ acc = "scan" /\ todo = {}
  /\ pool' = pool \ dead /\ DropConns(dead) /\ dead' = {}
  /\ found' = NoConn
  /\ IF found # NoConn
     THEN acc' = "accept" /\ tunnels' = [tunnels EXCEPT ![found] = @ + 1]
     ELSE acc' = "connect" /\ UNCHANGED tunnels
  /\ UNCHANGED <<hs, sendLoop, recvLoop, shut, todo, cur, left, owed>>

\* connector.connect, or its socket cannot be had and the inbound is refused.
StartConnect ==
  /\ acc = "connect"
  /\ \/ \E c \in Conns : Connect(c) /\ cur' = c /\ acc' = "connecting"
     \/ acc' = "accept" /\ UNCHANGED <<client, cur>>
  /\ UNCHANGED <<pool, todo, dead, found, streams>>

\* Mutant of GiveUp: connect without the timeout.
NeverGiveUp(c) == FALSE /\ UNCHANGED client

\* The five seconds are over: the future is dropped where it waits.
GiveUp(c) == hs[c] \in {"send", "wait"} /\ Abandon(c)

ConnectTimeout ==
  /\ acc = "connecting" /\ GiveUp(cur)
  /\ UNCHANGED <<agent, streams>>

\* connect returns: the inbound is refused, or a stream is opened next.
Connected ==
  /\ acc = "connecting"
  /\ \/ hs[cur] = "up" /\ acc' = "open" /\ UNCHANGED cur
     \/ hs[cur] = "failed" /\ acc' = "accept" /\ cur' = NoConn
  /\ UNCHANGED <<client, pool, todo, dead, found, streams>>

\* conn.open, which waits for credit without a timeout; then the connection
\* enters the pool.
Open ==
  /\ acc = "open" /\ HasCredit(cur)
  /\ TakeCredit(cur) /\ tunnels' = [tunnels EXCEPT ![cur] = @ + 1]
  /\ pool' = pool \cup {cur}
  /\ acc' = "accept" /\ cur' = NoConn
  /\ UNCHANGED <<client, todo, dead, found, owed>>

-----------------------------------------------------------------------------
\* A tunnel ends (see Tunnel) ...
TunnelOver(c) ==
  /\ tunnels[c] > 0
  /\ tunnels' = [tunnels EXCEPT ![c] = @ - 1] /\ owed' = [owed EXCEPT ![c] = @ + 1]
  /\ UNCHANGED <<client, agent, left>>

\* ... and n3, a quiche server, gives credit for another stream, never for more.
CreditBack(c) ==
  /\ owed[c] > 0 /\ conn[c] = "open" /\ recvLoop[c] = "run" /\ sendLoop[c] = "run"
  /\ owed' = [owed EXCEPT ![c] = @ - 1] /\ left' = [left EXCEPT ![c] = @ + 1]
  /\ UNCHANGED <<client, agent, tunnels>>

\* The last reference to a connection is gone: its name is used for another.
Forget(c) ==
  /\ c \notin pool /\ c # cur /\ tunnels[c] = 0
  /\ hs[c] = "failed" \/ (hs[c] = "up" /\ sendLoop[c] = "done" /\ recvLoop[c] = "done")
  /\ hs' = [hs EXCEPT ![c] = "none"] /\ conn' = [conn EXCEPT ![c] = "closed"]
  /\ shut' = shut \ {c}
  /\ sendLoop' = [sendLoop EXCEPT ![c] = "none"]
  /\ recvLoop' = [recvLoop EXCEPT ![c] = "none"]
  /\ left' = [left EXCEPT ![c] = InitialMaxStreams] /\ owed' = [owed EXCEPT ![c] = 0]
  /\ UNCHANGED <<agent, tunnels>>

Next == \/ Accept \/ AcceptFails \/ ScanDone \/ StartConnect
        \/ ConnectTimeout \/ Connected \/ Open
        \/ \E c \in Conns : \/ Scan(c) \/ TunnelOver(c) \/ CreditBack(c) \/ Forget(c)
                            \/ ClientNext(c) /\ UNCHANGED <<agent, streams>>

Spec == Init /\ [][Next]_vars

(***************************************************************************)
(* The accept loop and the loops of a connection run; the timers they wait *)
(* for expire.  Once nothing more is received a connection is closed by    *)
(* its idle timeout (max_idle_timeout of agent/src/bin/n3agent.rs).        *)
(***************************************************************************)
Runs(A) == A /\ UNCHANGED <<agent, streams>>

Fairness ==
  /\ WF_vars(ScanDone \/ StartConnect \/ Connected \/ Open \/ \E c \in Conns : Scan(c))
  /\ WF_vars(ConnectTimeout)
  /\ \A c \in Conns :
       /\ WF_vars(Runs(SendClose(c) \/ SendLoopEnds(c)))
       /\ WF_vars(Runs(c \in shut /\ RecvLoopEnds(c)))
       /\ WF_vars(Runs((conn[c] = "draining" \/ recvLoop[c] = "done") /\ TimesOut(c)))

FairSpec == Spec /\ Fairness

-----------------------------------------------------------------------------
TypeOK == /\ ClientTypeOK
          /\ acc \in {"accept", "scan", "connect", "connecting", "open", "ended"}
          /\ pool \subseteq Conns /\ todo \subseteq pool /\ dead \subseteq pool
          /\ found \in Conns \cup {NoConn} /\ cur \in Conns \cup {NoConn}
          /\ left \in [Conns -> 0 .. InitialMaxStreams]
          /\ tunnels \in [Conns -> Nat] /\ owed \in [Conns -> Nat]

\* A connection that is alive and driven is known to the agent, in the pool or
\* in the hand of connect: none goes on without anybody able to open a stream
\* on it or close it, whatever fails or times out while it is made.
NoConnLeak ==
  \A c \in Conns : hs[c] = "up" /\ conn[c] = "open" /\ sendLoop[c] = "run" =>
    c \in pool \/ c = cur

\* Removing a connection from the pool closes it under its tunnels; while the
\* agent runs this happens only to connections that are closed: one that is out
\* of credit, or that closes during the scan, is not confused with them.
OnlyClosedRemoved ==
  [][\A c \in pool \ pool' : conn[c] = "closed" \/ acc' = "ended"]_vars

\* Every inbound connection gets a stream or is refused, and the accept loop
\* turns to the next: silence of the server cannot stop it.
InboundAnswered == acc # "accept" ~> acc \in {"accept", "ended"}
=============================================================================
