----------------------------- MODULE QuicListener -----------------------------
(***************************************************************************)
(* The QUIC server (crates/quic/src/server.rs): QuicListenerDriver::run    *)
(* dispatches datagrams, one send task per connection drives it and cleans *)
(* up after it, and the user accepts connections from a bounded queue.     *)
(*                                                                         *)
(* The driver is one task; the send tasks and the user run on other        *)
(* threads.  The two tables are concurrent maps, so each access to one of  *)
(* them is a step.  A connection is an instance c of a connection id       *)
(* dcid[c]: the id can come again, because a retransmitted Initial with a  *)
(* valid token is accepted again once the id is not tracked.  What a       *)
(* datagram holds, and quiche, are external.                               *)
(***************************************************************************)
EXTENDS Naturals, Sequences, FiniteSets, SequencesExt

CONSTANTS Dcids,         \* connection ids
          MaxConns,      \* bound: instances accepted by quiche
          MaxActive,     \* max_active_conn_size
          QueueSize,     \* incoming_queue_size as given to the builder
          VerifyPeer,    \* verify_peer
          NoDcid, NoConn

ASSUME BoundsAssumption == /\ MaxConns \in Nat /\ MaxActive \in Nat
                           /\ QueueSize \in Nat \ {0}
ASSUME VerifyPeerAssumption == VerifyPeer \in BOOLEAN
ASSUME NoAssumption == NoDcid \notin Dcids /\ NoConn \notin 1 .. MaxConns

Conns == 1 .. MaxConns

VARIABLES
  handshaking,   \* handshaking_conn_set
  conn_set,      \* quiche_conn_set: dcid -> instance
  incoming,      \* the mpsc queue of QuicConn, by instance
  listening,     \* the user holds the QuicListener
  pc,            \* the driver: "recv", "found", "dispatched", "leave", "deliver", "track"
                 \* or "stopped"
  cur,           \* the instance whose packet is dispatched
  new,           \* the id of the connection being admitted
  dcid,          \* instance -> id, for the instances that exist
  phase,         \* instance -> "handshaking", "established", "closing", "closed", or
                 \* "failed" (closed before it was established)
  task,          \* instance -> send task "run", "stuck" (it never goes on), "cleanup"
                 \* or "done"
  handles,       \* instance -> QuicConn objects created for it
  dropped        \* instances whose QuicConn was dropped

vars == <<handshaking, conn_set, incoming, listening, pc, cur, new,
          dcid, phase, task, handles, dropped>>

driver == <<pc, cur, new>>
tables == <<handshaking, conn_set>>

Exists(c) == c \in DOMAIN dcid
Tracked(c) == Exists(c) /\ dcid[c] \in DOMAIN conn_set /\ conn_set[dcid[c]] = c

\* The send task of c has not left conn_send_loop.
Sending(c) == Exists(c) /\ task[c] \in {"run", "stuck"}

Over == {"closed", "failed"}

\* Mutant of incoming_queue_size: the value is stored as it was given.
StoredAsGiven(value) == value

\* The builder's setter.
incoming_queue_size(value) == value - 1

\* The channel holds what it was made for and one more for its sender, the driver.
Capacity == incoming_queue_size(QueueSize) + 1

\* Mutant of DropConns: dropping a QuicConn does not close it.
DropConnsOnly(S) == dropped' = dropped \cup S /\ UNCHANGED phase

\* Drop of QuicConn: close(), unless the connection is on its way down.
DropConns(S) ==
  /\ dropped' = dropped \cup S
  /\ phase' = [c \in DOMAIN phase |->
                 IF c \in S /\ phase[c] \notin Over THEN "closing" ELSE phase[c]]

-----------------------------------------------------------------------------
Init == /\ handshaking = {}
        /\ conn_set = [d \in {} |-> NoConn]
        /\ incoming = <<>> /\ listening = TRUE
        /\ pc = "recv" /\ cur = NoConn /\ new = NoDcid
        /\ dcid = <<>> /\ phase = <<>> /\ task = <<>> /\ handles = <<>>
        /\ dropped = {}

\* run: a datagram for a tracked id; the lookup clones the dispatcher.
RecvKnown(d) ==
  /\ pc = "recv" /\ d \in DOMAIN conn_set
  /\ pc' = "found" /\ cur' = conn_set[d]
  /\ UNCHANGED <<tables, incoming, listening, new, dcid, phase, task, handles, dropped>>

\* dispatcher.recv: the packet may complete the handshake.
Dispatch ==
  /\ pc = "found"
  /\ \/ /\ phase[cur] = "handshaking"
        /\ phase' = [phase EXCEPT ![cur] = "established"]
     \/ UNCHANGED phase
  /\ pc' = "dispatched"
  /\ UNCHANGED <<tables, incoming, listening, cur, new, dcid, task, handles, dropped>>

\* Only a packet makes it true, and it stays true when the connection goes down
\* afterwards: the send task does not change it.
is_established(c) == phase[c] \notin {"handshaking", "failed"}

\* run: whether the id is in the handshaking set and the connection established.
TestHandshaking ==
  /\ pc = "dispatched"
  /\ IF dcid[cur] \in handshaking /\ is_established(cur)
     THEN pc' = "leave" /\ UNCHANGED cur
     ELSE pc' = "recv" /\ cur' = NoConn
  /\ UNCHANGED <<tables, incoming, listening, new, dcid, phase, task, handles, dropped>>

\* Mutant of LeavesSet: the id stays in the handshaking set.
StaysInSet(d) == UNCHANGED handshaking

LeavesSet(d) == handshaking' = handshaking \ {d}

\* run: the id leaves the handshaking set, where the send task may have been first.
LeaveHandshaking ==
  /\ pc = "leave" /\ pc' = "deliver"
  /\ LeavesSet(dcid[cur])
  /\ UNCHANGED <<conn_set, incoming, listening, cur, new, dcid, phase, task, handles, dropped>>

(***************************************************************************)
(* run: a QuicConn is made for the connection and offered to the queue.    *)
(* It is dropped if the peer has no certificate or the queue is full; if   *)
(* the receiver is gone the driver ends.                                   *)
(***************************************************************************)
Deliver(cert) ==
  /\ pc = "deliver"
  /\ handles' = [handles EXCEPT ![cur] = @ + 1]
  /\ LET refused == VerifyPeer /\ ~cert
         full == Len(incoming) = Capacity
     IN IF ~refused /\ listening /\ ~full
        THEN incoming' = Append(incoming, cur) /\ UNCHANGED <<phase, dropped>>
        ELSE DropConns({cur}) /\ UNCHANGED incoming
  /\ pc' = IF ~listening /\ (VerifyPeer => cert) THEN "stopped" ELSE "recv"
  /\ cur' = NoConn
  /\ UNCHANGED <<tables, listening, new, dcid, task>>

\* Mutant of HasRoom: off by one.
HasRoomForOneMore == Cardinality(DOMAIN conn_set) <= MaxActive

HasRoom == Cardinality(DOMAIN conn_set) < MaxActive

\* Mutant of TableKey: the id was moved out of the header before it is used again.
TableKeyMoved(d) == NoDcid

TableKey(d) == d

(***************************************************************************)
(* initial, for an Initial packet of an untracked id with a valid token    *)
(* (without one the driver only answers or ignores): quiche accepts it,    *)
(* and unless too many connections are tracked it starts handshaking.  A   *)
(* server is never established by the first datagram of its client.        *)
(***************************************************************************)
Admit(d) ==
  /\ pc = "recv" /\ d \notin DOMAIN conn_set
  /\ Len(dcid) < MaxConns
  /\ HasRoom
  /\ handshaking' = handshaking \cup {d}
  /\ pc' = "track" /\ new' = d
  /\ UNCHANGED <<conn_set, incoming, listening, cur, dcid, phase, task, handles, dropped>>

\* initial: the dispatcher enters the table and its send task is spawned.
Track ==
  LET c == Len(dcid) + 1 IN
  /\ pc = "track"
  /\ conn_set' = [d \in DOMAIN conn_set \cup {TableKey(new)} |->
                    IF d = TableKey(new) THEN c ELSE conn_set[d]]
  /\ dcid' = Append(dcid, new)
  /\ phase' = Append(phase, "handshaking")
  /\ task' = Append(task, "run")
  /\ handles' = Append(handles, 0)
  /\ pc' = "recv" /\ new' = NoDcid
  /\ UNCHANGED <<handshaking, incoming, listening, cur, dropped>>

\* run: recv of the sockets or the header parser fails, or the send of a retry
\* or version packet; the driver ends.
DriverFails ==
  /\ pc = "recv"
  /\ pc' = "stopped"
  /\ UNCHANGED <<tables, incoming, listening, cur, new, dcid, phase, task, handles, dropped>>

-----------------------------------------------------------------------------
(***************************************************************************)
(* conn_send_loop: a datagram goes out through the UdpGroupSender that all *)
(* send tasks share, so that another of them can take this one's place in  *)
(* the socket's entry (reactor.rs:433) and it is never notified again, or  *)
(* it panics (reactor.rs:482): NotifiedWhenReady and NoPanic of ReactorIo. *)
(***************************************************************************)
SendSticks(c) ==
  /\ Exists(c) /\ task[c] = "run"
  /\ task' = [task EXCEPT ![c] = "stuck"]
  /\ UNCHANGED <<tables, incoming, listening, driver, dcid, phase, handles, dropped>>

\* The connection ends: peer, draining or idle timeout; the send task drives it.
ConnCloses(c) ==
  /\ Exists(c) /\ task[c] = "run" /\ phase[c] \notin Over
  /\ phase' = [phase EXCEPT ![c] = IF @ = "handshaking" THEN "failed" ELSE "closed"]
  /\ UNCHANGED <<tables, incoming, listening, driver, dcid, task, handles, dropped>>

ForgetHandshaking(d) == handshaking' = handshaking \ {d} /\ UNCHANGED conn_set
ForgetConn(d) == /\ conn_set' = [x \in DOMAIN conn_set \ {d} |-> conn_set[x]]
                 /\ UNCHANGED handshaking

\* Mutant of Cleanup: the two removals are swapped.
CleanupSwapped(step, d) == IF step = 1 THEN ForgetConn(d) ELSE ForgetHandshaking(d)

\* Mutant of Cleanup: the handshaking set is left alone.
CleanupTableOnly(step, d) == IF step = 1 THEN UNCHANGED tables ELSE ForgetConn(d)

\* The two removals of the send task, in the order of the code.
Cleanup(step, d) == IF step = 1 THEN ForgetHandshaking(d) ELSE ForgetConn(d)

\* The send task leaves conn_send_loop, because the connection is closed or a
\* send on the socket failed, and removes the id from the handshaking set ...
SendTaskEnds(c) ==
  /\ Exists(c) /\ task[c] = "run"
  /\ task' = [task EXCEPT ![c] = "cleanup"]
  /\ Cleanup(1, dcid[c])
  /\ UNCHANGED <<incoming, listening, driver, dcid, phase, handles, dropped>>

\* ... then from the table.
Untrack(c) ==
  /\ Exists(c) /\ task[c] = "cleanup"
  /\ task' = [task EXCEPT ![c] = "done"]
  /\ Cleanup(2, dcid[c])
  /\ UNCHANGED <<incoming, listening, driver, dcid, phase, handles, dropped>>

-----------------------------------------------------------------------------
\* QuicListener::accept.
UserAccepts ==
  /\ listening /\ incoming # <<>>
  /\ incoming' = Tail(incoming)
  /\ UNCHANGED <<tables, listening, driver, dcid, phase, task, handles, dropped>>

UserDrops(c) ==
  /\ Exists(c) /\ handles[c] > 0 /\ c \notin ToSet(incoming) /\ c \notin dropped
  /\ DropConns({c})
  /\ UNCHANGED <<tables, incoming, listening, driver, dcid, task, handles>>

\* The QuicListener goes, and with it the connections nobody accepted.
DropListener ==
  /\ listening /\ listening' = FALSE
  /\ DropConns(ToSet(incoming))
  /\ incoming' = <<>>
  /\ UNCHANGED <<tables, driver, dcid, task, handles>>

Next == \/ \E d \in Dcids : RecvKnown(d) \/ Admit(d)
        \/ Dispatch \/ TestHandshaking \/ LeaveHandshaking \/ Track \/ DriverFails
        \/ \E cert \in BOOLEAN : Deliver(cert)
        \/ \E c \in Conns : \/ SendSticks(c) \/ ConnCloses(c) \/ SendTaskEnds(c)
                            \/ Untrack(c) \/ UserDrops(c)
        \/ UserAccepts \/ DropListener

Spec == Init /\ [][Next]_vars

Running(c, P) == Exists(c) /\ task[c] = "run" /\ phase[c] \in P

\* A send task that is not stuck comes back to its connection after each datagram:
\* one that is closing ends within the draining timeout (QuicConn!ReleasedOnClose),
\* and one that has ended ends the loop.  Nothing is assumed of a stuck task.
Fairness == \A c \in Conns :
              /\ WF_vars(Running(c, {"closing"}) /\ ConnCloses(c))
              /\ WF_vars(Running(c, Over) /\ SendTaskEnds(c))
              /\ WF_vars(Untrack(c))

FairSpec == Spec /\ Fairness

-----------------------------------------------------------------------------
TypeOK == /\ handshaking \subseteq Dcids
          /\ DOMAIN conn_set \subseteq Dcids /\ conn_set \in [DOMAIN conn_set -> Conns]
          /\ incoming \in Seq(Conns) /\ listening \in BOOLEAN
          /\ pc \in {"recv", "found", "dispatched", "leave", "deliver", "track", "stopped"}
          /\ cur \in Conns \cup {NoConn} /\ new \in Dcids \cup {NoDcid}
          /\ dcid \in Seq(Dcids) /\ Len(dcid) <= MaxConns
          /\ phase \in [DOMAIN dcid -> {"handshaking", "established", "closing"} \cup Over]
          /\ task \in [DOMAIN dcid -> {"run", "stuck", "cleanup", "done"}]
          /\ handles \in [DOMAIN dcid -> Nat] /\ dropped \subseteq Conns

\* The server never tracks more connections than max_active_conn_size, nor
\* queues more than incoming_queue_size, however its tasks interleave.
Limits == /\ Cardinality(DOMAIN conn_set) <= MaxActive
          /\ Len(incoming) <= QueueSize

\* A connection whose send task runs is the one its id leads to: packets reach
\* it, and the cleanup of an earlier connection of the same id, running late,
\* does not remove it.  Nothing stays behind in the handshaking set: an id in it
\* is tracked, or just being admitted.
TablesAgree ==
  /\ \A c \in Conns : Exists(c) /\ task[c] # "done" => Tracked(c)
  /\ \A d \in handshaking : d \in DOMAIN conn_set \/ (pc = "track" /\ new = d)

\* A live connection is still handshaking, or is being delivered, or was given
\* to the queue or dropped: none becomes established without anybody knowing.
NoOrphan ==
  \A c \in Conns : Sending(c) =>
    \/ dcid[c] \in handshaking
    \/ pc \in {"leave", "deliver"} /\ cur = c
    \/ handles[c] > 0

\* A connection is delivered once: two QuicConn objects for one connection
\* would close it under each other.
DeliveredOnce ==
  \A c \in Conns : Exists(c) => /\ handles[c] <= 1
                                /\ (pc = "deliver" /\ cur = c) => handles[c] = 0

\* The promise of server.rs:562-566: dropping a QuicConn stops its send task
\* and removes it from the tracking table, unless that task is stuck in the send
\* of the shared socket, in which case the connection keeps its place for ever.
DroppedIsRemoved ==
  \A c \in Conns : c \in dropped ~> \/ Exists(c) /\ task[c] = "done" /\ ~Tracked(c)
                                    \/ Exists(c) /\ task[c] = "stuck"
=============================================================================
