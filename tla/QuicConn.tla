------------------------------ MODULE QuicConn ------------------------------
(***************************************************************************)
(* One QUIC connection (crates/quic/src/conn.rs): the state behind         *)
(* Arc<Mutex<QuicConnState>> that the packet loops, the acceptor, the      *)
(* opener and the readers and writers of its streams share.                *)
(*                                                                         *)
(* Every method holds the mutex from its first to its last access, so each *)
(* is one action; the wakers it collects are called after the unlock,      *)
(* which commutes with everything else.  A waker is identified with the    *)
(* role of the task that stored it: one task sends packets, one accepts,   *)
(* one opens, and a stream has one reader and one writer.                  *)
(*                                                                         *)
(* quiche::Connection is external: its life cycle, whether it has a packet *)
(* to send, what each stream holds for its reader and writer.  Its events  *)
(* are edge-triggered: a stream is reported readable when it was not.      *)
(* They arise in recv alone and poll_recv drains them before it unlocks.   *)
(***************************************************************************)
EXTENDS Naturals, Sequences, FiniteSets, SequencesExt

CONSTANTS IsServer,      \* which end this is
          PeerStreams,   \* ids of the bidirectional streams the peer opens
          MaxOpened,     \* bound: streams opened locally
          InitialMaxStreams, \* initial_max_streams_bidi of the peer
          InOrder,       \* the peer's streams are first heard of in id order
          DropUnread,    \* streams may be dropped before they are read to the end
          CancelKinds    \* kinds of futures that may be dropped while pending

ASSUME IsServerAssumption == IsServer \in BOOLEAN
ASSUME MaxOpenedAssumption == MaxOpened \in Nat
ASSUME InitialMaxStreamsAssumption == InitialMaxStreams \in Nat
ASSUME FlagsAssumption == {InOrder, DropUnread} \subseteq BOOLEAN
ASSUME CancelKindsAssumption == CancelKinds \subseteq {"accept", "open", "read", "write"}

Parity == IF IsServer THEN 1 ELSE 0
is_local(id) == id % 2 = Parity
is_bidi(id)  == (id \div 2) % 2 = 0

ASSUME PeerStreamsAssumption ==
  /\ PeerStreams \subseteq {id \in Nat \ {0, 1} : ~is_local(id) /\ is_bidi(id)}
  /\ IsFiniteSet(PeerStreams)

\* Ids of the streams opened here: the first is 4 or 5, then steps of 4.
LocalStreams == {4 * n + Parity : n \in 1 .. MaxOpened}
Streams == PeerStreams \cup LocalStreams

Read(s)  == <<"read", s>>
Write(s) == <<"write", s>>
Send == <<"send", 0>>
Accept == <<"accept", 0>>
Open == <<"open", 0>>
StreamRoles == {Read(s) : s \in Streams} \cup {Write(s) : s \in Streams}
Roles == {Send, Accept, Open} \cup StreamRoles

VARIABLES
  \* quiche::Connection
  conn,     \* "open", "closing" (close called), "draining" or "closed"
  work,     \* send would produce a packet
  rx,       \* stream -> "absent", "empty", "data", "fin" (data and the end unread),
            \* "end" (the end alone unread) or "finished"
  writable, \* streams with room to write
  opened,   \* local_opened_streams_bidi
  maxStreams, \* the peer's limit on it
  \* QuicConnState
  next_id,  \* outbound_bidi_stream_id_next
  current,  \* inbound_stream_id_current
  fifo,     \* incoming_stream_id_fifo
  wakers,   \* roles whose waker is stored in one of the five waker fields
  timer,    \* on_timeout_timer: "none", "armed" or "expired"
  closing,  \* closing_stream_set
  \* the tasks
  handle,   \* stream -> "none", "held" or "dropped"
  parked,   \* roles whose last poll returned Pending
  woken,    \* roles whose waker was called since their last poll
  sendLoop  \* "polls" the connection, "sends" to the socket, is "stuck" there for
            \* ever, "failed" on an error, or is "over" after finalize_events

quiche == <<conn, work, rx, writable, opened, maxStreams>>
state  == <<next_id, current, fifo, wakers, timer, closing>>
tasks  == <<handle, parked, woken, sendLoop>>
vars   == <<quiche, state, tasks>>

-----------------------------------------------------------------------------
Init == /\ conn = "open" /\ work = FALSE
        /\ rx = [s \in Streams |-> "absent"] /\ writable = {}
        /\ opened = 0 /\ maxStreams = InitialMaxStreams
        /\ next_id = 4 + Parity
        /\ current = 0 /\ fifo = <<>> /\ wakers = {} /\ timer = "none" /\ closing = {}
        /\ handle = [s \in Streams |-> "none"]
        /\ parked = {} /\ woken = {} /\ sendLoop = "polls"

is_draining == conn = "draining"
is_closed == conn = "closed"
Ended == {"fin", "end"}
Readable(s) == rx[s] \in {"data"} \cup Ended
peer_streams_left_bidi == maxStreams - opened

\* A poll of role r that does not park / that parks with its waker stored.
Returns(r) == /\ parked' = parked \ {r} /\ woken' = woken \ {r}
Parks(r)   == /\ parked' = parked \cup {r} /\ woken' = woken \ {r}
              /\ wakers' = wakers \cup {r}

\* Mutant of Wake: the maps of stream wakers are emptied, not searched.
WakeDrains(R) == /\ wakers' = wakers \ (R \cup {r \in StreamRoles : R \cap StreamRoles # {}})
                 /\ woken' = woken \cup (R \cap wakers \cap parked)

\* Taking the stored wakers of the roles in R and calling them.  A task that is
\* not parked sees the change when it polls next.
Wake(R) == /\ wakers' = wakers \ R
           /\ woken' = woken \cup (R \cap wakers \cap parked)

\* Mutant of ReturnsAndWakesSend: the send loop is not told.
ReturnsQuietly(r) == Returns(r) /\ UNCHANGED wakers

\* A method that returns to role r and wakes the send loop.
ReturnsAndWakesSend(r) ==
  /\ parked' = parked \ {r}
  /\ wakers' = wakers \ {Send}
  /\ woken' = (woken \cup ({Send} \cap wakers \cap parked)) \ {r}

(***************************************************************************)
(* poll_conn_stat_events, given what quiche reports: streams that became   *)
(* readable (in ascending id order) or writable.  rcv is rx after the      *)
(* packet was processed, limit the stream limit after it.                  *)
(***************************************************************************)
LargestOf(S) == {s \in S : \A x \in S : x <= s}

\* Mutants of FirstSeen: the ids of a packet come in descending order, so that
\* the largest hides the others; a stream is new whenever it is readable; the
\* side that opened a stream is not looked at.
FirstSeenDescending(E) == LargestOf({s \in E : is_bidi(s) /\ ~is_local(s) /\ current < s})
FirstSeenAlways(E)     == {s \in E : is_bidi(s) /\ ~is_local(s)}
FirstSeenAnySide(E)    == {s \in E : is_bidi(s) /\ current < s}

FirstSeen(E) == {s \in E : is_bidi(s) /\ ~is_local(s) /\ current < s}

\* Mutant of Collected: poll_conn_stat_events does not look at dropped streams.
CollectedNever(E) == {}

\* What closing_recv leaves of a dropped stream's unread data.
closing_recv(r) == IF r \in Ended \cup {"finished"} THEN "finished" ELSE "empty"

\* Of the other readable streams, those that nobody reads and that were dropped.
Collected(E) == {s \in E : Read(s) \notin wakers} \cap closing

\* Mutant of Common: new stream credit wakes nobody.
CommonWithoutOpen(queue, left) == IF queue # <<>> THEN {Accept} ELSE {}

\* The tasks that need not be a stream's: accept for a filled queue, open for credit.
Common(queue, left) == (IF queue # <<>> THEN {Accept} ELSE {})
                         \cup (IF left > 0 THEN {Open} ELSE {})

\* The ids of a finite set, from the smallest on.
Ascending(S) ==
  CHOOSE q \in [1 .. Cardinality(S) -> S] :
    \A i, j \in 1 .. Cardinality(S) : i < j => q[i] < q[j]

StatEvents(E, W, rcv, limit, also) ==
  LET new     == FirstSeen(E)
      collect == Collected(E \ new)
      queue   == fifo \o Ascending(new)
  IN
  /\ fifo' = queue
  /\ current' = IF new = {} THEN current ELSE Max(new)
  /\ rx' = [s \in Streams |-> IF s \in collect THEN closing_recv(rcv[s]) ELSE rcv[s]]
  /\ closing' = {s \in closing : s \in collect => rx'[s] # "finished"}
  /\ Wake({Read(s) : s \in E \ new} \cup {Write(s) : s \in W}
            \cup Common(queue, limit - opened) \cup also)

-----------------------------------------------------------------------------
\* The peer may send on s: quiche knows the stream, or it is a new one of the
\* peer; S are the streams whose frames arrive together.
PeerMaySend(s, S) ==
  /\ rx[s] \notin Ended \cup {"finished"}
  /\ s \in LocalStreams => handle[s] # "none"
  /\ (s \in PeerStreams /\ rx[s] = "absent" /\ InOrder) =>
        \A x \in PeerStreams \ S : x < s => rx[x] # "absent"

(***************************************************************************)
(* poll_recv: one packet; recv fails on a draining or closed connection    *)
(* and changes nothing, the events are polled and the send loop is woken   *)
(* all the same.                                                           *)
(***************************************************************************)
Recv(E, W, rcv, limit) ==
  /\ work' = (work \/ conn \in {"open", "closing"})
  /\ maxStreams' = limit
  /\ writable' = writable \cup W
  /\ StatEvents(E, W, rcv, limit, {Send})
  /\ UNCHANGED <<opened, next_id, timer, handle, parked, sendLoop>>

\* One packet may carry frames of several streams; f is what they leave there to
\* read: a reset takes what was unread away.
RecvData(S, f) ==
  /\ conn \in {"open", "closing"}
  /\ \A s \in S : PeerMaySend(s, S)
  /\ Recv({s \in S : ~Readable(s)}, {},
          [s \in Streams |-> IF s \in S THEN f[s] ELSE rx[s]], maxStreams)
  /\ UNCHANGED conn

RecvWindow(s) ==
  /\ conn \in {"open", "closing"} /\ handle[s] # "none" /\ s \notin writable
  /\ Recv({}, {s}, rx, maxStreams)
  /\ UNCHANGED conn

RecvMaxStreams ==
  /\ conn \in {"open", "closing"} /\ maxStreams < MaxOpened + 1
  /\ Recv({}, {}, rx, maxStreams + 1)
  /\ UNCHANGED conn

RecvClose ==
  /\ conn \in {"open", "closing"}
  /\ conn' = "draining" /\ work' = FALSE
  /\ StatEvents({}, {}, rx, maxStreams, {Send})
  /\ UNCHANGED <<maxStreams, writable, opened, next_id, timer, handle, parked, sendLoop>>

RecvIgnored ==
  /\ conn \in {"draining", "closed"}
  /\ StatEvents({}, {}, rx, maxStreams, {Send})
  /\ UNCHANGED <<conn, work, maxStreams, writable, opened, next_id, timer,
                 handle, parked, sendLoop>>

(***************************************************************************)
(* poll_send.  on_timeout ends a draining connection; otherwise it may be  *)
(* the idle timeout, a probe to send, or nothing.                          *)
(***************************************************************************)
AfterTimeout(c) ==
  IF c.conn = "draining" THEN {[conn |-> "closed", work |-> FALSE]}
  ELSE {[conn |-> "closed", work |-> FALSE], [c EXCEPT !.work = TRUE], c}

HasPacket(c) == c.work /\ c.conn \in {"open", "closing"}

\* quiche after the timer at the start of poll_send and, if there is nothing to
\* send, after a new timer that has expired already.
BeforeSend ==
  LET first == IF timer = "expired" THEN AfterTimeout([conn |-> conn, work |-> work])
                                    ELSE {[conn |-> conn, work |-> work]}
  IN first \cup UNION {AfterTimeout(c) : c \in
                         {x \in first : ~HasPacket(x) /\ x.conn # "closed"}}

\* Mutant of Finalized: readers and writers are forgotten.
FinalizedAccept == {Accept}

\* finalize_events.
Finalized == {Accept} \cup StreamRoles

SendRuns == sendLoop = "polls" /\ (Send \in parked => Send \in woken)

\* The timer is taken, and with it the waker that polled it.
TimerTaken == IF timer = "none" THEN {} ELSE {Send}

PollSend ==
  /\ SendRuns
  /\ \E c \in BeforeSend :
       \/ /\ HasPacket(c)                       \* Ok: a packet for the socket
          /\ conn' = IF c.conn = "closing" THEN "draining" ELSE c.conn
          /\ work' \in (IF c.conn = "closing" THEN {FALSE} ELSE BOOLEAN)
          /\ timer' = "none"
          /\ parked' = parked \ {Send}
          /\ LET ready == Common(fifo, peer_streams_left_bidi)
             IN /\ wakers' = wakers \ (ready \cup TimerTaken)
                /\ woken' = (woken \cup (ready \cap wakers \cap parked)) \ {Send}
          /\ sendLoop' = "sends"
       \/ /\ ~HasPacket(c) /\ c.conn = "closed"  \* finalize_events, the loop ends
          /\ conn' = "closed" /\ work' = c.work
          /\ timer' = "none" /\ sendLoop' = "over"
          /\ parked' = parked \ {Send}
          /\ wakers' = wakers \ (Finalized \cup TimerTaken)
          /\ woken' = (woken \cup (Finalized \cap wakers \cap parked)) \ {Send}
       \/ /\ ~HasPacket(c) /\ c.conn # "closed"  \* Pending
          /\ conn' = c.conn /\ work' = c.work
          /\ timer' \in (IF c.conn = "draining" THEN {"armed"} ELSE {"armed", "none"})
          /\ Parks(Send)
          /\ UNCHANGED sendLoop
       \/ /\ c.conn \in {"open", "closing"}     \* Err: the loop ends as it is
          /\ conn' = c.conn /\ work' = c.work
          /\ timer' = "none" /\ sendLoop' = "failed"
          /\ parked' = parked \ {Send}
          /\ wakers' = wakers \ TimerTaken
          /\ woken' = woken \ {Send}
  /\ UNCHANGED <<rx, writable, opened, maxStreams, next_id, current, fifo, closing, handle>>

\* The packet is handed to the socket; a server's send task may stay in that
\* call for ever (ReactorIo: a direction that send tasks share loses a waker), and
\* an error ends the loop with no call of finalize_events.
AfterSocket(next) ==
  /\ sendLoop = "sends" /\ sendLoop' = next
  /\ UNCHANGED <<quiche, state, handle, parked, woken>>

SocketSends == AfterSocket("polls")
SocketFails == AfterSocket("failed")
SocketSticks == IsServer /\ AfterSocket("stuck")

\* The reactor wakes the task that polled the timer last.
TimerExpires ==
  /\ timer = "armed"
  /\ timer' = "expired"
  /\ woken' = woken \cup {Send}
  /\ UNCHANGED <<quiche, next_id, current, fifo, wakers, closing, handle, parked, sendLoop>>

-----------------------------------------------------------------------------
\* close, also called by Drop of QuicConn; "already closed" returns early.
Close ==
  /\ conn = "open"
  /\ conn' = "closing" /\ work' = TRUE
  /\ Wake({Send})
  /\ UNCHANGED <<rx, writable, opened, maxStreams, next_id, current, fifo, timer,
                 closing, handle, parked, sendLoop>>

PollAccept ==
  /\ \/ is_closed /\ Returns(Accept) /\ UNCHANGED <<fifo, wakers, handle>>
     \/ /\ ~is_closed /\ fifo # <<>>
        /\ fifo' = Tail(fifo)
        /\ handle' = [handle EXCEPT ![Head(fifo)] = "held"]
        /\ Returns(Accept) /\ UNCHANGED wakers
     \/ ~is_closed /\ fifo = <<>> /\ Parks(Accept) /\ UNCHANGED <<fifo, handle>>
  /\ UNCHANGED <<quiche, next_id, current, timer, closing, sendLoop>>

\* quiche creates the stream id if the peer's limit covers it and all below it.
Sequence(id) == (id - Parity) \div 4 + 1

\* Mutant of IdAfter: the step of bidirectional and unidirectional ids together.
IdAfterSkips(id) == id + 8

IdAfter(id) == id + 4

(***************************************************************************)
(* poll_stream_open and try_open (which does not park): the id is taken    *)
(* before stream_priority may fail.                                        *)
(***************************************************************************)
PollOpen(try) ==
  /\ next_id \in LocalStreams \/ peer_streams_left_bidi <= 0
  /\ \/ /\ peer_streams_left_bidi > 0
        /\ next_id' = IdAfter(next_id)
        /\ IF Sequence(next_id) <= maxStreams
           THEN /\ opened' = Max({opened, Sequence(next_id)})
                /\ handle' = [handle EXCEPT ![next_id] = "held"]
                /\ rx' = [rx EXCEPT ![next_id] = "empty"]
                /\ writable' = writable \cup {next_id}
           ELSE UNCHANGED <<opened, handle, rx, writable>>
        /\ Returns(Open) /\ UNCHANGED wakers
     \/ /\ peer_streams_left_bidi <= 0
        /\ IF try THEN Returns(Open) /\ UNCHANGED wakers ELSE Parks(Open)
        /\ UNCHANGED <<next_id, opened, handle, rx, writable>>
  /\ UNCHANGED <<conn, work, maxStreams, current, fifo, timer, closing, sendLoop>>

(***************************************************************************)
(* poll_stream_read by the holder of s, who stops after the end of stream. *)
(***************************************************************************)
PollRead(s) ==
  /\ handle[s] = "held" /\ rx[s] # "finished"
  /\ \/ /\ Readable(s)
        /\ rx' \in {rx, [rx EXCEPT ![s] = IF rx[s] \in Ended THEN "finished" ELSE "empty"]}
        /\ rx[s] = "end" => rx'[s] = "finished"
        /\ work' \in {work, work \/ (conn \in {"open", "closing"})}
        /\ ReturnsAndWakesSend(Read(s))
     \/ /\ rx[s] = "end"                       \* the peer reset the stream
        /\ rx' = [rx EXCEPT ![s] = "finished"]
        /\ Returns(Read(s)) /\ UNCHANGED <<work, wakers>>
     \/ /\ ~Readable(s) /\ (is_draining \/ is_closed)
        /\ Returns(Read(s)) /\ UNCHANGED <<rx, work, wakers>>
     \/ /\ ~Readable(s) /\ ~(is_draining \/ is_closed)
        /\ Parks(Read(s)) /\ UNCHANGED <<rx, work>>
  /\ UNCHANGED <<conn, writable, opened, maxStreams, next_id, current, fifo, timer,
                 closing, handle, sendLoop>>

\* poll_stream_write, with or without fin; a write may use up the room.
PollWrite(s) ==
  /\ handle[s] = "held"
  /\ \/ /\ s \in writable
        /\ writable' \in {writable, writable \ {s}}
        /\ work' = (work \/ conn \in {"open", "closing"})
        /\ ReturnsAndWakesSend(Write(s))
     \/ /\ s \in writable                      \* the peer stopped the stream
        /\ Returns(Write(s)) /\ UNCHANGED <<writable, work, wakers>>
     \/ /\ s \notin writable /\ (is_draining \/ is_closed)
        /\ Returns(Write(s)) /\ UNCHANGED <<writable, work, wakers>>
     \/ /\ s \notin writable /\ ~(is_draining \/ is_closed)
        /\ Parks(Write(s)) /\ UNCHANGED <<writable, work>>
  /\ UNCHANGED <<conn, rx, opened, maxStreams, next_id, current, fifo, timer,
                 closing, handle, sendLoop>>

(***************************************************************************)
(* Drop of a QuicStream: close_stream sends a fin and, if data is unread   *)
(* or the end has not come, leaves the stream to poll_conn_stat_events.    *)
(***************************************************************************)
DropStream(s) ==
  /\ handle[s] = "held" /\ {Read(s), Write(s)} \cap parked = {}
  /\ DropUnread \/ ~Readable(s)
  /\ handle' = [handle EXCEPT ![s] = "dropped"]
  /\ IF is_closed
     THEN UNCHANGED <<rx, work, closing, wakers, woken>>
     ELSE /\ work' = (work \/ conn \in {"open", "closing"})
          /\ IF rx[s] \in {"end", "finished"}
             THEN rx' = [rx EXCEPT ![s] = closing_recv(@)] /\ UNCHANGED closing
             ELSE closing' = closing \cup {s} /\ UNCHANGED rx
          /\ Wake({Send})
  /\ UNCHANGED <<conn, writable, opened, maxStreams, next_id, current, fifo, timer,
                 parked, sendLoop>>

\* A pending accept, open, read or write future is dropped; its waker stays.
Cancel(r) ==
  /\ r \in parked /\ r[1] \in CancelKinds
  /\ parked' = parked \ {r} /\ woken' = woken \ {r}
  /\ UNCHANGED <<quiche, state, handle, sendLoop>>

-----------------------------------------------------------------------------
Next == \/ \E S \in SUBSET Streams \ {{}} : \E f \in [S -> {"data"} \cup Ended] : RecvData(S, f)
        \/ \E s \in Streams : RecvWindow(s)
        \/ RecvMaxStreams \/ RecvClose \/ RecvIgnored
        \/ PollSend \/ SocketSends \/ SocketFails \/ SocketSticks
        \/ TimerExpires \/ Close \/ PollAccept
        \/ \E try \in BOOLEAN : PollOpen(try)
        \/ \E s \in Streams : PollRead(s) \/ PollWrite(s) \/ DropStream(s)
        \/ \E r \in Roles : Cancel(r)

Spec == Init /\ [][Next]_vars

\* The send loop runs when it is woken, the socket takes a packet unless it sticks
\* or fails, timers expire, and the executor polls a woken task.
Fairness == /\ WF_vars(PollSend) /\ WF_vars(SocketSends) /\ WF_vars(TimerExpires)
            /\ WF_vars(Accept \in woken /\ PollAccept)
            /\ \A s \in Streams : /\ WF_vars(Read(s) \in woken /\ PollRead(s))
                                  /\ WF_vars(Write(s) \in woken /\ PollWrite(s))

FairSpec == Spec /\ Fairness

-----------------------------------------------------------------------------
TypeOK == /\ conn \in {"open", "closing", "draining", "closed"} /\ work \in BOOLEAN
          /\ rx \in [Streams -> {"absent", "empty", "data", "fin", "end", "finished"}]
          /\ writable \subseteq Streams /\ opened \in Nat /\ maxStreams \in Nat
          /\ next_id \in Nat /\ current \in {0} \cup PeerStreams
          /\ fifo \in Seq(PeerStreams) /\ closing \subseteq Streams
          /\ wakers \subseteq Roles /\ timer \in {"none", "armed", "expired"}
          /\ handle \in [Streams -> {"none", "held", "dropped"}]
          /\ parked \subseteq Roles /\ woken \subseteq Roles
          /\ sendLoop \in {"polls", "sends", "stuck", "failed", "over"}

Asleep(r) == r \in parked \ woken

\* What a task of the connection waits for has not happened while it sleeps:
\* whatever a method or a packet adds (a packet to send, stream data, room to
\* write, a new stream, stream credit) wakes the task that waits for it.
NoLostWakeup ==
  /\ Asleep(Send) => ~(work /\ conn \in {"open", "closing"}) /\ timer # "expired"
  /\ Asleep(Accept) => fifo = <<>>
  /\ Asleep(Open) => peer_streams_left_bidi <= 0
  /\ \A s \in Streams : /\ Asleep(Read(s)) => ~Readable(s)
                        /\ Asleep(Write(s)) => s \notin writable

\* A sleeping task can be reached: its waker is stored where the next event or
\* finalize_events finds it.
SleepersAreKnown == \A r \in Roles : Asleep(r) => r \in wakers

\* The queue's doc (conn.rs:24, "fifo queue for first seen inbound stream
\* IDs"): a stream the peer has sent on was queued for accept.
EveryInboundOffered ==
  \A s \in PeerStreams : rx[s] # "absent" => s \in ToSet(fifo) \/ handle[s] # "none"

\* Accept hands out every inbound stream at most once, in the order of ids.
OfferedOnce ==
  /\ \A i, j \in DOMAIN fifo : i < j => fifo[i] < fifo[j]
  /\ \A i \in DOMAIN fifo : fifo[i] <= current /\ handle[fifo[i]] = "none"

\* A dropped stream that waits to be collected has nothing unread: otherwise no
\* further event reports it and its place under the peer's limit is lost.
ClosingIsCleared == \A s \in closing : ~Readable(s)

\* Quiche never counts more streams opened here than the peer allows, and once it
\* has counted one the id generator keeps in step with it: with credit left
\* stream_priority accepts the next id.  Before the first stream the ids may run
\* ahead, since a limit of one stream refuses the first id, the second of its kind.
NextIdInStep ==
  /\ opened <= maxStreams
  /\ opened = 0 \/ Sequence(next_id) = opened + 1

\* Once the connection is on its way down, the tasks that accept, read or write
\* are released, for good: the send loop comes to finalize_events and nobody parks
\* after it.  A send loop that failed or sticks in the socket never does.
ReleasedOnClose ==
  conn # "open" ~> \/ [](parked \cap ({Accept} \cup StreamRoles) = {})
                   \/ sendLoop \in {"failed", "stuck"}
=============================================================================
