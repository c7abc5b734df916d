-------------------------------- MODULE Tunnel --------------------------------
(***************************************************************************)
(* One tunnel from end to end: an application's TCP connection to the      *)
(* agent (crates/agent/src/lib.rs), a QUIC stream from the agent to n3     *)
(* (crates/n3/src/lib.rs), and n3's TCP connection to the service.  At     *)
(* each hop two tasks run copy (crates/n3io/src/copy.rs), one per          *)
(* direction, and close what they wrote to.                                *)
(*                                                                         *)
(* A direction is named by the hop where its bytes come in, an application *)
(* by the hop it is connected to.  Bytes are the numbers 1, 2, ... in the  *)
(* order in which the application writes them.  Along a direction they     *)
(* pass the six places of at[d]; copy k moves them from place 2k - 1       *)
(* through its buffer 2k to place 2k + 1.  That a sleeping reader or       *)
(* writer is woken is shown in ReactorIo and QuicConn; here a task takes   *)
(* the step whenever it can.                                               *)
(***************************************************************************)
EXTENDS Naturals, Sequences, SequencesExt

CONSTANTS TcpCap,    \* bytes a TCP socket holds in one direction
          QuicCap,   \* bytes the flow control window of a stream admits
          BufSize,   \* max_send_payload_size of copy
          MaxSent    \* bound: bytes the application of a hop writes

Hops == {"agent", "n3"}

ASSUME CapAssumption == {TcpCap, QuicCap, BufSize} \subseteq Nat \ {0}
ASSUME MaxSentAssumption == MaxSent \in [Hops -> Nat]

Other(h) == IF h = "agent" THEN "n3" ELSE "agent"

\* The places of a direction.
TcpIn == 1
Buf1 == 2
Stream == 3
Buf2 == 4
TcpOut == 5
Received == 6

VARIABLES
  at,      \* direction -> place -> the bytes there
  sent,    \* direction -> all bytes its application wrote
  fin,     \* direction -> end of the stream: "no", "sent", "read" or "swallowed"
  pc,      \* direction -> copy 1 and 2: "none", "read", "write", "close", "stuck", "done"
  app,     \* hop -> its application: "absent", "open", "half", "closed" or "reset"
  eof,     \* directions whose end the receiving application has seen
  lost,    \* hops where the QUIC connection is draining or closed
  kept     \* directions where a dropped stream keeps what it had to read

vars == <<at, sent, fin, pc, app, eof, lost, kept>>

Init == /\ at = [d \in Hops |-> [i \in 1 .. 6 |-> <<>>]]
        /\ sent = [d \in Hops |-> <<>>]
        /\ fin = [d \in Hops |-> "no"]
        /\ pc = [d \in Hops |-> [k \in 1 .. 2 |-> IF (d = "agent") = (k = 1)
                                                   THEN "read" ELSE "none"]]
        /\ app = [h \in Hops |-> IF h = "agent" THEN "open" ELSE "absent"]
        /\ eof = {} /\ lost = {} /\ kept = {}

-----------------------------------------------------------------------------
Up(h) == app[h] \in {"open", "half"}

\* TcpStreamWriter::poll_close has shut the socket down, both ways.
IsShut(h) == pc[Other(h)][2] = "done"

\* The tasks of hop h are over: both halves of its socket and stream are dropped.
IsGone(h) == pc[h][1] = "done" /\ pc[Other(h)][2] = "done"

\* The first n bytes of place i move on to the next.
Move(d, i, n) ==
  at' = [at EXCEPT ![d][i] = SubSeq(@, n + 1, Len(@)),
                   ![d][i + 1] = @ \o SubSeq(at[d][i], 1, n)]

Discard(d, i) == at' = [at EXCEPT ![d][i] = <<>>]

Goto(d, k, label) == pc' = [pc EXCEPT ![d][k] = label]

AtMost(d, i, room) == 1 .. (IF Len(at[d][i]) <= room THEN Len(at[d][i]) ELSE room)

-----------------------------------------------------------------------------
(***************************************************************************)
(* The applications.  A socket that was shut down both ways, or closed,    *)
(* answers more data with a reset.                                         *)
(***************************************************************************)
AppSend(h) ==
  /\ app[h] = "open" /\ Len(sent[h]) < MaxSent[h]
  /\ sent' = [sent EXCEPT ![h] = Append(@, Len(@) + 1)]
  /\ IF IsShut(h)
     THEN app' = [app EXCEPT ![h] = "reset"] /\ UNCHANGED at
     ELSE /\ Len(at[h][TcpIn]) < TcpCap
          /\ at' = [at EXCEPT ![h][TcpIn] = Append(@, Len(sent[h]) + 1)]
          /\ UNCHANGED app
  /\ UNCHANGED <<fin, pc, eof, lost, kept>>

AppRecv(h) ==
  /\ Up(h) /\ at[Other(h)][TcpOut] # <<>>
  /\ Move(Other(h), TcpOut, 1)
  /\ UNCHANGED <<sent, fin, pc, app, eof, lost, kept>>

AppEof(h) ==
  /\ Up(h) /\ at[Other(h)][TcpOut] = <<>> /\ IsShut(h)
  /\ eof' = eof \cup {Other(h)}
  /\ UNCHANGED <<at, sent, fin, pc, app, lost, kept>>

AppShutdown(h) ==
  /\ app[h] = "open" /\ app' = [app EXCEPT ![h] = "half"]
  /\ UNCHANGED <<at, sent, fin, pc, eof, lost, kept>>

\* Closing with unread data resets the connection.
AppClose(h) ==
  /\ Up(h)
  /\ app' = [app EXCEPT ![h] = IF at[Other(h)][TcpOut] = <<>> THEN "closed" ELSE "reset"]
  /\ Discard(Other(h), TcpOut)
  /\ UNCHANGED <<sent, fin, pc, eof, lost, kept>>

AppReset(h) ==
  /\ Up(h)
  /\ app' = [app EXCEPT ![h] = "reset"]
  /\ Discard(Other(h), TcpOut)
  /\ UNCHANGED <<sent, fin, pc, eof, lost, kept>>

\* The QUIC connection of a hop goes down: a close, an error or the idle timeout.
LoseConn(h) ==
  /\ h \notin lost /\ lost' = lost \cup {h}
  /\ UNCHANGED <<at, sent, fin, pc, app, eof, kept>>

\* When both tasks of a hop are done the stream is dropped, too.  What quiche has
\* reported of direction d before, and nobody read, is not reported again; of what
\* is still under way the next packet tells.
DropStream(d) ==
  \/ UNCHANGED kept
  \/ at[d][Stream] # <<>> /\ kept' = kept \cup {d}

-----------------------------------------------------------------------------
(***************************************************************************)
(* redirect_loop and create_channel of n3.  Opening a stream sends         *)
(* nothing: n3 hears of it with its first bytes or its end.  If the        *)
(* service does not answer, dropping the stream sends a fin.               *)
(***************************************************************************)
CreateChannel ==
  /\ pc["agent"][2] = "none" /\ "n3" \notin lost
  /\ at["agent"][Stream] # <<>> \/ fin["agent"] = "sent"
  /\ \/ /\ pc' = [pc EXCEPT !["agent"][2] = "read", !["n3"][1] = "read"]
        /\ app' = [app EXCEPT !["n3"] = "open"]
        /\ UNCHANGED <<fin, kept>>
     \/ /\ pc' = [pc EXCEPT !["agent"][2] = "done", !["n3"][1] = "done"]
        /\ app' = [app EXCEPT !["n3"] = "closed"]
        /\ fin' = [fin EXCEPT !["n3"] = "sent"]
        /\ DropStream("agent")
  /\ UNCHANGED <<at, sent, eof, lost>>

\* Mutant of TcpRead: what the socket still holds when it was shut is not read.
AtEndWhenShut(d) == (at[d][TcpIn] = <<>> /\ app[d] \in {"half", "closed"}) \/ IsShut(d)

\* A read of the socket returns nothing: the application finished, or the
\* other task of the hop shut the socket down.
AtEnd(d) == /\ at[d][TcpIn] = <<>>
            /\ app[d] \in {"half", "closed"} \/ IsShut(d)


\* When copy fails the task still goes on to close what it wrote to.
AfterError(d) == "close"

\* copy from TCP: read, which may fail after a reset.
TcpRead(d) ==
  /\ pc[d][1] = "read"
  /\ \/ \E n \in AtMost(d, TcpIn, BufSize) : Move(d, TcpIn, n) /\ Goto(d, 1, "write")
     \/ AtEnd(d) /\ Goto(d, 1, "close") /\ UNCHANGED at
     \/ app[d] = "reset" /\ Goto(d, 1, AfterError(d)) /\ UNCHANGED at
  /\ UNCHANGED <<sent, fin, app, eof, lost, kept>>

\* Mutant of WriteAll: write in its place; the rest of the buffer is forgotten.
WriteOnce(d, k, n) ==
  /\ at' = [at EXCEPT ![d][2 * k] = <<>>,
                      ![d][2 * k + 1] = @ \o SubSeq(at[d][2 * k], 1, n)]
  /\ Goto(d, k, "read")

\* A write takes n bytes; write_all goes on until the buffer is empty.
WriteAll(d, k, n) ==
  /\ Move(d, 2 * k, n)
  /\ Goto(d, k, IF n = Len(at[d][2 * k]) THEN "read" ELSE "write")

\* Mutant of Room: off by one.
RoomForOneMore(d, i, cap) == cap + 1 - Len(at[d][i])

\* A write takes what fits into the socket or the flow control window.
Room(d, i, cap) == cap - Len(at[d][i])

\* copy to QUIC: write_all.  On a connection that went down the bytes are
\* buffered and never sent, or the write fails.
QuicWrite(d) ==
  /\ pc[d][1] = "write"
  /\ \/ /\ d \notin lost
        /\ \E n \in AtMost(d, Buf1, Room(d, Stream, QuicCap)) : WriteAll(d, 1, n)
     \/ d \in lost /\ Discard(d, Buf1) /\ \E l \in {"read", AfterError(d)} : Goto(d, 1, l)
  /\ UNCHANGED <<sent, fin, app, eof, lost, kept>>

\* When both tasks of a hop are done the socket is closed: unread data resets it.
DropSocket(h, done) ==
  app' = IF done /\ at[h][TcpIn] # <<>> /\ Up(h) THEN [app EXCEPT ![h] = "reset"] ELSE app

\* QuicStreamWriter::poll_close sends the end of the stream.
QuicClose(d) ==
  /\ pc[d][1] = "close" /\ Goto(d, 1, "done")
  /\ fin' = IF d \in lost THEN fin ELSE [fin EXCEPT ![d] = "sent"]
  /\ DropSocket(d, IsShut(d))
  /\ IF IsShut(d) THEN DropStream(Other(d)) ELSE UNCHANGED kept
  /\ UNCHANGED <<at, sent, eof, lost>>

(***************************************************************************)
(* copy from QUIC: read.  poll_read drops the fin flag of                  *)
(* poll_stream_read: if the end comes with the last bytes it is gone, and  *)
(* the next read finds nothing.  Then the task sleeps until the connection *)
(* goes down; or, if quiche has collected the stream, whose other          *)
(* direction was over, the read fails.                                     *)
(***************************************************************************)
QuicRead(d) ==
  LET h == Other(d) IN
  /\ pc[d][2] = "read"
  /\ \/ \E n \in AtMost(d, Stream, BufSize) :
          /\ Move(d, Stream, n) /\ Goto(d, 2, "write")
          /\ \/ UNCHANGED fin
             \/ /\ n = Len(at[d][Stream]) /\ fin[d] = "sent"
                /\ fin' = [fin EXCEPT ![d] = "swallowed"]
     \/ /\ at[d][Stream] = <<>> /\ fin[d] = "sent"
        /\ fin' = [fin EXCEPT ![d] = "read"]
        /\ Goto(d, 2, "close") /\ UNCHANGED at
     \/ /\ fin[d] = "swallowed" /\ h \notin lost
        /\ Goto(d, 2, "stuck") \/ (fin[h] # "no" /\ Goto(d, 2, AfterError(d)))
        /\ UNCHANGED <<at, fin>>
     \/ h \in lost /\ Goto(d, 2, "close") /\ UNCHANGED <<at, fin>>
  /\ UNCHANGED <<sent, app, eof, lost, kept>>

\* The end of the connection wakes the task, and its read ends.
QuicReadWoken(d) ==
  /\ pc[d][2] = "stuck" /\ Other(d) \in lost
  /\ Goto(d, 2, "close")
  /\ UNCHANGED <<at, sent, fin, app, eof, lost, kept>>

\* copy to TCP: write_all.  A write to an application that is gone may still
\* succeed, and is answered with a reset, or it fails.
TcpWrite(d) ==
  LET h == Other(d) IN
  /\ pc[d][2] = "write"
  /\ \/ /\ Up(h)
        /\ \E n \in AtMost(d, Buf2, Room(d, TcpOut, TcpCap)) : WriteAll(d, 2, n)
        /\ UNCHANGED app
     \/ /\ ~Up(h) /\ Discard(d, Buf2) /\ \E l \in {"read", AfterError(d)} : Goto(d, 2, l)
        /\ app' = [app EXCEPT ![h] = "reset"]
  /\ UNCHANGED <<sent, fin, eof, lost, kept>>

\* TcpStreamWriter::poll_close: shutdown(Both).
TcpClose(d) ==
  /\ pc[d][2] = "close" /\ Goto(d, 2, "done")
  /\ DropSocket(Other(d), pc[Other(d)][1] = "done")
  /\ IF pc[Other(d)][1] = "done" THEN DropStream(d) ELSE UNCHANGED kept
  /\ UNCHANGED <<at, sent, fin, eof, lost>>

\* What comes in for a dropped stream is read and thrown away, unless it kept
\* something unread: then no event reports it.
ClosingRecv(d) ==
  /\ IsGone(Other(d)) /\ d \notin kept /\ at[d][Stream] # <<>>
  /\ Discard(d, Stream)
  /\ UNCHANGED <<sent, fin, pc, app, eof, lost, kept>>

Copy(d) == \/ TcpRead(d) \/ QuicWrite(d) \/ QuicClose(d)
           \/ QuicRead(d) \/ QuicReadWoken(d) \/ TcpWrite(d) \/ TcpClose(d)

Next == \/ \E h \in Hops : \/ AppSend(h) \/ AppRecv(h) \/ AppEof(h)
                           \/ AppShutdown(h) \/ AppClose(h) \/ AppReset(h) \/ LoseConn(h)
        \/ CreateChannel
        \/ \E d \in Hops : Copy(d) \/ ClosingRecv(d)

Spec == Init /\ [][Next]_vars

(***************************************************************************)
(* The tasks run; applications read what arrives and notice the end; a     *)
(* connection that went down at one hop times out at the other.            *)
(***************************************************************************)
Fairness == /\ \A d \in Hops : /\ WF_vars(TcpRead(d) \/ QuicWrite(d) \/ QuicClose(d))
                               /\ WF_vars(QuicRead(d) \/ QuicReadWoken(d)
                                            \/ TcpWrite(d) \/ TcpClose(d))
                               /\ WF_vars(ClosingRecv(d))
                               /\ WF_vars(AppRecv(d) \/ AppEof(d))
                               /\ WF_vars(lost # {} /\ LoseConn(d))
            /\ WF_vars(CreateChannel)

FairSpec == Spec /\ Fairness

-----------------------------------------------------------------------------
Cap == <<TcpCap, BufSize, QuicCap, BufSize, TcpCap>>

TypeOK == /\ at \in [Hops -> [1 .. 6 -> Seq(Nat)]] /\ sent \in [Hops -> Seq(Nat)]
          /\ \A d \in Hops, i \in 1 .. 5 : Len(at[d][i]) <= Cap[i]
          /\ fin \in [Hops -> {"no", "sent", "read", "swallowed"}]
          /\ pc \in [Hops -> [1 .. 2 -> {"none", "read", "write", "close", "stuck", "done"}]]
          /\ app \in [Hops -> {"absent", "open", "half", "closed", "reset"}]
          /\ eof \subseteq Hops /\ lost \subseteq Hops /\ kept \subseteq Hops

\* A direction may lose bytes: the QUIC connection went down, the sender's
\* connection was reset, or the receiver is gone.
Broken(d) == lost # {} \/ app[d] = "reset" \/ app[Other(d)] \in {"closed", "reset"}

\* Unless a direction is broken, every byte written is somewhere along it, once
\* and in order: the copies neither drop, repeat nor reorder bytes, whatever the
\* partial reads and writes and whichever task ends first.
Conserved ==
  \A d \in Hops : ~Broken(d) =>
    sent[d] = at[d][Received] \o at[d][TcpOut] \o at[d][Buf2]
                \o at[d][Stream] \o at[d][Buf1] \o at[d][TcpIn]

\* Each application receives a prefix of what the other wrote, and sees an end
\* of stream only after all of it unless the direction is broken.
Pipes == INSTANCE Duplex WITH
           Ends <- Hops,
           got <- [d \in Hops |-> at[d][Received]],
           finished <- {d \in Hops : app[d] \in {"half", "closed", "reset"}},
           cut <- {d \in Hops : IsShut(d)},
           broken <- {d \in Hops : Broken(d)},
           ended <- eof

ImplementsDuplex == Pipes!Spec

Over(d, k) == pc[d][k] \in {"none", "done"}
Swallowed == \E d \in Hops : fin[d] = "swallowed" /\ Other(d) \notin lost

\* A writer waits for room that nobody will make: see QuicConn's closing streams.
Clogged == \E d \in kept \ lost : pc[d][1] = "write" /\ Len(at[d][Stream]) = QuicCap

=============================================================================
