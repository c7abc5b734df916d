----------------------------- MODULE MCReactorIo -----------------------------
(* Small instances of ReactorIo for TLC. *)
EXTENDS ReactorIo

\* A listener is registered readable, a socket or stream both ways.
MCInterests == {{"readable"}, {"readable", "writable"}}
MCWritable  == {{"writable"}}

\* UdpSocket::shutdown, the only caller of Reactor::shutdown.
MCShutdown  == {{"readable", "writable"}}
=============================================================================
