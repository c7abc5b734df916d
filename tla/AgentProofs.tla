----------------------------- MODULE AgentProofs -----------------------------
(***************************************************************************)
(* The safety of the agent's pool for any number of connections and any    *)
(* stream limit: no connection is forgotten alive or removed alive, and    *)
(* the stream credit is never overdrawn.                                   *)
(***************************************************************************)
EXTENDS Agent, TLAPS

-----------------------------------------------------------------------------
\* What the accept loop holds in each of its stages.
Stage == /\ acc # "scan" => todo = {} /\ dead = {} /\ found = NoConn
         /\ acc \in {"connecting", "open"} <=> cur # NoConn
         /\ acc = "open" => hs[cur] = "up"

\* Only the connection in the hand of connect is in its handshake.
InHandshake ==
  \A c \in Conns : hs[c] \in {"send", "wait"} => c = cur /\ acc = "connecting"

\* The pool holds established connections, and the scan calls dead what is
\* closed for good.
Pooled == /\ \A c \in pool : hs[c] = "up"
          /\ found # NoConn => found \in pool
          /\ \A c \in dead : conn[c] = "closed"

\* Streams left, found, in use and ended are never more than n3 admits.
Account(c) == left[c] + tunnels[c] + owed[c] + (IF found = c THEN 1 ELSE 0)

Credit == \A c \in Conns : Account(c) <= InitialMaxStreams

\* The inductive invariant.
IInv == TypeOK /\ Stage /\ InHandshake /\ Pooled /\ Credit /\ NoConnLeak

-----------------------------------------------------------------------------
LEMMA IInvInit == Init => IInv
<1> SUFFICES ASSUME Init PROVE IInv
  OBVIOUS
<1>1. InitialMaxStreams \in Nat /\ NoConn \notin Conns
  BY InitialMaxStreamsAssumption, NoConnAssumption
<1>2. TypeOK
  BY <1>1 DEF Init, ClientInit, TypeOK, ClientTypeOK
<1>3. Stage /\ InHandshake /\ Pooled /\ NoConnLeak
  BY DEF Init, ClientInit, Stage, InHandshake, Pooled, NoConnLeak
<1>4. ASSUME NEW c \in Conns PROVE Account(c) <= InitialMaxStreams
  <2>1. left[c] = InitialMaxStreams
    BY DEF Init
  <2>2. tunnels[c] = 0 /\ owed[c] = 0
    BY DEF Init
  <2>3. found # c
    BY <1>1 DEF Init
  <2> QED BY <1>1, <2>1, <2>2, <2>3 DEF Account
<1> QED BY <1>2, <1>3, <1>4 DEF IInv, Credit

-----------------------------------------------------------------------------
\* A step of the handshake or of a packet loop (client.rs:144-298) leaves the
\* agent's variables alone.  Only the connection in the hand of connect can come
\* up, and what is closed stays closed while it is in the pool.
LEMMA ClientStep ==
  ASSUME IInv, NEW c \in Conns, ClientNext(c), UNCHANGED <<agent, streams>>
  PROVE  IInv'
<1> DEFINE Parts == ClientTypeOK /\ Stage /\ InHandshake /\ Pooled /\ NoConnLeak
<1>1. Parts'
  <2> USE DEF IInv, TypeOK, ClientTypeOK, Stage, InHandshake, Pooled, NoConnLeak, agent, streams
  <2>1. CASE HandshakeSend(c)
    BY <2>1 DEF HandshakeSend, Abandon
  <2>2. CASE HandshakeTimeout(c)
    BY <2>2 DEF HandshakeTimeout
  <2>3. CASE RecvLoopEnds(c)
    BY <2>3 DEF RecvLoopEnds
  <2>4. CASE SendClose(c)
    BY <2>4 DEF SendClose
  <2>5. CASE TimesOut(c)
    BY <2>5 DEF TimesOut
  <2>6. CASE SendLoopEnds(c)
    BY <2>6 DEF SendLoopEnds, ShutdownSocket
  <2>7. CASE SendToFails(c)
    BY <2>7 DEF SendToFails, ShutdownSocket
  <2>8. CASE \E kind \in Datagrams : HandshakeRecv(c, kind)
    BY <2>8 DEF HandshakeRecv, Abandon
  <2>9. CASE \E kind \in Datagrams : RecvPacket(c, kind)
    BY <2>9 DEF RecvPacket
  <2> QED BY <2>1, <2>2, <2>3, <2>4, <2>5, <2>6, <2>7, <2>8, <2>9 DEF ClientNext, Handshake, Loops
<1>2. TypeOK' /\ Credit'
  BY <1>1 DEF IInv, TypeOK, Credit, Account, agent, streams
<1> QED BY <1>1, <1>2 DEF IInv

-----------------------------------------------------------------------------
\* The parts of an account.
LEMMA Accounts ==
  ASSUME TypeOK, NEW c \in Conns
  PROVE  /\ left[c] \in Nat /\ tunnels[c] \in Nat /\ owed[c] \in Nat
         /\ InitialMaxStreams \in Nat /\ InitialMaxStreams >= 2
BY InitialMaxStreamsAssumption DEF TypeOK

\* What opening a stream takes from the credit: one or, for the first, two.
LEMMA CreditTaken ==
  ASSUME TypeOK, NEW c \in Conns, HasCredit(c), TakeCredit(c)
  PROVE  /\ left' \in [Conns -> 0 .. InitialMaxStreams]
         /\ left'[c] < left[c] /\ \A d \in Conns \ {c} : left'[d] = left[d]
BY Accounts DEF TypeOK, HasCredit, TakeCredit

\* QuicPool::connect and the accept loop (agent/src/lib.rs:28-171).
LEMMA AgentStep ==
  ASSUME IInv, \/ Accept \/ AcceptFails \/ ScanDone \/ StartConnect
               \/ ConnectTimeout \/ Connected \/ Open
               \/ \E c \in Conns : Scan(c)
  PROVE  IInv'
<1> DEFINE Parts == Stage /\ InHandshake /\ Pooled /\ NoConnLeak
<1> USE DEF IInv, TypeOK, ClientTypeOK, client, agent, streams
<1>1. CASE Accept
  BY <1>1 DEF Accept, Stage, InHandshake, Pooled, NoConnLeak, Credit, Account
<1>2. CASE AcceptFails
  BY <1>2 DEF AcceptFails, DropConns, Stage, InHandshake, Pooled, NoConnLeak, Credit, Account
<1>3. CASE ScanDone
  <2>1. TypeOK'
    BY <1>3 DEF ScanDone, DropConns, Pooled
  <2>2. Parts'
    BY <1>3 DEF ScanDone, DropConns, Stage, InHandshake, Pooled, NoConnLeak
  <2>3. ASSUME NEW d \in Conns PROVE Account(d)' <= Account(d)
    BY <1>3, NoConnAssumption, Accounts DEF ScanDone, Account
  <2> QED BY <2>1, <2>2, <2>3, Accounts DEF Credit, Account
<1>4. CASE StartConnect
  BY <1>4, NoConnAssumption
     DEF StartConnect, Connect, Stage, InHandshake, Pooled, NoConnLeak, Credit, Account
<1>5. CASE ConnectTimeout
  BY <1>5
     DEF ConnectTimeout, GiveUp, Abandon, Stage, InHandshake, Pooled, NoConnLeak, Credit, Account
<1>6. CASE Connected
  BY <1>6 DEF Connected, Stage, InHandshake, Pooled, NoConnLeak, Credit, Account
<1>7. CASE Open
  <2>1. cur \in Conns
    BY <1>7 DEF Open, Stage
  <2>2. TypeOK'
    BY <1>7, <2>1, CreditTaken DEF Open
  <2>3. Parts'
    BY <1>7, <2>1 DEF Open, Stage, InHandshake, Pooled, NoConnLeak
  <2>4. ASSUME NEW d \in Conns PROVE Account(d)' <= Account(d)
    BY <1>7, <2>1, <2>2, CreditTaken, Accounts DEF Open, Account
  <2> QED BY <2>2, <2>3, <2>4, Accounts DEF Credit, Account
<1>8. ASSUME NEW c \in Conns, Scan(c) PROVE IInv'
  <2>1. TypeOK'
    BY <1>8, CreditTaken DEF Scan
  <2>2. Parts'
    BY <1>8, NoConnAssumption
       DEF Scan, IsDead, is_closed, Stage, InHandshake, Pooled, NoConnLeak
  <2>3. ASSUME NEW d \in Conns PROVE Account(d)' <= Account(d)
    BY <1>8, <2>1, NoConnAssumption, CreditTaken, Accounts DEF Scan, Account
  <2> QED BY <2>1, <2>2, <2>3, Accounts DEF Credit, Account
<1> QED BY <1>1, <1>2, <1>3, <1>4, <1>5, <1>6, <1>7, <1>8

\* Tunnels and credit: what moves from one account to the next adds up as before.
LEMMA StreamStep ==
  ASSUME IInv, NEW c \in Conns, TunnelOver(c) \/ CreditBack(c) \/ Forget(c)
  PROVE  IInv'
<1> USE DEF IInv, TypeOK, ClientTypeOK, client, agent, streams
<1>1. ASSUME NEW d \in Conns PROVE Account(d)' <= InitialMaxStreams
  <2> USE Accounts
  <2>1. Account(d) <= InitialMaxStreams
    BY DEF Credit
  <2>2. CASE TunnelOver(c)
    BY <2>1, <2>2 DEF TunnelOver, Account
  <2>3. CASE CreditBack(c)
    BY <2>1, <2>3 DEF CreditBack, Account
  <2>4. CASE Forget(c)
    <3>1. found # c
      BY <2>4, NoConnAssumption DEF Forget, Pooled
    <3>2. found' = found /\ tunnels' = tunnels /\ tunnels[c] = 0
      BY <2>4 DEF Forget
    <3>3. left'[d] = (IF d = c THEN InitialMaxStreams ELSE left[d])
          /\ owed'[d] = (IF d = c THEN 0 ELSE owed[d])
      BY <2>4 DEF Forget
    <3> QED BY <2>1, <3>1, <3>2, <3>3 DEF Account
  <2> QED BY <2>2, <2>3, <2>4
<1>2. TypeOK'
  BY Accounts, <1>1 DEF TunnelOver, CreditBack, Forget, Credit, Account
<1>3. (Stage /\ InHandshake /\ Pooled /\ NoConnLeak)'
  BY DEF TunnelOver, CreditBack, Forget, Stage, InHandshake, Pooled, NoConnLeak
<1> QED BY <1>1, <1>2, <1>3 DEF Credit

LEMMA InvStep == IInv /\ [Next]_vars => IInv'
<1> SUFFICES ASSUME IInv, [Next]_vars PROVE IInv'
  OBVIOUS
<1>1. CASE UNCHANGED vars
  BY <1>1 DEF vars, client, agent, streams, IInv, TypeOK, ClientTypeOK, Stage, InHandshake,
              Pooled, Credit, Account, NoConnLeak
<1>2. CASE Next
  BY <1>2, ClientStep, AgentStep, StreamStep DEF Next
<1> QED BY <1>1, <1>2

LEMMA Invariance == Spec => []IInv
BY IInvInit, InvStep, PTL DEF Spec

-----------------------------------------------------------------------------
\* Type correctness; the credit of a connection stays between zero and its
\* initial limit, so that active_outbound_streams (conn.rs:554) cannot underflow.
THEOREM TypeCorrect == Spec => []TypeOK
<1>1. IInv => TypeOK
  BY DEF IInv
<1> QED BY <1>1, Invariance, PTL

\* No connection goes on alive and unknown to the agent, however connect fails,
\* times out or is dropped (agent/src/lib.rs:90-117, client.rs:153-206).
THEOREM NothingLeaks == Spec => []NoConnLeak
<1>1. IInv => NoConnLeak
  BY DEF IInv
<1> QED BY <1>1, Invariance, PTL

\* While the agent runs its pool gives up closed connections only
\* (agent/src/lib.rs:38-82).
THEOREM RemovesClosedOnly == Spec => OnlyClosedRemoved
<1>1. IInv /\ [Next]_vars => [\A c \in pool \ pool' : conn[c] = "closed" \/ acc' = "ended"]_vars
  <2> SUFFICES ASSUME IInv, Next, NEW c \in pool \ pool', acc' # "ended"
               PROVE  conn[c] = "closed"
    OBVIOUS
  <2> USE DEF agent
  <2>1. ScanDone
    BY DEF Next, Accept, AcceptFails, StartConnect, ConnectTimeout, Connected, Open, Scan,
           TunnelOver, CreditBack, Forget
  <2> QED BY <2>1 DEF ScanDone, IInv, Pooled
<1> QED BY <1>1, Invariance, PTL DEF Spec, OnlyClosedRemoved
=============================================================================
