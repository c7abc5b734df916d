--------------------------- MODULE QuicConnProofs ---------------------------
(***************************************************************************)
(* The safety of a QUIC connection for any number of streams and any       *)
(* limits: no wake-up is lost, a sleeping task can be reached, accept      *)
(* hands out every stream of the peer once and in order, and the id        *)
(* generator keeps in step with quiche.                                    *)
(***************************************************************************)
EXTENDS QuicConn, Integers, FiniteSetTheorems, SequenceTheorems, TLAPS

-----------------------------------------------------------------------------
\* Finite sets of numbers in ascending order.  Without an induction principle,
\* by the least counterexample.
LEMMA LeastNat ==
  ASSUME NEW T, T \subseteq Nat, T # {}
  PROVE  \E x \in T : \A y \in T : x <= y
<1> DEFINE R == OpToRel(<, Nat)
<1>1. IsWellFoundedOn(R, Nat)
  BY NatLessThanWellFounded
<1>2. \A x, y \in Nat : x < y => <<x, y>> \in R
  BY DEF OpToRel
<1> HIDE DEF R
<1>3. PICK x \in T : \A y \in T : ~(<<y, x>> \in R)
  BY <1>1, WFMin
<1>4. ASSUME NEW y \in T
      PROVE  x <= y
  <2>1. x \in Nat /\ y \in Nat /\ ~(y < x)
    BY <1>2, <1>3
  <2> QED BY <2>1
<1> QED BY <1>4

Sorted(q, n) == \A i, j \in 1 .. n : i < j => q[i] < q[j]

LEMMA AscendingExists ==
  ASSUME NEW S, S \subseteq Nat, IsFiniteSet(S)
  PROVE  \E q \in [1 .. Cardinality(S) -> S] : Sorted(q, Cardinality(S))
<1> DEFINE Good(U, n) == \E q \in [1 .. n -> U] : Sorted(q, n)
           Bad == {n \in Nat : \E U \in SUBSET Nat : /\ IsFiniteSet(U) /\ Cardinality(U) = n
                                                     /\ ~Good(U, n)}
<1>1. ASSUME NEW n \in Bad, \A k \in Bad : n <= k
      PROVE  FALSE
  <2>1. PICK U \in SUBSET Nat : IsFiniteSet(U) /\ Cardinality(U) = n /\ ~Good(U, n)
    BY <1>1
  <2>2. n \in Nat
    BY <1>1
  <2>3. CASE n = 0
    <3> DEFINE q == [i \in 1 .. 0 |-> 0]
    <3>1. q \in [1 .. n -> U] /\ Sorted(q, n)
      BY <2>3 DEF Sorted
    <3> HIDE DEF q
    <3> QED BY <2>1, <3>1
  <2>4. CASE n > 0
    <3>1. U # {}
      BY <2>1, <2>4, FS_EmptySet
    <3>2. PICK m \in U : \A y \in U : m <= y
      BY <3>1, LeastNat
    <3> DEFINE V == U \ {m}
    <3>3. IsFiniteSet(V) /\ Cardinality(V) = n - 1 /\ V \in SUBSET Nat
      BY <2>1, FS_RemoveElement
    <3>4. n - 1 \in Nat /\ ~(n <= n - 1)
      BY <2>2, <2>4
    <3>5. n - 1 \notin Bad
      BY <1>1, <3>4
    <3>6. Good(V, n - 1)
      BY <3>3, <3>4, <3>5
    <3>7. PICK p \in [1 .. n - 1 -> V] : Sorted(p, n - 1)
      BY <3>6
    <3> DEFINE q == [i \in 1 .. n |-> IF i = 1 THEN m ELSE p[i - 1]]
    <3>8. \A i \in 1 .. n : i # 1 => i - 1 \in 1 .. n - 1 /\ p[i - 1] \in V
      BY <2>2, <2>4
    <3>9. q \in [1 .. n -> U]
      BY <3>8
    <3>10. Sorted(q, n)
      <4>1. ASSUME NEW i \in 1 .. n, NEW j \in 1 .. n, i < j
            PROVE  q[i] < q[j]
        <5>9. j # 1 /\ j \in 1 .. n
          BY <2>2, <4>1
        <5>1. j # 1 /\ q[j] = p[j - 1] /\ q[j] \in V /\ q[j] \in Nat /\ m \in Nat
          BY <3>3, <3>8, <5>9
        <5>2. CASE i = 1
          <6>1. q[i] = m /\ m <= q[j] /\ m # q[j]
            BY <3>2, <5>1, <5>2
          <6> QED BY <5>1, <6>1
        <5>3. CASE i # 1
          <6>1. q[i] = p[i - 1] /\ i - 1 < j - 1 /\ i - 1 \in 1 .. n - 1 /\ j - 1 \in 1 .. n - 1
            BY <2>2, <3>8, <4>1, <5>1, <5>3
          <6> QED BY <3>7, <5>1, <6>1 DEF Sorted
        <5> QED BY <5>2, <5>3
      <4> QED BY <4>1 DEF Sorted
    <3> HIDE DEF q
    <3> QED BY <2>1, <3>9, <3>10
  <2> QED BY <2>2, <2>3, <2>4
<1>2. Bad = {}
  <2>1. Bad \subseteq Nat
    OBVIOUS
  <2> HIDE DEF Bad
  <2> QED BY <1>1, <2>1, LeastNat
<1>3. Cardinality(S) \in Nat
  BY FS_CardinalityType
<1> QED BY <1>2, <1>3

\* Ascending lists every element, once, in order; the last is the largest.
LEMMA AscendingSorts ==
  ASSUME NEW S, S \subseteq Nat, IsFiniteSet(S)
  PROVE  LET n == Cardinality(S)
             q == Ascending(S)
         IN /\ n \in Nat /\ q \in [1 .. n -> S] /\ Sorted(q, n)
            /\ \A x \in S : \E i \in 1 .. n : q[i] = x
<1> DEFINE n == Cardinality(S)
           q == Ascending(S)
<1>1. n \in Nat
  BY FS_CardinalityType
<1>2. q \in [1 .. n -> S] /\ Sorted(q, n)
  BY AscendingExists DEF Ascending, Sorted
<1> HIDE DEF q
<1>3. ASSUME NEW x \in S, \A i \in 1 .. n : q[i] # x
      PROVE  FALSE
  <2>1. q \in [1 .. n -> S \ {x}]
    BY <1>2, <1>3
  <2>2. IsFiniteSet(S \ {x}) /\ Cardinality(S \ {x}) = n - 1
    BY FS_RemoveElement
  <2>3. IsFiniteSet(1 .. n) /\ Cardinality(1 .. n) = n
    BY <1>1, FS_Interval
  <2>4. \E i, j \in 1 .. n : i # j /\ q[i] = q[j]
    BY <1>1, <2>1, <2>2, <2>3, FS_PigeonHole
  <2>5. \A i, j \in 1 .. n : i # j => q[i] # q[j]
    <3>1. \A i \in 1 .. n : q[i] \in Nat
      BY <1>2
    <3> QED BY <1>1, <1>2, <3>1 DEF Sorted
  <2> QED BY <2>4, <2>5
<1> QED BY <1>1, <1>2, <1>3 DEF q

LEMMA MaxIsLargest ==
  ASSUME NEW S, S \subseteq Nat, IsFiniteSet(S), S # {}
  PROVE  Max(S) \in S /\ \A x \in S : x <= Max(S)
<1> DEFINE n == Cardinality(S)
           q == Ascending(S)
<1>1. n \in Nat /\ q \in [1 .. n -> S] /\ Sorted(q, n) /\ \A x \in S : \E i \in 1 .. n : q[i] = x
  BY AscendingSorts
<1> HIDE DEF n, q
<1>2. n \in 1 .. n
  <2>1. PICK x \in S : TRUE
    OBVIOUS
  <2> QED BY <1>1, <2>1
<1>3. \A i \in 1 .. n : q[i] \in Nat /\ (i < n => q[i] < q[n])
  BY <1>1, <1>2 DEF Sorted
<1>4. q[n] \in S /\ \A x \in S : q[n] >= x
  <2>1. ASSUME NEW x \in S
        PROVE  q[n] >= x
    <3>1. PICK i \in 1 .. n : q[i] = x
      BY <1>1
    <3>2. i = n \/ i < n
      BY <1>1
    <3> QED BY <1>2, <1>3, <3>1, <3>2
  <2> QED BY <1>1, <1>2, <2>1
<1>5. \A x \in S : Max(S) \in S /\ Max(S) >= x
  BY <1>4 DEF Max
<1> QED BY <1>4, <1>5

-----------------------------------------------------------------------------
\* The roles of the tasks are told apart by what they are named after.
LEMMA RolesDiffer ==
  /\ \A s, t : /\ Read(s) = Read(t) => s = t
              /\ Write(s) = Write(t) => s = t
              /\ Read(s) # Write(t)
              /\ Read(s) \notin {Send, Accept, Open}
              /\ Write(s) \notin {Send, Accept, Open}
  /\ Send # Accept /\ Send # Open /\ Accept # Open
BY DEF Read, Write, Send, Accept, Open

LEMMA RolesAre ==
  /\ {Send, Accept, Open} \subseteq Roles /\ StreamRoles \subseteq Roles
  /\ \A s \in Streams : Read(s) \in StreamRoles /\ Write(s) \in StreamRoles
  /\ \A r \in StreamRoles : \E s \in Streams : r = Read(s) \/ r = Write(s)
  /\ \A r \in Roles : r \in {Send, Accept, Open} \/ \E s \in Streams : r = Read(s) \/ r = Write(s)
BY DEF Roles, StreamRoles

\* Which end opened a stream shows in its id.
LEMMA Sides ==
  /\ Parity \in {0, 1}
  /\ Streams \subseteq Nat /\ PeerStreams \subseteq Nat /\ LocalStreams \subseteq Nat
  /\ \A s \in LocalStreams : is_local(s)
  /\ \A s \in PeerStreams : ~is_local(s) /\ is_bidi(s) /\ 0 < s
  /\ PeerStreams \cap LocalStreams = {} /\ IsFiniteSet(PeerStreams)
<1>1. Parity \in {0, 1}
  BY IsServerAssumption DEF Parity
<1>2. ASSUME NEW n \in Nat
      PROVE  4 * n + Parity \in Nat /\ (4 * n + Parity) % 2 = Parity
  BY <1>1
<1>3. LocalStreams \subseteq Nat /\ \A s \in LocalStreams : is_local(s)
  BY <1>2, MaxOpenedAssumption DEF LocalStreams, is_local
<1>4. PeerStreams \subseteq Nat /\ \A s \in PeerStreams : ~is_local(s) /\ is_bidi(s) /\ 0 < s
  BY PeerStreamsAssumption
<1> QED BY <1>1, <1>3, <1>4, PeerStreamsAssumption DEF Streams

\* What became readable and is not new belongs to a known stream: FirstSeen
\* takes the peer's streams above the largest id seen.
LEMMA FirstSeenIs ==
  ASSUME NEW E \in SUBSET Streams
  PROVE  /\ FirstSeen(E) = {s \in E \cap PeerStreams : current < s}
         /\ FirstSeen(E) \subseteq Nat /\ IsFiniteSet(FirstSeen(E))
<1>1. FirstSeen(E) = {s \in E \cap PeerStreams : current < s}
  BY Sides DEF FirstSeen, Streams
<1>2. FirstSeen(E) \subseteq PeerStreams
  BY <1>1
<1> QED BY <1>1, <1>2, Sides, FS_Subset

-----------------------------------------------------------------------------
\* The id generator.  Quiche counts a stream opened here up to its id, which is
\* the first or the next one: credit left covers the next id.
LEMMA MaxOfTwo ==
  ASSUME NEW a \in Nat, NEW b \in Nat, a <= b
  PROVE  Max({a, b}) = b
<1>1. {a, b} \subseteq Nat /\ {a, b} # {} /\ IsFiniteSet({a, b})
  <2>1. IsFiniteSet({b} \cup {a})
    BY FS_Singleton, FS_AddElement
  <2>2. {b} \cup {a} = {a, b}
    OBVIOUS
  <2> QED BY <2>1, <2>2
<1>2. Max({a, b}) \in {a, b} /\ \A x \in {a, b} : x <= Max({a, b})
  BY <1>1, MaxIsLargest
<1> DEFINE m == Max({a, b})
<1> HIDE DEF m
<1> QED BY <1>2 DEF m

RxStates == {"absent", "empty", "data", "fin", "end", "finished"}

\* What the five ways of receiving have in common: quiche reports the streams E
\* that became readable and W that became writable; of the streams that are not
\* in E, those that change were readable and known already.
Received(E, W, rcv, limit) ==
  /\ E \in SUBSET Streams /\ W \in SUBSET Streams
  /\ rcv \in [Streams -> RxStates] /\ limit \in Nat
  /\ limit >= maxStreams
  /\ conn' \in {conn, "draining"} /\ work' \in BOOLEAN
  /\ conn' # conn => conn \in {"open", "closing"}
  /\ maxStreams' = limit /\ writable' = writable \cup W
  /\ StatEvents(E, W, rcv, limit, {Send})
  /\ UNCHANGED <<opened, next_id, timer, handle, parked, sendLoop>>
  /\ E # {} => conn \in {"open", "closing"}
  /\ \A s \in E : ~Readable(s) /\ rx[s] # "finished" /\ rcv[s] # "absent"
  /\ \A s \in Streams \ E : /\ rcv[s] = rx[s] \/ Readable(s)
                            /\ rcv[s] = "absent" <=> rx[s] = "absent"
  /\ \A s \in E \cap PeerStreams : rx[s] = "absent" /\ InOrder =>
        \A x \in PeerStreams \ E : x < s => rx[x] # "absent"

LEMMA DataIsReceived ==
  ASSUME TypeOK, NEW S \in SUBSET Streams, NEW f \in [S -> {"data"} \cup Ended], RecvData(S, f)
  PROVE  \E E, W, rcv, limit : Received(E, W, rcv, limit)
<1> DEFINE E == {s \in S : ~Readable(s)}
           rcv == [s \in Streams |-> IF s \in S THEN f[s] ELSE rx[s]]
<1>1. /\ StatEvents(E, {}, rcv, maxStreams, {Send}) /\ maxStreams' = maxStreams
      /\ writable' = writable \cup {} /\ work' \in BOOLEAN /\ conn' = conn
      /\ UNCHANGED <<opened, next_id, timer, handle, parked, sendLoop>>
      /\ conn \in {"open", "closing"}
  BY DEF RecvData, Recv, TypeOK
<1>2. \A s \in S : f[s] \in {"data", "fin", "end"}
  BY DEF Ended
<1>3. rcv \in [Streams -> RxStates]
  BY <1>2 DEF TypeOK, RxStates
<1>4. \A s \in E : ~Readable(s) /\ rx[s] # "finished" /\ rcv[s] # "absent"
  BY <1>2 DEF RecvData, PeerMaySend
<1>5. \A s \in Streams \ E : /\ rcv[s] = rx[s] \/ Readable(s)
                             /\ rcv[s] = "absent" <=> rx[s] = "absent"
  BY <1>2 DEF Readable, Ended
<1>6. ASSUME NEW s \in E \cap PeerStreams, rx[s] = "absent", InOrder, NEW x \in PeerStreams \ E, x < s
      PROVE  rx[x] # "absent"
  BY <1>6 DEF RecvData, PeerMaySend, Readable, Ended
<1> HIDE DEF E, rcv
<1>7. Received(E, {}, rcv, maxStreams)
  BY <1>1, <1>3, <1>4, <1>5, <1>6 DEF Received, TypeOK, E
<1> QED BY <1>7

\* A packet that brings no stream data.
LEMMA OtherIsReceived ==
  ASSUME TypeOK, (\E s \in Streams : RecvWindow(s)) \/ RecvMaxStreams \/ RecvClose \/ RecvIgnored
  PROVE  \E E, W, rcv, limit : Received(E, W, rcv, limit)
<1>1. /\ rx \in [Streams -> RxStates] /\ writable \cup {} = writable
      /\ maxStreams \in Nat /\ maxStreams >= maxStreams
  BY DEF TypeOK, RxStates
<1>2. ASSUME NEW s \in Streams, RecvWindow(s)
      PROVE  Received({}, {s}, rx, maxStreams)
  BY <1>1, <1>2 DEF RecvWindow, Recv, Received, TypeOK
<1>3. CASE RecvMaxStreams
  <2> DEFINE limit == maxStreams + 1
  <2>1. limit \in Nat /\ limit >= maxStreams
    BY <1>1
  <2> HIDE DEF limit
  <2>2. Received({}, {}, rx, limit)
    BY <1>1, <1>3, <2>1 DEF RecvMaxStreams, Recv, Received, TypeOK, limit
  <2> QED BY <2>2
<1>4. CASE RecvClose
  <2>1. Received({}, {}, rx, maxStreams)
    BY <1>1, <1>4 DEF RecvClose, Received
  <2> QED BY <2>1
<1>5. CASE RecvIgnored
  <2>1. Received({}, {}, rx, maxStreams)
    BY <1>1, <1>5 DEF RecvIgnored, Received, TypeOK
  <2> QED BY <2>1
<1> QED BY <1>2, <1>3, <1>4, <1>5

\* The actions that are neither a packet's arrival nor of the socket.
Local ==
  \/ PollSend \/ TimerExpires \/ Close \/ PollAccept
  \/ \E try \in BOOLEAN : PollOpen(try)
  \/ \E s \in Streams : PollRead(s) \/ PollWrite(s) \/ DropStream(s)
  \/ \E r \in Roles : Cancel(r)

\* Nothing moves but the send loop, between its call of the socket and the next.
LoopStates == {"polls", "sends", "stuck", "failed", "over"}
Quiet == UNCHANGED <<quiche, state, handle, parked, woken>> /\ sendLoop' \in LoopStates

LEMMA Steps ==
  ASSUME TypeOK, [Next]_vars
  PROVE  \/ \E E, W, rcv, limit : Received(E, W, rcv, limit)
         \/ Local
         \/ Quiet
<1>1. ASSUME NEW next \in LoopStates, AfterSocket(next)
      PROVE  Quiet
  BY <1>1 DEF AfterSocket, Quiet
<1>2. SocketSends \/ SocketFails \/ SocketSticks => Quiet
  BY <1>1 DEF SocketSends, SocketFails, SocketSticks, LoopStates
<1>3. UNCHANGED vars => Quiet
  BY DEF vars, tasks, Quiet, TypeOK, LoopStates
<1> QED BY <1>2, <1>3, DataIsReceived, OtherIsReceived DEF Next, Local

LEMMA CountingStep ==
  ASSUME TypeOK, NextIdInStep, [Next]_vars
  PROVE  NextIdInStep'
<1>1. ASSUME NEW E, NEW W, NEW rcv, NEW limit, Received(E, W, rcv, limit)
      PROVE  NextIdInStep'
  BY <1>1 DEF Received, NextIdInStep, Sequence, TypeOK
<1>2. ASSUME NEW try \in BOOLEAN, PollOpen(try)
      PROVE  NextIdInStep'
  <2>1. opened \in Nat /\ maxStreams \in Nat /\ next_id \in Nat /\ maxStreams' = maxStreams
    BY <1>2 DEF TypeOK, PollOpen
  <2>2. Sequence(next_id + 4) = Sequence(next_id) + 1 /\ Sequence(next_id) \in Nat
    BY <2>1, Sides DEF Sequence
  <2>3. CASE peer_streams_left_bidi > 0
    <3>1. /\ next_id' = next_id + 4
          /\ IF Sequence(next_id) <= maxStreams THEN opened' = Max({opened, Sequence(next_id)})
                                                ELSE opened' = opened
      BY <1>2, <2>3, <2>1 DEF PollOpen, IdAfter, peer_streams_left_bidi
    <3>2. Sequence(next_id)' = Sequence(next_id) + 1
      BY <2>2, <3>1 DEF Sequence, Parity
    <3>3. CASE Sequence(next_id) <= maxStreams
      <4>1. opened <= Sequence(next_id)
        BY <2>1, <2>2 DEF NextIdInStep
      <4>2. opened' = Sequence(next_id)
        BY <2>1, <2>2, <3>1, <3>3, <4>1, MaxOfTwo
      <4> QED BY <2>1, <3>2, <3>3, <4>2 DEF NextIdInStep
    <3>4. CASE ~(Sequence(next_id) <= maxStreams)
      <4>1. opened = 0
        BY <2>1, <2>2, <2>3, <3>4 DEF NextIdInStep, peer_streams_left_bidi
      <4> QED BY <2>1, <3>1, <3>4, <4>1 DEF NextIdInStep
    <3> QED BY <3>3, <3>4
  <2>4. CASE ~(peer_streams_left_bidi > 0)
    BY <1>2, <2>1, <2>4 DEF PollOpen, NextIdInStep, Sequence, peer_streams_left_bidi
  <2> QED BY <2>3, <2>4
<1>3. ASSUME UNCHANGED <<opened, next_id, maxStreams>>
      PROVE  NextIdInStep'
  BY <1>3 DEF NextIdInStep, Sequence
<1>4. CASE Local
  BY <1>2, <1>3, <1>4 DEF Local, PollSend, TimerExpires, Close, PollAccept, PollRead, PollWrite,
                          DropStream, Cancel, quiche, state
<1>5. CASE Quiet
  BY <1>3, <1>5 DEF Quiet, quiche, state
<1> QED BY <1>1, <1>4, <1>5, Steps

-----------------------------------------------------------------------------
\* A sleeping task that a step does not concern stays asleep; one that it wakes
\* does not.
LEMMA WakeWakes ==
  ASSUME SleepersAreKnown, NEW R, Wake(R), parked' = parked
  PROVE  \A r \in Roles : Asleep(r)' => Asleep(r) /\ r \notin R /\ r \in wakers'
BY DEF SleepersAreKnown, Wake, Asleep

\* What a local step does to the tasks: the one that polls is awake or has its
\* waker stored, the others sleep on unless they are woken.
LEMMA SleepersAreKnownStep ==
  ASSUME TypeOK, SleepersAreKnown, [Next]_vars
  PROVE  SleepersAreKnown'
<1>1. ASSUME NEW E, NEW W, NEW rcv, NEW limit, Received(E, W, rcv, limit)
      PROVE  SleepersAreKnown'
  BY <1>1, WakeWakes DEF Received, StatEvents, SleepersAreKnown
<1>2. CASE PollSend
  <2>1. ASSUME NEW R, R \in SUBSET Roles, wakers' = wakers \ R \/ wakers' = wakers \ (R \cup {Send}),
               woken' = (woken \cup (R \cap wakers \cap parked)) \ {Send}, parked' = parked \ {Send}
        PROVE  SleepersAreKnown'
    BY <2>1 DEF SleepersAreKnown, Asleep
  <2>2. Common(fifo, peer_streams_left_bidi) \in SUBSET Roles /\ Finalized \in SUBSET Roles
    BY RolesAre DEF Common, Finalized
  <2>3. CASE Parks(Send)
    BY <2>3 DEF Parks, SleepersAreKnown, Asleep
  <2>4. CASE /\ wakers' = wakers \ TimerTaken /\ woken' = woken \ {Send}
             /\ parked' = parked \ {Send}
    BY <2>4 DEF TimerTaken, SleepersAreKnown, Asleep
  <2> QED BY <1>2, <2>1, <2>2, <2>3, <2>4 DEF PollSend, TimerTaken
<1>3. CASE TimerExpires
  BY <1>3 DEF TimerExpires, SleepersAreKnown, Asleep
<1>4. CASE Close
  BY <1>4, WakeWakes DEF Close, SleepersAreKnown
<1>5. ASSUME NEW r, (Returns(r) /\ UNCHANGED wakers) \/ Parks(r) \/ ReturnsAndWakesSend(r)
      PROVE  SleepersAreKnown'
  BY <1>5 DEF Returns, Parks, ReturnsAndWakesSend, SleepersAreKnown, Asleep
<1>6. CASE PollAccept
  BY <1>5, <1>6 DEF PollAccept
<1>7. ASSUME NEW try \in BOOLEAN, PollOpen(try)
      PROVE  SleepersAreKnown'
  BY <1>5, <1>7 DEF PollOpen
<1>8. ASSUME NEW s \in Streams, PollRead(s) \/ PollWrite(s)
      PROVE  SleepersAreKnown'
  BY <1>5, <1>8 DEF PollRead, PollWrite
<1>9. ASSUME NEW s \in Streams, DropStream(s)
      PROVE  SleepersAreKnown'
  <2>1. CASE UNCHANGED <<wakers, woken, parked>>
    BY <2>1 DEF SleepersAreKnown, Asleep
  <2>2. CASE Wake({Send}) /\ parked' = parked
    BY <2>2, WakeWakes DEF SleepersAreKnown
  <2> QED BY <1>9, <2>1, <2>2 DEF DropStream
<1>10. ASSUME NEW r \in Roles, Cancel(r)
       PROVE  SleepersAreKnown'
  BY <1>10 DEF Cancel, state, SleepersAreKnown, Asleep
<1>11. CASE Quiet
  BY <1>11 DEF Quiet, state, SleepersAreKnown, Asleep
<1>12. CASE Local
  BY <1>2, <1>3, <1>4, <1>6, <1>7, <1>8, <1>9, <1>10, <1>12 DEF Local
<1> QED BY <1>1, <1>11, <1>12, Steps

-----------------------------------------------------------------------------
\* Who holds a stream was given it: the peer's streams are known up to the
\* largest id seen, those opened here below the next id, and only a holder
\* waits for one.
Holders == \A s \in Streams : Read(s) \in parked \/ Write(s) \in parked => handle[s] = "held"
Known ==
  /\ \A s \in PeerStreams : handle[s] # "none" => s <= current
  /\ \A s \in LocalStreams : handle[s] # "none" => s < next_id
  /\ \A s \in closing : handle[s] = "dropped"
Queue == OfferedOnce /\ Holders /\ Known

\* A stream that is new belongs to nobody and nobody waits for it.
LEMMA NewIsNobodys ==
  ASSUME TypeOK, Queue, NEW E \in SUBSET Streams, NEW s \in FirstSeen(E)
  PROVE  /\ s \in Streams /\ handle[s] = "none" /\ s \notin closing
         /\ Read(s) \notin parked /\ Write(s) \notin parked
<1>1. s \in PeerStreams /\ s \in Nat /\ current \in Nat /\ current < s
  BY FirstSeenIs, Sides DEF TypeOK
<1>2. ~(s <= current)
  BY <1>1
<1>3. handle[s] = "none"
  BY <1>1, <1>2 DEF Queue, Known
<1> QED BY <1>1, <1>3 DEF Queue, Known, Holders, Streams

\* Two sequences joined, place by place.
LEMMA Joins ==
  ASSUME NEW T, NEW p \in Seq(T), NEW n \in Nat, NEW q \in [1 .. n -> T],
         NEW k, k = Len(p), NEW c, c = p \o q
  PROVE  /\ k \in Nat /\ DOMAIN p = 1 .. k /\ \A i \in 1 .. k : p[i] \in T
         /\ q \in Seq(T) /\ Len(q) = n /\ c \in Seq(T)
         /\ \A i \in 1 .. k : c[i] = p[i]
         /\ \A i \in 1 .. k + n : i > k => c[i] = q[i - k] /\ i - k \in 1 .. n
<1>1. q \in Seq(T)
  BY SeqDef
<1>2. DOMAIN q = 1 .. n /\ Len(q) = n
  BY <1>1, LenProperties
<1>3. k \in Nat /\ DOMAIN p = 1 .. k
  BY LenProperties
<1>4. \A i \in 1 .. k : p[i] \in T
  BY <1>3, ElementOfSeq
<1>5. c \in Seq(T) /\ Len(c) = k + n
  BY <1>1, <1>2, ConcatProperties
<1>6. \A i \in 1 .. k + n : c[i] = IF i <= k THEN p[i] ELSE q[i - k]
  BY <1>1, <1>2, <1>5, ConcatProperties
<1>7. \A i \in 1 .. k + n : i > k => i - k \in 1 .. n /\ ~(i <= k)
  BY <1>3
<1>8. \A i \in 1 .. k : i \in 1 .. k + n /\ i <= k
  BY <1>3
<1> QED BY <1>1, <1>2, <1>3, <1>4, <1>5, <1>6, <1>7, <1>8

\* What poll_conn_stat_events does to the queue: the new streams join it in the
\* order of their ids, all larger than those that were queued before.
LEMMA QueueGrows ==
  ASSUME TypeOK, Queue, NEW E \in SUBSET Streams,
         fifo' = fifo \o Ascending(FirstSeen(E)),
         current' = IF FirstSeen(E) = {} THEN current ELSE Max(FirstSeen(E))
  PROVE  /\ fifo' \in Seq(PeerStreams) /\ current' \in {0} \cup PeerStreams
         /\ current <= current' /\ \A s \in FirstSeen(E) : s <= current'
         /\ \A i, j \in DOMAIN fifo' : i < j => fifo'[i] < fifo'[j]
         /\ \A i \in DOMAIN fifo' : fifo'[i] <= current' /\ handle[fifo'[i]] = "none"
         /\ \A s : (\E i \in DOMAIN fifo' : fifo'[i] = s) <=>
                      (\E i \in DOMAIN fifo : fifo[i] = s) \/ s \in FirstSeen(E)
<1> DEFINE new == FirstSeen(E)
           q == Ascending(new)
           n == Cardinality(new)
           k == Len(fifo)
<1>1. new \subseteq PeerStreams /\ new \subseteq Nat /\ IsFiniteSet(new) /\ \A s \in new : current < s
  BY FirstSeenIs
<1>2. \A s \in new : handle[s] = "none"
  BY NewIsNobodys
<1>3. /\ n \in Nat /\ q \in [1 .. n -> new] /\ Sorted(q, n)
      /\ \A x \in new : \E i \in 1 .. n : q[i] = x
  BY <1>1, AscendingSorts
<1>4. new # {} => Max(new) \in new /\ \A x \in new : x <= Max(new)
  BY <1>1, MaxIsLargest
<1>5. current \in Nat /\ current' \in {0} \cup PeerStreams /\ current' \in Nat
  BY <1>1, <1>4, Sides DEF TypeOK
<1>6. current <= current' /\ \A s \in new : s <= current'
  <2> DEFINE m == Max(new)
  <2>1. (new = {} => current' = current) /\ (new # {} => current' = m /\ m \in new /\ \A x \in new : x <= m)
    BY <1>4
  <2> HIDE DEF m, new
  <2> QED BY <1>1, <1>5, <2>1
<1>7. q \in [1 .. n -> PeerStreams] /\ fifo \in Seq(PeerStreams)
  BY <1>1, <1>3 DEF TypeOK
<1>8. fifo' = fifo \o q
  OBVIOUS
<1> HIDE DEF q, n, new
<1>9. /\ fifo' \in Seq(PeerStreams) /\ k \in Nat
      /\ DOMAIN fifo' = 1 .. k + n /\ DOMAIN fifo = 1 .. k
      /\ \A i \in 1 .. k : fifo'[i] = fifo[i] /\ fifo[i] \in PeerStreams
      /\ \A i \in 1 .. k + n : i > k => fifo'[i] = q[i - k] /\ i - k \in 1 .. n
  <2> HIDE DEF k
  <2>1. k = Len(fifo)
    BY DEF k
  <2>2. n \in Nat /\ q \in [1 .. n -> PeerStreams] /\ fifo \in Seq(PeerStreams)
    BY <1>3, <1>7
  <2>3. fifo' \in Seq(PeerStreams)
    BY <1>8, <2>2, <2>1, Joins
  <2>4. k \in Nat /\ DOMAIN fifo = 1 .. k /\ DOMAIN fifo' = 1 .. k + n
    <3>1. k \in Nat /\ DOMAIN fifo = 1 .. k
      BY <2>1, <2>2, LenProperties
    <3>2. Len(fifo') = k + n
      <4>1. q \in Seq(PeerStreams) /\ Len(q) = n
        BY <2>2, Joins
      <4>2. Len(fifo \o q) = Len(fifo) + Len(q)
        BY <2>2, <4>1, ConcatProperties
      <4> QED BY <1>8, <2>1, <4>1, <4>2
    <3>3. DOMAIN fifo' = 1 .. Len(fifo')
      BY <2>3, LenProperties
    <3> QED BY <3>1, <3>2, <3>3
  <2>5. \A i \in 1 .. k : fifo'[i] = fifo[i] /\ fifo[i] \in PeerStreams
    BY <1>8, <2>1, <2>2, Joins
  <2>6. \A i \in 1 .. k + n : i > k => fifo'[i] = q[i - k] /\ i - k \in 1 .. n
    BY <1>8, <2>1, <2>2, Joins
  <2> QED BY <2>3, <2>4, <2>5, <2>6
<1>10. \A i \in 1 .. k : fifo'[i] \in Nat /\ fifo'[i] <= current /\ handle[fifo'[i]] = "none"
  <2>1. \A i \in 1 .. k : fifo[i] \in Nat /\ fifo[i] <= current /\ handle[fifo[i]] = "none"
    BY <1>9, Sides DEF Queue, OfferedOnce
  <2>2. \A i \in 1 .. k : fifo'[i] = fifo[i]
    BY <1>9
  <2> QED BY <2>1, <2>2
<1>11. ASSUME NEW i \in 1 .. k + n, i > k
       PROVE  /\ fifo'[i] \in new /\ fifo'[i] \in Nat /\ current < fifo'[i]
              /\ fifo'[i] <= current' /\ handle[fifo'[i]] = "none"
  <2> DEFINE x == fifo'[i]
  <2>1. x = q[i - k] /\ i - k \in 1 .. n
    BY <1>9, <1>11
  <2>2. x \in new
    BY <1>3, <2>1
  <2> HIDE DEF x
  <2>3. x \in new /\ x \in Nat /\ current < x /\ x <= current' /\ handle[x] = "none"
    BY <1>1, <1>2, <1>6, <2>2
  <2> QED BY <2>3 DEF x
<1>12. ASSUME NEW i \in 1 .. k + n, NEW j \in 1 .. k + n, i < j
       PROVE  fifo'[i] < fifo'[j]
  <2>1. CASE j <= k
    <3>1. i \in 1 .. k /\ j \in 1 .. k
      BY <1>3, <1>9, <1>12, <2>1
    <3> QED BY <1>9, <1>12, <3>1 DEF Queue, OfferedOnce
  <2>2. CASE i <= k /\ j > k
    <3>1. i \in 1 .. k
      BY <1>3, <1>9, <2>2
    <3> DEFINE x == fifo'[i]
               y == fifo'[j]
    <3>2. x \in Nat /\ y \in Nat /\ x <= current /\ current < y
      BY <1>10, <1>11, <2>2, <3>1
    <3> HIDE DEF x, y
    <3>3. x < y
      BY <1>5, <3>2
    <3> QED BY <3>3 DEF x, y
  <2>3. CASE i > k
    <3>1. j > k
      BY <1>3, <1>9, <1>12, <2>3
    <3> DEFINE a == i - k
               b == j - k
    <3>2. a < b
      BY <1>3, <1>9, <1>12
    <3>3. fifo'[i] = q[a] /\ fifo'[j] = q[b] /\ a \in 1 .. n /\ b \in 1 .. n
      BY <1>9, <2>3, <3>1
    <3> HIDE DEF a, b
    <3>4. Sorted(q, n)
      BY <1>3
    <3>5. q[a] < q[b]
      BY <3>2, <3>3, <3>4, SMTT(20) DEF Sorted
    <3> QED BY <3>3, <3>5
  <2> QED BY <1>3, <1>9, <2>1, <2>2, <2>3
<1>13. ASSUME NEW i \in 1 .. k + n
       PROVE  fifo'[i] <= current' /\ handle[fifo'[i]] = "none"
  <2>1. CASE i > k
    BY <1>11, <2>1
  <2>2. CASE i <= k
    <3>1. i \in 1 .. k
      BY <1>3, <1>9, <2>2
    <3> DEFINE x == fifo'[i]
    <3>2. x \in Nat /\ x <= current /\ handle[x] = "none"
      BY <1>10, <3>1
    <3> HIDE DEF x
    <3>3. x <= current' /\ handle[x] = "none"
      BY <1>5, <1>6, <3>2
    <3> QED BY <3>3 DEF x
  <2> QED BY <1>3, <1>9, <2>1, <2>2
<1>14. ASSUME NEW s
       PROVE  (\E i \in 1 .. k + n : fifo'[i] = s) <=> (\E i \in 1 .. k : fifo[i] = s) \/ s \in new
  <2>1. ASSUME NEW i \in 1 .. k, fifo[i] = s
        PROVE  \E j \in 1 .. k + n : fifo'[j] = s
    <3>1. i \in 1 .. k + n
      BY <1>3, <1>9
    <3> QED BY <1>9, <2>1, <3>1
  <2>2. ASSUME s \in new
        PROVE  \E j \in 1 .. k + n : fifo'[j] = s
    <3>1. PICK i \in 1 .. n : q[i] = s
      BY <1>3, <2>2
    <3> DEFINE j == k + i
    <3>2. j \in 1 .. k + n /\ j > k /\ j - k = i
      BY <1>3, <1>9
    <3> HIDE DEF j
    <3>3. fifo'[j] = q[j - k]
      BY <1>9, <3>2
    <3> QED BY <3>1, <3>2, <3>3
  <2>3. ASSUME NEW i \in 1 .. k + n, fifo'[i] = s
        PROVE  (\E j \in 1 .. k : fifo[j] = s) \/ s \in new
    <3>1. i > k => s \in new
      BY <1>11, <2>3
    <3>2. ~(i > k) => i \in 1 .. k
      BY <1>3, <1>9
    <3> QED BY <1>9, <2>3, <3>1, <3>2
  <2> QED BY <2>1, <2>2, <2>3
<1> QED BY <1>5, <1>6, <1>9, <1>12, <1>13, <1>14 DEF new

\* The queue is given out from its head; the streams behind it have larger ids.
LEMMA TailKeepsQueue ==
  ASSUME TypeOK, OfferedOnce, fifo # <<>>
  PROVE  LET t == Tail(fifo)
             h == Head(fifo)
         IN /\ h \in PeerStreams /\ handle[h] = "none" /\ h <= current /\ t \in Seq(PeerStreams)
            /\ \A i, j \in DOMAIN t : i < j => t[i] < t[j]
            /\ \A i \in DOMAIN t : t[i] <= current /\ handle[t[i]] = "none" /\ t[i] # h
            /\ \A s : (\E i \in DOMAIN fifo : fifo[i] = s) =>
                         s = h \/ \E i \in DOMAIN t : t[i] = s
<1> DEFINE t == Tail(fifo)
           h == Head(fifo)
           k == Len(fifo)
<1>1. /\ fifo \in Seq(PeerStreams) /\ k \in Nat /\ k > 0 /\ DOMAIN fifo = 1 .. k
      /\ \A i \in 1 .. k : fifo[i] \in PeerStreams
  <2>1. fifo \in Seq(PeerStreams)
    BY DEF TypeOK
  <2>2. k \in Nat \ {0} /\ DOMAIN fifo = 1 .. k
    BY <2>1, EmptySeq, LenProperties
  <2> QED BY <2>1, <2>2, ElementOfSeq
<1>2. h = fifo[1] /\ 1 \in 1 .. k
  BY <1>1
<1>3. t \in Seq(PeerStreams) /\ Len(t) = k - 1 /\ \A i \in 1 .. k - 1 : t[i] = fifo[i + 1]
  <2>1. t \in Seq(PeerStreams) /\ Len(t) = k - 1 /\ \A i \in 1 .. Len(t) : t[i] = fifo[i + 1]
    BY <1>1, HeadTailProperties
  <2> QED BY <2>1
<1>4. DOMAIN t = 1 .. k - 1
  <2>1. DOMAIN t = 1 .. Len(t)
    BY <1>3, LenProperties
  <2> QED BY <1>3, <2>1
<1> HIDE DEF t, h, k
<1>5. /\ \A i, j \in 1 .. k : i < j => fifo[i] < fifo[j]
      /\ \A i \in 1 .. k : fifo[i] \in Nat /\ fifo[i] <= current /\ handle[fifo[i]] = "none"
  BY <1>1, Sides DEF OfferedOnce
<1>6. \A i \in 1 .. k - 1 : i + 1 \in 1 .. k /\ 1 < i + 1
  BY <1>1
<1>7. ASSUME NEW i \in 1 .. k - 1, NEW j \in 1 .. k - 1, i < j
      PROVE  t[i] < t[j]
  <2>1. i + 1 < j + 1
    BY <1>1, <1>7
  <2> QED BY <1>3, <1>5, <1>6, <2>1
<1>8. ASSUME NEW i \in 1 .. k - 1
      PROVE  t[i] <= current /\ handle[t[i]] = "none" /\ t[i] # h
  <2> DEFINE x == fifo[i + 1]
             y == fifo[1]
  <2>1. x \in Nat /\ y \in Nat /\ y < x /\ x <= current /\ handle[x] = "none" /\ t[i] = x
    BY <1>2, <1>3, <1>5, <1>6
  <2> HIDE DEF x, y
  <2>2. t[i] = x /\ x # y /\ x <= current /\ handle[x] = "none"
    BY <2>1
  <2> QED BY <1>2, <2>2 DEF y
<1>9. ASSUME NEW s, NEW i \in 1 .. k, fifo[i] = s
      PROVE  s = h \/ \E j \in 1 .. k - 1 : t[j] = s
  <2>1. CASE i = 1
    BY <1>2, <1>9, <2>1
  <2>2. CASE i # 1
    <3> DEFINE j == i - 1
    <3>1. j \in 1 .. k - 1 /\ j + 1 = i
      BY <1>1, <2>2
    <3> HIDE DEF j
    <3>2. t[j] = s
      BY <1>3, <1>9, <3>1
    <3> QED BY <3>1, <3>2
  <2> QED BY <2>1, <2>2
<1> QED BY <1>1, <1>2, <1>3, <1>4, <1>5, <1>7, <1>8, <1>9 DEF t, h

LEMMA QueueStep ==
  ASSUME TypeOK, Queue, [Next]_vars
  PROVE  Queue'
<1>1. ASSUME NEW E, NEW W, NEW rcv, NEW limit, Received(E, W, rcv, limit)
      PROVE  Queue'
  <2>1. E \in SUBSET Streams /\ StatEvents(E, W, rcv, limit, {Send})
        /\ UNCHANGED <<next_id, handle, parked>>
    BY <1>1 DEF Received
  <2>2. /\ current' \in Nat /\ current \in Nat /\ current <= current'
        /\ \A i, j \in DOMAIN fifo' : i < j => fifo'[i] < fifo'[j]
        /\ \A i \in DOMAIN fifo' : fifo'[i] <= current' /\ handle[fifo'[i]] = "none"
    <3>1. /\ fifo' = fifo \o Ascending(FirstSeen(E))
          /\ current' = IF FirstSeen(E) = {} THEN current ELSE Max(FirstSeen(E))
      BY <2>1 DEF StatEvents
    <3>2. current \in Nat /\ {0} \cup PeerStreams \subseteq Nat
      BY Sides DEF TypeOK
    <3> QED BY <2>1, <3>1, <3>2, QueueGrows
  <2>3. closing' \subseteq closing
    BY <2>1 DEF StatEvents
  <2>4. OfferedOnce' /\ Holders'
    BY <2>1, <2>2 DEF OfferedOnce, Queue, Holders
  <2>5. \A s \in PeerStreams : handle'[s] # "none" => s <= current'
    BY <2>1, <2>2, Sides DEF Queue, Known
  <2> QED BY <2>1, <2>3, <2>4, <2>5 DEF Queue, Known
<1>2. ASSUME UNCHANGED <<fifo, current, closing, next_id, handle>>,
             \A s \in Streams : Read(s) \in parked' \/ Write(s) \in parked' =>
                Read(s) \in parked \/ Write(s) \in parked \/ handle[s] = "held"
      PROVE  Queue'
  BY <1>2 DEF Queue, OfferedOnce, Holders, Known
<1>3. CASE PollSend \/ TimerExpires \/ Close
  <2>1. UNCHANGED <<fifo, current, closing, next_id, handle>>
    BY <1>3 DEF PollSend, TimerExpires, Close
  <2>2. parked' \subseteq parked \cup {Send}
    BY <1>3 DEF PollSend, TimerExpires, Close, Parks
  <2>3. \A s \in Streams : Read(s) # Send /\ Write(s) # Send
    BY RolesDiffer
  <2> QED BY <1>2, <2>1, <2>2, <2>3
<1>4. CASE PollAccept
  <2>1. CASE fifo' = Tail(fifo) /\ fifo # <<>> /\ handle' = [handle EXCEPT ![Head(fifo)] = "held"]
    <3> DEFINE h == Head(fifo)
               t == Tail(fifo)
    <3>1. /\ h \in PeerStreams /\ handle[h] = "none" /\ h <= current
          /\ \A i, j \in DOMAIN t : i < j => t[i] < t[j]
          /\ \A i \in DOMAIN t : t[i] <= current /\ handle[t[i]] = "none" /\ t[i] # h
          /\ \A i \in DOMAIN t : t[i] \in Streams
      <4>1. t \in Seq(PeerStreams)
        BY <2>1, TailKeepsQueue DEF Queue
      <4>2. \A i \in DOMAIN t : t[i] \in PeerStreams
        BY <4>1, ElementOfSeq, LenProperties
      <4> QED BY <2>1, <4>2, TailKeepsQueue DEF Queue, Streams
    <3>2. fifo' = t /\ handle' = [handle EXCEPT ![h] = "held"]
      BY <2>1
    <3> HIDE DEF h, t
    <3>3. /\ UNCHANGED <<current, closing, next_id>> /\ parked' \subseteq parked
          /\ handle \in [Streams -> {"none", "held", "dropped"}] /\ h \in Streams
      <4>1. fifo # <<>>
        BY <2>1
      <4>2. UNCHANGED <<current, closing, next_id>> /\ parked' \subseteq parked
        BY <1>4, <4>1 DEF PollAccept, Returns
      <4> QED BY <3>1, <4>2 DEF TypeOK, Streams
    <3>4. handle'[h] = "held" /\ \A s \in Streams : s # h => handle'[s] = handle[s]
      BY <3>2, <3>3
    <3>5. OfferedOnce'
      BY <3>1, <3>2, <3>3, <3>4 DEF OfferedOnce
    <3>6. Holders'
      BY <3>1, <3>3, <3>4 DEF Queue, Holders
    <3>7. Known'
      <4>1. h \notin LocalStreams /\ h \notin closing
        BY <3>1, Sides DEF Queue, Known
      <4>2. \A s \in PeerStreams : handle'[s] # "none" => s <= current'
        BY <3>1, <3>3, <3>4 DEF Queue, Known, Streams
      <4>3. \A s \in LocalStreams : handle'[s] # "none" => s < next_id'
        BY <3>3, <3>4, <4>1 DEF Queue, Known, Streams
      <4>4. \A s \in closing' : handle'[s] = "dropped"
        BY <3>3, <3>4, <4>1 DEF Queue, Known, TypeOK
      <4> QED BY <4>2, <4>3, <4>4 DEF Known
    <3> QED BY <3>5, <3>6, <3>7 DEF Queue
  <2>2. CASE UNCHANGED <<fifo, handle>>
    BY <1>2, <1>4, <2>2, RolesDiffer DEF PollAccept, Returns, Parks, state
  <2> QED BY <1>4, <2>1, <2>2 DEF PollAccept
<1>5. ASSUME NEW try \in BOOLEAN, PollOpen(try)
      PROVE  Queue'
  <2>1. /\ UNCHANGED <<current, fifo, closing>>
        /\ \/ UNCHANGED <<handle, next_id>>
           \/ /\ next_id \in LocalStreams /\ next_id' = next_id + 4
              /\ handle' = handle \/ handle' = [handle EXCEPT ![next_id] = "held"]
    <3>1. maxStreams - opened \in Int
      BY DEF TypeOK
    <3> QED BY <1>5, <3>1 DEF PollOpen, IdAfter, peer_streams_left_bidi
  <2>2. \A s \in Streams : /\ Read(s) \in parked' => Read(s) \in parked
                           /\ Write(s) \in parked' => Write(s) \in parked
    BY <1>5, RolesDiffer DEF PollOpen, Returns, Parks
  <2>3. CASE UNCHANGED <<handle, next_id>>
    BY <1>2, <2>1, <2>2, <2>3
  <2>4. CASE /\ next_id \in LocalStreams /\ next_id' = next_id + 4
             /\ handle' = handle \/ handle' = [handle EXCEPT ![next_id] = "held"]
    <3>1. next_id \in Nat /\ next_id \in Streams /\ next_id \notin PeerStreams
      BY <2>4, Sides DEF Streams
    <3>2. handle[next_id] = "none" /\ next_id \notin closing
      <4>1. ~(next_id < next_id)
        BY <3>1
      <4> QED BY <2>4, <3>1, <4>1 DEF Queue, Known, TypeOK
    <3>3. handle'[next_id] \in {"none", "held"} /\ \A s \in Streams : s # next_id => handle'[s] = handle[s]
      BY <2>4, <3>1, <3>2 DEF TypeOK
    <3>4. \A s \in LocalStreams : s < next_id => s < next_id'
      BY <2>4, <3>1, Sides
    <3>5. next_id < next_id'
      BY <2>4, <3>1
    <3>6. \A i \in DOMAIN fifo : fifo[i] # next_id /\ fifo[i] \in Streams
      BY <3>1, ElementOfSeq, LenProperties DEF TypeOK, Streams
    <3>7. OfferedOnce'
      BY <2>1, <3>3, <3>6 DEF Queue, OfferedOnce
    <3>8. Holders'
      BY <2>1, <2>2, <3>2, <3>3 DEF Queue, Holders
    <3>9. Known'
      <4>1. \A s \in PeerStreams : handle'[s] # "none" => s <= current'
        BY <2>1, <3>1, <3>3 DEF Queue, Known, Streams
      <4>2. \A s \in LocalStreams : handle'[s] # "none" => s < next_id'
        BY <3>3, <3>4, <3>5 DEF Queue, Known, Streams
      <4>3. \A s \in closing' : handle'[s] = "dropped"
        BY <2>1, <3>2, <3>3 DEF Queue, Known, TypeOK
      <4> QED BY <4>1, <4>2, <4>3 DEF Known
    <3> QED BY <3>7, <3>8, <3>9 DEF Queue
  <2> QED BY <2>1, <2>3, <2>4
<1>6. ASSUME NEW s \in Streams, PollRead(s)
      PROVE  Queue'
  <2>1. UNCHANGED <<fifo, current, closing, next_id, handle>> /\ handle[s] = "held"
    BY <1>6 DEF PollRead
  <2>2. parked' \subseteq parked \cup {Read(s)}
    BY <1>6 DEF PollRead, Returns, ReturnsAndWakesSend, Parks
  <2>3. ASSUME NEW x \in Streams, Read(x) \in parked' \/ Write(x) \in parked'
        PROVE  Read(x) \in parked \/ Write(x) \in parked \/ handle[x] = "held"
    <3>1. (Read(x) = Read(s) => x = s) /\ Write(x) # Read(s)
      BY DEF Read, Write
    <3> QED BY <2>1, <2>2, <2>3, <3>1
  <2> QED BY <1>2, <2>1, <2>3
<1>7. ASSUME NEW s \in Streams, PollWrite(s)
      PROVE  Queue'
  <2>1. UNCHANGED <<fifo, current, closing, next_id, handle>> /\ handle[s] = "held"
    BY <1>7 DEF PollWrite
  <2>2. parked' \subseteq parked \cup {Write(s)}
    BY <1>7 DEF PollWrite, Returns, ReturnsAndWakesSend, Parks
  <2>3. ASSUME NEW x \in Streams, Read(x) \in parked' \/ Write(x) \in parked'
        PROVE  Read(x) \in parked \/ Write(x) \in parked \/ handle[x] = "held"
    <3>1. (Write(x) = Write(s) => x = s) /\ Read(x) # Write(s)
      BY DEF Read, Write
    <3> QED BY <2>1, <2>2, <2>3, <3>1
  <2> QED BY <1>2, <2>1, <2>3
<1>8. ASSUME NEW s \in Streams, DropStream(s)
      PROVE  Queue'
  <2>1. /\ handle[s] = "held" /\ Read(s) \notin parked /\ Write(s) \notin parked
        /\ handle' = [handle EXCEPT ![s] = "dropped"] /\ UNCHANGED <<current, fifo, next_id, parked>>
        /\ closing' \subseteq closing \cup {s}
    BY <1>8 DEF DropStream
  <2>2. handle'[s] = "dropped" /\ \A x : x # s => handle'[x] = handle[x]
    BY <2>1 DEF TypeOK
  <2>3. OfferedOnce'
    BY <2>1, <2>2 DEF Queue, OfferedOnce
  <2>4. Holders' /\ Known'
    BY <2>1, <2>2 DEF Queue, Holders, Known
  <2> QED BY <2>3, <2>4 DEF Queue
<1>9. ASSUME NEW r \in Roles, Cancel(r)
      PROVE  Queue'
  BY <1>2, <1>9 DEF Cancel, state
<1>10. CASE Quiet
  BY <1>2, <1>10 DEF Quiet, state
<1>11. CASE Local
  BY <1>3, <1>4, <1>5, <1>6, <1>7, <1>8, <1>9, <1>11 DEF Local
<1> QED BY <1>1, <1>10, <1>11, Steps

-----------------------------------------------------------------------------
\* The timers in front of a packet may end the connection or ask for a probe.
LEMMA TimersEndIt ==
  ASSUME TypeOK
  PROVE  \A c \in BeforeSend : c.conn \in {conn, "closed"} /\ c.work \in BOOLEAN
<1> DEFINE Cs == {c \in [conn : {conn, "closed"}, work : BOOLEAN] : TRUE}
<1>1. [conn |-> conn, work |-> work] \in Cs
  BY DEF TypeOK
<1>2. ASSUME NEW c \in Cs
      PROVE  AfterTimeout(c) \subseteq Cs
  <2>1. [c EXCEPT !.work = TRUE] \in Cs /\ [conn |-> "closed", work |-> FALSE] \in Cs
    OBVIOUS
  <2> HIDE DEF Cs
  <2> QED BY <2>1 DEF AfterTimeout
<1>3. \A c \in Cs : c.conn \in {conn, "closed"} /\ c.work \in BOOLEAN
  OBVIOUS
<1> HIDE DEF Cs
<1> DEFINE first == IF timer = "expired" THEN AfterTimeout([conn |-> conn, work |-> work])
                                         ELSE {[conn |-> conn, work |-> work]}
<1>4. first \subseteq Cs
  BY <1>1, <1>2
<1>5. BeforeSend = first \cup UNION {AfterTimeout(c) : c \in
                         {x \in first : ~HasPacket(x) /\ x.conn # "closed"}}
  BY DEF BeforeSend
<1> HIDE DEF first
<1>6. BeforeSend \subseteq Cs
  BY <1>2, <1>4, <1>5
<1> QED BY <1>3, <1>6

LEMMA TypeStep ==
  ASSUME TypeOK, Queue, [Next]_vars
  PROVE  TypeOK'
<1>1. ASSUME NEW E, NEW W, NEW rcv, NEW limit, Received(E, W, rcv, limit)
      PROVE  TypeOK'
  <2>1. /\ E \in SUBSET Streams /\ StatEvents(E, W, rcv, limit, {Send})
        /\ rcv \in [Streams -> RxStates] /\ conn' \in {"open", "closing", "draining", "closed"}
        /\ work' \in BOOLEAN /\ maxStreams' \in Nat /\ writable' \subseteq Streams
        /\ UNCHANGED <<opened, next_id, timer, handle, parked, sendLoop>>
    BY <1>1 DEF Received, TypeOK
  <2>2. fifo' \in Seq(PeerStreams) /\ current' \in {0} \cup PeerStreams
    <3>1. /\ fifo' = fifo \o Ascending(FirstSeen(E))
          /\ current' = IF FirstSeen(E) = {} THEN current ELSE Max(FirstSeen(E))
      BY <2>1 DEF StatEvents
    <3> QED BY <2>1, <3>1, QueueGrows
  <2>3. \A s \in Streams : closing_recv(rcv[s]) \in RxStates
    BY DEF closing_recv, RxStates
  <2>4. rx' \in [Streams -> RxStates]
    BY <2>1, <2>3 DEF StatEvents
  <2>5. closing' \subseteq Streams /\ wakers' \subseteq Roles /\ woken' \subseteq Roles
    BY <2>1 DEF StatEvents, Wake, TypeOK
  <2> QED BY <2>1, <2>2, <2>4, <2>5 DEF TypeOK, RxStates
<1>2. ASSUME NEW r \in Roles,
             (Returns(r) /\ UNCHANGED wakers) \/ Parks(r) \/ ReturnsAndWakesSend(r)
      PROVE  parked' \subseteq Roles /\ woken' \subseteq Roles /\ wakers' \subseteq Roles
  BY <1>2, RolesAre DEF Returns, Parks, ReturnsAndWakesSend, TypeOK
<1>3. CASE PollSend
  <2>1. \A c \in BeforeSend : c.conn \in {conn, "closed"} /\ c.work \in BOOLEAN
    BY TimersEndIt
  <2>2. /\ conn' \in {"open", "closing", "draining", "closed"} /\ work' \in BOOLEAN
        /\ timer' \in {"none", "armed", "expired"} /\ sendLoop' \in LoopStates
        /\ parked' \subseteq Roles /\ wakers' \subseteq Roles /\ woken' \subseteq Roles
    BY <1>3, <2>1, RolesAre DEF PollSend, TypeOK, Parks, LoopStates, TimerTaken
  <2> QED BY <1>3, <2>2 DEF PollSend, TypeOK, LoopStates
<1>4. CASE TimerExpires \/ Close
  BY <1>4, RolesAre DEF TimerExpires, Close, Wake, TypeOK, quiche
<1>5. CASE PollAccept
  <2>1. parked' \subseteq Roles /\ woken' \subseteq Roles /\ wakers' \subseteq Roles
    BY <1>2, <1>5, RolesAre DEF PollAccept
  <2>2. fifo' \in Seq(PeerStreams) /\ handle' \in [Streams -> {"none", "held", "dropped"}]
    <3>1. CASE fifo # <<>>
      <4>1. Head(fifo) \in Streams /\ Tail(fifo) \in Seq(PeerStreams)
        BY <3>1, TailKeepsQueue DEF Queue, Streams
      <4> QED BY <1>5, <3>1, <4>1 DEF PollAccept, TypeOK
    <3>2. CASE fifo = <<>>
      BY <1>5, <3>2 DEF PollAccept, TypeOK
    <3> QED BY <3>1, <3>2
  <2> QED BY <1>5, <2>1, <2>2 DEF PollAccept, TypeOK, quiche
<1>6. ASSUME NEW try \in BOOLEAN, PollOpen(try)
      PROVE  TypeOK'
  <2>1. parked' \subseteq Roles /\ woken' \subseteq Roles /\ wakers' \subseteq Roles
    BY <1>2, <1>6, RolesAre DEF PollOpen
  <2>2. Max({opened, Sequence(next_id)}) \in Nat
    <3>1. opened \in Nat /\ Sequence(next_id) \in Nat
      BY Sides DEF Sequence, TypeOK
    <3>2. \A a, b \in Nat : a <= b \/ b <= a
      OBVIOUS
    <3>3. \A a, b \in Nat : {a, b} = {b, a}
      OBVIOUS
    <3> DEFINE q == Sequence(next_id)
    <3> HIDE DEF q
    <3>4. Max({opened, q}) \in {opened, q}
      <4>1. opened \in Nat /\ q \in Nat
        BY <3>1 DEF q
      <4>2. opened <= q => Max({opened, q}) = q
        BY <4>1, MaxOfTwo
      <4>3. q <= opened => Max({q, opened}) = opened
        BY <4>1, MaxOfTwo
      <4>4. {q, opened} = {opened, q}
        OBVIOUS
      <4>5. q <= opened => Max({opened, q}) = opened
        BY <4>3, <4>4
      <4> QED BY <3>2, <4>1, <4>2, <4>5
    <3> QED BY <3>1, <3>4 DEF q
  <2>3. /\ next_id' \in Nat /\ opened' \in Nat /\ writable' \subseteq Streams
        /\ rx' \in [Streams -> RxStates]
        /\ handle' \in [Streams -> {"none", "held", "dropped"}]
    <3>1. UNCHANGED <<opened, handle, rx, writable, next_id>> \/ next_id \in LocalStreams
      <4>1. maxStreams - opened \in Int
        BY DEF TypeOK
      <4> QED BY <1>6, <4>1 DEF PollOpen, peer_streams_left_bidi
    <3>2. CASE UNCHANGED <<opened, handle, rx, writable, next_id>>
      BY <3>2 DEF TypeOK, RxStates
    <3>3. CASE next_id \in LocalStreams
      <4>1. next_id \in Streams /\ next_id \in Nat
        BY <3>3, Sides DEF Streams
      <4>2. next_id' \in Nat /\ opened' \in Nat
        BY <1>6, <2>2, <4>1 DEF PollOpen, IdAfter, TypeOK
      <4>3. writable' \subseteq Streams
        BY <1>6, <4>1 DEF PollOpen, TypeOK
      <4>4. rx' \in [Streams -> RxStates] /\ handle' \in [Streams -> {"none", "held", "dropped"}]
        BY <1>6, <4>1 DEF PollOpen, TypeOK, RxStates
      <4> QED BY <4>2, <4>3, <4>4
    <3> QED BY <3>1, <3>2, <3>3
  <2> QED BY <1>6, <2>1, <2>3 DEF PollOpen, TypeOK, RxStates
<1>7. ASSUME NEW s \in Streams, PollRead(s) \/ PollWrite(s)
      PROVE  TypeOK'
  <2>1. parked' \subseteq Roles /\ woken' \subseteq Roles /\ wakers' \subseteq Roles
    BY <1>2, <1>7, RolesAre DEF PollRead, PollWrite
  <2>2. /\ rx' \in [Streams -> RxStates] /\ writable' \subseteq Streams /\ work' \in BOOLEAN
    BY <1>7 DEF PollRead, PollWrite, TypeOK, RxStates
  <2> QED BY <1>7, <2>1, <2>2 DEF PollRead, PollWrite, TypeOK, RxStates
<1>8. ASSUME NEW s \in Streams, DropStream(s)
      PROVE  TypeOK'
  <2>1. closing_recv(rx[s]) \in RxStates
    BY DEF closing_recv, RxStates
  <2>2. /\ rx' \in [Streams -> RxStates] /\ work' \in BOOLEAN
        /\ closing' \subseteq Streams /\ wakers' \subseteq Roles /\ woken' \subseteq Roles
        /\ handle' \in [Streams -> {"none", "held", "dropped"}]
    BY <1>8, <2>1 DEF DropStream, TypeOK, Wake, RxStates
  <2> QED BY <1>8, <2>2 DEF DropStream, TypeOK, RxStates
<1>9. ASSUME NEW r \in Roles, Cancel(r)
      PROVE  TypeOK'
  BY <1>9 DEF Cancel, TypeOK, quiche, state
<1>10. CASE Quiet
  BY <1>10 DEF TypeOK, Quiet, LoopStates, quiche, state
<1>11. CASE Local
  BY <1>3, <1>4, <1>5, <1>6, <1>7, <1>8, <1>9, <1>11 DEF Local
<1> QED BY <1>1, <1>10, <1>11, Steps

-----------------------------------------------------------------------------
\* No wake-up is lost.  Clause by clause: what each task waits for.
SendSleeps == Asleep(Send) => ~(work /\ conn \in {"open", "closing"}) /\ timer # "expired"
AcceptSleeps == Asleep(Accept) => fifo = <<>>
OpenSleeps == Asleep(Open) => peer_streams_left_bidi <= 0
StreamsSleep ==
  \A s \in Streams : /\ Asleep(Read(s)) => ~Readable(s)
                     /\ Asleep(Write(s)) => s \notin writable

LEMMA Clauses ==
  /\ NoLostWakeup <=> SendSleeps /\ AcceptSleeps /\ OpenSleeps /\ StreamsSleep
  /\ NoLostWakeup' <=> SendSleeps' /\ AcceptSleeps' /\ OpenSleeps' /\ StreamsSleep'
BY DEF NoLostWakeup, SendSleeps, AcceptSleeps, OpenSleeps, StreamsSleep

\* A step after which nobody new sleeps and that brings nothing anybody waits for.
LEMMA NothingArrives ==
  ASSUME NoLostWakeup, NEW r0,
         \A r \in Roles : r # r0 /\ Asleep(r)' => Asleep(r),
         UNCHANGED <<fifo, rx, writable, opened, maxStreams>>,
         r0 = Send => SendSleeps',
         r0 # Send => SendSleeps' \/ UNCHANGED <<work, conn, timer>>,
         r0 = Accept => AcceptSleeps', r0 = Open => OpenSleeps',
         \A s \in Streams : /\ r0 = Read(s) => ~Readable(s) \/ ~Asleep(Read(s))'
                            /\ r0 = Write(s) => s \notin writable \/ ~Asleep(Write(s))'
  PROVE  NoLostWakeup'
<1>1. SendSleeps'
  BY RolesAre, Clauses DEF SendSleeps
<1>2. AcceptSleeps'
  BY RolesAre, Clauses DEF AcceptSleeps
<1>3. OpenSleeps'
  BY RolesAre, Clauses DEF OpenSleeps, peer_streams_left_bidi
<1>4. StreamsSleep'
  <2>1. ASSUME NEW s \in Streams
        PROVE  /\ Asleep(Read(s))' => ~Readable(s)'
               /\ Asleep(Write(s))' => s \notin writable'
    <3>1. Read(s) \in Roles /\ Write(s) \in Roles
      BY RolesAre
    <3>2. Readable(s)' = Readable(s)
      BY DEF Readable
    <3> QED BY <3>1, <3>2, Clauses DEF StreamsSleep
  <2> QED BY <2>1 DEF StreamsSleep
<1> QED BY <1>1, <1>2, <1>3, <1>4, Clauses

\* The events of a packet: whoever waits for one of them is woken, and a stream
\* whose reader is not woken because it is new has no reader yet.
LEMMA EventsWake ==
  ASSUME TypeOK, SleepersAreKnown, Queue, NoLostWakeup,
         NEW E, NEW W, NEW rcv, NEW limit, Received(E, W, rcv, limit)
  PROVE  NoLostWakeup'
<1> DEFINE new == FirstSeen(E)
           R == {Read(s) : s \in E \ new} \cup {Write(s) : s \in W}
                  \cup Common(fifo', limit - opened) \cup {Send}
<1>1. /\ E \in SUBSET Streams /\ W \in SUBSET Streams /\ StatEvents(E, W, rcv, limit, {Send})
      /\ maxStreams' = limit /\ opened' = opened /\ writable' = writable \cup W /\ parked' = parked
      /\ rcv \in [Streams -> RxStates]
      /\ \A s \in Streams \ E : rcv[s] = rx[s] \/ Readable(s)
      /\ limit - opened \in Int
  BY DEF Received, TypeOK
<1>2. Wake(R)
  BY <1>1 DEF StatEvents
<1>3. \A r \in Roles : Asleep(r)' => Asleep(r) /\ r \notin R
  BY <1>1, <1>2, WakeWakes
<1>4. Send \in R /\ (fifo' # <<>> => Accept \in R) /\ (limit - opened > 0 => Open \in R)
  BY DEF Common
<1>5. /\ \A s \in E \ new : Read(s) \in R
      /\ \A s \in W : Write(s) \in R
  OBVIOUS
<1>6. \A s \in new : Read(s) \notin parked
  BY <1>1, NewIsNobodys
<1>7. \A s \in Streams : s \notin E => rx'[s] = rcv[s]
  BY <1>1 DEF StatEvents, Collected
<1> HIDE DEF R, new
<1>8. SendSleeps' /\ AcceptSleeps'
  BY <1>3, <1>4, RolesAre DEF SendSleeps, AcceptSleeps
<1>9. OpenSleeps'
  <2>1. peer_streams_left_bidi' = limit - opened
    BY <1>1 DEF peer_streams_left_bidi
  <2> QED BY <1>1, <1>3, <1>4, <2>1, RolesAre DEF OpenSleeps
<1>10. ASSUME NEW s \in Streams, Asleep(Read(s))'
       PROVE  ~Readable(s)'
  <2>1. Asleep(Read(s)) /\ Read(s) \notin R /\ Read(s) \in parked
    BY <1>1, <1>3, <1>10, RolesAre DEF Asleep
  <2>2. s \notin E /\ ~Readable(s)
    BY <1>5, <1>6, <2>1, Clauses DEF StreamsSleep
  <2> QED BY <1>1, <1>7, <2>2 DEF Readable
<1>11. ASSUME NEW s \in Streams, Asleep(Write(s))'
       PROVE  s \notin writable'
  BY <1>1, <1>3, <1>5, <1>11, RolesAre, Clauses DEF StreamsSleep
<1> QED BY <1>8, <1>9, <1>10, <1>11, Clauses DEF StreamsSleep

LEMMA NoLostWakeupStep ==
  ASSUME TypeOK, SleepersAreKnown, Queue, NoLostWakeup, [Next]_vars
  PROVE  NoLostWakeup'
<1>1. CASE PollSend
  <2>1. \A r \in Roles : r # Send /\ Asleep(r)' => Asleep(r)
    <3>1. /\ parked' \ {Send} \subseteq parked
          /\ woken \ {Send} \subseteq woken'
      BY <1>1 DEF PollSend, Parks
    <3> QED BY <3>1 DEF Asleep
  <2>2. SendSleeps'
    <3>1. PICK c \in BeforeSend :
            \/ parked' = parked \ {Send}
            \/ /\ ~HasPacket(c) /\ conn' = c.conn /\ work' = c.work
               /\ timer' \in {"armed", "none"}
      BY <1>1 DEF PollSend
    <3>2. CASE parked' = parked \ {Send}
      BY <3>2 DEF SendSleeps, Asleep
    <3>3. CASE ~HasPacket(c) /\ conn' = c.conn /\ work' = c.work /\ timer' \in {"armed", "none"}
      BY <3>3 DEF SendSleeps, HasPacket
    <3> QED BY <3>1, <3>2, <3>3
  <2>3. UNCHANGED <<fifo, rx, writable, opened, maxStreams>>
    BY <1>1 DEF PollSend
  <2> QED BY <2>1, <2>2, <2>3, RolesDiffer, NothingArrives
<1>2. CASE TimerExpires
  <2>1. \A r \in Roles : Asleep(r)' => Asleep(r) /\ r # Send
    BY <1>2 DEF TimerExpires, Asleep
  <2>2. SendSleeps'
    BY <2>1, RolesAre DEF SendSleeps
  <2>3. UNCHANGED <<fifo, rx, writable, opened, maxStreams>>
    BY <1>2 DEF TimerExpires, quiche
  <2> QED BY <2>1, <2>2, <2>3, RolesDiffer, NothingArrives
<1>3. CASE Close
  <2>1. \A r \in Roles : Asleep(r)' => Asleep(r) /\ r # Send
    BY <1>3, WakeWakes DEF Close
  <2>2. SendSleeps'
    BY <2>1, RolesAre DEF SendSleeps
  <2>3. UNCHANGED <<fifo, rx, writable, opened, maxStreams>>
    BY <1>3 DEF Close
  <2> QED BY <2>1, <2>2, <2>3, RolesDiffer, NothingArrives
<1>4. ASSUME NEW r, Returns(r) \/ Parks(r) \/ ReturnsAndWakesSend(r)
      PROVE  /\ \A x \in Roles : x # r /\ Asleep(x)' => Asleep(x)
             /\ Returns(r) \/ ReturnsAndWakesSend(r) => ~Asleep(r)'
             /\ ReturnsAndWakesSend(r) => ~Asleep(Send)'
  BY <1>4, RolesAre DEF Returns, Parks, ReturnsAndWakesSend, Asleep, SleepersAreKnown
<1>5. CASE PollAccept
  <2>1. UNCHANGED <<rx, writable, opened, maxStreams, work, conn, timer>>
    BY <1>5 DEF PollAccept, quiche
  <2>2. \A x \in Roles : x # Accept /\ Asleep(x)' => Asleep(x)
    BY <1>4, <1>5 DEF PollAccept
  <2>3. AcceptSleeps'
    BY <1>4, <1>5 DEF PollAccept, AcceptSleeps, Parks
  <2>4. SendSleeps' /\ OpenSleeps'
    BY <2>1, <2>2, RolesAre, RolesDiffer, Clauses DEF SendSleeps, OpenSleeps, peer_streams_left_bidi
  <2>5. ASSUME NEW s \in Streams
        PROVE  /\ Asleep(Read(s))' => ~Readable(s)'
               /\ Asleep(Write(s))' => s \notin writable'
    <3>1. Read(s) \in Roles /\ Write(s) \in Roles /\ Read(s) # Accept /\ Write(s) # Accept
      BY RolesAre DEF Read, Write, Accept
    <3> QED BY <2>1, <2>2, <3>1, Clauses DEF StreamsSleep, Readable
  <2> QED BY <2>3, <2>4, <2>5, Clauses DEF StreamsSleep
<1>6. ASSUME NEW try \in BOOLEAN, PollOpen(try)
      PROVE  NoLostWakeup'
  <2>1. UNCHANGED <<fifo, maxStreams, work, conn, timer>> /\ maxStreams - opened \in Int
    BY <1>6 DEF PollOpen, TypeOK
  <2>2. \A x \in Roles : x # Open /\ Asleep(x)' => Asleep(x) /\ x \in parked
    BY <1>4, <1>6 DEF PollOpen, Asleep
  <2>3. SendSleeps' /\ AcceptSleeps'
    BY <2>1, <2>2, RolesAre, RolesDiffer, Clauses DEF SendSleeps, AcceptSleeps
  <2>4. OpenSleeps'
    BY <1>4, <1>6, <2>1 DEF PollOpen, OpenSleeps, Parks, peer_streams_left_bidi
  <2>5. /\ \A s \in Streams : s # next_id => rx'[s] = rx[s] /\ (s \in writable' => s \in writable)
        /\ UNCHANGED <<rx, writable>> \/ next_id \in LocalStreams
    BY <1>6, <2>1 DEF PollOpen, TypeOK, peer_streams_left_bidi
  <2>6. ASSUME NEW s \in Streams
        PROVE  /\ Asleep(Read(s))' => ~Readable(s)'
               /\ Asleep(Write(s))' => s \notin writable'
    <3>1. Read(s) \in Roles /\ Write(s) \in Roles /\ Read(s) # Open /\ Write(s) # Open
      BY RolesAre DEF Read, Write, Open
    <3>2. CASE s # next_id \/ UNCHANGED <<rx, writable>>
      BY <2>2, <2>5, <3>1, <3>2, Clauses DEF StreamsSleep, Readable
    <3>3. CASE s = next_id /\ next_id \in LocalStreams
      <4>1. ~(next_id < next_id)
        BY <3>3, Sides
      <4>2. handle[s] = "none"
        BY <3>3, <4>1 DEF Queue, Known, TypeOK
      <4>3. Read(s) \notin parked /\ Write(s) \notin parked
        BY <4>2 DEF Queue, Holders
      <4> QED BY <2>2, <3>1, <4>3
    <3> QED BY <2>5, <3>2, <3>3
  <2> QED BY <2>3, <2>4, <2>6, Clauses DEF StreamsSleep
<1>7. ASSUME NEW s \in Streams, PollRead(s)
      PROVE  NoLostWakeup'
  <2>1. /\ UNCHANGED <<conn, writable, opened, maxStreams, fifo, timer>>
        /\ \A x \in Streams : x # s => rx'[x] = rx[x]
    BY <1>7 DEF PollRead, TypeOK
  <2>2. \A x \in Roles : x # Read(s) /\ Asleep(x)' => Asleep(x)
    BY <1>4, <1>7 DEF PollRead
  <2>3. Asleep(Read(s))' => ~Readable(s) /\ rx' = rx
    BY <1>4, <1>7 DEF PollRead
  <2>4. Asleep(Send)' => work' = work
    BY <1>4, <1>7 DEF PollRead
  <2>5. /\ Send \in Roles /\ Accept \in Roles /\ Open \in Roles
        /\ Read(s) \notin {Send, Accept, Open}
    BY RolesAre, RolesDiffer
  <2>6. SendSleeps' /\ AcceptSleeps' /\ OpenSleeps'
    BY <2>1, <2>2, <2>4, <2>5, Clauses DEF SendSleeps, AcceptSleeps, OpenSleeps, peer_streams_left_bidi
  <2>7. ASSUME NEW x \in Streams
        PROVE  /\ Asleep(Read(x))' => ~Readable(x)'
               /\ Asleep(Write(x))' => x \notin writable'
    <3>1. /\ Read(x) \in Roles /\ Write(x) \in Roles /\ Write(x) # Read(s)
          /\ Read(x) = Read(s) => x = s
      BY RolesAre DEF Read, Write
    <3> QED BY <2>1, <2>2, <2>3, <3>1, Clauses DEF StreamsSleep, Readable
  <2> QED BY <2>6, <2>7, Clauses DEF StreamsSleep
<1>8. ASSUME NEW s \in Streams, PollWrite(s)
      PROVE  NoLostWakeup'
  <2>1. /\ UNCHANGED <<conn, rx, opened, maxStreams, fifo, timer>> /\ writable' \subseteq writable
    BY <1>8 DEF PollWrite
  <2>2. \A x \in Roles : x # Write(s) /\ Asleep(x)' => Asleep(x)
    BY <1>4, <1>8 DEF PollWrite
  <2>3. Asleep(Write(s))' => s \notin writable
    BY <1>4, <1>8 DEF PollWrite
  <2>4. Asleep(Send)' => work' = work
    BY <1>4, <1>8 DEF PollWrite
  <2>5. /\ Send \in Roles /\ Accept \in Roles /\ Open \in Roles
        /\ Write(s) \notin {Send, Accept, Open}
    BY RolesAre, RolesDiffer
  <2>6. SendSleeps' /\ AcceptSleeps' /\ OpenSleeps'
    BY <2>1, <2>2, <2>4, <2>5, Clauses DEF SendSleeps, AcceptSleeps, OpenSleeps, peer_streams_left_bidi
  <2>7. ASSUME NEW x \in Streams
        PROVE  /\ Asleep(Read(x))' => ~Readable(x)'
               /\ Asleep(Write(x))' => x \notin writable'
    <3>1. /\ Read(x) \in Roles /\ Write(x) \in Roles /\ Read(x) # Write(s)
          /\ Write(x) = Write(s) => x = s
      BY RolesAre DEF Read, Write
    <3> QED BY <2>1, <2>2, <2>3, <3>1, Clauses DEF StreamsSleep, Readable
  <2> QED BY <2>6, <2>7, Clauses DEF StreamsSleep
<1>9. ASSUME NEW s \in Streams, DropStream(s)
      PROVE  NoLostWakeup'
  <2>1. /\ UNCHANGED <<conn, writable, opened, maxStreams, fifo, timer, parked>>
        /\ Read(s) \notin parked
        /\ \A x \in Streams : x # s => rx'[x] = rx[x]
    BY <1>9 DEF DropStream, TypeOK
  <2>2. (\A x \in Roles : Asleep(x)' => Asleep(x)) /\ (Asleep(Send)' => work' = work)
    <3>1. CASE UNCHANGED <<woken, work>>
      BY <2>1, <3>1 DEF Asleep
    <3>2. CASE Wake({Send})
      BY <2>1, <3>2, WakeWakes, RolesAre
    <3> QED BY <1>9, <3>1, <3>2 DEF DropStream
  <2>3. SendSleeps' /\ AcceptSleeps' /\ OpenSleeps'
    BY <2>1, <2>2, RolesAre, Clauses DEF SendSleeps, AcceptSleeps, OpenSleeps, peer_streams_left_bidi
  <2>4. ASSUME NEW x \in Streams
        PROVE  /\ Asleep(Read(x))' => ~Readable(x)'
               /\ Asleep(Write(x))' => x \notin writable'
    <3>1. Read(x) \in Roles /\ Write(x) \in Roles
      BY RolesAre
    <3>2. Asleep(Read(x))' => x # s
      BY <2>1 DEF Asleep
    <3> QED BY <2>1, <2>2, <3>1, <3>2, Clauses DEF StreamsSleep, Readable
  <2> QED BY <2>3, <2>4, Clauses DEF StreamsSleep
<1>10. ASSUME UNCHANGED <<fifo, rx, writable, opened, maxStreams, work, conn, timer>>,
              \A x \in Roles : Asleep(x)' => Asleep(x)
       PROVE  NoLostWakeup'
  <2>2. SendSleeps' /\ AcceptSleeps' /\ OpenSleeps'
    BY <1>10, RolesAre, Clauses DEF SendSleeps, AcceptSleeps, OpenSleeps, peer_streams_left_bidi
  <2>3. StreamsSleep'
    BY <1>10, RolesAre, Clauses DEF StreamsSleep, Readable
  <2> QED BY <2>2, <2>3, Clauses
<1>11. ASSUME NEW r \in Roles, Cancel(r)
       PROVE  NoLostWakeup'
  BY <1>10, <1>11 DEF Cancel, quiche, state, Asleep
<1>12. CASE Quiet
  BY <1>10, <1>12 DEF Quiet, quiche, state, Asleep
<1>13. CASE Local
  BY <1>1, <1>2, <1>3, <1>5, <1>6, <1>7, <1>8, <1>9, <1>11, <1>13 DEF Local
<1> QED BY <1>12, <1>13, EventsWake, Steps

-----------------------------------------------------------------------------
CInv == TypeOK /\ SleepersAreKnown /\ Queue /\ NextIdInStep /\ NoLostWakeup

LEMMA CInvInit ==
  ASSUME Init
  PROVE  CInv
<1>1. TypeOK
  <2>1. 4 + Parity \in Nat /\ <<>> \in Seq(PeerStreams)
    BY Sides, EmptySeq
  <2>2. next_id \in Nat /\ fifo \in Seq(PeerStreams) /\ maxStreams \in Nat /\ opened \in Nat
    BY <2>1, InitialMaxStreamsAssumption DEF Init
  <2>3. /\ rx \in [Streams -> {"absent", "empty", "data", "fin", "end", "finished"}]
        /\ handle \in [Streams -> {"none", "held", "dropped"}]
    BY DEF Init
  <2>4. current \in {0} \cup PeerStreams
    BY DEF Init
  <2>5. wakers \subseteq Roles /\ parked \subseteq Roles /\ woken \subseteq Roles
        /\ writable \subseteq Streams /\ closing \subseteq Streams
    BY DEF Init
  <2>6. conn = "open" /\ work = FALSE /\ timer = "none" /\ sendLoop = "polls"
    BY DEF Init
  <2> QED BY <2>2, <2>3, <2>4, <2>5, <2>6 DEF TypeOK
<1>2. SleepersAreKnown /\ NoLostWakeup
  BY DEF Init, SleepersAreKnown, NoLostWakeup, Asleep
<1>3. Queue
  BY DEF Init, Queue, OfferedOnce, Holders, Known, Streams
<1>4. NextIdInStep
  BY InitialMaxStreamsAssumption DEF Init, NextIdInStep
<1> QED BY <1>1, <1>2, <1>3, <1>4 DEF CInv

LEMMA CInvariance == Spec => []CInv
<1>1. Init => CInv
  BY CInvInit
<1>2. CInv /\ [Next]_vars => CInv'
  BY TypeStep, SleepersAreKnownStep, QueueStep, CountingStep, NoLostWakeupStep DEF CInv
<1> QED BY <1>1, <1>2, PTL DEF Spec

\* The connection's state stays within its types (QuicConnState, conn.rs).
THEOREM ConnTypeCorrect == Spec => []TypeOK
<1>1. CInv => TypeOK
  BY DEF CInv
<1> QED BY <1>1, CInvariance, PTL

\* Whatever a task of the connection waits for has not happened while it sleeps.
THEOREM NoWakeupIsLost == Spec => []NoLostWakeup
<1>1. CInv => NoLostWakeup
  BY DEF CInv
<1> QED BY <1>1, CInvariance, PTL

\* Whoever sleeps left its waker where the next event finds it.
THEOREM SleepersAreReachable == Spec => []SleepersAreKnown
<1>1. CInv => SleepersAreKnown
  BY DEF CInv
<1> QED BY <1>1, CInvariance, PTL

\* Accept hands out every stream of the peer at most once, in the order of ids.
THEOREM StreamsAreOfferedOnce == Spec => []OfferedOnce
<1>1. CInv => OfferedOnce
  BY DEF CInv, Queue
<1> QED BY <1>1, CInvariance, PTL

\* Credit never underflows, and once a stream is open the id generator keeps in
\* step with the streams quiche counts (try_open and poll_stream_open, conn.rs).
THEOREM IdsKeepInStep == Spec => []NextIdInStep
<1>1. CInv => NextIdInStep
  BY DEF CInv
<1> QED BY <1>1, CInvariance, PTL

-----------------------------------------------------------------------------
\* When the peer's streams are first heard of in the order of their ids, the
\* largest id seen tells which streams quiche knows, and each was queued.
Heard == \A s \in PeerStreams : rx[s] # "absent" <=> s <= current
AllOffered == Heard /\ EveryInboundOffered

LEMMA OfferedStep ==
  ASSUME InOrder, CInv, AllOffered, [Next]_vars
  PROVE  AllOffered'
<1>1. ASSUME NEW E, NEW W, NEW rcv, NEW limit, Received(E, W, rcv, limit)
      PROVE  AllOffered'
  <2> DEFINE new == FirstSeen(E)
  <2>1. /\ E \in SUBSET Streams /\ StatEvents(E, W, rcv, limit, {Send}) /\ handle' = handle
        /\ \A s \in E : rcv[s] # "absent"
        /\ \A s \in Streams \ E : rcv[s] = "absent" <=> rx[s] = "absent"
        /\ \A s \in E \cap PeerStreams : rx[s] = "absent" =>
              \A x \in PeerStreams \ E : x < s => rx[x] # "absent"
    BY <1>1 DEF Received
  <2>2. /\ fifo' = fifo \o Ascending(new)
        /\ current' = IF new = {} THEN current ELSE Max(new)
    BY <2>1 DEF StatEvents
  <2>3. /\ new = {s \in E \cap PeerStreams : current < s} /\ new \subseteq Nat /\ IsFiniteSet(new)
        /\ new # {} => Max(new) \in new
    BY <2>1, FirstSeenIs, MaxIsLargest
  <2>4. /\ current <= current' /\ \A s \in new : s <= current'
        /\ \A s : (\E i \in DOMAIN fifo' : fifo'[i] = s) <=>
                     (\E i \in DOMAIN fifo : fifo[i] = s) \/ s \in new
    BY <2>1, <2>2, QueueGrows DEF CInv
  <2>5. current \in Nat /\ current' \in Nat /\ PeerStreams \subseteq Nat /\ PeerStreams \subseteq Streams
    BY <2>2, <2>3, Sides DEF CInv, TypeOK, Streams
  <2>6. \A s \in Streams : rx'[s] # "absent" <=> rx[s] # "absent" \/ s \in E
    <3>1. \A s \in Streams : closing_recv(rcv[s]) # "absent"
      BY DEF closing_recv
    <3>2. \A s \in Collected(E \ FirstSeen(E)) : s \in E
      BY DEF Collected
    <3> QED BY <2>1, <3>1, <3>2 DEF StatEvents
  <2>7. current' = current \/ (current' \in new)
    BY <2>2, <2>3
  <2>8. \A s \in PeerStreams : s \in new <=> s \in E /\ ~(s <= current)
    BY <2>3, <2>5
  <2>9. \A s \in PeerStreams : s \in new => rx[s] = "absent"
    BY <2>8 DEF AllOffered, Heard
  <2> HIDE DEF new
  <2>10. ASSUME NEW s \in PeerStreams, rx'[s] # "absent"
         PROVE  s <= current'
    <3>1. s \in Nat
      BY <2>5
    <3>2. s <= current \/ s \in new
      BY <2>5, <2>6, <2>8, <2>10 DEF AllOffered, Heard
    <3> QED BY <2>4, <2>5, <3>1, <3>2
  <2>11. ASSUME NEW s \in PeerStreams, s <= current', rx'[s] = "absent"
         PROVE  FALSE
    <3>1. rx[s] = "absent" /\ s \notin E /\ ~(s <= current)
      BY <2>5, <2>6, <2>11 DEF AllOffered, Heard
    <3>2. current' \in new /\ current' # s
      BY <2>7, <2>8, <2>11, <3>1
    <3>3. s < current'
      BY <2>5, <2>11, <3>2
    <3>4. current' \in E \cap PeerStreams /\ rx[current'] = "absent"
      BY <2>3, <2>9, <3>2 DEF new
    <3> QED BY <2>1, <3>1, <3>3, <3>4
  <2>12. ASSUME NEW s \in PeerStreams, rx'[s] # "absent"
         PROVE  s \in ToSet(fifo') \/ handle'[s] # "none"
    <3>1. rx[s] # "absent" \/ s \in new
      BY <2>5, <2>6, <2>8, <2>12 DEF AllOffered, Heard
    <3>2. (\E i \in DOMAIN fifo : fifo[i] = s) \/ handle[s] # "none" \/ s \in new
      BY <3>1 DEF AllOffered, EveryInboundOffered, ToSet
    <3>3. (\E i \in DOMAIN fifo' : fifo'[i] = s) \/ handle[s] # "none"
      BY <2>4, <3>2
    <3> QED BY <2>1, <3>3 DEF ToSet
  <2> QED BY <2>10, <2>11, <2>12 DEF AllOffered, Heard, EveryInboundOffered
<1>2. ASSUME UNCHANGED <<current, fifo>>,
             \A s \in PeerStreams : (rx'[s] = "absent" <=> rx[s] = "absent")
                                      /\ (handle[s] # "none" => handle'[s] # "none")
      PROVE  AllOffered'
  BY <1>2 DEF AllOffered, Heard, EveryInboundOffered
<1>3. PeerStreams \subseteq Streams /\ TypeOK
  BY DEF Streams, CInv
<1>4. CASE PollSend \/ TimerExpires \/ Close
  BY <1>2, <1>4 DEF PollSend, TimerExpires, Close, quiche
<1>5. CASE PollAccept
  <2>1. rx' = rx /\ current' = current
    BY <1>5 DEF PollAccept, quiche
  <2>2. CASE fifo' = Tail(fifo) /\ fifo # <<>> /\ handle' = [handle EXCEPT ![Head(fifo)] = "held"]
    <3> DEFINE h == Head(fifo)
               t == Tail(fifo)
    <3>1. h \in PeerStreams /\ \A s : (\E i \in DOMAIN fifo : fifo[i] = s) =>
                                         s = h \/ \E i \in DOMAIN t : t[i] = s
      BY <1>3, <2>2, TailKeepsQueue DEF CInv, Queue
    <3>2. fifo' = t /\ handle' = [handle EXCEPT ![h] = "held"]
      BY <2>2
    <3> HIDE DEF h, t
    <3>3. \A s \in PeerStreams : s \in ToSet(fifo) => s = h \/ s \in ToSet(fifo')
      BY <3>1, <3>2 DEF ToSet
    <3>4. handle'[h] = "held" /\ \A s \in PeerStreams : handle[s] # "none" => handle'[s] # "none"
      BY <1>3, <3>1, <3>2 DEF TypeOK
    <3> QED BY <2>1, <3>3, <3>4 DEF AllOffered, Heard, EveryInboundOffered
  <2>3. CASE UNCHANGED <<fifo, handle>>
    BY <1>2, <2>1, <2>3
  <2> QED BY <1>5, <2>2, <2>3 DEF PollAccept
<1>6. ASSUME NEW try \in BOOLEAN, PollOpen(try)
      PROVE  AllOffered'
  <2>1. maxStreams - opened \in Int
    BY <1>3 DEF TypeOK
  <2>2. UNCHANGED <<rx, handle>> \/ next_id \in LocalStreams
    BY <1>6, <2>1 DEF PollOpen, peer_streams_left_bidi
  <2>3. \A s \in Streams : s # next_id => rx'[s] = rx[s] /\ handle'[s] = handle[s]
    BY <1>3, <1>6 DEF PollOpen, TypeOK
  <2>4. \A s \in PeerStreams : rx'[s] = rx[s] /\ handle'[s] = handle[s]
    BY <1>3, <2>2, <2>3, Sides
  <2> QED BY <1>2, <1>6, <2>4 DEF PollOpen
<1>7. ASSUME NEW s \in Streams, PollRead(s)
      PROVE  AllOffered'
  BY <1>2, <1>3, <1>7 DEF PollRead, TypeOK, Readable, Ended
<1>8. ASSUME NEW s \in Streams, PollWrite(s)
      PROVE  AllOffered'
  BY <1>2, <1>8 DEF PollWrite
<1>9. ASSUME NEW s \in Streams, DropStream(s)
      PROVE  AllOffered'
  <2>1. closing_recv(rx[s]) # "absent"
    BY DEF closing_recv
  <2> QED BY <1>2, <1>3, <1>9, <2>1 DEF DropStream, TypeOK
<1>10. ASSUME NEW r \in Roles, Cancel(r)
       PROVE  AllOffered'
  BY <1>2, <1>10 DEF Cancel, quiche, state
<1>11. CASE Quiet
  BY <1>2, <1>11 DEF Quiet, quiche, state
<1>12. CASE Local
  BY <1>4, <1>5, <1>6, <1>7, <1>8, <1>9, <1>10, <1>12 DEF Local
<1> QED BY <1>1, <1>3, <1>11, <1>12, Steps

\* If quiche reports the peer's streams in the order of their ids, none is lost
\* between quiche and accept; the run QuicConnReorder shows what happens otherwise.
THEOREM InboundIsOffered ==
  ASSUME InOrder
  PROVE  Spec => []EveryInboundOffered
<1>1. Init => AllOffered
  BY Sides DEF Init, AllOffered, Heard, EveryInboundOffered, Streams
<1>2. CInv /\ AllOffered /\ [Next]_vars => AllOffered'
  BY OfferedStep
<1>3. AllOffered => EveryInboundOffered
  BY DEF AllOffered
<1> QED BY <1>1, <1>2, <1>3, CInvariance, PTL DEF Spec

-----------------------------------------------------------------------------
\* When nobody drops a stream with unread data and no pending read is dropped,
\* a stored reader's waker means a reader, until the connection ends: a packet
\* for a dropped stream finds none and is collected.
ReadersAreThere ==
  conn \in {"open", "closing"} =>
    \A s \in Streams : Read(s) \in wakers => Read(s) \in parked /\ ~Readable(s)
Collecting == ClosingIsCleared /\ ReadersAreThere

LEMMA CollectingStep ==
  ASSUME ~DropUnread, "read" \notin CancelKinds, CInv, Collecting, [Next]_vars
  PROVE  Collecting'
<1>1. ASSUME NEW E, NEW W, NEW rcv, NEW limit, Received(E, W, rcv, limit)
      PROVE  Collecting'
  <2> DEFINE new == FirstSeen(E)
  <2>1. /\ E \in SUBSET Streams /\ StatEvents(E, W, rcv, limit, {Send}) /\ parked' = parked
        /\ E # {} => conn \in {"open", "closing"}
        /\ conn' \in {"open", "closing"} => conn \in {"open", "closing"}
        /\ \A s \in E : ~Readable(s)
        /\ \A s \in Streams \ E : rcv[s] = rx[s] \/ Readable(s)
    BY <1>1 DEF Received
  <2>2. TypeOK /\ Queue
    BY DEF CInv
  <2>3. \A s \in new : s \notin closing /\ Read(s) \notin parked
    BY <2>1, <2>2, NewIsNobodys
  <2>4. \A s \in closing : s \in Streams /\ Read(s) \notin parked
    BY <2>2 DEF TypeOK, Queue, Known, Holders
  <2>5. /\ closing' \subseteq closing
        /\ \A s \in E \ new : Read(s) \notin wakers'
        /\ \A s \in Streams : Read(s) \in wakers' => Read(s) \in wakers
    BY <2>1 DEF StatEvents, Wake
  <2>6. /\ \A s \in Collected(E \ new) : s \in E /\ rx'[s] = closing_recv(rcv[s])
        /\ \A s \in Streams \ E : rx'[s] = rcv[s]
    BY <2>1 DEF StatEvents, Collected
  <2>7. \A s \in Streams : rx'[s] = closing_recv(rcv[s]) => ~Readable(s)'
    BY DEF closing_recv, Readable, Ended
  <2> HIDE DEF new
  <2>8. ASSUME NEW s \in closing'
        PROVE  ~Readable(s)'
    <3>1. s \in closing /\ s \in Streams /\ Read(s) \notin parked /\ ~Readable(s)
      BY <2>4, <2>5 DEF Collecting, ClosingIsCleared
    <3>2. CASE s \in E
      <4>1. s \in E \ new
        BY <2>3, <3>1, <3>2
      <4>2. Read(s) \notin wakers
        BY <2>1, <3>1, <3>2 DEF Collecting, ReadersAreThere
      <4>3. s \in Collected(E \ new)
        BY <3>1, <4>1, <4>2 DEF Collected
      <4> QED BY <2>6, <2>7, <3>1, <4>3
    <3>3. CASE s \notin E
      BY <2>1, <2>6, <3>1, <3>3 DEF Readable
    <3> QED BY <3>2, <3>3
  <2>9. ASSUME conn' \in {"open", "closing"}, NEW s \in Streams, Read(s) \in wakers'
        PROVE  Read(s) \in parked' /\ ~Readable(s)'
    <3>1. Read(s) \in parked /\ ~Readable(s)
      BY <2>1, <2>5, <2>9 DEF Collecting, ReadersAreThere
    <3>2. s \notin E
      BY <2>3, <2>5, <2>9, <3>1
    <3> QED BY <2>1, <2>6, <3>1, <3>2 DEF Readable
  <2> QED BY <2>8, <2>9 DEF Collecting, ClosingIsCleared, ReadersAreThere
<1>2. ASSUME UNCHANGED <<rx, closing>>,
             conn' \in {"open", "closing"} => conn' = conn \/ conn = "open",
             \A s \in Streams : /\ Read(s) \in wakers' => Read(s) \in wakers
                                /\ Read(s) \in parked => Read(s) \in parked'
      PROVE  Collecting'
  BY <1>2 DEF Collecting, ClosingIsCleared, ReadersAreThere, Readable
<1>3. TypeOK /\ Queue
  BY DEF CInv
<1>4. CASE PollSend
  <2>1. conn' \in {"open", "closing"} => conn' = conn
    <3>1. PICK c \in BeforeSend : conn' \in {c.conn, "draining", "closed"}
      BY <1>4 DEF PollSend
    <3>2. c.conn \in {conn, "closed"}
      BY <1>3, TimersEndIt
    <3> QED BY <3>1, <3>2
  <2>2. wakers' \subseteq wakers \cup {Send} /\ parked \ {Send} \subseteq parked'
    BY <1>4 DEF PollSend, Parks
  <2>3. \A s \in Streams : Read(s) # Send
    BY RolesDiffer
  <2> QED BY <1>2, <1>4, <2>1, <2>2, <2>3 DEF PollSend
<1>5. CASE TimerExpires \/ Close
  BY <1>2, <1>5 DEF TimerExpires, Close, Wake, quiche
<1>6. ASSUME NEW r, (Returns(r) /\ UNCHANGED wakers) \/ Parks(r) \/ ReturnsAndWakesSend(r)
      PROVE  \A x : x # r => /\ x \in wakers' => x \in wakers
                             /\ x \in parked => x \in parked'
  BY <1>6 DEF Returns, Parks, ReturnsAndWakesSend
<1>7. CASE PollAccept
  <2>1. \A s \in Streams : Read(s) # Accept
    BY RolesDiffer
  <2>2. \A x : x # Accept => (x \in wakers' => x \in wakers) /\ (x \in parked => x \in parked')
    BY <1>6, <1>7 DEF PollAccept
  <2> QED BY <1>2, <1>7, <2>1, <2>2 DEF PollAccept, quiche
<1>8. ASSUME NEW try \in BOOLEAN, PollOpen(try)
      PROVE  Collecting'
  <2>1. \A s \in Streams : Read(s) # Open
    BY RolesDiffer
  <2>2. \A x : x # Open => (x \in wakers' => x \in wakers) /\ (x \in parked => x \in parked')
    BY <1>6, <1>8 DEF PollOpen
  <2>3. UNCHANGED <<conn, closing>>
    BY <1>8 DEF PollOpen
  <2>4. \A s \in Streams : rx'[s] = rx[s] \/ rx'[s] = "empty"
    BY <1>3, <1>8 DEF PollOpen, TypeOK
  <2>5. \A s \in Streams : Readable(s)' => Readable(s)
    BY <2>4 DEF Readable, Ended
  <2>6. closing \subseteq Streams
    BY <1>3 DEF TypeOK
  <2> QED BY <2>1, <2>2, <2>3, <2>5, <2>6 DEF Collecting, ClosingIsCleared, ReadersAreThere
<1>9. ASSUME NEW s \in Streams, PollRead(s)
      PROVE  Collecting'
  <2>1. \A x : x # Read(s) => (x \in wakers' => x \in wakers) /\ (x \in parked => x \in parked')
    BY <1>6, <1>9 DEF PollRead
  <2>2. /\ UNCHANGED <<conn, closing>> /\ closing \subseteq Streams
        /\ \A x \in Streams : x # s => rx'[x] = rx[x]
    BY <1>3, <1>9 DEF PollRead, TypeOK
  <2>3. s \notin closing
    BY <1>3, <1>9 DEF PollRead, Queue, Known
  <2>4. conn \in {"open", "closing"} /\ Read(s) \in wakers' => Read(s) \in parked' /\ ~Readable(s)'
    <3>1. CASE Readable(s)
      <4>1. conn \in {"open", "closing"} => Read(s) \notin wakers
        BY <3>1 DEF Collecting, ReadersAreThere
      <4>2. ReturnsAndWakesSend(Read(s)) \/ UNCHANGED wakers
        BY <1>9, <3>1 DEF PollRead
      <4> QED BY <4>1, <4>2 DEF ReturnsAndWakesSend
    <3>2. CASE ~Readable(s)
      BY <1>9, <3>2 DEF PollRead, Parks, Readable, Ended, is_draining, is_closed
    <3> QED BY <3>1, <3>2
  <2>5. ASSUME NEW x \in Streams, x # s
        PROVE  Readable(x)' = Readable(x) /\ Read(x) # Read(s)
    <3>1. Read(x) # Read(s)
      BY <2>5 DEF Read
    <3> QED BY <2>2, <2>5, <3>1 DEF Readable
  <2>6. ClosingIsCleared'
    BY <2>2, <2>3, <2>5 DEF Collecting, ClosingIsCleared
  <2>7. ReadersAreThere'
    BY <2>1, <2>2, <2>4, <2>5 DEF Collecting, ReadersAreThere
  <2> QED BY <2>6, <2>7 DEF Collecting
<1>10. ASSUME NEW s \in Streams, PollWrite(s)
       PROVE  Collecting'
  <2>1. \A x \in Streams : Read(x) # Write(s)
    BY DEF Read, Write
  <2>2. \A x : x # Write(s) => (x \in wakers' => x \in wakers) /\ (x \in parked => x \in parked')
    BY <1>6, <1>10 DEF PollWrite
  <2> QED BY <1>2, <1>10, <2>1, <2>2 DEF PollWrite
<1>11. ASSUME NEW s \in Streams, DropStream(s)
       PROVE  Collecting'
  <2>1. /\ UNCHANGED <<conn, parked>> /\ wakers' \subseteq wakers /\ ~Readable(s)
        /\ closing' \subseteq closing \cup {s} /\ closing \subseteq Streams
    BY <1>3, <1>11 DEF DropStream, Wake, TypeOK
  <2>2. rx' = rx \/ rx' = [rx EXCEPT ![s] = closing_recv(rx[s])]
    BY <1>11 DEF DropStream
  <2>3. closing_recv(rx[s]) \in {"finished", "empty"}
    BY DEF closing_recv
  <2>4. \A x \in Streams : Readable(x)' => Readable(x)
    BY <1>3, <2>2, <2>3 DEF TypeOK, Readable, Ended
  <2> QED BY <2>1, <2>4 DEF Collecting, ClosingIsCleared, ReadersAreThere
<1>12. ASSUME NEW r \in Roles, Cancel(r)
       PROVE  Collecting'
  <2>1. \A s \in Streams : Read(s) # r
    BY <1>12 DEF Cancel, Read
  <2> QED BY <1>2, <1>12, <2>1 DEF Cancel, quiche, state
<1>13. CASE Quiet
  BY <1>2, <1>13 DEF Quiet, quiche, state
<1>14. CASE Local
  BY <1>4, <1>5, <1>7, <1>8, <1>9, <1>10, <1>11, <1>12, <1>14 DEF Local
<1> QED BY <1>1, <1>3, <1>13, <1>14, Steps

\* If streams are read to the end before they are dropped, and no pending read
\* is dropped, a stream that waits to be collected has nothing unread; the run
\* QuicConnDrop shows what happens otherwise.
THEOREM DroppedIsCollected ==
  ASSUME ~DropUnread, "read" \notin CancelKinds
  PROVE  Spec => []ClosingIsCleared
<1>1. Init => Collecting
  BY DEF Init, Collecting, ClosingIsCleared, ReadersAreThere
<1>2. CInv /\ Collecting /\ [Next]_vars => Collecting'
  BY CollectingStep
<1>3. Collecting => ClosingIsCleared
  BY DEF Collecting
<1> QED BY <1>1, <1>2, <1>3, CInvariance, PTL DEF Spec
=============================================================================
