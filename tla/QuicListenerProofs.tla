------------------------- MODULE QuicListenerProofs -------------------------
(***************************************************************************)
(* The safety of the QUIC server for any number of ids, connections and    *)
(* places: its two tables agree, its limits hold, and each connection is   *)
(* delivered once and to somebody.                                         *)
(***************************************************************************)
EXTENDS QuicListener, FiniteSetTheorems, SequenceTheorems, TLAPS

-----------------------------------------------------------------------------
\* The driver has a connection in hand.
Busy == pc \in {"found", "dispatched", "leave", "deliver"}

Leads(d, c) == d \in DOMAIN conn_set /\ conn_set[d] = c

\* What the driver holds: an existing connection, still the one its id leads to
\* if the id leads anywhere (only the driver adds entries); on its way to the
\* queue it was not given away before and leaves the handshaking set.
InHand ==
  Busy => /\ cur \in DOMAIN dcid
          /\ dcid[cur] \in DOMAIN conn_set => conn_set[dcid[cur]] = cur
          /\ pc \in {"leave", "deliver"} => handles[cur] = 0
          /\ pc = "deliver" => dcid[cur] \notin handshaking

\* An admitted id waits for its entry, for which there is room.
Admitted ==
  pc = "track" => /\ new \in handshaking /\ new \notin DOMAIN conn_set
                  /\ Cardinality(DOMAIN conn_set) < MaxActive
                  /\ Len(dcid) < MaxConns

\* Every entry of the table leads to a connection of its id.
Entered == /\ IsFiniteSet(DOMAIN conn_set)
           /\ \A d \in DOMAIN conn_set : conn_set[d] \in DOMAIN dcid /\ dcid[conn_set[d]] = d

\* A connection that was given away, or that is being cleaned up, has left the
\* handshaking set for good.
LeftSet == \A c \in DOMAIN dcid :
  (Leads(dcid[c], c) /\ (handles[c] > 0 \/ task[c] = "cleanup")) => dcid[c] \notin handshaking

\* The inductive invariant.
IInv == /\ TypeOK /\ Limits /\ TablesAgree /\ NoOrphan /\ DeliveredOnce
        /\ InHand /\ Admitted /\ Entered /\ LeftSet

-----------------------------------------------------------------------------
\* The driver, and the tables it and the send tasks change; the rest of the
\* invariant does not depend on what the user holds.
Parts == /\ TablesAgree /\ NoOrphan /\ DeliveredOnce
         /\ InHand /\ Admitted /\ Entered /\ LeftSet

\* A function on 1..n is a sequence, and Append gives one on 1..n+1.
LEMMA AppendFunction ==
  ASSUME NEW S, NEW n \in Nat, NEW f \in [1 .. n -> S], NEW x \in S
  PROVE  /\ Append(f, x) \in [1 .. n + 1 -> S]
         /\ Append(f, x)[n + 1] = x
         /\ \A i \in 1 .. n : Append(f, x)[i] = f[i]
<1>1. f \in Seq(S)
  BY SeqDef
<1>2. Len(f) = n
  BY <1>1, LenProperties
<1>3. /\ Append(f, x) \in Seq(S) /\ Len(Append(f, x)) = n + 1
      /\ Append(f, x)[n + 1] = x
      /\ \A i \in 1 .. n : Append(f, x)[i] = f[i]
  BY <1>1, <1>2
<1>4. Append(f, x) \in [1 .. n + 1 -> S]
  BY <1>3, LenProperties
<1> QED BY <1>3, <1>4

\* Connections are the indices of dcid.
LEMMA ConnsAreIndices ==
  ASSUME TypeOK
  PROVE  /\ Len(dcid) \in Nat /\ DOMAIN dcid = 1 .. Len(dcid)
         /\ DOMAIN dcid \subseteq Conns /\ dcid \in [DOMAIN dcid -> Dcids]
BY LenProperties, BoundsAssumption DEF TypeOK, Conns

\* Dropping connections changes their phase only.
LEMMA DropConnsType ==
  ASSUME TypeOK, NEW S \in SUBSET Conns, DropConns(S), UNCHANGED dcid
  PROVE  /\ phase' \in [DOMAIN dcid -> {"handshaking", "established", "closing"} \cup Over]
         /\ dropped' \subseteq Conns
BY DEF TypeOK, DropConns

\* The invariant holds initially.
LEMMA IInvInit == Init => IInv
<1> SUFFICES ASSUME Init PROVE IInv
  OBVIOUS
<1>1. TypeOK
  BY BoundsAssumption, EmptySeq DEF Init, TypeOK, Conns
<1>2. DOMAIN conn_set = {} /\ DOMAIN dcid = {}
  BY DEF Init
<1>3. Limits
  BY <1>2, FS_EmptySet, BoundsAssumption DEF Init, Limits
<1>4. Parts
  BY <1>2, FS_EmptySet
     DEF Init, Parts, TablesAgree, NoOrphan, DeliveredOnce, InHand, Admitted, Entered,
         LeftSet, Exists, Sending, Busy
<1> QED BY <1>1, <1>3, <1>4 DEF IInv, Parts

\* Every step keeps the type and the limits.
LEMMA TypeStep == IInv /\ [Next]_vars => TypeOK' /\ Limits'
<1> SUFFICES ASSUME IInv, [Next]_vars PROVE TypeOK' /\ Limits'
  OBVIOUS
<1> USE ConnsAreIndices, BoundsAssumption DEF IInv
<1>1. ASSUME NEW d \in Dcids, RecvKnown(d) PROVE TypeOK' /\ Limits'
  BY <1>1 DEF RecvKnown, tables, TypeOK, Limits
<1>2. ASSUME NEW d \in Dcids, Admit(d) PROVE TypeOK' /\ Limits'
  BY <1>2 DEF Admit, TypeOK, Limits
<1>3. ASSUME Dispatch PROVE TypeOK' /\ Limits'
  BY <1>3 DEF Dispatch, tables, TypeOK, Limits
<1>4. ASSUME LeaveHandshaking PROVE TypeOK' /\ Limits'
  BY <1>4 DEF LeaveHandshaking, LeavesSet, TypeOK, Limits
<1>4t. ASSUME TestHandshaking PROVE TypeOK' /\ Limits'
  BY <1>4t DEF TestHandshaking, tables, TypeOK, Limits
<1>5. ASSUME Track PROVE TypeOK' /\ Limits'
  <2>1. /\ new \in Dcids /\ new \notin DOMAIN conn_set
        /\ Len(dcid) < MaxConns /\ Cardinality(DOMAIN conn_set) < MaxActive
    BY <1>5 DEF Track, Admitted, TypeOK
  <2>2. DOMAIN conn_set' = DOMAIN conn_set \cup {new}
    BY <1>5 DEF Track, TableKey
  <2>3. Cardinality(DOMAIN conn_set') <= MaxActive
    <3>1. /\ Cardinality(DOMAIN conn_set \cup {new}) = Cardinality(DOMAIN conn_set) + 1
          /\ Cardinality(DOMAIN conn_set) \in Nat
      BY <2>1, FS_AddElement, FS_CardinalityType DEF Entered
    <3> QED BY <2>1, <2>2, <3>1
  <2>4. /\ dcid' \in Seq(Dcids) /\ Len(dcid') = Len(dcid) + 1
        /\ DOMAIN dcid' = 1 .. Len(dcid) + 1
    BY <1>5, <2>1, LenProperties DEF Track, TypeOK
  <2>5. conn_set' \in [DOMAIN conn_set' -> Conns] /\ DOMAIN conn_set' \subseteq Dcids
    BY <1>5, <2>1, <2>2 DEF Track, TableKey, TypeOK, Conns
  <2>6. /\ phase' \in [DOMAIN dcid' -> {"handshaking", "established", "closing"} \cup Over]
        /\ task' \in [DOMAIN dcid' -> {"run", "stuck", "cleanup", "done"}]
        /\ handles' \in [DOMAIN dcid' -> Nat]
    BY <1>5, <2>4, AppendFunction DEF Track, TypeOK
  <2>7. UNCHANGED <<handshaking, incoming, listening, cur, dropped>> /\ pc' = "recv" /\ new' = NoDcid
    BY <1>5 DEF Track
  <2> QED BY <2>1, <2>3, <2>4, <2>5, <2>6, <2>7 DEF TypeOK, Limits
<1>6. ASSUME DriverFails PROVE TypeOK' /\ Limits'
  BY <1>6 DEF DriverFails, tables, TypeOK, Limits
<1>7. ASSUME NEW cert \in BOOLEAN, Deliver(cert) PROVE TypeOK' /\ Limits'
  <2>1. cur \in Conns /\ cur \in DOMAIN dcid
    BY <1>7 DEF Deliver, InHand, Busy
  <2>2. handles' \in [DOMAIN dcid -> Nat]
    BY <1>7, <2>1 DEF Deliver, TypeOK
  <2>3. /\ phase' \in [DOMAIN dcid -> {"handshaking", "established", "closing"} \cup Over]
        /\ dropped' \subseteq Conns
    BY <1>7, <2>1, DropConnsType DEF Deliver, TypeOK
  <2>4. incoming' \in Seq(Conns) /\ Len(incoming') <= QueueSize
    <3>c. Capacity = QueueSize
      BY DEF Capacity, incoming_queue_size
    <3>1. CASE incoming' = Append(incoming, cur) /\ Len(incoming) # QueueSize
      <4>1. Len(incoming) \in Nat /\ Len(incoming) < QueueSize
        BY <3>1, LenProperties DEF TypeOK, Limits
      <4>2. incoming' \in Seq(Conns) /\ Len(incoming') = Len(incoming) + 1
        BY <3>1, <2>1, AppendProperties DEF TypeOK
      <4> QED BY <4>1, <4>2
    <3>2. CASE UNCHANGED incoming
      BY <3>2 DEF TypeOK, Limits
    <3> QED BY <1>7, <3>c, <3>1, <3>2 DEF Deliver
  <2>5. /\ UNCHANGED <<handshaking, conn_set, listening, new, dcid, task>>
        /\ pc' \in {"recv", "stopped"} /\ cur' = NoConn
    BY <1>7 DEF Deliver, tables
  <2> QED BY <2>2, <2>3, <2>4, <2>5 DEF TypeOK, Limits
<1>8s. ASSUME NEW c \in Conns, SendSticks(c) PROVE TypeOK' /\ Limits'
  BY <1>8s DEF SendSticks, driver, tables, TypeOK, Limits
<1>8. ASSUME NEW c \in Conns, ConnCloses(c) PROVE TypeOK' /\ Limits'
  BY <1>8 DEF ConnCloses, Over, driver, tables, TypeOK, Limits
<1>9. ASSUME NEW c \in Conns, SendTaskEnds(c) PROVE TypeOK' /\ Limits'
  BY <1>9 DEF SendTaskEnds, Cleanup, ForgetHandshaking, driver, TypeOK, Limits
<1>10. ASSUME NEW c \in Conns, Untrack(c) PROVE TypeOK' /\ Limits'
  <2>1. /\ DOMAIN conn_set' = DOMAIN conn_set \ {dcid[c]}
        /\ conn_set' \in [DOMAIN conn_set' -> Conns]
        /\ DOMAIN conn_set' \subseteq Dcids
    BY <1>10 DEF Untrack, Cleanup, ForgetConn, TypeOK
  <2>2. Cardinality(DOMAIN conn_set') <= MaxActive
    <3>1. /\ Cardinality(DOMAIN conn_set \ {dcid[c]}) <= Cardinality(DOMAIN conn_set)
          /\ Cardinality(DOMAIN conn_set) \in Nat
          /\ Cardinality(DOMAIN conn_set \ {dcid[c]}) \in Nat
      BY FS_Subset, FS_CardinalityType DEF Entered
    <3> QED BY <2>1, <3>1 DEF Limits
  <2>3. UNCHANGED <<handshaking, incoming, listening, pc, cur, new, dcid, phase, handles, dropped>>
    BY <1>10 DEF Untrack, Cleanup, ForgetConn, driver
  <2>4. task' \in [DOMAIN dcid -> {"run", "stuck", "cleanup", "done"}]
    BY <1>10 DEF Untrack, TypeOK
  <2> QED BY <2>1, <2>2, <2>3, <2>4 DEF TypeOK, Limits
<1>11. ASSUME NEW c \in Conns, UserDrops(c) PROVE TypeOK' /\ Limits'
  BY <1>11, DropConnsType DEF UserDrops, tables, driver, TypeOK, Limits
<1>12. ASSUME UserAccepts PROVE TypeOK' /\ Limits'
  <2>1. incoming' \in Seq(Conns) /\ Len(incoming') <= Len(incoming)
    BY <1>12, HeadTailProperties, LenProperties DEF UserAccepts, TypeOK
  <2>2. Len(incoming') <= QueueSize
    BY <2>1, LenProperties DEF TypeOK, Limits
  <2> QED BY <1>12, <2>1, <2>2 DEF UserAccepts, tables, driver, TypeOK, Limits
<1>13. ASSUME DropListener PROVE TypeOK' /\ Limits'
  <2>1. ToSet(incoming) \subseteq Conns
    BY ElementOfSeq, LenProperties DEF ToSet, TypeOK
  <2>2. /\ phase' \in [DOMAIN dcid -> {"handshaking", "established", "closing"} \cup Over]
        /\ dropped' \subseteq Conns
    BY <1>13, <2>1, DropConnsType DEF DropListener
  <2>3. incoming' \in Seq(Conns) /\ Len(incoming') = 0
    BY <1>13, EmptySeq DEF DropListener
  <2>4. /\ UNCHANGED <<handshaking, conn_set, pc, cur, new, dcid, task, handles>>
        /\ listening' \in BOOLEAN
    BY <1>13 DEF DropListener, tables, driver
  <2>5. Limits'
    BY <2>3, <2>4 DEF Limits
  <2>6. TypeOK'
    BY <2>2, <2>3, <2>4 DEF TypeOK
  <2> QED BY <2>5, <2>6
<1>14. CASE UNCHANGED vars
  BY <1>14 DEF vars, TypeOK, Limits
<1>15. ASSUME Next PROVE TypeOK' /\ Limits'
  BY <1>1, <1>2, <1>3, <1>4, <1>4t, <1>5, <1>6, <1>7, <1>8s, <1>8, <1>9, <1>10, <1>11, <1>12,
     <1>13, <1>15, Zenon
     DEF Next
<1> QED BY <1>14, <1>15

\* Every step keeps the tables and the deliveries in order.
LEMMA PartsStep == IInv /\ [Next]_vars => Parts'
<1> SUFFICES ASSUME IInv, [Next]_vars PROVE Parts'
  OBVIOUS
<1> DEFINE Core == <<handshaking, conn_set, dcid, task, handles, driver>>
<1> USE ConnsAreIndices DEF IInv, Exists, Sending, Tracked, Busy, Leads
<1>0. Parts
  BY DEF Parts
<1>1. ASSUME UNCHANGED Core PROVE Parts'
  BY <1>0, <1>1 DEF driver, Parts, TablesAgree, NoOrphan, DeliveredOnce, InHand, Admitted, Entered, LeftSet
<1>2. ASSUME NEW d \in Dcids, RecvKnown(d) PROVE Parts'
  BY <1>2 DEF RecvKnown, tables, Parts, TablesAgree, NoOrphan, DeliveredOnce, InHand, Admitted, Entered, LeftSet
<1>3. ASSUME NEW d \in Dcids, Admit(d) PROVE Parts'
  BY <1>3 DEF Admit, HasRoom, Parts, TablesAgree, NoOrphan, DeliveredOnce, InHand, Admitted, Entered, LeftSet
<1>4. ASSUME Dispatch PROVE Parts'
  BY <1>4 DEF Dispatch, tables, Parts, TablesAgree, NoOrphan, DeliveredOnce, InHand, Admitted, Entered, LeftSet
<1>5t. ASSUME TestHandshaking PROVE Parts'
  <2>1. CASE dcid[cur] \in handshaking /\ is_established(cur)
    <3>1. /\ cur \in DOMAIN dcid /\ pc = "dispatched" /\ pc' = "leave"
          /\ UNCHANGED <<handshaking, conn_set, cur, new, dcid, task, handles>>
      BY <1>5t, <2>1 DEF TestHandshaking, InHand, tables
    <3>2. dcid[cur] \in DOMAIN conn_set /\ conn_set[dcid[cur]] = cur
      BY <2>1, <3>1 DEF TablesAgree, InHand
    <3>3. handles[cur] = 0
      BY <2>1, <3>1, <3>2 DEF LeftSet, TypeOK
    <3>4. TablesAgree' /\ NoOrphan' /\ DeliveredOnce' /\ InHand' /\ LeftSet'
      BY <3>1, <3>3 DEF TablesAgree, NoOrphan, DeliveredOnce, InHand, LeftSet
    <3>5. Admitted' /\ Entered'
      BY <3>1 DEF Admitted, Entered
    <3> QED BY <3>4, <3>5 DEF Parts
  <2>2. CASE ~(dcid[cur] \in handshaking /\ is_established(cur))
    BY <1>5t, <2>2 DEF TestHandshaking, tables, Parts, TablesAgree, NoOrphan, DeliveredOnce, InHand, Admitted, Entered, LeftSet
  <2> QED BY <2>1, <2>2
<1>5. ASSUME LeaveHandshaking PROVE Parts'
  <2>1. /\ cur \in DOMAIN dcid /\ pc = "leave" /\ pc' = "deliver"
        /\ handshaking' = handshaking \ {dcid[cur]}
        /\ UNCHANGED <<conn_set, cur, new, dcid, task, handles>>
    BY <1>5 DEF LeaveHandshaking, LeavesSet, InHand
  <2>2. handles[cur] = 0
    BY <2>1 DEF InHand
  <2>3. \A c \in DOMAIN dcid : c # cur /\ Sending(c) => dcid[c] # dcid[cur]
    BY <2>1 DEF TablesAgree, InHand
  <2>4. NoOrphan'
    BY <2>1, <2>3 DEF NoOrphan
  <2>5. TablesAgree' /\ DeliveredOnce' /\ InHand' /\ LeftSet'
    BY <2>1, <2>2 DEF TablesAgree, DeliveredOnce, InHand, LeftSet
  <2>6. Admitted' /\ Entered'
    BY <2>1 DEF Admitted, Entered
  <2> QED BY <2>4, <2>5, <2>6 DEF Parts
<1>6. ASSUME Track PROVE Parts'
  <2> DEFINE n == Len(dcid) + 1
  <2>1. /\ new \in Dcids /\ new \in handshaking /\ new \notin DOMAIN conn_set
        /\ pc = "track" /\ pc' = "recv" /\ UNCHANGED handshaking
    BY <1>6 DEF Track, Admitted, TypeOK
  <2>2. /\ DOMAIN dcid' = DOMAIN dcid \cup {n} /\ n \notin DOMAIN dcid
        /\ dcid'[n] = new /\ \A i \in DOMAIN dcid : dcid'[i] = dcid[i]
    BY <1>6, <2>1, AppendFunction DEF Track
  <2>3. /\ task'[n] = "run" /\ handles'[n] = 0
        /\ \A i \in DOMAIN dcid : task'[i] = task[i] /\ handles'[i] = handles[i]
    BY <1>6, AppendFunction DEF Track, TypeOK
  <2>4. /\ DOMAIN conn_set' = DOMAIN conn_set \cup {new} /\ conn_set'[new] = n
        /\ \A d \in DOMAIN conn_set : conn_set'[d] = conn_set[d]
    BY <1>6, <2>1 DEF Track, TableKey
  <2>5. \A c \in Conns : Exists(c)' <=> (Exists(c) \/ c = n)
    BY <1>6, <2>2, <2>1 DEF Admitted, Conns
  <2>6. TablesAgree'
    BY <2>1, <2>2, <2>3, <2>4 DEF TablesAgree
  <2>7. NoOrphan'
    BY <2>1, <2>2, <2>3 DEF NoOrphan
  <2>8. DeliveredOnce'
    BY <2>1, <2>2, <2>3 DEF DeliveredOnce
  <2>9. InHand' /\ Admitted'
    BY <2>1 DEF InHand, Admitted
  <2>10. Entered'
    <3>1. IsFiniteSet(DOMAIN conn_set')
      BY <2>4, FS_AddElement DEF Entered
    <3>2. \A d \in DOMAIN conn_set' : conn_set'[d] \in DOMAIN dcid' /\ dcid'[conn_set'[d]] = d
      BY <2>2, <2>4 DEF Entered
    <3> QED BY <3>1, <3>2 DEF Entered
  <2>11. LeftSet'
    <3> SUFFICES ASSUME NEW c \in DOMAIN dcid', Leads(dcid[c], c)',
                        (handles[c] > 0 \/ task[c] = "cleanup")'
                 PROVE  (dcid[c] \notin handshaking)'
      BY DEF LeftSet
    <3>1. c \in DOMAIN dcid
      BY <2>2, <2>3
    <3>2. dcid[c] # new
      BY <2>2, <2>4, <3>1
    <3> QED BY <2>1, <2>2, <2>3, <2>4, <3>1, <3>2 DEF LeftSet
  <2> QED BY <2>6, <2>7, <2>8, <2>9, <2>10, <2>11 DEF Parts
<1>7. ASSUME DriverFails PROVE Parts'
  BY <1>7 DEF DriverFails, tables, Parts, TablesAgree, NoOrphan, DeliveredOnce, InHand, Admitted, Entered, LeftSet
<1>8. ASSUME NEW cert \in BOOLEAN, Deliver(cert) PROVE Parts'
  <2>1. /\ pc = "deliver" /\ pc' \in {"recv", "stopped"}
        /\ UNCHANGED <<handshaking, conn_set, dcid, task>>
    BY <1>8 DEF Deliver, tables
  <2>2. /\ cur \in DOMAIN dcid /\ handles[cur] = 0 /\ dcid[cur] \notin handshaking
    BY <2>1 DEF InHand, DeliveredOnce, TypeOK
  <2>3. /\ handles'[cur] = 1
        /\ \A c \in DOMAIN dcid : c # cur => handles'[c] = handles[c]
    BY <1>8, <2>2 DEF Deliver, TypeOK
  <2>4. TablesAgree' /\ InHand' /\ Admitted' /\ Entered'
    BY <2>1 DEF TablesAgree, InHand, Admitted, Entered
  <2>5. NoOrphan' /\ DeliveredOnce'
    BY <2>1, <2>2, <2>3 DEF NoOrphan, DeliveredOnce
  <2>6. LeftSet'
    BY <2>1, <2>2, <2>3 DEF LeftSet
  <2> QED BY <2>4, <2>5, <2>6 DEF Parts
<1>9. ASSUME NEW c \in Conns, SendTaskEnds(c) PROVE Parts'
  <2>1. /\ c \in DOMAIN dcid /\ task[c] = "run"
        /\ handshaking' = handshaking \ {dcid[c]}
        /\ UNCHANGED <<conn_set, dcid, handles, pc, cur, new>>
    BY <1>9 DEF SendTaskEnds, Cleanup, ForgetHandshaking, driver
  <2>2. /\ task'[c] = "cleanup"
        /\ \A x \in DOMAIN dcid : x # c => task'[x] = task[x]
    BY <1>9, <2>1 DEF SendTaskEnds, TypeOK
  <2>3. Leads(dcid[c], c)
    BY <2>1 DEF TablesAgree
  <2>4. TablesAgree'
    BY <2>1, <2>2 DEF TablesAgree
  <2>5. NoOrphan'
    BY <2>1, <2>2, <2>3 DEF NoOrphan, TablesAgree
  <2>6. DeliveredOnce' /\ InHand' /\ Entered'
    BY <2>1 DEF DeliveredOnce, InHand, Entered
  <2>7. Admitted'
    BY <2>1, <2>3 DEF Admitted
  <2>8. LeftSet'
    BY <2>1, <2>2 DEF LeftSet
  <2> QED BY <2>4, <2>5, <2>6, <2>7, <2>8 DEF Parts
<1>10. ASSUME NEW c \in Conns, Untrack(c) PROVE Parts'
  <2>1. /\ c \in DOMAIN dcid /\ task[c] = "cleanup"
        /\ DOMAIN conn_set' = DOMAIN conn_set \ {dcid[c]}
        /\ \A d \in DOMAIN conn_set' : conn_set'[d] = conn_set[d]
        /\ UNCHANGED <<handshaking, dcid, handles, pc, cur, new>>
    BY <1>10 DEF Untrack, Cleanup, ForgetConn, driver
  <2>2. /\ task'[c] = "done"
        /\ \A x \in DOMAIN dcid : x # c => task'[x] = task[x]
    BY <1>10, <2>1 DEF Untrack, TypeOK
  <2>3. Leads(dcid[c], c) /\ dcid[c] \notin handshaking
    BY <2>1 DEF TablesAgree, LeftSet
  <2>4. TablesAgree'
    BY <2>1, <2>2, <2>3 DEF TablesAgree
  <2>5. NoOrphan' /\ DeliveredOnce' /\ InHand'
    BY <2>1, <2>2 DEF NoOrphan, DeliveredOnce, InHand
  <2>6. /\ IsFiniteSet(DOMAIN conn_set')
        /\ Cardinality(DOMAIN conn_set') <= Cardinality(DOMAIN conn_set)
        /\ Cardinality(DOMAIN conn_set') \in Nat /\ Cardinality(DOMAIN conn_set) \in Nat
    BY <2>1, FS_Subset, FS_CardinalityType DEF Entered
  <2>7. Admitted'
    BY <2>1, <2>6, BoundsAssumption DEF Admitted
  <2>8. Entered'
    BY <2>1, <2>6 DEF Entered
  <2>9. LeftSet'
    BY <2>1, <2>2 DEF LeftSet
  <2> QED BY <2>4, <2>5, <2>7, <2>8, <2>9 DEF Parts
<1>10s. ASSUME NEW c \in Conns, SendSticks(c) PROVE Parts'
  <2>1. /\ c \in DOMAIN dcid /\ task[c] = "run" /\ task'[c] = "stuck"
        /\ \A x \in DOMAIN dcid : x # c => task'[x] = task[x]
        /\ UNCHANGED <<handshaking, conn_set, dcid, handles, pc, cur, new>>
    BY <1>10s DEF SendSticks, tables, driver, TypeOK
  <2>2. TablesAgree' /\ NoOrphan'
    BY <2>1 DEF TablesAgree, NoOrphan
  <2>3. DeliveredOnce' /\ InHand' /\ Admitted' /\ Entered'
    BY <2>1 DEF DeliveredOnce, InHand, Admitted, Entered
  <2>4. LeftSet'
    BY <2>1 DEF LeftSet
  <2> QED BY <2>2, <2>3, <2>4 DEF Parts
<1>11. ASSUME NEW c \in Conns, ConnCloses(c) \/ UserDrops(c) PROVE UNCHANGED Core
  BY <1>11 DEF ConnCloses, UserDrops, tables, driver
<1>12. ASSUME UserAccepts \/ DropListener \/ UNCHANGED vars PROVE UNCHANGED Core
  BY <1>12 DEF UserAccepts, DropListener, tables, driver, vars
<1> HIDE DEF Core
<1>13. ASSUME Next PROVE Parts'
  BY <1>1, <1>2, <1>3, <1>4, <1>5t, <1>5, <1>6, <1>7, <1>8, <1>9, <1>10, <1>10s, <1>11, <1>12,
     <1>13, Zenon
     DEF Next
<1> QED BY <1>1, <1>12, <1>13

-----------------------------------------------------------------------------
\* The invariant holds in every reachable state.
LEMMA Invariance == Spec => []IInv
<1>1. Init => IInv
  BY IInvInit
<1>2. IInv /\ [Next]_vars => IInv'
  BY TypeStep, PartsStep DEF IInv, Parts
<1> QED BY <1>1, <1>2, PTL DEF Spec

\* Type correctness: tables, queue and driver hold what server.rs declares,
\* for every number of ids, connections and places.
THEOREM TypeCorrect == Spec => []TypeOK
<1>1. IInv => TypeOK
  BY DEF IInv
<1> QED BY <1>1, Invariance, PTL

\* The server never tracks more than max_active_conn_size connections nor
\* queues more than incoming_queue_size, although the size is tested and the
\* entry made in two steps (server.rs:340 and 376) while send tasks remove.
THEOREM LimitsHold == Spec => []Limits
<1>1. IInv => Limits
  BY DEF IInv
<1> QED BY <1>1, Invariance, PTL

\* The two tables agree with the send tasks, however late their cleanup
\* (server.rs:401-402) runs and however often an id comes again.
THEOREM TablesStayInStep == Spec => []TablesAgree
<1>1. IInv => TablesAgree
  BY DEF IInv
<1> QED BY <1>1, Invariance, PTL

\* No connection becomes established without being delivered to accept or
\* dropped with the listener (server.rs:551-592).
THEOREM NobodyIsOrphaned == Spec => []NoOrphan
<1>1. IInv => NoOrphan
  BY DEF IInv
<1> QED BY <1>1, Invariance, PTL

\* Every connection is delivered at most once (server.rs:551-592).
THEOREM DeliveredAtMostOnce == Spec => []DeliveredOnce
<1>1. IInv => DeliveredOnce
  BY DEF IInv
<1> QED BY <1>1, Invariance, PTL
=============================================================================
