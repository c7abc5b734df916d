----------------------------- MODULE TunnelProofs -----------------------------
(***************************************************************************)
(* The safety of a tunnel for sockets, windows and buffers of any size and *)
(* applications that write any number of bytes: no copy drops, repeats or  *)
(* reorders bytes, and the tunnel implements Duplex.                       *)
(***************************************************************************)
EXTENDS Tunnel, SequenceTheorems, TLAPS

-----------------------------------------------------------------------------
\* Prefixes of byte sequences.
LEMMA PrefixIff ==
  ASSUME NEW s \in Seq(Nat), NEW t \in Seq(Nat)
  PROVE  IsPrefix(s, t) <=> /\ Len(s) <= Len(t)
                            /\ \A i \in 1 .. Len(s) : s[i] = t[i]
<1>1. Len(s) \in Nat /\ Len(t) \in Nat
  BY LenProperties
<1>2. SubSeq(s, 1, Len(s)) = s
  BY SubSeqFull
<1>3. ASSUME Len(s) <= Len(t)
      PROVE  /\ SubSeq(t, 1, Len(s)) \in Seq(Nat)
             /\ Len(SubSeq(t, 1, Len(s))) = Len(s)
             /\ \A i \in 1 .. Len(s) : SubSeq(t, 1, Len(s))[i] = t[i]
  <2>1. \A i \in 1 .. Len(s) : t[i] \in Nat
    BY <1>1, <1>3, ElementOfSeq
  <2> QED BY <1>1, <2>1, SubSeqProperties
<1>4. ASSUME Len(s) <= Len(t), \A i \in 1 .. Len(s) : s[i] = t[i]
      PROVE  s = SubSeq(t, 1, Len(s))
  BY <1>3, <1>4, SeqEqual
<1> QED BY <1>2, <1>3, <1>4 DEF IsPrefix

LEMMA PrefixTrans ==
  ASSUME NEW s \in Seq(Nat), NEW t \in Seq(Nat), NEW u \in Seq(Nat),
         IsPrefix(s, t), IsPrefix(t, u)
  PROVE  IsPrefix(s, u)
<1>1. Len(s) \in Nat /\ Len(t) \in Nat /\ Len(u) \in Nat
  BY LenProperties
<1>2. Len(s) <= Len(t) /\ \A i \in 1 .. Len(s) : s[i] = t[i]
  BY PrefixIff
<1>3. Len(t) <= Len(u) /\ \A i \in 1 .. Len(t) : t[i] = u[i]
  BY PrefixIff
<1>4. Len(s) <= Len(u) /\ \A i \in 1 .. Len(s) : s[i] = u[i]
  BY <1>1, <1>2, <1>3
<1> QED BY <1>4, PrefixIff

LEMMA PrefixConcat ==
  ASSUME NEW s \in Seq(Nat), NEW t \in Seq(Nat)
  PROVE  s \o t \in Seq(Nat) /\ IsPrefix(s, s \o t)
<1>1. Len(s) \in Nat /\ Len(t) \in Nat
  BY LenProperties
<1>2. /\ s \o t \in Seq(Nat) /\ Len(s \o t) = Len(s) + Len(t)
      /\ \A i \in 1 .. Len(s) : (s \o t)[i] = s[i]
  BY <1>1, ConcatProperties
<1> DEFINE u == s \o t
<1>3. u \in Seq(Nat) /\ Len(s) <= Len(u) /\ \A i \in 1 .. Len(s) : s[i] = u[i]
  BY <1>1, <1>2
<1> HIDE DEF u
<1>4. IsPrefix(s, u)
  BY <1>3, PrefixIff
<1> QED BY <1>3, <1>4 DEF u

\* Concatenation under a name of its own, for the steps that only need that it
\* is associative.
Cat(s, t) == s \o t

LEMMA CatIsSeq ==
  ASSUME NEW s \in Seq(Nat), NEW t \in Seq(Nat)
  PROVE  /\ Cat(s, t) \in Seq(Nat) /\ Len(Cat(s, t)) = Len(s) + Len(t)
         /\ IsPrefix(s, Cat(s, t))
BY PrefixConcat, ConcatProperties DEF Cat

LEMMA Associative ==
  ASSUME NEW s \in Seq(Nat), NEW t \in Seq(Nat), NEW u \in Seq(Nat)
  PROVE  Cat(Cat(s, t), u) = Cat(s, Cat(t, u))
BY ConcatAssociative, SMTT(20) DEF Cat

LEMMA TwoMore ==
  ASSUME NEW s \in Seq(Nat), NEW t \in Seq(Nat), NEW u \in Seq(Nat)
  PROVE  Cat(Cat(s, t), u) \in Seq(Nat) /\ IsPrefix(s, Cat(Cat(s, t), u))
<1>1. Cat(s, t) \in Seq(Nat) /\ IsPrefix(s, Cat(s, t))
  BY CatIsSeq
<1>2. Cat(Cat(s, t), u) \in Seq(Nat) /\ IsPrefix(Cat(s, t), Cat(Cat(s, t), u))
  BY <1>1, CatIsSeq
<1> QED BY <1>1, <1>2, PrefixTrans

\* The first n bytes of t and the rest of it, which make up t.
Take(t, n) == SubSeq(t, 1, n)
Drop(t, n) == SubSeq(t, n + 1, Len(t))

LEMMA TakeDrop ==
  ASSUME NEW t \in Seq(Nat), NEW n \in Nat, n <= Len(t)
  PROVE  /\ Take(t, n) \in Seq(Nat) /\ Len(Take(t, n)) = n
         /\ Drop(t, n) \in Seq(Nat) /\ Len(Drop(t, n)) = Len(t) - n
         /\ Cat(Take(t, n), Drop(t, n)) = t
<1>1. Len(t) \in Nat
  BY LenProperties
<1>2. \A i \in 1 .. Len(t) : t[i] \in Nat
  BY ElementOfSeq
<1>3. SubSeq(t, 1, n) \in Seq(Nat) /\ Len(SubSeq(t, 1, n)) = n
  <2>1. \A i \in 1 .. n : t[i] \in Nat
    BY <1>1, <1>2
  <2> QED BY <1>1, <2>1, SubSeqProperties
<1>4. SubSeq(t, n + 1, Len(t)) \in Seq(Nat) /\ Len(SubSeq(t, n + 1, Len(t))) = Len(t) - n
  <2>1. \A i \in n + 1 .. Len(t) : t[i] \in Nat
    BY <1>1, <1>2
  <2>2. n + 1 \in Int /\ Len(t) \in Int
    BY <1>1
  <2> QED BY <1>1, <2>1, <2>2, SubSeqProperties
<1>5. SubSeq(t, 1, n) \o SubSeq(t, n + 1, Len(t)) = t
  <2>1. 1 \in 1 .. Len(t) + 1 /\ n \in 1 - 1 .. Len(t) /\ Len(t) \in n .. Len(t)
    BY <1>1
  <2>2. SubSeq(t, 1, n) \o SubSeq(t, n + 1, Len(t)) = SubSeq(t, 1, Len(t))
    BY <2>1, ConcatAdjacentSubSeq
  <2> QED BY <2>2, SubSeqFull
<1> QED BY <1>3, <1>4, <1>5 DEF Take, Drop, Cat

\* Moving the first n bytes of t to the end of s, with r in front of both.
LEMMA MoveOn ==
  ASSUME NEW s \in Seq(Nat), NEW t \in Seq(Nat), NEW n \in Nat, n <= Len(t)
  PROVE  /\ Cat(s, Take(t, n)) \in Seq(Nat)
         /\ Len(Cat(s, Take(t, n))) = Len(s) + n
         /\ Cat(Cat(s, Take(t, n)), Drop(t, n)) = Cat(s, t)
<1>1. /\ Take(t, n) \in Seq(Nat) /\ Len(Take(t, n)) = n
      /\ Drop(t, n) \in Seq(Nat) /\ Cat(Take(t, n), Drop(t, n)) = t
  BY TakeDrop
<1>2. Cat(s, Take(t, n)) \in Seq(Nat) /\ Len(Cat(s, Take(t, n))) = Len(s) + n
  BY <1>1, CatIsSeq
<1>3. Cat(Cat(s, Take(t, n)), Drop(t, n)) = Cat(s, t)
  BY <1>1, Associative
<1> QED BY <1>2, <1>3

LEMMA MoveOnBehind ==
  ASSUME NEW r \in Seq(Nat), NEW s \in Seq(Nat), NEW t \in Seq(Nat),
         NEW n \in Nat, n <= Len(t)
  PROVE  Cat(Cat(r, Cat(s, Take(t, n))), Drop(t, n)) = Cat(Cat(r, s), t)
BY MoveOn, TakeDrop, CatIsSeq, Associative

-----------------------------------------------------------------------------
\* What the places of a direction hold together: past the last copy, past the
\* first copy, and all of them.
Past2(f) == Cat(f[Received], f[TcpOut])
Past1(f) == Cat(Cat(Past2(f), f[Buf2]), f[Stream])
Whole(f) == Cat(Cat(Past1(f), f[Buf1]), f[TcpIn])

Places == [1 .. 6 -> Seq(Nat)]

LEMMA PastsArePrefixes ==
  ASSUME NEW f \in Places
  PROVE  /\ Past2(f) \in Seq(Nat) /\ Past1(f) \in Seq(Nat) /\ Whole(f) \in Seq(Nat)
         /\ IsPrefix(f[Received], Past2(f))
         /\ IsPrefix(Past2(f), Past1(f)) /\ IsPrefix(Past1(f), Whole(f))
<1> USE DEF TcpIn, Buf1, Stream, Buf2, TcpOut, Received
<1>1. /\ f[1] \in Seq(Nat) /\ f[2] \in Seq(Nat) /\ f[3] \in Seq(Nat)
      /\ f[4] \in Seq(Nat) /\ f[5] \in Seq(Nat) /\ f[6] \in Seq(Nat)
  BY DEF Places
<1>2. Past2(f) \in Seq(Nat) /\ IsPrefix(f[Received], Past2(f))
  BY <1>1, CatIsSeq DEF Past2
<1>3. Past1(f) \in Seq(Nat) /\ IsPrefix(Past2(f), Past1(f))
  BY <1>1, <1>2, TwoMore DEF Past1
<1>4. Whole(f) \in Seq(Nat) /\ IsPrefix(Past1(f), Whole(f))
  BY <1>1, <1>3, TwoMore DEF Whole
<1> QED BY <1>2, <1>3, <1>4

\* g is f after n bytes of place i moved on to place j.
Moved(f, g, i, j, n) ==
  /\ g[i] = Drop(f[i], n)
  /\ g[j] = Cat(f[j], Take(f[i], n))
  /\ \A x \in 1 .. 6 : x # i /\ x # j => g[x] = f[x]

\* Moving bytes on keeps them, in order.
LEMMA MovedKeeps ==
  ASSUME NEW f \in Places, NEW g \in Places, NEW i \in 1 .. 5, NEW j, j = i + 1,
         NEW n \in Nat, n <= Len(f[i]), Moved(f, g, i, j, n)
  PROVE  /\ Whole(g) = Whole(f)
         /\ i # Buf1 => Past1(g) = Past1(f)
         /\ i # Buf2 => Past2(g) = Past2(f)
<1> USE DEF TcpIn, Buf1, Stream, Buf2, TcpOut, Received
<1>1. /\ f[1] \in Seq(Nat) /\ f[2] \in Seq(Nat) /\ f[3] \in Seq(Nat)
      /\ f[4] \in Seq(Nat) /\ f[5] \in Seq(Nat) /\ f[6] \in Seq(Nat)
  BY DEF Places
<1>2. Past2(f) \in Seq(Nat) /\ Past1(f) \in Seq(Nat)
  BY PastsArePrefixes
<1>3. CASE i = 5
  <2>1. j = 6 /\ n <= Len(f[5])
    BY <1>3
  <2>2. g[5] = Drop(f[5], n) /\ g[6] = Cat(f[6], Take(f[5], n))
    BY <1>3, <2>1 DEF Moved
  <2>3. g[1] = f[1] /\ g[2] = f[2] /\ g[3] = f[3] /\ g[4] = f[4]
    BY <1>3, <2>1 DEF Moved
  <2>4. Past2(g) = Past2(f)
    BY <1>1, <2>1, <2>2, MoveOn DEF Past2
  <2> QED BY <2>3, <2>4 DEF Past1, Whole
<1>4. CASE i = 4
  <2>1. j = 5 /\ n <= Len(f[4])
    BY <1>4
  <2>2. g[4] = Drop(f[4], n) /\ g[5] = Cat(f[5], Take(f[4], n))
    BY <1>4, <2>1 DEF Moved
  <2>3. g[1] = f[1] /\ g[2] = f[2] /\ g[3] = f[3] /\ g[6] = f[6]
    BY <1>4, <2>1 DEF Moved
  <2>4. Cat(Past2(g), g[4]) = Cat(Past2(f), f[4])
    BY <1>1, <2>1, <2>2, <2>3, MoveOnBehind DEF Past2
  <2> QED BY <1>4, <2>3, <2>4 DEF Past1, Whole
<1>5. CASE i = 3
  <2>1. j = 4 /\ n <= Len(f[3])
    BY <1>5
  <2>2. g[3] = Drop(f[3], n) /\ g[4] = Cat(f[4], Take(f[3], n))
    BY <1>5, <2>1 DEF Moved
  <2>3. g[1] = f[1] /\ g[2] = f[2] /\ g[5] = f[5] /\ g[6] = f[6]
    BY <1>5, <2>1 DEF Moved
  <2>4. Past2(g) = Past2(f)
    BY <2>3 DEF Past2
  <2>5. Past1(g) = Past1(f)
    BY <1>1, <1>2, <2>1, <2>2, <2>4, MoveOnBehind DEF Past1
  <2> QED BY <2>3, <2>4, <2>5 DEF Whole
<1>6. CASE i = 2
  <2>1. j = 3 /\ n <= Len(f[2])
    BY <1>6
  <2>2. g[2] = Drop(f[2], n) /\ g[3] = Cat(f[3], Take(f[2], n))
    BY <1>6, <2>1 DEF Moved
  <2>3. g[1] = f[1] /\ g[4] = f[4] /\ g[5] = f[5] /\ g[6] = f[6]
    BY <1>6, <2>1 DEF Moved
  <2>4. Past2(g) = Past2(f)
    BY <2>3 DEF Past2
  <2>5. Cat(Past2(f), f[4]) \in Seq(Nat)
    BY <1>1, <1>2, CatIsSeq
  <2>6. Cat(Past1(g), g[2]) = Cat(Past1(f), f[2])
    BY <1>1, <2>1, <2>2, <2>3, <2>4, <2>5, MoveOnBehind DEF Past1
  <2> QED BY <1>6, <2>3, <2>4, <2>6 DEF Whole
<1>7. CASE i = 1
  <2>1. j = 2 /\ n <= Len(f[1])
    BY <1>7
  <2>2. g[1] = Drop(f[1], n) /\ g[2] = Cat(f[2], Take(f[1], n))
    BY <1>7, <2>1 DEF Moved
  <2>3. g[3] = f[3] /\ g[4] = f[4] /\ g[5] = f[5] /\ g[6] = f[6]
    BY <1>7, <2>1 DEF Moved
  <2>4. Past2(g) = Past2(f) /\ Past1(g) = Past1(f)
    BY <2>3 DEF Past2, Past1
  <2>5. Cat(Cat(Past1(f), g[2]), g[1]) = Cat(Cat(Past1(f), f[2]), f[1])
    BY <1>1, <1>2, <2>1, <2>2, MoveOnBehind, SMTT(20)
  <2>6. Whole(g) = Whole(f)
    BY <2>4, <2>5 DEF Whole
  <2> QED BY <2>4, <2>6
<1> QED BY <1>3, <1>4, <1>5, <1>6, <1>7

-----------------------------------------------------------------------------
\* The inductive invariant.  Copy 2 of a direction still reads, and the receiver is there.
Reads(d) == app[Other(d)] \notin {"closed", "reset"} /\ pc[d][2] \notin {"close", "done"}

\* What a direction holds is what its application wrote: the part past copy 2
\* always, the part past copy 1 while copy 2 reads, all of it while the sender's
\* connection is up, with nothing missing unless the sender was reset.
Ordered(d) ==
  /\ IsPrefix(Past2(at[d]), sent[d])
  /\ Reads(d) => IsPrefix(Past1(at[d]), sent[d])
  /\ Reads(d) /\ d \notin lost => IsPrefix(Whole(at[d]), sent[d])
  /\ Reads(d) /\ d \notin lost /\ app[d] # "reset" => Whole(at[d]) = sent[d]
  /\ ~Broken(d) => Whole(at[d]) = sent[d]

\* A buffer holds bytes only while its copy writes.
Empty(d) == \A k \in 1 .. 2 : pc[d][k] # "write" => at[d][2 * k] = <<>>

\* A task that closes what it wrote to has a reason, and leaves nothing behind.
EndFits(d) ==
  /\ fin[d] # "no" => pc[d][1] = "done"
  /\ fin[d] \in {"read", "swallowed"} => at[d][Stream] = <<>>
  /\ pc[d][2] \in {"close", "done"} /\ ~Broken(d) => fin[d] \in {"read", "swallowed"}
  /\ pc[d][1] \in {"close", "done"} /\ ~Broken(d) =>
       /\ at[d][TcpIn] = <<>>
       /\ app[d] \in {"half", "closed"} \/ IsShut(d)
  /\ d \in eof => pc[d][2] = "done" /\ at[d][TcpOut] = <<>>

\* The tasks of n3 and its connection to the service start together.
Channel ==
  /\ pc["agent"][2] = "none" <=> app["n3"] = "absent"
  /\ pc["n3"][1] = "none" <=> app["n3"] = "absent"
  /\ app["agent"] # "absent"
  /\ app["n3"] = "absent" => sent["n3"] = <<>> /\ \A i \in 1 .. 6 : at["n3"][i] = <<>>

Fits(d) == Ordered(d) /\ Empty(d) /\ EndFits(d)

TInv == TypeOK /\ Channel /\ \A d \in Hops : Fits(d)

LEMMA BothHops ==
  ASSUME NEW d \in Hops
  PROVE  /\ Other(d) \in Hops /\ Other(d) # d /\ Other(Other(d)) = d
         /\ \A x \in Hops : x = d \/ x = Other(d)
BY DEF Hops, Other

LEMMA CapIsNat == \A i \in 1 .. 5 : Cap[i] \in Nat
BY CapAssumption DEF Cap

\* The part of TypeOK about the places, and its other part.
PlacesOK == /\ at \in [Hops -> Places]
            /\ \A d \in Hops, i \in 1 .. 5 : Len(at[d][i]) <= Cap[i]

LabelsOK ==
  /\ fin \in [Hops -> {"no", "sent", "read", "swallowed"}]
  /\ pc \in [Hops -> [1 .. 2 -> {"none", "read", "write", "close", "stuck", "done"}]]
  /\ app \in [Hops -> {"absent", "open", "half", "closed", "reset"}]
  /\ eof \subseteq Hops /\ lost \subseteq Hops

LEMMA TypeOKParts ==
  TypeOK <=> PlacesOK /\ sent \in [Hops -> Seq(Nat)] /\ LabelsOK /\ kept \subseteq Hops
BY DEF TypeOK, PlacesOK, LabelsOK, Places

-----------------------------------------------------------------------------
\* What Move does to its direction, and that it leaves the other alone.
LEMMA MoveMoves ==
  ASSUME PlacesOK, NEW d \in Hops, NEW i \in 1 .. 5, NEW j, j = i + 1,
         NEW n \in 1 .. Len(at[d][i]),
         Move(d, i, n), i = 5 \/ Len(at[d][j]) + n <= Cap[j]
  PROVE  /\ PlacesOK' /\ at'[Other(d)] = at[Other(d)]
         /\ Moved(at[d], at'[d], i, j, n)
         /\ at[d][i] # <<>> /\ n \in Nat /\ n <= Len(at[d][i])
         /\ Len(at'[d][i]) = Len(at[d][i]) - n
         /\ Len(at'[d][j]) = Len(at[d][j]) + n
<1> DEFINE f == at[d]
<1>1. /\ f \in Places /\ f[i] \in Seq(Nat) /\ f[j] \in Seq(Nat) /\ i \in 1 .. 6 /\ j \in 1 .. 6
      /\ j # i
  BY SMTT(20) DEF PlacesOK, Places
<1>2. Len(f[i]) \in Nat /\ Len(f[j]) \in Nat /\ n \in Nat /\ n <= Len(f[i]) /\ n > 0
  BY <1>1, LenProperties
<1>3. at' = [at EXCEPT ![d][i] = Drop(f[i], n), ![d][j] = Cat(f[j], Take(f[i], n))]
  BY <1>1 DEF Move, Drop, Take, Cat, PlacesOK, Places
<1>4. /\ Take(f[i], n) \in Seq(Nat) /\ Len(Take(f[i], n)) = n
      /\ Drop(f[i], n) \in Seq(Nat) /\ Len(Drop(f[i], n)) = Len(f[i]) - n
  BY <1>1, <1>2, TakeDrop
<1>5. Cat(f[j], Take(f[i], n)) \in Seq(Nat) /\ Len(Cat(f[j], Take(f[i], n))) = Len(f[j]) + n
  BY <1>1, <1>2, MoveOn
<1>6. /\ at'[d][i] = Drop(f[i], n) /\ at'[d][j] = Cat(f[j], Take(f[i], n))
      /\ \A x \in 1 .. 6 : x # i /\ x # j => at'[d][x] = f[x]
      /\ \A h \in Hops : h # d => at'[h] = at[h]
  BY <1>1, <1>3 DEF PlacesOK, Places
<1>7. at' \in [Hops -> Places]
  BY <1>1, <1>3, <1>4, <1>5 DEF PlacesOK, Places
<1>8. Moved(at[d], at'[d], i, j, n)
  BY <1>6 DEF Moved
<1>9. at'[Other(d)] = at[Other(d)]
  BY <1>6, BothHops
<1>10. /\ Len(at'[d][i]) = Len(at[d][i]) - n
       /\ Len(at'[d][j]) = Len(at[d][j]) + n
  BY <1>4, <1>5, <1>6
<1>11. ASSUME NEW h \in Hops, NEW x \in 1 .. 5
       PROVE  Len(at'[h][x]) <= Cap[x]
  <2>1. Len(at[h][x]) <= Cap[x] /\ Cap[x] \in Nat
    BY CapIsNat DEF PlacesOK
  <2>2. CASE h = d /\ x = i
    BY <1>2, <1>10, <2>1, <2>2
  <2>3. CASE h = d /\ x = j
    BY <1>2, <1>10, <2>1, <2>3
  <2>4. CASE h # d
    BY <1>6, <2>1, <2>4
  <2>5. CASE h = d /\ x # i /\ x # j
    <3>1. at'[h][x] = at[h][x]
      BY <1>6, <2>5
    <3> QED BY <2>1, <3>1
  <2> QED BY <2>2, <2>3, <2>4, <2>5
<1>12. at[d][i] # <<>>
  BY <1>2
<1> QED BY <1>2, <1>7, <1>8, <1>9, <1>10, <1>11, <1>12 DEF PlacesOK

\* What Discard does.
LEMMA DiscardDrops ==
  ASSUME PlacesOK, NEW d \in Hops, NEW i \in 1 .. 5, Discard(d, i)
  PROVE  /\ PlacesOK' /\ at'[Other(d)] = at[Other(d)] /\ at'[d] \in Places
         /\ at'[d][i] = <<>> /\ \A x \in 1 .. 6 : x # i => at'[d][x] = at[d][x]
<1>1. /\ at'[d][i] = <<>> /\ \A x \in 1 .. 6 : x # i => at'[d][x] = at[d][x]
      /\ \A h \in Hops : h # d => at'[h] = at[h]
  BY DEF Discard, PlacesOK, Places
<1>2. <<>> \in Seq(Nat) /\ Len(<<>>) = 0
  BY EmptySeq
<1>3. at' \in [Hops -> Places]
  <2>1. [at[d] EXCEPT ![i] = <<>>] \in Places
    BY <1>2 DEF PlacesOK, Places
  <2>2. at' = [at EXCEPT ![d] = [at[d] EXCEPT ![i] = <<>>]]
    BY DEF Discard, PlacesOK
  <2> QED BY <2>1, <2>2 DEF PlacesOK
<1>4. at'[Other(d)] = at[Other(d)]
  BY <1>1, BothHops
<1>5. ASSUME NEW h \in Hops, NEW x \in 1 .. 5
      PROVE  Len(at'[h][x]) <= Cap[x]
  <2>1. Len(at[h][x]) <= Cap[x] /\ Cap[x] \in Nat
    BY CapIsNat DEF PlacesOK
  <2>2. at'[h][x] = at[h][x] \/ at'[h][x] = <<>>
    BY <1>1
  <2> QED BY <1>2, <2>1, <2>2
<1> QED BY <1>1, <1>3, <1>4, <1>5 DEF PlacesOK

-----------------------------------------------------------------------------
\* What no step takes back, seen from direction d.
Worse(d) ==
  /\ lost \subseteq lost'
  /\ app[d] = "reset" => app'[d] = "reset"
  /\ app[d] \in {"half", "closed"} => app'[d] \in {"half", "closed", "reset"}
  /\ Broken(d) => Broken(d)'
  /\ Reads(d)' => Reads(d)
  /\ IsShut(d) => IsShut(d)'

\* Every step leaves what has finished finished and what is broken broken.
LEMMA GetsWorse ==
  ASSUME LabelsOK, Channel, Next, NEW d \in Hops
  PROVE  Worse(d)
<1> DEFINE Keeps ==
             /\ \A h \in Hops : /\ app[h] = "reset" => app'[h] = "reset"
                                /\ app[h] = "closed" => app'[h] \in {"closed", "reset"}
                                /\ app[h] = "half" => app'[h] \in {"half", "closed", "reset"}
                                /\ pc[h][2] = "done" => pc'[h][2] = "done"
                                /\ pc[h][2] = "close" => pc'[h][2] \in {"close", "done"}
             /\ lost \subseteq lost'
<1>1. ASSUME NEW h \in Hops,
             \/ AppSend(h) \/ AppRecv(h) \/ AppEof(h) \/ AppShutdown(h)
             \/ AppClose(h) \/ AppReset(h) \/ LoseConn(h)
      PROVE  Keeps
  BY <1>1 DEF LabelsOK, AppSend, AppRecv, AppEof, AppShutdown, AppClose, AppReset, LoseConn, Up
<1>2. ASSUME CreateChannel
      PROVE  Keeps
  BY <1>2 DEF LabelsOK, Channel, CreateChannel, Hops
<1>3. ASSUME NEW x \in Hops, TcpRead(x) \/ QuicWrite(x) \/ QuicClose(x)
      PROVE  Keeps
  <2>1. \A h \in Hops : pc'[h][2] = pc[h][2]
    BY <1>3 DEF LabelsOK, TcpRead, QuicWrite, QuicClose, Goto, WriteAll, AfterError
  <2> QED BY <1>3, <2>1 DEF LabelsOK, TcpRead, QuicWrite, QuicClose, DropSocket, Up
<1>4. ASSUME NEW x \in Hops, QuicRead(x) \/ QuicReadWoken(x) \/ TcpWrite(x) \/ TcpClose(x)
      PROVE  Keeps
  <2>1. /\ pc[x][2] \notin {"none", "done"}
        /\ pc[x][2] = "close" => pc'[x][2] = "done"
        /\ \A h \in Hops : h # x => pc'[h] = pc[h]
    BY <1>4 DEF LabelsOK, QuicRead, QuicReadWoken, TcpWrite, TcpClose, Goto, WriteAll
  <2>2. lost' = lost
    BY <1>4 DEF QuicRead, QuicReadWoken, TcpWrite, TcpClose
  <2>3. \A h \in Hops : /\ app[h] = "reset" => app'[h] = "reset"
                        /\ app[h] = "closed" => app'[h] \in {"closed", "reset"}
                        /\ app[h] = "half" => app'[h] \in {"half", "closed", "reset"}
    BY <1>4 DEF LabelsOK, QuicRead, QuicReadWoken, TcpWrite, TcpClose, DropSocket, Up
  <2> QED BY <2>1, <2>2, <2>3
<1>5. ASSUME NEW x \in Hops, ClosingRecv(x)
      PROVE  Keeps
  BY <1>5 DEF ClosingRecv
<1>6. Keeps
  BY <1>1, <1>2, <1>3, <1>4, <1>5 DEF Next, Copy
<1> QED BY <1>6, BothHops DEF Worse, Broken, Reads, IsShut

LEMMA SameBytes ==
  ASSUME NEW d \in Hops, Ordered(d), Worse(d), at'[d] = at[d], sent'[d] = sent[d]
  PROVE  Ordered(d)'
BY DEF Ordered, Worse

LEMMA MovedBytes ==
  ASSUME NEW d \in Hops, NEW i \in 1 .. 5, NEW j, j = i + 1, NEW n \in Nat, n <= Len(at[d][i]),
         PlacesOK, PlacesOK', sent[d] \in Seq(Nat), Ordered(d), Worse(d), sent'[d] = sent[d],
         Moved(at[d], at'[d], i, j, n),
         i = Buf1 => d \notin lost, i = Buf2 => Reads(d)
  PROVE  Ordered(d)'
<1> DEFINE f == at[d]
           g == at'[d]
<1>1. f \in Places /\ g \in Places
  BY DEF PlacesOK
<1> HIDE DEF f, g
<1>2. /\ Whole(g) = Whole(f)
      /\ i # Buf1 => Past1(g) = Past1(f)
      /\ i # Buf2 => Past2(g) = Past2(f)
  BY <1>1, MovedKeeps DEF f, g
<1>3. /\ Past2(g) \in Seq(Nat) /\ Past1(g) \in Seq(Nat) /\ Whole(g) \in Seq(Nat)
      /\ IsPrefix(Past2(g), Past1(g)) /\ IsPrefix(Past1(g), Whole(g))
  BY <1>1, PastsArePrefixes
<1>4. IsPrefix(Past2(g), sent[d])
  <2>1. CASE i = Buf2
    <3>1. IsPrefix(Past1(g), sent[d])
      BY <1>2, <2>1 DEF Ordered, f, Buf1, Buf2
    <3> QED BY <1>3, <3>1, PrefixTrans
  <2> QED BY <1>2, <2>1 DEF Ordered, f
<1>5. Reads(d) => IsPrefix(Past1(g), sent[d])
  <2>1. CASE i = Buf1 /\ Reads(d)
    <3>1. IsPrefix(Whole(g), sent[d])
      BY <1>2, <2>1 DEF Ordered, f
    <3> QED BY <1>3, <3>1, PrefixTrans
  <2> QED BY <1>2, <2>1 DEF Ordered, f
<1>6. /\ Reads(d) /\ d \notin lost => IsPrefix(Whole(g), sent[d])
      /\ Reads(d) /\ d \notin lost /\ app[d] # "reset" => Whole(g) = sent[d]
      /\ ~Broken(d) => Whole(g) = sent[d]
  BY <1>2 DEF Ordered, f
<1> QED BY <1>4, <1>5, <1>6 DEF Ordered, Worse, g

LEMMA Quiet ==
  ASSUME NEW d \in Hops, Fits(d), Worse(d),
         at'[d] = at[d], sent'[d] = sent[d], fin'[d] = fin[d], pc'[d] = pc[d],
         d \in eof' => d \in eof
  PROVE  Fits(d)'
<1>1. Ordered(d)'
  BY SameBytes DEF Fits
<1>2. Empty(d)'
  BY DEF Fits, Empty
<1>3. EndFits(d)'
  BY DEF Fits, EndFits, Worse, Broken
<1> QED BY <1>1, <1>2, <1>3 DEF Fits

\* A step that touches one direction keeps the invariant if it does so there.
LEMMA OtherQuiet ==
  ASSUME NEW d \in Hops, \A x \in Hops : Fits(x) /\ Worse(x), Fits(d)',
         at'[Other(d)] = at[Other(d)], sent'[Other(d)] = sent[Other(d)],
         fin'[Other(d)] = fin[Other(d)], pc'[Other(d)] = pc[Other(d)],
         Other(d) \in eof' => Other(d) \in eof
  PROVE  \A x \in Hops : Fits(x)'
<1>1. Fits(Other(d))'
  BY BothHops, Quiet
<1> QED BY <1>1, BothHops

\* The counts a read or a write may take.
LEMMA AtMostIs ==
  ASSUME PlacesOK, NEW d \in Hops, NEW i \in 1 .. 5, NEW room \in Int,
         NEW n \in AtMost(d, i, room)
  PROVE  n \in 1 .. Len(at[d][i]) /\ n <= room
<1>1. Len(at[d][i]) \in Nat
  BY LenProperties DEF PlacesOK, Places
<1> QED BY <1>1 DEF AtMost

LEMMA GotoGoes ==
  ASSUME LabelsOK, NEW d \in Hops, NEW k \in 1 .. 2, NEW l, Goto(d, k, l)
  PROVE  /\ pc'[d][k] = l /\ pc'[Other(d)] = pc[Other(d)]
         /\ \A j \in 1 .. 2 : j # k => pc'[d][j] = pc[d][j]
BY BothHops DEF LabelsOK, Goto

LEMMA NoneLeft ==
  ASSUME NEW s \in Seq(Nat), Len(s) = 0
  PROVE  s = <<>>
BY EmptySeq

-----------------------------------------------------------------------------
\* The steps of the tasks.
LEMMA TcpReadStep ==
  ASSUME TInv, \A x \in Hops : Worse(x), NEW d \in Hops, TcpRead(d)
  PROVE  PlacesOK' /\ \A x \in Hops : Fits(x)'
<1> USE DEF TcpIn, Buf1, Stream, Buf2, TcpOut, Received
<1>1. PlacesOK /\ LabelsOK /\ sent[d] \in Seq(Nat) /\ Fits(d) /\ Worse(d)
  BY TypeOKParts DEF TInv
<1>2. /\ pc[d][1] = "read" /\ at[d][Buf1] = <<>> /\ fin[d] = "no"
      /\ sent' = sent /\ fin' = fin /\ app' = app /\ eof' = eof /\ lost' = lost
  BY <1>1 DEF TcpRead, Fits, Empty, EndFits
<1>3. pc'[Other(d)] = pc[Other(d)] /\ pc'[d][2] = pc[d][2]
  <2>1. PICK l : Goto(d, 1, l)
    BY DEF TcpRead
  <2> QED BY <1>1, <2>1, GotoGoes
<1>4. CASE \E n \in AtMost(d, TcpIn, BufSize) : Move(d, TcpIn, n) /\ Goto(d, 1, "write")
  <2> PICK n \in AtMost(d, TcpIn, BufSize) : Move(d, TcpIn, n) /\ Goto(d, 1, "write")
    BY <1>4
  <2>1. n \in 1 .. Len(at[d][1]) /\ n <= BufSize /\ n \in Nat
    BY <1>1, AtMostIs, CapAssumption
  <2>2. Len(at[d][2]) + n <= Cap[2]
    BY <1>2, <2>1, CapAssumption DEF Cap
  <2>3. /\ PlacesOK' /\ at'[Other(d)] = at[Other(d)]
        /\ Moved(at[d], at'[d], 1, 2, n) /\ n <= Len(at[d][1])
    BY <1>1, <2>1, <2>2, MoveMoves
  <2>4. at'[d][3] = at[d][3] /\ at'[d][4] = at[d][4] /\ at'[d][5] = at[d][5]
    BY <2>3 DEF Moved
  <2>5. pc'[d][1] = "write"
    BY <1>1 DEF Goto, LabelsOK
  <2>6. Ordered(d)'
    BY <1>1, <1>2, <2>1, <2>3, MovedBytes DEF Fits
  <2>7. Empty(d)'
    BY <1>1, <1>3, <2>4, <2>5 DEF Fits, Empty
  <2>8. EndFits(d)'
    BY <1>1, <1>2, <1>3, <2>4, <2>5 DEF Fits, EndFits, Worse
  <2>9. \A x \in Hops : Fits(x)'
    BY <1>2, <1>3, <2>3, <2>6, <2>7, <2>8, OtherQuiet DEF Fits, TInv
  <2> QED BY <2>3, <2>9
<1>5. CASE (AtEnd(d) \/ app[d] = "reset") /\ Goto(d, 1, "close") /\ UNCHANGED at
  <2>1. PlacesOK'
    BY <1>1, <1>5 DEF PlacesOK
  <2>2. pc'[d][1] = "close"
    BY <1>1, <1>5 DEF Goto, LabelsOK
  <2>3. Ordered(d)'
    BY <1>1, <1>2, <1>5, SameBytes DEF Fits
  <2>4. Empty(d)'
    BY <1>1, <1>2, <1>3, <1>5, <2>2 DEF Fits, Empty
  <2>5. EndFits(d)'
    BY <1>1, <1>2, <1>3, <1>5, <2>2 DEF Fits, EndFits, Worse, AtEnd, Broken
  <2>6. \A x \in Hops : Fits(x)'
    BY <1>2, <1>3, <1>5, <2>3, <2>4, <2>5, OtherQuiet DEF Fits, TInv
  <2> QED BY <2>1, <2>6
<1> QED BY <1>4, <1>5 DEF TcpRead, AfterError

LEMMA QuicWriteStep ==
  ASSUME TInv, \A x \in Hops : Worse(x), NEW d \in Hops, QuicWrite(d)
  PROVE  PlacesOK' /\ \A x \in Hops : Fits(x)'
<1> USE DEF TcpIn, Buf1, Stream, Buf2, TcpOut, Received
<1>1. PlacesOK /\ LabelsOK /\ sent[d] \in Seq(Nat) /\ Fits(d) /\ Worse(d)
  BY TypeOKParts DEF TInv
<1>2. /\ pc[d][1] = "write" /\ fin[d] = "no"
      /\ sent' = sent /\ fin' = fin /\ app' = app /\ eof' = eof /\ lost' = lost
  BY <1>1 DEF QuicWrite, Fits, EndFits
<1>3. pc'[Other(d)] = pc[Other(d)] /\ pc'[d][2] = pc[d][2]
  <2>1. PICK l : Goto(d, 1, l)
    BY DEF QuicWrite, WriteAll
  <2> QED BY <1>1, <2>1, GotoGoes
<1>4. CASE d \notin lost /\ \E n \in AtMost(d, Buf1, Room(d, Stream, QuicCap)) : WriteAll(d, 1, n)
  <2> PICK n \in AtMost(d, Buf1, Room(d, Stream, QuicCap)) : WriteAll(d, 1, n)
    BY <1>4
  <2>1. Len(at[d][2]) \in Nat /\ Len(at[d][3]) \in Nat /\ QuicCap \in Nat
    BY <1>1, CapAssumption, LenProperties DEF PlacesOK, Places
  <2>2. Room(d, 3, QuicCap) \in Int
    BY <2>1 DEF Room
  <2>3. n \in 1 .. Len(at[d][2]) /\ n <= Room(d, 3, QuicCap) /\ n \in Nat
    BY <1>1, <2>1, <2>2, AtMostIs
  <2>4. Len(at[d][3]) + n <= Cap[3]
    BY <2>1, <2>3 DEF Cap, Room
  <2>5. Move(d, 2, n)
    <3>1. 2 * 1 = 2
      OBVIOUS
    <3> QED BY <3>1, Zenon DEF WriteAll
  <2>6. /\ PlacesOK' /\ at'[Other(d)] = at[Other(d)]
        /\ Moved(at[d], at'[d], 2, 3, n) /\ n <= Len(at[d][2])
        /\ Len(at'[d][2]) = Len(at[d][2]) - n
    BY <1>1, <2>3, <2>4, <2>5, MoveMoves
  <2>7. at'[d][1] = at[d][1] /\ at'[d][4] = at[d][4] /\ at'[d][5] = at[d][5]
    BY <2>6 DEF Moved
  <2>8. pc'[d][1] = IF n = Len(at[d][2]) THEN "read" ELSE "write"
    BY <1>1 DEF WriteAll, Goto, LabelsOK
  <2>9. Ordered(d)'
    BY <1>1, <1>2, <1>4, <2>3, <2>6, MovedBytes DEF Fits
  <2>10. n = Len(at[d][2]) => at'[d][2] = <<>>
    <3>1. at'[d][2] \in Seq(Nat)
      BY <2>6 DEF PlacesOK, Places
    <3> QED BY <2>1, <2>6, <3>1, NoneLeft
  <2>11. Empty(d)'
    BY <1>1, <1>3, <2>7, <2>8, <2>10 DEF Fits, Empty
  <2>12. EndFits(d)'
    BY <1>1, <1>2, <1>3, <2>7, <2>8 DEF Fits, EndFits, Worse
  <2>13. \A x \in Hops : Fits(x)'
    BY <1>2, <1>3, <2>6, <2>9, <2>11, <2>12, OtherQuiet DEF Fits, TInv
  <2> QED BY <2>6, <2>13
<1>5. CASE d \in lost /\ Discard(d, Buf1) /\ \E l \in {"read", "close"} : Goto(d, 1, l)
  <2>1. /\ PlacesOK' /\ at'[Other(d)] = at[Other(d)]
        /\ at'[d][2] = <<>> /\ \A x \in 1 .. 6 : x # 2 => at'[d][x] = at[d][x]
    BY <1>1, <1>5, DiscardDrops
  <2>2. /\ at'[d][1] = at[d][1] /\ at'[d][3] = at[d][3] /\ at'[d][4] = at[d][4]
        /\ at'[d][5] = at[d][5] /\ at'[d][6] = at[d][6]
    BY <2>1
  <2>3. pc'[d][1] \in {"read", "close"}
    BY <1>1, <1>5 DEF Goto, LabelsOK
  <2>4. Past2(at'[d]) = Past2(at[d]) /\ Past1(at'[d]) = Past1(at[d])
    BY <2>2 DEF Past2, Past1
  <2>5. Broken(d)'
    BY <1>2, <1>5 DEF Broken
  <2>6. Ordered(d)'
    BY <1>1, <1>2, <1>5, <2>4, <2>5 DEF Fits, Ordered, Worse
  <2>7. Empty(d)'
    BY <1>1, <1>3, <2>1, <2>2 DEF Fits, Empty
  <2>8. EndFits(d)'
    BY <1>1, <1>2, <1>3, <2>2, <2>3, <2>5 DEF Fits, EndFits, Worse
  <2>9. \A x \in Hops : Fits(x)'
    BY <1>2, <1>3, <2>1, <2>6, <2>7, <2>8, OtherQuiet DEF Fits, TInv
  <2> QED BY <2>1, <2>9
<1> QED BY <1>4, <1>5 DEF QuicWrite, AfterError

LEMMA QuicCloseStep ==
  ASSUME TInv, \A x \in Hops : Worse(x), NEW d \in Hops, QuicClose(d)
  PROVE  PlacesOK' /\ \A x \in Hops : Fits(x)'
<1> USE DEF TcpIn, Buf1, Stream, Buf2, TcpOut, Received
<1>1. PlacesOK /\ LabelsOK /\ sent[d] \in Seq(Nat) /\ Fits(d) /\ Worse(d)
  BY TypeOKParts DEF TInv
<1>2. /\ pc[d][1] = "close" /\ fin[d] = "no"
      /\ at' = at /\ sent' = sent /\ eof' = eof /\ lost' = lost
  BY <1>1 DEF QuicClose, Fits, EndFits
<1>3. pc'[Other(d)] = pc[Other(d)] /\ pc'[d][1] = "done" /\ pc'[d][2] = pc[d][2]
  BY <1>1, GotoGoes DEF QuicClose
<1>4. fin'[Other(d)] = fin[Other(d)] /\ fin'[d] \in {"no", "sent"}
  BY <1>1, <1>2, BothHops DEF QuicClose, LabelsOK
<1>5. PlacesOK'
  BY <1>1, <1>2 DEF PlacesOK
<1>6. Ordered(d)'
  BY <1>1, <1>2, SameBytes DEF Fits
<1>7. Empty(d)'
  BY <1>1, <1>2, <1>3 DEF Fits, Empty
<1>8. EndFits(d)'
  BY <1>1, <1>2, <1>3, <1>4 DEF Fits, EndFits, Worse, Broken
<1>9. \A x \in Hops : Fits(x)'
  BY <1>2, <1>3, <1>4, <1>6, <1>7, <1>8, OtherQuiet DEF Fits, TInv
<1> QED BY <1>5, <1>9

LEMMA QuicReadStep ==
  ASSUME TInv, \A x \in Hops : Worse(x), NEW d \in Hops, QuicRead(d)
  PROVE  PlacesOK' /\ \A x \in Hops : Fits(x)'
<1> USE DEF TcpIn, Buf1, Stream, Buf2, TcpOut, Received
<1>1. PlacesOK /\ LabelsOK /\ sent[d] \in Seq(Nat) /\ Fits(d) /\ Worse(d)
  BY TypeOKParts DEF TInv
<1>2. /\ pc[d][2] = "read" /\ at[d][Buf2] = <<>>
      /\ sent' = sent /\ app' = app /\ eof' = eof /\ lost' = lost
  BY <1>1 DEF QuicRead, Fits, Empty
<1>3. pc'[Other(d)] = pc[Other(d)] /\ pc'[d][1] = pc[d][1]
  <2>1. PICK l : Goto(d, 2, l)
    BY DEF QuicRead
  <2> QED BY <1>1, <2>1, GotoGoes
<1>4. /\ fin'[Other(d)] = fin[Other(d)]
      /\ fin[d] \in {"no", "read", "swallowed"} => fin'[d] = fin[d]
      /\ fin'[d] # fin[d] => fin'[d] \in {"read", "swallowed"} /\ fin[d] = "sent"
  BY <1>1, BothHops DEF QuicRead, LabelsOK
<1>5. CASE \E n \in AtMost(d, Stream, BufSize) :
             /\ Move(d, Stream, n) /\ Goto(d, 2, "write")
             /\ UNCHANGED fin \/ (n = Len(at[d][Stream]) /\ fin[d] = "sent")
  <2> PICK n \in AtMost(d, Stream, BufSize) :
             /\ Move(d, Stream, n) /\ Goto(d, 2, "write")
             /\ UNCHANGED fin \/ (n = Len(at[d][Stream]) /\ fin[d] = "sent")
    BY <1>5
  <2>1. n \in 1 .. Len(at[d][3]) /\ n <= BufSize /\ n \in Nat
    BY <1>1, AtMostIs, CapAssumption
  <2>2. Move(d, 3, n) /\ Len(at[d][4]) + n <= Cap[4]
    BY <1>2, <2>1, CapAssumption DEF Cap
  <2>3. at[d][3] # <<>>
    BY <2>1
  <2>4. /\ PlacesOK' /\ at'[Other(d)] = at[Other(d)]
        /\ Moved(at[d], at'[d], 3, 4, n) /\ n <= Len(at[d][3])
        /\ Len(at'[d][3]) = Len(at[d][3]) - n
    BY <1>1, <2>1, <2>2, MoveMoves
  <2>5. at'[d][1] = at[d][1] /\ at'[d][2] = at[d][2] /\ at'[d][5] = at[d][5]
    BY <2>4 DEF Moved
  <2>6. pc'[d][2] = "write"
    BY <1>1, GotoGoes
  <2>7. n = Len(at[d][3]) => at'[d][3] = <<>>
    <3>1. at'[d][3] \in Seq(Nat) /\ Len(at[d][3]) \in Nat
      BY <1>1, <2>4, LenProperties DEF PlacesOK, Places
    <3> QED BY <2>4, <3>1, NoneLeft
  <2>8. Ordered(d)'
    BY <1>1, <1>2, <2>1, <2>4, MovedBytes DEF Fits
  <2>9. Empty(d)'
    BY <1>1, <1>3, <2>5, <2>6 DEF Fits, Empty
  <2>10. EndFits(d)'
    BY <1>1, <1>2, <1>3, <1>4, <2>4, <2>5, <2>6, <2>7, <2>3 DEF Fits, EndFits, Worse
  <2>11. \A x \in Hops : Fits(x)'
    BY <1>2, <1>3, <1>4, <2>4, <2>8, <2>9, <2>10, OtherQuiet DEF Fits, TInv
  <2> QED BY <2>4, <2>11
<1>6. CASE /\ UNCHANGED at
           /\ \/ /\ at[d][Stream] = <<>> /\ fin'[d] = "read" /\ fin[d] = "sent"
                 /\ Goto(d, 2, "close")
              \/ fin[d] = "swallowed" /\ (Goto(d, 2, "stuck") \/ Goto(d, 2, "close"))
              \/ Other(d) \in lost /\ Goto(d, 2, "close") /\ UNCHANGED fin
  <2>1. PlacesOK'
    BY <1>1, <1>6 DEF PlacesOK
  <2>2. pc'[d][2] \in {"stuck", "close"} /\ (fin[d] = "sent" /\ fin'[d] = "sent" => lost # {})
    BY <1>1, <1>6, GotoGoes
  <2>3. Ordered(d)'
    BY <1>1, <1>2, <1>6, SameBytes DEF Fits
  <2>4. Empty(d)'
    BY <1>1, <1>2, <1>3, <1>6, <2>2 DEF Fits, Empty
  <2>5. EndFits(d)'
    BY <1>1, <1>2, <1>3, <1>4, <1>6, <2>2 DEF Fits, EndFits, Worse, Broken
  <2>6. \A x \in Hops : Fits(x)'
    BY <1>2, <1>3, <1>4, <1>6, <2>3, <2>4, <2>5, OtherQuiet DEF Fits, TInv
  <2> QED BY <2>1, <2>6
<1> QED BY <1>1, <1>5, <1>6 DEF QuicRead, AfterError, LabelsOK

LEMMA QuicReadWokenStep ==
  ASSUME TInv, \A x \in Hops : Worse(x), NEW d \in Hops, QuicReadWoken(d)
  PROVE  PlacesOK' /\ \A x \in Hops : Fits(x)'
<1> USE DEF TcpIn, Buf1, Stream, Buf2, TcpOut, Received
<1>1. PlacesOK /\ LabelsOK /\ Fits(d) /\ Worse(d)
  BY TypeOKParts DEF TInv
<1>2. /\ pc[d][2] = "stuck" /\ lost # {} /\ at' = at
      /\ sent' = sent /\ fin' = fin /\ app' = app /\ eof' = eof /\ lost' = lost
  BY DEF QuicReadWoken
<1>3. pc'[Other(d)] = pc[Other(d)] /\ pc'[d][1] = pc[d][1] /\ pc'[d][2] = "close"
  BY <1>1, GotoGoes DEF QuicReadWoken
<1>4. PlacesOK'
  BY <1>1, <1>2 DEF PlacesOK
<1>5. Ordered(d)'
  BY <1>1, <1>2, SameBytes DEF Fits
<1>6. Empty(d)'
  BY <1>1, <1>2, <1>3 DEF Fits, Empty
<1>7. EndFits(d)'
  BY <1>1, <1>2, <1>3 DEF Fits, EndFits, Worse, Broken
<1>8. \A x \in Hops : Fits(x)'
  BY <1>2, <1>3, <1>5, <1>6, <1>7, OtherQuiet DEF Fits, TInv
<1> QED BY <1>4, <1>8

LEMMA TcpWriteStep ==
  ASSUME TInv, \A x \in Hops : Worse(x), NEW d \in Hops, TcpWrite(d)
  PROVE  PlacesOK' /\ \A x \in Hops : Fits(x)'
<1> USE DEF TcpIn, Buf1, Stream, Buf2, TcpOut, Received
<1>1. PlacesOK /\ LabelsOK /\ sent[d] \in Seq(Nat) /\ Fits(d) /\ Worse(d)
  BY TypeOKParts DEF TInv
<1>2. pc[d][2] = "write" /\ sent' = sent /\ fin' = fin /\ eof' = eof /\ lost' = lost
  BY DEF TcpWrite
<1>3. pc'[Other(d)] = pc[Other(d)] /\ pc'[d][1] = pc[d][1]
  <2>1. PICK l : Goto(d, 2, l)
    BY DEF TcpWrite, WriteAll
  <2> QED BY <1>1, <2>1, GotoGoes
<1>4. CASE /\ Up(Other(d)) /\ UNCHANGED app
           /\ \E n \in AtMost(d, Buf2, Room(d, TcpOut, TcpCap)) : WriteAll(d, 2, n)
  <2> PICK n \in AtMost(d, Buf2, Room(d, TcpOut, TcpCap)) : WriteAll(d, 2, n)
    BY <1>4
  <2>1. Len(at[d][4]) \in Nat /\ Len(at[d][5]) \in Nat /\ TcpCap \in Nat
    BY <1>1, CapAssumption, LenProperties DEF PlacesOK, Places
  <2>2. Room(d, 5, TcpCap) \in Int
    BY <2>1 DEF Room
  <2>3. n \in 1 .. Len(at[d][4]) /\ n <= Room(d, 5, TcpCap) /\ n \in Nat
    BY <1>1, <2>1, <2>2, AtMostIs
  <2>4. Len(at[d][5]) + n <= Cap[5]
    BY <2>1, <2>3 DEF Cap, Room
  <2>5. Move(d, 4, n)
    <3>1. 2 * 2 = 4
      OBVIOUS
    <3> QED BY <3>1, Zenon DEF WriteAll
  <2>6. /\ PlacesOK' /\ at'[Other(d)] = at[Other(d)]
        /\ Moved(at[d], at'[d], 4, 5, n) /\ n <= Len(at[d][4])
        /\ Len(at'[d][4]) = Len(at[d][4]) - n
    BY <1>1, <2>3, <2>4, <2>5, MoveMoves
  <2>7. at'[d][1] = at[d][1] /\ at'[d][2] = at[d][2] /\ at'[d][3] = at[d][3]
    BY <2>6 DEF Moved
  <2>8. pc'[d][2] = IF n = Len(at[d][4]) THEN "read" ELSE "write"
    BY <1>1 DEF WriteAll, Goto, LabelsOK
  <2>9. Reads(d)
    BY <1>2, <1>4 DEF Reads, Up
  <2>10. Ordered(d)'
    BY <1>1, <1>2, <2>3, <2>6, <2>9, MovedBytes DEF Fits
  <2>11. n = Len(at[d][4]) => at'[d][4] = <<>>
    <3>1. at'[d][4] \in Seq(Nat)
      BY <2>6 DEF PlacesOK, Places
    <3> QED BY <2>1, <2>6, <3>1, NoneLeft
  <2>12. Empty(d)'
    BY <1>1, <1>3, <2>7, <2>8, <2>11 DEF Fits, Empty
  <2>13. EndFits(d)'
    <3>1. d \notin eof' /\ pc'[d][2] \notin {"close", "done"}
      BY <1>1, <1>2, <2>8 DEF Fits, EndFits
    <3> QED BY <1>1, <1>2, <1>3, <1>4, <2>7, <3>1 DEF Fits, EndFits, Worse
  <2>14. \A x \in Hops : Fits(x)'
    BY <1>2, <1>3, <2>6, <2>10, <2>12, <2>13, OtherQuiet DEF Fits, TInv
  <2> QED BY <2>6, <2>14
<1>5. CASE /\ Discard(d, Buf2) /\ \E l \in {"read", "close"} : Goto(d, 2, l)
           /\ app' = [app EXCEPT ![Other(d)] = "reset"]
  <2>1. /\ PlacesOK' /\ at'[Other(d)] = at[Other(d)]
        /\ at'[d][4] = <<>> /\ \A x \in 1 .. 6 : x # 4 => at'[d][x] = at[d][x]
    BY <1>1, <1>5, DiscardDrops
  <2>2. /\ at'[d][1] = at[d][1] /\ at'[d][2] = at[d][2] /\ at'[d][3] = at[d][3]
        /\ at'[d][5] = at[d][5] /\ at'[d][6] = at[d][6]
    BY <2>1
  <2>3. pc'[d][2] \in {"read", "close"}
    BY <1>1, <1>5 DEF Goto, LabelsOK
  <2>4. Past2(at'[d]) = Past2(at[d])
    BY <2>2 DEF Past2
  <2>5. app'[Other(d)] = "reset"
    BY <1>1, <1>5, BothHops DEF LabelsOK
  <2>6. Broken(d)' /\ ~Reads(d)'
    BY <2>5 DEF Broken, Reads
  <2>7. Ordered(d)'
    BY <1>1, <1>2, <2>4, <2>6 DEF Fits, Ordered
  <2>8. Empty(d)'
    BY <1>1, <1>3, <2>1, <2>2 DEF Fits, Empty
  <2>9. EndFits(d)'
    BY <1>1, <1>2, <1>3, <2>2, <2>3, <2>6 DEF Fits, EndFits
  <2>10. \A x \in Hops : Fits(x)'
    BY <1>2, <1>3, <2>1, <2>7, <2>8, <2>9, OtherQuiet DEF Fits, TInv
  <2> QED BY <2>1, <2>10
<1> QED BY <1>4, <1>5 DEF TcpWrite, AfterError

LEMMA TcpCloseStep ==
  ASSUME TInv, \A x \in Hops : Worse(x), NEW d \in Hops, TcpClose(d)
  PROVE  PlacesOK' /\ \A x \in Hops : Fits(x)'
<1> USE DEF TcpIn, Buf1, Stream, Buf2, TcpOut, Received
<1>1. PlacesOK /\ LabelsOK /\ Fits(d) /\ Worse(d)
  BY TypeOKParts DEF TInv
<1>2. /\ pc[d][2] = "close" /\ at' = at
      /\ sent' = sent /\ fin' = fin /\ eof' = eof /\ lost' = lost
  BY DEF TcpClose
<1>3. pc'[Other(d)] = pc[Other(d)] /\ pc'[d][1] = pc[d][1] /\ pc'[d][2] = "done"
  BY <1>1, GotoGoes DEF TcpClose
<1>4. PlacesOK'
  BY <1>1, <1>2 DEF PlacesOK
<1>5. Ordered(d)'
  BY <1>1, <1>2, SameBytes DEF Fits
<1>6. Empty(d)'
  BY <1>1, <1>2, <1>3 DEF Fits, Empty
<1>7. EndFits(d)'
  BY <1>1, <1>2, <1>3 DEF Fits, EndFits, Worse, Broken
<1>8. \A x \in Hops : Fits(x)'
  BY <1>2, <1>3, <1>5, <1>6, <1>7, OtherQuiet DEF Fits, TInv
<1> QED BY <1>4, <1>8

LEMMA ClosingRecvStep ==
  ASSUME TInv, \A x \in Hops : Worse(x), NEW d \in Hops, ClosingRecv(d)
  PROVE  PlacesOK' /\ \A x \in Hops : Fits(x)'
<1> USE DEF TcpIn, Buf1, Stream, Buf2, TcpOut, Received
<1>1. PlacesOK /\ LabelsOK /\ Fits(d) /\ Worse(d)
  BY TypeOKParts DEF TInv
<1>2. /\ pc[d][2] = "done" /\ at[d][3] # <<>>
      /\ sent' = sent /\ fin' = fin /\ pc' = pc /\ eof' = eof
  BY BothHops DEF ClosingRecv, IsGone
<1>3. /\ PlacesOK' /\ at'[Other(d)] = at[Other(d)]
      /\ at'[d][3] = <<>> /\ \A x \in 1 .. 6 : x # 3 => at'[d][x] = at[d][x]
  BY <1>1, DiscardDrops DEF ClosingRecv
<1>4. /\ at'[d][1] = at[d][1] /\ at'[d][2] = at[d][2] /\ at'[d][4] = at[d][4]
      /\ at'[d][5] = at[d][5] /\ at'[d][6] = at[d][6]
  BY <1>3
<1>5. Past2(at'[d]) = Past2(at[d])
  BY <1>4 DEF Past2
<1>6. Broken(d)' /\ ~Reads(d)'
  BY <1>1, <1>2 DEF Fits, EndFits, Reads, Worse
<1>7. Ordered(d)'
  BY <1>1, <1>2, <1>5, <1>6 DEF Fits, Ordered
<1>8. Empty(d)'
  BY <1>1, <1>2, <1>4 DEF Fits, Empty
<1>9. EndFits(d)'
  BY <1>1, <1>2, <1>3, <1>4, <1>6 DEF Fits, EndFits
<1>10. \A x \in Hops : Fits(x)'
  BY <1>2, <1>3, <1>7, <1>8, <1>9, OtherQuiet DEF Fits, TInv
<1> QED BY <1>3, <1>10

-----------------------------------------------------------------------------
\* The steps of the applications, of the connections, and of n3's accept loop.
LEMMA AppendIsCat ==
  ASSUME NEW s \in Seq(Nat), NEW x \in Nat
  PROVE  Append(s, x) \in Seq(Nat) /\ Len(Append(s, x)) = Len(s) + 1 /\ Append(s, x) = Cat(s, <<x>>)
         /\ <<x>> \in Seq(Nat)
<1>1. <<x>> \in Seq(Nat)
  OBVIOUS
<1>2. Append(s, x) \in Seq(Nat) /\ Len(Append(s, x)) = Len(s) + 1
  BY AppendProperties
<1>3. Append(s, x) = s \o <<x>>
  BY AppendIsConcat
<1> QED BY <1>1, <1>2, <1>3 DEF Cat

LEMMA AppSendStep ==
  ASSUME TInv, \A x \in Hops : Worse(x), NEW d \in Hops, AppSend(d)
  PROVE  PlacesOK' /\ \A x \in Hops : Fits(x)'
<1> USE DEF TcpIn, Buf1, Stream, Buf2, TcpOut, Received
<1> DEFINE b == Len(sent[d]) + 1
<1>1. PlacesOK /\ LabelsOK /\ sent \in [Hops -> Seq(Nat)] /\ sent[d] \in Seq(Nat) /\ Fits(d) /\ Worse(d)
  BY TypeOKParts DEF TInv
<1>2. app[d] = "open" /\ fin' = fin /\ pc' = pc /\ eof' = eof /\ lost' = lost
  BY DEF AppSend
<1>3. b \in Nat
  BY <1>1, LenProperties
<1>4. sent'[d] = Append(sent[d], b) /\ sent'[Other(d)] = sent[Other(d)]
  BY <1>1, BothHops DEF AppSend
<1> HIDE DEF b
<1>5. /\ sent'[d] = Cat(sent[d], <<b>>) /\ sent'[d] \in Seq(Nat) /\ <<b>> \in Seq(Nat)
      /\ IsPrefix(sent[d], sent'[d])
  BY <1>1, <1>3, <1>4, AppendIsCat, CatIsSeq
<1>6. /\ Past2(at[d]) \in Seq(Nat) /\ Past1(at[d]) \in Seq(Nat) /\ Whole(at[d]) \in Seq(Nat)
      /\ at[d] \in Places
  BY <1>1, PastsArePrefixes DEF PlacesOK
<1>7. CASE IsShut(d) /\ app' = [app EXCEPT ![d] = "reset"] /\ UNCHANGED at
  <2>1. PlacesOK'
    BY <1>1, <1>7 DEF PlacesOK
  <2>2. app'[d] = "reset" /\ Broken(d)'
    BY <1>1, <1>7 DEF LabelsOK, Broken
  <2>3. Ordered(d)'
    <3>1. IsPrefix(Past2(at[d]), sent'[d])
      BY <1>1, <1>5, <1>6, PrefixTrans DEF Fits, Ordered
    <3>2. Reads(d)' => IsPrefix(Past1(at[d]), sent'[d])
      BY <1>1, <1>5, <1>6, PrefixTrans DEF Fits, Ordered, Worse
    <3>3. Reads(d)' /\ d \notin lost => IsPrefix(Whole(at[d]), sent'[d])
      BY <1>1, <1>5, <1>6, PrefixTrans DEF Fits, Ordered, Worse
    <3> QED BY <1>2, <1>7, <2>2, <3>1, <3>2, <3>3 DEF Ordered
  <2>4. Empty(d)'
    BY <1>1, <1>2, <1>7 DEF Fits, Empty
  <2>5. EndFits(d)'
    BY <1>1, <1>2, <1>7, <2>2 DEF Fits, EndFits
  <2>6. \A x \in Hops : Fits(x)'
    BY <1>2, <1>4, <1>7, <2>3, <2>4, <2>5, OtherQuiet DEF Fits, TInv
  <2> QED BY <2>1, <2>6
<1>8. CASE /\ ~IsShut(d) /\ Len(at[d][TcpIn]) < TcpCap /\ UNCHANGED app
           /\ at' = [at EXCEPT ![d][TcpIn] = Append(@, b)]
  <2>1. at[d][1] \in Seq(Nat) /\ Len(at[d][1]) \in Nat /\ Len(at[d][1]) + 1 <= Cap[1]
    BY <1>1, <1>8, CapAssumption, LenProperties DEF PlacesOK, Places, Cap
  <2>2. /\ at'[d][1] = Cat(at[d][1], <<b>>) /\ Append(at[d][1], b) \in Seq(Nat)
        /\ Len(Append(at[d][1], b)) = Len(at[d][1]) + 1
    <3>1. at'[d][1] = Append(at[d][1], b)
      BY <1>1, <1>8 DEF PlacesOK, Places
    <3> QED BY <1>3, <2>1, <3>1, AppendIsCat
  <2>3. /\ at'[Other(d)] = at[Other(d)]
        /\ at'[d][2] = at[d][2] /\ at'[d][3] = at[d][3] /\ at'[d][4] = at[d][4]
        /\ at'[d][5] = at[d][5] /\ at'[d][6] = at[d][6]
    BY <1>1, <1>8, BothHops DEF PlacesOK, Places
  <2>4. PlacesOK'
    <3>1. [at[d] EXCEPT ![1] = Append(at[d][1], b)] \in Places
      BY <1>6, <2>2 DEF Places
    <3>2. at' = [at EXCEPT ![d] = [at[d] EXCEPT ![1] = Append(at[d][1], b)]]
      BY <1>1, <1>8 DEF PlacesOK
    <3>3. at' \in [Hops -> Places]
      BY <1>1, <3>1, <3>2 DEF PlacesOK
    <3>4. ASSUME NEW x \in Hops, NEW i \in 1 .. 5
          PROVE  Len(at'[x][i]) <= Cap[i]
      <4>1. CASE x = d /\ i = 1
        <5>1. at'[x][i] = Append(at[d][1], b)
          BY <1>1, <1>8, <4>1 DEF PlacesOK, Places
        <5> QED BY <2>1, <2>2, <4>1, <5>1
      <4>2. CASE ~(x = d /\ i = 1)
        <5>1. at'[x][i] = at[x][i]
          BY <1>1, <1>8, <4>2 DEF PlacesOK, Places
        <5> QED BY <1>1, <5>1 DEF PlacesOK
      <4> QED BY <4>1, <4>2
    <3> QED BY <3>3, <3>4 DEF PlacesOK
  <2>5. Past2(at'[d]) = Past2(at[d]) /\ Past1(at'[d]) = Past1(at[d])
    BY <2>3 DEF Past2, Past1
  <2>6. Whole(at'[d]) = Cat(Whole(at[d]), <<b>>)
    <3> DEFINE w == Cat(Past1(at[d]), at[d][2])
    <3>1. w \in Seq(Nat)
      <4>1. at[d][2] \in Seq(Nat)
        BY <1>6 DEF Places
      <4> QED BY <1>6, <4>1, CatIsSeq
    <3>2. Whole(at'[d]) = Cat(w, Cat(at[d][1], <<b>>)) /\ Whole(at[d]) = Cat(w, at[d][1])
      BY <2>2, <2>3, <2>5 DEF Whole
    <3> HIDE DEF w
    <3>3. Cat(Cat(w, at[d][1]), <<b>>) = Cat(w, Cat(at[d][1], <<b>>))
      BY <1>5, <2>1, <3>1, Associative
    <3> QED BY <3>2, <3>3
  <2>7. Ordered(d)'
    <3>1. IsPrefix(Past2(at[d]), sent'[d])
      BY <1>1, <1>5, <1>6, PrefixTrans DEF Fits, Ordered
    <3>2. Reads(d)' => IsPrefix(Past1(at[d]), sent'[d])
      BY <1>1, <1>5, <1>6, PrefixTrans DEF Fits, Ordered, Worse
    <3>3. (Reads(d) /\ d \notin lost) \/ ~Broken(d) => Whole(at'[d]) = sent'[d]
      BY <1>1, <1>2, <1>5, <2>6 DEF Fits, Ordered
    <3>4. IsPrefix(sent'[d], sent'[d])
      <4>1. Len(sent'[d]) \in Nat
        BY <1>5, LenProperties
      <4> QED BY <1>5, <4>1, PrefixIff
    <3>5. IsPrefix(Past2(at'[d]), sent'[d]) /\ (Reads(d)' => IsPrefix(Past1(at'[d]), sent'[d]))
      BY <2>5, <3>1, <3>2
    <3>6. (Reads(d)' /\ d \notin lost') \/ ~Broken(d)' => Whole(at'[d]) = sent'[d]
      BY <1>1, <1>2, <3>3 DEF Worse
    <3> QED BY <3>4, <3>5, <3>6 DEF Ordered
  <2>8. Empty(d)'
    BY <1>1, <1>2, <2>3 DEF Fits, Empty
  <2>9. EndFits(d)'
    BY <1>1, <1>2, <1>8, <2>3 DEF Fits, EndFits, Worse, IsShut
  <2>10. \A x \in Hops : Fits(x)'
    BY <1>2, <1>4, <2>3, <2>7, <2>8, <2>9, OtherQuiet DEF Fits, TInv
  <2> QED BY <2>4, <2>10
<1> QED BY <1>7, <1>8 DEF AppSend, b

LEMMA AppRecvStep ==
  ASSUME TInv, \A x \in Hops : Worse(x), NEW h \in Hops, AppRecv(h)
  PROVE  PlacesOK' /\ \A x \in Hops : Fits(x)'
<1> DEFINE d == Other(h)
<1>1. d \in Hops
  BY BothHops
<1>2. Move(d, TcpOut, 1)
  BY DEF AppRecv
<1>3. at[d][TcpOut] # <<>>
  BY DEF AppRecv
<1> HIDE DEF d
<1> USE DEF TcpIn, Buf1, Stream, Buf2, TcpOut, Received
<1>4. PlacesOK /\ LabelsOK /\ sent[d] \in Seq(Nat) /\ Fits(d) /\ Worse(d)
  BY <1>1, TypeOKParts DEF TInv
<1>5. /\ sent' = sent /\ fin' = fin /\ pc' = pc /\ app' = app /\ eof' = eof /\ lost' = lost
  BY DEF AppRecv
<1>6. 1 \in 1 .. Len(at[d][5])
  <2>1. at[d][5] \in Seq(Nat) /\ Len(at[d][5]) \in Nat
    BY <1>1, <1>4, LenProperties DEF PlacesOK, Places
  <2> QED BY <1>3, <2>1, NoneLeft
<1>7. Move(d, 5, 1)
  BY <1>2
<1>8. /\ PlacesOK' /\ at'[Other(d)] = at[Other(d)]
      /\ Moved(at[d], at'[d], 5, 6, 1) /\ 1 <= Len(at[d][5])
  BY <1>1, <1>4, <1>6, <1>7, MoveMoves
<1>9. at'[d][1] = at[d][1] /\ at'[d][2] = at[d][2] /\ at'[d][3] = at[d][3] /\ at'[d][4] = at[d][4]
  BY <1>8 DEF Moved
<1>10. Ordered(d)'
  BY <1>1, <1>4, <1>5, <1>8, MovedBytes DEF Fits
<1>11. Empty(d)'
  BY <1>4, <1>5, <1>9 DEF Fits, Empty
<1>12. EndFits(d)'
  BY <1>3, <1>4, <1>5, <1>9 DEF Fits, EndFits, Worse
<1>13. \A x \in Hops : Fits(x)'
  BY <1>1, <1>5, <1>8, <1>10, <1>11, <1>12, OtherQuiet DEF Fits, TInv
<1> QED BY <1>8, <1>13

LEMMA AppEofStep ==
  ASSUME TInv, \A x \in Hops : Worse(x), NEW h \in Hops, AppEof(h)
  PROVE  PlacesOK' /\ \A x \in Hops : Fits(x)'
<1> DEFINE d == Other(h)
<1>1. d \in Hops /\ Other(d) # d
  BY BothHops
<1>2. at[d][TcpOut] = <<>> /\ pc[d][2] = "done" /\ eof' = eof \cup {d}
  BY DEF AppEof, IsShut
<1> HIDE DEF d
<1>3. PlacesOK /\ Fits(d) /\ Worse(d)
  BY <1>1, TypeOKParts DEF TInv
<1>4. at' = at /\ sent' = sent /\ fin' = fin /\ pc' = pc /\ app' = app /\ lost' = lost
  BY DEF AppEof
<1>5. PlacesOK'
  BY <1>3, <1>4 DEF PlacesOK
<1>6. Ordered(d)'
  BY <1>1, <1>3, <1>4, SameBytes DEF Fits
<1>7. Empty(d)'
  BY <1>3, <1>4 DEF Fits, Empty
<1>8. EndFits(d)'
  BY <1>2, <1>3, <1>4 DEF Fits, EndFits, Worse
<1>9. \A x \in Hops : Fits(x)'
  BY <1>1, <1>2, <1>4, <1>6, <1>7, <1>8, OtherQuiet DEF Fits, TInv
<1> QED BY <1>5, <1>9

LEMMA AppAwayStep ==
  ASSUME TInv, \A x \in Hops : Worse(x), NEW h \in Hops, AppClose(h) \/ AppReset(h)
  PROVE  PlacesOK' /\ \A x \in Hops : Fits(x)'
<1> DEFINE d == Other(h)
<1>1. d \in Hops /\ Other(d) = h
  BY BothHops
<1>2. Discard(d, TcpOut)
  BY DEF AppClose, AppReset
<1> HIDE DEF d
<1> USE DEF TcpIn, Buf1, Stream, Buf2, TcpOut, Received
<1>3. PlacesOK /\ LabelsOK /\ sent[d] \in Seq(Nat) /\ Fits(d) /\ Worse(d)
  BY <1>1, TypeOKParts DEF TInv
<1>4. /\ sent' = sent /\ fin' = fin /\ pc' = pc /\ eof' = eof /\ lost' = lost
      /\ app'[h] \in {"closed", "reset"}
  BY <1>3 DEF AppClose, AppReset, LabelsOK
<1>5. /\ PlacesOK' /\ at'[Other(d)] = at[Other(d)] /\ at'[d] \in Places
      /\ at'[d][5] = <<>> /\ \A x \in 1 .. 6 : x # 5 => at'[d][x] = at[d][x]
  BY <1>1, <1>2, <1>3, DiscardDrops
<1>6. /\ at'[d][1] = at[d][1] /\ at'[d][2] = at[d][2] /\ at'[d][3] = at[d][3]
      /\ at'[d][4] = at[d][4] /\ at'[d][6] = at[d][6]
  BY <1>5
<1>7. Broken(d)' /\ ~Reads(d)'
  BY <1>1, <1>4 DEF Broken, Reads
<1>8. IsPrefix(Past2(at'[d]), sent[d])
  <2>1. at[d] \in Places /\ at[d][6] \in Seq(Nat)
    BY <1>1, <1>3 DEF PlacesOK, Places
  <2>2. Past2(at'[d]) = at[d][6]
    BY <1>5, <1>6, <2>1, ConcatEmptySeq DEF Past2, Cat
  <2>3. Past2(at[d]) \in Seq(Nat) /\ IsPrefix(at[d][6], Past2(at[d]))
    BY <2>1, PastsArePrefixes
  <2>4. IsPrefix(Past2(at[d]), sent[d])
    BY <1>3 DEF Fits, Ordered
  <2> QED BY <1>3, <2>1, <2>2, <2>3, <2>4, PrefixTrans
<1>9. Ordered(d)'
  BY <1>4, <1>7, <1>8 DEF Ordered
<1>10. Empty(d)'
  BY <1>3, <1>4, <1>6 DEF Fits, Empty
<1>11. EndFits(d)'
  BY <1>3, <1>4, <1>5, <1>6, <1>7 DEF Fits, EndFits
<1>12. \A x \in Hops : Fits(x)'
  BY <1>1, <1>4, <1>5, <1>9, <1>10, <1>11, OtherQuiet DEF Fits, TInv
<1> QED BY <1>5, <1>12

LEMMA NothingMoves ==
  ASSUME TInv, \A x \in Hops : Worse(x), at' = at, sent' = sent, fin' = fin, pc' = pc, eof' = eof
  PROVE  PlacesOK' /\ \A x \in Hops : Fits(x)'
<1>1. PlacesOK'
  BY TypeOKParts DEF TInv, PlacesOK
<1>2. \A x \in Hops : Fits(x)'
  BY Quiet DEF TInv
<1> QED BY <1>1, <1>2

LEMMA CreateChannelStep ==
  ASSUME TInv, \A x \in Hops : Worse(x), CreateChannel
  PROVE  PlacesOK' /\ \A x \in Hops : Fits(x)'
<1> USE DEF TcpIn, Buf1, Stream, Buf2, TcpOut, Received
<1> DEFINE a == "agent"
           n == "n3"
<1>1. a \in Hops /\ n \in Hops /\ Other(a) = n /\ Other(n) = a /\ \A x \in Hops : x = a \/ x = n
  BY DEF Hops, Other
<1>2. /\ pc[a][2] = "none" /\ at' = at /\ sent' = sent /\ eof' = eof /\ lost' = lost
      /\ \/ /\ pc' = [pc EXCEPT ![a][2] = "read", ![n][1] = "read"]
            /\ app' = [app EXCEPT ![n] = "open"]
            /\ UNCHANGED fin
         \/ /\ pc' = [pc EXCEPT ![a][2] = "done", ![n][1] = "done"]
            /\ app' = [app EXCEPT ![n] = "closed"]
            /\ fin' = [fin EXCEPT ![n] = "sent"]
  BY DEF CreateChannel
<1>3. /\ PlacesOK /\ LabelsOK /\ Fits(a) /\ Worse(a) /\ Fits(n) /\ Worse(n)
      /\ pc[n][1] = "none" /\ at[n][TcpIn] = <<>>
  BY <1>1, <1>2, TypeOKParts DEF TInv, Channel
<1>4. /\ pc'[a][1] = pc[a][1] /\ pc'[n][2] = pc[n][2] /\ fin'[a] = fin[a]
      /\ \/ pc'[a][2] = "read" /\ pc'[n][1] = "read" /\ fin'[n] = fin[n]
         \/ /\ pc'[a][2] = "done" /\ pc'[n][1] = "done"
            /\ app'[n] = "closed" /\ fin'[n] = "sent"
  BY <1>1, <1>2, <1>3 DEF LabelsOK
<1>5. fin[n] = "no"
  BY <1>3 DEF Fits, EndFits
<1>6. PlacesOK'
  BY <1>2, <1>3 DEF PlacesOK
<1> HIDE DEF a, n
<1>7. Fits(a)'
  <2>1. Ordered(a)'
    BY <1>1, <1>2, <1>3, SameBytes DEF Fits
  <2>2. Empty(a)'
    BY <1>2, <1>3, <1>4 DEF Fits, Empty
  <2>3. EndFits(a)'
    BY <1>1, <1>2, <1>3, <1>4 DEF Fits, EndFits, Worse, Broken
  <2> QED BY <2>1, <2>2, <2>3 DEF Fits
<1>8. Fits(n)'
  <2>1. Ordered(n)'
    BY <1>1, <1>2, <1>3, SameBytes DEF Fits
  <2>2. Empty(n)'
    BY <1>2, <1>3, <1>4 DEF Fits, Empty
  <2>3. EndFits(n)'
    BY <1>1, <1>2, <1>3, <1>4, <1>5 DEF Fits, EndFits, Worse
  <2> QED BY <2>1, <2>2, <2>3 DEF Fits
<1>9. \A x \in Hops : Fits(x)'
  BY <1>1, <1>7, <1>8
<1> QED BY <1>6, <1>9

-----------------------------------------------------------------------------
\* The rest of the invariant: the labels, what was sent, and the start of n3.
LEMMA LabelsStep ==
  ASSUME LabelsOK, Next
  PROVE  LabelsOK'
<1> USE DEF LabelsOK
<1>1. ASSUME NEW h \in Hops,
             \/ AppSend(h) \/ AppRecv(h) \/ AppEof(h) \/ AppShutdown(h)
             \/ AppClose(h) \/ AppReset(h) \/ LoseConn(h)
      PROVE  LabelsOK'
  BY <1>1, BothHops DEF AppSend, AppRecv, AppEof, AppShutdown, AppClose, AppReset, LoseConn
<1>2. CASE CreateChannel
  BY <1>2 DEF CreateChannel, Hops
<1>3. ASSUME NEW d \in Hops, TcpRead(d)
      PROVE  LabelsOK'
  BY <1>3 DEF TcpRead, Goto, AfterError
<1>4. ASSUME NEW d \in Hops, QuicWrite(d)
      PROVE  LabelsOK'
  <2>1. PICK l \in {"read", "write", "close"} : Goto(d, 1, l)
    BY <1>4 DEF QuicWrite, WriteAll, AfterError
  <2>2. fin' = fin /\ app' = app /\ eof' = eof /\ lost' = lost
    BY <1>4 DEF QuicWrite
  <2> QED BY <2>1, <2>2 DEF Goto
<1>5. ASSUME NEW d \in Hops, QuicClose(d)
      PROVE  LabelsOK'
  BY <1>5 DEF QuicClose, Goto, DropSocket
<1>6. ASSUME NEW d \in Hops, QuicRead(d)
      PROVE  LabelsOK'
  BY <1>6 DEF QuicRead, Goto, AfterError
<1>7. ASSUME NEW d \in Hops, QuicReadWoken(d)
      PROVE  LabelsOK'
  BY <1>7 DEF QuicReadWoken, Goto
<1>8. ASSUME NEW d \in Hops, TcpWrite(d)
      PROVE  LabelsOK'
  <2>1. PICK l \in {"read", "write", "close"} : Goto(d, 2, l)
    BY <1>8 DEF TcpWrite, WriteAll, AfterError
  <2>2. /\ fin' = fin /\ eof' = eof /\ lost' = lost
        /\ app' = app \/ app' = [app EXCEPT ![Other(d)] = "reset"]
    BY <1>8 DEF TcpWrite
  <2> QED BY <2>1, <2>2 DEF Goto
<1>9. ASSUME NEW d \in Hops, TcpClose(d)
      PROVE  LabelsOK'
  BY <1>9 DEF TcpClose, Goto, DropSocket
<1>10. ASSUME NEW d \in Hops, ClosingRecv(d)
       PROVE  LabelsOK'
  BY <1>10 DEF ClosingRecv
<1> QED
  BY <1>1, <1>2, <1>3, <1>4, <1>5, <1>6, <1>7, <1>8, <1>9, <1>10 DEF Next, Copy

LEMMA KeptStep ==
  ASSUME kept \subseteq Hops, Next
  PROVE  kept' \subseteq Hops
<1>1. ASSUME NEW h \in Hops,
             \/ AppSend(h) \/ AppRecv(h) \/ AppEof(h) \/ AppShutdown(h)
             \/ AppClose(h) \/ AppReset(h) \/ LoseConn(h)
      PROVE  kept' = kept
  BY <1>1 DEF AppSend, AppRecv, AppEof, AppShutdown, AppClose, AppReset, LoseConn
<1>2. ASSUME NEW d \in Hops, DropStream(d)
      PROVE  kept' \subseteq Hops
  BY <1>2 DEF DropStream
<1>3. CASE CreateChannel
  <2>1. "agent" \in Hops
    BY DEF Hops
  <2> QED BY <1>2, <1>3, <2>1 DEF CreateChannel
<1>4. ASSUME NEW d \in Hops, Copy(d) \/ ClosingRecv(d)
      PROVE  kept' \subseteq Hops
  <2>1. Other(d) \in Hops
    BY BothHops
  <2>2. kept' = kept \/ DropStream(d) \/ DropStream(Other(d))
    BY <1>4 DEF Copy, TcpRead, QuicWrite, QuicClose, QuicRead, QuicReadWoken, TcpWrite, TcpClose,
                ClosingRecv
  <2> QED BY <1>2, <2>1, <2>2
<1> QED BY <1>1, <1>3, <1>4 DEF Next

LEMMA SentStep ==
  ASSUME sent \in [Hops -> Seq(Nat)], Next
  PROVE  sent' \in [Hops -> Seq(Nat)] /\ (sent' = sent \/ \E h \in Hops : AppSend(h))
<1>1. sent' = sent \/ \E h \in Hops : AppSend(h)
  BY DEF Next, Copy, AppRecv, AppEof, AppShutdown, AppClose, AppReset, LoseConn, CreateChannel,
         TcpRead, QuicWrite, QuicClose, QuicRead, QuicReadWoken, TcpWrite, TcpClose, ClosingRecv
<1>2. ASSUME NEW h \in Hops, AppSend(h)
      PROVE  sent' \in [Hops -> Seq(Nat)]
  <2>1. sent[h] \in Seq(Nat) /\ Len(sent[h]) + 1 \in Nat
    BY LenProperties
  <2>2. Append(sent[h], Len(sent[h]) + 1) \in Seq(Nat)
    BY <2>1, AppendIsCat
  <2> QED BY <1>2, <2>2 DEF AppSend
<1> QED BY <1>1, <1>2

\* What has started does not go back.
LEMMA Started ==
  ASSUME LabelsOK, Next, app["agent"] # "absent"
  PROVE  /\ \A h \in Hops : app[h] # "absent" => app'[h] # "absent"
         /\ \A d \in Hops, k \in 1 .. 2 : pc[d][k] # "none" => pc'[d][k] # "none"
<1> DEFINE Stays == /\ \A h \in Hops : app[h] # "absent" => app'[h] # "absent"
                    /\ \A d \in Hops, k \in 1 .. 2 : pc[d][k] # "none" => pc'[d][k] # "none"
<1> USE DEF LabelsOK
<1>1. ASSUME NEW h \in Hops,
             \/ AppSend(h) \/ AppRecv(h) \/ AppEof(h) \/ AppShutdown(h)
             \/ AppClose(h) \/ AppReset(h) \/ LoseConn(h)
      PROVE  Stays
  BY <1>1, BothHops DEF AppSend, AppRecv, AppEof, AppShutdown, AppClose, AppReset, LoseConn
<1>2. CASE CreateChannel
  BY <1>2 DEF CreateChannel, Hops
<1>3. ASSUME NEW d \in Hops, Copy(d) \/ ClosingRecv(d)
      PROVE  Stays
  <2>1. \A h \in Hops : app[h] # "absent" => app'[h] # "absent"
    BY <1>3 DEF Copy, ClosingRecv, TcpRead, QuicWrite, QuicClose, QuicRead, QuicReadWoken, TcpWrite,
                TcpClose, DropSocket
  <2>2. pc' = pc \/ \E k \in 1 .. 2, l \in {"read", "write", "close", "stuck", "done"} : Goto(d, k, l)
    <3>1. CASE TcpRead(d) \/ QuicWrite(d) \/ QuicClose(d)
      <4>1. \E l \in {"read", "write", "close", "stuck", "done"} : Goto(d, 1, l)
        BY <3>1 DEF TcpRead, QuicWrite, QuicClose, WriteAll, AfterError
      <4> QED BY <4>1
    <3>2. CASE QuicRead(d) \/ QuicReadWoken(d) \/ TcpWrite(d) \/ TcpClose(d)
      <4>1. \E l \in {"read", "write", "close", "stuck", "done"} : Goto(d, 2, l)
        BY <3>2 DEF QuicRead, QuicReadWoken, TcpWrite, TcpClose, WriteAll, AfterError
      <4> QED BY <4>1
    <3>3. CASE ClosingRecv(d)
      BY <3>3 DEF ClosingRecv
    <3> QED BY <1>3, <3>1, <3>2, <3>3 DEF Copy
  <2> QED BY <2>1, <2>2 DEF Goto
<1> QED BY <1>1, <1>2, <1>3 DEF Next

\* Before n3 knows of the tunnel nothing happens in its direction.
LEMMA NothingBeforeChannel ==
  ASSUME TInv, Next, app["n3"] = "absent", ~CreateChannel
  PROVE  /\ app'["n3"] = "absent" /\ sent'["n3"] = <<>>
         /\ \A i \in 1 .. 6 : at'["n3"][i] = <<>>
         /\ pc'["n3"][1] = "none" /\ pc'["agent"][2] = "none"
<1> DEFINE a == "agent"
           n == "n3"
           Nothing == /\ app'[n] = "absent" /\ sent'[n] = <<>>
                      /\ \A i \in 1 .. 6 : at'[n][i] = <<>>
                      /\ pc'[n][1] = "none" /\ pc'[a][2] = "none"
<1>1. a \in Hops /\ n \in Hops /\ Other(a) = n /\ Other(n) = a /\ a # n /\ \A x \in Hops : x = a \/ x = n
  BY DEF Hops, Other
<1>2. /\ PlacesOK /\ LabelsOK /\ sent \in [Hops -> Seq(Nat)]
      /\ app[n] = "absent" /\ sent[n] = <<>> /\ (\A i \in 1 .. 6 : at[n][i] = <<>>)
      /\ pc[n][1] = "none" /\ pc[a][2] = "none"
  BY TypeOKParts DEF TInv, Channel
<1>3. at[n][3] = <<>> /\ at[n][4] = <<>> /\ at[n][5] = <<>>
  BY <1>2
<1>4. Len(<<>>) = 0
  BY EmptySeq
<1> HIDE DEF a, n
<1> USE DEF TcpIn, Buf1, Stream, Buf2, TcpOut, Received
<1>5. ASSUME NEW h \in Hops, AppSend(h)
      PROVE  Nothing
  BY <1>1, <1>2, <1>5 DEF AppSend, PlacesOK, LabelsOK
<1>6. ASSUME NEW h \in Hops, AppRecv(h)
      PROVE  Nothing
  BY <1>1, <1>2, <1>3, <1>6 DEF AppRecv, Up
<1>7. ASSUME NEW h \in Hops, AppEof(h) \/ AppShutdown(h) \/ LoseConn(h)
      PROVE  Nothing
  BY <1>1, <1>2, <1>7 DEF AppEof, AppShutdown, LoseConn, LabelsOK
<1>8. ASSUME NEW h \in Hops, AppClose(h) \/ AppReset(h)
      PROVE  Nothing
  <2>1. h = a /\ Discard(n, 5)
    BY <1>1, <1>2, <1>8 DEF AppClose, AppReset, Up
  <2>2. \A i \in 1 .. 6 : at'[n][i] = <<>>
    BY <1>1, <1>2, <2>1, DiscardDrops
  <2> QED BY <1>1, <1>2, <1>8, <2>1, <2>2 DEF AppClose, AppReset, LabelsOK
<1>9. ASSUME NEW d \in Hops, TcpRead(d) \/ QuicWrite(d) \/ QuicClose(d)
      PROVE  Nothing
  <2>1. d = a
    BY <1>1, <1>2, <1>9 DEF TcpRead, QuicWrite, QuicClose
  <2>2. sent' = sent /\ app'[n] = app[n]
    BY <1>1, <1>2, <1>9, <2>1 DEF TcpRead, QuicWrite, QuicClose, DropSocket, LabelsOK
  <2>3. at'[n] = at[n]
    BY <1>1, <1>2, <1>9, <2>1
       DEF TcpRead, QuicWrite, QuicClose, WriteAll, Move, Discard, PlacesOK
  <2>4. PICK l : Goto(a, 1, l)
    BY <1>9, <2>1 DEF TcpRead, QuicWrite, QuicClose, WriteAll
  <2>5. pc'[n][1] = "none" /\ pc'[a][2] = "none"
    BY <1>1, <1>2, <2>4, GotoGoes
  <2> QED BY <1>2, <2>2, <2>3, <2>5
<1>10. ASSUME NEW d \in Hops, QuicRead(d) \/ QuicReadWoken(d) \/ TcpWrite(d) \/ TcpClose(d)
       PROVE  Nothing
  <2>1. d = n
    BY <1>1, <1>2, <1>10 DEF QuicRead, QuicReadWoken, TcpWrite, TcpClose
  <2>2. sent' = sent /\ app'[n] = app[n]
    BY <1>1, <1>2, <1>10, <2>1
       DEF QuicRead, QuicReadWoken, TcpWrite, TcpClose, DropSocket, LabelsOK
  <2>3. ASSUME NEW i \in {3, 4}, NEW room \in Int
        PROVE  AtMost(n, i, room) = {}
    BY <1>3, <1>4 DEF AtMost
  <2>4. at' = at \/ Discard(n, 4)
    <3>1. BufSize \in Int /\ Room(n, 5, TcpCap) \in Int
      BY <1>3, <1>4, CapAssumption DEF Room
    <3>2. AtMost(n, 3, BufSize) = {} /\ AtMost(n, 4, Room(n, 5, TcpCap)) = {}
      BY <2>3, <3>1
    <3>3. CASE QuicRead(n) \/ QuicReadWoken(n) \/ TcpClose(n)
      BY <3>2, <3>3 DEF QuicRead, QuicReadWoken, TcpClose
    <3>4. CASE TcpWrite(n)
      BY <3>2, <3>4 DEF TcpWrite
    <3> QED BY <1>10, <2>1, <3>3, <3>4
  <2>5. \A i \in 1 .. 6 : at'[n][i] = <<>>
    BY <1>1, <1>2, <2>4, DiscardDrops, SMTT(20)
  <2>6. PICK l : Goto(n, 2, l)
    BY <1>10, <2>1 DEF QuicRead, QuicReadWoken, TcpWrite, TcpClose, WriteAll
  <2>7. pc'[n][1] = "none" /\ pc'[a][2] = "none"
    BY <1>1, <1>2, <2>6, GotoGoes
  <2> QED BY <1>2, <2>2, <2>5, <2>7
<1>11. ASSUME NEW d \in Hops, ClosingRecv(d)
       PROVE  Nothing
  <2>1. d = a /\ Discard(a, 3) /\ sent' = sent /\ pc' = pc /\ app' = app
    BY <1>1, <1>2, <1>3, <1>11 DEF ClosingRecv
  <2>2. at'[n] = at[n]
    BY <1>1, <1>2, <2>1, DiscardDrops
  <2> QED BY <1>2, <2>1, <2>2
<1>12. Nothing
  BY <1>5, <1>6, <1>7, <1>8, <1>9, <1>10, <1>11 DEF Next, Copy
<1> QED BY <1>12 DEF a, n

LEMMA ChannelStep ==
  ASSUME TInv, Next
  PROVE  Channel'
<1>1. LabelsOK /\ Channel /\ app["agent"] # "absent" /\ "agent" \in Hops /\ "n3" \in Hops
  BY TypeOKParts DEF TInv, Channel, Hops
<1>2. app'["agent"] # "absent"
  BY <1>1, Started
<1>3. CASE app["n3"] # "absent"
  <2>1. app'["n3"] # "absent" /\ pc'["agent"][2] # "none" /\ pc'["n3"][1] # "none"
    BY <1>1, <1>3, Started DEF Channel
  <2> QED BY <1>2, <2>1 DEF Channel
<1>4. CASE CreateChannel
  <2>1. app'["n3"] # "absent" /\ pc'["agent"][2] # "none" /\ pc'["n3"][1] # "none"
    BY <1>1, <1>4 DEF CreateChannel, LabelsOK
  <2> QED BY <1>2, <2>1 DEF Channel
<1>5. CASE app["n3"] = "absent" /\ ~CreateChannel
  BY <1>2, <1>5, NothingBeforeChannel DEF Channel
<1> QED BY <1>3, <1>4, <1>5

-----------------------------------------------------------------------------
\* The invariant.
LEMMA TInvInit ==
  ASSUME Init
  PROVE  TInv
<1> USE DEF TcpIn, Buf1, Stream, Buf2, TcpOut, Received
<1>1. <<>> \in Seq(Nat) /\ Len(<<>>) = 0
  BY EmptySeq
<1>2. \A d \in Hops, i \in 1 .. 6 : at[d][i] = <<>>
  BY DEF Init
<1>3. PlacesOK
  <2>1. at \in [Hops -> Places]
    BY <1>1 DEF Init, Places
  <2>2. \A d \in Hops, i \in 1 .. 5 : Len(at[d][i]) <= Cap[i]
    BY <1>1, <1>2, CapIsNat
  <2> QED BY <2>1, <2>2 DEF PlacesOK
<1>4. LabelsOK /\ sent \in [Hops -> Seq(Nat)] /\ kept \subseteq Hops /\ Channel
  BY <1>1 DEF Init, LabelsOK, Channel, Hops
<1>5. ASSUME NEW d \in Hops
      PROVE  Fits(d)
  <2>1. /\ sent[d] = <<>> /\ fin[d] = "no" /\ d \notin eof
        /\ \A k \in 1 .. 2 : pc[d][k] \in {"none", "read"}
    BY DEF Init
  <2>2. Cat(<<>>, <<>>) = <<>>
    BY <1>1, ConcatEmptySeq DEF Cat
  <2>3. Past2(at[d]) = <<>> /\ Past1(at[d]) = <<>> /\ Whole(at[d]) = <<>>
    BY <1>2, <2>2 DEF Past2, Past1, Whole
  <2>4. Ordered(d)
    <3>1. IsPrefix(<<>>, <<>>)
      BY <1>1, <2>2, CatIsSeq
    <3> QED BY <2>1, <2>3, <3>1 DEF Ordered
  <2>5. Empty(d)
    BY <1>2 DEF Empty
  <2>6. EndFits(d)
    BY <2>1 DEF EndFits
  <2> QED BY <2>4, <2>5, <2>6 DEF Fits
<1> QED BY <1>3, <1>4, <1>5, TypeOKParts DEF TInv

LEMMA FitsStep ==
  ASSUME TInv, Next
  PROVE  PlacesOK' /\ \A x \in Hops : Fits(x)'
<1>1. \A x \in Hops : Worse(x)
  BY GetsWorse, TypeOKParts DEF TInv
<1>2. ASSUME NEW h \in Hops, AppShutdown(h) \/ LoseConn(h)
      PROVE  PlacesOK' /\ \A x \in Hops : Fits(x)'
  BY <1>1, <1>2, NothingMoves DEF AppShutdown, LoseConn
<1>3. CASE \E h \in Hops : \/ AppSend(h) \/ AppRecv(h) \/ AppEof(h)
                           \/ AppShutdown(h) \/ AppClose(h) \/ AppReset(h) \/ LoseConn(h)
  BY <1>1, <1>2, <1>3, AppSendStep, AppRecvStep, AppEofStep, AppAwayStep
<1>4. CASE CreateChannel
  BY <1>1, <1>4, CreateChannelStep
<1>5. CASE \E d \in Hops : Copy(d) \/ ClosingRecv(d)
  BY <1>1, <1>5, TcpReadStep, QuicWriteStep, QuicCloseStep, QuicReadStep, QuicReadWokenStep,
     TcpWriteStep, TcpCloseStep, ClosingRecvStep DEF Copy
<1> QED BY <1>3, <1>4, <1>5 DEF Next

LEMMA TInvStep ==
  ASSUME TInv, [Next]_vars
  PROVE  TInv'
<1>1. CASE Next
  <2>1. PlacesOK' /\ \A x \in Hops : Fits(x)'
    BY <1>1, FitsStep
  <2>2. LabelsOK' /\ sent' \in [Hops -> Seq(Nat)] /\ kept' \subseteq Hops
    BY <1>1, LabelsStep, SentStep, KeptStep, TypeOKParts DEF TInv
  <2>3. Channel'
    BY <1>1, ChannelStep
  <2>4. TypeOK'
    BY <2>1, <2>2 DEF TypeOK, PlacesOK, LabelsOK, Places
  <2> QED BY <2>1, <2>3, <2>4 DEF TInv
<1>2. CASE UNCHANGED vars
  <2>1. /\ at' = at /\ sent' = sent /\ fin' = fin /\ pc' = pc /\ app' = app
        /\ eof' = eof /\ lost' = lost /\ kept' = kept
    BY <1>2 DEF vars
  <2>2. TypeOK' /\ Channel'
    BY <2>1 DEF TInv, TypeOK, Channel
  <2>3. \A x \in Hops : Worse(x)
    BY <2>1 DEF Worse, Broken, Reads, IsShut
  <2>4. \A x \in Hops : Fits(x)'
    BY <2>1, <2>3, NothingMoves
  <2> QED BY <2>2, <2>4 DEF TInv
<1> QED BY <1>1, <1>2

LEMMA TInvariance == Spec => []TInv
BY TInvInit, TInvStep, PTL DEF Spec

\* Every place of a tunnel holds bytes, no more than its capacity: a write takes
\* what fits into the socket or the window, and a read what fits into the buffer.
THEOREM TunnelTypeCorrect == Spec => []TypeOK
<1>1. TInv => TypeOK
  BY DEF TInv
<1> QED BY <1>1, TInvariance, PTL

\* The copies neither drop, repeat nor reorder bytes, whatever the sizes of the
\* sockets, windows and buffers, the partial reads and writes, and the task that
\* ends first: unless a direction is broken, what was sent is along it.
THEOREM BytesAreConserved == Spec => []Conserved
<1>1. TInv => Conserved
  BY DEF TInv, Fits, Ordered, Conserved, Whole, Past1, Past2, Cat
<1> QED BY <1>1, TInvariance, PTL

-----------------------------------------------------------------------------
\* The refinement.  Only AppRecv adds to what an application received.
LEMMA ReceivedStays ==
  ASSUME TInv, Next, ~\E h \in Hops : AppRecv(h)
  PROVE  \A x \in Hops : at'[x][Received] = at[x][Received]
<1> USE DEF TcpIn, Buf1, Stream, Buf2, TcpOut, Received
<1>1. at \in [Hops -> [1 .. 6 -> Seq(Nat)]]
  BY DEF TInv, TypeOK
<1>2. ASSUME NEW d \in Hops, NEW i \in 1 .. 4, NEW n, Move(d, i, n)
      PROVE  \A x \in Hops : at'[x][6] = at[x][6]
  <2> DEFINE s == SubSeq(at[d][i], n + 1, Len(at[d][i]))
             t == at[d][i + 1] \o SubSeq(at[d][i], 1, n)
  <2>1. at' = [at EXCEPT ![d][i] = s, ![d][i + 1] = t]
    BY <1>2 DEF Move
  <2> HIDE DEF s, t
  <2>2. ASSUME NEW x \in Hops
        PROVE  at'[x][6] = at[x][6]
    BY <1>1, <2>1, SMTT(20)
  <2> QED BY <2>2
<1>3. ASSUME NEW d \in Hops, NEW i \in 1 .. 5, Discard(d, i)
      PROVE  \A x \in Hops : at'[x][6] = at[x][6]
  BY <1>1, <1>3 DEF Discard
<1>4. ASSUME NEW h \in Hops, AppSend(h)
      PROVE  \A x \in Hops : at'[x][6] = at[x][6]
  <2>1. at' = at \/ \E s : at' = [at EXCEPT ![h][1] = s]
    BY <1>4 DEF AppSend
  <2>2. ASSUME NEW s, at' = [at EXCEPT ![h][1] = s], NEW x \in Hops
        PROVE  at'[x][6] = at[x][6]
    BY <1>1, <2>2
  <2> QED BY <2>1, <2>2
<1>5. ASSUME NEW d \in Hops, NEW k \in 1 .. 2, NEW n, WriteAll(d, k, n)
      PROVE  \A x \in Hops : at'[x][6] = at[x][6]
  <2> DEFINE i == 2 * k
  <2>1. i \in 1 .. 4
    OBVIOUS
  <2>2. Move(d, i, n)
    BY <1>5, Zenon DEF WriteAll
  <2> HIDE DEF i
  <2> QED BY <1>2, <2>1, <2>2
<1>6. ASSUME NEW h \in Hops,
             AppEof(h) \/ AppShutdown(h) \/ AppClose(h) \/ AppReset(h) \/ LoseConn(h)
      PROVE  \A x \in Hops : at'[x][6] = at[x][6]
  BY <1>3, <1>6, BothHops DEF AppEof, AppShutdown, AppClose, AppReset, LoseConn
<1>7. ASSUME NEW d \in Hops, Copy(d) \/ ClosingRecv(d)
      PROVE  \A x \in Hops : at'[x][6] = at[x][6]
  <2>1. \/ at' = at \/ Discard(d, 2) \/ Discard(d, 3) \/ Discard(d, 4)
        \/ \E n : Move(d, 1, n) \/ Move(d, 3, n) \/ WriteAll(d, 1, n) \/ WriteAll(d, 2, n)
    BY <1>7 DEF Copy, ClosingRecv, TcpRead, QuicWrite, QuicClose, QuicRead, QuicReadWoken,
                TcpWrite, TcpClose
  <2> QED BY <1>2, <1>3, <1>5, <2>1
<1>8. ASSUME CreateChannel
      PROVE  \A x \in Hops : at'[x][6] = at[x][6]
  BY <1>8 DEF CreateChannel
<1> QED BY <1>4, <1>6, <1>7, <1>8 DEF Next

\* Only TcpClose, and n3 when it refuses, shut a socket down.
LEMMA ShutStays ==
  ASSUME TInv, Next, ~\E d \in Hops : TcpClose(d), CreateChannel => pc'["agent"][2] = "read"
  PROVE  \A x \in Hops : IsShut(x)' <=> IsShut(x)
<1>1. LabelsOK
  BY TypeOKParts DEF TInv
<1>2. ASSUME NEW h \in Hops,
             \/ AppSend(h) \/ AppRecv(h) \/ AppEof(h) \/ AppShutdown(h)
             \/ AppClose(h) \/ AppReset(h) \/ LoseConn(h)
      PROVE  \A x \in Hops : IsShut(x)' <=> IsShut(x)
  BY <1>2 DEF AppSend, AppRecv, AppEof, AppShutdown, AppClose, AppReset, LoseConn, IsShut
<1>3. ASSUME NEW d \in Hops, NEW k \in 1 .. 2, NEW l, Goto(d, k, l),
             k = 1 \/ (l # "done" /\ pc[d][2] # "done")
      PROVE  \A x \in Hops : IsShut(x)' <=> IsShut(x)
  <2>1. pc'[Other(d)] = pc[Other(d)] /\ (pc'[d][2] = "done" <=> pc[d][2] = "done")
    BY <1>1, <1>3, GotoGoes
  <2> QED BY <2>1, BothHops DEF IsShut
<1>4. ASSUME NEW d \in Hops, TcpRead(d) \/ QuicWrite(d) \/ QuicClose(d)
      PROVE  \A x \in Hops : IsShut(x)' <=> IsShut(x)
  <2>1. PICK l : Goto(d, 1, l)
    BY <1>4 DEF TcpRead, QuicWrite, QuicClose, WriteAll
  <2> QED BY <1>3, <2>1
<1>5. ASSUME NEW d \in Hops, QuicRead(d) \/ QuicReadWoken(d) \/ TcpWrite(d)
      PROVE  \A x \in Hops : IsShut(x)' <=> IsShut(x)
  <2>1. PICK l : Goto(d, 2, l) /\ l # "done" /\ pc[d][2] # "done"
    BY <1>5 DEF QuicRead, QuicReadWoken, TcpWrite, WriteAll, AfterError
  <2> QED BY <1>3, <2>1
<1>6. ASSUME NEW d \in Hops, ClosingRecv(d)
      PROVE  \A x \in Hops : IsShut(x)' <=> IsShut(x)
  BY <1>6 DEF ClosingRecv, IsShut
<1>7. ASSUME CreateChannel
      PROVE  \A x \in Hops : IsShut(x)' <=> IsShut(x)
  <2>1. pc["agent"][2] = "none" /\ pc'["agent"][2] = "read" /\ pc'["n3"][2] = pc["n3"][2]
    BY <1>1, <1>7 DEF CreateChannel, LabelsOK, Hops
  <2> QED BY <2>1 DEF IsShut, Hops, Other
<1> QED BY <1>2, <1>4, <1>5, <1>6, <1>7 DEF Next, Copy

\* A step of the tunnel on the abstract state: the last conjunct of Pipes!Next.
LEMMA NoGoingBack ==
  ASSUME TInv, Next
  PROVE  /\ {d \in Hops : app[d] \in {"half", "closed", "reset"}}
              \subseteq {d \in Hops : app'[d] \in {"half", "closed", "reset"}}
         /\ {d \in Hops : Broken(d)} \subseteq {d \in Hops : Broken(d)'}
<1>1. \A x \in Hops : Worse(x)
  BY GetsWorse, TypeOKParts DEF TInv
<1> QED BY <1>1 DEF Worse

LEMMA PassStep ==
  ASSUME TInv, Next, sent' = sent, eof' = eof,
         \A x \in Hops : at'[x][Received] = at[x][Received],
         \A x \in Hops : IsShut(x)' <=> IsShut(x)
  PROVE  Pipes!Next
<1>1. [d \in Hops |-> at'[d][Received]] = [d \in Hops |-> at[d][Received]]
  OBVIOUS
<1>2. {d \in Hops : IsShut(d)'} = {d \in Hops : IsShut(d)}
  OBVIOUS
<1>3. Pipes!Pass
  BY <1>1, <1>2 DEF Pipes!Pass
<1> QED BY <1>3, NoGoingBack DEF Pipes!Next

LEMMA SamePrefix ==
  ASSUME NEW s, NEW t
  PROVE  /\ Pipes!IsPrefix(s, t) <=> IsPrefix(s, t)
         /\ Pipes!IsStrictPrefix(s, t) <=> IsPrefix(s, t) /\ s # t
BY DEF Pipes!IsPrefix, Pipes!IsStrictPrefix, IsPrefix

LEMMA SendRefines ==
  ASSUME TInv, Next, NEW h \in Hops, AppSend(h)
  PROVE  Pipes!Next
<1>1. /\ PlacesOK /\ LabelsOK /\ sent \in [Hops -> Seq(Nat)]
      /\ sent[h] \in Seq(Nat) /\ Len(sent[h]) \in Nat
  BY TypeOKParts, LenProperties DEF TInv
<1> DEFINE new == Append(sent[h], Len(sent[h]) + 1)
<1>2. /\ sent' = [sent EXCEPT ![h] = new] /\ app[h] = "open"
      /\ pc' = pc /\ eof' = eof
      /\ IsShut(h) => app' = [app EXCEPT ![h] = "reset"]
  BY DEF AppSend
<1>3. new \in Seq(Nat) /\ IsPrefix(sent[h], new) /\ sent[h] # new
  <2>1. /\ new \in Seq(Nat) /\ Len(new) = Len(sent[h]) + 1 /\ <<Len(sent[h]) + 1>> \in Seq(Nat)
        /\ new = Cat(sent[h], <<Len(sent[h]) + 1>>)
    BY <1>1, AppendIsCat
  <2>2. IsPrefix(sent[h], new)
    BY <1>1, <2>1, CatIsSeq
  <2> QED BY <1>1, <2>1, <2>2
<1> HIDE DEF new
<1>4. sent'[h] = new /\ sent' = [sent EXCEPT ![h] = sent'[h]]
  BY <1>1, <1>2
<1>5. Pipes!Longer(sent, sent', h)
  BY <1>3, <1>4, SamePrefix DEF Pipes!Longer
<1>6. IsShut(h) => Broken(h)'
  BY <1>1, <1>2 DEF Broken, LabelsOK
<1>7. [d \in Hops |-> at'[d][Received]] = [d \in Hops |-> at[d][Received]]
  <2>1. \A x \in Hops : at'[x][6] = at[x][6]
    <3>1. at' = at \/ \E s : at' = [at EXCEPT ![h][1] = s]
      BY DEF AppSend, TcpIn
    <3>2. ASSUME NEW s, at' = [at EXCEPT ![h][1] = s], NEW x \in Hops
          PROVE  at'[x][6] = at[x][6]
      BY <1>1, <3>2 DEF PlacesOK, Places
    <3> QED BY <3>1, <3>2
  <2> QED BY <2>1 DEF Received
<1>8. {d \in Hops : IsShut(d)'} = {d \in Hops : IsShut(d)}
  BY <1>2 DEF IsShut
<1>9. Pipes!Send(h)
  BY <1>2, <1>5, <1>6, <1>7, <1>8 DEF Pipes!Send
<1> QED BY <1>9, NoGoingBack DEF Pipes!Next

LEMMA DeliverRefines ==
  ASSUME TInv, Next, NEW h \in Hops, AppRecv(h)
  PROVE  Pipes!Next
<1> DEFINE d == Other(h)
<1>1. d \in Hops
  BY BothHops
<1>2. Move(d, 5, 1) /\ at[d][5] # <<>>
  BY DEF AppRecv, TcpOut
<1> HIDE DEF d
<1>3. PlacesOK /\ LabelsOK /\ sent[d] \in Seq(Nat) /\ Fits(d) /\ Fits(d)'
  BY <1>1, TypeOKParts, FitsStep DEF TInv
<1>4. sent' = sent /\ pc' = pc /\ eof' = eof
  BY DEF AppRecv
<1>5. d \notin eof
  BY <1>2, <1>3 DEF Fits, EndFits, TcpOut
<1>6. at[d] \in Places /\ at[d][5] \in Seq(Nat) /\ at[d][6] \in Seq(Nat) /\ Len(at[d][6]) \in Nat
  <2>1. at[d] \in Places
    BY <1>1, <1>3 DEF PlacesOK
  <2>2. at[d][5] \in Seq(Nat) /\ at[d][6] \in Seq(Nat)
    BY <2>1 DEF Places
  <2> QED BY <2>1, <2>2, LenProperties
<1>7. 1 \in 1 .. Len(at[d][5])
  <2>1. Len(at[d][5]) \in Nat
    BY <1>6, LenProperties
  <2> QED BY <1>2, <1>6, <2>1, NoneLeft
<1>8. /\ PlacesOK' /\ at'[Other(d)] = at[Other(d)] /\ 1 <= Len(at[d][5])
      /\ Moved(at[d], at'[d], 5, 6, 1) /\ Len(at'[d][6]) = Len(at[d][6]) + 1
  BY <1>1, <1>2, <1>3, <1>7, MoveMoves
<1>9. at'[d] \in Places /\ at'[d][6] \in Seq(Nat) /\ sent'[d] \in Seq(Nat)
  BY <1>1, <1>3, <1>4, <1>8 DEF PlacesOK, Places
<1>10. IsPrefix(at[d][6], at'[d][6]) /\ at[d][6] # at'[d][6]
  <2>1. at'[d][6] = Cat(at[d][6], Take(at[d][5], 1)) /\ Take(at[d][5], 1) \in Seq(Nat)
    BY <1>6, <1>8, TakeDrop DEF Moved
  <2>2. IsPrefix(at[d][6], at'[d][6])
    BY <1>6, <2>1, CatIsSeq
  <2>3. at[d][6] # at'[d][6]
    BY <1>6, <1>8
  <2> QED BY <2>2, <2>3
<1>11. IsPrefix(at'[d][6], sent[d])
  <2>1. IsPrefix(at'[d][6], Past2(at'[d])) /\ Past2(at'[d]) \in Seq(Nat)
    BY <1>9, PastsArePrefixes DEF Received
  <2>2. IsPrefix(Past2(at'[d]), sent[d])
    BY <1>3, <1>4 DEF Fits, Ordered
  <2> QED BY <1>3, <1>9, <2>1, <2>2, PrefixTrans
<1>12. \A x \in Hops : x # d => at'[x][Received] = at[x][Received]
  BY <1>1, <1>8, BothHops
<1> DEFINE f == [x \in Hops |-> at[x][Received]]
           g == [x \in Hops |-> at'[x][Received]]
<1>13. /\ f[d] = at[d][6] /\ g[d] = at'[d][6]
       /\ g = [f EXCEPT ![d] = g[d]]
  BY <1>1, <1>12 DEF Received
<1>14. Pipes!Longer(f, g, d) /\ Pipes!IsPrefix(g[d], sent[d])
  BY <1>10, <1>11, <1>13, SamePrefix DEF Pipes!Longer
<1>15. {x \in Hops : IsShut(x)'} = {x \in Hops : IsShut(x)}
  BY <1>4 DEF IsShut
<1>16. Pipes!Deliver(d)
  BY <1>4, <1>5, <1>14, <1>15 DEF Pipes!Deliver
<1> QED BY <1>1, <1>16, NoGoingBack DEF Pipes!Next

\* An unbroken direction whose last task is over has delivered everything.
LEMMA AllDelivered ==
  ASSUME TInv, NEW d \in Hops, pc[d][2] \in {"close", "done"}, ~Broken(d)
  PROVE  /\ app[d] \in {"half", "closed"} \/ IsShut(d)
         /\ at[d][TcpOut] = <<>> /\ pc[d][2] = "done" => at[d][Received] = sent[d]
<1> USE DEF TcpIn, Buf1, Stream, Buf2, TcpOut, Received
<1>1. PlacesOK /\ Fits(d)
  BY TypeOKParts DEF TInv
<1>2. fin[d] \in {"read", "swallowed"} /\ pc[d][1] = "done"
  BY <1>1 DEF Fits, EndFits
<1>3. app[d] \in {"half", "closed"} \/ IsShut(d)
  BY <1>1, <1>2 DEF Fits, EndFits
<1>4. at[d][1] = <<>> /\ at[d][3] = <<>>
  BY <1>1, <1>2 DEF Fits, EndFits
<1>5. at[d][2] = <<>> /\ at[d][4] = <<>>
  <2>1. at[d][2 * 1] = <<>> /\ at[d][2 * 2] = <<>>
    BY <1>1, <1>2 DEF Fits, Empty
  <2> QED BY <2>1
<1>6. at[d][6] \in Seq(Nat)
  BY <1>1 DEF PlacesOK, Places
<1>7. Cat(at[d][6], <<>>) = at[d][6]
  BY <1>6, ConcatEmptySeq DEF Cat
<1>8. at[d][5] = <<>> => Whole(at[d]) = at[d][6]
  BY <1>4, <1>5, <1>7 DEF Whole, Past1, Past2
<1>9. Whole(at[d]) = sent[d]
  BY <1>1 DEF Fits, Ordered
<1> QED BY <1>3, <1>8, <1>9

LEMMA EndRefines ==
  ASSUME TInv, Next, NEW h \in Hops, AppEof(h)
  PROVE  Pipes!Next
<1> DEFINE d == Other(h)
<1>1. d \in Hops
  BY BothHops
<1>2. /\ at[d][TcpOut] = <<>> /\ pc[d][2] = "done" /\ eof' = eof \cup {d}
      /\ at' = at /\ sent' = sent /\ pc' = pc
  BY DEF AppEof, IsShut
<1> HIDE DEF d
<1> DEFINE got == [x \in Hops |-> at[x][Received]]
           over == {x \in Hops : app[x] \in {"half", "closed", "reset"}}
           shut == {x \in Hops : IsShut(x)}
           bad == {x \in Hops : Broken(x)}
<1>3. d \in bad \/ (got[d] = sent[d] /\ d \in over \cup shut)
  BY <1>1, <1>2, AllDelivered
<1>4. shut' = shut /\ got' = got
  BY <1>2 DEF IsShut
<1>5. Pipes!End(d)
  BY <1>2, <1>3, <1>4 DEF Pipes!End
<1> QED BY <1>1, <1>5, NoGoingBack DEF Pipes!Next

LEMMA CutRefines ==
  ASSUME TInv, Next, NEW d \in Hops, TcpClose(d)
  PROVE  Pipes!Next
<1> DEFINE e == Other(d)
<1>1. e \in Hops /\ d # e /\ Other(e) = d /\ \A x \in Hops : x = d \/ x = e
  BY BothHops
<1>2. pc[d][2] = "close" /\ at' = at /\ sent' = sent /\ eof' = eof /\ Goto(d, 2, "done")
  BY DEF TcpClose
<1>3. LabelsOK
  BY TypeOKParts DEF TInv
<1>4. pc'[d][2] = "done" /\ pc'[e] = pc[e]
  BY <1>2, <1>3, GotoGoes
<1> HIDE DEF e
<1>5. d \in {x \in Hops : app[x] \in {"half", "closed", "reset"}}
      \/ d \in {x \in Hops : IsShut(x)} \/ d \in {x \in Hops : Broken(x)}
  BY <1>2, AllDelivered
<1>6. {x \in Hops : IsShut(x)'} = {x \in Hops : IsShut(x)} \cup {e}
  <2>1. IsShut(e)' /\ (IsShut(d)' <=> IsShut(d))
    BY <1>1, <1>4 DEF IsShut, e
  <2> QED BY <1>1, <2>1
<1>7. Pipes!Cut(e)
  BY <1>1, <1>2, <1>5, <1>6 DEF Pipes!Cut
<1> QED BY <1>1, <1>7, NoGoingBack DEF Pipes!Next

LEMMA RefuseRefines ==
  ASSUME TInv, Next, CreateChannel, pc'["agent"][2] # "read"
  PROVE  Pipes!Next
<1> DEFINE a == "agent"
           n == "n3"
<1>1. a \in Hops /\ n \in Hops /\ a # n /\ Other(a) = n /\ Other(n) = a
      /\ \A x \in Hops : x = a \/ x = n
  BY DEF Hops, Other
<1>2. LabelsOK /\ app[n] = "absent" /\ sent[n] = <<>>
  BY TypeOKParts DEF TInv, Channel, CreateChannel
<1>3. /\ at' = at /\ sent' = sent /\ eof' = eof
      /\ pc' = [pc EXCEPT ![a][2] = "done", ![n][1] = "done"]
      /\ app' = [app EXCEPT ![n] = "closed"]
  BY <1>1, <1>2 DEF CreateChannel, LabelsOK
<1>4. pc'[a][2] = "done" /\ pc'[n][2] = pc[n][2] /\ app'[n] = "closed"
  BY <1>1, <1>2, <1>3 DEF LabelsOK
<1> HIDE DEF a, n
<1>5. Broken(a)' /\ IsShut(n)' /\ (IsShut(a)' <=> IsShut(a))
  BY <1>1, <1>4 DEF Broken, IsShut
<1>6. {x \in Hops : IsShut(x)'} = {x \in Hops : IsShut(x)} \cup {n}
  BY <1>1, <1>5
<1>7. Hops \ {n} \subseteq {x \in Hops : Broken(x)'}
  BY <1>1, <1>5
<1>8. Pipes!Refuse(n)
  BY <1>2, <1>3, <1>6, <1>7 DEF Pipes!Refuse
<1> QED BY <1>1, <1>8, NoGoingBack DEF Pipes!Next

LEMMA PipesInit ==
  ASSUME Init
  PROVE  Pipes!Init
<1> USE DEF Received
<1>1. \A d \in Hops : ~IsShut(d) /\ ~Broken(d) /\ app[d] \notin {"half", "closed", "reset"}
  BY BothHops DEF Init, IsShut, Broken
<1>2. \A d \in Hops : at[d][6] = <<>> /\ sent[d] = <<>>
  BY DEF Init
<1>3. sent = [d \in Hops |-> <<>>] /\ eof = {}
  BY DEF Init
<1> QED BY <1>1, <1>2, <1>3 DEF Pipes!Init

LEMMA PipesStep ==
  ASSUME TInv, [Next]_vars
  PROVE  [Pipes!Next]_(Pipes!vars)
<1>1. CASE Next
  <2>1. CASE \E h \in Hops : AppSend(h) \/ AppRecv(h) \/ AppEof(h)
    BY <1>1, <2>1, SendRefines, DeliverRefines, EndRefines
  <2>2. CASE \E d \in Hops : TcpClose(d)
    BY <1>1, <2>2, CutRefines
  <2>3. CASE CreateChannel /\ pc'["agent"][2] # "read"
    BY <1>1, <2>3, RefuseRefines
  <2>4. CASE /\ ~\E h \in Hops : AppSend(h) \/ AppRecv(h) \/ AppEof(h)
             /\ ~\E d \in Hops : TcpClose(d)
             /\ CreateChannel => pc'["agent"][2] = "read"
    <3>1. sent' = sent
      BY <1>1, <2>4, SentStep, TypeOKParts DEF TInv
    <3>2. eof' = eof
      BY <1>1, <2>4
         DEF Next, Copy, AppShutdown, AppClose, AppReset, LoseConn, CreateChannel, TcpRead,
             QuicWrite, QuicClose, QuicRead, QuicReadWoken, TcpWrite, ClosingRecv
    <3>3. \A x \in Hops : at'[x][Received] = at[x][Received]
      BY <1>1, <2>4, ReceivedStays
    <3>4. \A x \in Hops : IsShut(x)' <=> IsShut(x)
      BY <1>1, <2>4, ShutStays
    <3> QED BY <1>1, <3>1, <3>2, <3>3, <3>4, PassStep
  <2> QED BY <2>1, <2>2, <2>3, <2>4
<1>2. CASE UNCHANGED vars
  BY <1>2 DEF vars, Pipes!vars, IsShut, Broken
<1> QED BY <1>1, <1>2

\* A tunnel is a duplex pipe: each application receives, in order and once, a
\* prefix of what the other sent, and sees the end only after all of it unless
\* the direction is broken.
THEOREM TunnelIsADuplex == Spec => ImplementsDuplex
BY PipesInit, PipesStep, TInvariance, PTL DEF Spec, ImplementsDuplex, Pipes!Spec
=============================================================================
