-------------------------- MODULE Transports_proofs ---------------------------
(*****************************************************************************)
(* Proofs about the other ways to a peer: links over TCP (LanTcp), by        *)
(* Bluetooth (BleGatt), publishes over relays (RelayRouting) and the relay   *)
(* connection they share (SharedRelay), and the presence by which peers      *)
(* find each other (LocalPresence).                                          *)
(*                                                                           *)
(* Each component has an inductive invariant of its own, which says what     *)
(* is under way or remembered in terms of what was sent, and its steps       *)
(* keep it one by one.                                                       *)
(*****************************************************************************)
EXTENDS LanTcp, BleGatt, RelayRouting, SharedRelay, LocalPresence, DataLemmas, FiniteSetTheorems

-----------------------------------------------------------------------------
(* Links over TCP in a local network. *)

\* A sequence without one of its elements.
LEMMA RemovedAt ==
  ASSUME NEW S, NEW s \in Seq(S), NEW p \in 1..Len(s)
  PROVE  /\ RemoveAt(s, p) \in Seq(S) /\ Len(RemoveAt(s, p)) = Len(s) - 1
         /\ \A i \in 1..(Len(s) - 1) : RemoveAt(s, p)[i] = IF i < p THEN s[i] ELSE s[i + 1]
<1> DEFINE a == SubSeq(s, 1, p - 1)
           b == SubSeq(s, p + 1, Len(s))
           d == RemoveAt(s, p)
<1>1. Len(s) \in Nat /\ p \in Nat /\ 1 <= p /\ p <= Len(s) /\ \A i \in 1..Len(s) : s[i] \in S
  OBVIOUS
<1>2. p - 1 \in Int /\ p + 1 \in Int /\ Len(s) \in Int /\ 1 \in Int
      /\ (\A i \in 1..(p - 1) : s[i] \in S) /\ \A i \in (p + 1)..Len(s) : s[i] \in S
  BY <1>1
<1>3. /\ a \in Seq(S) /\ Len(a) = (IF 1 <= p - 1 THEN (p - 1) - 1 + 1 ELSE 0)
      /\ \A i \in 1..((p - 1) - 1 + 1) : a[i] = s[1 + i - 1]
  BY <1>2, SubSeqProperties
<1>4. /\ b \in Seq(S) /\ Len(b) = (IF p + 1 <= Len(s) THEN Len(s) - (p + 1) + 1 ELSE 0)
      /\ \A i \in 1..(Len(s) - (p + 1) + 1) : b[i] = s[p + 1 + i - 1]
  BY <1>2, SubSeqProperties
<1>5. d = a \o b
  BY DEF RemoveAt
<1> PICK n : n = Len(s)
  OBVIOUS
<1>6. n = Len(s) /\ n \in Nat
  BY <1>1
<1> HIDE DEF a, b, d
<1>7. Len(a) = p - 1 /\ \A i \in 1..(p - 1) : a[i] = s[i]
  BY <1>1, <1>3
<1>8. Len(b) = n - p /\ \A i \in 1..(n - p) : b[i] = s[p + i]
  <2>1. Len(b) = n - p
    BY <1>1, <1>4, <1>6
  <2>2. ASSUME NEW i \in 1..(n - p) PROVE b[i] = s[p + i]
    <3>1. i \in 1..(n - (p + 1) + 1) /\ p + 1 + i - 1 = p + i
      BY <1>1, <1>6
    <3> QED
      BY <1>4, <1>6, <3>1
  <2> QED
    BY <2>1, <2>2
<1>9. /\ d \in Seq(S) /\ Len(d) = Len(a) + Len(b)
      /\ \A i \in 1..(Len(a) + Len(b)) : d[i] = IF i <= Len(a) THEN a[i] ELSE b[i - Len(a)]
  BY <1>3, <1>4, <1>5, ConcatProperties
<1>10. Len(d) = n - 1
  BY <1>1, <1>6, <1>7, <1>8, <1>9
<1>11. ASSUME NEW i \in 1..(n - 1) PROVE d[i] = IF i < p THEN s[i] ELSE s[i + 1]
  <2>1. CASE i < p
    <3>1. i \in 1..(p - 1) /\ i <= Len(a) /\ i \in 1..(Len(a) + Len(b))
      BY <1>1, <1>6, <1>7, <1>8, <2>1
    <3> QED
      BY <1>7, <1>9, <2>1, <3>1
  <2>2. CASE ~(i < p)
    <3>1. i - Len(a) \in 1..(n - p) /\ ~(i <= Len(a)) /\ i \in 1..(Len(a) + Len(b)) /\ p + (i - Len(a)) = i + 1
      BY <1>1, <1>6, <1>7, <1>8, <2>2
    <3>2. d[i] = b[i - Len(a)] /\ b[i - Len(a)] = s[p + (i - Len(a))]
      BY <1>8, <1>9, <3>1
    <3> QED
      BY <2>2, <3>1, <3>2
  <2> QED
    BY <2>1, <2>2
<1> QED
  BY <1>6, <1>9, <1>10, <1>11 DEF d

\* Two ways of cutting one sequence: where the first piece of the one begins that of the other.
LEMMA PrefixesAgree ==
  ASSUME NEW S, NEW l \in Seq(S), NEW r \in Seq(S), NEW f \in Seq(S), NEW w \in Seq(S),
         l \o r = f \o w
  PROVE  /\ Len(l) + Len(r) = Len(f) + Len(w)
         /\ \A i \in 1..Len(f) : i <= Len(l) => l[i] = f[i]
         /\ Len(f) <= Len(l) => SubSeq(l, Len(f) + 1, Len(l)) \o r = w
<1> DEFINE n == Len(f)
           t == SubSeq(l, n + 1, Len(l))
<1>1. Len(l) \in Nat /\ Len(r) \in Nat /\ n \in Nat /\ Len(w) \in Nat
  BY LenProperties
<1>2. /\ Len(l \o r) = Len(l) + Len(r) /\ Len(f \o w) = n + Len(w)
      /\ \A i \in 1..(Len(l) + Len(r)) : (l \o r)[i] = IF i <= Len(l) THEN l[i] ELSE r[i - Len(l)]
      /\ \A i \in 1..(n + Len(w)) : (f \o w)[i] = IF i <= n THEN f[i] ELSE w[i - n]
  BY ConcatProperties
<1>3. Len(l) + Len(r) = n + Len(w)
  BY <1>2
<1> HIDE DEF n, t
<1>4. ASSUME NEW i \in 1..n, i <= Len(l) PROVE l[i] = f[i]
  <2>1. i \in 1..(Len(l) + Len(r)) /\ i \in 1..(n + Len(w)) /\ i <= n
    BY <1>1, <1>3, <1>4
  <2> QED
    BY <1>2, <1>4, <2>1
<1>5. ASSUME n <= Len(l) PROVE t \o r = w
  <2>0. n \in 0..Len(l)
    BY <1>1, <1>5
  <2>1. /\ t \in Seq(S) /\ Len(t) = Len(l) - n
        /\ \A i \in 1..(Len(l) - n) : t[i] = l[n + i]
    BY <2>0, ChunksJoin DEF t
  <2>2. /\ t \o r \in Seq(S) /\ Len(t \o r) = Len(t) + Len(r)
        /\ \A i \in 1..(Len(t) + Len(r)) : (t \o r)[i] = IF i <= Len(t) THEN t[i] ELSE r[i - Len(t)]
    BY <2>1, ConcatProperties
  <2>3. Len(t \o r) = Len(w)
    BY <1>1, <1>3, <2>1, <2>2
  <2>4. ASSUME NEW i \in 1..Len(w) PROVE (t \o r)[i] = w[i]
    <3>1. /\ n + i \in 1..(Len(l) + Len(r)) /\ n + i \in 1..(n + Len(w)) /\ ~(n + i <= n) /\ (n + i) - n = i
          /\ i \in 1..(Len(t) + Len(r))
          /\ (i <= Len(t) <=> n + i <= Len(l))
          /\ (n + i) - Len(l) = i - Len(t) /\ (i <= Len(t) => i \in 1..(Len(l) - n))
      BY <1>1, <1>3, <2>1, <2>3, <2>2
    <3>2. (l \o r)[n + i] = w[i]
      BY <1>2, <3>1
    <3>3. (l \o r)[n + i] = IF n + i <= Len(l) THEN l[n + i] ELSE r[(n + i) - Len(l)]
      BY <1>2, <3>1
    <3>4. CASE i <= Len(t)
      BY <2>1, <2>2, <3>1, <3>2, <3>3, <3>4
    <3>5. CASE ~(i <= Len(t))
      BY <2>2, <3>1, <3>2, <3>3, <3>5
    <3> QED
      BY <3>4, <3>5
  <2> QED
    BY <2>2, <2>3, <2>4, SeqEqual
<1> QED
  BY <1>3, <1>4, <1>5 DEF n, t

Byte == [frame : 1..3, at : Nat]

\* What is still to be taken off when the first k frames are: the third is written later.
Third(auth) == IF auth THEN FrameOf(3) ELSE <<>>
Ahead(k, auth) ==
  CASE k = 0 -> FrameOf(1) \o (FrameOf(2) \o Third(auth))
    [] k = 1 -> FrameOf(2) \o Third(auth)
    [] k = 2 -> Third(auth)
    [] OTHER -> <<>>

Bodies(t, k) == t \in Seq(Seq(Byte)) /\ Len(t) = k /\ \A i \in 1..k : t[i] = Body(i)

\* The frames are taken off in order, and the rest of them is what is left and the rest of the wire.
CutFits(cut, rest, auth) ==
  \E k \in 0..3 :
    /\ Bodies(cut.taken, k) /\ (k = 3 => auth) /\ cut.left \in Seq(Byte)
    /\ cut = [left |-> cut.left, taken |-> cut.taken, st |-> cut.st]
    /\ cut.st # "tooLarge" => cut.left \o rest = Ahead(k, auth)

LEMMA FramesAre ==
  /\ HeaderBytes \in Nat \ {0} /\ MaxFrameBytes \in Nat
  /\ \A i \in 1..3 :
       /\ FrameBytes[i] \in Nat /\ FrameOf(i) \in Seq(Byte)
       /\ Len(FrameOf(i)) = HeaderBytes + FrameBytes[i]
       /\ \A k \in 1..(HeaderBytes + FrameBytes[i]) : FrameOf(i)[k] = [frame |-> i, at |-> k]
       /\ Body(i) \in Seq(Byte)
<1>1. HeaderBytes \in Nat \ {0} /\ MaxFrameBytes \in Nat /\ \A i \in 1..3 : FrameBytes[i] \in Nat
  BY LanTcpAssumption
<1>2. ASSUME NEW i \in 1..3
      PROVE  /\ FrameOf(i) \in Seq(Byte) /\ Len(FrameOf(i)) = HeaderBytes + FrameBytes[i]
             /\ \A k \in 1..(HeaderBytes + FrameBytes[i]) : FrameOf(i)[k] = [frame |-> i, at |-> k]
             /\ Body(i) \in Seq(Byte)
  <2>1. PICK n : n = HeaderBytes + FrameBytes[i]
    OBVIOUS
  <2>2. n \in Nat /\ FrameOf(i) = [k \in 1..n |-> [frame |-> i, at |-> k]]
    BY <1>1, <2>1 DEF FrameOf
  <2>3. \A k \in 1..n : FrameOf(i)[k] = [frame |-> i, at |-> k]
    BY <2>2
  <2>4. \A k \in 1..n : [frame |-> i, at |-> k] \in Byte
    BY <2>2 DEF Byte
  <2>5. FrameOf(i) \in [1..n -> Byte]
    BY <2>2, <2>4
  <2>6. FrameOf(i) \in Seq(Byte) /\ Len(FrameOf(i)) = n
    BY <2>2, <2>5, FunctionIsSeq
  <2>7. HeaderBytes \in 0..n
    BY <1>1, <2>1
  <2>8. Body(i) = SubSeq(FrameOf(i), HeaderBytes + 1, Len(FrameOf(i)))
    BY <2>1, <2>6 DEF Body
  <2>9. Body(i) \in Seq(Byte)
    BY <2>6, <2>7, <2>8, ChunksJoin
  <2> QED
    BY <2>1, <2>3, <2>6, <2>9
<1> QED
  BY <1>1, <1>2

LEMMA AheadIs ==
  ASSUME NEW auth \in BOOLEAN
  PROVE  /\ \A k \in 0..3 : Ahead(k, auth) \in Seq(Byte)
         /\ \A k \in 0..2 : (k = 2 => auth) => Ahead(k, auth) = FrameOf(k + 1) \o Ahead(k + 1, auth)
         /\ Ahead(3, auth) = <<>> /\ (~auth => Ahead(2, auth) = <<>>)
<1>0. FrameOf(1) \in Seq(Byte) /\ FrameOf(2) \in Seq(Byte) /\ FrameOf(3) \in Seq(Byte)
  BY FramesAre
<1>1. Third(auth) \in Seq(Byte) /\ (auth => Third(auth) = FrameOf(3)) /\ (~auth => Third(auth) = <<>>)
  BY <1>0, EmptySeq DEF Third
<1>2. /\ Ahead(3, auth) = <<>> /\ Ahead(2, auth) = Third(auth) /\ Ahead(1, auth) = FrameOf(2) \o Third(auth)
      /\ Ahead(0, auth) = FrameOf(1) \o (FrameOf(2) \o Third(auth))
  BY DEF Ahead
<1>3. Ahead(1, auth) \in Seq(Byte)
  BY <1>0, <1>1, <1>2, ConcatProperties
<1>4. Ahead(0, auth) = FrameOf(1) \o Ahead(1, auth)
  BY <1>2
<1>5. Ahead(0, auth) \in Seq(Byte)
  BY <1>0, <1>3, <1>4, ConcatProperties
<1>6. auth => Ahead(2, auth) = FrameOf(3) \o Ahead(3, auth)
  BY <1>0, <1>1, <1>2, ConcatEmptySeq
<1>7. ASSUME NEW k \in 0..3 PROVE Ahead(k, auth) \in Seq(Byte)
  <2>1. k = 0 \/ k = 1 \/ k = 2 \/ k = 3
    OBVIOUS
  <2> QED
    BY <2>1, <1>1, <1>2, <1>3, <1>5, EmptySeq
<1>8. ASSUME NEW k \in 0..2, k = 2 => auth PROVE Ahead(k, auth) = FrameOf(k + 1) \o Ahead(k + 1, auth)
  <2>1. (k = 0 /\ k + 1 = 1) \/ (k = 1 /\ k + 1 = 2) \/ (k = 2 /\ k + 1 = 3)
    OBVIOUS
  <2> QED
    BY <2>1, <1>2, <1>4, <1>6, <1>8
<1> QED
  BY <1>1, <1>2, <1>7, <1>8

SameWhole(l, r, f, w) == l \o r = f \o w
FirstsAgree(l, r, f, w) ==
  /\ \A i \in 1..Len(f) : i <= Len(l) => l[i] = f[i]
  /\ Len(f) <= Len(l) => SubSeq(l, Len(f) + 1, Len(l)) \o r = w

LEMMA BytesAgree ==
  ASSUME NEW l \in Seq(Byte), NEW r \in Seq(Byte), NEW f \in Seq(Byte), NEW w \in Seq(Byte), SameWhole(l, r, f, w)
  PROVE  FirstsAgree(l, r, f, w)
<1>1. l \o r = f \o w
  BY DEF SameWhole
<1>2. \A i \in 1..Len(f) : i <= Len(l) => l[i] = f[i]
  BY <1>1, PrefixesAgree
<1>3. Len(f) <= Len(l) => SubSeq(l, Len(f) + 1, Len(l)) \o r = w
  BY <1>1, PrefixesAgree, Zenon
<1> QED
  BY <1>2, <1>3 DEF FirstsAgree

\* What is left begins with the first frame that was not taken off.
StartsAt(auth, k, l, rest) == (k = 3 => auth) /\ l \o rest = Ahead(k, auth) /\ HeaderBytes <= Len(l)
TakesOne(auth, k, l, rest, end) ==
  /\ k \in 0..2 /\ (k = 2 => auth) /\ end \in Nat
  /\ end <= Len(l) =>
       /\ SubSeq(l, end + 1, Len(l)) \in Seq(Byte)
       /\ SubSeq(l, end + 1, Len(l)) \o rest = Ahead(k + 1, auth)
       /\ SubSeq(l, HeaderBytes + 1, end) = Body(k + 1)

LEMMA LeftBegins ==
  ASSUME NEW auth \in BOOLEAN, NEW k \in 0..3, NEW l \in Seq(Byte), NEW rest \in Seq(Byte),
         StartsAt(auth, k, l, rest), NEW end, end = HeaderBytes + LengthIn(l)
  PROVE  TakesOne(auth, k, l, rest, end)
<1>0. (k = 3 => auth) /\ l \o rest = Ahead(k, auth) /\ HeaderBytes <= Len(l)
  BY DEF StartsAt
<1>1. HeaderBytes \in Nat \ {0} /\ Len(l) \in Nat /\ Len(l) # 0 /\ Len(rest) \in Nat
  BY <1>0, FramesAre, LenProperties
<1>2. Len(l \o rest) = Len(l) + Len(rest) /\ l \o rest # <<>>
  <2>1. Len(l \o rest) = Len(l) + Len(rest)
    BY ConcatProperties
  <2> QED
    BY <1>0, <1>1, <2>1, EmptySeq
<1>3. k \in 0..2 /\ (k = 2 => auth)
  BY <1>0, <1>2, AheadIs
<1>4. k + 1 \in 1..3 /\ k + 1 \in 0..3
  BY <1>3
<1>a. PICK f, w, n : f = FrameOf(k + 1) /\ w = Ahead(k + 1, auth) /\ n = HeaderBytes + FrameBytes[k + 1]
  OBVIOUS
<1>b. /\ FrameOf(k + 1) \in Seq(Byte) /\ Len(FrameOf(k + 1)) = HeaderBytes + FrameBytes[k + 1]
      /\ \A i \in 1..(HeaderBytes + FrameBytes[k + 1]) : FrameOf(k + 1)[i] = [frame |-> k + 1, at |-> i]
      /\ FrameBytes[k + 1] \in Nat
  BY <1>4, FramesAre
<1>c. Ahead(k + 1, auth) \in Seq(Byte)
  BY <1>4, AheadIs
<1>5. /\ f = FrameOf(k + 1) /\ w = Ahead(k + 1, auth) /\ n = HeaderBytes + FrameBytes[k + 1]
      /\ f \in Seq(Byte) /\ w \in Seq(Byte) /\ Len(f) = n /\ FrameBytes[k + 1] \in Nat /\ n \in Nat
      /\ \A i \in 1..n : f[i] = [frame |-> k + 1, at |-> i]
  BY <1>1, <1>a, <1>b, <1>c
<1>6. SameWhole(l, rest, f, w)
  BY <1>0, <1>3, <1>5, AheadIs DEF SameWhole
<1>7. /\ \A i \in 1..n : i <= Len(l) => l[i] = f[i]
      /\ n <= Len(l) => SubSeq(l, n + 1, Len(l)) \o rest = w
  <2>1. /\ \A i \in 1..Len(f) : i <= Len(l) => l[i] = f[i]
        /\ Len(f) <= Len(l) => SubSeq(l, Len(f) + 1, Len(l)) \o rest = w
    <3>1. f \in Seq(Byte) /\ w \in Seq(Byte)
      BY <1>5
    <3> QED
      BY <1>6, <3>1, BytesAgree DEF FirstsAgree
  <2> QED
    BY <1>5, <2>1
<1>8. LengthIn(l) = FrameBytes[k + 1]
  <2>1. 1 \in 1..n /\ 1 <= Len(l)
    BY <1>1, <1>5
  <2>2. l[1] = [frame |-> k + 1, at |-> 1]
    BY <1>5, <1>7, <2>1
  <2> QED
    BY <2>2 DEF LengthIn
<1>9. ASSUME n <= Len(l)
      PROVE  /\ SubSeq(l, n + 1, Len(l)) \in Seq(Byte)
             /\ SubSeq(l, HeaderBytes + 1, n) = Body(k + 1)
  <2>1. n \in 0..Len(l)
    BY <1>1, <1>5, <1>9
  <2>2. SubSeq(l, n + 1, Len(l)) \in Seq(Byte)
    BY <2>1, ChunksJoin
  <2>3. Body(k + 1) = SubSeq(f, HeaderBytes + 1, n)
    BY <1>5 DEF Body
  <2>4. HeaderBytes + 1 \in Int /\ n \in Int /\ (\A i \in (HeaderBytes + 1)..n : l[i] \in Byte)
        /\ (\A i \in (HeaderBytes + 1)..n : f[i] \in Byte) /\ \A i \in (HeaderBytes + 1)..n : l[i] = f[i]
    <3>1. ASSUME NEW i \in (HeaderBytes + 1)..n PROVE i \in 1..n /\ i <= Len(l) /\ i \in 1..Len(l)
      BY <1>1, <1>5, <1>9
    <3>2. \A i \in (HeaderBytes + 1)..n : l[i] = f[i]
      BY <1>7, <3>1
    <3>3. \A i \in (HeaderBytes + 1)..n : l[i] \in Byte
      <4>1. \A i \in 1..Len(l) : l[i] \in Byte
        BY ElementOfSeq
      <4> QED
        BY <3>1, <4>1
    <3>4. HeaderBytes + 1 \in Int /\ n \in Int
      BY <1>1, <1>5
    <3>5. \A i \in (HeaderBytes + 1)..n : f[i] \in Byte
      BY <3>2, <3>3
    <3> QED
      BY <3>2, <3>3, <3>4, <3>5
  <2> DEFINE a == SubSeq(l, HeaderBytes + 1, n)
             b == SubSeq(f, HeaderBytes + 1, n)
  <2>5. /\ a \in Seq(Byte) /\ Len(a) = (IF HeaderBytes + 1 <= n THEN n - (HeaderBytes + 1) + 1 ELSE 0)
        /\ \A i \in 1..(n - (HeaderBytes + 1) + 1) : a[i] = l[(HeaderBytes + 1) + i - 1]
    BY <2>4, SubSeqProperties
  <2>6. /\ b \in Seq(Byte) /\ Len(b) = (IF HeaderBytes + 1 <= n THEN n - (HeaderBytes + 1) + 1 ELSE 0)
        /\ \A i \in 1..(n - (HeaderBytes + 1) + 1) : b[i] = f[(HeaderBytes + 1) + i - 1]
    BY <2>4, SubSeqProperties
  <2> HIDE DEF a, b
  <2>7. ASSUME NEW i \in 1..Len(a) PROVE a[i] = b[i]
    <3>1. i \in 1..(n - (HeaderBytes + 1) + 1) /\ (HeaderBytes + 1) + i - 1 \in (HeaderBytes + 1)..n
      <4>1. PICK h : h = HeaderBytes + 1
        OBVIOUS
      <4>2. h \in Nat /\ n \in Nat /\ Len(a) = (IF h <= n THEN n - h + 1 ELSE 0)
        BY <1>1, <1>5, <2>5, <4>1
      <4>3. h <= n /\ i \in 1..(n - h + 1)
        BY <4>2
      <4>4. h + i - 1 \in h..n
        BY <4>2, <4>3
      <4> QED
        BY <4>1, <4>3, <4>4
    <3> QED
      BY <2>4, <2>5, <2>6, <3>1
  <2>8. a = b
    BY <2>5, <2>6, <2>7, SeqEqual
  <2> QED
    BY <2>2, <2>3, <2>8 DEF a, b
<1>10. end = n
  BY <1>5, <1>8
<1> QED
  BY <1>3, <1>5, <1>7, <1>9, <1>10 DEF TakesOne

LEMMA CutOneFits ==
  ASSUME NEW cut, NEW rest \in Seq(Byte), NEW auth \in BOOLEAN, CutFits(cut, rest, auth)
  PROVE  CutFits(CutOne(cut), rest, auth)
<1>1. PICK k \in 0..3 :
        /\ Bodies(cut.taken, k) /\ (k = 3 => auth) /\ cut.left \in Seq(Byte)
        /\ cut = [left |-> cut.left, taken |-> cut.taken, st |-> cut.st]
        /\ cut.st # "tooLarge" => cut.left \o rest = Ahead(k, auth)
  BY DEF CutFits
<1>a. PICK l, t, st : l = cut.left /\ t = cut.taken /\ st = cut.st
  OBVIOUS
<1>2. l = cut.left /\ t = cut.taken /\ st = cut.st /\ cut = [left |-> l, taken |-> t, st |-> st]
  BY <1>1, <1>a
<1>3. l \in Seq(Byte) /\ Len(l) \in Nat /\ HeaderBytes \in Nat
  BY <1>1, <1>2, LenProperties, FramesAre
<1> DEFINE end == HeaderBytes + LengthIn(l)
<1>4. CASE st # "cuts" \/ Len(l) < HeaderBytes
  <2>1. CutOne(cut) = cut
    BY <1>2, <1>4 DEF CutOne
  <2> QED
    BY <2>1
<1>5. CASE st = "cuts" /\ ~(Len(l) < HeaderBytes)
  <2>1. /\ k \in 0..2 /\ (k = 2 => auth) /\ end \in Nat
        /\ end <= Len(l) =>
             /\ SubSeq(l, end + 1, Len(l)) \in Seq(Byte)
             /\ SubSeq(l, end + 1, Len(l)) \o rest = Ahead(k + 1, auth)
             /\ SubSeq(l, HeaderBytes + 1, end) = Body(k + 1)
    <3>1. StartsAt(auth, k, l, rest)
      BY <1>1, <1>2, <1>3, <1>5 DEF StartsAt
    <3>2. PICK e : e = HeaderBytes + LengthIn(l)
      OBVIOUS
    <3>3. TakesOne(auth, k, l, rest, e)
      BY <1>1, <1>3, <3>1, <3>2, LeftBegins
    <3> QED
      BY <3>2, <3>3 DEF TakesOne
  <2>2. k + 1 \in 1..3 /\ k + 1 \in 0..3
    BY <2>1
  <2> HIDE DEF end
  <2>3. CASE LengthIn(l) > MaxFrameBytes
    <3>1. CutOne(cut) = [left |-> <<>>, taken |-> t, st |-> "tooLarge"]
      BY <1>2, <1>5, <2>3 DEF CutOne
    <3>2. <<>> \in Seq(Byte)
      BY EmptySeq
    <3>3. PICK c : c = CutOne(cut)
      OBVIOUS
    <3>4. c.left = <<>> /\ c.taken = t /\ c.st = "tooLarge" /\ c = [left |-> c.left, taken |-> c.taken, st |-> c.st]
      BY <3>1, <3>3
    <3>5. CutFits(c, rest, auth)
      BY <1>1, <1>2, <3>2, <3>4 DEF CutFits
    <3> QED
      BY <3>3, <3>5
  <2>4. CASE ~(LengthIn(l) > MaxFrameBytes) /\ Len(l) < end
    <3>1. CutOne(cut) = [left |-> l, taken |-> t, st |-> "waits"]
      BY <1>2, <1>5, <2>4 DEF CutOne, PutBack, end
    <3>3. PICK c : c = CutOne(cut)
      OBVIOUS
    <3>4. c.left = l /\ c.taken = t /\ c.st = "waits" /\ c = [left |-> c.left, taken |-> c.taken, st |-> c.st]
      BY <3>1, <3>3
    <3>5. l \o rest = Ahead(k, auth)
      BY <1>1, <1>2, <1>5
    <3>6. CutFits(c, rest, auth)
      BY <1>1, <1>2, <3>4, <3>5 DEF CutFits
    <3> QED
      BY <3>3, <3>6
  <2>5. CASE ~(LengthIn(l) > MaxFrameBytes) /\ ~(Len(l) < end)
    <3> DEFINE b == Body(k + 1)
    <3>1. CutOne(cut) = [left |-> SubSeq(l, end + 1, Len(l)), taken |-> Append(t, SubSeq(l, HeaderBytes + 1, end)),
                         st |-> "cuts"]
      BY <1>2, <1>5, <2>5 DEF CutOne, end
    <3>2. end <= Len(l)
      BY <1>3, <2>1, <2>5
    <3>3. b \in Seq(Byte)
      BY <2>2, FramesAre
    <3>4. Bodies(t, k) /\ (k + 1 = 3 => auth)
      BY <1>1, <1>2, <2>1
    <3>5. /\ Append(t, b) \in Seq(Seq(Byte)) /\ Len(Append(t, b)) = k + 1
          /\ \A i \in 1..k : Append(t, b)[i] = t[i]
          /\ Append(t, b)[k + 1] = b
      BY <3>3, <3>4, AppendProperties DEF Bodies
    <3>6. \A i \in 1..(k + 1) : i \in 1..k \/ i = k + 1
      BY <2>1
    <3>7. Bodies(Append(t, b), k + 1)
      BY <3>4, <3>5, <3>6 DEF Bodies
    <3> HIDE DEF b
    <3>8. CutOne(cut) = [left |-> SubSeq(l, end + 1, Len(l)), taken |-> Append(t, b), st |-> "cuts"]
      BY <2>1, <3>1, <3>2 DEF b
    <3>9. PICK c : c = CutOne(cut)
      OBVIOUS
    <3>10. /\ c.left = SubSeq(l, end + 1, Len(l)) /\ c.taken = Append(t, b) /\ c.st = "cuts"
           /\ c = [left |-> c.left, taken |-> c.taken, st |-> c.st]
      <4>1. PICK x, y : x = SubSeq(l, end + 1, Len(l)) /\ y = Append(t, b)
        OBVIOUS
      <4>2. c = [left |-> x, taken |-> y, st |-> "cuts"]
        BY <3>8, <3>9, <4>1
      <4> QED
        BY <4>1, <4>2
    <3>11. /\ Bodies(c.taken, k + 1) /\ (k + 1 = 3 => auth) /\ c.left \in Seq(Byte)
           /\ c.left \o rest = Ahead(k + 1, auth)
      BY <2>1, <3>2, <3>4, <3>7, <3>10
    <3>12. CutFits(c, rest, auth)
      BY <2>2, <3>10, <3>11 DEF CutFits
    <3> QED
      BY <3>9, <3>12
  <2> QED
    BY <2>3, <2>4, <2>5
<1> QED
  BY <1>4, <1>5

\* What every round fits, the last does.
LEMMA CutIsWhole ==
  ASSUME NEW bytes, Len(bytes) \in Nat, NEW taken, NEW rest \in Seq(Byte), NEW auth \in BOOLEAN,
         CutFits([left |-> bytes, taken |-> taken, st |-> "cuts"], rest, auth)
  PROVE  CutFits(Cut(bytes, taken), rest, auth)
<1> DEFINE n == Len(bytes)
           first == [left |-> bytes, taken |-> taken, st |-> "cuts"]
           Solves(g, k) == g = [i \in 0..k |-> IF i = 0 THEN first ELSE CutOne(g[i - 1])]
           Unsolved == {k \in 0..n : ~\E g : Solves(g, k)}
           last == CHOOSE g : Solves(g, n)
<1>1. Cut(bytes, taken) = last[n]
  BY DEF Cut
<1>2. n \in Nat
  OBVIOUS
<1>a. CutFits(first, rest, auth)
  OBVIOUS
<1> HIDE DEF n, first
<1>3. Unsolved = {}
  <2> SUFFICES ASSUME Unsolved # {} PROVE FALSE
    OBVIOUS
  <2>1. PICK k \in Unsolved : \A m \in Unsolved : k <= m
    <3>1. Unsolved \subseteq Nat
      OBVIOUS
    <3> HIDE DEF Unsolved
    <3> QED
      BY <3>1, LeastNatural
  <2>2. k \in 0..n /\ ~\E g : Solves(g, k)
    BY <2>1
  <2>3. CASE k = 0
    <3> DEFINE g == [i \in 0..0 |-> first]
    <3>1. g = [i \in 0..0 |-> IF i = 0 THEN first ELSE CutOne(g[i - 1])]
      <4>1. \A i \in 0..0 : i = 0
        OBVIOUS
      <4> QED
        BY <4>1
    <3>2. Solves(g, k)
      BY <2>3, <3>1
    <3> QED
      BY <2>2, <3>2
  <2>4. CASE k # 0
    <3>1. k \in 1..n /\ k - 1 \in 0..n /\ ~(k <= k - 1)
      BY <1>2, <2>2, <2>4
    <3>2. k - 1 \notin Unsolved
      BY <2>1, <3>1
    <3>3. PICK g : Solves(g, k - 1)
      BY <3>1, <3>2
    <3> DEFINE h == [i \in 0..k |-> IF i = k THEN CutOne(g[k - 1]) ELSE g[i]]
    <3>4. \A i \in 0..k : h[i] = IF i = k THEN CutOne(g[k - 1]) ELSE g[i]
      OBVIOUS
    <3>5. \A i \in 0..(k - 1) : g[i] = IF i = 0 THEN first ELSE CutOne(g[i - 1])
      BY <3>3
    <3>6. ASSUME NEW i \in 0..k
          PROVE  h[i] = IF i = 0 THEN first ELSE CutOne(h[i - 1])
      <4>1. CASE i = k
        <5>1. k - 1 \in 0..k /\ k - 1 # k /\ k \in 0..k
          BY <2>2, <3>1
        <5>2. h[k] = CutOne(g[k - 1]) /\ h[k - 1] = g[k - 1]
          BY <3>4, <5>1
        <5> HIDE DEF h
        <5> QED
          BY <2>4, <4>1, <5>2
      <4>2. CASE i # k
        <5>1. i \in 0..(k - 1) /\ (i # 0 => i - 1 \in 0..k /\ i - 1 # k)
          BY <2>2, <4>2
        <5>2. h[i] = g[i] /\ (i # 0 => h[i - 1] = g[i - 1])
          BY <3>4, <4>2, <5>1
        <5> HIDE DEF h
        <5> QED
          BY <3>5, <5>1, <5>2
      <4> QED
        BY <4>1, <4>2
    <3>7. h = [i \in 0..k |-> IF i = 0 THEN first ELSE CutOne(h[i - 1])]
      <4> DEFINE u == [i \in 0..k |-> IF i = 0 THEN first ELSE CutOne(h[i - 1])]
      <4>1. \A i \in 0..k : h[i] = u[i]
        BY <3>6
      <4>2. h = [i \in 0..k |-> h[i]] /\ u = [i \in 0..k |-> u[i]]
        OBVIOUS
      <4> HIDE DEF h, u
      <4>3. h = u
        BY <4>1, <4>2
      <4> QED
        BY <4>3 DEF u
    <3> QED
      BY <2>2, <3>7
  <2> QED
    BY <2>3, <2>4
<1>4. 0 \in 0..n /\ n \in 0..n
  BY <1>2
<1>5. Solves(last, n)
  <2>1. \E g : Solves(g, n)
    BY <1>3, <1>4
  <2> QED
    BY <2>1
<1> HIDE DEF last
<1>6. \A i \in 0..n : last[i] = IF i = 0 THEN first ELSE CutOne(last[i - 1])
  BY <1>5
<1> HIDE DEF Solves, Unsolved
<1> DEFINE Unfit == {k \in 0..n : ~CutFits(last[k], rest, auth)}
<1>7. Unfit = {}
  <2> SUFFICES ASSUME Unfit # {} PROVE FALSE
    OBVIOUS
  <2>1. PICK k \in Unfit : \A m \in Unfit : k <= m
    <3>1. Unfit \subseteq Nat
      OBVIOUS
    <3> HIDE DEF Unfit
    <3> QED
      BY <3>1, LeastNatural
  <2>2. k \in 0..n /\ ~CutFits(last[k], rest, auth)
    BY <2>1
  <2>3. k # 0
    BY <1>4, <1>6, <1>a, <2>2
  <2>4. k - 1 \in 0..n /\ ~(k <= k - 1)
    BY <1>2, <2>2, <2>3
  <2>5. CutFits(last[k - 1], rest, auth)
    BY <2>1, <2>4
  <2>6. last[k] = CutOne(last[k - 1])
    BY <1>6, <2>2, <2>3
  <2>7. CutFits(CutOne(last[k - 1]), rest, auth)
    BY <2>5, CutOneFits
  <2> QED
    BY <2>2, <2>6, <2>7
<1> QED
  BY <1>1, <1>4, <1>7

-----------------------------------------------------------------------------

DialSet == [st : {"next", "dials", "linked", "failed"}, left : Seq(Endpoints), on : Nat]
SocketSet ==
  [to : Endpoints, dialer : {"connecting", "open", "gone"},
   acceptor : {"none", "queued", "accepted", "pipe", "gone"}, wire : Seq(Byte), buffered : Seq(Byte),
   delivered : Seq(Seq(Byte)), authSent : BOOLEAN, ready : BOOLEAN, owned : BOOLEAN]
ServerSet == [made : Nat, st : {"none", "opening", "listening", "failed"}]
ListenSet == {"waits", "held", "threw", "stopped"}

LanTyped ==
  /\ dialing \in Seq(DialSet) /\ socket \in Seq(SocketSet) /\ server \in ServerSet
  /\ listens \in Seq(ListenSet) /\ onInbound \in BOOLEAN /\ stale \in BOOLEAN

HintsFit ==
  /\ hints \in Seq(Endpoints) /\ Len(hints) <= MaxEndpoints
  /\ \A i, k \in 1..Len(hints) : hints[i] = hints[k] => i = k

\* A dial, when there are n sockets.
TcpDialFits(x, n) ==
  /\ x.st \in {"dials", "linked"} => x.on \in 1..n
  /\ x.st = "failed" => x.left = <<>>

\* Whoever dials or is linked over a socket.
Uses(x, s) == x.on = s /\ x.st \in {"dials", "linked"}
Used(s) == \E d \in 1..Len(dialing) : Uses(dialing[d], s)

\* The stream of a socket, which is written once it is open.
StreamFits(q) ==
  /\ \E k \in 0..3 :
       /\ Bodies(q.delivered, k) /\ (k = 3 => q.authSent)
       /\ q.acceptor \in {"queued", "accepted", "pipe"} => q.buffered \o q.wire = Ahead(k, q.authSent)
  /\ q.dialer = "connecting" => q.acceptor = "none"
  /\ q.acceptor = "none" => q.buffered = <<>> /\ q.delivered = <<>> /\ ~q.authSent

ListenStopped == \E k \in 1..Len(listens) : listens[k] = "stopped"

\* Who takes what the socket brings, unless somebody stopped it.
OwnerFits(q, up) ==
  /\ q.acceptor = "pipe" => q.owned \/ up = "stopped"
  /\ q.acceptor \in {"accepted", "pipe"} => up # "nobody"

\* Whether somebody takes inbound links, or did until it was stopped.
Taker == IF ListenStopped THEN "stopped" ELSE IF onInbound THEN "taken" ELSE "nobody"

SocketsFit ==
  \A s \in 1..Len(socket) :
    /\ StreamFits(socket[s]) /\ OwnerFits(socket[s], Taker)
    /\ socket[s].dialer # "gone" => Used(s)

ServerFits ==
  /\ server.st = "opening" => server.made \in 1..Len(listens) /\ listens[server.made] = "waits"
  /\ server # NoServer => onInbound
  /\ ~stale => \A k \in 1..Len(listens) : listens[k] = "held" => onInbound /\ server # NoServer

DialsFit == \A d \in 1..Len(dialing) : TcpDialFits(dialing[d], Len(socket))

LanInv == LanTyped /\ HintsFit /\ DialsFit /\ SocketsFit /\ ServerFits

\* The fields of what is in these sets.
LEMMA RecordsAre ==
  /\ \A x \in DialSet : /\ x.st \in {"next", "dials", "linked", "failed"} /\ x.left \in Seq(Endpoints) /\ x.on \in Nat
                        /\ x = [st |-> x.st, left |-> x.left, on |-> x.on]
  /\ \A q \in SocketSet :
       /\ q.to \in Endpoints /\ q.dialer \in {"connecting", "open", "gone"}
       /\ q.acceptor \in {"none", "queued", "accepted", "pipe", "gone"}
       /\ q.wire \in Seq(Byte) /\ q.buffered \in Seq(Byte) /\ q.delivered \in Seq(Seq(Byte))
       /\ q.authSent \in BOOLEAN /\ q.ready \in BOOLEAN /\ q.owned \in BOOLEAN
  /\ \A x \in ServerSet : x.made \in Nat /\ x.st \in {"none", "opening", "listening", "failed"}
BY DEF DialSet, SocketSet, ServerSet

\* Dials, sockets and calls by their places.
LEMMA LanElements ==
  ASSUME LanTyped
  PROVE  /\ Len(dialing) \in Nat /\ DOMAIN dialing = 1..Len(dialing) /\ \A d \in 1..Len(dialing) : dialing[d] \in DialSet
         /\ Len(socket) \in Nat /\ DOMAIN socket = 1..Len(socket) /\ \A s \in 1..Len(socket) : socket[s] \in SocketSet
         /\ Len(listens) \in Nat /\ DOMAIN listens = 1..Len(listens)
         /\ \A k \in 1..Len(listens) : listens[k] \in ListenSet
BY LenProperties, ElementOfSeq DEF LanTyped

LEMMA LanInvIsSound == LanInv => LanTypeOK /\ LanIsSound
<1> SUFFICES ASSUME LanInv PROVE LanTypeOK /\ LanIsSound
  OBVIOUS
<1>1. LanTyped /\ HintsFit /\ DialsFit /\ SocketsFit /\ ServerFits
  BY DEF LanInv
<1>2. /\ Len(dialing) \in Nat /\ DOMAIN dialing = 1..Len(dialing) /\ \A d \in 1..Len(dialing) : dialing[d] \in DialSet
      /\ Len(socket) \in Nat /\ DOMAIN socket = 1..Len(socket) /\ \A s \in 1..Len(socket) : socket[s] \in SocketSet
      /\ Len(listens) \in Nat /\ DOMAIN listens = 1..Len(listens)
  BY <1>1, LanElements
<1>3. LanTypeOK
  <2>1. Len(hints) <= MaxEndpoints /\ \A i, k \in DOMAIN hints : hints[i] = hints[k] => i = k
    BY <1>1, LenProperties DEF HintsFit
  <2>2. \A d \in DOMAIN dialing : dialing[d].st \in {"next", "dials", "linked", "failed"}
    BY <1>2, RecordsAre
  <2>3. \A s \in DOMAIN socket : /\ socket[s].dialer \in {"connecting", "open", "gone"}
                                 /\ socket[s].acceptor \in {"none", "queued", "accepted", "pipe", "gone"}
    BY <1>2, RecordsAre
  <2>4. server.st \in {"none", "opening", "listening", "failed"}
    BY <1>1, RecordsAre DEF LanTyped
  <2> QED
    BY <2>1, <2>2, <2>3, <2>4, Zenon DEF LanTypeOK
<1>4. ASSUME NEW s \in DOMAIN socket
      PROVE  /\ Len(socket[s].delivered) <= 3
             /\ \A i \in DOMAIN socket[s].delivered : socket[s].delivered[i] = Body(i)
             /\ socket[s].dialer # "gone" =>
                  \E d \in DOMAIN dialing : dialing[d].on = s /\ dialing[d].st \in {"dials", "linked"}
             /\ socket[s].acceptor = "pipe" => socket[s].owned \/ \E k \in DOMAIN listens : listens[k] = "stopped"
  <2>1. s \in 1..Len(socket) /\ StreamFits(socket[s]) /\ OwnerFits(socket[s], Taker) /\ (socket[s].dialer # "gone" => Used(s))
    BY <1>1, <1>2 DEF SocketsFit
  <2>2. PICK k \in 0..3 : Bodies(socket[s].delivered, k)
    BY <2>1 DEF StreamFits
  <2>3. Len(socket[s].delivered) <= 3 /\ \A i \in DOMAIN socket[s].delivered : socket[s].delivered[i] = Body(i)
    <3>1. PICK t : t = socket[s].delivered
      OBVIOUS
    <3>2. t \in Seq(Seq(Byte)) /\ Len(t) = k /\ \A i \in 1..k : t[i] = Body(i)
      BY <2>2, <3>1 DEF Bodies
    <3>3. DOMAIN t = 1..k /\ k <= 3
      BY <3>2, LenProperties
    <3> QED
      BY <3>1, <3>2, <3>3
  <2>4. socket[s].acceptor = "pipe" => socket[s].owned \/ ListenStopped
    BY <2>1 DEF OwnerFits, Taker
  <2>5. socket[s].acceptor = "pipe" => socket[s].owned \/ \E j \in DOMAIN listens : listens[j] = "stopped"
    BY <1>2, <2>4, Zenon DEF ListenStopped
  <2>6. socket[s].dialer # "gone" => \E d \in DOMAIN dialing : dialing[d].on = s /\ dialing[d].st \in {"dials", "linked"}
    BY <1>2, <2>1, Zenon DEF Used, Uses
  <2> QED
    BY <2>3, <2>5, <2>6
<1>5. \A d \in DOMAIN dialing : dialing[d].st = "failed" => dialing[d].left = <<>>
  BY <1>1, <1>2 DEF DialsFit, TcpDialFits
<1>6. ~stale => \A k \in DOMAIN listens : listens[k] = "held" => onInbound /\ server # NoServer
  BY <1>1, <1>2, Zenon DEF ServerFits
<1> QED
  BY <1>3, <1>4, <1>5, <1>6, Zenon DEF LanIsSound

LEMMA LanStarts == InitLan => LanInv
<1> SUFFICES ASSUME InitLan PROVE LanInv
  OBVIOUS
<1>1. hints = <<>> /\ dialing = <<>> /\ socket = <<>> /\ listens = <<>> /\ server = NoServer /\ onInbound = FALSE /\ stale = FALSE
  BY DEF InitLan
<1>2. Len(<<>>) = 0 /\ 1..0 = {} /\ MaxEndpoints \in Nat
  BY LanTcpAssumption
<1>3. dialing \in Seq(DialSet) /\ socket \in Seq(SocketSet) /\ listens \in Seq(ListenSet) /\ hints \in Seq(Endpoints)
  BY <1>1, EmptySeq
<1>4. server \in ServerSet
  BY <1>1 DEF ServerSet, NoServer
<1>5. LanTyped
  BY <1>1, <1>3, <1>4 DEF LanTyped
<1>6. HintsFit
  BY <1>1, <1>2, <1>3 DEF HintsFit
<1>7. DialsFit /\ SocketsFit
  BY <1>1, <1>2 DEF DialsFit, SocketsFit
<1>8. ServerFits
  BY <1>1, <1>2 DEF ServerFits, NoServer
<1> QED
  BY <1>5, <1>6, <1>7, <1>8 DEF LanInv

\* A step of one socket, which is not taken up again once its dialer is gone.
LEMMA SocketSteps ==
  ASSUME LanInv, NEW s \in 1..Len(socket), NEW q \in SocketSet, socket' = [socket EXCEPT ![s] = q],
         UNCHANGED <<hints, dialing, server, onInbound, listens, stale>>,
         StreamFits(q), OwnerFits(q, Taker), q.dialer # "gone" => socket[s].dialer # "gone"
  PROVE  LanInv'
<1>1. LanTyped /\ HintsFit /\ DialsFit /\ SocketsFit /\ ServerFits
  BY DEF LanInv
<1>2. socket \in Seq(SocketSet) /\ DOMAIN socket = 1..Len(socket) /\ Len(socket) \in Nat
  BY <1>1, LanElements DEF LanTyped
<1>3. socket' \in Seq(SocketSet) /\ Len(socket') = Len(socket) /\ socket'[s] = q
      /\ \A i \in 1..Len(socket) : i # s => socket'[i] = socket[i]
  BY <1>2, ExceptSeq
<1>4. LanTyped'
  BY <1>1, <1>3 DEF LanTyped
<1>5. HintsFit'
  BY <1>1 DEF HintsFit
<1>6. DialsFit'
  BY <1>1, <1>3 DEF DialsFit, TcpDialFits
<1>7. SocketsFit'
  <2>1. Taker' = Taker
    BY DEF Taker, ListenStopped
  <2>2. ASSUME NEW i \in 1..Len(socket') PROVE StreamFits(socket'[i]) /\ OwnerFits(socket'[i], Taker') /\ (socket'[i].dialer # "gone" => Used(i)')
    <3>1. i \in 1..Len(socket)
      BY <1>3
    <3>2. StreamFits(socket[i]) /\ OwnerFits(socket[i], Taker) /\ (socket[i].dialer # "gone" => Used(i))
      BY <1>1, <3>1 DEF SocketsFit
    <3>3. Used(i)' <=> Used(i)
      BY DEF Used, Uses
    <3>4. CASE i = s
      BY <1>3, <2>1, <3>2, <3>3, <3>4
    <3>5. CASE i # s
      <4>1. socket'[i] = socket[i]
        BY <1>3, <3>1, <3>5
      <4> QED
        BY <2>1, <3>2, <3>3, <4>1
    <3> QED
      BY <3>4, <3>5
  <2> QED
    BY <2>2 DEF SocketsFit, StreamFits, OwnerFits
<1>8. ServerFits'
  BY <1>1 DEF ServerFits
<1> QED
  BY <1>4, <1>5, <1>6, <1>7, <1>8 DEF LanInv

\* A step of one dial, which gives up no socket whose end is not gone.
LEMMA DialSteps ==
  ASSUME LanInv, NEW d \in 1..Len(dialing), NEW x \in DialSet, dialing' = [dialing EXCEPT ![d] = x],
         UNCHANGED <<hints, socket, server, onInbound, listens, stale>>, TcpDialFits(x, Len(socket)),
         \A s \in 1..Len(socket) : socket[s].dialer # "gone" /\ Uses(dialing[d], s) => Uses(x, s)
  PROVE  LanInv'
<1>1. LanTyped /\ HintsFit /\ DialsFit /\ SocketsFit /\ ServerFits
  BY DEF LanInv
<1>2. dialing \in Seq(DialSet) /\ DOMAIN dialing = 1..Len(dialing) /\ Len(dialing) \in Nat
  BY <1>1, LanElements DEF LanTyped
<1>3. dialing' \in Seq(DialSet) /\ Len(dialing') = Len(dialing) /\ dialing'[d] = x
      /\ \A i \in 1..Len(dialing) : i # d => dialing'[i] = dialing[i]
  BY <1>2, ExceptSeq
<1>4. LanTyped'
  BY <1>1, <1>3 DEF LanTyped
<1>5. HintsFit'
  BY <1>1 DEF HintsFit
<1>6. DialsFit'
  <2>1. ASSUME NEW i \in 1..Len(dialing') PROVE TcpDialFits(dialing'[i], Len(socket))
    BY <1>1, <1>3 DEF DialsFit
  <2> QED
    BY <2>1 DEF DialsFit, TcpDialFits
<1>7. SocketsFit'
  <2>1. Taker' = Taker
    BY DEF Taker, ListenStopped
  <2>2. ASSUME NEW s \in 1..Len(socket), socket[s].dialer # "gone" PROVE Used(s)'
    <3>1. PICK i \in 1..Len(dialing) : Uses(dialing[i], s)
      BY <1>1, <2>2 DEF SocketsFit, Used
    <3>2. Uses(dialing'[i], s)
      <4>1. CASE i = d
        BY <1>3, <2>2, <3>1, <4>1
      <4>2. CASE i # d
        BY <1>3, <3>1, <4>2
      <4> QED
        BY <4>1, <4>2
    <3>3. i \in 1..Len(dialing')
      BY <1>3
    <3> QED
      BY <3>2, <3>3 DEF Used, Uses
  <2> QED
    BY <1>1, <2>1, <2>2 DEF SocketsFit, StreamFits, OwnerFits
<1>8. ServerFits'
  BY <1>1 DEF ServerFits
<1> QED
  BY <1>4, <1>5, <1>6, <1>7, <1>8 DEF LanInv

\* A step of the hints only.
LEMMA HintSteps ==
  ASSUME LanInv, HintsFit', UNCHANGED <<dialing, socket, server, onInbound, listens, stale>>
  PROVE  LanInv'
<1>1. LanTyped /\ DialsFit /\ SocketsFit /\ ServerFits
  BY DEF LanInv
<1>4. LanTyped'
  BY <1>1 DEF LanTyped
<1>6. DialsFit'
  BY <1>1 DEF DialsFit, TcpDialFits
<1>7. SocketsFit'
  BY <1>1 DEF SocketsFit, StreamFits, OwnerFits, Taker, ListenStopped, Used, Uses
<1>8. ServerFits'
  BY <1>1 DEF ServerFits
<1> QED
  BY <1>4, <1>6, <1>7, <1>8 DEF LanInv

\* The hints without an endpoint are other endpoints, each once.
LEMMA OthersAre ==
  ASSUME HintsFit, NEW e \in Endpoints
  PROVE  /\ Others(e) \in Seq(Endpoints)
         /\ \A i, k \in 1..Len(Others(e)) : Others(e)[i] = Others(e)[k] => i = k
         /\ \A i \in 1..Len(Others(e)) : Others(e)[i] # e
<1>1. hints \in Seq(Endpoints) /\ Len(hints) \in Nat /\ DOMAIN hints = 1..Len(hints)
      /\ \A i, k \in 1..Len(hints) : hints[i] = hints[k] => i = k
  BY LenProperties DEF HintsFit
<1>2. CASE e \in Range(hints)
  <2> DEFINE p == CHOOSE i \in DOMAIN hints : hints[i] = e
             n == Len(hints)
  <2>1. \E i \in DOMAIN hints : hints[i] = e
    BY <1>2 DEF Range
  <2>2. p \in 1..n /\ hints[p] = e
    BY <1>1, <2>1
  <2>3. Others(e) = RemoveAt(hints, p)
    BY <1>2 DEF Others
  <2>4. n \in Nat /\ \A i, k \in 1..n : hints[i] = hints[k] => i = k
    BY <1>1
  <2> HIDE DEF p
  <2>5. /\ Others(e) \in Seq(Endpoints) /\ Len(Others(e)) = n - 1
        /\ \A i \in 1..(n - 1) : Others(e)[i] = IF i < p THEN hints[i] ELSE hints[i + 1]
    <3>1. PICK o : o = RemoveAt(hints, p)
      OBVIOUS
    <3>2. /\ o \in Seq(Endpoints) /\ Len(o) = Len(hints) - 1
          /\ \A i \in 1..(Len(hints) - 1) : o[i] = IF i < p THEN hints[i] ELSE hints[i + 1]
      BY <1>1, <2>2, <3>1, RemovedAt
    <3> QED
      BY <2>3, <3>1, <3>2
  <2> HIDE DEF n
  <2>6. ASSUME NEW i \in 1..(n - 1)
        PROVE  \E u \in 1..n : u = (IF i < p THEN i ELSE i + 1) /\ u # p /\ Others(e)[i] = hints[u]
    <3>1. (IF i < p THEN i ELSE i + 1) \in 1..n /\ (IF i < p THEN i ELSE i + 1) # p
      BY <2>2, <2>4
    <3> QED
      BY <2>5, <3>1
  <2>7. ASSUME NEW i \in 1..(n - 1) PROVE Others(e)[i] # e
    BY <2>2, <2>4, <2>6
  <2>8. ASSUME NEW i \in 1..(n - 1), NEW k \in 1..(n - 1), Others(e)[i] = Others(e)[k] PROVE i = k
    <3>1. PICK u \in 1..n : u = (IF i < p THEN i ELSE i + 1) /\ u # p /\ Others(e)[i] = hints[u]
      BY <2>6
    <3>2. PICK v \in 1..n : v = (IF k < p THEN k ELSE k + 1) /\ v # p /\ Others(e)[k] = hints[v]
      BY <2>6
    <3>3. u = v
      BY <2>4, <2>8, <3>1, <3>2
    <3> QED
      BY <2>2, <2>4, <3>1, <3>2, <3>3
  <2> QED
    BY <2>5, <2>7, <2>8
<1>3. CASE e \notin Range(hints)
  <2>1. Others(e) = hints
    BY <1>3 DEF Others
  <2>2. \A i \in 1..Len(hints) : hints[i] # e
    BY <1>1, <1>3 DEF Range
  <2> QED
    BY <1>1, <2>1, <2>2
<1> QED
  BY <1>2, <1>3

LEMMA NotedFit == ASSUME LanInv, NEW e \in Endpoints, noteLanPeerHint(e) PROVE LanInv'
<1>1. HintsFit /\ UNCHANGED <<dialing, socket, server, onInbound, listens, stale>>
  BY DEF LanInv, noteLanPeerHint
<1>2. PICK o : o = Others(e)
  OBVIOUS
<1>3. /\ o \in Seq(Endpoints) /\ \A i, k \in 1..Len(o) : o[i] = o[k] => i = k
      /\ \A i \in 1..Len(o) : o[i] # e
  BY <1>1, <1>2, OthersAre
<1>4. PICK next : next = <<e>> \o o
  OBVIOUS
<1>5. <<e>> \in Seq(Endpoints) /\ Len(<<e>>) = 1 /\ <<e>>[1] = e
  OBVIOUS
<1>6. /\ next \in Seq(Endpoints) /\ Len(next) = 1 + Len(o) /\ Len(o) \in Nat
      /\ \A i \in 1..(1 + Len(o)) : next[i] = IF i <= 1 THEN <<e>>[i] ELSE o[i - 1]
  BY <1>3, <1>4, <1>5, ConcatProperties, LenProperties
<1>7. PICK n : n = Len(o)
  OBVIOUS
<1>8. ASSUME NEW i \in 1..(1 + n), NEW k \in 1..(1 + n), next[i] = next[k] PROVE i = k
  <2>1. /\ (i = 1 /\ next[i] = e) \/ (i # 1 /\ i - 1 \in 1..n /\ next[i] = o[i - 1])
        /\ (k = 1 /\ next[k] = e) \/ (k # 1 /\ k - 1 \in 1..n /\ next[k] = o[k - 1])
    BY <1>5, <1>6, <1>7
  <2>2. (i # 1 /\ k # 1) => i - 1 = k - 1
    BY <1>3, <1>7, <1>8, <2>1
  <2> QED
    BY <1>3, <1>7, <1>8, <2>1, <2>2
<1>9. PICK m : m = IF Len(next) < MaxEndpoints THEN Len(next) ELSE MaxEndpoints
  OBVIOUS
<1>10. m \in 0..Len(next) /\ m <= MaxEndpoints
  BY <1>6, <1>9, LanTcpAssumption
<1>11. hints' = SubSeq(next, 1, m)
  BY <1>2, <1>4, <1>9 DEF noteLanPeerHint
<1>12. hints' \in Seq(Endpoints) /\ Len(hints') = m /\ \A i \in 1..m : hints'[i] = next[i]
  BY <1>6, <1>10, <1>11, ChunksJoin
<1>13. \A i \in 1..m : i \in 1..(1 + n)
  BY <1>6, <1>7, <1>10
<1>14. HintsFit'
  BY <1>8, <1>10, <1>12, <1>13 DEF HintsFit
<1> QED
  BY <1>1, <1>14, HintSteps

LEMMA ExpiredFit == ASSUME LanInv, HintsExpire PROVE LanInv'
<1>1. UNCHANGED <<dialing, socket, server, onInbound, listens, stale>> /\ hints' = <<>>
  BY DEF HintsExpire
<1>2. Len(<<>>) = 0 /\ 1..0 = {} /\ MaxEndpoints \in Nat /\ <<>> \in Seq(Endpoints)
  BY LanTcpAssumption, EmptySeq
<1>3. HintsFit'
  BY <1>1, <1>2 DEF HintsFit
<1> QED
  BY <1>1, <1>3, HintSteps

LEMMA DialStarts == ASSUME LanInv, dialLanTcp PROVE LanInv'
<1>1. LanTyped /\ HintsFit /\ DialsFit /\ SocketsFit /\ ServerFits
  BY DEF LanInv
<1>2. /\ dialing' = Append(dialing, [st |-> "next", left |-> hints, on |-> 0])
      /\ UNCHANGED <<hints, socket, server, onInbound, listens, stale>>
  BY DEF dialLanTcp
<1>3. PICK x : x = [st |-> "next", left |-> hints, on |-> 0]
  OBVIOUS
<1>4. x \in DialSet /\ x.st = "next"
  BY <1>1, <1>3 DEF DialSet, HintsFit
<1>5. dialing \in Seq(DialSet) /\ dialing' = Append(dialing, x)
  BY <1>1, <1>2, <1>3 DEF LanTyped
<1>6. PICK n : n = Len(dialing)
  OBVIOUS
<1>7. /\ n \in Nat /\ dialing' \in Seq(DialSet) /\ Len(dialing') = n + 1
      /\ \A i \in 1..n : dialing'[i] = dialing[i]
      /\ dialing'[n + 1] = x
  BY <1>4, <1>5, <1>6, AppendProperties, LenProperties
<1>8. LanTyped'
  BY <1>1, <1>2, <1>7 DEF LanTyped
<1>9. HintsFit'
  BY <1>1, <1>2 DEF HintsFit
<1>10. DialsFit'
  <2>1. ASSUME NEW i \in 1..Len(dialing') PROVE TcpDialFits(dialing'[i], Len(socket))
    <3>1. i \in 1..n \/ i = n + 1
      BY <1>7
    <3>2. TcpDialFits(x, Len(socket))
      BY <1>4 DEF TcpDialFits
    <3> QED
      BY <1>1, <1>6, <1>7, <3>1, <3>2 DEF DialsFit
  <2> QED
    BY <1>2, <2>1 DEF DialsFit, TcpDialFits
<1>11. SocketsFit'
  <2>1. Taker' = Taker
    BY <1>2 DEF Taker, ListenStopped
  <2>2. ASSUME NEW s \in 1..Len(socket), socket[s].dialer # "gone" PROVE Used(s)'
    <3>1. PICK i \in 1..Len(dialing) : Uses(dialing[i], s)
      BY <1>1, <2>2 DEF SocketsFit, Used
    <3>2. i \in 1..Len(dialing') /\ dialing'[i] = dialing[i]
      BY <1>6, <1>7
    <3> QED
      BY <3>1, <3>2 DEF Used, Uses
  <2> QED
    BY <1>1, <1>2, <2>1, <2>2 DEF SocketsFit, StreamFits, OwnerFits
<1>12. ServerFits'
  BY <1>1, <1>2 DEF ServerFits
<1> QED
  BY <1>8, <1>9, <1>10, <1>11, <1>12 DEF LanInv

LEMMA DialConnects == ASSUME LanInv, NEW d \in DOMAIN dialing, connectTcp(d) PROVE LanInv'
<1>1. LanTyped /\ HintsFit /\ DialsFit /\ SocketsFit /\ ServerFits
  BY DEF LanInv
<1>2. /\ Len(dialing) \in Nat /\ DOMAIN dialing = 1..Len(dialing) /\ \A i \in 1..Len(dialing) : dialing[i] \in DialSet
      /\ Len(socket) \in Nat
  BY <1>1, LanElements
<1>3. PICK y : y = dialing[d]
  OBVIOUS
<1>4. y \in DialSet /\ y.st = "next" /\ y.left # <<>> /\ y.left \in Seq(Endpoints)
  BY <1>2, <1>3, RecordsAre DEF connectTcp
<1>5. PICK q : q = [to |-> Head(y.left), dialer |-> "connecting", acceptor |-> "none", wire |-> <<>>,
                    buffered |-> <<>>, delivered |-> <<>>, authSent |-> FALSE, ready |-> FALSE, owned |-> FALSE]
  OBVIOUS
<1>6. PICK x : x = [st |-> "dials", left |-> Tail(y.left), on |-> Len(socket) + 1]
  OBVIOUS
<1>7. socket' = Append(socket, q) /\ dialing' = [dialing EXCEPT ![d] = x]
      /\ UNCHANGED <<hints, server, onInbound, listens, stale>>
  BY <1>3, <1>5, <1>6 DEF connectTcp
<1>8. x \in DialSet /\ x.st = "dials" /\ x.on = Len(socket) + 1
  <2>1. Tail(y.left) \in Seq(Endpoints)
    BY <1>4, HeadTailProperties
  <2> QED
    BY <1>2, <1>6, <2>1 DEF DialSet
<1>9. /\ q \in SocketSet /\ q.dialer = "connecting" /\ q.acceptor = "none" /\ q.buffered = <<>> /\ q.delivered = <<>>
      /\ q.authSent = FALSE
  <2>1. Head(y.left) \in Endpoints
    BY <1>4, HeadTailProperties
  <2>2. <<>> \in Seq(Byte) /\ <<>> \in Seq(Seq(Byte))
    BY EmptySeq
  <2> QED
    BY <1>5, <2>1, <2>2 DEF SocketSet
<1>10. PICK n : n = Len(socket)
  OBVIOUS
<1>11. /\ n = Len(socket) /\ n \in Nat /\ socket' \in Seq(SocketSet) /\ Len(socket') = n + 1
       /\ \A i \in 1..n : socket'[i] = socket[i]
       /\ socket'[n + 1] = q
  BY <1>1, <1>7, <1>9, <1>10, AppendProperties, LenProperties DEF LanTyped
<1>12. /\ dialing' \in Seq(DialSet) /\ Len(dialing') = Len(dialing) /\ dialing'[d] = x
       /\ \A i \in 1..Len(dialing) : i # d => dialing'[i] = dialing[i]
  BY <1>1, <1>2, <1>7, <1>8, ExceptSeq DEF LanTyped
<1>13. LanTyped'
  BY <1>1, <1>7, <1>11, <1>12 DEF LanTyped
<1>14. HintsFit'
  BY <1>1, <1>7 DEF HintsFit
<1>15. DialsFit'
  <2>1. ASSUME NEW i \in 1..Len(dialing') PROVE TcpDialFits(dialing'[i], n + 1)
    <3>1. CASE i = d
      BY <1>8, <1>11, <1>12, <3>1 DEF TcpDialFits
    <3>2. CASE i # d
      <4>1. i \in 1..Len(dialing) /\ dialing'[i] = dialing[i] /\ TcpDialFits(dialing[i], n)
        BY <1>1, <1>11, <1>12, <3>2 DEF DialsFit
      <4>2. 1..n \subseteq 1..(n + 1)
        BY <1>11
      <4> QED
        BY <4>1, <4>2 DEF TcpDialFits
    <3> QED
      BY <3>1, <3>2
  <2> QED
    BY <1>11, <2>1 DEF DialsFit, TcpDialFits
<1>16. SocketsFit'
  <2>1. Taker' = Taker
    BY <1>7 DEF Taker, ListenStopped
  <2>2. ASSUME NEW s \in 1..n
        PROVE  /\ StreamFits(socket'[s]) /\ OwnerFits(socket'[s], Taker)
               /\ socket'[s].dialer # "gone" => \E i \in 1..Len(dialing') : Uses(dialing'[i], s)
    <3>1. /\ socket'[s] = socket[s] /\ StreamFits(socket[s]) /\ OwnerFits(socket[s], Taker)
          /\ (socket[s].dialer # "gone" => Used(s))
      BY <1>1, <1>11 DEF SocketsFit
    <3>2. ASSUME socket[s].dialer # "gone" PROVE \E i \in 1..Len(dialing') : Uses(dialing'[i], s)
      <4>1. PICK i \in 1..Len(dialing) : Uses(dialing[i], s)
        BY <3>1, <3>2 DEF Used
      <4>2. i # d
        BY <1>3, <1>4, <4>1 DEF Uses
      <4> QED
        BY <1>12, <4>1, <4>2
    <3> QED
      BY <3>1, <3>2
  <2>3. /\ StreamFits(q) /\ OwnerFits(q, Taker) /\ \E i \in 1..Len(dialing') : Uses(dialing'[i], n + 1)
    <3>1. StreamFits(q)
      <4>1. Bodies(q.delivered, 0)
        <5>1. Len(<<>>) = 0 /\ <<>> \in Seq(Seq(Byte)) /\ 1..0 = {}
          BY EmptySeq
        <5> QED
          BY <1>9, <5>1 DEF Bodies
      <4> QED
        BY <1>9, <4>1 DEF StreamFits
    <3>2. OwnerFits(q, Taker)
      BY <1>9 DEF OwnerFits
    <3>3. Uses(dialing'[d], n + 1)
      BY <1>8, <1>11, <1>12 DEF Uses
    <3> QED
      BY <1>2, <1>12, <3>1, <3>2, <3>3
  <2>4. ASSUME NEW s \in 1..(n + 1) PROVE s \in 1..n \/ s = n + 1
    BY <1>11
  <2>5. ASSUME NEW s \in 1..(n + 1)
        PROVE  /\ StreamFits(socket'[s]) /\ OwnerFits(socket'[s], Taker')
               /\ socket'[s].dialer # "gone" => \E i \in 1..Len(dialing') : Uses(dialing'[i], s)
    BY <1>11, <2>1, <2>2, <2>3, <2>4
  <2> QED
    BY <1>11, <2>5 DEF SocketsFit, StreamFits, OwnerFits, Used, Uses
<1>17. ServerFits'
  BY <1>1, <1>7 DEF ServerFits
<1> QED
  BY <1>13, <1>14, <1>15, <1>16, <1>17 DEF LanInv

\* The other steps of a dial.
LEMMA DialMoves ==
  ASSUME LanInv, NEW d \in DOMAIN dialing, DialerReady(d) \/ NextHint(d) \/ DialFails(d)
  PROVE  LanInv'
<1>1. LanTyped /\ DialsFit
  BY DEF LanInv
<1>2. d \in 1..Len(dialing) /\ \A i \in 1..Len(dialing) : dialing[i] \in DialSet
  BY <1>1, LanElements
<1>3. PICK y : y = dialing[d]
  OBVIOUS
<1>4. y \in DialSet /\ TcpDialFits(y, Len(socket)) /\ y = [st |-> y.st, left |-> y.left, on |-> y.on]
  BY <1>1, <1>2, <1>3, RecordsAre DEF DialsFit
<1>a. y.left \in Seq(Endpoints) /\ y.on \in Nat
  BY <1>4, RecordsAre
<1>5. CASE DialerReady(d)
  <2>1. PICK x : x = [st |-> "linked", left |-> y.left, on |-> y.on]
    OBVIOUS
  <2>a. [y EXCEPT !.st = "linked"] = x
    BY <1>4, <2>1
  <2>b. dialing' = [dialing EXCEPT ![d].st = "linked"]
    BY <1>5 DEF DialerReady
  <2>c. dialing' = [dialing EXCEPT ![d] = x]
    BY <1>3, <2>a, <2>b
  <2>d. UNCHANGED <<hints, socket, server, onInbound, listens, stale>> /\ y.st = "dials"
    BY <1>3, <1>5 DEF DialerReady
  <2>2. /\ y.st = "dials" /\ dialing' = [dialing EXCEPT ![d] = x]
        /\ UNCHANGED <<hints, socket, server, onInbound, listens, stale>>
    BY <2>c, <2>d
  <2>3. x \in DialSet /\ x.st = "linked" /\ x.on = y.on
    BY <1>a, <2>1 DEF DialSet
  <2>4. TcpDialFits(x, Len(socket)) /\ \A s : Uses(y, s) => Uses(x, s)
    BY <1>4, <2>2, <2>3 DEF TcpDialFits, Uses
  <2> QED
    BY <1>2, <1>3, <2>2, <2>3, <2>4, DialSteps
<1>6. CASE NextHint(d)
  <2>1. PICK x : x = [st |-> "next", left |-> y.left, on |-> y.on]
    OBVIOUS
  <2>a. [y EXCEPT !.st = "next"] = x
    BY <1>4, <2>1
  <2>b. dialing' = [dialing EXCEPT ![d].st = "next"]
    BY <1>6 DEF NextHint
  <2>c. dialing' = [dialing EXCEPT ![d] = x]
    BY <1>3, <2>a, <2>b
  <2>d. UNCHANGED <<hints, socket, server, onInbound, listens, stale>> /\ y.st = "dials" /\ socket[y.on].dialer = "gone"
    BY <1>3, <1>6 DEF NextHint
  <2>2. /\ y.st = "dials" /\ socket[y.on].dialer = "gone" /\ dialing' = [dialing EXCEPT ![d] = x]
        /\ UNCHANGED <<hints, socket, server, onInbound, listens, stale>>
    BY <2>c, <2>d
  <2>3. x \in DialSet /\ x.st = "next"
    BY <1>a, <2>1 DEF DialSet
  <2>4. TcpDialFits(x, Len(socket)) /\ \A s : socket[s].dialer # "gone" /\ Uses(y, s) => Uses(x, s)
    BY <2>2, <2>3 DEF TcpDialFits, Uses
  <2> QED
    BY <1>2, <1>3, <2>2, <2>3, <2>4, DialSteps
<1>7. CASE DialFails(d)
  <2>1. PICK x : x = [st |-> "failed", left |-> y.left, on |-> y.on]
    OBVIOUS
  <2>a. [y EXCEPT !.st = "failed"] = x
    BY <1>4, <2>1
  <2>b. dialing' = [dialing EXCEPT ![d].st = "failed"]
    BY <1>7 DEF DialFails
  <2>c. dialing' = [dialing EXCEPT ![d] = x]
    BY <1>3, <2>a, <2>b
  <2>d. UNCHANGED <<hints, socket, server, onInbound, listens, stale>> /\ y.st = "next" /\ y.left = <<>>
    BY <1>3, <1>7 DEF DialFails
  <2>2. /\ y.st = "next" /\ y.left = <<>> /\ dialing' = [dialing EXCEPT ![d] = x]
        /\ UNCHANGED <<hints, socket, server, onInbound, listens, stale>>
    BY <2>c, <2>d
  <2>3. x \in DialSet /\ x.st = "failed" /\ x.left = <<>>
    BY <1>a, <2>1, <2>2 DEF DialSet
  <2>4. TcpDialFits(x, Len(socket)) /\ \A s : Uses(y, s) => Uses(x, s)
    BY <2>2, <2>3 DEF TcpDialFits, Uses
  <2> QED
    BY <1>2, <1>3, <2>2, <2>3, <2>4, DialSteps
<1> QED
  BY <1>5, <1>6, <1>7

-----------------------------------------------------------------------------

\* The same bytes in a socket whose ends go no further back.
SameBytes(p, q) ==
  q.delivered = p.delivered /\ q.buffered = p.buffered /\ q.wire = p.wire /\ q.authSent = p.authSent
OnlyEnds(p, q) ==
  /\ q.acceptor = p.acceptor \/ q.acceptor = "gone" \/ (p.acceptor = "queued" /\ q.acceptor = "accepted")
  /\ q.dialer = p.dialer \/ q.dialer = "gone"

LEMMA StreamKept ==
  ASSUME NEW p, NEW q, StreamFits(p), SameBytes(p, q), OnlyEnds(p, q), (q.dialer = "connecting" => q.acceptor = "none")
  PROVE  StreamFits(q)
<1>1. PICK k \in 0..3 :
        /\ Bodies(p.delivered, k) /\ (k = 3 => p.authSent)
        /\ p.acceptor \in {"queued", "accepted", "pipe"} => p.buffered \o p.wire = Ahead(k, p.authSent)
  BY DEF StreamFits
<1>2. Bodies(q.delivered, k) /\ (k = 3 => q.authSent)
  BY <1>1 DEF SameBytes
<1>3. q.acceptor \in {"queued", "accepted", "pipe"} => p.acceptor \in {"queued", "accepted", "pipe"}
  BY DEF OnlyEnds
<1>4. q.acceptor \in {"queued", "accepted", "pipe"} => q.buffered \o q.wire = Ahead(k, q.authSent)
  BY <1>1, <1>3 DEF SameBytes
<1>5. q.acceptor = "none" => p.acceptor = "none"
  BY DEF OnlyEnds
<1>6. q.acceptor = "none" => q.buffered = <<>> /\ q.delivered = <<>> /\ ~q.authSent
  BY <1>5 DEF SameBytes, StreamFits
<1> QED
  BY <1>2, <1>4, <1>6 DEF StreamFits

\* The steps of a socket that move no bytes.
LEMMA EndsMove ==
  ASSUME LanInv, NEW s \in 1..Len(socket), NEW q \in SocketSet, NEW p, p = socket[s], socket' = [socket EXCEPT ![s] = q],
         UNCHANGED <<hints, dialing, server, onInbound, listens, stale>>,
         SameBytes(p, q), OnlyEnds(p, q), (q.dialer = "connecting" => q.acceptor = "none"), OwnerFits(q, Taker)
  PROVE  LanInv'
<1>1. StreamFits(p)
  BY DEF LanInv, SocketsFit
<1>2. StreamFits(q)
  BY <1>1, StreamKept
<1>3. q.dialer # "gone" => p.dialer # "gone"
  BY DEF OnlyEnds
<1> QED
  BY <1>2, <1>3, SocketSteps

LEMMA SocketIs ==
  ASSUME LanInv, NEW s \in DOMAIN socket
  PROVE  /\ s \in 1..Len(socket) /\ socket[s] \in SocketSet /\ StreamFits(socket[s]) /\ OwnerFits(socket[s], Taker)
         /\ socket[s].dialer # "gone" => Used(s)
BY LanElements DEF LanInv, SocketsFit

\* Ends that are gone.
GoneOr(u, x) == u = "gone" \/ u = x
EndsFit(p, q) ==
  /\ q \in SocketSet /\ SameBytes(p, q) /\ OnlyEnds(p, q) /\ (q.dialer = "connecting" => q.acceptor = "none")
  /\ OwnerFits(q, Taker)
WithEnds(p, u, a) == [p EXCEPT !.dialer = u, !.acceptor = a]

LEMMA EndsGone ==
  ASSUME NEW p \in SocketSet, NEW u, NEW a, GoneOr(u, p.dialer), GoneOr(a, p.acceptor),
         StreamFits(p), OwnerFits(p, Taker), (u = "connecting" => a = "none")
  PROVE  EndsFit(p, WithEnds(p, u, a))
<1>0. PICK q : q = [p EXCEPT !.dialer = u, !.acceptor = a]
  OBVIOUS
<1>1. u \in {"connecting", "open", "gone"} /\ a \in {"none", "queued", "accepted", "pipe", "gone"}
  BY RecordsAre DEF GoneOr
<1>2. q \in SocketSet
  BY <1>0, <1>1 DEF SocketSet
<1>3. /\ q.dialer = u /\ q.acceptor = a /\ q.owned = p.owned
      /\ q.delivered = p.delivered /\ q.buffered = p.buffered /\ q.wire = p.wire /\ q.authSent = p.authSent
  BY <1>0 DEF SocketSet
<1>4. SameBytes(p, q) /\ OnlyEnds(p, q)
  BY <1>3 DEF SameBytes, OnlyEnds, GoneOr
<1>5. OwnerFits(q, Taker)
  BY <1>3 DEF OwnerFits, GoneOr
<1> QED
  BY <1>0, <1>2, <1>3, <1>4, <1>5 DEF EndsFit, WithEnds

LEMMA DialRefused == ASSUME LanInv, NEW d \in DOMAIN dialing, ConnectRefused(d) PROVE LanInv'
<1>1. PICK s : s = dialing[d].on
  OBVIOUS
<1>2. s \in 1..Len(socket)
  BY <1>1, LanElements DEF LanInv, DialsFit, TcpDialFits, ConnectRefused
<1>3. PICK p, q : p = socket[s] /\ q = [p EXCEPT !.dialer = "gone", !.acceptor = p.acceptor]
  OBVIOUS
<1>4. p \in SocketSet /\ StreamFits(p) /\ OwnerFits(p, Taker)
  BY <1>2, <1>3, SocketIs, LanElements DEF LanInv
<1>5. EndsFit(p, q)
  <2>1. GoneOr("gone", p.dialer) /\ GoneOr(p.acceptor, p.acceptor)
    BY DEF GoneOr
  <2>2. "gone" = "connecting" => p.acceptor = "none"
    OBVIOUS
  <2>3. EndsFit(p, WithEnds(p, "gone", p.acceptor))
    BY <1>4, <2>1, <2>2, EndsGone
  <2> QED
    BY <1>3, <2>3 DEF WithEnds
<1>6. q = [p EXCEPT !.dialer = "gone"]
  BY <1>3, <1>4 DEF SocketSet
<1>7. socket' = [socket EXCEPT ![s].dialer = "gone"] /\ UNCHANGED <<hints, dialing, server, onInbound, listens, stale>>
  BY <1>1 DEF ConnectRefused
<1>8. socket' = [socket EXCEPT ![s] = q]
  BY <1>3, <1>6, <1>7
<1> QED
  BY <1>2, <1>3, <1>5, <1>7, <1>8, EndsMove DEF EndsFit

LEMMA EndsClose ==
  ASSUME LanInv, NEW s \in DOMAIN socket, DialerCloses(s) \/ AcceptorCloses(s) \/ CloseIsSeen(s)
  PROVE  LanInv'
<1>1. PICK p : p = socket[s]
  OBVIOUS
<1>2. s \in 1..Len(socket) /\ p \in SocketSet /\ StreamFits(p) /\ OwnerFits(p, Taker)
  BY <1>1, SocketIs
<1>3. CASE DialerCloses(s)
  <2>1. PICK q : q = [p EXCEPT !.dialer = "gone", !.acceptor = p.acceptor]
    OBVIOUS
  <2>2. EndsFit(p, q)
    <3>1. GoneOr("gone", p.dialer) /\ GoneOr(p.acceptor, p.acceptor)
      BY DEF GoneOr
    <3>2. "gone" = "connecting" => p.acceptor = "none"
      OBVIOUS
    <3>3. EndsFit(p, WithEnds(p, "gone", p.acceptor))
      BY <1>2, <3>1, <3>2, EndsGone
    <3> QED
      BY <2>1, <3>3 DEF WithEnds
  <2>3. q = [p EXCEPT !.dialer = "gone"]
    BY <1>2, <2>1 DEF SocketSet
  <2>4. socket' = [socket EXCEPT ![s].dialer = "gone"] /\ UNCHANGED <<hints, dialing, server, onInbound, listens, stale>>
    BY <1>3 DEF DialerCloses
  <2>5. socket' = [socket EXCEPT ![s] = q]
    BY <1>1, <2>3, <2>4
  <2> QED
    BY <1>1, <1>2, <2>2, <2>4, <2>5, EndsMove DEF EndsFit
<1>4. CASE AcceptorCloses(s)
  <2>1. PICK q : q = [p EXCEPT !.dialer = p.dialer, !.acceptor = "gone"]
    OBVIOUS
  <2>a. p.dialer # "connecting"
    BY <1>1, <1>2, <1>4 DEF AcceptorCloses, StreamFits
  <2>2. EndsFit(p, q)
    <3>1. GoneOr(p.dialer, p.dialer) /\ GoneOr("gone", p.acceptor)
      BY DEF GoneOr
    <3>2. p.dialer = "connecting" => "gone" = "none"
      BY <2>a
    <3>3. EndsFit(p, WithEnds(p, p.dialer, "gone"))
      BY <1>2, <3>1, <3>2, EndsGone
    <3> QED
      BY <2>1, <3>3 DEF WithEnds
  <2>3. q = [p EXCEPT !.acceptor = "gone"]
    BY <1>2, <2>1 DEF SocketSet
  <2>4. socket' = [socket EXCEPT ![s].acceptor = "gone"] /\ UNCHANGED <<hints, dialing, server, onInbound, listens, stale>>
    BY <1>4 DEF AcceptorCloses
  <2>5. socket' = [socket EXCEPT ![s] = q]
    BY <1>1, <2>3, <2>4
  <2> QED
    BY <1>1, <1>2, <2>2, <2>4, <2>5, EndsMove DEF EndsFit
<1>5. CASE CloseIsSeen(s)
  <2>1. PICK q : q = [p EXCEPT !.dialer = "gone", !.acceptor = "gone"]
    OBVIOUS
  <2>2. EndsFit(p, q)
    <3>1. GoneOr("gone", p.dialer) /\ GoneOr("gone", p.acceptor)
      BY DEF GoneOr
    <3>2. "gone" = "connecting" => "gone" = "none"
      OBVIOUS
    <3>3. EndsFit(p, WithEnds(p, "gone", "gone"))
      BY <1>2, <3>1, <3>2, EndsGone
    <3> QED
      BY <2>1, <3>3 DEF WithEnds
  <2>4. /\ socket' = [socket EXCEPT ![s].dialer = "gone", ![s].acceptor = "gone"]
        /\ UNCHANGED <<hints, dialing, server, onInbound, listens, stale>>
    BY <1>5 DEF CloseIsSeen
  <2>6. socket \in Seq(SocketSet) /\ DOMAIN socket = 1..Len(socket)
    BY LanElements DEF LanInv, LanTyped
  <2>7. [socket EXCEPT ![s].dialer = "gone", ![s].acceptor = "gone"] = [socket EXCEPT ![s] = [p EXCEPT !.dialer = "gone", !.acceptor = "gone"]]
    BY <1>1, <1>2, <2>6 DEF SocketSet
  <2>5. socket' = [socket EXCEPT ![s] = q]
    BY <2>1, <2>4, <2>7
  <2> QED
    BY <1>1, <1>2, <2>2, <2>4, <2>5, EndsMove DEF EndsFit
<1> QED
  BY <1>3, <1>4, <1>5

LEMMA AcceptMoves == ASSUME LanInv, NEW s \in DOMAIN socket, acceptConnection(s) PROVE LanInv'
<1>1. PICK p : p = socket[s]
  OBVIOUS
<1>2. s \in 1..Len(socket) /\ p \in SocketSet /\ StreamFits(p) /\ OwnerFits(p, Taker)
  BY <1>1, SocketIs
<1>3. PICK a : a = IF server.st = "listening" /\ onInbound THEN "accepted" ELSE "gone"
  OBVIOUS
<1>4. PICK q : q = [p EXCEPT !.acceptor = a]
  OBVIOUS
<1>5. p.acceptor = "queued" /\ (a = "accepted" \/ a = "gone") /\ (a = "accepted" => onInbound)
  BY <1>1, <1>3 DEF acceptConnection
<1>6. q \in SocketSet
  BY <1>2, <1>4, <1>5 DEF SocketSet
<1>7. /\ q.dialer = p.dialer /\ q.acceptor = a /\ q.owned = p.owned
      /\ q.delivered = p.delivered /\ q.buffered = p.buffered /\ q.wire = p.wire /\ q.authSent = p.authSent
  BY <1>2, <1>4 DEF SocketSet
<1>8. SameBytes(p, q) /\ OnlyEnds(p, q) /\ (q.dialer = "connecting" => q.acceptor = "none")
  BY <1>2, <1>5, <1>7 DEF SameBytes, OnlyEnds, StreamFits
<1>9. OwnerFits(q, Taker)
  BY <1>5, <1>7 DEF OwnerFits, Taker
<1>10. /\ socket' = [socket EXCEPT ![s].acceptor = IF server.st = "listening" /\ onInbound THEN "accepted" ELSE "gone"]
       /\ UNCHANGED <<hints, dialing, server, onInbound, listens, stale>>
  BY DEF acceptConnection
<1>11. socket' = [socket EXCEPT ![s] = q]
  BY <1>1, <1>3, <1>4, <1>10
<1> QED
  BY <1>1, <1>2, <1>6, <1>8, <1>9, <1>10, <1>11, EndsMove

LEMMA ReadyMoves == ASSUME LanInv, NEW s \in DOMAIN socket, AcceptorReady(s) PROVE LanInv'
<1>1. PICK p : p = socket[s]
  OBVIOUS
<1>2. s \in 1..Len(socket) /\ p \in SocketSet /\ StreamFits(p) /\ OwnerFits(p, Taker)
  BY <1>1, SocketIs
<1>4. PICK q : q = [p EXCEPT !.ready = TRUE]
  OBVIOUS
<1>6. q \in SocketSet
  BY <1>2, <1>4 DEF SocketSet
<1>7. /\ q.dialer = p.dialer /\ q.acceptor = p.acceptor /\ q.owned = p.owned
      /\ q.delivered = p.delivered /\ q.buffered = p.buffered /\ q.wire = p.wire /\ q.authSent = p.authSent
  BY <1>2, <1>4 DEF SocketSet
<1>8. SameBytes(p, q) /\ OnlyEnds(p, q) /\ (q.dialer = "connecting" => q.acceptor = "none")
  BY <1>2, <1>7 DEF SameBytes, OnlyEnds, StreamFits
<1>9. OwnerFits(q, Taker)
  BY <1>2, <1>7 DEF OwnerFits
<1>10. socket' = [socket EXCEPT ![s].ready = TRUE] /\ UNCHANGED <<hints, dialing, server, onInbound, listens, stale>>
  BY DEF AcceptorReady
<1>11. socket' = [socket EXCEPT ![s] = q]
  BY <1>1, <1>4, <1>10
<1> QED
  BY <1>1, <1>2, <1>6, <1>8, <1>9, <1>10, <1>11, EndsMove

LEMMA DialOpens == ASSUME LanInv, NEW d \in DOMAIN dialing, TcpConnects(d) PROVE LanInv'
<1>1. PICK s : s = dialing[d].on
  OBVIOUS
<1>2. s \in 1..Len(socket)
  BY <1>1, LanElements DEF LanInv, DialsFit, TcpDialFits, TcpConnects
<1>3. PICK p, w : p = socket[s] /\ w = FrameOf(1) \o FrameOf(2)
  OBVIOUS
<1>4. p \in SocketSet /\ StreamFits(p) /\ OwnerFits(p, Taker) /\ p.dialer = "connecting"
  BY <1>1, <1>2, <1>3, SocketIs, LanElements DEF LanInv, TcpConnects
<1>5. p.buffered = <<>> /\ p.delivered = <<>> /\ p.authSent = FALSE
  BY <1>4, RecordsAre DEF StreamFits
<1>6. FrameOf(1) \in Seq(Byte) /\ FrameOf(2) \in Seq(Byte)
  BY FramesAre
<1>7. w \in Seq(Byte) /\ <<>> \o w = w /\ w = Ahead(0, FALSE)
  <2>1. w \in Seq(Byte)
    BY <1>3, <1>6, ConcatProperties
  <2>2. Third(FALSE) = <<>> /\ FrameOf(2) \o <<>> = FrameOf(2)
    BY <1>6, ConcatEmptySeq DEF Third
  <2>a. ASSUME NEW auth PROVE Ahead(0, auth) = FrameOf(1) \o (FrameOf(2) \o Third(auth))
    BY DEF Ahead
  <2>3. Ahead(0, FALSE) = FrameOf(1) \o (FrameOf(2) \o Third(FALSE))
    BY <2>a
  <2>4. Ahead(0, FALSE) = w
    BY <1>3, <2>2, <2>3
  <2> QED
    BY <2>1, <2>4, ConcatEmptySeq
<1>8. PICK q : q = [p EXCEPT !.dialer = "open", !.acceptor = "queued", !.wire = w]
  OBVIOUS
<1>9. q \in SocketSet
  BY <1>4, <1>7, <1>8 DEF SocketSet
<1>10. /\ q.dialer = "open" /\ q.acceptor = "queued" /\ q.wire = w
       /\ q.delivered = p.delivered /\ q.buffered = p.buffered /\ q.authSent = p.authSent
  BY <1>4, <1>8 DEF SocketSet
<1>11. StreamFits(q)
  <2>1. Bodies(q.delivered, 0)
    <3>1. Len(<<>>) = 0 /\ <<>> \in Seq(Seq(Byte)) /\ 1..0 = {}
      BY EmptySeq
    <3> QED
      BY <1>5, <1>10, <3>1 DEF Bodies
  <2>2. q.buffered \o q.wire = Ahead(0, q.authSent)
    BY <1>5, <1>7, <1>10
  <2> QED
    BY <1>10, <2>1, <2>2 DEF StreamFits
<1>12. OwnerFits(q, Taker)
  BY <1>10 DEF OwnerFits
<1>13. /\ socket' = [socket EXCEPT ![s].dialer = "open", ![s].acceptor = "queued", ![s].wire = FrameOf(1) \o FrameOf(2)]
       /\ UNCHANGED <<hints, dialing, server, onInbound, listens, stale>>
  BY <1>1 DEF TcpConnects
<1>14. socket' = [socket EXCEPT ![s] = q]
  <2>1. socket \in Seq(SocketSet) /\ DOMAIN socket = 1..Len(socket)
    BY LanElements DEF LanInv, LanTyped
  <2>2. [socket EXCEPT ![s].dialer = "open", ![s].acceptor = "queued", ![s].wire = w]
        = [socket EXCEPT ![s] = [p EXCEPT !.dialer = "open", !.acceptor = "queued", !.wire = w]]
    BY <1>2, <1>3, <1>4, <2>1 DEF SocketSet
  <2> QED
    BY <1>3, <1>8, <1>13, <2>2
<1>15. p.dialer # "gone"
  BY <1>4
<1> QED
  BY <1>2, <1>3, <1>9, <1>11, <1>12, <1>13, <1>14, <1>15, SocketSteps

LEMMA AuthGoes == ASSUME LanInv, NEW s \in DOMAIN socket, DialerSendsAuth(s) PROVE LanInv'
<1>1. PICK p : p = socket[s]
  OBVIOUS
<1>2. s \in 1..Len(socket) /\ p \in SocketSet /\ StreamFits(p) /\ OwnerFits(p, Taker)
  BY <1>1, SocketIs
<1>3. p.dialer = "open" /\ p.acceptor = "pipe" /\ p.authSent = FALSE /\ p.wire \in Seq(Byte) /\ p.buffered \in Seq(Byte)
  BY <1>1, <1>2, RecordsAre DEF DialerSendsAuth
<1>4. PICK w : w = p.wire \o FrameOf(3)
  OBVIOUS
<1>5. FrameOf(1) \in Seq(Byte) /\ FrameOf(2) \in Seq(Byte) /\ FrameOf(3) \in Seq(Byte)
  BY FramesAre
<1>6. w \in Seq(Byte)
  BY <1>3, <1>4, <1>5, ConcatProperties
<1>7. PICK q : q = [p EXCEPT !.authSent = TRUE, !.wire = w]
  OBVIOUS
<1>8. q \in SocketSet
  BY <1>2, <1>6, <1>7 DEF SocketSet
<1>9. /\ q.dialer = p.dialer /\ q.acceptor = p.acceptor /\ q.wire = w /\ q.authSent = TRUE /\ q.owned = p.owned
      /\ q.delivered = p.delivered /\ q.buffered = p.buffered
  BY <1>2, <1>7 DEF SocketSet
<1>10. PICK k \in 0..3 : Bodies(p.delivered, k) /\ (k = 3 => p.authSent) /\ p.buffered \o p.wire = Ahead(k, p.authSent)
  BY <1>2, <1>3 DEF StreamFits
<1>11. k \in 0..2 /\ p.buffered \o p.wire = Ahead(k, FALSE)
  <2>1. k # 3 /\ p.buffered \o p.wire = Ahead(k, FALSE)
    BY <1>3, <1>10, Zenon
  <2>2. k \in 0..2
    BY <2>1
  <2> QED
    BY <2>1, <2>2
<1>12. Ahead(k, FALSE) \o FrameOf(3) = Ahead(k, TRUE)
  <2>1. Third(FALSE) = <<>> /\ Third(TRUE) = FrameOf(3) /\ <<>> \o FrameOf(3) = FrameOf(3) /\ FrameOf(2) \o <<>> = FrameOf(2)
    BY <1>5, ConcatEmptySeq DEF Third
  <2>2. FrameOf(1) \o (FrameOf(2) \o FrameOf(3)) = (FrameOf(1) \o FrameOf(2)) \o FrameOf(3)
    BY <1>5, ConcatAssociative
  <2>3. k = 0 \/ k = 1 \/ k = 2
    BY <1>11
  <2>4. ASSUME NEW auth
        PROVE  /\ Ahead(0, auth) = FrameOf(1) \o (FrameOf(2) \o Third(auth))
               /\ Ahead(1, auth) = FrameOf(2) \o Third(auth) /\ Ahead(2, auth) = Third(auth)
    BY DEF Ahead
  <2>5. Ahead(0, FALSE) \o FrameOf(3) = Ahead(0, TRUE)
    BY <2>1, <2>2, <2>4
  <2>6. Ahead(1, FALSE) \o FrameOf(3) = Ahead(1, TRUE) /\ Ahead(2, FALSE) \o FrameOf(3) = Ahead(2, TRUE)
    BY <2>1, <2>4
  <2> QED
    BY <2>3, <2>5, <2>6
<1>13. q.buffered \o q.wire = Ahead(k, q.authSent)
  <2>1. p.buffered \o (p.wire \o FrameOf(3)) = (p.buffered \o p.wire) \o FrameOf(3)
    <3>1. PICK x, y, z : x = p.buffered /\ y = p.wire /\ z = FrameOf(3)
      OBVIOUS
    <3>2. x \in Seq(Byte) /\ y \in Seq(Byte) /\ z \in Seq(Byte)
      BY <1>3, <1>5, <3>1
    <3>3. (x \o y) \o z = x \o (y \o z)
      BY <3>2, ConcatAssociative
    <3> QED
      BY <3>1, <3>3
  <2> QED
    BY <1>4, <1>9, <1>11, <1>12, <2>1
<1>14. StreamFits(q)
  BY <1>3, <1>9, <1>10, <1>13 DEF StreamFits
<1>15. OwnerFits(q, Taker)
  BY <1>2, <1>9 DEF OwnerFits
<1>16. /\ socket' = [socket EXCEPT ![s].authSent = TRUE, ![s].wire = socket[s].wire \o FrameOf(3)]
       /\ UNCHANGED <<hints, dialing, server, onInbound, listens, stale>>
  BY DEF DialerSendsAuth
<1>17. socket' = [socket EXCEPT ![s] = q]
  <2>1. socket \in Seq(SocketSet) /\ DOMAIN socket = 1..Len(socket)
    BY LanElements DEF LanInv, LanTyped
  <2>2. [socket EXCEPT ![s].authSent = TRUE, ![s].wire = w] = [socket EXCEPT ![s] = [p EXCEPT !.authSent = TRUE, !.wire = w]]
    BY <1>1, <1>2, <2>1 DEF SocketSet
  <2> QED
    BY <1>1, <1>4, <1>7, <1>16, <2>2
<1>18. q.dialer # "gone" => socket[s].dialer # "gone"
  BY <1>1, <1>9
<1> QED
  BY <1>2, <1>8, <1>14, <1>15, <1>16, <1>17, <1>18, SocketSteps

LEMMA DataMoves == ASSUME LanInv, NEW s \in DOMAIN socket, NEW n \in 1..Len(socket[s].wire), DataArrives(s, n) PROVE LanInv'
<1>1. PICK p : p = socket[s]
  OBVIOUS
<1>2. s \in 1..Len(socket) /\ p \in SocketSet /\ StreamFits(p) /\ OwnerFits(p, Taker)
  BY <1>1, SocketIs
<1>3. /\ p.acceptor \in {"accepted", "pipe"} /\ p.wire \in Seq(Byte) /\ p.buffered \in Seq(Byte) /\ p.delivered \in Seq(Seq(Byte))
      /\ p.authSent \in BOOLEAN /\ p.owned \in BOOLEAN /\ p.dialer # "connecting"
  BY <1>1, <1>2, RecordsAre DEF DataArrives, StreamFits
<1>4. PICK chunk, rest : chunk = SubSeq(p.wire, 1, n) /\ rest = SubSeq(p.wire, n + 1, Len(p.wire))
  OBVIOUS
<1>5. n \in 0..Len(p.wire)
  BY <1>1, <1>3, LenProperties
<1>6. chunk \in Seq(Byte) /\ rest \in Seq(Byte) /\ chunk \o rest = p.wire
  BY <1>3, <1>4, <1>5, ChunksJoin
<1>7. PICK bytes : bytes = p.buffered \o chunk
  OBVIOUS
<1>8. bytes \in Seq(Byte) /\ Len(bytes) \in Nat
  BY <1>3, <1>6, <1>7, ConcatProperties, LenProperties
<1>9. bytes \o rest = p.buffered \o p.wire
  <2>0. PICK x, y, z : x = p.buffered /\ y = chunk /\ z = rest
    OBVIOUS
  <2>1. x = p.buffered
    BY <2>0
  <2>a. x \in Seq(Byte) /\ y \in Seq(Byte) /\ z \in Seq(Byte)
    BY <1>3, <1>6, <2>0
  <2>b. (x \o y) \o z = x \o (y \o z)
    BY <2>a, ConcatAssociative
  <2>2. (x \o chunk) \o rest = x \o (chunk \o rest)
    BY <2>0, <2>b
  <2> QED
    BY <1>6, <1>7, <2>1, <2>2
<1>10. PICK k \in 0..3 : Bodies(p.delivered, k) /\ (k = 3 => p.authSent) /\ p.buffered \o p.wire = Ahead(k, p.authSent)
  BY <1>2, <1>3 DEF StreamFits
<1>11. CutFits([left |-> bytes, taken |-> p.delivered, st |-> "cuts"], rest, p.authSent)
  <2>1. PICK c : c = [left |-> bytes, taken |-> p.delivered, st |-> "cuts"]
    OBVIOUS
  <2>2. c.left = bytes /\ c.taken = p.delivered /\ c = [left |-> c.left, taken |-> c.taken, st |-> c.st]
    BY <2>1
  <2>3. CutFits(c, rest, p.authSent)
    BY <1>8, <1>9, <1>10, <2>2 DEF CutFits
  <2> QED
    BY <2>1, <2>3
<1>12. PICK cut : cut = Cut(bytes, p.delivered)
  OBVIOUS
<1>13. CutFits(cut, rest, p.authSent)
  <2>1. PICK t, auth : t = p.delivered /\ auth = p.authSent
    OBVIOUS
  <2>2. auth \in BOOLEAN /\ CutFits([left |-> bytes, taken |-> t, st |-> "cuts"], rest, auth)
    BY <1>3, <1>11, <2>1
  <2>3. CutFits(Cut(bytes, t), rest, auth)
    BY <1>6, <1>8, <2>2, CutIsWhole
  <2> QED
    BY <1>12, <2>1, <2>3
<1>14. PICK j \in 0..3 :
         /\ Bodies(cut.taken, j) /\ (j = 3 => p.authSent) /\ cut.left \in Seq(Byte)
         /\ cut.st # "tooLarge" => cut.left \o rest = Ahead(j, p.authSent)
  BY <1>13 DEF CutFits
<1>15. PICK a, o :
         /\ a = IF cut.st = "tooLarge" THEN "gone"
                  ELSE IF p.acceptor = "pipe" \/ cut.taken = <<>> THEN p.acceptor
                  ELSE IF cut.taken[1] = Body(1) THEN "pipe" ELSE "gone"
         /\ o = (p.owned \/ (p.acceptor = "accepted" /\ cut.taken # <<>> /\ onInbound))
  OBVIOUS
<1>16. PICK q : q = [p EXCEPT !.wire = rest, !.buffered = cut.left, !.delivered = cut.taken, !.acceptor = a, !.owned = o]
  OBVIOUS
<1>17. /\ a = "gone" \/ a = p.acceptor \/ a = "pipe"
       /\ a # "gone" => cut.st # "tooLarge"
       /\ a = "pipe" => p.acceptor = "pipe" \/ cut.taken # <<>>
  <2>1. PICK first, pa, none : first = (cut.taken[1] = Body(1)) /\ pa = p.acceptor /\ none = (cut.taken = <<>>)
    OBVIOUS
  <2>2. a = IF cut.st = "tooLarge" THEN "gone"
              ELSE IF pa = "pipe" \/ none THEN pa
              ELSE IF first THEN "pipe" ELSE "gone"
    BY <1>15, <2>1
  <2>3. CASE cut.st = "tooLarge"
    <3>1. a = "gone"
      BY <2>2, <2>3
    <3> QED
      BY <3>1
  <2>4. CASE cut.st # "tooLarge"
    <3>1. (pa = "pipe" \/ none) => a = pa
      BY <2>2, <2>4
    <3>2. ~(pa = "pipe" \/ none) => a = IF first THEN "pipe" ELSE "gone"
      BY <2>2, <2>4
    <3> QED
      BY <1>3, <2>1, <2>4, <3>1, <3>2
  <2> QED
    BY <2>3, <2>4
<1>18. q \in SocketSet
  <2>1. a \in {"none", "queued", "accepted", "pipe", "gone"} /\ o \in BOOLEAN
    BY <1>3, <1>15, <1>17
  <2>2. cut.left \in Seq(Byte) /\ cut.taken \in Seq(Seq(Byte))
    BY <1>14 DEF Bodies
  <2> QED
    BY <1>2, <1>6, <1>16, <2>1, <2>2 DEF SocketSet
<1>19. /\ q.dialer = p.dialer /\ q.acceptor = a /\ q.wire = rest /\ q.buffered = cut.left /\ q.delivered = cut.taken
       /\ q.authSent = p.authSent /\ q.owned = o
  BY <1>2, <1>16 DEF SocketSet
<1>20. StreamFits(q)
  <2>1. Bodies(q.delivered, j) /\ (j = 3 => q.authSent)
    BY <1>14, <1>19
  <2>2. q.acceptor \in {"queued", "accepted", "pipe"} => q.buffered \o q.wire = Ahead(j, q.authSent)
    BY <1>14, <1>17, <1>19
  <2>3. q.dialer # "connecting" /\ q.acceptor # "none"
    BY <1>3, <1>17, <1>19
  <2> QED
    BY <2>1, <2>2, <2>3 DEF StreamFits
<1>21. OwnerFits(q, Taker)
  <2>1. Taker # "nobody" /\ (~onInbound => Taker = "stopped")
    BY <1>2, <1>3 DEF OwnerFits, Taker
  <2>2. (p.acceptor = "pipe" => p.owned \/ Taker = "stopped")
    BY <1>2 DEF OwnerFits
  <2>3. a = "pipe" => o \/ Taker = "stopped"
    BY <1>3, <1>15, <1>17, <2>1, <2>2
  <2> QED
    BY <1>19, <2>1, <2>3 DEF OwnerFits
<1>22. UNCHANGED <<hints, dialing, server, onInbound, listens, stale>>
  BY DEF DataArrives
<1>23. socket' = [socket EXCEPT ![s] = q]
  <2>1. socket \in Seq(SocketSet) /\ DOMAIN socket = 1..Len(socket)
    BY LanElements DEF LanInv, LanTyped
  <2>2. cut = Cut(socket[s].buffered \o SubSeq(socket[s].wire, 1, n), socket[s].delivered)
    BY <1>1, <1>4, <1>7, <1>12
  <2>3. socket' = [socket EXCEPT ![s].wire = rest, ![s].buffered = cut.left, ![s].delivered = cut.taken,
                                 ![s].acceptor = a, ![s].owned = o]
    <3>1. socket' = [socket EXCEPT
       ![s].wire = SubSeq(@, n + 1, Len(@)), ![s].buffered = cut.left, ![s].delivered = cut.taken,
       ![s].acceptor = IF cut.st = "tooLarge" THEN "gone"
                       ELSE IF @ = "pipe" \/ cut.taken = <<>> THEN @
                       ELSE IF cut.taken[1] = Body(1) THEN "pipe" ELSE "gone",
       ![s].owned = @ \/ (socket[s].acceptor = "accepted" /\ cut.taken # <<>> /\ onInbound)]
      BY <2>2, Zenon DEF DataArrives
    <3> QED
      BY <1>1, <1>2, <1>4, <1>15, <2>1, <3>1 DEF SocketSet
  <2>4. [socket EXCEPT ![s].wire = rest, ![s].buffered = cut.left, ![s].delivered = cut.taken,
                       ![s].acceptor = a, ![s].owned = o]
        = [socket EXCEPT ![s] = [p EXCEPT !.wire = rest, !.buffered = cut.left, !.delivered = cut.taken,
                                           !.acceptor = a, !.owned = o]]
    BY <1>1, <1>2, <2>1 DEF SocketSet
  <2> QED
    BY <1>16, <2>3, <2>4
<1>24. q.dialer # "gone" => socket[s].dialer # "gone"
  BY <1>1, <1>19
<1> QED
  BY <1>2, <1>18, <1>20, <1>21, <1>22, <1>23, <1>24, SocketSteps

-----------------------------------------------------------------------------

\* A step of the calls and of the server, which only ever adds stops.
LEMMA CallSteps ==
  ASSUME LanInv, LanTyped', UNCHANGED <<hints, dialing, socket>>, ServerFits',
         (ListenStopped => ListenStopped'), (onInbound => onInbound' \/ ListenStopped')
  PROVE  LanInv'
<1>1. HintsFit /\ DialsFit /\ SocketsFit
  BY DEF LanInv
<1>2. HintsFit' /\ DialsFit'
  BY <1>1 DEF HintsFit, DialsFit, TcpDialFits
<1>3. (Taker = "stopped" => Taker' = "stopped") /\ (Taker # "nobody" => Taker' # "nobody")
  BY DEF Taker
<1>4. ASSUME NEW s \in 1..Len(socket), StreamFits(socket[s]), OwnerFits(socket[s], Taker)
      PROVE  OwnerFits(socket[s], Taker')
  BY <1>3, <1>4 DEF OwnerFits
<1>5. SocketsFit'
  BY <1>1, <1>4 DEF SocketsFit, StreamFits, OwnerFits, Used, Uses
<1> QED
  BY <1>2, <1>5 DEF LanInv

LEMMA ListenFits == ASSUME LanInv, ensureListening PROVE LanInv'
<1>1. LanTyped /\ ServerFits
  BY DEF LanInv
<1>2. /\ Len(listens) \in Nat /\ listens \in Seq(ListenSet) /\ server \in ServerSet /\ onInbound \in BOOLEAN
      /\ dialing \in Seq(DialSet) /\ socket \in Seq(SocketSet) /\ stale \in BOOLEAN
  BY <1>1, LanElements DEF LanTyped
<1>3. PICK n : n = Len(listens)
  OBVIOUS
<1>4. onInbound' = TRUE /\ UNCHANGED <<hints, dialing, socket, stale>>
  BY DEF ensureListening
<1>5. PICK c : /\ c = IF server = NoServer THEN "waits" ELSE "held"
  OBVIOUS
<1>6. /\ listens' = Append(listens, c)
      /\ server' = IF server = NoServer THEN [made |-> n + 1, st |-> "opening"] ELSE server
  BY <1>3, <1>5 DEF ensureListening
<1>7. c \in ListenSet /\ (c = "waits" <=> server = NoServer) /\ (c = "held" <=> server # NoServer)
  BY <1>5 DEF ListenSet
<1>8. /\ n \in Nat /\ listens' \in Seq(ListenSet) /\ Len(listens') = n + 1
      /\ \A i \in 1..n : listens'[i] = listens[i]
      /\ listens'[n + 1] = c
  BY <1>2, <1>3, <1>6, <1>7, AppendProperties
<1>9. server' \in ServerSet /\ server' # NoServer
  <2>1. [made |-> n + 1, st |-> "opening"] \in ServerSet /\ [made |-> n + 1, st |-> "opening"] # NoServer
    BY <1>8 DEF ServerSet, NoServer
  <2> QED
    BY <1>2, <1>6, <2>1
<1>10. LanTyped'
  BY <1>2, <1>4, <1>8, <1>9 DEF LanTyped
<1>11. ServerFits'
  <2>1. server'.st = "opening" => server'.made \in 1..(n + 1) /\ listens'[server'.made] = "waits"
    <3>1. CASE server = NoServer
      <4>1. server'.made = n + 1 /\ c = "waits" /\ n + 1 \in 1..(n + 1)
        BY <1>6, <1>7, <1>8, <3>1
      <4> QED
        BY <1>8, <4>1
    <3>2. CASE server # NoServer
      <4>1. server' = server /\ (server.st = "opening" => server.made \in 1..n /\ listens[server.made] = "waits")
        BY <1>1, <1>3, <1>6, <3>2 DEF ServerFits
      <4>2. 1..n \subseteq 1..(n + 1)
        BY <1>8
      <4> QED
        BY <1>8, <4>1, <4>2
    <3> QED
      BY <3>1, <3>2
  <2> QED
    BY <1>4, <1>8, <1>9, <2>1 DEF ServerFits, NoServer
<1>12. ListenStopped => ListenStopped'
  <2> SUFFICES ASSUME ListenStopped PROVE ListenStopped'
    OBVIOUS
  <2>1. PICK k \in 1..n : listens[k] = "stopped"
    BY <1>3 DEF ListenStopped
  <2>2. k \in 1..(n + 1) /\ listens'[k] = "stopped"
    BY <1>8, <2>1
  <2> QED
    BY <1>8, <2>2 DEF ListenStopped
<1> QED
  BY <1>4, <1>10, <1>11, <1>12, CallSteps

LEMMA ServerAnswers == ASSUME LanInv, NEW ok \in BOOLEAN, ServerListens(ok) PROVE LanInv'
<1>1. LanTyped /\ ServerFits
  BY DEF LanInv
<1>2. /\ Len(listens) \in Nat /\ listens \in Seq(ListenSet) /\ server \in ServerSet /\ onInbound \in BOOLEAN
      /\ dialing \in Seq(DialSet) /\ socket \in Seq(SocketSet) /\ stale \in BOOLEAN /\ DOMAIN listens = 1..Len(listens)
  BY <1>1, LanElements DEF LanTyped
<1>3. UNCHANGED <<hints, dialing, socket, onInbound, stale>> /\ server.st = "opening"
  BY DEF ServerListens
<1>4. PICK m, v, w : /\ m = server.made /\ v = (IF ok THEN "listening" ELSE "failed")
                     /\ w = IF ok THEN "held" ELSE "threw"
  OBVIOUS
<1>5. listens' = [listens EXCEPT ![m] = w] /\ server' = [server EXCEPT !.st = v]
  BY <1>4 DEF ServerListens
<1>6. m \in 1..Len(listens) /\ listens[m] = "waits" /\ w \in ListenSet /\ w # "stopped" /\ v \in {"listening", "failed"}
  BY <1>1, <1>3, <1>4 DEF ServerFits, ListenSet
<1>7. /\ listens' \in Seq(ListenSet) /\ Len(listens') = Len(listens) /\ listens'[m] = w
      /\ \A i \in 1..Len(listens) : i # m => listens'[i] = listens[i]
  BY <1>2, <1>5, <1>6, ExceptSeq
<1>8. server' \in ServerSet /\ server'.st = v
  BY <1>2, <1>5, <1>6 DEF ServerSet
<1>9. server' # NoServer /\ server # NoServer
  BY <1>3, <1>6, <1>8 DEF NoServer
<1>10. LanTyped'
  BY <1>2, <1>3, <1>7, <1>8 DEF LanTyped
<1>11. ServerFits'
  BY <1>1, <1>3, <1>6, <1>8, <1>9 DEF ServerFits, NoServer
<1>12. ListenStopped => ListenStopped'
  BY <1>6, <1>7 DEF ListenStopped
<1> QED
  BY <1>3, <1>10, <1>11, <1>12, CallSteps

LEMMA ListenStops == ASSUME LanInv, NEW k \in DOMAIN listens, StopTcpListening(k) PROVE LanInv'
<1>1. LanTyped /\ ServerFits
  BY DEF LanInv
<1>2. /\ Len(listens) \in Nat /\ listens \in Seq(ListenSet) /\ server \in ServerSet /\ onInbound \in BOOLEAN
      /\ dialing \in Seq(DialSet) /\ socket \in Seq(SocketSet) /\ stale \in BOOLEAN /\ DOMAIN listens = 1..Len(listens)
  BY <1>1, LanElements DEF LanTyped
<1>3. /\ UNCHANGED <<hints, dialing, socket>> /\ listens[k] = "held" /\ listens' = [listens EXCEPT ![k] = "stopped"]
      /\ onInbound' = FALSE /\ server' = NoServer
      /\ stale' = (stale \/ \E j \in DOMAIN listens \ {k} : listens[j] \in {"held", "waits"})
  BY DEF StopTcpListening
<1>4. "stopped" \in ListenSet /\ k \in 1..Len(listens)
  BY <1>2 DEF ListenSet
<1>5. /\ listens' \in Seq(ListenSet) /\ Len(listens') = Len(listens) /\ listens'[k] = "stopped"
      /\ \A i \in 1..Len(listens) : i # k => listens'[i] = listens[i]
  BY <1>2, <1>3, <1>4, ExceptSeq
<1>6. server' \in ServerSet /\ server'.st = "none"
  BY <1>3 DEF ServerSet, NoServer
<1>7. stale' \in BOOLEAN
  BY <1>2, <1>3
<1>8. LanTyped'
  BY <1>2, <1>3, <1>5, <1>6, <1>7 DEF LanTyped
<1>9. ~stale' => \A j \in 1..Len(listens) : listens'[j] # "held"
  BY <1>2, <1>3, <1>5
<1>10. ServerFits'
  BY <1>3, <1>5, <1>6, <1>9 DEF ServerFits
<1>11. ListenStopped'
  BY <1>4, <1>5 DEF ListenStopped
<1> QED
  BY <1>3, <1>8, <1>10, <1>11, CallSteps

LEMMA LanSteps == LanInv /\ [NextLan]_lanVars => LanInv'
<1> SUFFICES ASSUME LanInv, [NextLan]_lanVars PROVE LanInv'
  OBVIOUS
<1>1. ASSUME NEW e \in Endpoints, noteLanPeerHint(e) PROVE LanInv'
  BY <1>1, NotedFit
<1>2. CASE HintsExpire
  BY <1>2, ExpiredFit
<1>3. CASE dialLanTcp
  BY <1>3, DialStarts
<1>4. CASE ensureListening
  BY <1>4, ListenFits
<1>5. ASSUME NEW d \in DOMAIN dialing,
             connectTcp(d) \/ ConnectRefused(d) \/ TcpConnects(d) \/ DialerReady(d) \/ NextHint(d) \/ DialFails(d)
      PROVE  LanInv'
  BY <1>5, DialConnects, DialRefused, DialOpens, DialMoves
<1>6. ASSUME NEW s \in DOMAIN socket,
             \/ DialerSendsAuth(s) \/ DialerCloses(s) \/ acceptConnection(s) \/ AcceptorReady(s)
             \/ AcceptorCloses(s) \/ CloseIsSeen(s)
      PROVE  LanInv'
  BY <1>6, AuthGoes, EndsClose, AcceptMoves, ReadyMoves
<1>7. ASSUME NEW s \in DOMAIN socket, NEW n \in 1..Len(socket[s].wire), DataArrives(s, n) PROVE LanInv'
  BY <1>7, DataMoves
<1>8. ASSUME NEW ok \in BOOLEAN, ServerListens(ok) PROVE LanInv'
  BY <1>8, ServerAnswers
<1>9. ASSUME NEW k \in DOMAIN listens, StopTcpListening(k) PROVE LanInv'
  BY <1>9, ListenStops
<1>10. CASE UNCHANGED lanVars
  <2>1. UNCHANGED <<hints, dialing, socket, server, onInbound, listens, stale>>
    BY <1>10 DEF lanVars
  <2>2. HintsFit'
    BY <2>1 DEF LanInv, HintsFit
  <2> QED
    BY <2>1, <2>2, HintSteps
<1> QED
  BY <1>1, <1>2, <1>3, <1>4, <1>5, <1>6, <1>7, <1>8, <1>9, <1>10, Zenon DEF NextLan

\* Over TCP in a local network, what is delivered are the frames that were written, whole and
\* in order however the stream is cut, no socket outlives its dial, a dial fails when every
\* hint was tried, and what is accepted has an owner unless it was stopped.
THEOREM LanSound == SpecLan => [](LanTypeOK /\ LanIsSound)
<1>1. SpecLan => []LanInv
  BY LanStarts, LanSteps, PTL DEF SpecLan
<1> QED
  BY <1>1, LanInvIsSound, PTL

-----------------------------------------------------------------------------
(* Bluetooth links that share one characteristic. *)

GattMessage == [op : {"open", "hello", "auth"}, by : Nat, node : Nat, link : Nat, to : Nat]
PendingSet == {<<>>} \cup {<<a>> : a \in GattMessage}
GattPipe ==
  [st : {"new", "opens", "shakes", "ready", "closed"}, heard : [by : Nat, node : Nat],
   authSent : BOOLEAN, pendingAuth : PendingSet, blamed : BOOLEAN]
GattCentral == [pipe : GattPipe, up : BOOLEAN]
Inbound == [pipe : GattPipe, link : GattDials]

\* A message of a session; its auth answers the hello of its own dial, unless others wrote.
FromSession(m) ==
  /\ m.by \in 1..Len(gattSession) /\ m.node = 0 /\ m.link = gattSession[m.by].link
  /\ m.op \in {"hello", "auth"}
  /\ m.op = "auth" => /\ gattSession[m.by].pipe.authSent
                      /\ m.to = m.link \/ m.by \in mixed.sessions

\* A message of a dial; its auth answers the hello of its own session, unless others notified.
FromDial(m) ==
  /\ m.by \in GattDials /\ m.node = m.by /\ m.link = m.by
  /\ m.op = "auth" => /\ central[m.by].pipe.authSent
                      /\ \/ m.to \in 1..Len(gattSession) /\ gattSession[m.to].link = m.by
                         \/ m.by \in mixed.dials

Accepted(d) == \E s \in 1..Len(gattSession) : gattSession[s].link = d

GattShape ==
  /\ central \in [GattDials -> GattCentral]
  /\ gattSession \in Seq(Inbound)
  /\ activeInbound \in 0..Len(gattSession)
  /\ sessionInbound = activeInbound /\ (acceptInflight <=> activeInbound # 0)
  /\ writes \in [GattDials -> Seq(GattMessage)] /\ notifies \in [GattDials -> Seq(GattMessage)]
  /\ mixed \in [dials : SUBSET GattDials, sessions : SUBSET Nat]

\* Of a dial: nothing is under way unless it is connected, what its pipe keeps is of sessions,
\* and of its own session while nothing else came.
DialFits(d) ==
  LET pipe == central[d].pipe IN
  /\ pipe.st = "new" => ~pipe.authSent /\ ~Accepted(d)
  /\ central[d].up => pipe.st \notin {"new", "closed"}
  /\ ~central[d].up => writes[d] = <<>> /\ notifies[d] = <<>>
  /\ pipe.st = "ready" =>
       \E s \in 1..Len(gattSession) : gattSession[s].link = d /\ gattSession[s].pipe.authSent
  /\ pipe.pendingAuth # <<>> => pipe.pendingAuth[1].op = "auth" /\ FromSession(pipe.pendingAuth[1])
  /\ d \notin mixed.dials =>
       /\ pipe.heard # NoHello => /\ pipe.heard.by \in 1..Len(gattSession) /\ pipe.heard.node = 0
                                  /\ gattSession[pipe.heard.by].link = d
       /\ pipe.pendingAuth # <<>> => pipe.pendingAuth[1].link = d
  /\ pipe.blamed => pipe.st = "closed" /\ (d \in mixed.dials \/ pipe.heard.by \in mixed.sessions)

\* Of a session: the open one is the active one, and the same of what its pipe keeps.
SessionFits(s) ==
  LET pipe == gattSession[s].pipe
      link == gattSession[s].link
  IN
  /\ pipe.st \in {"shakes", "ready", "closed"} /\ (pipe.st # "closed" <=> activeInbound = s)
  /\ pipe.st = "ready" => central[link].pipe.authSent
  /\ pipe.pendingAuth # <<>> => pipe.pendingAuth[1].op = "auth" /\ FromDial(pipe.pendingAuth[1])
  /\ s \notin mixed.sessions =>
       /\ pipe.heard # NoHello => pipe.heard.by = link /\ pipe.heard.node = link
       /\ pipe.pendingAuth # <<>> => pipe.pendingAuth[1].link = link
  /\ pipe.blamed => pipe.st = "closed" /\ (s \in mixed.sessions \/ link \in mixed.dials)

LinksDiffer ==
  \A s, t \in 1..Len(gattSession) : gattSession[s].link = gattSession[t].link => s = t

\* link-open is the first that a dial writes, and it is accepted once.
WritesFit(d) ==
  \A i \in 1..Len(writes[d]) :
    /\ FromDial(writes[d][i]) /\ writes[d][i].by = d
    /\ writes[d][i].op = "open" => i = 1 /\ ~Accepted(d)

NotifiesFit(d) == \A i \in 1..Len(notifies[d]) : FromSession(notifies[d][i])

GattInv ==
  /\ GattShape /\ LinksDiffer
  /\ \A d \in GattDials : DialFits(d) /\ WritesFit(d) /\ NotifiesFit(d)
  /\ \A s \in 1..Len(gattSession) : SessionFits(s)

LEMMA GattInitial == InitGatt => GattInv
<1> SUFFICES ASSUME InitGatt PROVE GattInv
  OBVIOUS
<1>1. gattSession = <<>> /\ Len(gattSession) = 0 /\ gattSession \in Seq(Inbound)
  BY DEF InitGatt
<1>2. NewGattPipe("new") \in GattPipe
  BY DEF NewGattPipe, NoHello, GattPipe, PendingSet
<1>3. \A d \in GattDials : central[d] = NewCentral /\ writes[d] = <<>> /\ notifies[d] = <<>>
  BY DEF InitGatt
<1>4. NewCentral.pipe = NewGattPipe("new") /\ NewCentral.up = FALSE
      /\ NewCentral \in GattCentral
  BY <1>2 DEF NewCentral, GattCentral
<1>5. GattShape
  <2>1. central \in [GattDials -> GattCentral]
    BY <1>4 DEF InitGatt
  <2>2. writes \in [GattDials -> Seq(GattMessage)] /\ notifies \in [GattDials -> Seq(GattMessage)]
    BY DEF InitGatt
  <2>3. mixed \in [dials : SUBSET GattDials, sessions : SUBSET Nat]
    BY DEF InitGatt
  <2>4. activeInbound \in 0..Len(gattSession) /\ sessionInbound = activeInbound
        /\ (acceptInflight <=> activeInbound # 0)
    BY <1>1 DEF InitGatt
  <2> QED
    BY <1>1, <2>1, <2>2, <2>3, <2>4 DEF GattShape
<1>6. ASSUME NEW d \in GattDials PROVE DialFits(d) /\ WritesFit(d) /\ NotifiesFit(d)
  <2>1. central[d].pipe = [st |-> "new", heard |-> NoHello, authSent |-> FALSE, pendingAuth |-> <<>>, blamed |-> FALSE]
        /\ central[d].up = FALSE
    BY <1>3, <1>4 DEF NewGattPipe
  <2>2. DialFits(d)
    BY <1>1, <1>3, <2>1 DEF DialFits, Accepted
  <2>3. Len(writes[d]) = 0 /\ Len(notifies[d]) = 0
    BY <1>3
  <2> QED
    BY <2>2, <2>3 DEF WritesFit, NotifiesFit
<1> QED
  BY <1>1, <1>5, <1>6 DEF GattInv, LinksDiffer

\* The invariant has the properties.
LEMMA GattTyped == GattInv => GattTypeOK /\ GattIsSound
<1> SUFFICES ASSUME GattInv PROVE GattTypeOK /\ GattIsSound
  OBVIOUS
<1>0. GattShape /\ DOMAIN gattSession = 1..Len(gattSession) /\ Len(gattSession) \in Nat
  BY DEF GattInv, GattShape
<1>1. \A d \in GattDials : DialFits(d) /\ central[d].pipe \in GattPipe
  BY DEF GattInv, GattShape, GattCentral
<1>2. \A s \in DOMAIN gattSession : SessionFits(s) /\ gattSession[s].link \in GattDials
  <2> TAKE s \in DOMAIN gattSession
  <2>1. gattSession[s] \in Inbound
    BY <1>0 DEF GattShape
  <2>2. gattSession[s].link \in GattDials
    BY <2>1 DEF Inbound
  <2> QED
    BY <1>0, <2>2 DEF GattInv
<1>3. GattTypeOK
  <2>1. \A d \in GattDials : central[d].pipe.st \in Pipes \cup {"new", "closed"}
    BY <1>1 DEF GattPipe, Pipes
  <2>2. \A s \in DOMAIN gattSession : gattSession[s].pipe.st \in {"shakes", "ready", "closed"}
    BY <1>2 DEF SessionFits
  <2> QED
    BY <1>0, <2>1, <2>2 DEF GattTypeOK, GattShape
<1>4. OneSession
  BY <1>0, <1>2 DEF OneSession, SessionOpen, SessionFits, GattShape
<1>5. OwnLink
  <2>1. \A d \in GattDials : central[d].pipe.st = "ready" =>
          \E s \in DOMAIN gattSession : gattSession[s].link = d /\ gattSession[s].pipe.authSent
    BY <1>0, <1>1 DEF DialFits
  <2>2. \A s \in DOMAIN gattSession : gattSession[s].pipe.st = "ready" =>
          central[gattSession[s].link].pipe.authSent
    BY <1>2 DEF SessionFits
  <2> QED
    BY <2>1, <2>2 DEF OwnLink
<1>6. OnlyCrossedFail
  BY <1>1, <1>2 DEF OnlyCrossedFail, DialFits, SessionFits
<1> QED
  BY <1>3, <1>4, <1>5, <1>6 DEF GattIsSound

\* What is said of messages stays true as sessions are added and pipes go on.
LEMMA MessagesStay ==
  ASSUME Len(gattSession) \in Nat, Len(gattSession') \in Nat, Len(gattSession) <= Len(gattSession'),
         \A s \in 1..Len(gattSession) : /\ gattSession'[s].link = gattSession[s].link
                                        /\ gattSession[s].pipe.authSent => gattSession'[s].pipe.authSent,
         \A d \in GattDials : central[d].pipe.authSent => central'[d].pipe.authSent,
         mixed.dials \subseteq mixed'.dials, mixed.sessions \subseteq mixed'.sessions
  PROVE  /\ \A m : FromSession(m) => FromSession(m)'
         /\ \A m : FromDial(m) => FromDial(m)'
<1>1. \A s \in 1..Len(gattSession) : s \in 1..Len(gattSession')
  OBVIOUS
<1>2. ASSUME NEW m, FromSession(m) PROVE FromSession(m)'
  BY <1>1, <1>2 DEF FromSession
<1>3. ASSUME NEW m, FromDial(m) PROVE FromDial(m)'
  BY <1>1, <1>3 DEF FromDial
<1> QED
  BY <1>2, <1>3

LEMMA SessionsTell ==
  ASSUME GattInv
  PROVE  /\ gattSession \in Seq(Inbound) /\ Len(gattSession) \in Nat
         /\ \A s \in 1..Len(gattSession) :
              /\ gattSession[s] \in Inbound
              /\ gattSession[s].pipe \in GattPipe /\ gattSession[s].link \in GattDials
         /\ central \in [GattDials -> GattCentral]
         /\ \A d \in GattDials :
              /\ central[d] \in GattCentral /\ central[d].pipe \in GattPipe
              /\ central[d].up \in BOOLEAN
              /\ central[d] = [pipe |-> central[d].pipe, up |-> central[d].up]
              /\ writes[d] \in Seq(GattMessage) /\ notifies[d] \in Seq(GattMessage)
         /\ writes \in [GattDials -> Seq(GattMessage)] /\ notifies \in [GattDials -> Seq(GattMessage)]
<1>1. gattSession \in Seq(Inbound) /\ Len(gattSession) \in Nat
      /\ central \in [GattDials -> GattCentral]
      /\ writes \in [GattDials -> Seq(GattMessage)] /\ notifies \in [GattDials -> Seq(GattMessage)]
  BY DEF GattInv, GattShape
<1>2. ASSUME NEW s \in 1..Len(gattSession)
      PROVE  /\ gattSession[s] \in Inbound
             /\ gattSession[s].pipe \in GattPipe /\ gattSession[s].link \in GattDials
  <2>1. gattSession[s] \in Inbound
    BY <1>1
  <2> QED
    BY <2>1 DEF Inbound
<1>3. ASSUME NEW d \in GattDials
      PROVE  /\ central[d] \in GattCentral /\ central[d].pipe \in GattPipe
             /\ central[d].up \in BOOLEAN
             /\ central[d] = [pipe |-> central[d].pipe, up |-> central[d].up]
             /\ writes[d] \in Seq(GattMessage) /\ notifies[d] \in Seq(GattMessage)
  <2>1. central[d] \in GattCentral
    BY <1>1
  <2>2. writes[d] \in Seq(GattMessage) /\ notifies[d] \in Seq(GattMessage)
    BY <1>1
  <2> QED
    BY <2>1, <2>2 DEF GattCentral
<1> QED
  BY <1>1, <1>2, <1>3

\* What a step leaves as it is but for dials that disconnect and a session that ends.
QuietDial(d) ==
  \/ central'[d] = central[d] /\ writes'[d] = writes[d] /\ notifies'[d] = notifies[d]
  \/ /\ central'[d].up = FALSE /\ writes'[d] = <<>> /\ notifies'[d] = <<>>
     /\ \/ central'[d].pipe = central[d].pipe
        \/ central'[d].pipe = [central[d].pipe EXCEPT !.st = "closed"]

QuietGatt ==
  /\ central' \in [GattDials -> GattCentral]
  /\ writes' \in [GattDials -> Seq(GattMessage)] /\ notifies' \in [GattDials -> Seq(GattMessage)]
  /\ \A d \in GattDials : QuietDial(d)
  /\ \/ UNCHANGED <<gattSession, activeInbound, sessionInbound, acceptInflight>>
     \/ /\ Released
        /\ \E s \in 1..Len(gattSession) :
             gattSession[s].pipe.st # "closed" /\ gattSession' = [gattSession EXCEPT ![s].pipe.st = "closed"]
  /\ mixed' = mixed

LEMMA QuietGattKeeps == ASSUME GattInv, QuietGatt PROVE GattInv'
<1>1. /\ gattSession' \in Seq(Inbound) /\ Len(gattSession') = Len(gattSession)
      /\ activeInbound' \in 0..Len(gattSession') /\ sessionInbound' = activeInbound'
      /\ (acceptInflight' <=> activeInbound' # 0)
      /\ \A s \in 1..Len(gattSession) :
           /\ gattSession'[s].link = gattSession[s].link
           /\ \/ gattSession'[s].pipe = gattSession[s].pipe /\ (activeInbound' = s <=> activeInbound = s)
              \/ gattSession'[s].pipe = [gattSession[s].pipe EXCEPT !.st = "closed"] /\ activeInbound' # s
  <2>1. CASE UNCHANGED <<gattSession, activeInbound, sessionInbound, acceptInflight>>
    BY <2>1, SessionsTell DEF GattInv, GattShape
  <2>2. ASSUME NEW s \in 1..Len(gattSession), gattSession[s].pipe.st # "closed", Released,
               gattSession' = [gattSession EXCEPT ![s].pipe.st = "closed"]
        PROVE  /\ gattSession' \in Seq(Inbound) /\ Len(gattSession') = Len(gattSession)
               /\ activeInbound' \in 0..Len(gattSession') /\ sessionInbound' = activeInbound'
               /\ (acceptInflight' <=> activeInbound' # 0)
               /\ \A t \in 1..Len(gattSession) :
                    /\ gattSession'[t].link = gattSession[t].link
                    /\ \/ gattSession'[t].pipe = gattSession[t].pipe /\ (activeInbound' = t <=> activeInbound = t)
                       \/ gattSession'[t].pipe = [gattSession[t].pipe EXCEPT !.st = "closed"] /\ activeInbound' # t
    <3>1. activeInbound = s
      BY <2>2 DEF GattInv, SessionFits
    <3>2. [gattSession[s].pipe EXCEPT !.st = "closed"] \in GattPipe
      BY SessionsTell DEF GattPipe
    <3>3. [gattSession[s] EXCEPT !.pipe = [gattSession[s].pipe EXCEPT !.st = "closed"]]
            \in Inbound
      BY <3>2, SessionsTell DEF Inbound
    <3>4. gattSession' = [gattSession EXCEPT ![s] =
            [gattSession[s] EXCEPT !.pipe = [gattSession[s].pipe EXCEPT !.st = "closed"]]]
      BY <2>2
    <3>5. gattSession' \in Seq(Inbound) /\ Len(gattSession') = Len(gattSession)
      BY <3>3, <3>4, SessionsTell
    <3>6. ASSUME NEW t \in 1..Len(gattSession)
          PROVE  /\ gattSession'[t].link = gattSession[t].link
                 /\ gattSession'[t].pipe = IF t = s THEN [gattSession[t].pipe EXCEPT !.st = "closed"]
                                           ELSE gattSession[t].pipe
      <4>1. gattSession[t] \in Inbound /\ t \in DOMAIN gattSession
        BY SessionsTell
      <4>2. gattSession'[t] = IF t = s THEN [gattSession[s] EXCEPT !.pipe = [gattSession[s].pipe EXCEPT !.st = "closed"]]
                             ELSE gattSession[t]
        BY <3>4, <4>1
      <4> QED
        BY <4>1, <4>2 DEF Inbound
    <3>7. activeInbound' = 0 /\ sessionInbound' = 0 /\ acceptInflight' = FALSE /\ 0 \in 0..Len(gattSession)
      BY <2>2, SessionsTell DEF Released
    <3> QED
      BY <3>1, <3>5, <3>6, <3>7
  <2> QED
    BY <2>1, <2>2 DEF QuietGatt
<1>2. mixed' = mixed /\ \A d \in GattDials : QuietDial(d)
  BY DEF QuietGatt
<1>3. ASSUME NEW d \in GattDials
      PROVE  /\ central'[d].pipe.authSent = central[d].pipe.authSent
             /\ central'[d].pipe.heard = central[d].pipe.heard
             /\ central'[d].pipe.pendingAuth = central[d].pipe.pendingAuth
             /\ central'[d].pipe.blamed = central[d].pipe.blamed
             /\ central'[d].pipe.st \in {central[d].pipe.st, "closed"}
             /\ central'[d].up => central'[d].pipe = central[d].pipe /\ central[d].up
  BY <1>2, SessionsTell DEF QuietDial, GattPipe
<1>4. ASSUME NEW s \in 1..Len(gattSession)
      PROVE  /\ gattSession'[s].link = gattSession[s].link
             /\ gattSession'[s].pipe.authSent = gattSession[s].pipe.authSent
             /\ gattSession'[s].pipe.heard = gattSession[s].pipe.heard
             /\ gattSession'[s].pipe.pendingAuth = gattSession[s].pipe.pendingAuth
             /\ gattSession'[s].pipe.blamed = gattSession[s].pipe.blamed
             /\ \/ gattSession'[s].pipe.st = gattSession[s].pipe.st /\ (activeInbound' = s <=> activeInbound = s)
                \/ gattSession'[s].pipe.st = "closed" /\ activeInbound' # s
  <2>1. gattSession[s].pipe \in GattPipe
    BY SessionsTell
  <2>2. CASE gattSession'[s].pipe = gattSession[s].pipe /\ (activeInbound' = s <=> activeInbound = s)
    BY <1>1, <2>2
  <2>3. CASE gattSession'[s].pipe = [gattSession[s].pipe EXCEPT !.st = "closed"] /\ activeInbound' # s
    BY <1>1, <2>1, <2>3 DEF GattPipe
  <2> QED
    BY <1>1, <2>2, <2>3
<1>5. /\ \A m : FromSession(m) => FromSession(m)'
      /\ \A m : FromDial(m) => FromDial(m)'
  <2>1. Len(gattSession') \in Nat /\ Len(gattSession) <= Len(gattSession')
    BY <1>1, SessionsTell
  <2>2. mixed.dials \subseteq mixed'.dials /\ mixed.sessions \subseteq mixed'.sessions
    BY <1>2
  <2>3. \A d \in GattDials : central[d].pipe.authSent => central'[d].pipe.authSent
    BY <1>3
  <2>4. \A s \in 1..Len(gattSession) : /\ gattSession'[s].link = gattSession[s].link
                                       /\ gattSession[s].pipe.authSent => gattSession'[s].pipe.authSent
    BY <1>4
  <2> QED
    BY <2>1, <2>2, <2>3, <2>4, SessionsTell, MessagesStay
<1>6. \A d : Accepted(d)' <=> Accepted(d)
  BY <1>1 DEF Accepted
<1>7. GattShape'
  BY <1>1, <1>2 DEF GattInv, GattShape, QuietGatt
<1>8. LinksDiffer'
  BY <1>1 DEF GattInv, LinksDiffer
<1>9. ASSUME NEW d \in GattDials PROVE DialFits(d)'
  <2>1. DialFits(d)
    BY DEF GattInv
  <2>2. central'[d].pipe.st = "ready" =>
          \E s \in 1..Len(gattSession') : gattSession'[s].link = d /\ gattSession'[s].pipe.authSent
    BY <1>1, <1>3, <1>4, <2>1 DEF DialFits
  <2>3. ~central'[d].up => writes'[d] = <<>> /\ notifies'[d] = <<>>
    BY <1>2, <2>1 DEF DialFits, QuietDial
  <2>4. d \notin mixed.dials /\ central[d].pipe.heard # NoHello =>
          /\ central[d].pipe.heard.by \in 1..Len(gattSession') /\ central[d].pipe.heard.node = 0
          /\ gattSession'[central[d].pipe.heard.by].link = d
    BY <1>1, <2>1 DEF DialFits
  <2> QED
    BY <1>2, <1>3, <1>5, <1>6, <2>1, <2>2, <2>3, <2>4 DEF DialFits
<1>10. ASSUME NEW d \in GattDials PROVE WritesFit(d)' /\ NotifiesFit(d)'
  <2>1. WritesFit(d) /\ NotifiesFit(d)
    BY DEF GattInv
  <2>a. Len(<<>>) = 0
    OBVIOUS
  <2>2. writes'[d] = writes[d] \/ Len(writes'[d]) = 0
    BY <1>2, <2>a DEF QuietDial
  <2>3. notifies'[d] = notifies[d] \/ Len(notifies'[d]) = 0
    BY <1>2, <2>a DEF QuietDial
  <2> QED
    BY <1>5, <1>6, <2>1, <2>2, <2>3 DEF WritesFit, NotifiesFit
<1>11. ASSUME NEW s \in 1..Len(gattSession') PROVE SessionFits(s)'
  <2>1. SessionFits(s) /\ s \in 1..Len(gattSession)
    BY <1>1 DEF GattInv
  <2>2. gattSession[s].link \in GattDials
    BY <2>1, SessionsTell
  <2> QED
    BY <1>2, <1>3, <1>4, <1>5, <2>1, <2>2 DEF SessionFits
<1> QED
  BY <1>7, <1>8, <1>9, <1>10, <1>11 DEF GattInv

LEMMA GattStutters ==
  ASSUME GattInv, UNCHANGED <<central, gattSession, activeInbound, sessionInbound, acceptInflight, writes,
                              notifies, mixed>>
  PROVE  GattInv'
<1>1. QuietGatt
  BY SessionsTell DEF QuietGatt, QuietDial
<1> QED
  BY <1>1, QuietGattKeeps

LEMMA PipeClosed == ASSUME NEW p \in GattPipe PROVE [p EXCEPT !.st = "closed"] \in GattPipe
BY DEF GattPipe

\* The steps at which a dial misses, ends, or loses its connection.
LEMMA DialGoes ==
  ASSUME GattInv, NEW d \in GattDials,
         \/ central' = [central EXCEPT ![d].up = FALSE]
         \/ central' = [central EXCEPT ![d].pipe.st = "closed", ![d].up = FALSE],
         writes' = [writes EXCEPT ![d] = <<>>], notifies' = [notifies EXCEPT ![d] = <<>>],
         mixed' = mixed, UNCHANGED <<gattSession, activeInbound, sessionInbound, acceptInflight>>
  PROVE  GattInv'
<1> DEFINE c == [central[d] EXCEPT !.pipe.st = "closed", !.up = FALSE]
           b == [central[d] EXCEPT !.up = FALSE]
<1>a. [central[d].pipe EXCEPT !.st = "closed"] \in GattPipe
  BY SessionsTell, PipeClosed
<1>1. c \in GattCentral /\ c.up = FALSE /\ c.pipe = [central[d].pipe EXCEPT !.st = "closed"]
  BY <1>a, SessionsTell DEF GattCentral
<1>2. b \in GattCentral /\ b.up = FALSE /\ b.pipe = central[d].pipe
  BY SessionsTell DEF GattCentral
<1>3. central' = [central EXCEPT ![d] = c] \/ central' = [central EXCEPT ![d] = b]
  OBVIOUS
<1> HIDE DEF c, b
<1>4. central' \in [GattDials -> GattCentral] /\ \A e \in GattDials : e # d => central'[e] = central[e]
  <2>0. central \in [GattDials -> GattCentral] /\ c \in GattCentral /\ b \in GattCentral
    BY <1>1, <1>2, SessionsTell
  <2>1. CASE central' = [central EXCEPT ![d] = c]
    BY <2>0, <2>1, Zenon
  <2>2. CASE central' = [central EXCEPT ![d] = b]
    BY <2>0, <2>2, Zenon
  <2> QED
    BY <1>3, <2>1, <2>2
<1>5. central'[d] = c \/ central'[d] = b
  BY <1>3, SessionsTell
<1>6. /\ writes' \in [GattDials -> Seq(GattMessage)] /\ notifies' \in [GattDials -> Seq(GattMessage)]
      /\ \A e \in GattDials : e # d => writes'[e] = writes[e] /\ notifies'[e] = notifies[e]
      /\ writes'[d] = <<>> /\ notifies'[d] = <<>>
  BY SessionsTell
<1>7. ASSUME NEW e \in GattDials PROVE QuietDial(e)
  <2>1. CASE e = d
    BY <1>1, <1>2, <1>5, <1>6, <2>1 DEF QuietDial
  <2>2. CASE e # d
    BY <1>4, <1>6, <2>2 DEF QuietDial
  <2> QED
    BY <2>1, <2>2
<1>8. QuietGatt
  BY <1>4, <1>6, <1>7, Zenon DEF QuietGatt
<1> QED
  BY <1>8, QuietGattKeeps

LEMMA DialMissesKeeps == ASSUME GattInv, NEW d \in GattDials, DialMisses(d) PROVE GattInv'
<1> DEFINE c == [central[d] EXCEPT !.pipe.st = "closed"]
<1>0. central[d].pipe.st = "new" /\ DialFits(d)
  BY DEF DialMisses, GattInv
<1>a. [central[d].pipe EXCEPT !.st = "closed"] \in GattPipe
  BY SessionsTell, PipeClosed
<1>b. central[d].up = FALSE /\ writes[d] = <<>> /\ notifies[d] = <<>>
  BY <1>0, SessionsTell DEF DialFits
<1>1. c \in GattCentral /\ c.up = FALSE /\ c.pipe = [central[d].pipe EXCEPT !.st = "closed"]
      /\ writes[d] = <<>> /\ notifies[d] = <<>>
  BY <1>a, <1>b, SessionsTell DEF GattCentral
<1>3. central' = [central EXCEPT ![d] = c]
  BY DEF DialMisses
<1> HIDE DEF c
<1>4. central' \in [GattDials -> GattCentral] /\ \A e \in GattDials : e # d => central'[e] = central[e]
  BY <1>1, <1>3, SessionsTell
<1>5. central'[d] = c /\ UNCHANGED <<writes, notifies, mixed>>
      /\ UNCHANGED <<gattSession, activeInbound, sessionInbound, acceptInflight>>
  BY <1>3, SessionsTell DEF DialMisses, ProviderUnchanged
<1>7. ASSUME NEW e \in GattDials PROVE QuietDial(e)
  <2>1. CASE e = d
    BY <1>1, <1>5, <2>1 DEF QuietDial
  <2>2. CASE e # d
    BY <1>4, <1>5, <2>2 DEF QuietDial
  <2> QED
    BY <2>1, <2>2
<1>8. QuietGatt
  BY <1>4, <1>5, <1>7, SessionsTell DEF QuietGatt
<1> QED
  BY <1>8, QuietGattKeeps

LEMMA DisconnectsKeep ==
  ASSUME GattInv, NEW d \in GattDials, DialEnds(d) \/ DialCloses(d) \/ ConnectionLost(d) PROVE GattInv'
BY DialGoes DEF DialEnds, DialCloses, Disconnects, ConnectionLost, ProviderUnchanged

LEMMA SessionEndsKeeps == ASSUME GattInv, NEW s \in DOMAIN gattSession, SessionEnds(s) PROVE GattInv'
<1>0. /\ UNCHANGED <<central, writes, notifies, mixed>> /\ s \in 1..Len(gattSession)
      /\ gattSession[s].pipe.st # "closed" /\ gattSession' = [gattSession EXCEPT ![s].pipe.st = "closed"]
      /\ Released
  BY SessionsTell DEF SessionEnds, SessionOpen, DialsUnchanged
<1>2. \A d \in GattDials : QuietDial(d)
  BY <1>0 DEF QuietDial
<1>1. QuietGatt
  BY <1>0, <1>2, SessionsTell, Zenon DEF QuietGatt
<1> QED
  BY <1>1, QuietGattKeeps

LEMMA PeripheralServesKeeps == ASSUME GattInv, PeripheralServes PROVE GattInv'
<1>1. ASSUME NEW d \in GattDials
      PROVE  [central[d] EXCEPT !.up = FALSE] \in GattCentral
             /\ [central[d] EXCEPT !.up = FALSE].up = FALSE
             /\ [central[d] EXCEPT !.up = FALSE].pipe = central[d].pipe
  BY SessionsTell DEF GattCentral
<1>2. central' \in [GattDials -> GattCentral]
      /\ \A d \in GattDials : central'[d] = [central[d] EXCEPT !.up = FALSE]
  BY <1>1 DEF PeripheralServes
<1>3. /\ writes' \in [GattDials -> Seq(GattMessage)] /\ notifies' \in [GattDials -> Seq(GattMessage)]
      /\ \A d \in GattDials : writes'[d] = <<>> /\ notifies'[d] = <<>>
  BY DEF PeripheralServes
<1>4. \A d \in GattDials : QuietDial(d)
  BY <1>1, <1>2, <1>3 DEF QuietDial
<1>5. UNCHANGED <<gattSession, activeInbound, sessionInbound, acceptInflight>> /\ mixed' = mixed
  BY DEF PeripheralServes, ListenUnchanged
<1>6. QuietGatt
  BY <1>2, <1>3, <1>4, <1>5, Zenon DEF QuietGatt
<1> QED
  BY <1>6, QuietGattKeeps

-----------------------------------------------------------------------------
(* What a message does to a pipe. *)

\* An auth is of the link and answers the hello heard, or is blamed.
Unfit(x, own, link, hello) ==
  hello # NoHello /\ ~(x.node = hello.node /\ x.to = own /\ x.link = link)

AuthOutcome(pipe, own, link, x, a) ==
  /\ a \in GattPipe
  /\ a.heard = pipe.heard /\ a.authSent = pipe.authSent
  /\ a.pendingAuth \in {pipe.pendingAuth, <<x>>}
  /\ a.st = pipe.st \/ a.st = "closed" \/ (a.st = "ready" /\ x.link = link)
  /\ a.blamed => pipe.blamed \/ (a.st = "closed" /\ Unfit(x, own, link, pipe.heard))

\* The auth that a message makes a pipe verify: itself, or the one that came before the hello.
VerifiedBy(pipe, m, x) ==
  \/ m.op = "auth" /\ x = m
  \/ m.op = "hello" /\ pipe.pendingAuth # <<>> /\ x = pipe.pendingAuth[1]

Outcome(pipe, own, link, m, a) ==
  /\ a \in GattPipe
  /\ pipe.authSent => a.authSent
  /\ m.op = "hello" => a.authSent
  /\ a.heard = pipe.heard \/ (m.op = "hello" /\ a.heard = [by |-> m.by, node |-> m.node])
  /\ a.pendingAuth # <<>> => \/ m.op = "auth" /\ a.pendingAuth = <<m>>
                             \/ pipe.pendingAuth # <<>> /\ a.pendingAuth[1] = pipe.pendingAuth[1]
  /\ \/ a.st = pipe.st
     \/ a.st = "closed"
     \/ a.st = "ready" /\ \E x \in GattMessage : VerifiedBy(pipe, m, x) /\ x.link = link
  /\ a.blamed =>
       \/ pipe.blamed
       \/ a.st = "closed" /\ \E x \in GattMessage : VerifiedBy(pipe, m, x) /\ Unfit(x, own, link, a.heard)

LEMMA AfterAuthTells ==
  ASSUME NEW pipe \in GattPipe, NEW own, NEW link, NEW x \in GattMessage
  PROVE  AuthOutcome(pipe, own, link, x, AfterAuth(pipe, own, link, x))
<1> DEFINE a == AfterAuth(pipe, own, link, x)
<1>0. <<x>> \in PendingSet
  BY DEF PendingSet
<1>1. CASE pipe.heard = NoHello
  <2>1. a = [pipe EXCEPT !.pendingAuth = <<x>>]
    BY <1>1 DEF AfterAuth
  <2> HIDE DEF a
  <2>2. /\ a \in GattPipe /\ a.heard = pipe.heard /\ a.authSent = pipe.authSent
        /\ a.pendingAuth = <<x>> /\ a.st = pipe.st /\ a.blamed = pipe.blamed
    BY <1>0, <2>1 DEF GattPipe
  <2> QED
    BY <2>2 DEF AuthOutcome, a
<1>2. CASE pipe.heard # NoHello /\ GattVerified(pipe, own, link, x)
  <2>1. a = [pipe EXCEPT !.st = "ready"]
    BY <1>2 DEF AfterAuth
  <2> HIDE DEF a
  <2>2. /\ a \in GattPipe /\ a.heard = pipe.heard /\ a.authSent = pipe.authSent
        /\ a.pendingAuth = pipe.pendingAuth /\ a.st = "ready" /\ a.blamed = pipe.blamed
    BY <2>1 DEF GattPipe
  <2> QED
    BY <1>2, <2>2 DEF AuthOutcome, GattVerified, a
<1>3. CASE pipe.heard # NoHello /\ ~GattVerified(pipe, own, link, x)
  <2>1. a = [pipe EXCEPT !.st = "closed", !.blamed = TRUE]
    BY <1>3 DEF AfterAuth
  <2> HIDE DEF a
  <2>2. /\ a \in GattPipe /\ a.heard = pipe.heard /\ a.authSent = pipe.authSent
        /\ a.pendingAuth = pipe.pendingAuth /\ a.st = "closed"
    BY <2>1 DEF GattPipe
  <2> QED
    BY <1>3, <2>2 DEF AuthOutcome, Unfit, GattVerified, a
<1> QED
  BY <1>1, <1>2, <1>3

LEMMA AfterTells ==
  ASSUME NEW pipe \in GattPipe, NEW own, NEW link, NEW m \in GattMessage
  PROVE  Outcome(pipe, own, link, m, After(pipe, own, link, m))
<1> DEFINE a == After(pipe, own, link, m)
           h == [pipe EXCEPT !.heard = [by |-> m.by, node |-> m.node], !.authSent = TRUE, !.pendingAuth = <<>>]
<1>0. <<>> \in PendingSet
  BY DEF PendingSet
<1>1. CASE m.op = "auth"
  <2>1. a = AfterAuth(pipe, own, link, m)
    BY <1>1 DEF After
  <2> HIDE DEF a
  <2>2. AuthOutcome(pipe, own, link, m, a)
    BY <2>1, AfterAuthTells
  <2>3. VerifiedBy(pipe, m, m)
    BY <1>1 DEF VerifiedBy
  <2>4. Outcome(pipe, own, link, m, a)
    BY <1>1, <2>2, <2>3 DEF AuthOutcome, Outcome
  <2> QED
    BY <2>4 DEF a
<1>2. CASE m.op = "open"
  <2>1. a = pipe
    BY <1>2 DEF After
  <2> HIDE DEF a
  <2>2. Outcome(pipe, own, link, m, a)
    BY <1>2, <2>1 DEF Outcome
  <2> QED
    BY <2>2 DEF a
<1>3. CASE m.op = "hello"
  <2>0. [by |-> m.by, node |-> m.node] \in [by : Nat, node : Nat]
    BY DEF GattMessage
  <2>1. /\ h \in GattPipe /\ h.heard = [by |-> m.by, node |-> m.node] /\ h.authSent = TRUE /\ h.pendingAuth = <<>>
        /\ h.st = pipe.st /\ h.blamed = pipe.blamed
    BY <1>0, <2>0 DEF GattPipe
  <2>2. a = IF pipe.pendingAuth = <<>> THEN h ELSE AfterAuth(h, own, link, pipe.pendingAuth[1])
    BY <1>3 DEF After, AfterHello
  <2> HIDE DEF a, h
  <2>3. CASE pipe.pendingAuth = <<>>
    <3>1. a = h
      BY <2>2, <2>3
    <3>2. Outcome(pipe, own, link, m, a)
      BY <1>3, <2>1, <3>1 DEF Outcome
    <3> QED
      BY <3>2 DEF a
  <2>4. CASE pipe.pendingAuth # <<>>
    <3> DEFINE x == pipe.pendingAuth[1]
    <3>1. x \in GattMessage
      <4>1. pipe.pendingAuth \in PendingSet
        BY DEF GattPipe
      <4> QED
        BY <2>4, <4>1 DEF PendingSet
    <3>2. a = AfterAuth(h, own, link, x)
      BY <2>2, <2>4
    <3>3. VerifiedBy(pipe, m, x)
      BY <1>3, <2>4 DEF VerifiedBy
    <3>a. pipe.pendingAuth[1] = x
      OBVIOUS
    <3> HIDE DEF x
    <3>4. AuthOutcome(h, own, link, x, a)
      BY <2>1, <3>1, <3>2, AfterAuthTells
    <3>5. a.pendingAuth # <<>> => a.pendingAuth[1] = pipe.pendingAuth[1]
      BY <2>1, <3>4, <3>a DEF AuthOutcome
    <3>6. Outcome(pipe, own, link, m, a)
      BY <1>3, <2>1, <2>4, <3>1, <3>3, <3>4, <3>5 DEF AuthOutcome, Outcome
    <3> QED
      BY <3>6 DEF a
  <2> QED
    BY <2>3, <2>4
<1>4. m.op \in {"open", "hello", "auth"}
  BY DEF GattMessage
<1> QED
  BY <1>1, <1>2, <1>3, <1>4

\* A step of one dial, which keeps the sessions.
LEMMA DialStep ==
  ASSUME GattInv, NEW d \in GattDials,
         central' \in [GattDials -> GattCentral],
         writes' \in [GattDials -> Seq(GattMessage)], notifies' \in [GattDials -> Seq(GattMessage)],
         \A e \in GattDials : e # d => /\ central'[e] = central[e] /\ writes'[e] = writes[e]
                                       /\ notifies'[e] = notifies[e],
         central[d].pipe.authSent => central'[d].pipe.authSent,
         mixed' = mixed \/ mixed' = [mixed EXCEPT !.dials = @ \cup {d}],
         UNCHANGED <<gattSession, activeInbound, sessionInbound, acceptInflight>>,
         DialFits(d)', WritesFit(d)', NotifiesFit(d)'
  PROVE  GattInv'
<1>0. mixed \in [dials : SUBSET GattDials, sessions : SUBSET Nat]
  BY DEF GattInv, GattShape
<1>1. /\ mixed' \in [dials : SUBSET GattDials, sessions : SUBSET Nat] /\ mixed'.sessions = mixed.sessions
      /\ mixed.dials \subseteq mixed'.dials /\ mixed'.dials \subseteq mixed.dials \cup {d}
  <2>1. CASE mixed' = mixed
    BY <1>0, <2>1
  <2>2. CASE mixed' = [mixed EXCEPT !.dials = @ \cup {d}]
    BY <1>0, <2>2
  <2> QED
    BY <2>1, <2>2
<1>2. /\ \A m : FromSession(m) => FromSession(m)'
      /\ \A m : FromDial(m) => FromDial(m)'
  <2>1. \A e \in GattDials : central[e].pipe.authSent => central'[e].pipe.authSent
    OBVIOUS
  <2>2. Len(gattSession') \in Nat /\ Len(gattSession) <= Len(gattSession')
    BY SessionsTell
  <2>3. \A s \in 1..Len(gattSession) : /\ gattSession'[s].link = gattSession[s].link
                                       /\ gattSession[s].pipe.authSent => gattSession'[s].pipe.authSent
    OBVIOUS
  <2> QED
    BY <1>1, <2>1, <2>2, <2>3, SessionsTell, MessagesStay
<1>3. GattShape'
  BY <1>1 DEF GattInv, GattShape
<1>4. LinksDiffer'
  BY DEF GattInv, LinksDiffer
<1>5. ASSUME NEW e \in GattDials PROVE DialFits(e)' /\ WritesFit(e)' /\ NotifiesFit(e)'
  <2>1. CASE e = d
    BY <2>1
  <2>2. CASE e # d
    <3>1. DialFits(e) /\ WritesFit(e) /\ NotifiesFit(e)
      BY DEF GattInv
    <3>2. central'[e] = central[e] /\ writes'[e] = writes[e] /\ notifies'[e] = notifies[e]
      BY <2>2
    <3>3. Accepted(e)' <=> Accepted(e)
      BY DEF Accepted
    <3>4. e \in mixed'.dials <=> e \in mixed.dials
      BY <1>1, <2>2
    <3>5. DialFits(e)'
      BY <1>1, <1>2, <3>1, <3>2, <3>3, <3>4 DEF DialFits
    <3>6. WritesFit(e)' /\ NotifiesFit(e)'
      BY <1>2, <3>1, <3>2, <3>3 DEF WritesFit, NotifiesFit
    <3> QED
      BY <3>5, <3>6
  <2> QED
    BY <2>1, <2>2
<1>6. ASSUME NEW s \in 1..Len(gattSession') PROVE SessionFits(s)'
  <2>1. SessionFits(s) /\ gattSession[s].link \in GattDials /\ gattSession' = gattSession /\ activeInbound' = activeInbound
    BY SessionsTell DEF GattInv
  <2>2. central[gattSession[s].link].pipe.authSent => central'[gattSession[s].link].pipe.authSent
    BY <2>1
  <2> QED
    BY <1>1, <1>2, <2>1, <2>2 DEF SessionFits
<1> QED
  BY <1>3, <1>4, <1>5, <1>6 DEF GattInv

LEMMA dialBleGattKeeps == ASSUME GattInv, NEW d \in GattDials, dialBleGatt(d) PROVE GattInv'
<1> DEFINE c == [pipe |-> NewGattPipe("opens"), up |-> TRUE]
           m == Message("open", d, d, d, 0)
<1>1. /\ central' = [central EXCEPT ![d] = c] /\ writes' = [writes EXCEPT ![d] = <<m>>]
      /\ UNCHANGED <<notifies, mixed, gattSession, activeInbound, sessionInbound, acceptInflight>>
      /\ central[d].pipe.st = "new"
  BY DEF dialBleGatt, ProviderUnchanged
<1>2. /\ c.pipe \in GattPipe /\ c.up = TRUE /\ c.pipe.st = "opens" /\ c.pipe.heard = NoHello
      /\ c.pipe.pendingAuth = <<>> /\ c.pipe.blamed = FALSE /\ c \in GattCentral
  <2>1. <<>> \in PendingSet /\ NoHello \in [by : Nat, node : Nat]
    BY DEF PendingSet, NoHello
  <2> QED
    BY <2>1 DEF NewGattPipe, GattPipe, GattCentral
<1>3. m \in GattMessage /\ m.op = "open" /\ m.by = d /\ m.node = d /\ m.link = d
  BY GattAssumption DEF Message, GattMessage
<1> HIDE DEF c, m
<1>4. /\ central' \in [GattDials -> GattCentral] /\ central'[d] = c
      /\ \A e \in GattDials : e # d => central'[e] = central[e]
  BY <1>1, <1>2, SessionsTell
<1>5. /\ writes' \in [GattDials -> Seq(GattMessage)] /\ writes'[d] = <<m>>
      /\ \A e \in GattDials : e # d => writes'[e] = writes[e]
  BY <1>1, <1>3, SessionsTell
<1>6. DialFits(d) /\ NotifiesFit(d)
  BY DEF GattInv
<1>7. ~Accepted(d) /\ ~central[d].pipe.authSent
  BY <1>1, <1>6 DEF DialFits
<1>8. DialFits(d)'
  BY <1>2, <1>4 DEF DialFits
<1>9. WritesFit(d)'
  <2>1. Len(<<m>>) = 1 /\ <<m>>[1] = m
    OBVIOUS
  <2>2. ~Accepted(d)'
    BY <1>1, <1>7 DEF Accepted
  <2>3. FromDial(m)'
    BY <1>3 DEF FromDial
  <2> QED
    BY <1>3, <1>5, <2>1, <2>2, <2>3 DEF WritesFit
<1>10. NotifiesFit(d)'
  BY <1>1, <1>6 DEF NotifiesFit, FromSession
<1>11. notifies' \in [GattDials -> Seq(GattMessage)] /\ \A e \in GattDials : notifies'[e] = notifies[e]
  BY <1>1, SessionsTell
<1> QED
  BY <1>1, <1>4, <1>5, <1>7, <1>8, <1>9, <1>10, <1>11, DialStep

\* What is added at the end of messages that fit.
LEMMA Added ==
  ASSUME NEW q \in Seq(GattMessage), NEW m \in GattMessage
  PROVE  /\ Append(q, m) \in Seq(GattMessage) /\ q \o <<m>> = Append(q, m)
         /\ Len(Append(q, m)) = Len(q) + 1 /\ Len(q) \in Nat
         /\ \A i \in 1..Len(Append(q, m)) : \/ i \in 1..Len(q) /\ Append(q, m)[i] = q[i]
                                            \/ i = Len(q) + 1 /\ Append(q, m)[i] = m
<1>1. /\ Append(q, m) \in Seq(GattMessage) /\ Len(Append(q, m)) = Len(q) + 1 /\ Len(q) \in Nat
      /\ Append(q, m)[Len(q) + 1] = m /\ \A i \in 1..Len(q) : Append(q, m)[i] = q[i]
  BY AppendProperties, LenProperties
<1>2. q \o <<m>> = Append(q, m)
  BY SMT
<1>3. ASSUME NEW i \in 1..(Len(q) + 1) PROVE i \in 1..Len(q) \/ i = Len(q) + 1
  BY <1>1
<1> QED
  BY <1>1, <1>2, <1>3

\* Messages under way to an end, said of the queue that the step leaves.
LEMMA WritesAre ==
  ASSUME NEW d, NEW q, writes'[d] = q,
         \A i \in 1..Len(q) : /\ FromDial(q[i])' /\ q[i].by = d
                              /\ q[i].op = "open" => i = 1 /\ ~Accepted(d)'
  PROVE  WritesFit(d)'
BY Zenon DEF WritesFit, FromDial, Accepted

LEMMA NotifiesAre ==
  ASSUME NEW d, NEW q, notifies'[d] = q, \A i \in 1..Len(q) : FromSession(q[i])'
  PROVE  NotifiesFit(d)'
BY Zenon DEF NotifiesFit, FromSession

LEMMA HelloGoesKeeps == ASSUME GattInv, NEW d \in GattDials, HelloGoes(d) PROVE GattInv'
<1> DEFINE c == [central[d] EXCEPT !.pipe.st = "shakes"]
           m == Message("hello", d, d, d, 0)
<1>1. /\ central' = [central EXCEPT ![d] = c] /\ writes' = [writes EXCEPT ![d] = Append(writes[d], m)]
      /\ UNCHANGED <<notifies, mixed, gattSession, activeInbound, sessionInbound, acceptInflight>>
      /\ central[d].pipe.st = "opens" /\ central[d].up
      /\ \A i \in DOMAIN writes[d] : writes[d][i].op # "open"
  BY DEF HelloGoes, ProviderUnchanged
<1>a. [central[d].pipe EXCEPT !.st = "shakes"] \in GattPipe
  BY SessionsTell DEF GattPipe
<1>b. central[d].up = TRUE
  BY <1>1, SessionsTell
<1>2. /\ c \in GattCentral /\ c.up = TRUE /\ c.pipe = [central[d].pipe EXCEPT !.st = "shakes"]
  BY <1>a, <1>b, SessionsTell DEF GattCentral
<1>3. m \in GattMessage /\ m.op = "hello" /\ m.by = d /\ m.node = d /\ m.link = d
  BY GattAssumption DEF Message, GattMessage
<1> HIDE DEF c, m
<1>4. /\ central' \in [GattDials -> GattCentral] /\ central'[d] = c
      /\ \A e \in GattDials : e # d => central'[e] = central[e]
  BY <1>1, <1>2, SessionsTell
<1>5. /\ writes' \in [GattDials -> Seq(GattMessage)] /\ writes'[d] = Append(writes[d], m)
      /\ \A e \in GattDials : e # d => writes'[e] = writes[e]
  BY <1>1, <1>3, Added, SessionsTell
<1>6. DialFits(d) /\ NotifiesFit(d) /\ WritesFit(d)
  BY DEF GattInv
<1>7. /\ central'[d].pipe.st = "shakes" /\ central'[d].pipe.heard = central[d].pipe.heard
      /\ central'[d].pipe.authSent = central[d].pipe.authSent /\ central'[d].up = TRUE
      /\ central'[d].pipe.pendingAuth = central[d].pipe.pendingAuth
      /\ central'[d].pipe.blamed = central[d].pipe.blamed
  BY <1>2, <1>4, SessionsTell DEF GattPipe
<1>8. DialFits(d)'
  BY <1>1, <1>6, <1>7 DEF DialFits, FromSession
<1>9. WritesFit(d)'
  <2>1. FromDial(m)'
    BY <1>3 DEF FromDial
  <2>2. \A x : FromDial(x) /\ x.by = d => FromDial(x)'
    BY <1>1, <1>7 DEF FromDial
  <2>3. DOMAIN writes[d] = 1..Len(writes[d])
    BY SessionsTell
  <2>a. PICK q : q = Append(writes[d], m)
    OBVIOUS
  <2>4. ASSUME NEW i \in 1..Len(q)
        PROVE  FromDial(q[i])' /\ q[i].by = d /\ q[i].op # "open"
    <3>1. \/ i \in 1..Len(writes[d]) /\ q[i] = writes[d][i]
          \/ q[i] = m
      BY <1>3, <2>a, Added, SessionsTell
    <3>2. ASSUME i \in 1..Len(writes[d])
          PROVE  FromDial(writes[d][i]) /\ writes[d][i].by = d /\ writes[d][i].op # "open"
      BY <1>1, <1>6, <2>3, <3>2 DEF WritesFit
    <3>3. CASE q[i] = m
      BY <1>3, <2>1, <3>3
    <3>4. CASE i \in 1..Len(writes[d]) /\ q[i] = writes[d][i]
      BY <2>2, <3>2, <3>4
    <3> QED
      BY <3>1, <3>3, <3>4
  <2> QED
    BY <1>5, <2>a, <2>4, WritesAre
<1>10. NotifiesFit(d)'
  BY <1>1, <1>6 DEF NotifiesFit, FromSession
<1>11. notifies' \in [GattDials -> Seq(GattMessage)] /\ \A e \in GattDials : notifies'[e] = notifies[e]
  BY <1>1, SessionsTell
<1> QED
  BY <1>1, <1>4, <1>5, <1>7, <1>8, <1>9, <1>10, <1>11, DialStep

Joined(q, r, x) ==
  /\ r \in Seq(GattMessage)
  /\ \A i \in 1..Len(r) : (i \in 1..Len(q) /\ r[i] = q[i]) \/ r[i] = x

\* What a pipe answers: nothing, or its auth to the first hello.
LEMMA AnswerJoins ==
  ASSUME NEW q \in Seq(GattMessage), NEW pipe, NEW own \in Nat, NEW node \in Nat, NEW link \in Nat,
         NEW m \in GattMessage
  PROVE  \/ q \o Answers(pipe, own, node, link, m) = q
         \/ /\ m.op = "hello"
            /\ Joined(q, q \o Answers(pipe, own, node, link, m), Message("auth", own, node, link, m.by))
<1> DEFINE x == Message("auth", own, node, link, m.by)
<1>1. x \in GattMessage
  BY DEF Message, GattMessage
<1>2. CASE m.op = "hello" /\ ~pipe.authSent
  <2>1. Answers(pipe, own, node, link, m) = <<x>>
    BY <1>2 DEF Answers
  <2> HIDE DEF x
  <2>2. q \o <<x>> = Append(q, x) /\ Joined(q, Append(q, x), x)
    BY <1>1, Added DEF Joined
  <2> QED
    BY <1>2, <2>1, <2>2 DEF x
<1>3. CASE ~(m.op = "hello" /\ ~pipe.authSent)
  <2>1. Answers(pipe, own, node, link, m) = <<>>
    BY <1>3 DEF Answers
  <2>2. q \o <<>> = q
    OBVIOUS
  <2> QED
    BY <2>1, <2>2
<1> QED
  BY <1>2, <1>3

LEMMA AuthTaken ==
  ASSUME NEW q \in Seq(GattMessage), q # <<>>
  PROVE  /\ Head(q) \in GattMessage /\ Head(q) = q[1] /\ 1 \in 1..Len(q)
         /\ Tail(q) \in Seq(GattMessage)
         /\ \A i \in 1..Len(Tail(q)) : i + 1 \in 1..Len(q) /\ i + 1 # 1 /\ Tail(q)[i] = q[i + 1]
<1>1. Len(q) \in Nat /\ Len(q) # 0
  BY EmptySeq, LenProperties
<1>2. Tail(q) \in Seq(GattMessage) /\ Len(Tail(q)) = Len(q) - 1
      /\ \A i \in 1..Len(Tail(q)) : Tail(q)[i] = q[i + 1]
  BY HeadTailProperties
<1>3. \A i \in 1..Len(Tail(q)) : i + 1 \in 1..Len(q) /\ i + 1 # 1
  BY <1>1, <1>2
<1>4. 1 \in 1..Len(q) /\ Head(q) = q[1] /\ q[1] \in GattMessage
  BY <1>1
<1> QED
  BY <1>2, <1>3, <1>4

\* Both are of sessions, one of them the one whose hello was heard.
LEMMA PipeHears ==
  ASSUME GattInv, NEW d \in GattDials, NEW m \in GattMessage, FromSession(m), NEW a,
         Outcome(central[d].pipe, d, d, m, a), central[d].pipe.st \notin {"new", "closed"},
         central'[d].pipe = a, central'[d].up = (a.st # "closed"),
         a.st = "closed" => writes'[d] = <<>> /\ notifies'[d] = <<>>,
         mixed' = IF m.link # d THEN [mixed EXCEPT !.dials = @ \cup {d}] ELSE mixed,
         UNCHANGED gattSession
  PROVE  DialFits(d)'
<1> DEFINE p == central[d].pipe
<1>1. /\ p.st = "ready" =>
           \E s \in 1..Len(gattSession) : gattSession[s].link = d /\ gattSession[s].pipe.authSent
      /\ p.pendingAuth # <<>> => p.pendingAuth[1].op = "auth" /\ FromSession(p.pendingAuth[1])
      /\ d \notin mixed.dials =>
           /\ p.heard # NoHello => /\ p.heard.by \in 1..Len(gattSession) /\ p.heard.node = 0
                                   /\ gattSession[p.heard.by].link = d
           /\ p.pendingAuth # <<>> => p.pendingAuth[1].link = d
      /\ ~p.blamed
  BY DEF GattInv, DialFits
<1>2. mixed \in [dials : SUBSET GattDials, sessions : SUBSET Nat]
  BY DEF GattInv, GattShape
<1>3. /\ mixed'.sessions = mixed.sessions /\ mixed.dials \subseteq mixed'.dials
      /\ m.link # d => d \in mixed'.dials
  BY <1>2
<1>4. \A x : FromSession(x) => FromSession(x)'
  BY <1>3 DEF FromSession
<1>5. ASSUME NEW x \in GattMessage, VerifiedBy(p, m, x)
      PROVE  x.op = "auth" /\ FromSession(x) /\ (d \notin mixed'.dials => x.link = d)
  BY <1>1, <1>3, <1>5 DEF VerifiedBy
<1>6. /\ p.authSent => a.authSent
      /\ a.heard = p.heard \/ (m.op = "hello" /\ a.heard = [by |-> m.by, node |-> m.node])
      /\ a.pendingAuth # <<>> => \/ m.op = "auth" /\ a.pendingAuth = <<m>>
                                 \/ p.pendingAuth # <<>> /\ a.pendingAuth[1] = p.pendingAuth[1]
      /\ \/ a.st = p.st
         \/ a.st = "closed"
         \/ a.st = "ready" /\ \E x \in GattMessage : VerifiedBy(p, m, x) /\ x.link = d
      /\ a.blamed =>
           \/ p.blamed
           \/ a.st = "closed" /\ \E x \in GattMessage : VerifiedBy(p, m, x) /\ Unfit(x, d, d, a.heard)
  BY DEF Outcome
<1>7. p.st \notin {"new", "closed"}
  OBVIOUS
<1> HIDE DEF p
<1>8. d \notin mixed'.dials /\ a.heard # NoHello =>
        /\ a.heard.by \in 1..Len(gattSession) /\ a.heard.node = 0 /\ gattSession[a.heard.by].link = d
  <2>1. CASE a.heard = p.heard
    BY <1>1, <1>3, <2>1
  <2>2. CASE a.heard = [by |-> m.by, node |-> m.node]
    BY <1>3, <2>2 DEF FromSession
  <2> QED
    BY <1>6, <2>1, <2>2
<1>9. a.st = "ready" =>
        \E s \in 1..Len(gattSession) : gattSession[s].link = d /\ gattSession[s].pipe.authSent
  <2>1. ASSUME NEW x \in GattMessage, VerifiedBy(p, m, x), x.link = d
        PROVE  \E s \in 1..Len(gattSession) : gattSession[s].link = d /\ gattSession[s].pipe.authSent
    BY <1>5, <2>1 DEF FromSession
  <2> QED
    BY <1>1, <1>6, <2>1
<1>10. a.pendingAuth # <<>> => a.pendingAuth[1].op = "auth" /\ FromSession(a.pendingAuth[1])
  BY <1>1, <1>6
<1>11. d \notin mixed'.dials => (a.pendingAuth # <<>> => a.pendingAuth[1].link = d)
  BY <1>1, <1>3, <1>6
<1>12. a.blamed => a.st = "closed" /\ (d \in mixed'.dials \/ a.heard.by \in mixed.sessions)
  <2>1. ASSUME NEW x \in GattMessage, VerifiedBy(p, m, x), Unfit(x, d, d, a.heard), d \notin mixed'.dials
        PROVE  a.heard.by \in mixed.sessions
    <3>1. x.op = "auth" /\ FromSession(x) /\ x.link = d
      BY <1>5, <2>1
    <3>2. /\ a.heard # NoHello /\ a.heard.by \in 1..Len(gattSession) /\ a.heard.node = 0
          /\ gattSession[a.heard.by].link = d
      BY <1>8, <2>1 DEF Unfit
    <3>3. x.by \in 1..Len(gattSession) /\ gattSession[x.by].link = d /\ x.node = 0
          /\ (x.to = d \/ x.by \in mixed.sessions)
      BY <3>1 DEF FromSession
    <3>4. x.to # d
      BY <2>1, <3>1, <3>2, <3>3 DEF Unfit
    <3>5. x.by = a.heard.by
      BY <3>2, <3>3 DEF GattInv, LinksDiffer
    <3> QED
      BY <3>3, <3>4, <3>5
  <2> QED
    BY <1>1, <1>6, <2>1
<1>13. a.st # "new"
  BY <1>6, <1>7
<1>14. gattSession' = gattSession /\ central'[d].pipe = a /\ central'[d].up = (a.st # "closed")
       /\ (a.st = "closed" => writes'[d] = <<>> /\ notifies'[d] = <<>>)
  OBVIOUS
<1> QED
  BY <1>3, <1>4, <1>8, <1>9, <1>10, <1>11, <1>12, <1>13, <1>14 DEF DialFits

LEMMA NotifyComesKeeps == ASSUME GattInv, NEW d \in GattDials, NotifyComes(d) PROVE GattInv'
<1>0. /\ writes[d] \in Seq(GattMessage) /\ notifies[d] \in Seq(GattMessage) /\ notifies[d] # <<>>
      /\ central[d].pipe \in GattPipe /\ d \in Nat
  BY SessionsTell, GattAssumption DEF NotifyComes
<1>1. DialFits(d) /\ WritesFit(d) /\ NotifiesFit(d)
  BY DEF GattInv
<1>2. PICK m : m = Head(notifies[d])
  OBVIOUS
<1>3. m \in GattMessage /\ FromSession(m)
  BY <1>0, <1>1, <1>2, AuthTaken DEF NotifiesFit
<1>4. PICK a : a = After(central[d].pipe, d, d, m)
  OBVIOUS
<1>5. Outcome(central[d].pipe, d, d, m, a)
  BY <1>0, <1>3, <1>4, AfterTells
<1>6. PICK c : c = [pipe |-> a, up |-> a.st # "closed"]
  OBVIOUS
<1>7. a \in GattPipe /\ c \in GattCentral /\ c.pipe = a /\ c.up = (a.st # "closed")
  BY <1>5, <1>6 DEF Outcome, GattCentral
<1>8. PICK v, n : /\ v = IF a.st # "closed" THEN writes[d] \o Answers(central[d].pipe, d, d, d, m) ELSE <<>>
                  /\ n = IF a.st # "closed" THEN Tail(notifies[d]) ELSE <<>>
  OBVIOUS
<1>9. /\ central' = [central EXCEPT ![d] = c]
      /\ writes' = [writes EXCEPT ![d] = v] /\ notifies' = [notifies EXCEPT ![d] = n]
      /\ mixed' = IF m.link # d THEN [mixed EXCEPT !.dials = @ \cup {d}] ELSE mixed
      /\ UNCHANGED <<gattSession, activeInbound, sessionInbound, acceptInflight>>
  BY <1>2, <1>4, <1>6, <1>8 DEF NotifyComes, ProviderUnchanged
<1>10. \/ v = <<>> \/ v = writes[d]
       \/ m.op = "hello" /\ Joined(writes[d], v, Message("auth", d, d, d, m.by))
  <2>1. PICK r : r = writes[d] \o Answers(central[d].pipe, d, d, d, m)
    OBVIOUS
  <2>2. \/ r = writes[d]
        \/ m.op = "hello" /\ Joined(writes[d], r, Message("auth", d, d, d, m.by))
    <3>1. \/ writes[d] \o Answers(central[d].pipe, d, d, d, m) = writes[d]
          \/ /\ m.op = "hello"
             /\ Joined(writes[d], writes[d] \o Answers(central[d].pipe, d, d, d, m),
                       Message("auth", d, d, d, m.by))
      BY <1>0, <1>3, AnswerJoins, Zenon
    <3> QED
      BY <2>1, <3>1
  <2>3. v = r \/ v = <<>>
    BY <1>8, <2>1
  <2> QED
    BY <2>2, <2>3
<1>11. v \in Seq(GattMessage) /\ n \in Seq(GattMessage)
  <2>1. v \in Seq(GattMessage)
    <3>1. <<>> \in Seq(GattMessage)
      OBVIOUS
    <3> QED
      BY <1>0, <1>10, <3>1 DEF Joined
  <2>2. n \in Seq(GattMessage)
    BY <1>0, <1>8, AuthTaken
  <2> QED
    BY <2>1, <2>2
<1>12. /\ central' \in [GattDials -> GattCentral] /\ central'[d] = c
       /\ \A e \in GattDials : e # d => central'[e] = central[e]
  BY <1>7, <1>9, SessionsTell
<1>13. /\ writes' \in [GattDials -> Seq(GattMessage)] /\ notifies' \in [GattDials -> Seq(GattMessage)]
       /\ writes'[d] = v /\ notifies'[d] = n
       /\ \A e \in GattDials : e # d => writes'[e] = writes[e] /\ notifies'[e] = notifies[e]
  BY <1>9, <1>11, SessionsTell
<1>14. central[d].pipe.st \notin {"new", "closed"}
  BY <1>0, <1>1, SessionsTell DEF DialFits
<1>15. /\ central'[d].pipe = a /\ central'[d].up = (a.st # "closed")
       /\ (a.st = "closed" => writes'[d] = <<>> /\ notifies'[d] = <<>>)
  BY <1>7, <1>8, <1>12, <1>13
<1>16. DialFits(d)'
  BY <1>3, <1>5, <1>9, <1>14, <1>15, PipeHears
<1>17. mixed \in [dials : SUBSET GattDials, sessions : SUBSET Nat]
  BY DEF GattInv, GattShape
<1>18. /\ mixed'.sessions = mixed.sessions /\ mixed.dials \subseteq mixed'.dials
       /\ m.link # d => d \in mixed'.dials
       /\ mixed' = mixed \/ mixed' = [mixed EXCEPT !.dials = @ \cup {d}]
  BY <1>9, <1>17
<1>19. /\ central[d].pipe.authSent => central'[d].pipe.authSent
       /\ m.op = "hello" => central'[d].pipe.authSent
  BY <1>5, <1>15 DEF Outcome
<1>20. WritesFit(d)'
  <2>1. \A x : FromDial(x) /\ x.by = d => FromDial(x)'
    BY <1>9, <1>18, <1>19 DEF FromDial
  <2>2. Accepted(d)' <=> Accepted(d)
    BY <1>9 DEF Accepted
  <2>3. CASE v = <<>>
    <3>1. Len(v) = 0
      BY <2>3
    <3> QED
      BY <1>13, <3>1, WritesAre
  <2>4. ASSUME NEW i \in 1..Len(writes[d])
        PROVE  /\ FromDial(writes[d][i]) /\ writes[d][i].by = d
               /\ writes[d][i].op = "open" => i = 1 /\ ~Accepted(d)
    BY <1>1 DEF WritesFit
  <2>5. CASE v = writes[d]
    <3>1. ASSUME NEW i \in 1..Len(v)
          PROVE  FromDial(v[i])' /\ v[i].by = d /\ (v[i].op = "open" => i = 1 /\ ~Accepted(d)')
      <4>1. i \in 1..Len(writes[d]) /\ v[i] = writes[d][i]
        BY <2>5
      <4>2. FromDial(v[i]) /\ v[i].by = d /\ (v[i].op = "open" => i = 1 /\ ~Accepted(d))
        BY <2>4, <4>1
      <4> QED
        BY <2>1, <2>2, <4>2
    <3> QED
      BY <1>13, <3>1, WritesAre
  <2>6. CASE m.op = "hello" /\ Joined(writes[d], v, Message("auth", d, d, d, m.by))
    <3>1. PICK x : x = Message("auth", d, d, d, m.by)
      OBVIOUS
    <3>2. x.op = "auth" /\ x.by = d /\ x.node = d /\ x.link = d /\ x.to = m.by
      BY <3>1 DEF Message
    <3>3. FromDial(x)'
      <4>1. m.by \in 1..Len(gattSession) /\ gattSession[m.by].link = m.link
        BY <1>3 DEF FromSession
      <4>2. m.by \in 1..Len(gattSession') /\ (gattSession'[m.by].link = d \/ d \in mixed'.dials)
        BY <1>9, <1>18, <4>1
      <4> QED
        BY <1>19, <2>6, <3>2, <4>2 DEF FromDial
    <3>4. ASSUME NEW i \in 1..Len(v)
          PROVE  FromDial(v[i])' /\ v[i].by = d /\ (v[i].op = "open" => i = 1 /\ ~Accepted(d)')
      <4>1. (i \in 1..Len(writes[d]) /\ v[i] = writes[d][i]) \/ v[i] = x
        BY <2>6, <3>1 DEF Joined
      <4>2. CASE i \in 1..Len(writes[d]) /\ v[i] = writes[d][i]
        <5>1. FromDial(v[i]) /\ v[i].by = d /\ (v[i].op = "open" => i = 1 /\ ~Accepted(d))
          BY <2>4, <4>2
        <5> QED
          BY <2>1, <2>2, <5>1
      <4>3. CASE v[i] = x
        BY <3>2, <3>3, <4>3
      <4> QED
        BY <4>1, <4>2, <4>3
    <3> QED
      BY <1>13, <3>4, WritesAre
  <2> QED
    BY <1>10, <2>3, <2>5, <2>6
<1>21. NotifiesFit(d)'
  <2>1. \A x : FromSession(x) => FromSession(x)'
    BY <1>9, <1>18 DEF FromSession
  <2>2. CASE a.st # "closed"
    <3>1. ASSUME NEW i \in 1..Len(n) PROVE FromSession(n[i])'
      <4>1. n[i] = notifies[d][i + 1] /\ i + 1 \in 1..Len(notifies[d])
        BY <1>0, <1>8, <2>2, AuthTaken
      <4>2. FromSession(n[i])
        BY <1>1, <4>1 DEF NotifiesFit
      <4> QED
        BY <2>1, <4>2
    <3> QED
      BY <1>13, <3>1, NotifiesAre
  <2>3. CASE a.st = "closed"
    <3>1. Len(n) = 0
      BY <1>8, <2>3
    <3> QED
      BY <1>13, <3>1, NotifiesAre
  <2> QED
    BY <2>2, <2>3
<1> QED
  BY <1>9, <1>12, <1>13, <1>16, <1>18, <1>19, <1>20, <1>21, DialStep

LEMMA NotifiedFits ==
  ASSUME GattInv, NEW ms, ms = <<>> \/ (\E x \in GattMessage : ms = <<x>> /\ FromSession(x)'),
         notifies' = Notified(ms), \A x : FromSession(x) => FromSession(x)'
  PROVE  /\ notifies' \in [GattDials -> Seq(GattMessage)]
         /\ \A e \in GattDials : ~central[e].up => notifies'[e] = notifies[e]
         /\ \A e \in GattDials : NotifiesFit(e)'
<1>1. ASSUME NEW e \in GattDials
      PROVE  /\ notifies'[e] \in Seq(GattMessage)
             /\ ~central[e].up => notifies'[e] = notifies[e]
             /\ NotifiesFit(e)'
  <2>1. PICK q : q = notifies[e]
    OBVIOUS
  <2>2. q \in Seq(GattMessage) /\ \A i \in 1..Len(q) : FromSession(q[i])
    BY <2>1, SessionsTell DEF GattInv, NotifiesFit
  <2>3. PICK n : n = notifies'[e]
    OBVIOUS
  <2>4. n = (IF serving /\ central[e].up THEN q \o ms ELSE q)
    BY <2>1, <2>3 DEF Notified
  <2>5. CASE n = q
    <3>1. ASSUME NEW i \in 1..Len(n) PROVE FromSession(n[i])'
      BY <2>2, <2>5
    <3> QED
      BY <2>1, <2>2, <2>3, <2>5, <3>1, NotifiesAre
  <2>6. CASE n = q \o ms /\ central[e].up
    <3>1. CASE ms = <<>>
      <4>1. n = q
        BY <2>2, <2>6, <3>1
      <4> QED
        BY <2>5, <4>1
    <3>2. ASSUME NEW x \in GattMessage, ms = <<x>>, FromSession(x)'
          PROVE  n \in Seq(GattMessage) /\ NotifiesFit(e)'
      <4>1. /\ n \in Seq(GattMessage)
            /\ \A i \in 1..Len(n) : (i \in 1..Len(q) /\ n[i] = q[i]) \/ n[i] = x
        BY <2>2, <2>6, <3>2, Added
      <4>2. ASSUME NEW i \in 1..Len(n) PROVE FromSession(n[i])'
        <5>1. CASE i \in 1..Len(q) /\ n[i] = q[i]
          BY <2>2, <5>1
        <5>2. CASE n[i] = x
          BY <3>2, <5>2
        <5> QED
          BY <4>1, <5>1, <5>2
      <4> QED
        BY <2>3, <4>1, <4>2, NotifiesAre
    <3> QED
      BY <2>3, <2>6, <3>1, <3>2
  <2> QED
    BY <2>4, <2>5, <2>6
<1>2. notifies' = [e \in GattDials |-> notifies'[e]]
  BY DEF Notified
<1> QED
  BY <1>1, <1>2

LEMMA WritesStay ==
  ASSUME NEW d, WritesFit(d), writes'[d] = writes[d], Accepted(d)' => Accepted(d),
         \A m : FromDial(m) => FromDial(m)'
  PROVE  WritesFit(d)'
<1>1. PICK q : q = writes[d]
  OBVIOUS
<1>2. ASSUME NEW i \in 1..Len(q)
      PROVE  FromDial(q[i])' /\ q[i].by = d /\ (q[i].op = "open" => i = 1 /\ ~Accepted(d)')
  <2>1. FromDial(q[i]) /\ q[i].by = d /\ (q[i].op = "open" => i = 1 /\ ~Accepted(d))
    BY <1>1 DEF WritesFit
  <2> QED
    BY <2>1
<1> QED
  BY <1>1, <1>2, WritesAre

LEMMA WriteTaken ==
  ASSUME NEW d, WritesFit(d), writes[d] \in Seq(GattMessage), writes[d] # <<>>,
         writes'[d] = Tail(writes[d]), \A m : FromDial(m) => FromDial(m)'
  PROVE  WritesFit(d)'
<1>1. PICK q : q = Tail(writes[d])
  OBVIOUS
<1>2. ASSUME NEW i \in 1..Len(q)
      PROVE  FromDial(q[i])' /\ q[i].by = d /\ (q[i].op = "open" => i = 1 /\ ~Accepted(d)')
  <2>1. i + 1 \in 1..Len(writes[d]) /\ i + 1 # 1 /\ q[i] = writes[d][i + 1]
    BY <1>1, AuthTaken
  <2>2. FromDial(q[i]) /\ q[i].by = d /\ q[i].op # "open"
    BY <2>1 DEF WritesFit
  <2> QED
    BY <2>2
<1> QED
  BY <1>1, <1>2, WritesAre

\* The peripheral takes a write of a dial.
LEMMA WriteStep ==
  ASSUME GattInv, NEW d \in GattDials, writes[d] # <<>>, writes' = [writes EXCEPT ![d] = Tail(writes[d])],
         central' = central, mixed' \in [dials : SUBSET GattDials, sessions : SUBSET Nat],
         mixed'.dials = mixed.dials, mixed.sessions \subseteq mixed'.sessions,
         gattSession' \in Seq(Inbound), Len(gattSession') \in Nat, Len(gattSession) <= Len(gattSession'),
         \A s \in 1..Len(gattSession) : /\ gattSession'[s].link = gattSession[s].link
                                        /\ gattSession[s].pipe.authSent => gattSession'[s].pipe.authSent,
         activeInbound' \in 0..Len(gattSession'), sessionInbound' = activeInbound',
         acceptInflight' <=> activeInbound' # 0,
         LinksDiffer', \A s \in 1..Len(gattSession') : SessionFits(s)',
         \A e \in GattDials : Accepted(e)' => Accepted(e) \/ e = d,
         notifies' \in [GattDials -> Seq(GattMessage)],
         \A e \in GattDials : (~central[e].up => notifies'[e] = notifies[e]) /\ NotifiesFit(e)'
  PROVE  GattInv'
<1>1. /\ \A m : FromSession(m) => FromSession(m)'
      /\ \A m : FromDial(m) => FromDial(m)'
  BY SessionsTell, MessagesStay
<1>2. writes[d] \in Seq(GattMessage) /\ Tail(writes[d]) \in Seq(GattMessage)
  BY SessionsTell, AuthTaken
<1>3. /\ writes' \in [GattDials -> Seq(GattMessage)] /\ writes'[d] = Tail(writes[d])
      /\ \A e \in GattDials : e # d => writes'[e] = writes[e]
  BY <1>2, SessionsTell
<1>4. GattShape'
  <2>1. central' \in [GattDials -> GattCentral]
    BY SessionsTell
  <2> QED
    BY <1>3, <2>1 DEF GattShape
<1>5. ASSUME NEW e \in GattDials PROVE DialFits(e)' /\ WritesFit(e)'
  <2>1. DialFits(e) /\ WritesFit(e) /\ central'[e] = central[e] /\ central[e].up \in BOOLEAN
    BY SessionsTell DEF GattInv
  <2>2. e = d => central[e].up
    BY <2>1 DEF DialFits
  <2>3. central[e].pipe.st = "new" => ~Accepted(e)'
    BY <2>1, <2>2 DEF DialFits
  <2>4. ~central[e].up => writes'[e] = <<>> /\ notifies'[e] = <<>>
    BY <1>3, <2>1, <2>2 DEF DialFits
  <2>5. central[e].pipe.st = "ready" =>
          \E s \in 1..Len(gattSession') : gattSession'[s].link = e /\ gattSession'[s].pipe.authSent
    <3>1. \A s \in 1..Len(gattSession) : s \in 1..Len(gattSession')
      BY SessionsTell
    <3> QED
      BY <2>1, <3>1 DEF DialFits
  <2>6. e \notin mixed'.dials /\ central[e].pipe.heard # NoHello =>
          /\ central[e].pipe.heard.by \in 1..Len(gattSession') /\ central[e].pipe.heard.node = 0
          /\ gattSession'[central[e].pipe.heard.by].link = e
    <3>1. \A s \in 1..Len(gattSession) : s \in 1..Len(gattSession')
      BY SessionsTell
    <3> QED
      BY <2>1, <3>1 DEF DialFits
  <2>7. DialFits(e)'
    BY <1>1, <2>1, <2>3, <2>4, <2>5, <2>6 DEF DialFits
  <2>8. CASE e # d
    <3>1. WritesFit(e)'
      BY <1>1, <1>3, <2>1, <2>8, WritesStay
    <3> QED
      BY <2>7, <3>1
  <2>9. CASE e = d
    <3>1. WritesFit(e)'
      BY <1>1, <1>2, <1>3, <2>1, <2>9, WriteTaken
    <3> QED
      BY <2>7, <3>1
  <2> QED
    BY <2>8, <2>9, <2>7
<1> QED
  BY <1>4, <1>5 DEF GattInv

\* What a dial writes and a pipe of the peripheral hears.
LEMMA SessionHears ==
  ASSUME GattInv, NEW s \in 1..Len(gattSession), NEW m \in GattMessage, FromDial(m), NEW a, NEW l,
         l = gattSession[s].link, Outcome(gattSession[s].pipe, s, l, m, a),
         gattSession[s].pipe.st # "closed", s \in Nat \ {0},
         gattSession'[s].pipe = a, gattSession'[s].link = l,
         Len(gattSession') = Len(gattSession),
         \A t \in 1..Len(gattSession) : gattSession'[t].link = gattSession[t].link,
         mixed' = IF m.link # l THEN [mixed EXCEPT !.sessions = @ \cup {s}] ELSE mixed,
         activeInbound' = (IF a.st = "closed" THEN 0 ELSE activeInbound), UNCHANGED central
  PROVE  SessionFits(s)'
<1> DEFINE p == gattSession[s].pipe
<1>1. /\ p.st \in {"shakes", "ready"} /\ activeInbound = s
      /\ p.st = "ready" => central[l].pipe.authSent
      /\ p.pendingAuth # <<>> => p.pendingAuth[1].op = "auth" /\ FromDial(p.pendingAuth[1])
      /\ s \notin mixed.sessions =>
           /\ p.heard # NoHello => p.heard.by = l /\ p.heard.node = l
           /\ p.pendingAuth # <<>> => p.pendingAuth[1].link = l
      /\ ~p.blamed
  BY DEF GattInv, SessionFits
<1>2. mixed \in [dials : SUBSET GattDials, sessions : SUBSET Nat]
  BY DEF GattInv, GattShape
<1>3. /\ mixed'.dials = mixed.dials /\ mixed.sessions \subseteq mixed'.sessions
      /\ m.link # l => s \in mixed'.sessions
  BY <1>2
<1>4. \A x : FromDial(x) => FromDial(x)'
  BY <1>3 DEF FromDial
<1>5. ASSUME NEW x \in GattMessage, VerifiedBy(p, m, x)
      PROVE  x.op = "auth" /\ FromDial(x) /\ (s \notin mixed'.sessions => x.link = l)
  BY <1>1, <1>3, <1>5 DEF VerifiedBy
<1>6. /\ a.heard = p.heard \/ (m.op = "hello" /\ a.heard = [by |-> m.by, node |-> m.node])
      /\ a.pendingAuth # <<>> => \/ m.op = "auth" /\ a.pendingAuth = <<m>>
                                 \/ p.pendingAuth # <<>> /\ a.pendingAuth[1] = p.pendingAuth[1]
      /\ \/ a.st = p.st
         \/ a.st = "closed"
         \/ a.st = "ready" /\ \E x \in GattMessage : VerifiedBy(p, m, x) /\ x.link = l
      /\ a.blamed =>
           \/ p.blamed
           \/ a.st = "closed" /\ \E x \in GattMessage : VerifiedBy(p, m, x) /\ Unfit(x, s, l, a.heard)
  BY DEF Outcome
<1> HIDE DEF p
<1>7. a.st \in {"shakes", "ready", "closed"} /\ (a.st # "closed" <=> activeInbound' = s)
  <2>1. a.st \in {"shakes", "ready", "closed"}
    BY <1>1, <1>6
  <2> QED
    BY <1>1, <2>1
<1>8. s \notin mixed'.sessions /\ a.heard # NoHello => a.heard.by = l /\ a.heard.node = l
  <2>1. CASE a.heard = p.heard
    BY <1>1, <1>3, <2>1
  <2>2. CASE a.heard = [by |-> m.by, node |-> m.node]
    BY <1>3, <2>2 DEF FromDial
  <2> QED
    BY <1>6, <2>1, <2>2
<1>9. a.st = "ready" => central[l].pipe.authSent
  <2>1. ASSUME NEW x \in GattMessage, VerifiedBy(p, m, x), x.link = l
        PROVE  central[l].pipe.authSent
    BY <1>5, <2>1 DEF FromDial
  <2> QED
    BY <1>1, <1>6, <2>1
<1>10. a.pendingAuth # <<>> => a.pendingAuth[1].op = "auth" /\ FromDial(a.pendingAuth[1])
  BY <1>1, <1>6
<1>11. s \notin mixed'.sessions => (a.pendingAuth # <<>> => a.pendingAuth[1].link = l)
  BY <1>1, <1>3, <1>6
<1>12. a.blamed => a.st = "closed" /\ (s \in mixed'.sessions \/ l \in mixed.dials)
  <2>1. ASSUME NEW x \in GattMessage, VerifiedBy(p, m, x), Unfit(x, s, l, a.heard), s \notin mixed'.sessions
        PROVE  l \in mixed.dials
    <3>1. x.op = "auth" /\ FromDial(x) /\ x.link = l
      BY <1>5, <2>1
    <3>2. a.heard # NoHello /\ a.heard.node = l
      BY <1>8, <2>1 DEF Unfit
    <3>3. /\ x.by = l /\ x.node = l
          /\ (x.to \in 1..Len(gattSession) /\ gattSession[x.to].link = l) \/ l \in mixed.dials
      BY <3>1 DEF FromDial
    <3>4. x.to # s
      BY <2>1, <3>1, <3>2, <3>3 DEF Unfit
    <3>5. x.to \in 1..Len(gattSession) /\ gattSession[x.to].link = l => x.to = s
      BY DEF GattInv, LinksDiffer
    <3> QED
      BY <3>3, <3>4, <3>5
  <2> QED
    BY <1>1, <1>6, <2>1
<1>13. gattSession'[s].pipe = a /\ gattSession'[s].link = l /\ central' = central
  OBVIOUS
<1> QED
  BY <1>3, <1>4, <1>7, <1>8, <1>9, <1>10, <1>11, <1>12, <1>13 DEF SessionFits

\* The other sessions, at a step of one or as one is added.
LEMMA SessionStays ==
  ASSUME GattInv, NEW t \in 1..Len(gattSession), SessionFits(t),
         gattSession'[t] = gattSession[t], (activeInbound' = t <=> activeInbound = t),
         central' = central, mixed'.dials = mixed.dials, t \in mixed'.sessions <=> t \in mixed.sessions,
         \A x : FromDial(x) => FromDial(x)'
  PROVE  SessionFits(t)'
BY DEF SessionFits

LEMMA SessionGetsKeeps ==
  ASSUME GattInv, NEW d \in GattDials, WriteComes(d), sessionInbound # 0 PROVE GattInv'
<1>0. writes[d] \in Seq(GattMessage) /\ writes[d] # <<>>
  BY SessionsTell DEF WriteComes
<1>1. PICK m : m = Head(writes[d])
  OBVIOUS
<1>2. m \in GattMessage /\ FromDial(m) /\ m.by = d
  BY <1>0, <1>1, AuthTaken DEF GattInv, WritesFit
<1>3. PICK s : s = activeInbound
  OBVIOUS
<1>4. s \in 1..Len(gattSession) /\ sessionInbound = s /\ s \in Nat \ {0}
  BY <1>3, SessionsTell DEF GattInv, GattShape
<1>5. PICK l : l = gattSession[s].link
  OBVIOUS
<1>6. SessionFits(s) /\ gattSession[s].pipe \in GattPipe /\ l \in GattDials /\ l \in Nat
  BY <1>4, <1>5, SessionsTell, GattAssumption DEF GattInv
<1>7. gattSession[s].pipe.st # "closed"
  BY <1>3, <1>6 DEF SessionFits
<1>8. PICK a : a = After(gattSession[s].pipe, s, l, m)
  OBVIOUS
<1>9. Outcome(gattSession[s].pipe, s, l, m, a)
  BY <1>2, <1>6, <1>8, AfterTells
<1>10. PICK ms : ms = Answers(gattSession[s].pipe, s, 0, l, m)
  OBVIOUS
<1>11. /\ gattSession' = [gattSession EXCEPT ![s].pipe = a] /\ notifies' = Notified(ms)
       /\ mixed' = IF m.link # l THEN [mixed EXCEPT !.sessions = @ \cup {s}] ELSE mixed
       /\ IF a.st = "closed" THEN Released ELSE UNCHANGED <<activeInbound, sessionInbound, acceptInflight>>
       /\ central' = central /\ writes' = [writes EXCEPT ![d] = Tail(writes[d])]
  BY <1>1, <1>4, <1>5, <1>8, <1>10 DEF WriteComes, SessionGets, DialsUnchanged
<1>12. a \in GattPipe /\ (gattSession[s].pipe.authSent => a.authSent) /\ (m.op = "hello" => a.authSent)
  BY <1>9 DEF Outcome
<1>13. PICK b : b = [gattSession[s] EXCEPT !.pipe = a]
  OBVIOUS
<1>14. b \in Inbound /\ b.pipe = a /\ b.link = l
  <2>1. gattSession[s] \in Inbound
    BY <1>4, SessionsTell
  <2> QED
    BY <1>5, <1>12, <1>13, <2>1 DEF Inbound
<1>15. gattSession' = [gattSession EXCEPT ![s] = b]
  BY <1>11, <1>13
<1>16. /\ gattSession' \in Seq(Inbound) /\ Len(gattSession') = Len(gattSession) /\ gattSession'[s] = b
       /\ \A t \in 1..Len(gattSession) : t # s => gattSession'[t] = gattSession[t]
  BY <1>4, <1>14, <1>15, SessionsTell, ExceptSeq
<1>17. \A t \in 1..Len(gattSession) : /\ gattSession'[t].link = gattSession[t].link
                                      /\ gattSession[t].pipe.authSent => gattSession'[t].pipe.authSent
  <2> TAKE t \in 1..Len(gattSession)
  <2>1. CASE t = s
    BY <1>5, <1>12, <1>14, <1>16, <2>1
  <2>2. CASE t # s
    BY <1>16, <2>2
  <2> QED
    BY <2>1, <2>2
<1>18. mixed \in [dials : SUBSET GattDials, sessions : SUBSET Nat]
  BY DEF GattInv, GattShape
<1>19. /\ mixed' \in [dials : SUBSET GattDials, sessions : SUBSET Nat]
       /\ mixed'.dials = mixed.dials /\ mixed.sessions \subseteq mixed'.sessions
       /\ mixed'.sessions \subseteq mixed.sessions \cup {s} /\ (m.link # l => s \in mixed'.sessions)
  BY <1>4, <1>11, <1>18
<1>20. activeInbound' = (IF a.st = "closed" THEN 0 ELSE activeInbound)
       /\ sessionInbound' = activeInbound' /\ (acceptInflight' <=> activeInbound' # 0)
  BY <1>3, <1>4, <1>11 DEF Released, GattInv, GattShape
<1>21. /\ \A x : FromSession(x) => FromSession(x)'
       /\ \A x : FromDial(x) => FromDial(x)'
  <2>1. Len(gattSession') \in Nat /\ Len(gattSession) <= Len(gattSession')
    BY <1>16, SessionsTell
  <2>2. \A e \in GattDials : central[e].pipe.authSent => central'[e].pipe.authSent
    BY <1>11
  <2> QED
    BY <1>17, <1>19, <2>1, <2>2, SessionsTell, MessagesStay
<1>22. SessionFits(s)'
  <2>1. gattSession'[s].pipe = a /\ gattSession'[s].link = l
    BY <1>14, <1>16
  <2> QED
    BY <1>2, <1>4, <1>5, <1>7, <1>9, <1>11, <1>16, <1>17, <1>20, <2>1, SessionHears
<1>23. \A t \in 1..Len(gattSession') : SessionFits(t)'
  <2> SUFFICES ASSUME NEW t \in 1..Len(gattSession) PROVE SessionFits(t)'
    BY <1>16
  <2>1. CASE t = s
    BY <1>22, <2>1
  <2>2. CASE t # s
    <3>1. SessionFits(t) /\ gattSession'[t] = gattSession[t] /\ (t \in mixed'.sessions <=> t \in mixed.sessions)
      BY <1>16, <1>19, <2>2 DEF GattInv
    <3>2. activeInbound' = t <=> activeInbound = t
      BY <1>3, <1>20, <2>2
    <3> QED
      BY <1>11, <1>19, <1>21, <3>1, <3>2, SessionStays
  <2> QED
    BY <2>1, <2>2
<1>24. LinksDiffer'
  BY <1>16, <1>17 DEF GattInv, LinksDiffer
<1>25. \A e \in GattDials : Accepted(e)' => Accepted(e) \/ e = d
  BY <1>16, <1>17 DEF Accepted
<1>26. ms = <<>> \/ (\E x \in GattMessage : ms = <<x>> /\ FromSession(x)')
  <2>1. CASE m.op = "hello" /\ ~gattSession[s].pipe.authSent
    <3>1. PICK x : x = Message("auth", s, 0, l, m.by)
      OBVIOUS
    <3>2. x \in GattMessage /\ x.op = "auth" /\ x.by = s /\ x.node = 0 /\ x.link = l /\ x.to = m.by
      BY <1>2, <1>4, <1>6, <3>1 DEF Message, GattMessage
    <3>3. ms = <<x>>
      BY <1>10, <2>1, <3>1 DEF Answers
    <3>4. m.link = m.by
      BY <1>2 DEF FromDial
    <3>5. FromSession(x)'
      <4>1. s \in 1..Len(gattSession') /\ gattSession'[s].link = l /\ gattSession'[s].pipe.authSent
        BY <1>4, <1>12, <1>14, <1>16, <2>1
      <4>2. x.to = x.link \/ s \in mixed'.sessions
        BY <1>19, <3>2, <3>4
      <4> QED
        BY <3>2, <4>1, <4>2 DEF FromSession
    <3> QED
      BY <3>2, <3>3, <3>5
  <2>2. CASE ~(m.op = "hello" /\ ~gattSession[s].pipe.authSent)
    BY <1>10, <2>2 DEF Answers
  <2> QED
    BY <2>1, <2>2
<1>27. /\ notifies' \in [GattDials -> Seq(GattMessage)]
       /\ \A e \in GattDials : (~central[e].up => notifies'[e] = notifies[e]) /\ NotifiesFit(e)'
  BY <1>11, <1>21, <1>26, NotifiedFits
<1>28. activeInbound' \in 0..Len(gattSession') /\ Len(gattSession') \in Nat /\ Len(gattSession) <= Len(gattSession')
  BY <1>3, <1>4, <1>16, <1>20, SessionsTell
<1> QED
  BY <1>0, <1>11, <1>16, <1>17, <1>19, <1>20, <1>23, <1>24, <1>25, <1>27, <1>28, WriteStep

LEMMA acceptKeeps ==
  ASSUME GattInv, NEW d \in GattDials, WriteComes(d), sessionInbound = 0 PROVE GattInv'
<1>0. writes[d] \in Seq(GattMessage) /\ writes[d] # <<>> /\ Len(gattSession) \in Nat
  BY SessionsTell DEF WriteComes
<1>1. PICK m : m = Head(writes[d])
  OBVIOUS
<1>2. m \in GattMessage /\ FromDial(m) /\ m.by = d /\ (m.op = "open" => ~Accepted(d))
  BY <1>0, <1>1, AuthTaken DEF GattInv, WritesFit
<1>3. m.link = d /\ activeInbound = 0 /\ sessionInbound = 0 /\ (acceptInflight <=> activeInbound # 0)
      /\ ~acceptInflight
  BY <1>2 DEF FromDial, GattInv, GattShape
<1>4. /\ acceptPeripheralWrite(m)
      /\ central' = central /\ writes' = [writes EXCEPT ![d] = Tail(writes[d])]
  BY <1>1 DEF WriteComes, DialsUnchanged
<1>5. mixed \in [dials : SUBSET GattDials, sessions : SUBSET Nat] /\ LinksDiffer
      /\ \A t \in 1..Len(gattSession) : SessionFits(t)
  BY DEF GattInv, GattShape
<1>6. CASE UNCHANGED <<gattSession, activeInbound, sessionInbound, acceptInflight, notifies, mixed>>
  <2>1. /\ \A x : FromSession(x) => FromSession(x)'
        /\ \A x : FromDial(x) => FromDial(x)'
    BY <1>4, <1>6 DEF FromSession, FromDial
  <2>2. \A t \in 1..Len(gattSession') : SessionFits(t)'
    <3> SUFFICES ASSUME NEW t \in 1..Len(gattSession) PROVE SessionFits(t)'
      BY <1>6
    <3>1. gattSession'[t] = gattSession[t] /\ (activeInbound' = t <=> activeInbound = t)
          /\ mixed'.dials = mixed.dials /\ (t \in mixed'.sessions <=> t \in mixed.sessions)
      BY <1>6
    <3> QED
      BY <1>4, <1>5, <2>1, <3>1, SessionStays
  <2>3. LinksDiffer' /\ \A e \in GattDials : Accepted(e)' => Accepted(e) \/ e = d
    BY <1>5, <1>6 DEF LinksDiffer, Accepted
  <2>4. \A e \in GattDials : (~central[e].up => notifies'[e] = notifies[e]) /\ NotifiesFit(e)'
    BY <1>6 DEF GattInv, NotifiesFit, FromSession
  <2>5. activeInbound' \in 0..Len(gattSession') /\ gattSession' \in Seq(Inbound)
        /\ Len(gattSession') \in Nat /\ Len(gattSession) <= Len(gattSession')
        /\ notifies' \in [GattDials -> Seq(GattMessage)]
    BY <1>3, <1>6, SessionsTell
  <2>6. \A s \in 1..Len(gattSession) : /\ gattSession'[s].link = gattSession[s].link
                                       /\ gattSession[s].pipe.authSent => gattSession'[s].pipe.authSent
    BY <1>6
  <2>7. sessionInbound' = activeInbound' /\ (acceptInflight' <=> activeInbound' # 0)
        /\ mixed' \in [dials : SUBSET GattDials, sessions : SUBSET Nat]
        /\ mixed'.dials = mixed.dials /\ mixed.sessions \subseteq mixed'.sessions
    BY <1>3, <1>5, <1>6
  <2> QED
    BY <1>0, <1>4, <2>2, <2>3, <2>4, <2>5, <2>6, <2>7, WriteStep
<1>7. CASE ~UNCHANGED <<gattSession, activeInbound, sessionInbound, acceptInflight, notifies, mixed>>
  <2> DEFINE n == Len(gattSession) + 1
  <2>1. PICK b : b = [pipe |-> NewGattPipe("shakes"), link |-> d]
    OBVIOUS
  <2>2. PICK x : x = Message("hello", n, 0, d, 0)
    OBVIOUS
  <2>3. /\ m.op = "open" /\ gattSession' = Append(gattSession, b)
        /\ activeInbound' = n /\ sessionInbound' = n /\ acceptInflight' = TRUE
        /\ notifies' = Notified(<<x>>) /\ mixed' = mixed
    BY <1>3, <1>4, <1>7, <2>1, <2>2 DEF acceptPeripheralWrite
  <2>4. NewGattPipe("shakes") \in GattPipe
    BY DEF NewGattPipe, NoHello, GattPipe, PendingSet
  <2>5. /\ b \in Inbound /\ b.link = d /\ b.pipe.st = "shakes" /\ b.pipe.pendingAuth = <<>>
        /\ b.pipe.heard = NoHello /\ b.pipe.blamed = FALSE
    BY <2>1, <2>4 DEF Inbound, NewGattPipe
  <2>6. x \in GattMessage /\ x.op = "hello" /\ x.by = n /\ x.node = 0 /\ x.link = d
    BY <1>0, <2>2, GattAssumption DEF Message, GattMessage
  <2>7. /\ gattSession' \in Seq(Inbound) /\ Len(gattSession') = n /\ gattSession'[n] = b
        /\ \A t \in 1..Len(gattSession) : gattSession'[t] = gattSession[t]
    BY <2>3, <2>5, SessionsTell, AppendProperties
  <2>8. /\ n \in Nat \ {0} /\ n \in 1..n /\ Len(gattSession) <= n
        /\ \A t \in 1..n : t \in 1..Len(gattSession) \/ t = n
        /\ \A t \in 1..Len(gattSession) : t # n
    BY <1>0
  <2> HIDE DEF n
  <2>9. /\ \A y : FromSession(y) => FromSession(y)'
        /\ \A y : FromDial(y) => FromDial(y)'
    BY <1>0, <1>4, <2>3, <2>7, <2>8, MessagesStay
  <2>10. ASSUME NEW t \in 1..Len(gattSession') PROVE SessionFits(t)'
    <3>1. CASE t = n
      <4>1. gattSession'[t] = b /\ activeInbound' = t
        BY <2>3, <2>7, <3>1
      <4> QED
        BY <2>5, <4>1 DEF SessionFits
    <3>2. CASE t \in 1..Len(gattSession)
      <4>1. gattSession'[t] = gattSession[t] /\ (activeInbound' = t <=> activeInbound = t)
            /\ mixed'.dials = mixed.dials /\ (t \in mixed'.sessions <=> t \in mixed.sessions)
        BY <1>3, <2>3, <2>7, <2>8, <3>2
      <4> QED
        BY <1>4, <1>5, <2>9, <3>2, <4>1, SessionStays
    <3> QED
      BY <2>7, <2>8, <3>1, <3>2
  <2>11. \A e \in GattDials : Accepted(e)' => Accepted(e) \/ e = d
    BY <2>5, <2>7, <2>8 DEF Accepted
  <2>12. LinksDiffer'
    <3> SUFFICES ASSUME NEW s \in 1..n, NEW t \in 1..n, gattSession'[s].link = gattSession'[t].link
                 PROVE  s = t
      BY <2>7 DEF LinksDiffer
    <3>1. \A u \in 1..Len(gattSession) : gattSession'[u].link = gattSession[u].link /\ gattSession[u].link # d
      BY <1>2, <2>3, <2>7 DEF Accepted
    <3>2. CASE s \in 1..Len(gattSession) /\ t \in 1..Len(gattSession)
      BY <1>5, <3>1, <3>2 DEF LinksDiffer
    <3>3. CASE s = n \/ t = n
      BY <2>5, <2>7, <2>8, <3>1, <3>3
    <3> QED
      BY <2>8, <3>2, <3>3
  <2>13. FromSession(x)'
    BY <2>5, <2>6, <2>7, <2>8 DEF FromSession
  <2>14. /\ notifies' \in [GattDials -> Seq(GattMessage)]
         /\ \A e \in GattDials : (~central[e].up => notifies'[e] = notifies[e]) /\ NotifiesFit(e)'
    <3>1. \E y \in GattMessage : <<x>> = <<y>> /\ FromSession(y)'
      BY <2>6, <2>13
    <3>2. PICK ms : ms = <<x>>
      OBVIOUS
    <3> QED
      BY <2>3, <2>9, <3>1, <3>2, NotifiedFits
  <2>15. \A s \in 1..Len(gattSession) : /\ gattSession'[s].link = gattSession[s].link
                                        /\ gattSession[s].pipe.authSent => gattSession'[s].pipe.authSent
    BY <2>7
  <2>16. activeInbound' \in 0..Len(gattSession') /\ Len(gattSession') \in Nat
         /\ Len(gattSession) <= Len(gattSession') /\ sessionInbound' = activeInbound'
         /\ (acceptInflight' <=> activeInbound' # 0)
    BY <2>3, <2>7, <2>8
  <2>17. mixed' \in [dials : SUBSET GattDials, sessions : SUBSET Nat]
         /\ mixed'.dials = mixed.dials /\ mixed.sessions \subseteq mixed'.sessions
    BY <1>5, <2>3
  <2> QED
    BY <1>0, <1>4, <2>7, <2>10, <2>11, <2>12, <2>14, <2>15, <2>16, <2>17, WriteStep
<1> QED
  BY <1>6, <1>7

LEMMA GattKeeps == ASSUME GattInv, [NextGatt]_gattVars PROVE GattInv'
<1>1. CASE UNCHANGED gattVars
  BY <1>1, GattStutters DEF gattVars
<1>2. ASSUME NEW d \in GattDials,
             \/ dialBleGatt(d) \/ DialMisses(d) \/ HelloGoes(d) \/ NotifyComes(d)
             \/ DialEnds(d) \/ DialCloses(d) \/ ConnectionLost(d) \/ WriteComes(d)
      PROVE  GattInv'
  BY <1>2, dialBleGattKeeps, DialMissesKeeps, HelloGoesKeeps, NotifyComesKeeps, DisconnectsKeep,
     SessionGetsKeeps, acceptKeeps
<1>3. ASSUME NEW s \in DOMAIN gattSession, SessionEnds(s) PROVE GattInv'
  BY <1>3, SessionEndsKeeps
<1>4. CASE StopGatt \/ ListenAgain \/ PeripheralServes
  BY <1>4, GattStutters, PeripheralServesKeeps DEF StopGatt, ListenAgain, ListenUnchanged
<1> QED
  BY <1>1, <1>2, <1>3, <1>4 DEF NextGatt

\* The one characteristic of a peripheral is its open session's, a link is ready only with its own
\* other end, and an auth fails only where another link's message came between (ble_gatt.mjs).
THEOREM GattSound == SpecGatt => [](GattTypeOK /\ GattIsSound)
<1>1. InitGatt => GattInv
  BY GattInitial
<1>2. GattInv /\ [NextGatt]_gattVars => GattInv'
  BY GattKeeps
<1>3. GattInv => GattTypeOK /\ GattIsSound
  BY GattTyped
<1> QED
  BY <1>1, <1>2, <1>3, PTL DEF SpecGatt

-----------------------------------------------------------------------------
(* The relays that are used. *)

\* Nearer orders any set of numbers.
LEMMA NearerOrders ==
  ASSUME NEW S, S \subseteq Nat, NEW score, \A x \in S : score[x] \in Int
  PROVE  /\ \A a \in S : ~Nearer(score, a, a)
         /\ \A a, b \in S : a = b \/ Nearer(score, a, b) \/ Nearer(score, b, a)
         /\ \A a, b \in S : Nearer(score, a, b) => ~Nearer(score, b, a)
         /\ \A a, b, c \in S : Nearer(score, a, b) /\ Nearer(score, b, c) => Nearer(score, a, c)
<1>1. ASSUME NEW a \in S, NEW b \in S, NEW c \in S
      PROVE  /\ ~Nearer(score, a, a) /\ (a = b \/ Nearer(score, a, b) \/ Nearer(score, b, a))
             /\ (Nearer(score, a, b) => ~Nearer(score, b, a))
             /\ (Nearer(score, a, b) /\ Nearer(score, b, c) => Nearer(score, a, c))
  <2>1. PICK x, y, z : x = score[a] /\ y = score[b] /\ z = score[c]
    OBVIOUS
  <2>2. x \in Int /\ y \in Int /\ z \in Int /\ a \in Nat /\ b \in Nat /\ c \in Nat
    BY <2>1
  <2>3. /\ (Nearer(score, a, b) <=> x < y \/ (x = y /\ a < b)) /\ (Nearer(score, b, a) <=> y < x \/ (y = x /\ b < a))
        /\ (Nearer(score, b, c) <=> y < z \/ (y = z /\ b < c)) /\ (Nearer(score, a, c) <=> x < z \/ (x = z /\ a < c))
        /\ (Nearer(score, a, a) <=> x < x \/ (x = x /\ a < a))
    BY <2>1 DEF Nearer
  <2> QED
    BY <2>2, <2>3
<1> QED
  BY <1>1

\* A finite set of numbers by a score: all of it, each once, the nearer before the others.
LEMMA RankedIs ==
  ASSUME NEW S, IsFiniteSet(S), S \subseteq Nat, NEW score, \A x \in S : score[x] \in Int
  PROVE  /\ Cardinality(S) \in Nat /\ Ranked(S, score) \in Seq(S) /\ Len(Ranked(S, score)) = Cardinality(S)
         /\ Range(Ranked(S, score)) = S
         /\ \A i, k \in 1..Cardinality(S) : i < k => Nearer(score, Ranked(S, score)[i], Ranked(S, score)[k])
<1> DEFINE n == Cardinality(S)
           Below(r) == {q \in S : Nearer(score, q, r)}
           Rank(r) == Cardinality(Below(r))
           R == Ranked(S, score)
<1>1. n \in Nat
  BY FS_CardinalityType
<1>2. /\ \A a \in S : ~Nearer(score, a, a)
      /\ \A a, b \in S : a = b \/ Nearer(score, a, b) \/ Nearer(score, b, a)
      /\ \A a, b \in S : Nearer(score, a, b) => ~Nearer(score, b, a)
      /\ \A a, b, c \in S : Nearer(score, a, b) /\ Nearer(score, b, c) => Nearer(score, a, c)
  BY NearerOrders
<1>3. ASSUME NEW r \in S PROVE IsFiniteSet(Below(r)) /\ Rank(r) \in 0..(n - 1)
  <2>1. Below(r) \in SUBSET (S \ {r})
    BY <1>2
  <2>2. IsFiniteSet(S \ {r}) /\ Cardinality(S \ {r}) = n - 1
    BY FS_RemoveElement
  <2> HIDE DEF Below, n
  <2>3. IsFiniteSet(Below(r)) /\ Cardinality(Below(r)) <= n - 1
    BY <2>1, <2>2, FS_Subset
  <2>4. Cardinality(Below(r)) \in Nat
    BY <2>3, FS_CardinalityType
  <2> QED
    BY <1>1, <2>3, <2>4
<1>4. ASSUME NEW a \in S, NEW b \in S, Nearer(score, a, b) PROVE Rank(a) < Rank(b)
  <2>1. Below(a) \in SUBSET Below(b) /\ a \in Below(b) /\ a \notin Below(a)
    BY <1>2, <1>4
  <2>2. IsFiniteSet(Below(b)) /\ Rank(a) \in 0..(n - 1) /\ Rank(b) \in 0..(n - 1)
    BY <1>3
  <2> HIDE DEF Below, n
  <2>3. Cardinality(Below(a)) <= Cardinality(Below(b)) /\ (Cardinality(Below(b)) = Cardinality(Below(a)) => Below(b) = Below(a))
    BY <2>1, <2>2, FS_Subset
  <2>4. Cardinality(Below(b)) # Cardinality(Below(a))
    BY <2>1, <2>3
  <2> QED
    BY <1>1, <2>2, <2>3, <2>4
<1>5. ASSUME NEW k \in 1..n PROVE \E r \in S : Rank(r) = k - 1
  <2> DEFINE g == [r \in S |-> Rank(r) + 1]
  <2>a. n \in Nat /\ \A r \in S : Rank(r) \in 0..(n - 1)
    BY <1>1, <1>3
  <2>b. \A a, b \in S : a = b \/ Rank(a) < Rank(b) \/ Rank(b) < Rank(a)
    BY <1>2, <1>4
  <2> HIDE DEF Rank, n
  <2>1. g \in [S -> 1..n]
    <3>1. \A r \in S : Rank(r) + 1 \in 1..n
      BY <2>a
    <3> QED
      BY <3>1
  <2>2. \A a, b \in S : g[a] = g[b] => a = b
    BY <2>a, <2>b
  <2>3. g \in Injection(S, 1..n)
    BY <2>1, <2>2 DEF Injection, IsInjective
  <2>4. IsFiniteSet(1..n) /\ Cardinality(1..n) = n
    BY <2>a, FS_Interval
  <2>5. g \in Surjection(S, 1..n)
    <3>1. Cardinality(S) = Cardinality(1..n)
      BY <2>4 DEF n
    <3> HIDE DEF g
    <3> QED
      BY <2>3, <2>4, <3>1, FS_Injection
  <2>6. PICK r \in S : g[r] = k
    BY <2>5 DEF Surjection
  <2>7. Rank(r) = k - 1
    BY <2>6, <2>a
  <2> QED
    BY <2>7
<1>6. ASSUME NEW k \in 1..n PROVE R[k] \in S /\ Rank(R[k]) = k - 1
  <2>1. R[k] = CHOOSE r \in S : Rank(r) = k - 1
    BY DEF Ranked
  <2>2. \E r \in S : Rank(r) = k - 1
    BY <1>5
  <2> HIDE DEF R, Rank, n
  <2> QED
    BY <2>1, <2>2
<1>7. R \in [1..n -> S]
  <2>1. R = [k \in 1..n |-> R[k]]
    BY DEF Ranked
  <2> HIDE DEF R, Rank, n
  <2> QED
    BY <1>6, <2>1
<1> HIDE DEF R
<1>8. R \in Seq(S) /\ Len(R) = n
  BY <1>1, <1>7, FunctionIsSeq
<1>9. ASSUME NEW i \in 1..n, NEW k \in 1..n, i < k PROVE Nearer(score, R[i], R[k])
  <2>1. R[i] \in S /\ R[k] \in S /\ Rank(R[i]) = i - 1 /\ Rank(R[k]) = k - 1
    BY <1>6
  <2> HIDE DEF Rank, n
  <2>2. ~(Rank(R[k]) < Rank(R[i])) /\ Rank(R[k]) # Rank(R[i])
    BY <1>1, <1>9, <2>1
  <2>3. ~Nearer(score, R[k], R[i]) /\ R[k] # R[i]
    BY <1>4, <2>1, <2>2
  <2> QED
    BY <1>2, <2>1, <2>3
<1>10. ASSUME NEW r \in S PROVE \E k \in 1..n : R[k] = r
  <2>1. Rank(r) \in 0..(n - 1)
    BY <1>3
  <2>2. PICK k : k = Rank(r) + 1
    OBVIOUS
  <2>3. k \in 1..n /\ Rank(r) = k - 1
    <3> HIDE DEF Rank, n
    <3> QED
      BY <1>1, <2>1, <2>2
  <2>4. R[k] \in S /\ Rank(R[k]) = k - 1
    BY <1>6, <2>3
  <2>5. ~(Rank(R[k]) < Rank(r)) /\ ~(Rank(r) < Rank(R[k]))
    <3> HIDE DEF Rank, n
    <3> QED
      BY <1>1, <2>3, <2>4
  <2>6. R[k] = r
    BY <1>2, <1>4, <2>4, <2>5
  <2> QED
    BY <2>3, <2>6
<1>11. Range(R) = S
  <2>1. DOMAIN R = 1..n
    BY <1>7
  <2> QED
    BY <1>6, <1>10, <2>1 DEF Range
<1> QED
  BY <1>1, <1>8, <1>9, <1>11 DEF R

\* The first elements of a sequence.
LEMMA FirstsAre ==
  ASSUME NEW S, NEW u \in Seq(S), NEW k \in Nat
  PROVE  /\ Firsts(u, k) \in Seq(S) /\ Len(Firsts(u, k)) = (IF Len(u) < k THEN Len(u) ELSE k)
         /\ \A i \in 1..Len(Firsts(u, k)) : i \in 1..Len(u) /\ Firsts(u, k)[i] = u[i]
         /\ Range(Firsts(u, k)) \subseteq Range(u)
         /\ Len(u) <= k => Range(Firsts(u, k)) = Range(u)
<1>1. PICK n, m : n = Len(u) /\ m = IF Len(u) < k THEN Len(u) ELSE k
  OBVIOUS
<1>2. n = Len(u) /\ n \in Nat /\ m \in 0..n /\ (n <= k => m = n)
  BY <1>1, LenProperties
<1>3. PICK f : f = Firsts(u, k)
  OBVIOUS
<1>4. f = SubSeq(u, 1, m)
  BY <1>1, <1>3 DEF Firsts
<1>5. f \in Seq(S) /\ Len(f) = m /\ \A i \in 1..m : f[i] = u[i]
  BY <1>2, <1>4, ChunksJoin
<1>6. DOMAIN f = 1..m /\ DOMAIN u = 1..n /\ 1..m \subseteq 1..n
  BY <1>2, <1>5, LenProperties
<1>7. Range(f) \subseteq Range(u) /\ (m = n => Range(f) = Range(u))
  BY <1>5, <1>6 DEF Range
<1> QED
  BY <1>1, <1>2, <1>3, <1>5, <1>6, <1>7

\* The elements at some places, each of which stays where it was among them.
LEMMA SubsequenceIs ==
  ASSUME NEW S, NEW u \in Seq(S), NEW I, I \subseteq 1..Len(u)
  PROVE  /\ Subsequence(u, I) \in Seq(S) /\ Len(Subsequence(u, I)) <= Len(u) /\ Len(Subsequence(u, I)) = Cardinality(I)
         /\ Range(Subsequence(u, I)) = {u[i] : i \in I}
<1>1. PICK n, c, order : n = Len(u) /\ c = Cardinality(I) /\ order = Ranked(I, [i \in Nat |-> 0])
  OBVIOUS
<1>2. n \in Nat /\ \A i \in 1..n : u[i] \in S
  BY <1>1, LenProperties, ElementOfSeq
<1>3. IsFiniteSet(I) /\ c <= n /\ I \subseteq Nat
  <2>1. IsFiniteSet(1..n) /\ Cardinality(1..n) = n
    BY <1>2, FS_Interval
  <2>2. I \in SUBSET (1..n)
    BY <1>1
  <2>3. IsFiniteSet(I) /\ Cardinality(I) <= Cardinality(1..n)
    BY <2>1, <2>2, FS_Subset
  <2> QED
    BY <1>1, <2>1, <2>2, <2>3
<1>4. PICK zero : zero = [i \in Nat |-> 0]
  OBVIOUS
<1>5. \A i \in I : zero[i] \in Int
  BY <1>4
<1>6. c \in Nat /\ order \in Seq(I) /\ Len(order) = c /\ Range(order) = I
  BY <1>1, <1>3, <1>4, <1>5, RankedIs
<1>7. DOMAIN order = 1..c /\ \A k \in 1..c : order[k] \in I
  BY <1>6, LenProperties, ElementOfSeq
<1>8. PICK s : s = Subsequence(u, I)
  OBVIOUS
<1>9. s = [k \in 1..c |-> u[order[k]]]
  BY <1>1, <1>8 DEF Subsequence
<1>10. \A k \in 1..c : u[order[k]] \in S
  BY <1>1, <1>2, <1>7
<1>11. s \in [1..c -> S]
  BY <1>9, <1>10
<1>12. s \in Seq(S) /\ Len(s) = c
  BY <1>6, <1>11, FunctionIsSeq
<1>13. Range(s) = {u[i] : i \in I}
  <2>1. DOMAIN s = 1..c /\ \A k \in 1..c : s[k] = u[order[k]]
    BY <1>9
  <2>2. ASSUME NEW i \in I PROVE \E k \in 1..c : order[k] = i
    BY <1>6, <1>7 DEF Range
  <2>3. ASSUME NEW x \in Range(s) PROVE x \in {u[i] : i \in I}
    <3>1. PICK k \in 1..c : x = s[k]
      BY <2>1 DEF Range
    <3> QED
      BY <1>7, <2>1, <3>1
  <2>4. ASSUME NEW i \in I PROVE u[i] \in Range(s)
    <3>1. PICK k \in 1..c : order[k] = i
      BY <2>2
    <3>2. s[k] = u[i] /\ k \in DOMAIN s
      BY <2>1, <3>1
    <3> QED
      BY <3>2 DEF Range
  <2> QED
    BY <2>3, <2>4
<1> QED
  BY <1>1, <1>3, <1>8, <1>12, <1>13

\* Those of its elements that are in a set, and its elements once each.
LEMMA KeptAre ==
  ASSUME NEW S, NEW u \in Seq(S), NEW set
  PROVE  /\ Kept(u, set) \in Seq(S) /\ Len(Kept(u, set)) <= Len(u)
         /\ Range(Kept(u, set)) = Range(u) \cap set
<1>1. PICK I : I = {i \in DOMAIN u : u[i] \in set}
  OBVIOUS
<1>2. DOMAIN u = 1..Len(u) /\ I \subseteq 1..Len(u)
  BY <1>1, LenProperties
<1>3. Kept(u, set) = Subsequence(u, I)
  BY <1>1 DEF Kept
<1>4. {u[i] : i \in I} = Range(u) \cap set
  BY <1>1 DEF Range
<1> QED
  BY <1>2, <1>3, <1>4, SubsequenceIs

LEMMA DistinctAre ==
  ASSUME NEW S, NEW u \in Seq(S)
  PROVE  Distinct(u) \in Seq(S) /\ Len(Distinct(u)) <= Len(u) /\ Range(Distinct(u)) = Range(u)
<1>1. PICK I : I = {i \in DOMAIN u : \A k \in 1..(i - 1) : u[k] # u[i]}
  OBVIOUS
<1>2. DOMAIN u = 1..Len(u) /\ I \subseteq 1..Len(u) /\ Len(u) \in Nat
  BY <1>1, LenProperties
<1>3. Distinct(u) = Subsequence(u, I)
  BY <1>1 DEF Distinct
<1>4. ASSUME NEW p \in 1..Len(u) PROVE \E i \in I : u[i] = u[p]
  <2> DEFINE same == {i \in 1..Len(u) : u[i] = u[p]}
  <2>1. same \subseteq Nat /\ p \in same
    BY <1>2
  <2>2. PICK i \in same : \A m \in same : i <= m
    <3> HIDE DEF same
    <3> QED
      BY <2>1, LeastNatural
  <2>3. i \in 1..Len(u) /\ u[i] = u[p]
    OBVIOUS
  <2>4. ASSUME NEW k \in 1..(i - 1) PROVE u[k] # u[i]
    <3>1. k \in 1..Len(u) /\ ~(i <= k)
      BY <1>2, <2>3
    <3> QED
      BY <2>2, <2>3, <3>1
  <2>5. i \in I
    BY <1>1, <1>2, <2>3, <2>4
  <2> QED
    BY <2>3, <2>5
<1>5. {u[i] : i \in I} = Range(u)
  BY <1>2, <1>4 DEF Range
<1> QED
  BY <1>2, <1>3, <1>5, SubsequenceIs

EntryTyped == entry \in [PoolRelays -> Entry]

\* Whichever relays are ranked by their health.
LEMMA HealthIs ==
  ASSUME EntryTyped
  PROVE  \A r \in PoolRelays :
           /\ Rtt[r] \in Nat /\ RelayHealth[r] \in Int
           /\ entry[r].st = "bad" => RelayHealth[r] + Rtt[r] >= Worst
           /\ entry[r].st # "bad" => RelayHealth[r] + Rtt[r] < Worst
<1>1. ASSUME NEW r \in PoolRelays
      PROVE  /\ Rtt[r] \in Nat /\ RelayHealth[r] \in Int
             /\ entry[r].st = "bad" => RelayHealth[r] + Rtt[r] >= Worst
             /\ entry[r].st # "bad" => RelayHealth[r] + Rtt[r] < Worst
  <2>1. Rtt[r] \in Nat /\ 3 * Rtt[r] < Worst
    BY RoutingAssumption
  <2>2. PICK x, st : x = Rtt[r] /\ st = entry[r].st
    OBVIOUS
  <2>3. RelayHealth[r] = CASE st = "bad" -> Worst [] st = "good" -> x [] st = "old" -> 2 * x [] OTHER -> DefaultHealth
    BY <2>2 DEF RelayHealth
  <2>4. x \in Nat /\ 3 * x < 20
    BY <2>1, <2>2 DEF Worst
  <2>5. /\ st = "bad" => RelayHealth[r] = 20
        /\ st = "good" => RelayHealth[r] = x
        /\ st = "old" => RelayHealth[r] = 2 * x
        /\ st # "bad" /\ st # "good" /\ st # "old" => RelayHealth[r] = 3
    BY <2>3 DEF Worst, DefaultHealth
  <2> QED
    BY <2>2, <2>4, <2>5 DEF Worst
<1> QED
  BY <1>1

LEMMA PoolIsFinite == IsFiniteSet(PoolRelays) /\ PoolRelays \subseteq Nat /\ Pins \subseteq PoolRelays
BY RoutingAssumption

\* Relays of the pool by any score.
LEMMA SomeRanked ==
  ASSUME NEW set, set \subseteq PoolRelays, NEW score, \A r \in set : score[r] \in Int
  PROVE  /\ Cardinality(set) \in Nat /\ Ranked(set, score) \in Seq(set) /\ Ranked(set, score) \in Seq(PoolRelays)
         /\ Len(Ranked(set, score)) = Cardinality(set) /\ Range(Ranked(set, score)) = set
         /\ \A i, k \in 1..Cardinality(set) : i < k => Nearer(score, Ranked(set, score)[i], Ranked(set, score)[k])
<1>1. IsFiniteSet(set) /\ set \subseteq Nat
  BY PoolIsFinite, FS_Subset
<1>2. /\ Cardinality(set) \in Nat /\ Ranked(set, score) \in Seq(set)
      /\ Len(Ranked(set, score)) = Cardinality(set) /\ Range(Ranked(set, score)) = set
      /\ \A i, k \in 1..Cardinality(set) : i < k => Nearer(score, Ranked(set, score)[i], Ranked(set, score)[k])
  BY <1>1, RankedIs
<1>3. Ranked(set, score) \in Seq(PoolRelays)
  BY <1>2, SeqWidens
<1> QED
  BY <1>2, <1>3

LEMMA CappedIs ==
  ASSUME EntryTyped, NEW set, set \subseteq PoolRelays, NEW cap \in Nat
  PROVE  Capped(set, cap) \in Seq(PoolRelays) /\ set \cap Pins \subseteq Range(Capped(set, cap)) /\ Range(Capped(set, cap)) \subseteq set
<1>1. \A r \in PoolRelays : RelayHealth[r] \in Int
  BY HealthIs
<1>2. PICK p, o, h, k : p = set \cap Pins /\ o = set \ Pins /\ h = RelayHealth /\ k = Spare(cap, Cardinality(p))
  OBVIOUS
<1>3. p \subseteq PoolRelays /\ o \subseteq PoolRelays /\ (\A r \in p : h[r] \in Int) /\ \A r \in o : h[r] \in Int
  BY <1>1, <1>2
<1>4. PICK a, b : a = Ranked(p, h) /\ b = Ranked(o, h)
  OBVIOUS
<1>5. a \in Seq(PoolRelays) /\ Range(a) = p /\ Cardinality(p) \in Nat
  BY <1>3, <1>4, SomeRanked
<1>6. b \in Seq(PoolRelays) /\ Range(b) = o
  BY <1>3, <1>4, SomeRanked
<1>7. k \in Nat
  BY <1>2, <1>5 DEF Spare
<1>8. PICK f : f = Firsts(b, k)
  OBVIOUS
<1>9. f \in Seq(PoolRelays) /\ Range(f) \subseteq o
  BY <1>6, <1>7, <1>8, FirstsAre
<1>10. PICK c : c = Capped(set, cap)
  OBVIOUS
<1>11. c = a \o f
  BY <1>2, <1>4, <1>8, <1>10 DEF Capped
<1>12. c \in Seq(PoolRelays)
  BY <1>5, <1>9, <1>11, ConcatProperties
<1>13. Range(c) = Range(a) \cup Range(f)
  BY <1>5, <1>9, <1>11, RangesJoin
<1> QED
  BY <1>2, <1>5, <1>9, <1>10, <1>12, <1>13

LEMMA WorkingIs ==
  ASSUME EntryTyped
  PROVE  /\ getWorkingRelays \in Seq(PoolRelays) /\ Range(getWorkingRelays) \subseteq PoolRelays
         /\ \A r \in Pins : Eligible(r) => r \in Range(getWorkingRelays)
<1>1. PICK set : set = {r \in PoolRelays : Eligible(r)}
  OBVIOUS
<1>2. set \subseteq PoolRelays /\ WorkingMax \in Nat /\ \A r \in Pins : Eligible(r) => r \in set
  BY <1>1, RoutingAssumption, PoolIsFinite
<1>3. Capped(set, WorkingMax) \in Seq(PoolRelays) /\ set \cap Pins \subseteq Range(Capped(set, WorkingMax))
      /\ Range(Capped(set, WorkingMax)) \subseteq set
  BY <1>2, CappedIs
<1> QED
  BY <1>1, <1>2, <1>3 DEF getWorkingRelays

LEMMA ListenIs ==
  ASSUME EntryTyped
  PROVE  /\ Range(getListenRelays) \subseteq PoolRelays
         /\ \A r \in Pins : Eligible(r) => r \in Range(getListenRelays)
<1>1. PICK set : set = {r \in Range(getWorkingRelays) : r \in Pins \/ r \notin Monitors \/ entry[r].served}
  OBVIOUS
<1>2. set \subseteq PoolRelays /\ ListenMax \in Nat /\ \A r \in Pins : Eligible(r) => r \in set
  BY <1>1, RoutingAssumption, WorkingIs
<1>3. Capped(set, ListenMax) \in Seq(PoolRelays) /\ set \cap Pins \subseteq Range(Capped(set, ListenMax))
      /\ Range(Capped(set, ListenMax)) \subseteq set
  BY <1>2, CappedIs
<1> QED
  BY <1>1, <1>2, <1>3 DEF getListenRelays

\* What the peer claims, the nearest first, and those that are down last.
Composite == [r \in PoolRelays |-> RelayHealth[r] + Rtt[r]]

LEMMA ClaimedIs ==
  ASSUME EntryTyped, NEW claim \in Seq(PoolRelays)
  PROVE  /\ Cardinality(Range(claim)) \in Nat /\ Range(claim) \subseteq PoolRelays /\ IsFiniteSet(Range(claim))
         /\ Claimed(claim) \in Seq(PoolRelays)
         /\ Len(Claimed(claim)) = Cardinality(Range(claim)) /\ Range(Claimed(claim)) = Range(claim)
         /\ \A i, k \in 1..Cardinality(Range(claim)) :
              i < k => /\ ~(entry[Claimed(claim)[i]].st = "bad" /\ entry[Claimed(claim)[k]].st # "bad")
                       /\ Claimed(claim)[i] # Claimed(claim)[k]
<1>1. PICK set, score : set = Range(claim) /\ score = Composite
  OBVIOUS
<1>2. set \subseteq PoolRelays
  <2>1. DOMAIN claim = 1..Len(claim) /\ \A i \in 1..Len(claim) : claim[i] \in PoolRelays
    BY LenProperties, ElementOfSeq
  <2> QED
    BY <1>1, <2>1 DEF Range
<1>3. \A r \in PoolRelays : Rtt[r] \in Nat /\ RelayHealth[r] \in Int
  BY HealthIs
<1>4. \A r \in PoolRelays : score[r] = RelayHealth[r] + Rtt[r]
  BY <1>1 DEF Composite
<1>a. \A r \in PoolRelays : score[r] \in Int
  BY <1>3, <1>4
<1>b. \A r \in set : score[r] \in Int
  BY <1>2, <1>a
<1>5. PICK c : c = Ranked(set, score)
  OBVIOUS
<1>6. c = Claimed(claim)
  BY <1>1, <1>5 DEF Claimed, Composite
<1>7. /\ Cardinality(set) \in Nat /\ c \in Seq(set) /\ c \in Seq(PoolRelays) /\ Len(c) = Cardinality(set) /\ Range(c) = set
      /\ \A i, k \in 1..Cardinality(set) : i < k => Nearer(score, c[i], c[k])
  BY <1>2, <1>b, <1>5, SomeRanked
<1>8. IsFiniteSet(set)
  BY <1>2, PoolIsFinite, FS_Subset
<1>9. ASSUME NEW i \in 1..Cardinality(set), NEW k \in 1..Cardinality(set), i < k,
             entry[c[i]].st = "bad", entry[c[k]].st # "bad"
      PROVE  FALSE
  <2>1. PICK x, y : x = c[i] /\ y = c[k]
    OBVIOUS
  <2>2. x \in PoolRelays /\ y \in PoolRelays
    BY <1>2, <1>7, <2>1, ElementOfSeq
  <2>3. Nearer(score, x, y) /\ entry[x].st = "bad" /\ entry[y].st # "bad"
    BY <1>7, <1>9, <2>1
  <2>4. score[x] >= Worst /\ score[y] < Worst
    BY <1>4, <2>2, <2>3, HealthIs
  <2>5. score[x] \in Int /\ score[y] \in Int /\ Worst \in Int
    BY <1>a, <2>2 DEF Worst
  <2>6. score[x] < score[y] \/ score[x] = score[y]
    BY <2>3 DEF Nearer
  <2> QED
    BY <2>4, <2>5, <2>6
<1>10. ASSUME NEW i \in 1..Cardinality(set), NEW k \in 1..Cardinality(set), i < k PROVE c[i] # c[k]
  <2>1. Nearer(score, c[i], c[k]) /\ c[i] \in set
    BY <1>7, <1>10, ElementOfSeq
  <2>2. ~Nearer(score, c[i], c[i])
    BY <1>2, <1>b, <2>1, PoolIsFinite, NearerOrders
  <2> QED
    BY <2>1, <2>2
<1> QED
  BY <1>1, <1>2, <1>6, <1>7, <1>8, <1>9, <1>10

LEMMA NearestIs ==
  ASSUME EntryTyped, NEW route, route = listen, route \in Seq(PoolRelays)
  PROVE  /\ Nearest \in Seq(PoolRelays) /\ Len(Nearest) <= RoundTarget
         /\ route # <<>> => Nearest = Firsts(Claimed(route), RoundTarget)
<1>1. RoundTarget \in Nat
  BY RoutingAssumption
<1>2. PICK u : u = IF listen # <<>> THEN getReachPeerRelays ELSE getWorkingRelays
  OBVIOUS
<1>3. u \in Seq(PoolRelays)
  <2>1. CASE listen # <<>>
    <3>1. u = Claimed(route)
      BY <1>2, <2>1 DEF getReachPeerRelays
    <3> QED
      BY <3>1, ClaimedIs
  <2>2. CASE listen = <<>>
    <3>1. u = getWorkingRelays
      BY <1>2, <2>2
    <3> QED
      BY <3>1, WorkingIs
  <2> QED
    BY <2>1, <2>2
<1>4. Nearest = Firsts(u, RoundTarget)
  BY <1>2 DEF Nearest
<1>5. Nearest \in Seq(PoolRelays) /\ Len(Nearest) = IF Len(u) < RoundTarget THEN Len(u) ELSE RoundTarget
  BY <1>1, <1>3, <1>4, FirstsAre
<1>6. Len(Nearest) <= RoundTarget
  BY <1>1, <1>3, <1>5, LenProperties
<1>7. route # <<>> => Nearest = Firsts(Claimed(route), RoundTarget)
  BY <1>2, <1>4 DEF getReachPeerRelays
<1> QED
  BY <1>5, <1>6, <1>7

\* An attempt reaches all that is left of the claim, or as many of those relays as fit.
LEMMA NearestAreNew ==
  ASSUME EntryTyped, NEW route \in Seq(PoolRelays), NEW before,
         \A r \in Range(route) : entry[r].st = "bad" <=> r \in before,
         NEW near, near = Firsts(Claimed(route), RoundTarget), NEW set, Range(near) \subseteq set
  PROVE  \/ Range(route) \subseteq before \cup set
         \/ Cardinality((before \cup set) \cap Range(route)) >= Cardinality(before \cap Range(route)) + RoundTarget
<1> SUFFICES ASSUME ~(Range(route) \subseteq before \cup set)
             PROVE  Cardinality((before \cup set) \cap Range(route)) >= Cardinality(before \cap Range(route)) + RoundTarget
  OBVIOUS
<1>1. PICK L, c, m : L = Range(route) /\ c = Claimed(route) /\ m = RoundTarget
  OBVIOUS
<1>2. PICK n : n = Cardinality(L)
  OBVIOUS
<1>3. /\ n \in Nat /\ L \subseteq PoolRelays /\ IsFiniteSet(L) /\ c \in Seq(PoolRelays) /\ Len(c) = n /\ Range(c) = L
      /\ \A i, k \in 1..n :
           i < k => ~(entry[c[i]].st = "bad" /\ entry[c[k]].st # "bad") /\ c[i] # c[k]
  BY <1>1, <1>2, ClaimedIs
<1>4. m \in Nat
  BY <1>1, RoutingAssumption
<1>5. near \in Seq(PoolRelays) /\ Len(near) = (IF n < m THEN n ELSE m) /\ (\A i \in 1..Len(near) : near[i] = c[i])
      /\ Range(near) \subseteq L /\ (n <= m => Range(near) = L)
  BY <1>1, <1>3, <1>4, FirstsAre
<1>6. PICK r : r \in L /\ r \notin before /\ r \notin Range(near)
  BY <1>1
<1>7. n > m /\ Len(near) = m
  BY <1>3, <1>4, <1>5, <1>6
<1>8. DOMAIN c = 1..n /\ DOMAIN near = 1..m
  BY <1>3, <1>4, <1>5, <1>7, LenProperties
<1>9. PICK k \in 1..n : c[k] = r
  BY <1>3, <1>6, <1>8 DEF Range
<1>10. k > m
  <2> SUFFICES ASSUME ~(k > m) PROVE FALSE
    OBVIOUS
  <2>1. k \in 1..m
    BY <1>4
  <2>2. near[k] = r
    BY <1>5, <1>7, <1>9, <2>1
  <2> QED
    BY <1>6, <1>8, <2>1, <2>2 DEF Range
<1>11. entry[r].st # "bad"
  BY <1>1, <1>6
<1>12. ASSUME NEW i \in 1..m PROVE near[i] \in L /\ near[i] \notin before
  <2>1. i \in 1..n /\ i < k /\ near[i] = c[i]
    BY <1>3, <1>4, <1>5, <1>7, <1>10
  <2>2. c[i] \in L
    BY <1>3, <1>8, <2>1 DEF Range
  <2>3. entry[c[i]].st # "bad"
    BY <1>3, <1>9, <1>11, <2>1
  <2> QED
    BY <1>1, <2>1, <2>2, <2>3
<1>13. PICK a, b : a = before \cap L /\ b = Range(near)
  OBVIOUS
<1>14. a \cap b = {} /\ a \subseteq L /\ b \subseteq L /\ a \cup b \subseteq (before \cup set) \cap L
  BY <1>1, <1>8, <1>12, <1>13 DEF Range
<1>15. Cardinality(b) = m
  <2>1. \A i, j \in 1..m : near[i] = near[j] => i = j
    <3>1. ASSUME NEW i \in 1..m, NEW j \in 1..m, i < j PROVE near[i] # near[j]
      <4>1. i \in 1..n /\ j \in 1..n /\ near[i] = c[i] /\ near[j] = c[j]
        BY <1>3, <1>4, <1>5, <1>7
      <4> QED
        BY <1>3, <3>1, <4>1
    <3>2. \A i, j \in 1..m : i = j \/ i < j \/ j < i
      BY <1>4
    <3> QED
      BY <3>1, <3>2
  <2>2. near \in Surjection(1..m, b)
    <3>1. near = [i \in 1..m |-> near[i]] /\ \A i \in 1..m : near[i] \in b
      BY <1>5, <1>7, <1>8, <1>13 DEF Range
    <3>2. near \in [1..m -> b]
      BY <3>1
    <3>3. \A x \in b : \E i \in 1..m : near[i] = x
      BY <1>8, <1>13 DEF Range
    <3> QED
      BY <3>2, <3>3 DEF Surjection
  <2>3. near \in Injection(1..m, b)
    BY <2>1, <2>2 DEF Injection, IsInjective, Surjection
  <2>4. IsFiniteSet(1..m) /\ Cardinality(1..m) = m
    <3>1. 1 \in Int /\ m \in Int
      BY <1>4
    <3>2. IsFiniteSet(1..m) /\ Cardinality(1..m) = IF 1 > m THEN 0 ELSE m - 1 + 1
      BY <3>1, FS_Interval
    <3> QED
      BY <1>4, <3>2
  <2>5. Cardinality(b) = Cardinality(1..m)
    BY <2>2, <2>3, <2>4, FS_Surjection
  <2> QED
    BY <2>4, <2>5
<1>16. /\ IsFiniteSet(a) /\ IsFiniteSet(b) /\ IsFiniteSet((before \cup set) \cap L)
       /\ Cardinality(a) \in Nat /\ Cardinality(b) \in Nat /\ Cardinality((before \cup set) \cap L) \in Nat
  <2>1. IsFiniteSet(a) /\ IsFiniteSet(b) /\ IsFiniteSet((before \cup set) \cap L)
    <3>1. a \in SUBSET L /\ b \in SUBSET L /\ (before \cup set) \cap L \in SUBSET L
      BY <1>14
    <3> QED
      BY <1>3, <3>1, FS_Subset
  <2> QED
    BY <2>1, FS_CardinalityType
<1>17. IsFiniteSet(a \cup b) /\ Cardinality(a \cup b) = Cardinality(a) + Cardinality(b)
  <2>1. IsFiniteSet(a \cup b) /\ Cardinality(a \cup b) = Cardinality(a) + Cardinality(b) - Cardinality(a \cap b)
    BY <1>16, FS_Union
  <2>2. Cardinality(a \cap b) = 0
    BY <1>14, FS_EmptySet
  <2> QED
    BY <1>16, <2>1, <2>2
<1>18. Cardinality(a \cup b) <= Cardinality((before \cup set) \cap L)
  <2>1. a \cup b \in SUBSET ((before \cup set) \cap L)
    BY <1>14
  <2> QED
    BY <1>16, <2>1, FS_Subset
<1>19. Cardinality((before \cup set) \cap L) >= Cardinality(a) + m
  BY <1>15, <1>17, <1>18
<1> QED
  BY <1>1, <1>13, <1>19

LEMMA Bounds == /\ FanoutMax \in Nat /\ HistoryMax \in Nat /\ RoundTarget \in Nat \ {0} /\ RoutingTries \in Nat \ {0}
                /\ HistoryMax + RoundTarget <= FanoutMax
BY RoutingAssumption

\* What comes before the nearest in later attempts.
LEMMA BaseIs ==
  ASSUME EntryTyped, listen \in Seq(PoolRelays), lastGood \in Seq(PoolRelays),
         NEW base \in IF lastGood # <<>> THEN {expandFromHistory} ELSE Samples
  PROVE  base \in Seq(PoolRelays) /\ Len(base) <= HistoryMax
<1>1. HistoryMax \in Nat
  BY Bounds
<1>2. PICK w : w = getWorkingRelays
  OBVIOUS
<1>3. w \in Seq(PoolRelays) /\ Range(w) \subseteq PoolRelays
  BY <1>2, WorkingIs
<1>4. CASE lastGood # <<>>
  <2>1. PICK route : route = listen
    OBVIOUS
  <2>2. PICK r : r = getReachPeerRelays
    OBVIOUS
  <2>3. r \in Seq(PoolRelays)
    <3>1. r = Claimed(route)
      BY <2>1, <2>2 DEF getReachPeerRelays
    <3> QED
      BY <2>1, <3>1, ClaimedIs
  <2>4. PICK l : l = lastGood
    OBVIOUS
  <2>5. PICK all : all = l \o r \o w
    OBVIOUS
  <2>6. all \in Seq(PoolRelays)
    <3>1. l \in Seq(PoolRelays)
      BY <2>4
    <3>2. l \o r \in Seq(PoolRelays)
      BY <2>3, <3>1, ConcatProperties
    <3> QED
      BY <1>3, <2>5, <3>2, ConcatProperties
  <2>7. base = Firsts(Distinct(all), HistoryMax)
    BY <1>2, <1>4, <2>2, <2>4, <2>5 DEF expandFromHistory
  <2>8. Distinct(all) \in Seq(PoolRelays)
    BY <2>6, DistinctAre
  <2>9. base \in Seq(PoolRelays) /\ Len(base) = IF Len(Distinct(all)) < HistoryMax THEN Len(Distinct(all)) ELSE HistoryMax
    BY <1>1, <2>7, <2>8, FirstsAre
  <2> QED
    BY <1>1, <2>8, <2>9, LenProperties
<1>5. CASE lastGood = <<>>
  <2>1. PICK f : f = Firsts(w, HistoryMax)
    OBVIOUS
  <2>2. Len(f) <= HistoryMax
    <3>1. Len(f) = IF Len(w) < HistoryMax THEN Len(w) ELSE HistoryMax
      BY <1>1, <1>3, <2>1, FirstsAre
    <3> QED
      BY <1>1, <1>3, <3>1, LenProperties
  <2>3. base \in Samples
    BY <1>5
  <2>4. PICK set \in {s \in SUBSET Range(w) : Cardinality(s) = Len(f)} : base = Ranked(set, [r \in set |-> 0])
    BY <1>2, <2>1, <2>3 DEF Samples
  <2>5. set \subseteq PoolRelays /\ Cardinality(set) = Len(f)
    BY <1>3, <2>4
  <2>6. PICK zero : zero = [r \in set |-> 0]
    OBVIOUS
  <2>7. \A r \in set : zero[r] \in Int
    BY <2>6
  <2>8. base = Ranked(set, zero)
    BY <2>4, <2>6
  <2>9. base \in Seq(PoolRelays) /\ Len(base) = Cardinality(set)
    BY <2>5, <2>7, <2>8, SomeRanked
  <2> QED
    BY <2>2, <2>5, <2>9
<1> QED
  BY <1>4, <1>5

\* The targets of any attempt are few, and the nearest are among them.
LEMMA TargetsAre ==
  ASSUME EntryTyped, listen \in Seq(PoolRelays), lastGood \in Seq(PoolRelays), NEW try, NEW urls \in handshakeTargets(try)
  PROVE  urls \in Seq(PoolRelays) /\ Len(urls) <= FanoutMax /\ Range(Nearest) \subseteq Range(urls)
<1>1. FanoutMax \in Nat /\ HistoryMax \in Nat /\ RoundTarget \in Nat /\ HistoryMax + RoundTarget <= FanoutMax
  BY Bounds
<1>2. PICK near, route : near = Nearest /\ route = listen
  OBVIOUS
<1>3. near \in Seq(PoolRelays) /\ Len(near) <= RoundTarget /\ Len(near) \in Nat
  BY <1>2, NearestIs, LenProperties
<1>4. CASE try = 1
  <2>1. urls = Firsts(near, FanoutMax)
    BY <1>2, <1>4 DEF handshakeTargets
  <2>2. Len(near) <= FanoutMax
    BY <1>1, <1>3
  <2>3. urls \in Seq(PoolRelays) /\ Len(urls) = (IF Len(near) < FanoutMax THEN Len(near) ELSE FanoutMax)
        /\ (Len(near) <= FanoutMax => Range(urls) = Range(near))
    BY <1>1, <1>3, <2>1, FirstsAre
  <2> QED
    BY <1>1, <1>2, <1>3, <2>2, <2>3
<1>5. CASE try # 1
  <2>1. PICK base \in (IF lastGood # <<>> THEN {expandFromHistory} ELSE Samples) : urls = Firsts(Distinct(base \o near), FanoutMax)
    BY <1>2, <1>5 DEF handshakeTargets
  <2>2. base \in Seq(PoolRelays) /\ Len(base) <= HistoryMax /\ Len(base) \in Nat
    BY <2>1, BaseIs, LenProperties
  <2>3. PICK both : both = base \o near
    OBVIOUS
  <2>4. both \in Seq(PoolRelays) /\ Len(both) = Len(base) + Len(near)
    BY <1>3, <2>2, <2>3, ConcatProperties
  <2>5. Range(both) = Range(base) \cup Range(near)
    BY <1>3, <2>2, <2>3, RangesJoin
  <2>6. PICK d : d = Distinct(both)
    OBVIOUS
  <2>7. d \in Seq(PoolRelays) /\ Len(d) <= Len(both) /\ Range(d) = Range(both) /\ Len(d) \in Nat
    BY <2>4, <2>6, DistinctAre, LenProperties
  <2>8. Len(d) <= FanoutMax
    BY <1>1, <1>3, <2>2, <2>4, <2>7
  <2>9. urls = Firsts(d, FanoutMax)
    BY <2>1, <2>3, <2>6
  <2>10. urls \in Seq(PoolRelays) /\ Len(urls) = (IF Len(d) < FanoutMax THEN Len(d) ELSE FanoutMax)
         /\ (Len(d) <= FanoutMax => Range(urls) = Range(d))
    BY <1>1, <2>7, <2>9, FirstsAre
  <2> QED
    BY <1>1, <1>2, <2>5, <2>7, <2>8, <2>10
<1> QED
  BY <1>4, <1>5

-----------------------------------------------------------------------------

DirectedSet == [pc : {"no", "lookup", "publish", "pause", "done"}, try : Nat, urls : Seq(PoolRelays),
                valid : Seq(PoolRelays), ok : BOOLEAN]
RoundSet == [st : {"no", "asks", "probes", "over"}, pending : SUBSET PoolRelays, batch : SUBSET PoolRelays,
             count : 0..MaxProbes, aborted : BOOLEAN]

RoutesTyped ==
  /\ EntryTyped /\ listen \in Seq(PoolRelays) /\ lastGood \in Seq(PoolRelays) /\ trust \in [PoolRelays -> Nat]
  /\ directed \in [Directed -> DirectedSet] /\ heardAt \subseteq PoolRelays
  /\ disturbed \in [Directed -> BOOLEAN] /\ tried \in [Directed -> SUBSET PoolRelays]

\* What is down, and a publish during which only itself changed the pool, to a peer whose claims can be reached.
Down == {r \in PoolRelays : entry[r].st = "bad"}
Undisturbed(j) == ~disturbed[j] /\ listen # <<>> /\ \A r \in Range(listen) : Connectable(r)

\* A publish, and the relays t it has tried.
PublishFits(p, t) ==
  /\ p.pc = "no" => t = {}
  /\ p.pc \in {"publish", "pause", "done"} => Range(p.valid) \subseteq t
  /\ Len(p.urls) <= FanoutMax /\ Range(p.valid) \subseteq Range(p.urls)

\* It has tried all of the claim, or as many as its attempts may.
Enough(p, t, claim) ==
  \/ claim \subseteq t \cup Range(p.valid)
  \/ Cardinality((t \cup Range(p.valid)) \cap claim) >= p.try * RoundTarget

\* Of the claim, what is down is what it tried.
RouteFits(p, t, claim, down) ==
  /\ (p.pc \in {"lookup", "publish", "pause"} \/ (p.pc = "done" /\ p.try # 0)) => Enough(p, t, claim)
  /\ p.pc \in {"lookup", "pause"} => \A r \in claim : r \in down <=> r \in t
  /\ p.pc = "publish" => \A r \in claim : (r \in down => r \in t) /\ (r \in t => r \in down \/ r \in Range(p.valid))

RoutesFit ==
  /\ Range(lastGood) \subseteq reached
  /\ \A j \in Directed :
       /\ PublishFits(directed[j], tried[j])
       /\ Undisturbed(j) => RouteFits(directed[j], tried[j], Range(listen), Down)

RoundsFit == round \in [DiscoveryRounds -> RoundSet] /\ probedLate = FALSE

RoutingInv == RoutesTyped /\ RoutesFit /\ RoundsFit

LEMMA RoutingInvIsSound == RoutingInv => RoutingTypeOK /\ RoutingIsSound
<1> SUFFICES ASSUME RoutingInv PROVE RoutingTypeOK /\ RoutingIsSound
  OBVIOUS
<1>1. RoutesTyped /\ RoutesFit /\ RoundsFit
  BY DEF RoutingInv
<1>2. ASSUME NEW j \in Directed
      PROVE  /\ directed[j] \in DirectedSet /\ PublishFits(directed[j], tried[j])
             /\ (Undisturbed(j) => RouteFits(directed[j], tried[j], Range(listen), Down))
  BY <1>1 DEF RoutesTyped, RoutesFit
<1>3. \A s \in Seq(PoolRelays) : Range(s) \subseteq PoolRelays
  <2>1. ASSUME NEW s \in Seq(PoolRelays) PROVE Range(s) \subseteq PoolRelays
    <3>1. DOMAIN s = 1..Len(s) /\ \A i \in 1..Len(s) : s[i] \in PoolRelays
      BY LenProperties, ElementOfSeq
    <3> QED
      BY <3>1 DEF Range
  <2> QED
    BY <2>1
<1>4. RoutingTypeOK
  <2>1. entry \in [PoolRelays -> Entry] /\ trust \in [PoolRelays -> Nat]
    BY <1>1 DEF RoutesTyped, EntryTyped
  <2>2. Range(listen) \cup Range(lastGood) \cup heardAt \subseteq PoolRelays
    BY <1>1, <1>3 DEF RoutesTyped
  <2>3. ASSUME NEW j \in Directed
        PROVE  /\ directed[j].pc \in {"no", "lookup", "publish", "pause", "done"}
               /\ Range(directed[j].valid) \subseteq Range(directed[j].urls)
               /\ Len(directed[j].urls) <= FanoutMax
    BY <1>2 DEF DirectedSet, PublishFits
  <2>4. ASSUME NEW d \in DiscoveryRounds PROVE round[d].count <= MaxProbes
    <3>1. round[d] \in RoundSet
      BY <1>1 DEF RoundsFit
    <3>2. round[d].count \in 0..MaxProbes /\ MaxProbes \in Nat
      BY <3>1, RoutingAssumption DEF RoundSet
    <3> QED
      BY <3>2
  <2> QED
    BY <2>1, <2>2, <2>3, <2>4, Zenon DEF RoutingTypeOK
<1>5. RememberedServed
  BY <1>1 DEF RoutesFit, RememberedServed
<1>6. RoundsStop
  BY <1>1 DEF RoundsFit, RoundsStop
<1>7. PinsAreMet
  <2>1. \A r \in Pins : Eligible(r) => r \in Range(getListenRelays)
    BY <1>1, ListenIs DEF RoutesTyped
  <2> QED
    BY <2>1 DEF PinsAreMet
<1>8. ASSUME NEW j \in Directed, directed[j].pc = "done", ~directed[j].ok, directed[j].try = RoutingTries,
             ~disturbed[j], listen # <<>>, Cardinality(Range(listen)) <= RoundTarget * RoutingTries,
             \A r \in Range(listen) : Connectable(r)
      PROVE  Range(listen) \subseteq tried[j]
  <2>1. PICK p, t, claim : p = directed[j] /\ t = tried[j] /\ claim = Range(listen)
    OBVIOUS
  <2>2. RouteFits(p, t, claim, Down) /\ PublishFits(p, t)
    BY <1>2, <1>8, <2>1 DEF Undisturbed
  <2>3. RoutingTries # 0
    BY Bounds
  <2>4. Enough(p, t, claim) /\ Range(p.valid) \subseteq t
    BY <1>8, <2>1, <2>2, <2>3 DEF RouteFits, PublishFits
  <2>5. t \cup Range(p.valid) = t
    BY <2>4
  <2>6. CASE claim \subseteq t
    BY <2>1, <2>6
  <2>7. CASE ~(claim \subseteq t)
    <3>1. Cardinality(t \cap claim) >= p.try * RoundTarget
      BY <2>4, <2>5, <2>7 DEF Enough
    <3>2. IsFiniteSet(claim)
      <4>1. claim \subseteq PoolRelays
        BY <1>1, <1>3, <2>1 DEF RoutesTyped
      <4> QED
        BY <4>1, PoolIsFinite, FS_Subset
    <3>3. t \cap claim \in SUBSET claim
      OBVIOUS
    <3>4. Cardinality(t \cap claim) <= Cardinality(claim) /\ (Cardinality(claim) = Cardinality(t \cap claim) => claim = t \cap claim)
          /\ IsFiniteSet(t \cap claim)
      BY <3>2, <3>3, FS_Subset
    <3>5. Cardinality(claim) \in Nat /\ Cardinality(t \cap claim) \in Nat
      BY <3>2, <3>4, FS_CardinalityType
    <3>6. p.try * RoundTarget = RoundTarget * RoutingTries /\ RoundTarget * RoutingTries \in Nat
      <4>1. RoundTarget \in Nat /\ RoutingTries \in Nat /\ p.try = RoutingTries
        BY <1>8, <2>1, Bounds
      <4> QED
        BY <4>1
    <3>7. Cardinality(claim) <= RoundTarget * RoutingTries
      BY <1>8, <2>1
    <3>8. Cardinality(claim) = Cardinality(t \cap claim)
      BY <3>1, <3>4, <3>5, <3>6, <3>7
    <3> QED
      BY <2>7, <3>4, <3>8
  <2> QED
    BY <2>6, <2>7
<1>9. ClaimsTried
  BY <1>8, Zenon DEF ClaimsTried
<1> QED
  BY <1>4, <1>5, <1>6, <1>7, <1>9 DEF RoutingIsSound

LEMMA RoutingStarts == InitRouting => RoutingInv
<1> SUFFICES ASSUME InitRouting PROVE RoutingInv
  OBVIOUS
<1>1. Len(<<>>) = 0 /\ <<>> \in Seq(PoolRelays) /\ Range(<<>>) = {} /\ 0 <= FanoutMax
  <2>1. DOMAIN <<>> = {}
    OBVIOUS
  <2>2. Range(<<>>) = {}
    BY <2>1 DEF Range
  <2>3. FanoutMax \in Nat
    BY Bounds
  <2> QED
    BY <2>2, <2>3, EmptySeq
<1>2. EntryTyped
  BY DEF InitRouting, EntryTyped, Entry
<1>3. NoDirected \in DirectedSet /\ NoDirected.pc = "no" /\ NoDirected.valid = <<>> /\ NoDirected.urls = <<>>
  BY <1>1 DEF NoDirected, DirectedSet
<1>4. RoutesTyped
  BY <1>1, <1>2, <1>3 DEF InitRouting, RoutesTyped
<1>5. PublishFits(NoDirected, {}) /\ \A c, d : RouteFits(NoDirected, {}, c, d)
  BY <1>1, <1>3 DEF PublishFits, RouteFits
<1>6. RoutesFit
  BY <1>1, <1>5 DEF InitRouting, RoutesFit
<1>7. NoRound \in RoundSet
  <2>1. MaxProbes \in Nat
    BY RoutingAssumption
  <2> QED
    BY <2>1 DEF NoRound, RoundSet
<1>8. RoundsFit
  BY <1>7 DEF InitRouting, RoundsFit
<1> QED
  BY <1>4, <1>6, <1>8 DEF RoutingInv

-----------------------------------------------------------------------------

\* A step that touches no publish and nothing that it depends on.
LEMMA RoutesStay ==
  ASSUME RoutingInv, heardAt' \subseteq PoolRelays, RoundsFit',
         UNCHANGED <<entry, listen, lastGood, trust, directed, tried, disturbed, reached>>
  PROVE  RoutingInv'
<1>1. RoutesTyped /\ RoutesFit
  BY DEF RoutingInv
<1>2. RoutesTyped'
  BY <1>1 DEF RoutesTyped, EntryTyped
<1>3. Down' = Down /\ Range(listen') = Range(listen)
  BY DEF Down
<1>4. \A j : Undisturbed(j)' = Undisturbed(j)
  BY DEF Undisturbed, Connectable, Trusted
<1>5. RoutesFit'
  BY <1>1, <1>3, <1>4 DEF RoutesFit
<1> QED
  BY <1>2, <1>5 DEF RoutingInv

\* Something else changes the pool, or the claim.
LEMMA RoutesDisturbed ==
  ASSUME RoutingInv, EntryTyped', listen' \in Seq(PoolRelays), trust' \in [PoolRelays -> Nat], RoundsFit',
         disturbed' = [k \in Directed |-> TRUE],
         UNCHANGED <<lastGood, directed, heardAt, tried, reached>>
  PROVE  RoutingInv'
<1>1. RoutesTyped /\ RoutesFit
  BY DEF RoutingInv
<1>2. RoutesTyped'
  BY <1>1 DEF RoutesTyped
<1>3. \A j \in Directed : ~Undisturbed(j)'
  BY DEF Undisturbed
<1>4. RoutesFit'
  BY <1>1, <1>3 DEF RoutesFit
<1> QED
  BY <1>2, <1>4 DEF RoutingInv

\* One publish moves on; the others are disturbed, or see the pool that they saw.
LEMMA RouteMoves ==
  ASSUME RoutingInv, NEW j \in Directed, NEW q \in DirectedSet, NEW t \in SUBSET PoolRelays,
         directed' = [directed EXCEPT ![j] = q], tried' = [tried EXCEPT ![j] = t],
         EntryTyped', lastGood' \in Seq(PoolRelays), Range(lastGood') \subseteq reached',
         disturbed' \in [Directed -> BOOLEAN],
         PublishFits(q, t), Undisturbed(j)' => RouteFits(q, t, Range(listen), Down'),
         \A k \in Directed : k # j => disturbed'[k] \/ (disturbed'[k] = disturbed[k] /\ entry' = entry),
         UNCHANGED <<listen, trust, heardAt, round, probedLate>>
  PROVE  RoutingInv'
<1>1. RoutesTyped /\ RoutesFit /\ RoundsFit
  BY DEF RoutingInv
<1>2. directed \in [Directed -> DirectedSet] /\ tried \in [Directed -> SUBSET PoolRelays]
  BY <1>1 DEF RoutesTyped
<1>3. RoutesTyped'
  <2>1. directed' \in [Directed -> DirectedSet] /\ tried' \in [Directed -> SUBSET PoolRelays]
    BY <1>2
  <2> QED
    BY <1>1, <2>1 DEF RoutesTyped
<1>4. ASSUME NEW k \in Directed
      PROVE  /\ PublishFits(directed'[k], tried'[k])
             /\ Undisturbed(k)' => RouteFits(directed'[k], tried'[k], Range(listen'), Down')
  <2>1. CASE k = j
    <3>1. directed'[k] = q /\ tried'[k] = t /\ Range(listen') = Range(listen)
      BY <1>2, <2>1
    <3> QED
      BY <2>1, <3>1
  <2>2. CASE k # j
    <3>1. directed'[k] = directed[k] /\ tried'[k] = tried[k] /\ Range(listen') = Range(listen)
      BY <1>2, <2>2
    <3>2. PublishFits(directed[k], tried[k]) /\ (Undisturbed(k) => RouteFits(directed[k], tried[k], Range(listen), Down))
      BY <1>1 DEF RoutesFit
    <3>3. Undisturbed(k)' => Undisturbed(k) /\ Down' = Down
      BY <2>2 DEF Undisturbed, Connectable, Trusted, Down
    <3> QED
      BY <3>1, <3>2, <3>3
  <2> QED
    BY <2>1, <2>2
<1>5. RoutesFit'
  BY <1>4 DEF RoutesFit
<1>6. RoundsFit'
  BY <1>1 DEF RoundsFit
<1> QED
  BY <1>3, <1>5, <1>6 DEF RoutingInv

\* The publish as Choose leaves it.
Chosen(try, urls) ==
  IF urls = <<>> THEN [NoDirected EXCEPT !.pc = "done"]
  ELSE [pc |-> "lookup", try |-> try, urls |-> urls,
        valid |-> Kept(urls, {r \in PoolRelays : Connectable(r)}), ok |-> FALSE]

LEMMA ChosenIs ==
  ASSUME EntryTyped, listen \in Seq(PoolRelays), lastGood \in Seq(PoolRelays), NEW try \in Nat,
         NEW urls \in handshakeTargets(try), NEW t, NEW q,
         q = Chosen(try, urls)
  PROVE  /\ q \in DirectedSet /\ PublishFits(q, t)
         /\ \/ q.pc = "done" /\ q.try = 0
            \/ q.pc = "lookup" /\ q.try = try /\ \A r \in Range(Nearest) : Connectable(r) => r \in Range(q.valid)
<1>1. PICK set : set = {r \in PoolRelays : Connectable(r)}
  OBVIOUS
<1>2. PICK v : v = Kept(urls, set)
  OBVIOUS
<1>3. urls \in Seq(PoolRelays) /\ Len(urls) <= FanoutMax /\ Range(Nearest) \subseteq Range(urls)
  BY TargetsAre
<1>4. v \in Seq(PoolRelays) /\ Range(v) = Range(urls) \cap set
  BY <1>2, <1>3, KeptAre
<1>5. CASE urls = <<>>
  <2>1. q = [pc |-> "done", try |-> 0, urls |-> <<>>, valid |-> <<>>, ok |-> FALSE]
    BY <1>5 DEF NoDirected, Chosen
  <2>2. Len(<<>>) = 0 /\ <<>> \in Seq(PoolRelays) /\ Range(<<>>) = {} /\ 0 <= FanoutMax
    <3>1. DOMAIN <<>> = {}
      OBVIOUS
    <3>2. Range(<<>>) = {}
      BY <3>1 DEF Range
    <3>3. FanoutMax \in Nat
      BY Bounds
    <3> QED
      BY <3>2, <3>3, EmptySeq
  <2>3. q.pc = "done" /\ q.try = 0 /\ q.urls = <<>> /\ q.valid = <<>>
    BY <2>1
  <2>4. q \in DirectedSet
    <3>1. NoDirected \in DirectedSet
      BY <2>2 DEF NoDirected, DirectedSet
    <3>2. [NoDirected EXCEPT !.pc = "done"] \in DirectedSet
      BY <3>1 DEF DirectedSet
    <3> QED
      BY <1>5, <3>2 DEF Chosen
  <2>5. PublishFits(q, t)
    BY <2>2, <2>3 DEF PublishFits
  <2> QED
    BY <2>3, <2>4, <2>5
<1>6. CASE urls # <<>>
  <2>1. q = [pc |-> "lookup", try |-> try, urls |-> urls, valid |-> v, ok |-> FALSE]
    BY <1>1, <1>2, <1>6 DEF Chosen
  <2>2. q \in DirectedSet
    BY <1>3, <1>4, <2>1 DEF DirectedSet
  <2>3. q.pc = "lookup" /\ q.try = try /\ q.urls = urls /\ q.valid = v
    BY <2>1
  <2>4. PublishFits(q, t)
    BY <1>3, <1>4, <2>3 DEF PublishFits
  <2>5. \A r \in Range(Nearest) : Connectable(r) => r \in Range(v)
    <3>1. Range(urls) \subseteq PoolRelays
      <4>1. DOMAIN urls = 1..Len(urls) /\ \A i \in 1..Len(urls) : urls[i] \in PoolRelays
        BY <1>3, LenProperties, ElementOfSeq
      <4> QED
        BY <4>1 DEF Range
    <3> QED
      BY <1>1, <1>3, <1>4, <3>1
  <2> QED
    BY <2>2, <2>3, <2>4, <2>5
<1> QED
  BY <1>5, <1>6

\* With what is down tried already, its targets are enough.
LEMMA ChosenFits ==
  ASSUME EntryTyped, NEW route \in Seq(PoolRelays), route = listen, route # <<>>,
         \A r \in Range(route) : Connectable(r),
         NEW n \in Nat, NEW t \in SUBSET PoolRelays, NEW q, q.pc = "lookup", q.try = n + 1,
         \A r \in Range(Nearest) : Connectable(r) => r \in Range(q.valid),
         \A r \in Range(route) : r \in Down <=> r \in t,
         Range(route) \subseteq t \/ Cardinality(t \cap Range(route)) >= n * RoundTarget
  PROVE  RouteFits(q, t, Range(route), Down)
<1>1. PICK claim, near, v : claim = Range(route) /\ near = Nearest /\ v = Range(q.valid)
  OBVIOUS
<1>2. claim \subseteq PoolRelays /\ IsFiniteSet(claim) /\ Claimed(route) \in Seq(PoolRelays) /\ Range(Claimed(route)) = claim
  BY <1>1, ClaimedIs
<1>3. near = Firsts(Claimed(route), RoundTarget)
  BY <1>1, NearestIs
<1>4. RoundTarget \in Nat
  BY Bounds
<1>5. Range(near) \subseteq claim
  BY <1>2, <1>3, <1>4, FirstsAre
<1>6. Range(near) \subseteq v
  BY <1>1, <1>5
<1>7. \A r \in Range(route) : entry[r].st = "bad" <=> r \in t
  BY <1>1, <1>2 DEF Down
<1>8. Range(route) \subseteq t \cup v \/ Cardinality((t \cup v) \cap Range(route)) >= Cardinality(t \cap Range(route)) + RoundTarget
  BY <1>3, <1>6, <1>7, NearestAreNew
<1>9. Enough(q, t, claim)
  <2>1. CASE claim \subseteq t \cup v
    BY <1>1, <2>1 DEF Enough
  <2>2. CASE ~(claim \subseteq t \cup v)
    <3>1. PICK a, b : a = Cardinality(t \cap claim) /\ b = Cardinality((t \cup v) \cap claim)
      OBVIOUS
    <3>2. a \in Nat /\ b \in Nat
      <4>1. IsFiniteSet(t \cap claim) /\ IsFiniteSet((t \cup v) \cap claim)
        BY <1>2, FS_Subset
      <4> QED
        BY <3>1, <4>1, FS_CardinalityType
    <3>3. b >= a + RoundTarget
      BY <1>1, <1>8, <2>2, <3>1
    <3>4. a >= n * RoundTarget
      BY <1>1, <2>2, <3>1
    <3>5. PICK m, k, l : m = RoundTarget /\ k = n * m /\ l = (n + 1) * m
      OBVIOUS
    <3>6. k \in Int /\ l = k + m /\ m \in Nat
      BY <1>4, <3>5
    <3>7. b >= l
      BY <3>2, <3>3, <3>4, <3>5, <3>6
    <3> QED
      BY <1>1, <3>1, <3>5, <3>7 DEF Enough
  <2> QED
    BY <2>1, <2>2
<1> QED
  BY <1>1, <1>9, <1>7, <1>2 DEF RouteFits

LEMMA RouteBeginsSafely ==
  ASSUME RoutingInv, NEW j \in Directed, RouteBegins(j)
  PROVE  RoutingInv'
<1>1. RoutesTyped /\ RoutesFit
  BY DEF RoutingInv
<1>2. PICK t, route : t = tried[j] /\ route = listen
  OBVIOUS
<1>3. /\ EntryTyped /\ route \in Seq(PoolRelays) /\ listen \in Seq(PoolRelays) /\ lastGood \in Seq(PoolRelays)
      /\ tried \in [Directed -> SUBSET PoolRelays] /\ disturbed \in [Directed -> BOOLEAN]
  BY <1>1, <1>2 DEF RoutesTyped
<1>4. directed[j].pc = "no" /\ PublishFits(directed[j], t)
  BY <1>1, <1>2 DEF RouteBegins, RoutesFit
<1>5. t = {}
  BY <1>4 DEF PublishFits
<1>6. PICK urls \in handshakeTargets(1) :
        directed' = [directed EXCEPT ![j] = Chosen(1, urls)]
  BY DEF RouteBegins, Choose, Chosen
<1>7. PICK q : q = Chosen(1, urls)
  OBVIOUS
<1>8. directed' = [directed EXCEPT ![j] = q]
  BY <1>6, <1>7
<1>9. /\ q \in DirectedSet /\ PublishFits(q, t)
      /\ \/ q.pc = "done" /\ q.try = 0
         \/ q.pc = "lookup" /\ q.try = 1 /\ \A r \in Range(Nearest) : Connectable(r) => r \in Range(q.valid)
  <2>1. 1 \in Nat
    OBVIOUS
  <2> QED
    BY <1>3, <1>7, <2>1, ChosenIs
<1>10. /\ disturbed' = [disturbed EXCEPT ![j] = \E r \in Range(listen) : entry[r].st = "bad"]
       /\ UNCHANGED <<entry, listen, lastGood, trust, round, heardAt, tried, reached, probedLate>>
  BY DEF RouteBegins
<1>11. tried' = [tried EXCEPT ![j] = t]
  BY <1>2, <1>3, <1>10
<1>12. disturbed' \in [Directed -> BOOLEAN] /\ (\A k \in Directed : k # j => disturbed'[k] = disturbed[k])
       /\ (disturbed'[j] <=> \E r \in Range(route) : entry[r].st = "bad")
  BY <1>2, <1>3, <1>10
<1>13. Down' = Down
  BY <1>10 DEF Down
<1>14. ASSUME Undisturbed(j)' PROVE RouteFits(q, t, Range(listen), Down')
  <2>1. route # <<>> /\ (\A r \in Range(route) : Connectable(r)) /\ \A r \in Range(route) : entry[r].st # "bad"
    BY <1>2, <1>10, <1>12, <1>14 DEF Undisturbed, Connectable, Trusted
  <2>2. CASE q.pc = "done" /\ q.try = 0
    BY <2>2 DEF RouteFits
  <2>3. CASE q.pc = "lookup" /\ q.try = 1 /\ \A r \in Range(Nearest) : Connectable(r) => r \in Range(q.valid)
    <3>1. \A r \in Range(route) : r \in Down <=> r \in t
      BY <1>5, <2>1 DEF Down
    <3>2. Cardinality(t \cap Range(route)) >= 0 * RoundTarget
      <4>1. t \cap Range(route) = {} /\ RoundTarget \in Nat
        BY <1>5, Bounds
      <4>2. Cardinality(t \cap Range(route)) = 0
        BY <4>1, FS_EmptySet
      <4> QED
        BY <4>1, <4>2
    <3>3. 0 \in Nat /\ q.try = 0 + 1 /\ t \in SUBSET PoolRelays
      BY <1>5, <2>3
    <3>4. RouteFits(q, t, Range(route), Down)
      BY <1>2, <1>3, <2>1, <2>3, <3>1, <3>2, <3>3, ChosenFits
    <3> QED
      BY <1>2, <1>13, <3>4
  <2> QED
    BY <1>9, <2>2, <2>3
<1>15. EntryTyped' /\ lastGood' \in Seq(PoolRelays) /\ Range(lastGood') \subseteq reached' /\ t \in SUBSET PoolRelays
  BY <1>1, <1>3, <1>5, <1>10 DEF EntryTyped, RoutesFit
<1> QED
  BY <1>8, <1>9, <1>10, <1>11, <1>12, <1>14, <1>15, RouteMoves

LEMMA RouteRetriesSafely ==
  ASSUME RoutingInv, NEW j \in Directed, RouteRetries(j)
  PROVE  RoutingInv'
<1>1. RoutesTyped /\ RoutesFit
  BY DEF RoutingInv
<1>2. PICK t, route, p, n : t = tried[j] /\ route = listen /\ p = directed[j] /\ n = directed[j].try
  OBVIOUS
<1>3. /\ EntryTyped /\ route \in Seq(PoolRelays) /\ listen \in Seq(PoolRelays) /\ lastGood \in Seq(PoolRelays)
      /\ tried \in [Directed -> SUBSET PoolRelays] /\ disturbed \in [Directed -> BOOLEAN] /\ p \in DirectedSet
      /\ t \in SUBSET PoolRelays
  BY <1>1, <1>2 DEF RoutesTyped
<1>4. p.pc = "pause" /\ PublishFits(p, t) /\ (Undisturbed(j) => RouteFits(p, t, Range(route), Down))
  BY <1>1, <1>2 DEF RouteRetries, RoutesFit
<1>5. n \in Nat /\ p.try = n /\ Range(p.valid) \subseteq t
  BY <1>2, <1>3, <1>4 DEF DirectedSet, PublishFits
<1>6. PICK urls \in handshakeTargets(n + 1) :
        directed' = [directed EXCEPT ![j] = Chosen(n + 1, urls)]
  BY <1>2 DEF RouteRetries, Choose, Chosen
<1>7. PICK q : q = Chosen(n + 1, urls)
  OBVIOUS
<1>8. directed' = [directed EXCEPT ![j] = q]
  BY <1>6, <1>7
<1>9. /\ q \in DirectedSet /\ PublishFits(q, t)
      /\ \/ q.pc = "done" /\ q.try = 0
         \/ q.pc = "lookup" /\ q.try = n + 1 /\ \A r \in Range(Nearest) : Connectable(r) => r \in Range(q.valid)
  <2>1. PICK k : k = n + 1
    OBVIOUS
  <2>2. k \in Nat /\ urls \in handshakeTargets(k) /\ q = Chosen(k, urls)
    BY <1>5, <1>6, <1>7, <2>1
  <2>3. /\ q \in DirectedSet /\ PublishFits(q, t)
        /\ \/ q.pc = "done" /\ q.try = 0
           \/ q.pc = "lookup" /\ q.try = k /\ \A r \in Range(Nearest) : Connectable(r) => r \in Range(q.valid)
    BY <1>3, <2>2, ChosenIs
  <2> QED
    BY <2>1, <2>3
<1>10. UNCHANGED <<entry, listen, lastGood, trust, round, heardAt, tried, disturbed, reached, probedLate>>
  BY DEF RouteRetries
<1>11. tried' = [tried EXCEPT ![j] = t]
  BY <1>2, <1>3, <1>10
<1>12. disturbed' \in [Directed -> BOOLEAN] /\ (\A k \in Directed : k # j => disturbed'[k] = disturbed[k])
  BY <1>3, <1>10
<1>13. Down' = Down
  BY <1>10 DEF Down
<1>14. ASSUME Undisturbed(j)' PROVE RouteFits(q, t, Range(listen), Down')
  <2>1. Undisturbed(j) /\ route # <<>> /\ (\A r \in Range(route) : Connectable(r))
    BY <1>2, <1>10, <1>14 DEF Undisturbed, Connectable, Trusted
  <2>2. CASE q.pc = "done" /\ q.try = 0
    BY <2>2 DEF RouteFits
  <2>3. CASE q.pc = "lookup" /\ q.try = n + 1 /\ \A r \in Range(Nearest) : Connectable(r) => r \in Range(q.valid)
    <3>1. RouteFits(p, t, Range(route), Down)
      BY <1>4, <2>1
    <3>2. Enough(p, t, Range(route)) /\ \A r \in Range(route) : r \in Down <=> r \in t
      BY <1>4, <3>1 DEF RouteFits
    <3>3. t \cup Range(p.valid) = t
      BY <1>5
    <3>4. Range(route) \subseteq t \/ Cardinality(t \cap Range(route)) >= n * RoundTarget
      BY <1>5, <3>2, <3>3, Zenon DEF Enough
    <3>5. RouteFits(q, t, Range(route), Down)
      BY <1>2, <1>3, <1>5, <2>1, <2>3, <3>2, <3>4, ChosenFits
    <3> QED
      BY <1>2, <1>13, <3>5
  <2> QED
    BY <1>9, <2>2, <2>3
<1>15. EntryTyped' /\ lastGood' \in Seq(PoolRelays) /\ Range(lastGood') \subseteq reached'
  BY <1>1, <1>3, <1>10 DEF EntryTyped, RoutesFit
<1> QED
  BY <1>3, <1>8, <1>9, <1>10, <1>11, <1>12, <1>14, <1>15, RouteMoves

LEMMA NamesResolvedSafely ==
  ASSUME RoutingInv, NEW j \in Directed, NamesResolved(j)
  PROVE  RoutingInv'
<1>1. RoutesTyped /\ RoutesFit
  BY DEF RoutingInv
<1>2. PICK p, t, v, pc : p = directed[j] /\ t = tried[j] \cup Range(directed[j].valid) /\ v = Range(directed[j].valid)
                         /\ pc = IF directed[j].valid = <<>> THEN "done" ELSE "publish"
  OBVIOUS
<1>3. /\ EntryTyped /\ lastGood \in Seq(PoolRelays) /\ directed \in [Directed -> DirectedSet]
      /\ tried \in [Directed -> SUBSET PoolRelays] /\ disturbed \in [Directed -> BOOLEAN] /\ p \in DirectedSet
  BY <1>1, <1>2 DEF RoutesTyped
<1>4. p.pc = "lookup" /\ PublishFits(p, tried[j]) /\ (Undisturbed(j) => RouteFits(p, tried[j], Range(listen), Down))
  BY <1>1, <1>2 DEF NamesResolved, RoutesFit
<1>5. PICK q : q = [p EXCEPT !.pc = pc]
  OBVIOUS
<1>6. /\ directed' = [directed EXCEPT ![j].pc = pc] /\ tried' = [tried EXCEPT ![j] = @ \cup Range(p.valid)]
      /\ UNCHANGED <<entry, listen, lastGood, trust, round, heardAt, disturbed, reached, probedLate>>
  BY <1>2 DEF NamesResolved
<1>7. directed' = [directed EXCEPT ![j] = q] /\ tried' = [tried EXCEPT ![j] = t]
  BY <1>2, <1>3, <1>5, <1>6
<1>8. q \in DirectedSet /\ q.pc = pc /\ q.try = p.try /\ q.urls = p.urls /\ q.valid = p.valid
  BY <1>2, <1>3, <1>5 DEF DirectedSet
<1>9. v \subseteq PoolRelays /\ v = Range(p.valid) /\ t = tried[j] \cup v /\ t \in SUBSET PoolRelays
  <2>1. p.valid \in Seq(PoolRelays)
    BY <1>3 DEF DirectedSet
  <2>2. DOMAIN p.valid = 1..Len(p.valid) /\ \A i \in 1..Len(p.valid) : p.valid[i] \in PoolRelays
    BY <2>1, LenProperties, ElementOfSeq
  <2>3. Range(p.valid) \subseteq PoolRelays
    BY <2>2 DEF Range
  <2> QED
    BY <1>2, <1>3, <2>3
<1>10. pc = "publish" \/ (pc = "done" /\ v = {})
  <2>1. DOMAIN <<>> = {}
    OBVIOUS
  <2>2. Range(<<>>) = {}
    BY <2>1 DEF Range
  <2> QED
    BY <1>2, <2>2
<1>11. PublishFits(q, t)
  BY <1>4, <1>8, <1>9, <1>10 DEF PublishFits
<1>12. Down' = Down /\ (Undisturbed(j)' => Undisturbed(j))
  BY <1>6 DEF Down, Undisturbed, Connectable, Trusted
<1>13. ASSUME Undisturbed(j)' PROVE RouteFits(q, t, Range(listen), Down')
  <2>1. Enough(p, tried[j], Range(listen)) /\ \A r \in Range(listen) : r \in Down <=> r \in tried[j]
    BY <1>4, <1>12, <1>13 DEF RouteFits
  <2>2. t \cup v = tried[j] \cup v
    BY <1>9
  <2>3. Enough(q, t, Range(listen))
    BY <1>8, <1>9, <2>1, <2>2 DEF Enough
  <2>4. \A r \in Range(listen) : (r \in Down => r \in t) /\ (r \in t => r \in Down \/ r \in Range(q.valid))
    BY <1>8, <1>9, <2>1
  <2> QED
    BY <1>8, <1>10, <1>12, <2>3, <2>4 DEF RouteFits
<1>14. EntryTyped' /\ lastGood' \in Seq(PoolRelays) /\ Range(lastGood') \subseteq reached' /\ disturbed' \in [Directed -> BOOLEAN]
       /\ \A k \in Directed : disturbed'[k] = disturbed[k]
  BY <1>1, <1>3, <1>6 DEF EntryTyped, RoutesFit
<1> QED
  BY <1>6, <1>7, <1>8, <1>9, <1>11, <1>13, <1>14, RouteMoves

\* The route remembers what took the event.
LEMMA AcceptedIs ==
  ASSUME lastGood \in Seq(PoolRelays), NEW p, p.valid \in Seq(PoolRelays), NEW set
  PROVE  /\ Firsts(Distinct(lastGood \o okRelays(p, set)), HistoryMax) \in Seq(PoolRelays)
         /\ Range(Firsts(Distinct(lastGood \o okRelays(p, set)), HistoryMax)) \subseteq Range(lastGood) \cup set
<1>1. PICK l, v, k : l = lastGood /\ v = p.valid /\ k = Kept(p.valid, set)
  OBVIOUS
<1>2. l \in Seq(PoolRelays) /\ v \in Seq(PoolRelays)
  BY <1>1
<1>3. k \in Seq(PoolRelays) /\ Range(k) \subseteq set
  BY <1>1, <1>2, KeptAre
<1>4. PICK b : b = l \o k
  OBVIOUS
<1>5. b \in Seq(PoolRelays) /\ Range(b) = Range(l) \cup Range(k)
  <2>1. b \in Seq(PoolRelays)
    BY <1>2, <1>3, <1>4, ConcatProperties
  <2>2. Range(b) = Range(l) \cup Range(k)
    BY <1>2, <1>3, <1>4, RangesJoin
  <2> QED
    BY <2>1, <2>2
<1>6. PICK d : d = Distinct(b)
  OBVIOUS
<1>7. d \in Seq(PoolRelays) /\ Range(d) = Range(b)
  BY <1>5, <1>6, DistinctAre
<1>8. Firsts(d, HistoryMax) \in Seq(PoolRelays) /\ Range(Firsts(d, HistoryMax)) \subseteq Range(d)
  BY <1>7, Bounds, FirstsAre
<1> QED
  BY <1>1, <1>3, <1>4, <1>5, <1>6, <1>7, <1>8 DEF okRelays

LEMMA RouteAnsweredSafely ==
  ASSUME RoutingInv, NEW j \in Directed, NEW set \in SUBSET PoolRelays, RouteAnswered(j, set)
  PROVE  RoutingInv'
<1>1. RoutesTyped /\ RoutesFit
  BY DEF RoutingInv
<1>2. PICK p, t, v : p = directed[j] /\ t = tried[j] /\ v = Range(directed[j].valid)
  OBVIOUS
<1>3. /\ EntryTyped /\ lastGood \in Seq(PoolRelays) /\ directed \in [Directed -> DirectedSet]
      /\ tried \in [Directed -> SUBSET PoolRelays] /\ disturbed \in [Directed -> BOOLEAN] /\ p \in DirectedSet
      /\ t \in SUBSET PoolRelays
  BY <1>1, <1>2 DEF RoutesTyped
<1>4. p.pc = "publish" /\ PublishFits(p, t) /\ (Undisturbed(j) => RouteFits(p, t, Range(listen), Down))
  BY <1>1, <1>2 DEF RouteAnswered, RoutesFit
<1>5. p.valid \in Seq(PoolRelays) /\ v = Range(p.valid) /\ v \subseteq t
  BY <1>2, <1>3, <1>4 DEF DirectedSet, PublishFits
<1>6. /\ disturbed' = [k \in Directed |-> k # j \/ disturbed[k]]
      /\ UNCHANGED <<listen, trust, round, heardAt, tried, probedLate>>
  BY DEF RouteAnswered
<1>7. tried' = [tried EXCEPT ![j] = t] /\ disturbed' \in [Directed -> BOOLEAN]
      /\ (\A k \in Directed : k # j => disturbed'[k]) /\ (disturbed'[j] <=> disturbed[j])
  BY <1>2, <1>3, <1>6
<1>8. CASE set # {}
  <2>1. /\ lastGood' = Firsts(Distinct(lastGood \o okRelays(p, set)), HistoryMax)
        /\ entry' = Accepting(Range(okRelays(p, set)))
        /\ directed' = [directed EXCEPT ![j] = [NoDirected EXCEPT !.pc = "done", !.ok = TRUE]]
        /\ reached' = reached \cup set
    BY <1>2, <1>8 DEF RouteAnswered
  <2>2. PICK q : q = [NoDirected EXCEPT !.pc = "done", !.ok = TRUE]
    OBVIOUS
  <2>3. Len(<<>>) = 0 /\ <<>> \in Seq(PoolRelays) /\ Range(<<>>) = {} /\ 0 <= FanoutMax
    <3>1. DOMAIN <<>> = {}
      OBVIOUS
    <3>2. Range(<<>>) = {}
      BY <3>1 DEF Range
    <3>3. FanoutMax \in Nat
      BY Bounds
    <3> QED
      BY <3>2, <3>3, EmptySeq
  <2>4. q \in DirectedSet
    <3>1. NoDirected \in DirectedSet
      BY <2>3 DEF NoDirected, DirectedSet
    <3> QED
      BY <2>2, <3>1 DEF DirectedSet
  <2>5. q.pc = "done" /\ q.try = 0 /\ q.urls = <<>> /\ q.valid = <<>>
    BY <2>2 DEF NoDirected
  <2>6. PublishFits(q, t) /\ \A c, d : RouteFits(q, t, c, d)
    BY <2>3, <2>5 DEF PublishFits, RouteFits
  <2>7. lastGood' \in Seq(PoolRelays) /\ Range(lastGood') \subseteq Range(lastGood) \cup set
    BY <1>3, <1>5, <2>1, AcceptedIs
  <2>8. Range(lastGood') \subseteq reached'
    BY <1>1, <2>1, <2>7 DEF RoutesFit
  <2>9. EntryTyped'
    BY <1>3, <2>1 DEF EntryTyped, Accepting, Entry
  <2>10. directed' = [directed EXCEPT ![j] = q]
    BY <2>1, <2>2
  <2> QED
    BY <1>3, <1>6, <1>7, <2>4, <2>6, <2>7, <2>8, <2>9, <2>10, RouteMoves
<1>9. CASE set = {}
  <2>1. PICK pc : pc = IF p.try >= RoutingTries THEN "done" ELSE "pause"
    OBVIOUS
  <2>2. /\ entry' = Refusing(v) /\ directed' = [directed EXCEPT ![j].pc = pc]
        /\ UNCHANGED <<lastGood, reached>>
    BY <1>2, <1>9, <2>1 DEF RouteAnswered
  <2>3. PICK q : q = [p EXCEPT !.pc = pc]
    OBVIOUS
  <2>4. directed' = [directed EXCEPT ![j] = q]
    BY <1>2, <1>3, <2>2, <2>3
  <2>5. pc \in {"done", "pause"}
    BY <2>1
  <2>6. q \in DirectedSet /\ q.pc = pc /\ q.try = p.try /\ q.urls = p.urls /\ q.valid = p.valid
    BY <1>3, <2>3, <2>5 DEF DirectedSet
  <2>7. PublishFits(q, t)
    BY <1>4, <1>5, <2>5, <2>6 DEF PublishFits
  <2>8. EntryTyped'
    BY <1>3, <2>2 DEF EntryTyped, Refusing, Entry
  <2>9. \A r \in PoolRelays : r \in Down' <=> r \in Down \/ r \in v
    <3>1. ASSUME NEW r \in PoolRelays PROVE r \in Down' <=> r \in Down \/ r \in v
      <4>1. entry[r] \in Entry
        BY <1>3 DEF EntryTyped
      <4>2. entry'[r] = IF r \in v THEN [entry[r] EXCEPT !.st = "bad", !.cooling = TRUE] ELSE entry[r]
        BY <2>2 DEF Refusing
      <4>3. entry'[r].st = "bad" <=> entry[r].st = "bad" \/ r \in v
        BY <4>1, <4>2 DEF Entry
      <4> QED
        BY <4>3 DEF Down
    <3> QED
      BY <3>1
  <2>10. Range(listen) \subseteq PoolRelays
    <3>1. listen \in Seq(PoolRelays)
      BY <1>1 DEF RoutesTyped
    <3>2. DOMAIN listen = 1..Len(listen) /\ \A i \in 1..Len(listen) : listen[i] \in PoolRelays
      BY <3>1, LenProperties, ElementOfSeq
    <3> QED
      BY <3>2 DEF Range
  <2>11. ASSUME Undisturbed(j)' PROVE RouteFits(q, t, Range(listen), Down')
    <3>1. Undisturbed(j)
      BY <1>6, <1>7, <2>11 DEF Undisturbed, Connectable, Trusted
    <3>2. /\ Enough(p, t, Range(listen))
          /\ \A r \in Range(listen) : (r \in Down => r \in t) /\ (r \in t => r \in Down \/ r \in v)
      BY <1>4, <1>5, <3>1 DEF RouteFits
    <3>3. Enough(q, t, Range(listen))
      BY <2>6, <3>2 DEF Enough
    <3>4. \A r \in Range(listen) : r \in Down' <=> r \in t
      BY <1>5, <2>9, <2>10, <3>2
    <3> QED
      BY <2>5, <2>6, <3>3, <3>4 DEF RouteFits
  <2>12. lastGood' \in Seq(PoolRelays) /\ Range(lastGood') \subseteq reached'
    BY <1>1, <1>3, <2>2 DEF RoutesFit
  <2> QED
    BY <1>3, <1>6, <1>7, <2>4, <2>6, <2>7, <2>8, <2>11, <2>12, RouteMoves
<1> QED
  BY <1>8, <1>9

LEMMA PoolChangesSafely ==
  ASSUME RoutingInv, NEW r \in PoolRelays, NEW st \in {"good", "bad", "old", "cool"}, EntryChanges(r, st)
  PROVE  RoutingInv'
<1>1. RoutesTyped /\ RoundsFit
  BY DEF RoutingInv
<1>2. EntryTyped /\ listen \in Seq(PoolRelays) /\ trust \in [PoolRelays -> Nat]
  BY <1>1 DEF RoutesTyped
<1>3. /\ disturbed' = [k \in Directed |-> TRUE]
      /\ UNCHANGED <<listen, trust, lastGood, directed, round, heardAt, tried, reached, probedLate>>
  BY DEF EntryChanges, Elsewhere
<1>4. EntryTyped'
  <2>1. \/ entry' = [entry EXCEPT ![r].st = "good"]
        \/ entry' = [entry EXCEPT ![r].st = "bad"]
        \/ entry' = [entry EXCEPT ![r].st = "old"]
        \/ entry' = [entry EXCEPT ![r].cooling = FALSE]
    BY DEF EntryChanges
  <2>2. /\ entry[r] \in Entry /\ entry[r].cooling \in BOOLEAN
        /\ \A s \in {"good", "bad", "old"} : [entry[r] EXCEPT !.st = s] \in Entry
        /\ [entry[r] EXCEPT !.cooling = FALSE] \in Entry
    BY <1>2 DEF EntryTyped, Entry
  <2>3. PICK e \in Entry : entry' = [entry EXCEPT ![r] = e]
    BY <2>1, <2>2
  <2> QED
    BY <1>2, <2>3 DEF EntryTyped
<1>5. RoundsFit'
  BY <1>1, <1>3 DEF RoundsFit
<1> QED
  BY <1>2, <1>3, <1>4, <1>5, RoutesDisturbed

LEMMA ProviderTrustsSafely ==
  ASSUME RoutingInv, NEW r \in PoolRelays, NEW by \in {-1, 1}, ProviderTrusts(r, by)
  PROVE  RoutingInv'
<1>1. RoutesTyped /\ RoundsFit
  BY DEF RoutingInv
<1>2. EntryTyped /\ listen \in Seq(PoolRelays) /\ trust \in [PoolRelays -> Nat]
  BY <1>1 DEF RoutesTyped
<1>3. /\ disturbed' = [k \in Directed |-> TRUE]
      /\ UNCHANGED <<listen, entry, lastGood, directed, round, heardAt, tried, reached, probedLate>>
  BY DEF ProviderTrusts, Elsewhere
<1>4. trust' \in [PoolRelays -> Nat]
  <2>1. trust[r] \in Nat
    BY <1>2
  <2>2. trust[r] + by \in Nat
    BY <2>1 DEF ProviderTrusts
  <2>3. trust' = [trust EXCEPT ![r] = trust[r] + by]
    BY DEF ProviderTrusts
  <2> QED
    BY <1>2, <2>2, <2>3
<1>5. RoundsFit' /\ EntryTyped'
  BY <1>1, <1>2, <1>3 DEF RoundsFit, EntryTyped
<1> QED
  BY <1>2, <1>3, <1>4, <1>5, RoutesDisturbed

LEMMA AdvertHeardSafely ==
  ASSUME RoutingInv, NEW claim \in PeerClaims, AdvertHeard(claim)
  PROVE  RoutingInv'
<1>1. RoutesTyped /\ RoundsFit
  BY DEF RoutingInv
<1>2. EntryTyped /\ trust \in [PoolRelays -> Nat]
  BY <1>1 DEF RoutesTyped
<1>3. /\ disturbed' = [k \in Directed |-> TRUE] /\ listen' = claim
      /\ UNCHANGED <<entry, trust, lastGood, directed, round, heardAt, tried, reached, probedLate>>
  BY DEF AdvertHeard, Elsewhere
<1>4. listen' \in Seq(PoolRelays)
  BY <1>3, RoutingAssumption
<1>5. RoundsFit' /\ EntryTyped'
  BY <1>1, <1>2, <1>3 DEF RoundsFit, EntryTyped
<1> QED
  BY <1>2, <1>3, <1>4, <1>5, RoutesDisturbed

LEMMA SubscribesSafely ==
  ASSUME RoutingInv, Subscribes
  PROVE  RoutingInv'
<1>1. RoutesTyped /\ RoundsFit
  BY DEF RoutingInv
<1>2. Range(getListenRelays) \subseteq PoolRelays
  BY <1>1, ListenIs DEF RoutesTyped
<1>3. heardAt' \subseteq PoolRelays /\ UNCHANGED <<entry, listen, lastGood, trust, directed, round, tried, disturbed, reached, probedLate>>
  BY <1>2 DEF Subscribes
<1>4. RoundsFit'
  BY <1>1, <1>3 DEF RoundsFit
<1> QED
  BY <1>3, <1>4, RoutesStay

-----------------------------------------------------------------------------
(* Discovery rounds. *)

\* One round moves on.
LEMMA RoundMoves ==
  ASSUME RoundsFit, NEW d \in DiscoveryRounds, NEW x \in RoundSet, round' = [round EXCEPT ![d] = x], probedLate' = FALSE
  PROVE  RoundsFit'
BY DEF RoundsFit

LEMMA CollectedSafely ==
  ASSUME RoutingInv, NEW d \in DiscoveryRounds, NEW set \in SUBSET PoolRelays, Collected(d, set)
  PROVE  RoutingInv'
<1>1. RoutesTyped /\ RoundsFit
  BY DEF RoutingInv
<1>2. PICK rd, x : rd = round[d] /\ x = [round[d] EXCEPT !.st = "probes", !.pending = set]
  OBVIOUS
<1>3. rd \in RoundSet /\ round \in [DiscoveryRounds -> RoundSet] /\ probedLate = FALSE
  BY <1>1, <1>2 DEF RoundsFit
<1>4. /\ round' = [round EXCEPT ![d].st = "probes", ![d].pending = set]
      /\ UNCHANGED <<listen, lastGood, trust, directed, heardAt, tried, reached, entry, disturbed, probedLate>>
  BY DEF Collected, RoundUnchanged
<1>5. x \in RoundSet
  BY <1>2, <1>3 DEF RoundSet
<1>6. round' = [round EXCEPT ![d] = x]
  BY <1>2, <1>3, <1>4 DEF RoundSet
<1>7. RoundsFit'
  BY <1>1, <1>3, <1>4, <1>5, <1>6, RoundMoves
<1>8. heardAt' \subseteq PoolRelays
  BY <1>1, <1>4 DEF RoutesTyped
<1> QED
  BY <1>4, <1>7, <1>8, RoutesStay

LEMMA RoundBeginsSafely ==
  ASSUME RoutingInv, NEW d \in DiscoveryRounds, RoundBegins(d)
  PROVE  RoutingInv'
<1>1. RoutesTyped /\ RoundsFit
  BY DEF RoutingInv
<1>2. PICK rd, x : rd = round[d] /\ x = [round[d] EXCEPT !.st = "asks"]
  OBVIOUS
<1>3. rd \in RoundSet /\ round \in [DiscoveryRounds -> RoundSet] /\ probedLate = FALSE
  BY <1>1, <1>2 DEF RoundsFit
<1>4. /\ round' = [round EXCEPT ![d].st = "asks"]
      /\ UNCHANGED <<listen, lastGood, trust, directed, heardAt, tried, reached, entry, disturbed, probedLate>>
  BY DEF RoundBegins, RoundUnchanged
<1>5. x \in RoundSet
  BY <1>2, <1>3 DEF RoundSet
<1>6. round' = [round EXCEPT ![d] = x]
  BY <1>2, <1>3, <1>4 DEF RoundSet
<1>7. RoundsFit'
  BY <1>1, <1>3, <1>4, <1>5, <1>6, RoundMoves
<1>8. heardAt' \subseteq PoolRelays
  BY <1>1, <1>4 DEF RoutesTyped
<1> QED
  BY <1>4, <1>7, <1>8, RoutesStay

LEMMA RoundEndsSafely ==
  ASSUME RoutingInv, NEW d \in DiscoveryRounds, RoundEnds(d)
  PROVE  RoutingInv'
<1>1. RoutesTyped /\ RoundsFit
  BY DEF RoutingInv
<1>2. PICK rd, x : rd = round[d] /\ x = [round[d] EXCEPT !.st = "over", !.pending = {}]
  OBVIOUS
<1>3. rd \in RoundSet /\ round \in [DiscoveryRounds -> RoundSet] /\ probedLate = FALSE
  BY <1>1, <1>2 DEF RoundsFit
<1>4. /\ round' = [round EXCEPT ![d].st = "over", ![d].pending = {}]
      /\ UNCHANGED <<listen, lastGood, trust, directed, heardAt, tried, reached, entry, disturbed, probedLate>>
  BY DEF RoundEnds, RoundUnchanged
<1>5. x \in RoundSet
  BY <1>2, <1>3 DEF RoundSet
<1>6. round' = [round EXCEPT ![d] = x]
  BY <1>2, <1>3, <1>4 DEF RoundSet
<1>7. RoundsFit'
  BY <1>1, <1>3, <1>4, <1>5, <1>6, RoundMoves
<1>8. heardAt' \subseteq PoolRelays
  BY <1>1, <1>4 DEF RoutesTyped
<1> QED
  BY <1>4, <1>7, <1>8, RoutesStay

LEMMA RoundStoppedSafely ==
  ASSUME RoutingInv, NEW d \in DiscoveryRounds, RoundStopped(d)
  PROVE  RoutingInv'
<1>1. RoutesTyped /\ RoundsFit
  BY DEF RoutingInv
<1>2. PICK rd, x : rd = round[d] /\ x = [round[d] EXCEPT !.aborted = TRUE]
  OBVIOUS
<1>3. rd \in RoundSet /\ round \in [DiscoveryRounds -> RoundSet] /\ probedLate = FALSE
  BY <1>1, <1>2 DEF RoundsFit
<1>4. /\ round' = [round EXCEPT ![d].aborted = TRUE]
      /\ UNCHANGED <<listen, lastGood, trust, directed, heardAt, tried, reached, entry, disturbed, probedLate>>
  BY DEF RoundStopped, RoundUnchanged
<1>5. x \in RoundSet
  BY <1>2, <1>3 DEF RoundSet
<1>6. round' = [round EXCEPT ![d] = x]
  BY <1>2, <1>3, <1>4 DEF RoundSet
<1>7. RoundsFit'
  BY <1>1, <1>3, <1>4, <1>5, <1>6, RoundMoves
<1>8. heardAt' \subseteq PoolRelays
  BY <1>1, <1>4 DEF RoutesTyped
<1> QED
  BY <1>4, <1>7, <1>8, RoutesStay

\* What is left of the round's probes bounds its batch.
LEMMA BatchBeginsSafely ==
  ASSUME RoutingInv, NEW d \in DiscoveryRounds, BatchBegins(d)
  PROVE  RoutingInv'
<1>1. RoutesTyped /\ RoundsFit
  BY DEF RoutingInv
<1>2. PICK rd, left : /\ rd = round[d]
                      /\ left = IF MaxProbes - round[d].count < BatchSize THEN MaxProbes - round[d].count ELSE BatchSize
  OBVIOUS
<1>3. rd \in RoundSet /\ round \in [DiscoveryRounds -> RoundSet] /\ probedLate = FALSE
  BY <1>1, <1>2 DEF RoundsFit
<1>4. MayProbe(rd) /\ probedLate' = (probedLate \/ rd.aborted)
      /\ UNCHANGED <<listen, lastGood, trust, directed, heardAt, tried, reached, entry, disturbed>>
  BY <1>2 DEF BatchBegins, RoundUnchanged
<1>5. PICK batch \in SUBSET rd.pending :
        /\ Cardinality(batch) = (IF Cardinality(rd.pending) < left THEN Cardinality(rd.pending) ELSE left)
        /\ round' = [round EXCEPT ![d].batch = batch, ![d].pending = @ \ batch, ![d].count = @ + Cardinality(batch)]
  BY <1>2 DEF BatchBegins
<1>6. rd.count \in 0..MaxProbes /\ MaxProbes \in Nat /\ rd.pending \subseteq PoolRelays /\ BatchSize \in Nat
  BY <1>3, RoutingAssumption DEF RoundSet
<1>7. PICK c, e : c = Cardinality(batch) /\ e = Cardinality(rd.pending)
  OBVIOUS
<1>8. c \in Nat /\ e \in Nat
  <2>1. IsFiniteSet(rd.pending) /\ IsFiniteSet(batch)
    BY <1>6, PoolIsFinite, FS_Subset
  <2> QED
    BY <1>7, <2>1, FS_CardinalityType
<1>9. rd.count + c \in 0..MaxProbes
  <2>1. PICK k : k = rd.count
    OBVIOUS
  <2>2. left = IF MaxProbes - k < BatchSize THEN MaxProbes - k ELSE BatchSize
    BY <1>2, <2>1
  <2>3. c = IF e < left THEN e ELSE left
    BY <1>5, <1>7
  <2>4. c <= MaxProbes - k /\ k \in 0..MaxProbes
    BY <1>6, <1>8, <2>1, <2>2, <2>3
  <2> QED
    BY <1>6, <1>8, <2>1, <2>4
<1>10. PICK x : x = [rd EXCEPT !.batch = batch, !.pending = @ \ batch, !.count = @ + c]
  OBVIOUS
<1>11. x \in RoundSet
  <2>1. PICK n, left2 : n = rd.count + c /\ left2 = rd.pending \ batch
    OBVIOUS
  <2>2. n \in 0..MaxProbes /\ left2 \subseteq PoolRelays /\ batch \subseteq PoolRelays
    BY <1>6, <1>9, <2>1
  <2>3. x = [rd EXCEPT !.batch = batch, !.pending = left2, !.count = n]
    BY <1>3, <1>10, <2>1 DEF RoundSet
  <2> QED
    BY <1>3, <2>2, <2>3 DEF RoundSet
<1>12. round' = [round EXCEPT ![d] = x]
  BY <1>2, <1>3, <1>5, <1>7, <1>10 DEF RoundSet
<1>13. probedLate' = FALSE
  BY <1>3, <1>4 DEF MayProbe
<1>14. RoundsFit'
  BY <1>1, <1>11, <1>12, <1>13, RoundMoves
<1>15. heardAt' \subseteq PoolRelays
  BY <1>1, <1>4 DEF RoutesTyped
<1> QED
  BY <1>4, <1>14, <1>15, RoutesStay

LEMMA BatchSettlesSafely ==
  ASSUME RoutingInv, NEW d \in DiscoveryRounds, NEW good \in SUBSET PoolRelays, BatchSettles(d, good)
  PROVE  RoutingInv'
<1>1. RoutesTyped /\ RoundsFit
  BY DEF RoutingInv
<1>2. PICK rd, x : rd = round[d] /\ x = [round[d] EXCEPT !.batch = {}]
  OBVIOUS
<1>3. rd \in RoundSet /\ round \in [DiscoveryRounds -> RoundSet] /\ probedLate = FALSE
  BY <1>1, <1>2 DEF RoundsFit
<1>4. /\ round' = [round EXCEPT ![d].batch = {}] /\ disturbed' = [k \in Directed |-> TRUE]
      /\ UNCHANGED <<listen, lastGood, trust, directed, heardAt, tried, reached, probedLate>>
  BY DEF BatchSettles, RoundUnchanged
<1>5. x \in RoundSet
  BY <1>2, <1>3 DEF RoundSet
<1>6. round' = [round EXCEPT ![d] = x]
  BY <1>2, <1>3, <1>4 DEF RoundSet
<1>7. RoundsFit'
  BY <1>1, <1>3, <1>4, <1>5, <1>6, RoundMoves
<1>8. EntryTyped /\ listen \in Seq(PoolRelays) /\ trust \in [PoolRelays -> Nat]
  BY <1>1 DEF RoutesTyped
<1>9. EntryTyped'
  <2>1. PICK batch : batch = round[d].batch
    OBVIOUS
  <2>2. entry' = [r \in PoolRelays |->
          IF r \in good THEN [entry[r] EXCEPT !.st = "good"]
          ELSE IF r \in batch THEN [entry[r] EXCEPT !.st = "bad"] ELSE entry[r]]
    BY <2>1 DEF BatchSettles
  <2> QED
    BY <1>8, <2>2 DEF EntryTyped, Entry
<1> QED
  BY <1>4, <1>7, <1>8, <1>9, RoutesDisturbed

-----------------------------------------------------------------------------

LEMMA RoutingSteps == RoutingInv /\ [NextRouting]_routingVars => RoutingInv'
<1> SUFFICES ASSUME RoutingInv, [NextRouting]_routingVars PROVE RoutingInv'
  OBVIOUS
<1>1. CASE UNCHANGED routingVars
  <2>1. RoutesTyped /\ RoundsFit /\ RoundsFit' /\ heardAt' \subseteq PoolRelays
    BY <1>1 DEF RoutingInv, routingVars, RoundsFit, RoutesTyped
  <2> QED
    BY <1>1, <2>1, RoutesStay DEF routingVars
<1>2. CASE NextRouting
  <2>1. ASSUME NEW j \in Directed, RouteBegins(j) PROVE RoutingInv'
    BY <2>1, RouteBeginsSafely
  <2>2. ASSUME NEW j \in Directed, RouteRetries(j) PROVE RoutingInv'
    BY <2>2, RouteRetriesSafely
  <2>3. ASSUME NEW j \in Directed, NamesResolved(j) PROVE RoutingInv'
    BY <2>3, NamesResolvedSafely
  <2>4. ASSUME NEW j \in Directed, NEW set \in SUBSET PoolRelays, RouteAnswered(j, set) PROVE RoutingInv'
    BY <2>4, RouteAnsweredSafely
  <2>5. ASSUME NEW r \in PoolRelays, NEW st \in {"good", "bad", "old", "cool"}, EntryChanges(r, st) PROVE RoutingInv'
    BY <2>5, PoolChangesSafely
  <2>6. ASSUME NEW r \in PoolRelays, NEW by \in {-1, 1}, ProviderTrusts(r, by) PROVE RoutingInv'
    BY <2>6, ProviderTrustsSafely
  <2>7. ASSUME NEW claim \in PeerClaims, AdvertHeard(claim) PROVE RoutingInv'
    BY <2>7, AdvertHeardSafely
  <2>8. CASE Subscribes
    BY <2>8, SubscribesSafely
  <2>9. ASSUME NEW d \in DiscoveryRounds, NEW set \in SUBSET PoolRelays, Collected(d, set) PROVE RoutingInv'
    BY <2>9, CollectedSafely
  <2>10. ASSUME NEW d \in DiscoveryRounds, NEW set \in SUBSET PoolRelays, BatchSettles(d, set) PROVE RoutingInv'
    BY <2>10, BatchSettlesSafely
  <2>11. ASSUME NEW d \in DiscoveryRounds, RoundBegins(d) \/ BatchBegins(d) \/ RoundEnds(d) \/ RoundStopped(d) PROVE RoutingInv'
    BY <2>11, RoundBeginsSafely, BatchBeginsSafely, RoundEndsSafely, RoundStoppedSafely
  <2> QED
    BY <1>2, <2>1, <2>2, <2>3, <2>4, <2>5, <2>6, <2>7, <2>8, <2>9, <2>10, <2>11, Zenon DEF NextRouting
<1> QED
  BY <1>1, <1>2

\* Routes are learnt from what worked (RememberedServed); a publish that nothing else disturbs
\* reaches all that its peer claims before it gives up (ClaimsTried), because what is down in
\* the claim is at any time exactly what it tried and the nearest relays of each attempt are
\* therefore new; a stopped round begins no probes; pins stay in the set that is listened at
\* (selection.mjs:38-197, relays.mjs:626-650, 878-1036).
THEOREM RoutingSound == SpecRouting => [](RoutingTypeOK /\ RoutingIsSound)
<1>1. RoutingInv => RoutingTypeOK /\ RoutingIsSound
  BY RoutingInvIsSound
<1> QED
  BY RoutingStarts, RoutingSteps, <1>1, PTL DEF SpecRouting

-----------------------------------------------------------------------------
(* The relay connection shared by providers. *)

SessionSet == [microtask : BOOLEAN, timer : BOOLEAN, connecting : BOOLEAN, idle : BOOLEAN,
               sock : {"none", "open", "closing", "dropped"}, subs : SUBSET Subs, heard : SUBSET Subs]

RequestSet == [st : {"new", "pending", "inflight", "ok", "failed"}, in : Nat, deadline : BOOLEAN]

\* A session that connects has no socket yet, and one with a socket has asked for its subscriptions.
RelaySessionFits(se) ==
  /\ se \in SessionSet
  /\ se.connecting => se.sock = "none"
  /\ se.sock = "open" => se.heard = se.subs

\* It has a socket or will have one.
RelayGoes(se) == se.sock # "none" \/ se.connecting \/ se.timer \/ se.microtask

Waits(rq, r) == rq[r].st \in {"pending", "inflight"}

\* Sessions are numbered; the one in the map has the work.
RelayInv ==
  /\ \E n \in Nat : DOMAIN session = 1..n
  /\ \A s \in DOMAIN session : RelaySessionFits(session[s])
  /\ current \in DOMAIN session \cup {0}
  /\ request \in [Requests -> RequestSet]
  /\ \A r \in Requests : Waits(request, r) => request[r].in \in DOMAIN session
  /\ displaced \in BOOLEAN
  /\ current # 0 => RelayGoes(session[current])
  /\ OneSharedSocket

\* A new session and what scheduling makes of one.
LEMMA NewFits == RelaySessionFits(NewSession) /\ NewSession.subs = {} /\ NewSession.sock = "none"
BY DEF NewSession, RelaySessionFits, SessionSet

LEMMA ConnectSoonFits ==
  ASSUME NEW se, RelaySessionFits(se)
  PROVE  /\ RelaySessionFits(ConnectSoon(se)) /\ RelayGoes(ConnectSoon(se))
         /\ ConnectSoon(se).subs = se.subs /\ ConnectSoon(se).sock = se.sock
BY DEF RelaySessionFits, SessionSet, ConnectSoon, RelayGoes

LEMMA ConnectLaterFits ==
  ASSUME NEW se, RelaySessionFits(se)
  PROVE  /\ RelaySessionFits(ConnectLater(se)) /\ RelayGoes(ConnectLater(se))
         /\ ConnectLater(se).subs = se.subs /\ ConnectLater(se).sock = se.sock
BY DEF RelaySessionFits, SessionSet, ConnectLater, RelayGoes

LEMMA IdleSoonFits ==
  ASSUME NEW se, RelaySessionFits(se)
  PROVE  /\ RelaySessionFits(IdleSoon(se))
         /\ RelayGoes(se) => RelayGoes(IdleSoon(se))
         /\ IdleSoon(se).subs = se.subs /\ IdleSoon(se).sock = se.sock
BY DEF RelaySessionFits, SessionSet, IdleSoon, RelayGoes

LEMMA DropFits ==
  ASSUME NEW se, RelaySessionFits(se)
  PROVE  /\ RelaySessionFits(Drop(se)) /\ Drop(se).subs = se.subs
         /\ Drop(se).sock \notin {"open", "closing"}
BY DEF RelaySessionFits, SessionSet, Drop

LEMMA AttachedFits ==
  ASSUME NEW se, RelaySessionFits(se), ~se.connecting
  PROVE  /\ RelaySessionFits(SocketAttached(se)) /\ RelayGoes(SocketAttached(se)) /\ SocketAttached(se).subs = se.subs
BY DEF RelaySessionFits, SessionSet, SocketAttached, RelayGoes

\* The session that is acquired is there, or is the next.
LEMMA AcquiredFits ==
  ASSUME RelayInv
  PROVE  /\ AcquiredId # 0
         /\ \E n \in Nat : DOMAIN session \cup {AcquiredId} = 1..n
         /\ RelaySessionFits(Acquired) /\ RelayGoes(Acquired)
         /\ current # 0 => AcquiredId = current /\ Acquired = session[current]
         /\ current = 0 => AcquiredId \notin DOMAIN session /\ Acquired.subs = {} /\ Acquired.sock = "none"
<1>1. CASE current # 0
  <2>1. AcquiredId = current /\ Acquired = session[current] /\ current \in DOMAIN session
    BY <1>1 DEF AcquiredId, Acquired, RelayInv
  <2>2. DOMAIN session \cup {AcquiredId} = DOMAIN session
    BY <2>1
  <2> QED
    BY <1>1, <2>1, <2>2 DEF RelayInv
<1>2. CASE current = 0
  <2>1. PICK n \in Nat : DOMAIN session = 1..n
    BY DEF RelayInv
  <2>2. Cardinality(DOMAIN session) = n
    <3>1. Cardinality(1..n) = IF 1 > n THEN 0 ELSE n - 1 + 1
      BY FS_Interval
    <3> QED
      BY <2>1, <3>1
  <2>3. AcquiredId = n + 1 /\ Acquired = ConnectSoon(NewSession)
    BY <1>2, <2>2 DEF AcquiredId, Acquired
  <2>4. DOMAIN session \cup {AcquiredId} = 1..(n + 1) /\ AcquiredId \notin DOMAIN session
    BY <2>1, <2>3
  <2> QED
    BY <1>2, <2>3, <2>4, NewFits, ConnectSoonFits
<1> QED
  BY <1>1, <1>2

LEMMA SetEffect ==
  ASSUME NEW s, NEW se, SetSession(s, se)
  PROVE  /\ DOMAIN session' = DOMAIN session \cup {s}
         /\ session'[s] = se
         /\ \A t \in DOMAIN session \ {s} : session'[t] = session[t]
BY DEF SetSession

\* A step that sets one session and keeps the map, the callers' subscriptions and what waits.
LEMMA SetKeeps ==
  ASSUME RelayInv, NEW s \in DOMAIN session, NEW se, SetSession(s, se), RelaySessionFits(se),
         UNCHANGED <<current, subscribed, displaced>>,
         request' \in [Requests -> RequestSet],
         \A r \in Requests : Waits(request', r) => Waits(request, r) /\ request'[r].in = request[r].in,
         s = current => RelayGoes(se) /\ se.subs = session[s].subs,
         se.sock \in {"open", "closing"} => s = current \/ session[s].sock \in {"open", "closing"}
  PROVE  RelayInv'
<1>1. /\ DOMAIN session' = DOMAIN session /\ session'[s] = se
      /\ \A t \in DOMAIN session \ {s} : session'[t] = session[t]
  <2>1. DOMAIN session' = DOMAIN session \cup {s}
    BY SetEffect
  <2>2. session'[s] = se /\ \A t \in DOMAIN session \ {s} : session'[t] = session[t]
    BY SetEffect
  <2> QED
    BY <2>1, <2>2
<1>2. OneSharedSocket'
  <2> SUFFICES ASSUME ~displaced' PROVE OneSharedSocket'
    BY DEF OneSharedSocket
  <2>1. /\ \A r \in Requests : request[r].st \in {"pending", "inflight"} => request[r].in = current
        /\ subscribed = IF current = 0 THEN {} ELSE session[current].subs
        /\ \A t \in DOMAIN session : session[t].sock \in {"open", "closing"} => t = current
    BY DEF RelayInv, OneSharedSocket
  <2>2. \A r \in Requests : request'[r].st \in {"pending", "inflight"} => request'[r].in = current'
    BY <2>1 DEF Waits
  <2>3. current' # 0 => session'[current].subs = session[current].subs
    BY <1>1 DEF RelayInv
  <2>4. \A t \in DOMAIN session' : session'[t].sock \in {"open", "closing"} => t = current'
    BY <1>1, <2>1
  <2> QED
    BY <2>1, <2>2, <2>3, <2>4 DEF OneSharedSocket
<1>3. current' # 0 => RelayGoes(session'[current'])
  BY <1>1 DEF RelayInv
<1>4. \A t \in DOMAIN session' : RelaySessionFits(session'[t])
  BY <1>1 DEF RelayInv
<1>5. \A r \in Requests : Waits(request', r) => request'[r].in \in DOMAIN session'
  BY <1>1 DEF RelayInv
<1> QED
  BY <1>1, <1>2, <1>3, <1>4, <1>5 DEF RelayInv

\* A session without work leaves the map with its socket.
LEMMA ForgetKeeps ==
  ASSUME RelayInv, NEW s \in DOMAIN session, NEW se, SetSession(s, se), RelaySessionFits(se),
         Forget(s), s = current /\ ~displaced => subscribed' = {},
         request' \in [Requests -> RequestSet],
         \A r \in Requests : Waits(request', r) => /\ Waits(request, r) /\ request'[r].in = request[r].in
                                                   /\ request'[r].in # s,
         s # current => UNCHANGED subscribed,
         se.sock \notin {"open", "closing"} \/ (s # current /\ se.sock = session[s].sock)
  PROVE  RelayInv'
<1>1. /\ DOMAIN session' = DOMAIN session /\ session'[s] = se
      /\ \A t \in DOMAIN session \ {s} : session'[t] = session[t]
  <2>1. DOMAIN session \cup {s} = DOMAIN session
    OBVIOUS
  <2> QED
    BY <2>1, SetEffect
<1>2. current' = 0 /\ displaced' = (displaced \/ current \notin {0, s})
  BY DEF Forget
<1>3. OneSharedSocket'
  <2> SUFFICES ASSUME ~displaced' PROVE OneSharedSocket'
    BY DEF OneSharedSocket
  <2>0. ~displaced /\ current \in {0, s}
    BY <1>2
  <2>1. /\ \A r \in Requests : request[r].st \in {"pending", "inflight"} => request[r].in = current
        /\ subscribed = IF current = 0 THEN {} ELSE session[current].subs
        /\ \A t \in DOMAIN session : session[t].sock \in {"open", "closing"} => t = current
    BY <2>0 DEF RelayInv, OneSharedSocket
  <2>2. s # 0
    BY DEF RelayInv
  <2>3. subscribed' = {}
    BY <2>0, <2>1, <2>2
  <2>4. \A r \in Requests : ~(request'[r].st \in {"pending", "inflight"})
    BY <2>0, <2>1, <2>2 DEF Waits, RelayInv
  <2>5. \A t \in DOMAIN session' : ~(session'[t].sock \in {"open", "closing"})
    <3>1. se.sock \notin {"open", "closing"}
      <4>1. CASE s # current
        <5>1. session[s].sock \notin {"open", "closing"}
          BY <4>1, <2>1
        <5> QED
          BY <5>1
      <4>2. CASE s = current
        BY <4>2
      <4> QED
        BY <4>1, <4>2
    <3>2. \A t \in DOMAIN session \ {s} : session[t].sock \notin {"open", "closing"}
      <4>1. SUFFICES ASSUME NEW t \in DOMAIN session \ {s} PROVE session[t].sock \notin {"open", "closing"}
        OBVIOUS
      <4>2. t # current
        BY <2>0, <4>1 DEF RelayInv
      <4> QED
        BY <2>1, <4>2
    <3> QED
      BY <1>1, <3>1, <3>2
  <2> QED
    BY <1>2, <2>3, <2>4, <2>5 DEF OneSharedSocket
<1>4. \A t \in DOMAIN session' : RelaySessionFits(session'[t])
  BY <1>1 DEF RelayInv
<1>5. \A r \in Requests : Waits(request', r) => request'[r].in \in DOMAIN session'
  BY <1>1 DEF RelayInv
<1>6. displaced' \in BOOLEAN
  BY <1>2 DEF RelayInv
<1> QED
  BY <1>1, <1>2, <1>3, <1>4, <1>5, <1>6 DEF RelayInv

\* What the callers subscribed is what the session in the map has.
LEMMA SubscribedThere ==
  ASSUME RelayInv, ~displaced
  PROVE  subscribed = Acquired.subs
BY AcquiredFits DEF RelayInv, OneSharedSocket

\* Work is given to the session that is acquired.
LEMMA AcquireKeeps ==
  ASSUME RelayInv, NEW se, SetSession(AcquiredId, se), RelaySessionFits(se), RelayGoes(se),
         current' = AcquiredId, ~displaced => subscribed' = se.subs, UNCHANGED displaced,
         request' \in [Requests -> RequestSet],
         \A r \in Requests : Waits(request', r) =>
           \/ Waits(request, r) /\ request'[r].in = request[r].in
           \/ request'[r].in = AcquiredId
  PROVE  RelayInv'
<1>1. /\ DOMAIN session' = DOMAIN session \cup {AcquiredId} /\ session'[AcquiredId] = se
      /\ \A t \in DOMAIN session \ {AcquiredId} : session'[t] = session[t]
  BY SetEffect
<1>2. /\ AcquiredId # 0 /\ \E n \in Nat : DOMAIN session \cup {AcquiredId} = 1..n
      /\ current # 0 => AcquiredId = current
  BY AcquiredFits
<1>3. OneSharedSocket'
  <2> SUFFICES ASSUME ~displaced' PROVE OneSharedSocket'
    BY DEF OneSharedSocket
  <2>1. /\ \A r \in Requests : request[r].st \in {"pending", "inflight"} => request[r].in = current
        /\ \A t \in DOMAIN session : session[t].sock \in {"open", "closing"} => t = current
    BY DEF RelayInv, OneSharedSocket
  <2>2. \A r \in Requests : request'[r].st \in {"pending", "inflight"} => request'[r].in = current'
    <3> SUFFICES ASSUME NEW r \in Requests, Waits(request', r) PROVE request'[r].in = current'
      BY DEF Waits
    <3>1. CASE Waits(request, r) /\ request'[r].in = request[r].in
      <4>1. request[r].in = current /\ request[r].in \in DOMAIN session
        BY <3>1, <2>1 DEF Waits, RelayInv
      <4>2. current # 0
        BY <4>1 DEF RelayInv
      <4> QED
        BY <4>1, <4>2, <3>1, <1>2
    <3>2. CASE request'[r].in = AcquiredId
      BY <3>2
    <3> QED
      BY <3>1, <3>2
  <2>3. \A t \in DOMAIN session' : session'[t].sock \in {"open", "closing"} => t = current'
    <3> SUFFICES ASSUME NEW t \in DOMAIN session \ {AcquiredId}, session[t].sock \in {"open", "closing"}
                 PROVE  FALSE
      BY <1>1
    <3>1. t = current /\ t # 0
      BY <2>1 DEF RelayInv
    <3> QED
      BY <3>1, <1>2
  <2> QED
    BY <1>1, <1>2, <2>2, <2>3 DEF OneSharedSocket
<1>4. \A t \in DOMAIN session' : RelaySessionFits(session'[t])
  BY <1>1 DEF RelayInv
<1>5. \A r \in Requests : Waits(request', r) => request'[r].in \in DOMAIN session'
  BY <1>1 DEF RelayInv
<1> QED
  BY <1>1, <1>2, <1>3, <1>4, <1>5 DEF RelayInv

\* What sending and queueing again make of the requests.
LEMMA FlushedWait ==
  ASSUME NEW rq \in [Requests -> RequestSet], NEW s
  PROVE  /\ Flushed(rq, s) \in [Requests -> RequestSet]
         /\ Requeued(rq, s) \in [Requests -> RequestSet]
         /\ \A r \in Requests : /\ Waits(Flushed(rq, s), r) <=> Waits(rq, r)
                                /\ Flushed(rq, s)[r].in = rq[r].in
                                /\ Waits(Requeued(rq, s), r) <=> Waits(rq, r)
                                /\ Requeued(rq, s)[r].in = rq[r].in
<1>1. ASSUME NEW r \in Requests
      PROVE  /\ [rq[r] EXCEPT !.st = "inflight", !.deadline = FALSE] \in RequestSet
             /\ [rq[r] EXCEPT !.st = "pending"] \in RequestSet
  BY DEF RequestSet
<1>2. Flushed(rq, s) \in [Requests -> RequestSet] /\ Requeued(rq, s) \in [Requests -> RequestSet]
  BY <1>1 DEF Flushed, Requeued
<1>3. ASSUME NEW r \in Requests
      PROVE  /\ Waits(Flushed(rq, s), r) <=> Waits(rq, r)
             /\ Flushed(rq, s)[r].in = rq[r].in
             /\ Waits(Requeued(rq, s), r) <=> Waits(rq, r)
             /\ Requeued(rq, s)[r].in = rq[r].in
  <2>1. rq[r] \in RequestSet
    OBVIOUS
  <2>2. /\ Flushed(rq, s)[r] = IF rq[r].st = "pending" /\ rq[r].in = s
                               THEN [rq[r] EXCEPT !.st = "inflight", !.deadline = FALSE] ELSE rq[r]
        /\ Requeued(rq, s)[r] = IF rq[r].st = "inflight" /\ rq[r].in = s
                                THEN [rq[r] EXCEPT !.st = "pending"] ELSE rq[r]
    BY DEF Flushed, Requeued, Queue
  <2>3. \A e \in RequestSet : /\ [e EXCEPT !.st = "inflight", !.deadline = FALSE].st = "inflight"
                              /\ [e EXCEPT !.st = "inflight", !.deadline = FALSE].in = e.in
                              /\ [e EXCEPT !.st = "pending"].st = "pending"
                              /\ [e EXCEPT !.st = "pending"].in = e.in
    BY DEF RequestSet
  <2> QED
    BY <2>1, <2>2, <2>3 DEF Waits
<1> QED
  BY <1>2, <1>3

LEMMA SubscribeKeeps ==
  ASSUME RelayInv, NEW u \in Subs, Subscribe(u)
  PROVE  RelayInv'
<1> DEFINE a == Acquired
<1> DEFINE h == IF a.sock = "open" THEN a.heard \cup {u} ELSE a.heard
<1> DEFINE se == [a EXCEPT !.subs = a.subs \cup {u}, !.idle = FALSE, !.heard = h]
<1>1. /\ subscribed' = subscribed \cup {u} /\ current' = AcquiredId /\ SetSession(AcquiredId, se)
      /\ UNCHANGED <<request, displaced>>
  BY DEF Subscribe
<1>2. RelaySessionFits(a) /\ RelayGoes(a) /\ (~displaced => subscribed = a.subs)
  BY AcquiredFits, SubscribedThere
<1> HIDE DEF a
<1>3. h \subseteq Subs /\ (a.sock = "open" => h = a.subs \cup {u})
  BY <1>2 DEF RelaySessionFits, SessionSet
<1> HIDE DEF h
<1>4. /\ se.subs = a.subs \cup {u} /\ se.sock = a.sock /\ se.heard = h
      /\ se.connecting = a.connecting /\ se.timer = a.timer /\ se.microtask = a.microtask
      /\ se \in SessionSet
  BY <1>2, <1>3 DEF RelaySessionFits, SessionSet
<1> HIDE DEF se
<1>5. RelaySessionFits(se) /\ RelayGoes(se)
  BY <1>2, <1>3, <1>4 DEF RelaySessionFits, RelayGoes
<1>6. ~displaced => subscribed' = se.subs
  BY <1>1, <1>2, <1>4
<1>7. request' \in [Requests -> RequestSet]
  BY <1>1 DEF RelayInv
<1> QED
  BY <1>1, <1>5, <1>6, <1>7, AcquireKeeps DEF Waits

LEMMA PublishKeeps ==
  ASSUME RelayInv, NEW r \in Requests, Publish(r)
  PROVE  RelayInv'
<1> DEFINE a == Acquired
<1> DEFINE se == [a EXCEPT !.idle = FALSE]
<1> DEFINE rq == [request EXCEPT ![r] = [st |-> "pending", in |-> AcquiredId, deadline |-> TRUE]]
<1>1. /\ current' = AcquiredId /\ UNCHANGED <<subscribed, displaced>>
      /\ IF se.sock = "open"
         THEN SetSession(AcquiredId, se) /\ request' = Flushed(rq, AcquiredId)
         ELSE SetSession(AcquiredId, ConnectSoon(se)) /\ request' = rq
  BY DEF Publish
<1>2. RelaySessionFits(a) /\ RelayGoes(a) /\ (~displaced => subscribed = a.subs)
  BY AcquiredFits, SubscribedThere
<1> HIDE DEF a
<1>3. RelaySessionFits(se) /\ se.subs = a.subs /\ (se.sock = "open" => RelayGoes(se))
  BY <1>2 DEF RelaySessionFits, SessionSet, RelayGoes
<1> HIDE DEF se
<1>4. AcquiredId \in Nat
  BY AcquiredFits
<1>5. rq \in [Requests -> RequestSet]
  BY <1>4 DEF RelayInv, RequestSet
<1>6. \A q \in Requests : Waits(rq, q) => \/ Waits(request, q) /\ rq[q].in = request[q].in
                                          \/ rq[q].in = AcquiredId
  BY DEF RelayInv, Waits
<1> HIDE DEF rq
<1>7. CASE se.sock = "open"
  <2>1. /\ request' \in [Requests -> RequestSet]
        /\ \A q \in Requests : (Waits(request', q) <=> Waits(rq, q)) /\ request'[q].in = rq[q].in
    BY <1>1, <1>5, <1>7, FlushedWait
  <2>2. \A q \in Requests : Waits(request', q) => \/ Waits(request, q) /\ request'[q].in = request[q].in
                                                  \/ request'[q].in = AcquiredId
    BY <2>1, <1>6
  <2> QED
    BY <1>1, <1>2, <1>3, <1>7, <2>1, <2>2, AcquireKeeps
<1>8. CASE se.sock # "open"
  <2>1. RelaySessionFits(ConnectSoon(se)) /\ RelayGoes(ConnectSoon(se)) /\ ConnectSoon(se).subs = a.subs
    BY <1>3, ConnectSoonFits
  <2>2. request' = rq /\ SetSession(AcquiredId, ConnectSoon(se))
    BY <1>1, <1>8
  <2> QED
    BY <1>1, <1>2, <1>5, <1>6, <2>1, <2>2, AcquireKeeps
<1> QED
  BY <1>7, <1>8

\* A session without work: nothing subscribed, and nothing waits there.
LEMMA NoWork ==
  ASSUME NEW se, NEW rq, NEW s, ~hasPendingWork(se, rq, s)
  PROVE  se.subs = {} /\ \A r \in Requests : Waits(rq, r) => rq[r].in # s
BY DEF hasPendingWork, Queue, Waits

\* Nothing is subscribed at a session in the map without work.
LEMMA NothingSubscribed ==
  ASSUME RelayInv, current # 0, ~displaced, session[current].subs = {}
  PROVE  subscribed = {}
BY DEF RelayInv, OneSharedSocket

LEMMA UnsubscribeKeeps ==
  ASSUME RelayInv, NEW u \in subscribed, Unsubscribe(u)
  PROVE  RelayInv'
<1>1. subscribed' = subscribed \ {u} /\ UNCHANGED request
  BY DEF Unsubscribe
<1>2. CASE current = 0
  <2>1. UNCHANGED <<session, current, displaced>>
    BY <1>2 DEF Unsubscribe, KeepCurrent
  <2>2. ~displaced => subscribed = {}
    BY <1>2 DEF RelayInv, OneSharedSocket
  <2>3. OneSharedSocket'
    BY <1>1, <1>2, <2>1, <2>2 DEF RelayInv, OneSharedSocket
  <2> QED
    BY <1>1, <2>1, <2>3 DEF RelayInv, Waits
<1>3. CASE current # 0
  <2> DEFINE old == session[current]
  <2> DEFINE se == [old EXCEPT !.subs = old.subs \ {u}, !.heard = old.heard \ {u}]
  <2>1. IF hasPendingWork(se, request, current)
        THEN SetSession(current, se) /\ KeepCurrent
        ELSE SetSession(current, [Drop(se) EXCEPT !.idle = FALSE]) /\ Forget(current)
    BY <1>3 DEF Unsubscribe
  <2>2. /\ AcquiredId = current /\ current \in DOMAIN session /\ RelaySessionFits(old) /\ RelayGoes(old)
        /\ ~displaced => subscribed = old.subs
    BY <1>3, AcquiredFits, SubscribedThere DEF RelayInv
  <2> HIDE DEF old
  <2>3. /\ RelaySessionFits(se) /\ RelayGoes(se) /\ se.subs = old.subs \ {u}
    BY <2>2 DEF RelaySessionFits, SessionSet, RelayGoes
  <2> HIDE DEF se
  <2>4. request' \in [Requests -> RequestSet]
    BY <1>1 DEF RelayInv
  <2>5. CASE hasPendingWork(se, request, current)
    <3>1. SetSession(AcquiredId, se) /\ current' = AcquiredId /\ UNCHANGED displaced
      BY <2>1, <2>2, <2>5 DEF KeepCurrent
    <3>2. ~displaced => subscribed' = se.subs
      BY <1>1, <2>2, <2>3
    <3> QED
      BY <1>1, <2>3, <2>4, <3>1, <3>2, AcquireKeeps DEF Waits
  <2>6. CASE ~hasPendingWork(se, request, current)
    <3> DEFINE d == Drop(se)
    <3>1. RelaySessionFits(d) /\ d.sock \notin {"open", "closing"}
      BY <2>3, DropFits
    <3>2. SetSession(current, [d EXCEPT !.idle = FALSE]) /\ Forget(current)
      BY <2>1, <2>6
    <3> HIDE DEF d
    <3> DEFINE f == [d EXCEPT !.idle = FALSE]
    <3>3. RelaySessionFits(f) /\ f.sock \notin {"open", "closing"}
      BY <3>1 DEF RelaySessionFits, SessionSet
    <3> HIDE DEF f
    <3>4. se.subs = {} /\ \A r \in Requests : Waits(request', r) => request'[r].in # current
      BY <2>6, NoWork, <1>1
    <3>5. ~displaced => subscribed' = {}
      BY <1>1, <2>2, <2>3, <3>4
    <3>6. \A r \in Requests : Waits(request', r) => /\ Waits(request, r) /\ request'[r].in = request[r].in
                                                    /\ request'[r].in # current
      BY <1>1, <3>4 DEF Waits
    <3>7. SetSession(current, f) /\ Forget(current) /\ current \in DOMAIN session
      BY <2>2, <3>2 DEF f
    <3> QED
      BY <2>4, <3>3, <3>5, <3>6, <3>7, ForgetKeeps
  <2> QED
    BY <2>5, <2>6
<1> QED
  BY <1>2, <1>3

\* A request that ends.
LEMMA RelayEndsFit ==
  ASSUME RelayInv, NEW r \in Requests, NEW e \in RequestSet, e.st \in {"ok", "failed"},
         e.in = request[r].in, Waits(request, r),
         NEW rq, rq = [request EXCEPT ![r] = e]
  PROVE  /\ rq \in [Requests -> RequestSet] /\ request[r].in \in DOMAIN session
         /\ \A q \in Requests : Waits(rq, q) => Waits(request, q) /\ rq[q].in = request[q].in
BY DEF RelayInv, Waits

LEMMA DequeueKeeps ==
  ASSUME RelayInv, NEW r \in Requests, request[r].st = "pending", Dequeue(r)
  PROVE  RelayInv'
<1> DEFINE s == request[r].in
<1> DEFINE e == [st |-> "failed", in |-> s, deadline |-> FALSE]
<1> DEFINE rq == [request EXCEPT ![r] = e]
<1>1. /\ request' = rq /\ UNCHANGED subscribed
      /\ IF hasPendingWork(session[s], rq, s)
         THEN UNCHANGED session /\ KeepCurrent
         ELSE SetSession(s, Drop(session[s])) /\ Forget(s)
  BY DEF Dequeue
<1>2. e \in RequestSet /\ e.st = "failed" /\ e.in = request[r].in
  BY DEF RelayInv, RequestSet
<1>3. Waits(request, r)
  BY DEF Waits
<1> HIDE DEF e
<1>4. /\ rq \in [Requests -> RequestSet] /\ s \in DOMAIN session
      /\ \A q \in Requests : Waits(rq, q) => Waits(request, q) /\ rq[q].in = request[q].in
  BY <1>2, <1>3, RelayEndsFit
<1> HIDE DEF rq
<1>5. CASE hasPendingWork(session[s], rq, s)
  <2>1. UNCHANGED <<session, current, displaced>>
    BY <1>1, <1>5 DEF KeepCurrent
  <2>2. OneSharedSocket'
    BY <1>1, <1>4, <2>1 DEF RelayInv, OneSharedSocket, Waits
  <2> QED
    BY <1>1, <1>4, <2>1, <2>2 DEF RelayInv
<1>6. CASE ~hasPendingWork(session[s], rq, s)
  <2>1. SetSession(s, Drop(session[s])) /\ Forget(s)
    BY <1>1, <1>6
  <2>2. RelaySessionFits(session[s]) /\ s # 0
    BY <1>4 DEF RelayInv
  <2>3. RelaySessionFits(Drop(session[s])) /\ Drop(session[s]).sock \notin {"open", "closing"}
    BY <2>2, DropFits
  <2>4. session[s].subs = {} /\ \A q \in Requests : Waits(rq, q) => rq[q].in # s
    BY <1>6, NoWork
  <2>5. s = current /\ ~displaced => subscribed' = {}
    BY <1>1, <2>2, <2>4, NothingSubscribed
  <2> HIDE DEF s
  <2> QED
    BY <1>1, <1>4, <2>1, <2>3, <2>4, <2>5, ForgetKeeps
<1> QED
  BY <1>5, <1>6

LEMMA SettleKeeps ==
  ASSUME RelayInv, NEW r \in Requests, request[r].st = "inflight", NEW st \in {"ok", "failed"}, Settle(r, st)
  PROVE  RelayInv'
<1> DEFINE s == request[r].in
<1> DEFINE e == [request[r] EXCEPT !.st = st]
<1> DEFINE rq == [request EXCEPT ![r] = e]
<1> DEFINE se == IF hasPendingWork(session[s], rq, s) THEN session[s] ELSE IdleSoon(session[s])
<1>1. rq = [request EXCEPT ![r].st = st]
  BY DEF RelayInv
<1>2. /\ request' = rq /\ SetSession(s, se)
      /\ UNCHANGED <<current, subscribed, displaced>>
  BY <1>1 DEF Settle
<1>3. e \in RequestSet /\ e.st = st /\ e.in = request[r].in
  BY DEF RelayInv, RequestSet
<1>4. Waits(request, r)
  BY DEF Waits
<1> HIDE DEF e
<1>5. /\ rq \in [Requests -> RequestSet] /\ s \in DOMAIN session
      /\ \A q \in Requests : Waits(rq, q) => Waits(request, q) /\ rq[q].in = request[q].in
  BY <1>3, <1>4, RelayEndsFit
<1>6. RelaySessionFits(session[s]) /\ (s = current => RelayGoes(session[s]))
  BY <1>5 DEF RelayInv
<1>7. /\ RelaySessionFits(IdleSoon(session[s]))
      /\ RelayGoes(session[s]) => RelayGoes(IdleSoon(session[s]))
      /\ IdleSoon(session[s]).subs = session[s].subs /\ IdleSoon(session[s]).sock = session[s].sock
  BY <1>6, IdleSoonFits
<1>8. RelaySessionFits(se) /\ (s = current => RelayGoes(se)) /\ se.subs = session[s].subs /\ se.sock = session[s].sock
  BY <1>6, <1>7
<1> HIDE DEF se, rq, s
<1> QED
  BY <1>2, <1>5, <1>8, SetKeeps

\* A session without work is forgotten, and nothing else happens.
LEMMA ForgetIdle ==
  ASSUME RelayInv, NEW s \in DOMAIN session, NEW se, SetSession(s, se), RelaySessionFits(se), Forget(s),
         NEW old, old.subs = session[s].subs, ~hasPendingWork(old, request, s),
         UNCHANGED <<request, subscribed>>, se.sock \notin {"open", "closing"}
  PROVE  RelayInv'
<1>1. old.subs = {} /\ \A r \in Requests : Waits(request, r) => request[r].in # s
  BY NoWork
<1>2. s = current /\ ~displaced => subscribed' = {}
  <2>1. s # 0
    BY DEF RelayInv
  <2> QED
    BY <1>1, <2>1, NothingSubscribed
<1>3. request' \in [Requests -> RequestSet]
  BY DEF RelayInv
<1>4. \A r \in Requests : Waits(request', r) => /\ Waits(request, r) /\ request'[r].in = request[r].in
                                                /\ request'[r].in # s
  BY <1>1 DEF Waits
<1> QED
  BY <1>2, <1>3, <1>4, ForgetKeeps

\* One session changes, and nothing else happens.
LEMMA SetAlone ==
  ASSUME RelayInv, NEW s \in DOMAIN session, NEW se, SetSession(s, se), RelaySessionFits(se),
         UNCHANGED <<current, displaced, request, subscribed>>, se.subs = session[s].subs,
         s = current => RelayGoes(se),
         se.sock \in {"open", "closing"} => s = current \/ session[s].sock \in {"open", "closing"}
  PROVE  RelayInv'
<1>1. request' \in [Requests -> RequestSet]
  BY DEF RelayInv
<1>2. \A r \in Requests : Waits(request', r) => Waits(request, r) /\ request'[r].in = request[r].in
  BY DEF Waits
<1> QED
  BY <1>1, <1>2, SetKeeps

LEMMA SessionStartKeeps ==
  ASSUME RelayInv, NEW s \in DOMAIN session, ConnectStarts(s)
  PROVE  RelayInv'
<1> DEFINE old == session[s]
<1> DEFINE se == [old EXCEPT !.microtask = FALSE, !.timer = FALSE]
<1> DEFINE on == [se EXCEPT !.connecting = TRUE]
<1>1. /\ UNCHANGED <<request, subscribed>>
      /\ IF current # s \/ se.connecting \/ se.sock # "none"
         THEN SetSession(s, se) /\ KeepCurrent
         ELSE IF hasPendingWork(se, request, s)
              THEN SetSession(s, on) /\ KeepCurrent
              ELSE SetSession(s, se) /\ Forget(s)
  BY DEF ConnectStarts
<1>2. RelaySessionFits(old)
  BY DEF RelayInv
<1>3. old.subs = session[s].subs /\ old.sock = session[s].sock
  OBVIOUS
<1> HIDE DEF old
<1>4. RelaySessionFits(se) /\ se.subs = old.subs /\ se.sock = old.sock
  BY <1>2 DEF RelaySessionFits, SessionSet
<1> HIDE DEF se
<1>5. se.sock = "none" => RelaySessionFits(on) /\ on.subs = se.subs /\ on.sock = se.sock /\ RelayGoes(on)
  BY <1>4 DEF RelaySessionFits, SessionSet, RelayGoes
<1> HIDE DEF on
<1>6. CASE current # s \/ se.connecting \/ se.sock # "none"
  <2>1. s = current => RelayGoes(se)
    BY <1>6 DEF RelayGoes
  <2>2. SetSession(s, se) /\ UNCHANGED <<current, displaced>>
    BY <1>1, <1>6 DEF KeepCurrent
  <2> QED
    BY <1>1, <1>3, <1>4, <2>1, <2>2, SetAlone
<1>7. CASE current = s /\ se.sock = "none" /\ ~se.connecting /\ hasPendingWork(se, request, s)
  <2>1. SetSession(s, on) /\ UNCHANGED <<current, displaced>>
    BY <1>1, <1>7 DEF KeepCurrent
  <2> QED
    BY <1>1, <1>3, <1>4, <1>5, <1>7, <2>1, SetAlone
<1>8. CASE current = s /\ se.sock = "none" /\ ~se.connecting /\ ~hasPendingWork(se, request, s)
  <2>1. SetSession(s, se) /\ Forget(s)
    BY <1>1, <1>8
  <2>2. se.sock \notin {"open", "closing"}
    BY <1>8
  <2> QED
    BY <1>1, <1>3, <1>4, <1>8, <2>1, <2>2, ForgetIdle
<1> QED
  BY <1>6, <1>7, <1>8

LEMMA ConnectedKeeps ==
  ASSUME RelayInv, NEW s \in DOMAIN session, Connected(s)
  PROVE  RelayInv'
<1> DEFINE old == session[s]
<1> DEFINE se == [old EXCEPT !.connecting = FALSE]
<1> DEFINE rq == Flushed(request, s)
<1> DEFINE risen == IF hasPendingWork(se, rq, s) THEN SocketAttached(se) ELSE IdleSoon(SocketAttached(se))
<1>1. /\ se # old /\ UNCHANGED subscribed
      /\ IF current # s \/ ~hasPendingWork(se, request, s)
         THEN SetSession(s, se) /\ Forget(s) /\ UNCHANGED request
         ELSE request' = rq /\ SetSession(s, risen) /\ KeepCurrent
  BY DEF Connected
<1>2. RelaySessionFits(old) /\ old = session[s]
  BY DEF RelayInv
<1> HIDE DEF old
<1>3. old.connecting
  BY <1>1, <1>2 DEF RelaySessionFits, SessionSet
<1>4. RelaySessionFits(se) /\ se.subs = old.subs /\ se.sock = "none" /\ ~se.connecting
  BY <1>2, <1>3 DEF RelaySessionFits, SessionSet
<1> HIDE DEF se
<1>5. RelaySessionFits(SocketAttached(se)) /\ RelayGoes(SocketAttached(se)) /\ SocketAttached(se).subs = se.subs
  BY <1>4, AttachedFits
<1>6. RelaySessionFits(risen) /\ RelayGoes(risen) /\ risen.subs = se.subs
  BY <1>5, IdleSoonFits
<1>7. /\ rq \in [Requests -> RequestSet]
      /\ \A r \in Requests : Waits(rq, r) => Waits(request, r) /\ rq[r].in = request[r].in
  BY FlushedWait DEF RelayInv
<1> HIDE DEF risen, rq
<1>8. CASE ~hasPendingWork(se, request, s)
  <2>1. SetSession(s, se) /\ Forget(s) /\ UNCHANGED <<request, subscribed>> /\ se.sock \notin {"open", "closing"}
    BY <1>1, <1>4, <1>8
  <2> QED
    BY <1>2, <1>4, <1>8, <2>1, ForgetIdle
<1>9. CASE current # s /\ hasPendingWork(se, request, s)
  <2>1. SetSession(s, se) /\ Forget(s) /\ UNCHANGED <<request, subscribed>> /\ se.sock \notin {"open", "closing"}
    BY <1>1, <1>4, <1>9
  <2>2. current' = 0 /\ displaced' = (displaced \/ current \notin {0, s})
    BY <2>1 DEF Forget
  <2>3. request' \in [Requests -> RequestSet]
    BY <2>1 DEF RelayInv
  <2>4. /\ DOMAIN session' = DOMAIN session /\ session'[s] = se
        /\ \A t \in DOMAIN session \ {s} : session'[t] = session[t]
    <3>1. DOMAIN session \cup {s} = DOMAIN session
      OBVIOUS
    <3> QED
      BY <2>1, <3>1, SetEffect
  <2>5. ~displaced' => ~displaced /\ current = 0
    BY <1>9, <2>2
  <2>6. OneSharedSocket'
    <3> SUFFICES ASSUME ~displaced' PROVE OneSharedSocket'
      BY DEF OneSharedSocket
    <3>1. /\ \A r \in Requests : request[r].st \in {"pending", "inflight"} => request[r].in = 0
          /\ subscribed = {}
          /\ \A t \in DOMAIN session : session[t].sock \in {"open", "closing"} => t = 0
      BY <2>5 DEF RelayInv, OneSharedSocket
    <3>2. \A t \in DOMAIN session' : session'[t].sock \in {"open", "closing"} => t = 0
      BY <2>1, <2>4, <3>1
    <3> QED
      BY <2>1, <2>2, <3>1, <3>2 DEF OneSharedSocket
  <2>7. \A t \in DOMAIN session' : RelaySessionFits(session'[t])
    BY <1>4, <2>4 DEF RelayInv
  <2>8. \A r \in Requests : Waits(request', r) => request'[r].in \in DOMAIN session'
    BY <2>1, <2>4 DEF RelayInv, Waits
  <2>9. displaced' \in BOOLEAN
    BY <2>2 DEF RelayInv
  <2> QED
    BY <2>2, <2>3, <2>4, <2>6, <2>7, <2>8, <2>9 DEF RelayInv
<1>10. CASE current = s /\ hasPendingWork(se, request, s)
  <2>1. request' = rq /\ SetSession(s, risen) /\ UNCHANGED <<current, displaced, subscribed>>
    BY <1>1, <1>10 DEF KeepCurrent
  <2>2. risen.subs = session[s].subs
    BY <1>2, <1>4, <1>6
  <2> QED
    BY <1>6, <1>7, <1>10, <2>1, <2>2, SetKeeps
<1> QED
  BY <1>8, <1>9, <1>10

LEMMA ConnectFailsKeeps ==
  ASSUME RelayInv, NEW s \in DOMAIN session, ConnectFails(s)
  PROVE  RelayInv'
<1> DEFINE old == session[s]
<1> DEFINE se == [old EXCEPT !.connecting = FALSE]
<1>1. /\ se # old /\ UNCHANGED <<request, subscribed>>
      /\ IF current # s
         THEN SetSession(s, se) /\ KeepCurrent
         ELSE IF hasPendingWork(se, request, s)
              THEN SetSession(s, ConnectLater(se)) /\ KeepCurrent
              ELSE SetSession(s, se) /\ Forget(s)
  BY DEF ConnectFails
<1>2. RelaySessionFits(old) /\ old = session[s]
  BY DEF RelayInv
<1> HIDE DEF old
<1>3. old.connecting
  BY <1>1, <1>2 DEF RelaySessionFits, SessionSet
<1>4. RelaySessionFits(se) /\ se.subs = old.subs /\ se.sock = "none"
  BY <1>2, <1>3 DEF RelaySessionFits, SessionSet
<1> HIDE DEF se
<1>5. /\ RelaySessionFits(ConnectLater(se)) /\ RelayGoes(ConnectLater(se))
      /\ ConnectLater(se).subs = old.subs /\ ConnectLater(se).sock = "none"
  BY <1>4, ConnectLaterFits
<1>6. CASE current # s
  <2>1. SetSession(s, se) /\ UNCHANGED <<current, displaced>>
    BY <1>1, <1>6 DEF KeepCurrent
  <2> QED
    BY <1>1, <1>2, <1>4, <1>6, <2>1, SetAlone
<1>7. CASE current = s /\ hasPendingWork(se, request, s)
  <2>1. SetSession(s, ConnectLater(se)) /\ UNCHANGED <<current, displaced>>
    BY <1>1, <1>7 DEF KeepCurrent
  <2> QED
    BY <1>1, <1>2, <1>5, <1>7, <2>1, SetAlone
<1>8. CASE current = s /\ ~hasPendingWork(se, request, s)
  <2>1. SetSession(s, se) /\ Forget(s) /\ se.sock \notin {"open", "closing"}
    BY <1>1, <1>4, <1>8
  <2> QED
    BY <1>1, <1>2, <1>4, <1>8, <2>1, ForgetIdle
<1> QED
  BY <1>6, <1>7, <1>8

LEMMA SocketClosesKeeps ==
  ASSUME RelayInv, NEW s \in DOMAIN session, SocketCloses(s)
  PROVE  RelayInv'
<1> DEFINE old == session[s]
<1> DEFINE se == [old EXCEPT !.sock = "closing"]
<1>1. SetSession(s, se) /\ UNCHANGED <<current, request, subscribed, displaced>> /\ old.sock = "open"
  BY DEF SocketCloses
<1>2. RelaySessionFits(old) /\ old = session[s]
  BY DEF RelayInv
<1> HIDE DEF old
<1>3. RelaySessionFits(se) /\ RelayGoes(se) /\ se.subs = old.subs
  BY <1>1, <1>2 DEF RelaySessionFits, SessionSet, RelayGoes
<1>4. session[s].sock \in {"open", "closing"}
  BY <1>1, <1>2
<1> HIDE DEF se
<1> QED
  BY <1>1, <1>2, <1>3, <1>4, SetAlone

LEMMA SocketClosedKeeps ==
  ASSUME RelayInv, NEW s \in DOMAIN session, SocketClosed(s)
  PROVE  RelayInv'
<1> DEFINE old == session[s]
<1> DEFINE gone == [old EXCEPT !.sock = "dropped"]
<1> DEFINE se == [old EXCEPT !.sock = "none", !.heard = {}]
<1> DEFINE rq == Requeued(request, s)
<1>1. /\ old.sock = "closing" /\ UNCHANGED subscribed
      /\ IF current # s
         THEN SetSession(s, gone) /\ KeepCurrent /\ UNCHANGED request
         ELSE /\ request' = rq
              /\ IF hasPendingWork(se, rq, s)
                 THEN SetSession(s, ConnectLater(se)) /\ KeepCurrent
                 ELSE SetSession(s, se) /\ Forget(s)
  BY DEF SocketClosed
<1>2. RelaySessionFits(old) /\ old = session[s]
  BY DEF RelayInv
<1> HIDE DEF old
<1>3. RelaySessionFits(gone) /\ gone.subs = old.subs /\ gone.sock = "dropped"
  BY <1>1, <1>2 DEF RelaySessionFits, SessionSet
<1> HIDE DEF gone
<1>4. RelaySessionFits(se) /\ se.subs = old.subs /\ se.sock = "none"
  BY <1>1, <1>2 DEF RelaySessionFits, SessionSet
<1> HIDE DEF se
<1>5. /\ RelaySessionFits(ConnectLater(se)) /\ RelayGoes(ConnectLater(se))
      /\ ConnectLater(se).subs = old.subs /\ ConnectLater(se).sock = "none"
  BY <1>4, ConnectLaterFits
<1>6. /\ rq \in [Requests -> RequestSet]
      /\ \A r \in Requests : Waits(rq, r) => Waits(request, r) /\ rq[r].in = request[r].in
  BY FlushedWait DEF RelayInv
<1> HIDE DEF rq
<1>7. CASE current # s
  <2>1. SetSession(s, gone) /\ UNCHANGED <<current, displaced, request>>
    BY <1>1, <1>7 DEF KeepCurrent
  <2> QED
    BY <1>1, <1>2, <1>3, <1>7, <2>1, SetAlone
<1>8. CASE current = s /\ hasPendingWork(se, rq, s)
  <2>1. request' = rq /\ SetSession(s, ConnectLater(se)) /\ UNCHANGED <<current, displaced, subscribed>>
    BY <1>1, <1>8 DEF KeepCurrent
  <2> QED
    BY <1>2, <1>5, <1>6, <2>1, SetKeeps
<1>9. CASE current = s /\ ~hasPendingWork(se, rq, s)
  <2>1. request' = rq /\ SetSession(s, se) /\ Forget(s) /\ UNCHANGED subscribed
    BY <1>1, <1>9
  <2>2. se.subs = {} /\ \A r \in Requests : Waits(rq, r) => rq[r].in # s
    BY <1>9, NoWork
  <2>3. ~displaced => subscribed' = {}
    <3>1. s # 0
      BY DEF RelayInv
    <3> QED
      BY <1>2, <1>4, <1>9, <2>1, <2>2, <3>1, NothingSubscribed
  <2>4. se.sock \notin {"open", "closing"}
    BY <1>4
  <2> QED
    BY <1>4, <1>6, <1>9, <2>1, <2>2, <2>3, <2>4, ForgetKeeps
<1> QED
  BY <1>7, <1>8, <1>9

LEMMA IdleDropKeeps ==
  ASSUME RelayInv, NEW s \in DOMAIN session, IdleDrop(s)
  PROVE  RelayInv'
<1> DEFINE old == session[s]
<1> DEFINE se == [old EXCEPT !.idle = FALSE]
<1>1. /\ UNCHANGED <<request, subscribed>>
      /\ IF current # s \/ hasPendingWork(se, request, s)
         THEN SetSession(s, se) /\ KeepCurrent
         ELSE SetSession(s, Drop(se)) /\ Forget(s)
  BY DEF IdleDrop
<1>2. RelaySessionFits(old) /\ old = session[s] /\ (s = current => RelayGoes(old))
  BY DEF RelayInv
<1> HIDE DEF old
<1>3. RelaySessionFits(se) /\ se.subs = old.subs /\ se.sock = old.sock /\ (RelayGoes(old) => RelayGoes(se))
  BY <1>2 DEF RelaySessionFits, SessionSet, RelayGoes
<1> HIDE DEF se
<1>4. RelaySessionFits(Drop(se)) /\ Drop(se).sock \notin {"open", "closing"}
  BY <1>3, DropFits
<1>5. CASE current # s \/ hasPendingWork(se, request, s)
  <2>1. SetSession(s, se) /\ UNCHANGED <<current, displaced>>
    BY <1>1, <1>5 DEF KeepCurrent
  <2> QED
    BY <1>1, <1>2, <1>3, <2>1, SetAlone
<1>6. CASE current = s /\ ~hasPendingWork(se, request, s)
  <2>1. SetSession(s, Drop(se)) /\ Forget(s)
    BY <1>1, <1>6
  <2> QED
    BY <1>1, <1>2, <1>3, <1>4, <1>6, <2>1, ForgetIdle
<1> QED
  BY <1>5, <1>6

LEMMA DiesKeeps ==
  ASSUME RelayInv, Dies
  PROVE  RelayInv'
<1>1. /\ session' = [s \in DOMAIN session |-> [session[s] EXCEPT !.sock = IF @ = "open" THEN "closing" ELSE @]]
      /\ UNCHANGED <<current, request, subscribed, displaced>>
  BY DEF Dies
<1>2. DOMAIN session' = DOMAIN session
  BY <1>1
<1>3. \A s \in DOMAIN session : /\ RelaySessionFits(session'[s]) /\ session'[s].subs = session[s].subs
                                /\ session'[s].sock \in {"open", "closing"} => session[s].sock \in {"open", "closing"}
                                /\ RelayGoes(session[s]) => RelayGoes(session'[s])
  <2> SUFFICES ASSUME NEW s \in DOMAIN session
               PROVE  /\ RelaySessionFits(session'[s]) /\ session'[s].subs = session[s].subs
                      /\ session'[s].sock \in {"open", "closing"} => session[s].sock \in {"open", "closing"}
                      /\ RelayGoes(session[s]) => RelayGoes(session'[s])
    OBVIOUS
  <2> DEFINE old == session[s]
  <2> DEFINE k == IF old.sock = "open" THEN "closing" ELSE old.sock
  <2> DEFINE se == [old EXCEPT !.sock = k]
  <2>1. session'[s] = se
    BY <1>1
  <2>2. RelaySessionFits(old)
    BY DEF RelayInv
  <2> HIDE DEF old
  <2>3. k \in {"none", "closing", "dropped"} /\ (k = "none" <=> old.sock = "none") /\ (k = "closing" => old.sock \in {"open", "closing"})
    BY <2>2 DEF RelaySessionFits, SessionSet
  <2> HIDE DEF k
  <2>4. /\ RelaySessionFits(se) /\ se.subs = old.subs /\ se.sock = k
        /\ se.connecting = old.connecting /\ se.timer = old.timer /\ se.microtask = old.microtask
    BY <2>2, <2>3 DEF RelaySessionFits, SessionSet
  <2> HIDE DEF se
  <2>5. RelayGoes(old) => RelayGoes(se)
    BY <2>3, <2>4 DEF RelayGoes
  <2> QED
    BY <2>1, <2>3, <2>4, <2>5 DEF old
<1>4. OneSharedSocket'
  <2> SUFFICES ASSUME ~displaced PROVE OneSharedSocket'
    BY <1>1 DEF OneSharedSocket
  <2>1. /\ \A r \in Requests : request[r].st \in {"pending", "inflight"} => request[r].in = current
        /\ subscribed = IF current = 0 THEN {} ELSE session[current].subs
        /\ \A s \in DOMAIN session : session[s].sock \in {"open", "closing"} => s = current
    BY DEF RelayInv, OneSharedSocket
  <2>2. current # 0 => session'[current].subs = session[current].subs
    BY <1>3 DEF RelayInv
  <2>3. \A s \in DOMAIN session' : session'[s].sock \in {"open", "closing"} => s = current
    BY <1>2, <1>3, <2>1
  <2> QED
    BY <1>1, <2>1, <2>2, <2>3 DEF OneSharedSocket
<1>5. current # 0 => RelayGoes(session'[current])
  BY <1>3 DEF RelayInv
<1> QED
  BY <1>1, <1>2, <1>3, <1>4, <1>5 DEF RelayInv, Waits

\* The inductive invariant of the relay connection.
LEMMA RelayInvariant == SpecRelay => []RelayInv
<1>1. InitRelay => RelayInv
  <2> SUFFICES ASSUME InitRelay PROVE RelayInv
    OBVIOUS
  <2>1. DOMAIN session = {} /\ current = 0 /\ subscribed = {} /\ displaced = FALSE
    BY DEF InitRelay
  <2>2. DOMAIN session = 1..0
    BY <2>1
  <2>3. request \in [Requests -> RequestSet] /\ \A r \in Requests : request[r].st = "new"
    BY DEF InitRelay, NewRequest, RequestSet
  <2>4. OneSharedSocket
    BY <2>1, <2>3 DEF OneSharedSocket
  <2> QED
    BY <2>1, <2>2, <2>3, <2>4 DEF RelayInv, Waits
<1>2. RelayInv /\ [NextRelay]_relayVars => RelayInv'
  <2> SUFFICES ASSUME RelayInv, [NextRelay]_relayVars PROVE RelayInv'
    OBVIOUS
  <2>1. ASSUME NEW u \in Subs, Subscribe(u) PROVE RelayInv'
    BY <2>1, SubscribeKeeps
  <2>2. ASSUME NEW u \in Subs, Unsubscribe(u) PROVE RelayInv'
    <3>1. u \in subscribed
      BY <2>2 DEF Unsubscribe
    <3> QED
      BY <2>2, <3>1, UnsubscribeKeeps
  <2>3. ASSUME NEW r \in Requests, Publish(r) PROVE RelayInv'
    BY <2>3, PublishKeeps
  <2>4. ASSUME NEW r \in Requests, Abort(r) PROVE RelayInv'
    <3>1. \/ request[r].st = "pending" /\ Dequeue(r)
          \/ request[r].st = "inflight" /\ Settle(r, "failed")
      BY <2>4 DEF Abort
    <3> QED
      BY <3>1, DequeueKeeps, SettleKeeps
  <2>5. ASSUME NEW r \in Requests, Answered(r) PROVE RelayInv'
    <3>1. request[r].st = "inflight" /\ (Settle(r, "ok") \/ Settle(r, "failed"))
      BY <2>5 DEF Answered
    <3> QED
      BY <3>1, SettleKeeps
  <2>6. ASSUME NEW r \in Requests, Deadline(r) PROVE RelayInv'
    <3>1. request[r].st = "pending" /\ Dequeue(r)
      BY <2>6 DEF Deadline
    <3> QED
      BY <3>1, DequeueKeeps
  <2>7. CASE UNCHANGED relayVars
    <3>1. UNCHANGED <<session, current, request, subscribed, displaced>>
      BY <2>7 DEF relayVars
    <3> QED
      BY <3>1 DEF RelayInv, OneSharedSocket, Waits
  <2> QED
    BY <2>1, <2>2, <2>3, <2>4, <2>5, <2>6, <2>7, SessionStartKeeps, ConnectedKeeps, ConnectFailsKeeps,
       SocketClosesKeeps, SocketClosedKeeps, IdleDropKeeps, DiesKeeps DEF NextRelay
<1> QED
  BY <1>1, <1>2, PTL DEF SpecRelay

\* For any subscriptions, publishes, sessions and failures: as long as no session was displaced,
\* one of them does all the work on one socket; whatever has a socket has asked for all its
\* subscriptions; and the session in the map goes on (session.mjs:267-299, 345-361, 442-454).
THEOREM RelaySound == SpecRelay => []SocketServes
<1>1. RelayInv => SocketServes
  <2> SUFFICES ASSUME RelayInv PROVE SocketServes
    OBVIOUS
  <2>1. SubsReplayed
    BY DEF RelayInv, SubsReplayed, RelaySessionFits
  <2>2. NeverStalls
    BY DEF RelayInv, NeverStalls, RelayGoes
  <2> QED
    BY <2>1, <2>2 DEF RelayInv, SocketServes
<1> QED
  BY <1>1, RelayInvariant, PTL

\* Types of what the invariant leaves out.
RelayRest ==
  /\ DOMAIN session \subseteq Sessions /\ subscribed \subseteq Subs
  /\ flaps \in 0..MaxFlaps /\ dead \in BOOLEAN
  /\ \A r \in Requests : request[r].in \in Sessions \cup {0}

\* Sending what waits and queueing it again moves no request to another session.
LEMMA RequestsStay ==
  ASSUME NEW rq \in [Requests -> RequestSet], NEW s
  PROVE  \A r \in Requests : Flushed(rq, s)[r].in = rq[r].in /\ Requeued(rq, s)[r].in = rq[r].in
<1> TAKE r \in Requests
<1>1. rq[r] \in RequestSet
  OBVIOUS
<1>2. Flushed(rq, s)[r].in = rq[r].in
  BY <1>1 DEF Flushed, RequestSet
<1>3. Requeued(rq, s)[r].in = rq[r].in
  BY <1>1 DEF Requeued, RequestSet
<1> QED
  BY <1>2, <1>3

\* A step that at most sets one session.
LEMMA RestStays ==
  ASSUME RelayRest, UNCHANGED session \/ \E s \in Sessions : \E se : SetSession(s, se),
         subscribed' \subseteq Subs, dead' = dead, flaps' = flaps \/ Fails,
         \A r \in Requests : request'[r].in = request[r].in \/ request'[r].in \in Sessions
  PROVE  RelayRest'
<1>1. DOMAIN session' \subseteq Sessions
  <2>1. CASE UNCHANGED session
    BY <2>1 DEF RelayRest
  <2>2. CASE \E s \in Sessions : \E se : SetSession(s, se)
    <3>1. PICK s \in Sessions : \E se : SetSession(s, se)
      BY <2>2
    <3>2. DOMAIN session' = DOMAIN session \cup {s}
      BY <3>1, SetEffect
    <3> QED
      BY <3>2 DEF RelayRest
  <2> QED
    BY <2>1, <2>2
<1>2. flaps' \in 0..MaxFlaps
  <2>1. CASE flaps' = flaps
    BY <2>1 DEF RelayRest
  <2>2. CASE Fails
    <3>1. flaps \in 0..MaxFlaps /\ MaxFlaps \in Nat
      BY RelayBoundsAssumption DEF RelayRest
    <3>2. (flaps' = flaps) \/ (flaps < MaxFlaps /\ flaps' = flaps + 1)
      BY <2>2 DEF Fails
    <3> QED
      BY <3>1, <3>2
  <2> QED
    BY <2>1, <2>2
<1>3. \A r \in Requests : request'[r].in \in Sessions \cup {0}
  BY DEF RelayRest
<1> QED
  BY <1>1, <1>2, <1>3 DEF RelayRest

LEMMA RestKept == RelayInv /\ RelayRest /\ [NextRelay]_relayVars => RelayRest'
<1> SUFFICES ASSUME RelayInv, RelayRest, [NextRelay]_relayVars PROVE RelayRest'
  OBVIOUS
<1>1. /\ DOMAIN session \subseteq Sessions /\ subscribed \subseteq Subs /\ current \in DOMAIN session \cup {0}
      /\ request \in [Requests -> RequestSet]
      /\ \A r \in Requests : request[r].st \in {"pending", "inflight"} => request[r].in \in Sessions
  BY DEF RelayInv, RelayRest, Waits
<1>2. \A s : \A r \in Requests : Flushed(request, s)[r].in = request[r].in /\ Requeued(request, s)[r].in = request[r].in
  BY <1>1, RequestsStay
<1>3. CASE UNCHANGED relayVars
  BY <1>3 DEF relayVars, RelayRest
<1>4. ASSUME NEW u \in Subs, Subscribe(u) PROVE RelayRest'
  <2>1. AcquiredId \in Sessions /\ subscribed' = subscribed \cup {u} /\ UNCHANGED <<request, flaps, dead>>
        /\ \E se : SetSession(AcquiredId, se)
    BY <1>4 DEF Subscribe
  <2> QED
    BY <1>1, <2>1, RestStays
<1>5. ASSUME NEW u \in Subs, Unsubscribe(u) PROVE RelayRest'
  <2>1. subscribed' = subscribed \ {u} /\ UNCHANGED <<request, flaps, dead>>
        /\ (UNCHANGED session \/ (current # 0 /\ \E se : SetSession(current, se)))
    BY <1>5 DEF Unsubscribe
  <2>2. UNCHANGED session \/ \E s \in Sessions : \E se : SetSession(s, se)
    BY <1>1, <2>1
  <2> QED
    BY <1>1, <2>1, <2>2, RestStays
<1>6. ASSUME NEW r \in Requests, Publish(r) PROVE RelayRest'
  <2> DEFINE rq == [request EXCEPT ![r] = [st |-> "pending", in |-> AcquiredId, deadline |-> TRUE]]
  <2>1. AcquiredId \in Sessions /\ UNCHANGED <<subscribed, flaps, dead>>
        /\ (\E se : SetSession(AcquiredId, se)) /\ (request' = rq \/ request' = Flushed(rq, AcquiredId))
    BY <1>6 DEF Publish
  <2>2. AcquiredId \in Nat
    BY <2>1 DEF Sessions
  <2>3. rq \in [Requests -> RequestSet] /\ \A q \in Requests : rq[q].in = request[q].in \/ rq[q].in = AcquiredId
    BY <1>1, <2>2 DEF RequestSet
  <2> HIDE DEF rq
  <2>4. \A q \in Requests : Flushed(rq, AcquiredId)[q].in = rq[q].in
    BY <2>3, RequestsStay
  <2>5. \A q \in Requests : request'[q].in = request[q].in \/ request'[q].in \in Sessions
    BY <2>1, <2>3, <2>4
  <2> QED
    BY <1>1, <2>1, <2>5, RestStays
<1>7. ASSUME NEW r \in Requests, Dequeue(r), request[r].st = "pending" PROVE RelayRest'
  <2>1. PICK s : s = request[r].in
    OBVIOUS
  <2>2. s \in Sessions
    BY <1>1, <1>7, <2>1
  <2>3. /\ request' = [request EXCEPT ![r] = [st |-> "failed", in |-> s, deadline |-> FALSE]]
        /\ UNCHANGED <<subscribed, flaps, dead>> /\ (UNCHANGED session \/ \E se : SetSession(s, se))
    BY <1>7, <2>1 DEF Dequeue
  <2>4. \A q \in Requests : request'[q].in = request[q].in \/ request'[q].in \in Sessions
    BY <1>1, <2>2, <2>3
  <2> QED
    BY <1>1, <2>2, <2>3, <2>4, RestStays
<1>8. ASSUME NEW r \in Requests, NEW st, Settle(r, st), request[r].st = "inflight" PROVE RelayRest'
  <2>1. PICK s : s = request[r].in
    OBVIOUS
  <2>2. s \in Sessions
    BY <1>1, <1>8, <2>1
  <2>3. /\ request' = [request EXCEPT ![r].st = st]
        /\ UNCHANGED <<subscribed, flaps, dead>> /\ \E se : SetSession(s, se)
    BY <1>8, <2>1 DEF Settle
  <2>4. \A q \in Requests : request'[q].in = request[q].in
    <3> TAKE q \in Requests
    <3>1. request[q] \in RequestSet
      BY <1>1
    <3> QED
      BY <1>1, <2>3, <3>1 DEF RequestSet
  <2> QED
    BY <1>1, <2>2, <2>3, <2>4, RestStays
<1>9. ASSUME NEW s \in DOMAIN session,
             ConnectStarts(s) \/ ConnectFails(s) \/ SocketCloses(s) \/ IdleDrop(s)
      PROVE  RelayRest'
  <2>1. /\ UNCHANGED <<request, subscribed, dead>> /\ (flaps' = flaps \/ Fails)
        /\ \E se : SetSession(s, se)
    <3>1. CASE ConnectStarts(s)
      BY <3>1 DEF ConnectStarts
    <3>2. CASE ConnectFails(s)
      BY <3>2 DEF ConnectFails
    <3>3. CASE SocketCloses(s)
      BY <3>3 DEF SocketCloses
    <3>4. CASE IdleDrop(s)
      BY <3>4 DEF IdleDrop
    <3> QED
      BY <1>9, <3>1, <3>2, <3>3, <3>4
  <2>2. s \in Sessions
    BY <1>1
  <2> QED
    BY <1>1, <2>1, <2>2, RestStays
<1>10. ASSUME NEW s \in DOMAIN session, Connected(s) \/ SocketClosed(s) PROVE RelayRest'
  <2>1. /\ UNCHANGED <<subscribed, dead, flaps>> /\ (\E se : SetSession(s, se))
        /\ \/ request' = request
           \/ request' = Flushed(request, s)
           \/ request' = Requeued(request, s)
    <3>1. CASE Connected(s)
      BY <3>1 DEF Connected
    <3>2. CASE SocketClosed(s)
      BY <3>2 DEF SocketClosed
    <3> QED
      BY <1>10, <3>1, <3>2
  <2>2. s \in Sessions
    BY <1>1
  <2>3. \A q \in Requests : request'[q].in = request[q].in
    BY <1>2, <2>1
  <2> QED
    BY <1>1, <2>1, <2>2, <2>3, RestStays
<1>11. CASE Dies
  <2>1. DOMAIN session' = DOMAIN session /\ UNCHANGED <<subscribed, flaps, request>> /\ dead' = TRUE
    BY <1>11 DEF Dies
  <2> QED
    BY <2>1 DEF RelayRest
<1>12. CASE NextRelay
  <2>1. ASSUME NEW r \in Requests, Abort(r) \/ Answered(r) \/ Deadline(r) PROVE RelayRest'
    BY <1>7, <1>8, <2>1 DEF Abort, Answered, Deadline
  <2> QED
    BY <1>4, <1>5, <1>6, <1>9, <1>10, <1>11, <1>12, <2>1 DEF NextRelay
<1> QED
  BY <1>3, <1>12

\* Subscriptions, publishes and sessions keep their shape, and a publish its session.
THEOREM RelayTyped == SpecRelay => []RelayTypeOK
<1>1. InitRelay => RelayRest
  <2> SUFFICES ASSUME InitRelay PROVE RelayRest
    OBVIOUS
  <2>1. DOMAIN session = {} /\ subscribed = {} /\ flaps = 0 /\ dead = FALSE /\ MaxFlaps \in Nat
    BY RelayBoundsAssumption DEF InitRelay
  <2>2. \A r \in Requests : request[r].in = 0
    BY DEF InitRelay, NewRequest
  <2>3. dead \in BOOLEAN
    BY <2>1, Zenon
  <2>6. flaps \in 0..MaxFlaps
    <3>1. flaps = 0 /\ MaxFlaps \in Nat
      BY <2>1
    <3> QED
      BY <3>1
  <2>4. DOMAIN session \subseteq Sessions /\ subscribed \subseteq Subs
    BY <2>1
  <2>5. \A r \in Requests : request[r].in \in Sessions \cup {0}
    BY <2>2
  <2> QED
    BY <2>3, <2>4, <2>5, <2>6, Zenon DEF RelayRest
<1>2. RelayInv /\ RelayRest => RelayTypeOK
  <2> SUFFICES ASSUME RelayInv, RelayRest PROVE RelayTypeOK
    OBVIOUS
  <2>1. \A s \in DOMAIN session : session[s] \in SessionSet
    BY DEF RelayInv, RelaySessionFits
  <2>2. request \in [Requests -> [st : {"new", "pending", "inflight", "ok", "failed"},
                                  in : Sessions \cup {0}, deadline : BOOLEAN]]
    <3>1. ASSUME NEW r \in Requests
          PROVE  request[r] \in [st : {"new", "pending", "inflight", "ok", "failed"},
                                 in : Sessions \cup {0}, deadline : BOOLEAN]
      <4>1. request[r] \in RequestSet /\ request[r].in \in Sessions \cup {0}
        BY DEF RelayInv, RelayRest
      <4> QED
        BY <4>1 DEF RequestSet
    <3> QED
      BY <3>1 DEF RelayInv
  <2> QED
    BY <2>1, <2>2 DEF RelayInv, RelayRest, RelayTypeOK, SessionSet
<1> QED
  BY <1>1, <1>2, RestKept, RelayInvariant, PTL DEF SpecRelay

-----------------------------------------------------------------------------
(* Presence in the local network. *)

On(p) == presence[p] = "on"
AllOn == {p \in Presences : presence[p] = "on"}

\* The socket in use is the only one that is not closed, and the one to be bound.
SocketIsOne ==
  /\ \A i \in 1..Len(udp) : i # udpCurrent => udp[i] = "closed"
  /\ bindPromise # 0 => bindPromise = udpCurrent
  /\ bound => udpCurrent # 0 /\ udp[udpCurrent] = "bound"
  /\ \A i \in 1..Len(udp) : udp[i] = "bound" => refs > 0

\* Where presences came one after the other, and none was stopped with something under way, a
\* presence that is on has the interval, and only it sends beacons.
AloneIsTidy ==
  /\ ~overlapped => /\ intervals = AllOn /\ beaconTimer = AllOn
                    /\ \A p, q \in AllOn : p = q
  /\ ~overlapped /\ ~caught =>
       /\ \A p \in Presences : beacon[p] \in {"advert", "bind"} => presence[p] = "on"
       /\ \A i \in 1..Len(udp) : udp[i] # "sends"

LanPresenceInv == LanPresenceTypeOK /\ overlapped \in BOOLEAN /\ caught \in BOOLEAN
                  /\ refs = Cardinality(AllOn) /\ SocketIsOne /\ AloneIsTidy

LEMMA OnIsFinite == IsFiniteSet(AllOn) /\ AllOn \subseteq Presences
<1>1. AllOn \subseteq Presences
  BY DEF AllOn
<1> QED
  BY <1>1, PresencesAssumption, FS_Subset

LEMMA LanPresenceTidy == LanPresenceInv => LanIsTidy
<1> SUFFICES ASSUME LanPresenceInv, refs = 0, ~overlapped, ~caught
             PROVE  intervals = {} /\ \A i \in 1..Len(udp) : udp[i] \in {"made", "closed"}
  BY DEF LanPresenceInv, SocketIsOne, LanIsTidy
<1>1. AllOn = {}
  BY OnIsFinite, FS_EmptySet DEF LanPresenceInv
<1>2. \A i \in 1..Len(udp) : udp[i] \in {"made", "sends", "bound", "closed"}
  BY DEF LanPresenceInv, LanPresenceTypeOK
<1> QED
  BY <1>1, <1>2 DEF LanPresenceInv, SocketIsOne, AloneIsTidy

LEMMA LanPresenceInit == InitLanPresence => LanPresenceInv
<1> SUFFICES ASSUME InitLanPresence PROVE LanPresenceInv
  OBVIOUS
<1>1. AllOn = {}
  BY DEF InitLanPresence, AllOn
<1>2. Cardinality({}) = 0
  BY FS_EmptySet
<1>3. LanPresenceTypeOK
  <2>1. udp \in Seq({"made", "sends", "bound", "closed"}) /\ Len(udp) = 0
    BY DEF InitLanPresence
  <2>2. /\ presence \in [Presences -> {"none", "on", "stopped"}]
        /\ beacon \in [Presences -> {"none", "advert", "bind", "lost"}]
        /\ scan \in [Scans -> {"none", "bind", "done", "lost"}]
    BY DEF InitLanPresence
  <2>3. /\ beaconTimer = {} /\ intervals = {} /\ refs = 0 /\ udpCurrent = 0 /\ bindPromise = 0
        /\ bound = FALSE
    BY DEF InitLanPresence
  <2>4. udpCurrent \in 0..Len(udp) /\ bindPromise \in 0..Len(udp)
    BY <2>1, <2>3
  <2>5. refs \in Nat
    BY <2>3
  <2>6. bound \in BOOLEAN
    BY <2>3
  <2>7. beaconTimer \subseteq Presences /\ intervals \subseteq Presences
    BY <2>3
  <2> QED
    BY <2>1, <2>2, <2>4, <2>5, <2>6, <2>7, Zenon DEF LanPresenceTypeOK
<1>4. refs = Cardinality(AllOn) /\ SocketIsOne
  BY <1>1, <1>2 DEF InitLanPresence, SocketIsOne
<1>5. AloneIsTidy
  BY <1>1 DEF InitLanPresence, AloneIsTidy
<1> QED
  BY <1>3, <1>4, <1>5 DEF InitLanPresence, LanPresenceInv

\* Binding leaves the sockets sound.
LEMMA BoundOnce ==
  ASSUME ensureBound, LanPresenceTypeOK, SocketIsOne
  PROVE  /\ udp' \in Seq({"made", "sends", "bound", "closed"}) /\ bound' = bound
         /\ udpCurrent' \in 0..Len(udp') /\ bindPromise' \in 0..Len(udp')
         /\ (refs' \in Nat /\ refs' >= refs) => SocketIsOne'
         /\ \A i \in 1..Len(udp') : udp'[i] = "sends" => i \in 1..Len(udp) /\ udp[i] = "sends"
<1> USE DEF LanPresenceTypeOK
<1>1. CASE UNCHANGED socketVars
  BY <1>1 DEF socketVars, SocketIsOne
<1>2. CASE ~(bound \/ bindPromise # 0) /\ udpCurrent = 0
  <2>1. /\ udp' = Append(udp, "made") /\ udpCurrent' = Len(udp) + 1 /\ bindPromise' = udpCurrent' /\ bound' = bound
    BY <1>2 DEF ensureBound, socketVars
  <2>2. /\ Len(udp') = Len(udp) + 1 /\ udp'[Len(udp) + 1] = "made" /\ \A i \in 1..Len(udp) : udp'[i] = udp[i]
    BY <2>1
  <2> QED
    BY <1>2, <2>1, <2>2 DEF SocketIsOne
<1>3. CASE ~(bound \/ bindPromise # 0) /\ udpCurrent # 0
  BY <1>3 DEF ensureBound, socketVars, SocketIsOne
<1> QED
  BY <1>1, <1>2, <1>3 DEF ensureBound

\* Waiters that go on begin nothing.
LEMMA WaitersStart ==
  ASSUME NEW answer \in {"none", "lost"}, WaitersGoOn(answer), LanPresenceTypeOK
  PROVE  /\ beacon' \in [Presences -> {"none", "advert", "bind", "lost"}]
         /\ scan' \in [Scans -> {"none", "bind", "done", "lost"}]
         /\ \A p \in Presences : beacon'[p] \in {"advert", "bind"} => beacon[p] \in {"advert", "bind"}
BY DEF WaitersGoOn, LanPresenceTypeOK

LEMMA LanPresenceKeeps == LanPresenceInv /\ [NextLanPresence]_lanPresenceVars => LanPresenceInv'
<1> SUFFICES ASSUME LanPresenceInv, [NextLanPresence]_lanPresenceVars PROVE LanPresenceInv'
  OBVIOUS
<1>t. LanPresenceTypeOK /\ SocketIsOne /\ AloneIsTidy /\ refs = Cardinality(AllOn) /\ refs \in Nat
      /\ overlapped \in BOOLEAN /\ caught \in BOOLEAN
  BY DEF LanPresenceInv, LanPresenceTypeOK
<1>1. CASE BindCalls
  <2>1. /\ udp' = [udp EXCEPT ![bindPromise] = "bound"] /\ bound' = TRUE /\ WaitersGoOn("none")
        /\ UNCHANGED <<presence, intervals, beaconTimer, refs, udpCurrent, bindPromise, overlapped, caught>>
        /\ bindPromise # 0 /\ refs # 0
    BY <1>1 DEF BindCalls, Unneeded
  <2>2. /\ bindPromise \in 1..Len(udp) /\ Len(udp') = Len(udp)
        /\ udp' \in Seq({"made", "sends", "bound", "closed"})
        /\ \A i \in 1..Len(udp) : udp'[i] = IF i = bindPromise THEN "bound" ELSE udp[i]
    BY <1>t, <2>1 DEF LanPresenceTypeOK
  <2>3. LanPresenceTypeOK'
    BY <1>t, <2>1, <2>2, WaitersStart DEF LanPresenceTypeOK
  <2>4. SocketIsOne'
    BY <1>t, <2>1, <2>2 DEF SocketIsOne
  <2>5. AloneIsTidy' /\ AllOn' = AllOn
    BY <1>t, <2>1, <2>2, WaitersStart DEF AloneIsTidy, AllOn
  <2> QED
    BY <1>t, <2>1, <2>3, <2>4, <2>5 DEF LanPresenceInv
<1>2. CASE BindIsUnneeded
  <2>1. /\ bound' = FALSE /\ bindPromise' = 0 /\ WaitersGoOn("none")
        /\ UNCHANGED <<presence, intervals, beaconTimer, refs, overlapped, caught>>
        /\ bindPromise # 0 /\ refs = 0
    BY <1>2 DEF BindIsUnneeded, Unneeded
  <2> DEFINE closed == [udp EXCEPT ![bindPromise] = "closed"]
  <2>2. /\ udp' = IF Waiting THEN Append(closed, "sends") ELSE closed
        /\ udpCurrent' = IF Waiting THEN Len(udp) + 1 ELSE 0
    BY <1>2 DEF BindIsUnneeded
  <2>3. /\ bindPromise \in 1..Len(udp) /\ Len(closed) = Len(udp)
        /\ closed \in Seq({"made", "sends", "bound", "closed"})
        /\ \A i \in 1..Len(udp) : closed[i] = IF i = bindPromise THEN "closed" ELSE udp[i]
    BY <1>t, <2>1 DEF LanPresenceTypeOK
  <2> HIDE DEF closed
  <2>4. \A i \in 1..Len(udp) : closed[i] = "closed"
    BY <1>t, <2>1, <2>3 DEF SocketIsOne
  <2>5. AllOn' = AllOn /\ AllOn = {}
    BY <1>t, <2>1, OnIsFinite, FS_EmptySet DEF AllOn
  <2>6. Waiting => overlapped \/ caught
    BY <1>t, <2>5 DEF Waiting, AloneIsTidy, AllOn
  <2>7. CASE Waiting
    <3>1. /\ Len(udp') = Len(udp) + 1 /\ udp'[Len(udp) + 1] = "sends" /\ \A i \in 1..Len(udp) : udp'[i] = closed[i]
          /\ udp' \in Seq({"made", "sends", "bound", "closed"}) /\ udpCurrent' = Len(udp) + 1
      BY <2>2, <2>3, <2>7
    <3>2. LanPresenceTypeOK'
      <4>1. Len(udp) \in Nat
        BY <1>t DEF LanPresenceTypeOK
      <4>2. udpCurrent' \in 0..Len(udp') /\ bindPromise' \in 0..Len(udp')
        BY <2>1, <3>1, <4>1
      <4> QED
        BY <1>t, <2>1, <3>1, <4>2, WaitersStart DEF LanPresenceTypeOK
    <3>3. SocketIsOne'
      <4>1. \A i \in 1..Len(udp') : i = Len(udp) + 1 \/ (i \in 1..Len(udp) /\ udp'[i] = "closed")
        BY <1>t, <2>4, <3>1 DEF LanPresenceTypeOK
      <4> QED
        BY <2>1, <3>1, <4>1 DEF SocketIsOne
    <3>4. AloneIsTidy'
      BY <1>t, <2>1, <2>5, <2>6, <2>7 DEF AloneIsTidy
    <3> QED
      BY <1>t, <2>1, <2>5, <3>2, <3>3, <3>4 DEF LanPresenceInv
  <2>8. CASE ~Waiting
    <3>1. /\ Len(udp') = Len(udp) /\ \A i \in 1..Len(udp) : udp'[i] = "closed"
          /\ udp' \in Seq({"made", "sends", "bound", "closed"}) /\ udpCurrent' = 0
      BY <2>2, <2>3, <2>4, <2>8
    <3>2. LanPresenceTypeOK'
      <4>1. udpCurrent' \in 0..Len(udp') /\ bindPromise' \in 0..Len(udp')
        BY <1>t, <2>1, <3>1 DEF LanPresenceTypeOK
      <4> QED
        BY <1>t, <2>1, <3>1, <4>1, WaitersStart DEF LanPresenceTypeOK
    <3>3. SocketIsOne'
      BY <1>t, <2>1, <3>1 DEF SocketIsOne
    <3>4. AloneIsTidy'
      BY <1>t, <2>1, <2>5, <3>1, WaitersStart DEF AloneIsTidy
    <3> QED
      BY <1>t, <2>1, <2>5, <3>2, <3>3, <3>4 DEF LanPresenceInv
  <2> QED
    BY <2>7, <2>8
<1>3. CASE BindFails
  <2>1. /\ bindPromise' = 0 /\ WaitersGoOn("none") /\ ~bound
        /\ UNCHANGED <<presence, intervals, beaconTimer, refs, udp, udpCurrent, bound, overlapped, caught>>
    BY <1>3 DEF BindFails
  <2>2. LanPresenceTypeOK'
    BY <1>t, <2>1, WaitersStart DEF LanPresenceTypeOK
  <2>3. SocketIsOne'
    BY <1>t, <2>1 DEF SocketIsOne
  <2>4. AloneIsTidy' /\ AllOn' = AllOn
    BY <1>t, <2>1, WaitersStart DEF AloneIsTidy, AllOn
  <2> QED
    BY <1>t, <2>1, <2>2, <2>3, <2>4 DEF LanPresenceInv
<1>4. ASSUME NEW p \in Presences, startPresence(p) PROVE LanPresenceInv'
  <2>1. /\ presence[p] = "none" /\ overlapped' = (overlapped \/ \E q \in Presences : presence[q] = "on")
        /\ presence' = [presence EXCEPT ![p] = "on"] /\ refs' = refs + 1 /\ ensureBound
        /\ beacon' = [beacon EXCEPT ![p] = "advert"]
        /\ intervals' = intervals \cup {p} /\ beaconTimer' = {p} /\ UNCHANGED <<scan, bindFaults, caught>>
    BY <1>4 DEF startPresence
  <2>2. AllOn' = AllOn \cup {p} /\ p \notin AllOn
    BY <1>t, <2>1 DEF AllOn, LanPresenceTypeOK
  <2>3. refs' = Cardinality(AllOn')
    BY <1>t, <2>1, <2>2, OnIsFinite, FS_AddElement
  <2>4. LanPresenceTypeOK'
    BY <1>t, <2>1, BoundOnce DEF LanPresenceTypeOK
  <2>5. SocketIsOne'
    BY <1>t, <2>1, BoundOnce
  <2>6. overlapped' \in BOOLEAN /\ (~overlapped' => ~overlapped /\ AllOn = {})
    BY <1>t, <2>1 DEF AllOn
  <2>7. \A q \in Presences : /\ beacon'[q] \in {"advert", "bind"} => q = p \/ beacon[q] \in {"advert", "bind"}
                             /\ presence[q] = "on" => presence'[q] = "on"
                             /\ presence'[p] = "on"
    BY <1>t, <2>1 DEF LanPresenceTypeOK
  <2>8. AloneIsTidy'
    BY <1>t, <2>1, <2>2, <2>6, <2>7, BoundOnce DEF AloneIsTidy
  <2> QED
    BY <1>t, <2>1, <2>3, <2>4, <2>5, <2>6, <2>8 DEF LanPresenceInv
<1>5. ASSUME NEW p \in Presences, IntervalFires(p) \/ NoAdvert(p) PROVE LanPresenceInv'
  <2>1. /\ UNCHANGED <<presence, intervals, beaconTimer, refs, socketVars, scan, bindFaults, overlapped, caught>>
        /\ \/ p \in intervals /\ beacon' = [beacon EXCEPT ![p] = "advert"]
           \/ beacon' = [beacon EXCEPT ![p] = "none"]
    BY <1>5 DEF IntervalFires, NoAdvert
  <2>2. LanPresenceTypeOK'
    BY <1>t, <2>1 DEF LanPresenceTypeOK, socketVars
  <2>3. SocketIsOne' /\ AllOn' = AllOn
    BY <1>t, <2>1 DEF SocketIsOne, AllOn, socketVars
  <2>4. AloneIsTidy'
    BY <1>t, <2>1, <2>3 DEF AloneIsTidy, LanPresenceTypeOK, socketVars, AllOn
  <2> QED
    BY <1>t, <2>1, <2>2, <2>3, <2>4 DEF LanPresenceInv
<1>6. ASSUME NEW p \in Presences, AdvertComes(p) PROVE LanPresenceInv'
  <2>1. /\ beacon[p] = "advert" /\ ensureBound
        /\ beacon' = [beacon EXCEPT ![p] = IF bound THEN "none" ELSE "bind"]
        /\ UNCHANGED <<presence, intervals, beaconTimer, refs, scan, bindFaults, overlapped, caught>>
    BY <1>6 DEF AdvertComes
  <2>2. LanPresenceTypeOK'
    BY <1>t, <2>1, BoundOnce DEF LanPresenceTypeOK
  <2>3. SocketIsOne' /\ AllOn' = AllOn
    BY <1>t, <2>1, BoundOnce DEF AllOn
  <2>4. \A q \in Presences : beacon'[q] \in {"advert", "bind"} => beacon[q] \in {"advert", "bind"}
    BY <1>t, <2>1 DEF LanPresenceTypeOK
  <2>5. AloneIsTidy'
    BY <1>t, <2>1, <2>3, <2>4, BoundOnce DEF AloneIsTidy
  <2> QED
    BY <1>t, <2>1, <2>2, <2>3, <2>5 DEF LanPresenceInv
<1>7. ASSUME NEW p \in Presences, StopPresence(p) PROVE LanPresenceInv'
  <2>1. /\ presence[p] = "on" /\ presence' = [presence EXCEPT ![p] = "stopped"]
        /\ intervals' = intervals \ beaconTimer /\ beaconTimer' = {}
        /\ refs' = refs - 1 /\ caught' = (caught \/ UnderWay) /\ UNCHANGED <<bindFaults, overlapped>>
    BY <1>7 DEF StopPresence, TimersStopped
  <2>2. AllOn' = AllOn \ {p} /\ p \in AllOn
    BY <1>t, <2>1 DEF AllOn, LanPresenceTypeOK
  <2>3. refs' = Cardinality(AllOn') /\ refs' \in Nat
    <3>1. Cardinality(AllOn \ {p}) = Cardinality(AllOn) - 1 /\ IsFiniteSet(AllOn \ {p})
      BY <2>2, OnIsFinite, FS_RemoveElement
    <3> QED
      BY <1>t, <2>1, <2>2, <3>1, FS_CardinalityType
  <2>4. /\ udp' \in Seq({"made", "sends", "bound", "closed"}) /\ bound' \in BOOLEAN
        /\ udpCurrent' \in 0..Len(udp') /\ bindPromise' \in 0..Len(udp')
        /\ beacon' \in [Presences -> {"none", "advert", "bind", "lost"}]
        /\ scan' \in [Scans -> {"none", "bind", "done", "lost"}]
        /\ SocketIsOne'
        /\ \A i \in 1..Len(udp') : udp'[i] = "sends" => i \in 1..Len(udp) /\ udp[i] = "sends"
        /\ \A q \in Presences : beacon'[q] \in {"advert", "bind"} => beacon[q] \in {"advert", "bind"}
    <3>1. CASE refs > 1 \/ udpCurrent = 0
      <4>1. UNCHANGED <<udp, udpCurrent, bound, bindPromise, beacon, scan>>
        BY <1>7, <3>1 DEF StopPresence, socketVars
      <4>2. \A i \in 1..Len(udp) : udp[i] = "bound" => refs' > 0
        <5>1. CASE refs > 1
          BY <1>t, <2>1, <5>1
        <5>2. CASE udpCurrent = 0
          BY <1>t, <5>2 DEF SocketIsOne
        <5> QED
          BY <3>1, <5>1, <5>2
      <4> QED
        BY <1>t, <4>1, <4>2 DEF SocketIsOne, LanPresenceTypeOK
    <3>2. CASE ~(refs > 1 \/ udpCurrent = 0)
      <4>1. /\ udp' = [udp EXCEPT ![udpCurrent] = "closed"] /\ udpCurrent' = 0 /\ bindPromise' = 0
            /\ bound' = FALSE /\ WaitersGoOn("lost")
        BY <1>7, <3>2 DEF StopPresence, StillBound
      <4>2. /\ Len(udp') = Len(udp) /\ udp' \in Seq({"made", "sends", "bound", "closed"})
            /\ \A i \in 1..Len(udp) : udp'[i] = "closed"
        BY <1>t, <3>2, <4>1 DEF LanPresenceTypeOK, SocketIsOne
      <4>3. udpCurrent' \in 0..Len(udp') /\ bindPromise' \in 0..Len(udp')
        BY <1>t, <4>1, <4>2 DEF LanPresenceTypeOK
      <4>4. SocketIsOne'
        BY <4>1, <4>2 DEF SocketIsOne
      <4> QED
        BY <1>t, <4>1, <4>2, <4>3, <4>4, WaitersStart
    <3> QED
      BY <3>1, <3>2
  <2>5. LanPresenceTypeOK'
    BY <1>t, <2>1, <2>3, <2>4 DEF LanPresenceTypeOK
  <2>6. caught' \in BOOLEAN /\ (~caught' => ~caught /\ \A q \in Presences : beacon[q] \notin {"advert", "bind"})
    BY <1>t, <2>1 DEF UnderWay
  <2>7. AloneIsTidy'
    BY <1>t, <2>1, <2>2, <2>4, <2>6 DEF AloneIsTidy
  <2> QED
    BY <1>t, <2>1, <2>3, <2>4, <2>5, <2>6, <2>7 DEF LanPresenceInv
<1>8. ASSUME NEW s \in Scans, listVisibleNodeHashes(s) PROVE LanPresenceInv'
  <2>1. /\ ensureBound /\ scan' = [scan EXCEPT ![s] = IF bound THEN "done" ELSE "bind"]
        /\ UNCHANGED <<presence, intervals, beaconTimer, refs, beacon, bindFaults, overlapped, caught>>
    BY <1>8 DEF listVisibleNodeHashes
  <2>2. LanPresenceTypeOK'
    BY <1>t, <2>1, BoundOnce DEF LanPresenceTypeOK
  <2>3. SocketIsOne' /\ AllOn' = AllOn
    BY <1>t, <2>1, BoundOnce DEF AllOn
  <2>4. AloneIsTidy'
    BY <1>t, <2>1, <2>3, BoundOnce DEF AloneIsTidy
  <2> QED
    BY <1>t, <2>1, <2>2, <2>3, <2>4 DEF LanPresenceInv
<1>9. CASE UNCHANGED lanPresenceVars
  <2>1. LanPresenceTypeOK' /\ SocketIsOne' /\ AllOn' = AllOn
    BY <1>t, <1>9 DEF lanPresenceVars, LanPresenceTypeOK, SocketIsOne, AllOn
  <2> QED
    BY <1>t, <1>9, <2>1 DEF lanPresenceVars, LanPresenceInv, AloneIsTidy
<1> QED
  BY <1>1, <1>2, <1>3, <1>4, <1>5, <1>6, <1>7, <1>8, <1>9 DEF NextLanPresence

\* For any presences, scans and failures: the socket taken to be bound is the one in use, and
\* nothing is left of presences that came and went one after the other (lan.mjs:123-229, 257-283).
LEMMA LanPresenceSound == SpecLanPresence => [](LanPresenceTypeOK /\ LanIsTidy)
<1>1. LanPresenceInv => LanPresenceTypeOK /\ LanIsTidy
  BY LanPresenceTidy DEF LanPresenceInv
<1> QED
  BY <1>1, LanPresenceInit, LanPresenceKeeps, PTL DEF SpecLanPresence

-----------------------------------------------------------------------------
(* Adverts and scans by radio. *)

Refresh == [who : BtPresences \cup BtListeners, of : {"call", "stop"},
            at : {"beacon", "runtime", "ears", "starts", "stops"}]

\* Each call or stop has one refresh at most, and the radio's are queued once each.
AirCalls ==
  /\ refreshes \subseteq Refresh /\ IsFiniteSet(refreshes) /\ radioCalls \in Seq(Refresh)
  /\ \A r, q \in refreshes : r.who = q.who /\ r.of = q.of => r = q
  /\ \A i \in 1..Len(radioCalls) : radioCalls[i] \in refreshes /\ radioCalls[i].at \in {"starts", "stops"}
  /\ \A i, j \in 1..Len(radioCalls) : radioCalls[i] = radioCalls[j] => i = j

AirStates ==
  /\ onAir \in [BtPresences -> {"none", "starting", "on", "stopped"}]
  /\ ear \in [BtListeners -> {"none", "starting", "on", "failed", "stopped"}]
  /\ localPresence \in BOOLEAN /\ heardKey \in BOOLEAN /\ bleno \in BOOLEAN
  /\ advertisingStarted \in BOOLEAN /\ radio \in BOOLEAN /\ overtaken \in BOOLEAN
  /\ radioFaults \in Nat

OnAir(p) == onAir[p] \in {"starting", "on"}

\* A refresh is of a presence or listener that has begun, its stop of one that has stopped; a
\* listener's goes past the runtime with the entry set.
AirFits(r) ==
  /\ r.who \in BtPresences => onAir[r.who] # "none" /\ (r.of = "stop" => onAir[r.who] = "stopped")
  /\ r.who \in BtListeners => ear[r.who] # "none" /\ (r.of = "stop" => ear[r.who] = "stopped")
  /\ r.who \in BtListeners /\ r.at # "ears" => heardKey
  /\ r.at = "beacon" /\ ~overtaken => r.who \in BtPresences /\ OnAir(r.who)

\* Without a presence on the air, a radio that is on is about to be stopped.
AirQuiet ==
  ~overtaken /\ ~heardKey /\ radioFaults = 0 /\ (\A p \in BtPresences : ~OnAir(p)) =>
    /\ \A r \in refreshes : r.at # "starts"
    /\ advertisingStarted => \E r \in refreshes : r.at \in {"runtime", "stops"}

AirFollows ==
  /\ \A r \in refreshes : AirFits(r)
  /\ \A l \in BtListeners : ear[l] = "on" => heardKey
  /\ ~overtaken /\ localPresence => \E p \in BtPresences : OnAir(p)
  /\ AirQuiet
  /\ radioFaults = 0 => radio = advertisingStarted

AirInv == AirCalls /\ AirStates /\ AirFollows

LEMMA AirShows == AirInv => AirTypeOK /\ AdvertFollows
<1> SUFFICES ASSUME AirInv PROVE AirTypeOK /\ AdvertFollows
  OBVIOUS
<1>1. Len(radioCalls) <= Cardinality(refreshes)
  <2>1. radioCalls \in Injection(1..Len(radioCalls), refreshes)
    BY DEF AirInv, AirCalls, Injection, IsInjective
  <2> QED
    BY <2>1, FS_Injection, FS_Interval DEF AirInv, AirCalls
<1>2. AirTypeOK
  BY <1>1 DEF AirInv, AirStates, AirTypeOK
<1>3. AdvertFollows
  BY DEF AirInv, AirStates, AirFollows, AirQuiet, AdvertFollows, OnAir
<1> QED
  BY <1>2, <1>3

LEMMA AirInit == InitAir => AirInv
<1> SUFFICES ASSUME InitAir PROVE AirInv
  OBVIOUS
<1>1. AirCalls
  BY FS_EmptySet DEF InitAir, AirCalls
<1>2. AirStates
  BY DEF InitAir, AirStates
<1>3. AirFollows
  BY DEF InitAir, AirFollows, AirQuiet
<1> QED
  BY <1>1, <1>2, <1>3 DEF AirInv

\* A refresh goes to another await, or ends; nobody else's does.
LEMMA GoesTells ==
  ASSUME AirCalls, NEW r \in Refresh, r.at \notin {"starts", "stops"},
         \A q \in refreshes : q.who = r.who /\ q.of = r.of => q = r,
         NEW at \in {"ended", "runtime", "starts", "stops"}, Goes(r, at)
  PROVE  /\ AirCalls'
         /\ \A q \in refreshes' : q \in refreshes \/ (q.who = r.who /\ q.of = r.of /\ q.at = at)
         /\ \A q \in refreshes : q # r => q \in refreshes'
         /\ at # "ended" => \E q \in refreshes' : q.at = at
<1> DEFINE new == [r EXCEPT !.at = at]
<1>1. at # "ended" => new \in Refresh /\ new.who = r.who /\ new.of = r.of /\ new.at = at
  BY DEF Refresh
<1>2. CASE at = "ended"
  <2>1. refreshes' = refreshes \ {r} /\ radioCalls' = radioCalls
    BY <1>2 DEF Goes
  <2>2. IsFiniteSet(refreshes')
    BY <2>1, FS_RemoveElement DEF AirCalls
  <2> QED
    BY <1>2, <2>1, <2>2 DEF AirCalls
<1>3. CASE at # "ended"
  <2> HIDE DEF new
  <2>1. refreshes' = (refreshes \ {r}) \cup {new}
    BY <1>3 DEF Goes, new
  <2>2. IsFiniteSet(refreshes') /\ refreshes' \subseteq Refresh
    BY <1>1, <1>3, <2>1, FS_RemoveElement, FS_AddElement DEF AirCalls
  <2>3. \A p, q \in refreshes' : p.who = q.who /\ p.of = q.of => p = q
    BY <1>1, <1>3, <2>1 DEF AirCalls
  <2>4. \A i \in 1..Len(radioCalls) : radioCalls[i] \in refreshes' /\ radioCalls[i] # new
    <3>1. SUFFICES ASSUME NEW i \in 1..Len(radioCalls) PROVE radioCalls[i] \in refreshes' /\ radioCalls[i] # new
      OBVIOUS
    <3>2. radioCalls[i] \in refreshes /\ radioCalls[i].at \in {"starts", "stops"}
      BY DEF AirCalls
    <3>3. radioCalls[i] # r
      BY <3>2
    <3>4. radioCalls[i] = new => radioCalls[i] = r
      BY <1>1, <1>3, <3>2
    <3> QED
      BY <2>1, <3>2, <3>3, <3>4
  <2>5. CASE at = "runtime"
    <3>1. radioCalls' = radioCalls
      BY <2>5 DEF Goes
    <3> QED
      BY <1>1, <1>3, <2>1, <2>2, <2>3, <2>4, <3>1 DEF AirCalls
  <2>6. CASE at \in {"starts", "stops"}
    <3>1. radioCalls' = Append(radioCalls, new)
      BY <2>6 DEF Goes, new
    <3>2. /\ Len(radioCalls') = Len(radioCalls) + 1 /\ radioCalls'[Len(radioCalls) + 1] = new
          /\ \A i \in 1..Len(radioCalls) : radioCalls'[i] = radioCalls[i]
          /\ radioCalls' \in Seq(Refresh)
      BY <1>1, <1>3, <3>1 DEF AirCalls
    <3>3. \A i \in 1..Len(radioCalls') : i = Len(radioCalls) + 1 \/ i \in 1..Len(radioCalls)
      BY <3>2 DEF AirCalls
    <3>4. \A i \in 1..Len(radioCalls') : radioCalls'[i] \in refreshes' /\ radioCalls'[i].at \in {"starts", "stops"}
      BY <1>1, <1>3, <2>1, <2>4, <2>6, <3>2, <3>3 DEF AirCalls
    <3>5. \A i, j \in 1..Len(radioCalls') : radioCalls'[i] = radioCalls'[j] => i = j
      BY <2>4, <3>2, <3>3 DEF AirCalls
    <3> QED
      BY <1>1, <1>3, <2>1, <2>2, <2>3, <3>2, <3>4, <3>5 DEF AirCalls
  <2> QED
    BY <1>3, <2>5, <2>6
<1> QED
  BY <1>2, <1>3

\* A refresh of somebody who has none of the kind begins with the beacon.
LEMMA BeginsTells ==
  ASSUME AirCalls, NEW r \in Refresh, r.at \notin {"starts", "stops"},
         \A q \in refreshes : ~(q.who = r.who /\ q.of = r.of),
         refreshes' = refreshes \cup {r}, radioCalls' = radioCalls
  PROVE  AirCalls'
<1>1. IsFiniteSet(refreshes')
  BY FS_AddElement DEF AirCalls
<1> QED
  BY <1>1 DEF AirCalls

\* Nobody begins or stops.
CallersKept ==
  /\ \A p \in BtPresences : /\ onAir'[p] = "none" <=> onAir[p] = "none"
                            /\ onAir'[p] = "stopped" <=> onAir[p] = "stopped"
                            /\ OnAir(p)' <=> OnAir(p)
  /\ \A l \in BtListeners : /\ ear'[l] = "none" <=> ear[l] = "none"
                            /\ ear'[l] = "stopped" <=> ear[l] = "stopped"

\* Who goes on was starting.
LEMMA CallerTells ==
  ASSUME AirStates, NEW r, NEW ended \in BOOLEAN, NEW well \in BOOLEAN, CallerGoesOn(r, ended, well)
  PROVE  /\ onAir' \in [BtPresences -> {"none", "starting", "on", "stopped"}]
         /\ ear' \in [BtListeners -> {"none", "starting", "on", "failed", "stopped"}]
         /\ CallersKept
         /\ \A l \in BtListeners : ear'[l] = "on" => ear[l] = "on" \/ (r.who = l /\ well)
BY DEF CallerGoesOn, AirStates, OnAir, CallersKept

\* A refresh that goes on still fits.
LEMMA FitsKept ==
  ASSUME NEW old, AirFits(old), CallersKept, heardKey => heardKey', UNCHANGED overtaken
  PROVE  /\ AirFits(old)'
         /\ \A q \in Refresh : q.who = old.who /\ q.of = old.of /\ q.at # "beacon"
                               /\ (old.at # "ears" \/ heardKey') => AirFits(q)'
BY DEF AirFits, CallersKept, Refresh

LEMMA StepTells ==
  ASSUME AirStates
  PROVE  /\ \A wanted \in BOOLEAN : Step(wanted) \in {"ended", "starts", "stops"}
         /\ \A wanted \in BOOLEAN : Onward(wanted) \in {"ended", "runtime", "starts", "stops"}
         /\ \A wanted \in BOOLEAN : ~wanted => /\ Step(wanted) # "starts" /\ Onward(wanted) # "starts"
                                               /\ Step(wanted) = "ended" => ~advertisingStarted
                                               /\ Onward(wanted) = "ended" => ~advertisingStarted
<1>1. ASSUME NEW wanted \in BOOLEAN
      PROVE  /\ Step(wanted) \in {"ended", "starts", "stops"}
             /\ Onward(wanted) \in {"ended", "runtime", "starts", "stops"}
             /\ ~wanted => /\ Step(wanted) # "starts" /\ Onward(wanted) # "starts"
                           /\ Step(wanted) = "ended" => ~advertisingStarted
                           /\ Onward(wanted) = "ended" => ~advertisingStarted
  <2>1. CASE wanted = TRUE
    BY <2>1 DEF Step, Onward, AirStates
  <2>2. CASE wanted = FALSE
    BY <2>2 DEF Step, Onward, AirStates
  <2> QED
    BY <2>1, <2>2
<1> QED
  BY <1>1

LEMMA AirKeeps == AirInv /\ [NextAir]_airVars => AirInv'
<1> SUFFICES ASSUME AirInv, [NextAir]_airVars PROVE AirInv'
  OBVIOUS
<1>t. AirCalls /\ AirStates /\ AirFollows
  BY DEF AirInv
<1>w. /\ (localPresence \/ heardKey) \in BOOLEAN /\ (FALSE \/ heardKey) \in BOOLEAN
      /\ TRUE \in BOOLEAN /\ FALSE \in BOOLEAN
  OBVIOUS
<1>1. ASSUME NEW r \in refreshes, RuntimeReady(r) PROVE AirInv'
  <2> DEFINE at == Step(localPresence \/ heardKey)
  <2>1. /\ r.at = "runtime" /\ bleno' = TRUE /\ Goes(r, at) /\ CallerGoesOn(r, at = "ended", TRUE)
        /\ UNCHANGED <<localPresence, heardKey, advertisingStarted, radio, radioFaults, overtaken>>
    BY <1>1 DEF RuntimeReady
  <2>2. /\ at \in {"ended", "starts", "stops"} /\ (at = "ended") \in BOOLEAN
        /\ ~(localPresence \/ heardKey) => at # "starts" /\ (at = "ended" => ~advertisingStarted)
    BY <1>t, <1>w, StepTells
  <2> HIDE DEF at
  <2>3. /\ AirCalls' /\ r \in Refresh
        /\ \A q \in refreshes' : q \in refreshes \/ (q.who = r.who /\ q.of = r.of /\ q.at = at)
        /\ \A q \in refreshes : q # r => q \in refreshes'
        /\ at # "ended" => \E q \in refreshes' : q.at = at
    BY <1>t, <2>1, <2>2, GoesTells DEF AirCalls
  <2>4. AirStates'
    BY <1>t, <1>w, <2>1, <2>2, CallerTells DEF AirStates
  <2>c. CallersKept /\ \A l \in BtListeners : ear'[l] = "on" => ear[l] = "on" \/ r.who = l
    BY <1>t, <1>w, <2>1, <2>2, CallerTells
  <2>f. AirFits(r) /\ \A q \in refreshes : AirFits(q)
    BY <1>t DEF AirFollows
  <2>5. \A q \in refreshes' : AirFits(q)'
    <3>1. ASSUME NEW q \in refreshes PROVE AirFits(q)'
      BY <2>1, <2>c, <2>f, FitsKept
    <3>2. ASSUME NEW q \in refreshes', q.who = r.who, q.of = r.of, q.at = at PROVE AirFits(q)'
      <4>1. q \in Refresh /\ q.at # "beacon"
        BY <2>2, <2>3, <3>2 DEF AirCalls
      <4> QED
        BY <2>1, <2>c, <2>f, <3>2, <4>1, FitsKept
    <3> QED
      BY <2>3, <3>1, <3>2
  <2>6. \A l \in BtListeners : ear'[l] = "on" => heardKey'
    BY <1>t, <2>1, <2>c, <2>f DEF AirFollows, AirFits
  <2>7. \A p \in BtPresences : OnAir(p)' <=> OnAir(p)
    BY <2>c DEF CallersKept
  <2>8. AirQuiet'
    <3>1. SUFFICES ASSUME ~overtaken, ~heardKey, radioFaults = 0, \A p \in BtPresences : ~OnAir(p)
                   PROVE  /\ \A q \in refreshes' : q.at # "starts"
                          /\ advertisingStarted => \E q \in refreshes' : q.at \in {"runtime", "stops"}
      BY <2>1, <2>7 DEF AirQuiet
    <3>2. ~localPresence /\ AirQuiet
      BY <1>t, <3>1 DEF AirFollows, AirStates
    <3>3. at # "starts" /\ (at = "ended" => ~advertisingStarted)
      BY <2>2, <3>1, <3>2
    <3>4. \A q \in refreshes : q.at # "starts"
      BY <3>1, <3>2 DEF AirQuiet
    <3> QED
      BY <2>2, <2>3, <3>3, <3>4
  <2> QED
    BY <1>t, <2>1, <2>3, <2>4, <2>5, <2>6, <2>7, <2>8 DEF AirInv, AirFollows
<1>2. ASSUME NEW r \in refreshes, RuntimeFails(r) PROVE AirInv'
  <2>1. /\ r.at \in {"runtime", "ears"} /\ radioFaults' = radioFaults + 1
        /\ Goes(r, "ended") /\ CallerGoesOn(r, TRUE, FALSE)
        /\ UNCHANGED <<localPresence, heardKey, bleno, advertisingStarted, radio, overtaken>>
    BY <1>2 DEF RuntimeFails
  <2>2. AirCalls' /\ r \in Refresh /\ \A q \in refreshes' : q \in refreshes
    <3>1. \A q \in refreshes' : q \in refreshes \/ q.at = "ended"
      BY <1>t, <2>1, GoesTells DEF AirCalls
    <3>2. AirCalls'
      BY <1>t, <2>1, GoesTells DEF AirCalls
    <3> QED
      BY <1>t, <3>1, <3>2 DEF AirCalls, Refresh
  <2>r. radioFaults' \in Nat /\ radioFaults' # 0
    BY <1>t, <2>1 DEF AirStates
  <2>3. AirStates' /\ radioFaults' # 0
    BY <1>t, <1>w, <2>1, <2>r, CallerTells DEF AirStates
  <2>c. CallersKept /\ \A q \in refreshes : AirFits(q)
    BY <1>t, <1>w, <2>1, CallerTells DEF AirFollows
  <2>4. \A q \in refreshes' : AirFits(q)'
    BY <2>1, <2>2, <2>c, FitsKept
  <2>5. \A l \in BtListeners : ear'[l] = "on" => heardKey'
    BY <1>t, <1>w, <2>1, CallerTells DEF AirFollows
  <2>6. \A p \in BtPresences : OnAir(p)' <=> OnAir(p)
    BY <2>c DEF CallersKept
  <2> QED
    BY <1>t, <2>1, <2>2, <2>3, <2>4, <2>5, <2>6 DEF AirInv, AirFollows, AirQuiet
<1>3. ASSUME NEW r \in refreshes, EarsReady(r) PROVE AirInv'
  <2> DEFINE at == Step(TRUE)
  <2>1. /\ r.at = "ears" /\ bleno' = TRUE /\ heardKey' = TRUE /\ Goes(r, at) /\ CallerGoesOn(r, at = "ended", TRUE)
        /\ UNCHANGED <<localPresence, advertisingStarted, radio, radioFaults, overtaken>>
    BY <1>3 DEF EarsReady
  <2>2. at \in {"ended", "starts", "stops"} /\ (at = "ended") \in BOOLEAN
    BY <1>t, <1>w, StepTells
  <2> HIDE DEF at
  <2>3. /\ AirCalls' /\ r \in Refresh
        /\ \A q \in refreshes' : q \in refreshes \/ (q.who = r.who /\ q.of = r.of /\ q.at = at)
    BY <1>t, <2>1, <2>2, GoesTells DEF AirCalls
  <2>4. AirStates'
    BY <1>t, <1>w, <2>1, <2>2, CallerTells DEF AirStates
  <2>c. CallersKept /\ \A l \in BtListeners : ear'[l] = "on" => ear[l] = "on" \/ r.who = l
    BY <1>t, <1>w, <2>1, <2>2, CallerTells
  <2>f. AirFits(r) /\ \A q \in refreshes : AirFits(q)
    BY <1>t DEF AirFollows
  <2>5. \A q \in refreshes' : AirFits(q)'
    <3>1. ASSUME NEW q \in refreshes PROVE AirFits(q)'
      BY <2>1, <2>c, <2>f, FitsKept
    <3>2. ASSUME NEW q \in refreshes', q.who = r.who, q.of = r.of, q.at = at PROVE AirFits(q)'
      <4>1. q \in Refresh /\ q.at # "beacon"
        BY <2>2, <2>3, <3>2 DEF AirCalls
      <4> QED
        BY <2>1, <2>c, <2>f, <3>2, <4>1, FitsKept
    <3> QED
      BY <2>3, <3>1, <3>2
  <2>7. \A p \in BtPresences : OnAir(p)' <=> OnAir(p)
    BY <2>c DEF CallersKept
  <2> QED
    BY <1>t, <2>1, <2>3, <2>4, <2>5, <2>7 DEF AirInv, AirFollows, AirQuiet
<1>4. ASSUME NEW r \in refreshes, NEW has \in BOOLEAN, BeaconAnswers(r, has) PROVE AirInv'
  <2> DEFINE at == IF has THEN Onward(TRUE) ELSE "ended"
  <2>1. /\ r.at = "beacon" /\ localPresence' = (localPresence \/ has) /\ Goes(r, at) /\ CallerGoesOn(r, at = "ended", TRUE)
        /\ UNCHANGED <<heardKey, bleno, advertisingStarted, radio, radioFaults, overtaken>>
    BY <1>4 DEF BeaconAnswers
  <2>2. at \in {"ended", "runtime", "starts", "stops"} /\ (at = "ended") \in BOOLEAN
    BY <1>t, <1>w, StepTells
  <2> HIDE DEF at
  <2>3. /\ AirCalls' /\ r \in Refresh
        /\ \A q \in refreshes' : q \in refreshes \/ (q.who = r.who /\ q.of = r.of /\ q.at = at)
    BY <1>t, <2>1, <2>2, GoesTells DEF AirCalls
  <2>4. AirStates'
    BY <1>t, <1>w, <2>1, <2>2, CallerTells DEF AirStates
  <2>c. CallersKept /\ \A l \in BtListeners : ear'[l] = "on" => ear[l] = "on" \/ r.who = l
    BY <1>t, <1>w, <2>1, <2>2, CallerTells
  <2>f. AirFits(r) /\ \A q \in refreshes : AirFits(q)
    BY <1>t DEF AirFollows
  <2>5. \A q \in refreshes' : AirFits(q)'
    <3>1. ASSUME NEW q \in refreshes PROVE AirFits(q)'
      BY <2>1, <2>c, <2>f, FitsKept
    <3>2. ASSUME NEW q \in refreshes', q.who = r.who, q.of = r.of, q.at = at PROVE AirFits(q)'
      <4>1. q \in Refresh /\ q.at # "beacon"
        BY <2>2, <2>3, <3>2 DEF AirCalls
      <4> QED
        BY <2>1, <2>c, <2>f, <3>2, <4>1, FitsKept
    <3> QED
      BY <2>3, <3>1, <3>2
  <2>6. \A l \in BtListeners : ear'[l] = "on" => heardKey'
    BY <1>t, <2>1, <2>c, <2>f DEF AirFollows, AirFits
  <2>7. \A p \in BtPresences : OnAir(p)' <=> OnAir(p)
    BY <2>c DEF CallersKept
  <2>8. ~overtaken' => \E p \in BtPresences : OnAir(p)'
    BY <1>t, <2>1, <2>7 DEF AirFollows, AirFits
  <2> QED
    BY <1>t, <2>1, <2>3, <2>4, <2>5, <2>6, <2>8 DEF AirInv, AirFollows, AirQuiet
<1>5. ASSUME NEW well \in BOOLEAN, RadioAnswers(well) PROVE AirInv'
  <2> DEFINE r == Head(radioCalls)
             starts == r.at = "starts"
  <2>1. /\ radioCalls # <<>> /\ radioFaults' = radioFaults + (IF well THEN 0 ELSE 1)
        /\ radio' = (IF well THEN starts ELSE radio)
        /\ advertisingStarted' = (IF ~starts THEN FALSE ELSE advertisingStarted \/ well)
        /\ refreshes' = refreshes \ {r} /\ CallerGoesOn(r, TRUE, well \/ ~starts)
        /\ radioCalls' = Tail(radioCalls)
        /\ UNCHANGED <<localPresence, heardKey, bleno, overtaken>>
    BY <1>5 DEF RadioAnswers, AfterStop
  <2>2. /\ Len(radioCalls) > 0 /\ r = radioCalls[1] /\ Len(radioCalls') = Len(radioCalls) - 1
        /\ radioCalls' \in Seq(Refresh)
        /\ \A i \in 1..Len(radioCalls') : i + 1 \in 1..Len(radioCalls) /\ radioCalls'[i] = radioCalls[i + 1]
    BY <1>t, <2>1 DEF AirCalls
  <2> HIDE DEF r
  <2>3. r \in refreshes /\ r.at \in {"starts", "stops"} /\ r \in Refresh
    BY <1>t, <2>2 DEF AirCalls
  <2>4. AirCalls'
    <3>1. IsFiniteSet(refreshes') /\ refreshes' \subseteq Refresh
      BY <1>t, <2>1, FS_RemoveElement DEF AirCalls
    <3>2. \A i \in 1..Len(radioCalls') : radioCalls'[i] # r
      BY <1>t, <2>2 DEF AirCalls
    <3>3. \A i, j \in 1..Len(radioCalls') : radioCalls'[i] = radioCalls'[j] => i = j
      BY <1>t, <2>2 DEF AirCalls
    <3> QED
      BY <1>t, <2>1, <2>2, <3>1, <3>2, <3>3 DEF AirCalls
  <2>5. /\ radio' \in BOOLEAN /\ advertisingStarted' \in BOOLEAN /\ radioFaults' \in Nat
        /\ radioFaults' = 0 => radioFaults = 0 /\ well
        /\ starts \in BOOLEAN /\ (well \/ ~starts) \in BOOLEAN
    <3>1. radioFaults' \in Nat /\ (radioFaults' = 0 => radioFaults = 0 /\ well)
      BY <1>t, <2>1 DEF AirStates
    <3>2. starts \in BOOLEAN /\ (well \/ ~starts) \in BOOLEAN
      OBVIOUS
    <3>3. radio' \in BOOLEAN
      BY <1>t, <2>1, <3>2 DEF AirStates
    <3>4. advertisingStarted' \in BOOLEAN
      BY <1>t, <2>1, <3>2 DEF AirStates
    <3> QED
      BY <3>1, <3>2, <3>3, <3>4
  <2>6. AirStates'
    BY <1>t, <1>w, <2>1, <2>5, CallerTells DEF AirStates
  <2>c. CallersKept /\ \A l \in BtListeners : ear'[l] = "on" => ear[l] = "on" \/ r.who = l
    BY <1>t, <1>w, <2>1, <2>5, CallerTells
  <2>f. AirFits(r) /\ \A q \in refreshes : AirFits(q)
    BY <1>t, <2>3 DEF AirFollows
  <2>7. \A q \in refreshes' : AirFits(q)'
    BY <2>1, <2>c, <2>f, FitsKept
  <2>8. \A l \in BtListeners : ear'[l] = "on" => heardKey'
    BY <1>t, <2>1, <2>3, <2>c, <2>f DEF AirFollows, AirFits
  <2>9. \A p \in BtPresences : OnAir(p)' <=> OnAir(p)
    BY <2>c DEF CallersKept
  <2>10. AirQuiet'
    BY <1>t, <2>1, <2>3, <2>5, <2>9 DEF AirQuiet, AirFollows
  <2>11. radioFaults' = 0 => radio' = advertisingStarted'
    <3>1. CASE starts
      BY <2>1, <2>5, <3>1
    <3>2. CASE ~starts
      BY <2>1, <2>5, <3>2
    <3> QED
      BY <3>1, <3>2
  <2> QED
    BY <1>t, <2>1, <2>4, <2>6, <2>7, <2>8, <2>9, <2>10, <2>11 DEF AirInv, AirFollows
<1>6. ASSUME NEW p \in BtPresences, StartOnAir(p) \/ RefreshTimer(p) PROVE AirInv'
  <2> DEFINE r == Begun(p, "call", "beacon")
  <2>0. r \in Refresh /\ r.who = p /\ r.of = "call" /\ r.at = "beacon"
    BY DEF Begun, Refresh
  <2> HIDE DEF r
  <2>1. /\ refreshes' = refreshes \cup {r}
        /\ UNCHANGED <<ear, localPresence, heardKey, bleno, radioCalls, advertisingStarted, radio, radioFaults, overtaken>>
    BY <1>6 DEF StartOnAir, RefreshTimer, r
  <2>2. /\ onAir' \in [BtPresences -> {"none", "starting", "on", "stopped"}]
        /\ \A q \in BtPresences : onAir'[q] = onAir[q] \/ (q = p /\ onAir[q] = "none")
        /\ OnAir(p)'
    BY <1>t, <1>6 DEF StartOnAir, RefreshTimer, AirStates, OnAir
  <2>3. \A q \in refreshes : q.who # p
    BY <1>t, <1>6 DEF StartOnAir, RefreshTimer, AirFollows, AirFits
  <2>4. AirCalls'
    BY <1>t, <2>0, <2>1, <2>3, BeginsTells
  <2>5. AirStates'
    BY <1>t, <2>1, <2>2 DEF AirStates
  <2>6. \A q \in refreshes : AirFits(q)'
    BY <1>t, <2>1, <2>2, <2>3 DEF AirFollows, AirFits, OnAir
  <2>7. AirFits(r)'
    BY <2>0, <2>1, <2>2, RadioAssumption DEF AirFits, OnAir
  <2> QED
    BY <1>t, <2>1, <2>2, <2>4, <2>5, <2>6, <2>7 DEF AirInv, AirFollows, AirQuiet
<1>7. ASSUME NEW p \in BtPresences, StopOnAir(p) PROVE AirInv'
  <2> DEFINE r == Begun(p, "stop", "runtime")
             at == Onward(FALSE \/ heardKey)
  <2>0. r \in Refresh /\ r.who = p /\ r.of = "stop" /\ r.at = "runtime"
    BY DEF Begun, Refresh
  <2>1. /\ onAir[p] = "on" /\ onAir' = [onAir EXCEPT ![p] = "stopped"] /\ localPresence' = FALSE
        /\ Goes(r, at) /\ overtaken' = (overtaken \/ refreshes # {})
        /\ UNCHANGED <<ear, heardKey, bleno, advertisingStarted, radio, radioFaults>>
    BY <1>7 DEF StopOnAir, Withdrawn
  <2>2. /\ at \in {"ended", "runtime", "starts", "stops"}
        /\ ~heardKey => at # "starts" /\ (at = "ended" => ~advertisingStarted)
    BY <1>t, <1>w, StepTells
  <2> HIDE DEF at, r
  <2>3. \A q \in refreshes : ~(q.who = p /\ q.of = "stop")
    BY <1>t, <2>1 DEF AirFollows, AirFits
  <2>4. /\ AirCalls'
        /\ \A q \in refreshes' : q \in refreshes \/ (q.who = p /\ q.of = "stop" /\ q.at = at)
        /\ at # "ended" => \E q \in refreshes' : q.at = at
    BY <1>t, <2>0, <2>1, <2>2, <2>3, GoesTells
  <2>5. overtaken' \in BOOLEAN /\ (~overtaken' => ~overtaken /\ refreshes = {})
    BY <1>t, <2>1 DEF AirStates
  <2>6. AirStates'
    BY <1>t, <2>1, <2>5 DEF AirStates
  <2>6a. \A q \in BtPresences : onAir'[q] = IF q = p THEN "stopped" ELSE onAir[q]
    BY <1>t, <2>1 DEF AirStates
  <2>7. \A q \in refreshes' : AirFits(q)'
    <3>1. ASSUME NEW q \in refreshes PROVE AirFits(q)'
      BY <1>t, <2>1, <2>5, <2>6a DEF AirFollows, AirFits, OnAir
    <3>2. ASSUME NEW q \in refreshes', q.who = p, q.of = "stop", q.at = at PROVE AirFits(q)'
      BY <2>2, <2>6a, <3>2, RadioAssumption DEF AirFits
    <3> QED
      BY <2>4, <3>1, <3>2
  <2>8. AirQuiet'
    <3>1. SUFFICES ASSUME ~overtaken', ~heardKey
                   PROVE  /\ \A q \in refreshes' : q.at # "starts"
                          /\ advertisingStarted => \E q \in refreshes' : q.at \in {"runtime", "stops"}
      BY <2>1 DEF AirQuiet
    <3>2. at # "starts" /\ (at = "ended" => ~advertisingStarted)
      BY <2>2, <3>1
    <3> QED
      BY <2>2, <2>4, <2>5, <3>1, <3>2
  <2> QED
    BY <1>t, <2>1, <2>4, <2>6, <2>7, <2>8 DEF AirInv, AirFollows
<1>8. ASSUME NEW l \in BtListeners, listenNodeSignals(l) PROVE AirInv'
  <2> DEFINE r == Begun(l, "call", "ears")
             at == IF bleno THEN Step(TRUE) ELSE "ears"
  <2>0. r \in Refresh /\ r.who = l /\ r.of = "call" /\ r.at = "ears"
    BY DEF Begun, Refresh
  <2>1. /\ ear[l] = "none" /\ Goes(r, at)
        /\ ear' = [ear EXCEPT ![l] = IF at = "ended" THEN "on" ELSE "starting"]
        /\ heardKey' = (heardKey \/ bleno)
        /\ UNCHANGED <<onAir, localPresence, bleno, advertisingStarted, radio, radioFaults, overtaken>>
    BY <1>8 DEF listenNodeSignals
  <2>2. (at \in {"ended", "starts", "stops"} /\ bleno) \/ (at = "ears" /\ ~bleno)
    BY <1>t, <1>w, StepTells
  <2> HIDE DEF at, r
  <2>3. \A q \in refreshes : q.who # l
    BY <1>t, <2>1 DEF AirFollows, AirFits
  <2>4. /\ AirCalls' /\ \A q \in refreshes' : q \in refreshes \/ (q.who = l /\ q.of = "call" /\ q.at = at)
        /\ \A q \in refreshes : q \in refreshes'
    <3>1. CASE at = "ears"
      <4>1. refreshes' = refreshes \cup {r} /\ radioCalls' = radioCalls
        <5>1. [r EXCEPT !.at = "ears"] = r
          BY <2>0 DEF Refresh
        <5> QED
          BY <2>1, <2>3, <2>0, <3>1, <5>1 DEF Goes
      <4> QED
        BY <1>t, <2>0, <2>3, <3>1, <4>1, BeginsTells
    <3>2. CASE at # "ears"
      BY <1>t, <2>0, <2>1, <2>2, <2>3, <3>2, GoesTells
    <3> QED
      BY <3>1, <3>2
  <2>5. AirStates'
    BY <1>t, <2>1 DEF AirStates
  <2>6. /\ \A k \in BtListeners : ear'[k] = IF k = l THEN IF at = "ended" THEN "on" ELSE "starting" ELSE ear[k]
        /\ heardKey => heardKey'
        /\ at # "ears" => heardKey'
    BY <1>t, <2>1, <2>2 DEF AirStates
  <2>7. \A q \in refreshes' : AirFits(q)'
    <3>1. ASSUME NEW q \in refreshes PROVE AirFits(q)'
      BY <1>t, <2>1, <2>3, <2>6 DEF AirFollows, AirFits, OnAir
    <3>2. ASSUME NEW q \in refreshes', q.who = l, q.of = "call", q.at = at PROVE AirFits(q)'
      BY <2>2, <2>6, <3>2, RadioAssumption DEF AirFits
    <3> QED
      BY <2>4, <3>1, <3>2
  <2>8. \A k \in BtListeners : ear'[k] = "on" => heardKey'
    BY <1>t, <2>6 DEF AirFollows
  <2>9. AirQuiet'
    BY <1>t, <2>1, <2>2, <2>4, <2>6 DEF AirQuiet, AirFollows, OnAir
  <2> QED
    BY <1>t, <2>1, <2>4, <2>5, <2>7, <2>8, <2>9 DEF AirInv, AirFollows, OnAir
<1>9. ASSUME NEW l \in BtListeners, StopListening(l) PROVE AirInv'
  <2> DEFINE r == Begun(l, "stop", "runtime")
             at == Onward(TRUE)
  <2>0. r \in Refresh /\ r.who = l /\ r.of = "stop" /\ r.at = "runtime"
    BY DEF Begun, Refresh
  <2>1. /\ ear[l] = "on" /\ Goes(r, at) /\ ear' = [ear EXCEPT ![l] = "stopped"]
        /\ UNCHANGED <<onAir, localPresence, heardKey, bleno, advertisingStarted, radio, radioFaults, overtaken>>
    BY <1>9 DEF StopListening
  <2>2. at \in {"ended", "runtime", "starts", "stops"} /\ heardKey
    BY <1>t, <1>w, <2>1, StepTells DEF AirFollows
  <2> HIDE DEF at, r
  <2>3. \A q \in refreshes : ~(q.who = l /\ q.of = "stop")
    BY <1>t, <2>1 DEF AirFollows, AirFits
  <2>4. AirCalls' /\ \A q \in refreshes' : q \in refreshes \/ (q.who = l /\ q.of = "stop" /\ q.at = at)
    BY <1>t, <2>0, <2>1, <2>2, <2>3, GoesTells
  <2>5. AirStates'
    BY <1>t, <2>1 DEF AirStates
  <2>6. \A k \in BtListeners : ear'[k] = IF k = l THEN "stopped" ELSE ear[k]
    BY <1>t, <2>1 DEF AirStates
  <2>7. \A q \in refreshes' : AirFits(q)'
    <3>1. ASSUME NEW q \in refreshes PROVE AirFits(q)'
      BY <1>t, <2>1, <2>6 DEF AirFollows, AirFits, OnAir
    <3>2. ASSUME NEW q \in refreshes', q.who = l, q.of = "stop", q.at = at PROVE AirFits(q)'
      BY <2>1, <2>2, <2>6, <3>2, RadioAssumption DEF AirFits
    <3> QED
      BY <2>4, <3>1, <3>2
  <2> QED
    BY <1>t, <2>1, <2>2, <2>4, <2>5, <2>6, <2>7 DEF AirInv, AirFollows, AirQuiet, OnAir
<1>10. CASE UNCHANGED airVars
  BY <1>t, <1>10 DEF airVars, AirInv, AirCalls, AirStates, AirFollows, AirFits, AirQuiet, OnAir
<1> QED
  BY <1>1, <1>2, <1>3, <1>4, <1>5, <1>6, <1>7, <1>8, <1>9, <1>10 DEF NextAir

\* For any presences, listeners and calls of the radio: the advert goes with the last presence,
\* unless a stop overtook a refresh (bt/index.mjs:205-221, 365-386).
LEMMA AirSound == SpecAir => [](AirTypeOK /\ AdvertFollows)
BY AirShows, AirInit, AirKeeps, PTL DEF SpecAir

-----------------------------------------------------------------------------
\* Who has been through the start of the scan.
Searched == {s \in Seekers : seeker[s] \notin {"none", "lists", "sends"}}

ScanInv ==
  /\ scanningStarted \in BOOLEAN /\ fresh \in BOOLEAN
  /\ seeker \in [Seekers -> {"none", "lists", "sends", "finds", "writes", "done", "failed"}]
  /\ discovers \in Nat /\ discovers <= Cardinality(Searched)
  /\ inspections = 0 \/ (fresh /\ inspections = 1)

LEMMA SearchedFinite == /\ IsFiniteSet(Searched) /\ Cardinality(Searched) \in Nat
                        /\ Cardinality(Searched) <= Cardinality(Seekers) /\ Cardinality(Seekers) \in Nat
<1>1. Searched \in SUBSET Seekers
  BY DEF Searched
<1> QED
  BY <1>1, RadioAssumption, FS_Subset, FS_CardinalityType

\* For any seekers: a peripheral is inspected once in a while (bt/index.mjs:227-262).
LEMMA ScanSound == SpecScan => [](ScanTypeOK /\ InspectedOnce)
<1>1. InitScan => ScanInv
  <2> SUFFICES ASSUME InitScan PROVE ScanInv
    OBVIOUS
  <2>1. discovers <= Cardinality(Searched)
    BY SearchedFinite DEF InitScan
  <2> QED
    BY <2>1 DEF InitScan, ScanInv
<1>2. ScanInv /\ [NextScan]_scanVars => ScanInv'
  <2> SUFFICES ASSUME ScanInv, [NextScan]_scanVars PROVE ScanInv'
    OBVIOUS
  <2> USE DEF ScanInv
  <2>1. ASSUME NEW s \in Seekers, NEW well \in BOOLEAN, ScanAnswers(s, well) PROVE ScanInv'
    <3>1. /\ seeker[s] \in {"lists", "sends"} /\ discovers' = discovers + 1
          /\ scanningStarted' = (scanningStarted \/ well)
          /\ seeker' = [seeker EXCEPT ![s] = IF @ = "lists" THEN "done" ELSE IF well THEN "finds" ELSE "failed"]
          /\ UNCHANGED <<sightings, fresh, inspections>>
      BY <2>1 DEF ScanAnswers
    <3>2. Searched' = Searched \cup {s} /\ s \notin Searched
      BY <3>1 DEF Searched
    <3>3. Cardinality(Searched') = Cardinality(Searched) + 1
      BY <3>2, SearchedFinite, FS_AddElement
    <3> QED
      BY <3>1, <3>3, SearchedFinite
  <2>2. ASSUME ~\E s \in Seekers, well \in BOOLEAN : ScanAnswers(s, well) PROVE ScanInv'
    <3>1. /\ seeker' \in [Seekers -> {"none", "lists", "sends", "finds", "writes", "done", "failed"}]
          /\ \A s \in Seekers : seeker[s] \notin {"none", "lists", "sends"} =>
                                  seeker'[s] \notin {"none", "lists", "sends"}
      BY <2>2 DEF NextScan, scanVars, Lists, Sends, Seek, Sighted, FindsCached, FindDeadline, Written, RescanDue
    <3>2. Searched \subseteq Searched'
      BY <3>1 DEF Searched
    <3>3. Cardinality(Searched) <= Cardinality(Searched') /\ Cardinality(Searched') \in Nat
      <4>1. Searched' \in SUBSET Seekers
        BY DEF Searched
      <4>2. IsFiniteSet(Searched')
        BY <4>1, RadioAssumption, FS_Subset
      <4> QED
        BY <3>2, <4>2, FS_Subset, FS_CardinalityType
    <3>4. UNCHANGED <<discovers, scanningStarted>>
      BY <2>2 DEF NextScan, scanVars, Lists, Sends, Seek, Sighted, FindsCached, FindDeadline, Written, RescanDue
    <3>5. fresh' \in BOOLEAN /\ (inspections' = 0 \/ (fresh' /\ inspections' = 1))
      <4>1. CASE Sighted
        <5>1. fresh' = TRUE /\ inspections' = inspections + (IF fresh THEN 0 ELSE 1)
          BY <4>1 DEF Sighted, InspectionsBegun
        <5> QED
          BY <5>1
      <4>2. CASE RescanDue
        BY <4>2 DEF RescanDue
      <4>3. CASE ~Sighted /\ ~RescanDue
        <5>1. UNCHANGED <<fresh, inspections>>
          BY <2>2, <4>3 DEF NextScan, scanVars, Lists, Sends, Seek, FindsCached, FindDeadline, Written
        <5> QED
          BY <5>1
      <4> QED
        BY <4>1, <4>2, <4>3
    <3> QED
      BY <3>1, <3>3, <3>4, <3>5, SearchedFinite
  <2> QED
    BY <2>1, <2>2
<1>3. ScanInv => ScanTypeOK /\ InspectedOnce
  <2>1. ScanInv => discovers \in 0..Cardinality(Seekers)
    BY SearchedFinite DEF ScanInv
  <2>2. ScanInv => inspections \in Nat /\ inspections <= 1
    BY DEF ScanInv
  <2> QED
    BY <2>1, <2>2 DEF ScanInv, ScanTypeOK, InspectedOnce
<1> QED
  BY <1>1, <1>2, <1>3, PTL DEF SpecScan
=============================================================================
