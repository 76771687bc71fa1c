----------------------------- MODULE DataLemmas ------------------------------
(***************************************************************************)
(* Facts about numbers and sequences that the proofs of several components *)
(* cite.                                                                   *)
(***************************************************************************)
EXTENDS Integers, Functions, NaturalsInduction, WellFoundedInduction,
  SequenceTheorems, FiniteSetTheorems, TLAPS

\* Every nonempty set of naturals has a least member.
LEMMA LeastNatural ==
  ASSUME NEW S, S \subseteq Nat, S # {}
  PROVE  \E n \in S : \A m \in S : n <= m
<1> DEFINE R == OpToRel(<, Nat)
<1>1. IsWellFoundedOn(R, Nat)
  BY NatLessThanWellFounded
<1>2. \A m, n \in Nat : <<m, n>> \in R <=> m < n
  BY DEF OpToRel
<1> HIDE DEF R
<1>3. PICK n \in S : \A m \in S : ~ (<<m, n>> \in R)
  BY <1>1, WFMin
<1>4. ASSUME NEW m \in S PROVE n <= m
  <2>1. m \in Nat /\ n \in Nat
    OBVIOUS
  <2>2. ~ (m < n)
    BY <2>1, <1>2, <1>3
  <2> QED
    BY <2>1, <2>2
<1> QED
  BY <1>4

\* A function on 1..n is a sequence of length n.
LEMMA FunctionIsSeq ==
  ASSUME NEW S, NEW n \in Nat, NEW f \in [1..n -> S]
  PROVE  f \in Seq(S) /\ Len(f) = n
<1>1. f \in Seq(S)
  BY SeqDef
<1> QED
  BY <1>1, LenProperties

\* Sequences over a set are sequences over a larger one.
LEMMA SeqWidens == ASSUME NEW A, NEW B, A \subseteq B, NEW s \in Seq(A) PROVE s \in Seq(B)
<1>1. Len(s) \in Nat /\ s \in [1..Len(s) -> B]
  OBVIOUS
<1> QED
  BY <1>1

\* The elements of two sequences joined.
LEMMA RangesJoin ==
  ASSUME NEW W, NEW a \in Seq(W), NEW b \in Seq(W)
  PROVE  Range(a \o b) = Range(a) \cup Range(b)
<1> DEFINE c == a \o b
<1>1. /\ Len(c) = Len(a) + Len(b) /\ DOMAIN c = 1..(Len(a) + Len(b))
      /\ \A i \in 1..Len(a) : c[i] = a[i]
      /\ \A i \in 1..Len(b) : c[Len(a) + i] = b[i]
      /\ Len(a) \in Nat /\ Len(b) \in Nat
  OBVIOUS
<1> HIDE DEF c
<1>2. ASSUME NEW x \in Range(c) PROVE x \in Range(a) \cup Range(b)
  <2>1. PICK i \in 1..(Len(a) + Len(b)) : x = c[i]
    BY <1>1 DEF Range
  <2>2. CASE i <= Len(a)
    <3>1. i \in 1..Len(a)
      BY <1>1, <2>2
    <3> QED
      BY <1>1, <2>1, <3>1 DEF Range
  <2>3. CASE ~(i <= Len(a))
    <3>1. i - Len(a) \in 1..Len(b) /\ Len(a) + (i - Len(a)) = i
      BY <1>1, <2>3
    <3>2. x = b[i - Len(a)]
      BY <1>1, <2>1, <3>1
    <3> QED
      BY <3>1, <3>2 DEF Range
  <2> QED
    BY <2>2, <2>3
<1>3. ASSUME NEW x \in Range(a) PROVE x \in Range(c)
  <2>1. PICK i \in 1..Len(a) : x = a[i]
    BY DEF Range
  <2>2. i \in 1..(Len(a) + Len(b))
    BY <1>1
  <2> QED
    BY <1>1, <2>1, <2>2 DEF Range
<1>4. ASSUME NEW x \in Range(b) PROVE x \in Range(c)
  <2>1. PICK i \in 1..Len(b) : x = b[i]
    BY DEF Range
  <2>2. Len(a) + i \in 1..(Len(a) + Len(b))
    BY <1>1
  <2> QED
    BY <1>1, <2>1, <2>2 DEF Range
<1> QED
  BY <1>2, <1>3, <1>4 DEF c

\* A sequence that is cut in two.
LEMMA ChunksJoin ==
  ASSUME NEW S, NEW s \in Seq(S), NEW n \in 0..Len(s)
  PROVE  /\ SubSeq(s, 1, n) \in Seq(S) /\ Len(SubSeq(s, 1, n)) = n
         /\ SubSeq(s, n + 1, Len(s)) \in Seq(S)
         /\ Len(SubSeq(s, n + 1, Len(s))) = Len(s) - n
         /\ \A i \in 1..n : SubSeq(s, 1, n)[i] = s[i]
         /\ \A i \in 1..(Len(s) - n) : SubSeq(s, n + 1, Len(s))[i] = s[n + i]
         /\ SubSeq(s, 1, n) \o SubSeq(s, n + 1, Len(s)) = s
<1> PICK m : m = Len(s)
  OBVIOUS
<1>1. m = Len(s) /\ m \in Nat /\ n \in Nat /\ n <= m /\ \A i \in 1..m : s[i] \in S
  BY LenProperties
<1>2. n \in Int /\ 1 \in Int /\ n + 1 \in Int /\ m \in Int
      /\ (\A i \in 1..n : s[i] \in S) /\ \A i \in (n + 1)..m : s[i] \in S
  BY <1>1
<1> DEFINE a == SubSeq(s, 1, n)
           b == SubSeq(s, n + 1, m)
<1>3. /\ a \in Seq(S) /\ Len(a) = (IF 1 <= n THEN n - 1 + 1 ELSE 0)
      /\ \A i \in 1..(n - 1 + 1) : a[i] = s[1 + i - 1]
  BY <1>2, SubSeqProperties
<1>4. /\ b \in Seq(S) /\ Len(b) = (IF n + 1 <= m THEN m - (n + 1) + 1 ELSE 0)
      /\ \A i \in 1..(m - (n + 1) + 1) : b[i] = s[(n + 1) + i - 1]
  BY <1>2, SubSeqProperties
<1> HIDE DEF a, b
<1>5. Len(a) = n /\ \A i \in 1..n : a[i] = s[i]
  BY <1>1, <1>3
<1>6. Len(b) = m - n
  BY <1>1, <1>4
<1>7. ASSUME NEW i \in 1..(m - n) PROVE b[i] = s[n + i]
  <2>1. i \in 1..(m - (n + 1) + 1) /\ (n + 1) + i - 1 = n + i
    BY <1>1
  <2> QED
    BY <1>4, <2>1
<1>8. a \o b = s
  <2>1. /\ a \o b \in Seq(S) /\ Len(a \o b) = Len(a) + Len(b)
        /\ \A i \in 1..(Len(a) + Len(b)) : (a \o b)[i] = IF i <= Len(a) THEN a[i] ELSE b[i - Len(a)]
    BY <1>3, <1>4, ConcatProperties
  <2>2. Len(a \o b) = Len(s)
    BY <1>1, <1>5, <1>6, <2>1
  <2>3. ASSUME NEW i \in 1..Len(s) PROVE (a \o b)[i] = s[i]
    <3>1. i \in 1..(Len(a) + Len(b)) /\ (i <= n => i \in 1..n)
          /\ (~(i <= n) => i - n \in 1..(m - n) /\ n + (i - n) = i)
      BY <1>1, <1>5, <1>6
    <3>2. CASE i <= n
      BY <1>5, <2>1, <3>1, <3>2
    <3>3. CASE ~(i <= n)
      BY <1>5, <1>7, <2>1, <3>1, <3>3
    <3> QED
      BY <3>2, <3>3
  <2> QED
    BY <2>1, <2>2, <2>3, SeqEqual
<1> QED
  BY <1>1, <1>3, <1>4, <1>5, <1>6, <1>7, <1>8 DEF a, b

\* A finite set of naturals has a greatest member.
LEMMA GreatestNatural ==
  ASSUME NEW S, S \subseteq Nat, S # {}, IsFiniteSet(S)
  PROVE  \E m \in S : \A n \in S : n <= m
<1>1. PICK k \in Nat : ExistsSurjection(1..k, S)
  BY FS_NatSurjection
<1>2. PICK f \in Surjection(1..k, S) : TRUE
  BY <1>1 DEF ExistsSurjection
<1>3. f \in [1..k -> S] /\ \A n \in S : \E i \in 1..k : f[i] = n
  BY <1>2 DEF Surjection
<1> DEFINE Unbounded == {i \in 0..k : ~\E b \in Nat : \A j \in 1..i : f[j] <= b}
<1>4. Unbounded = {}
  <2> SUFFICES ASSUME Unbounded # {} PROVE FALSE
    OBVIOUS
  <2>1. Unbounded \subseteq Nat
    BY <1>1
  <2>2. PICK i \in Unbounded : \A j \in Unbounded : i <= j
    <3> HIDE DEF Unbounded
    <3> QED
      BY <2>1, LeastNatural
  <2>3. i \in 0..k /\ ~\E b \in Nat : \A j \in 1..i : f[j] <= b
    BY <2>2
  <2>4. i # 0
    <3>1. i = 0 => \A j \in 1..i : f[j] <= 0
      OBVIOUS
    <3> QED
      BY <2>3, <3>1
  <2>5. i - 1 \in 0..k /\ ~(i <= i - 1) /\ i \in 1..k
    BY <1>1, <2>3, <2>4
  <2>6. i - 1 \notin Unbounded
    <3> HIDE DEF Unbounded
    <3> QED
      BY <2>2, <2>5
  <2>7. PICK b \in Nat : \A j \in 1..(i - 1) : f[j] <= b
    BY <2>5, <2>6
  <2>8. f[i] \in Nat
    BY <1>3, <2>5
  <2>9. PICK c \in Nat : f[i] <= c /\ b <= c
    <3>1. b \in Nat
      BY <2>7
    <3>2. \A y \in Nat : \E z \in Nat : y <= z /\ b <= z
      <4> TAKE y \in Nat
      <4>1. y + b \in Nat /\ y <= y + b /\ b <= y + b
        BY <3>1
      <4> QED
        BY <4>1
    <3> QED
      BY <2>8, <3>2
  <2> HIDE DEF Unbounded
  <2>10. ASSUME NEW j \in 1..i PROVE f[j] <= c
    <3>1. j = i \/ j \in 1..(i - 1)
      BY <2>5
    <3>2. j \in 1..k
      BY <1>1, <2>5
    <3>3. f[j] \in Nat
      BY <1>3, <3>2
    <3>4. b \in Nat /\ c \in Nat
      BY <2>7, <2>9
    <3>5. CASE j = i
      BY <2>9, <3>5
    <3>6. CASE j \in 1..(i - 1)
      <4>1. f[j] <= b
        BY <2>7, <3>6
      <4>2. b <= c
        BY <2>9
      <4> QED
        BY <3>3, <3>4, <4>1, <4>2
    <3> QED
      BY <3>1, <3>5, <3>6
  <2> QED
    BY <2>3, <2>9, <2>10
<1>5. PICK b \in Nat : \A j \in 1..k : f[j] <= b
  <2>1. k \in 0..k
    BY <1>1
  <2>2. ~(~\E b \in Nat : \A j \in 1..k : f[j] <= b)
    BY <1>4, <2>1
  <2> QED
    BY <2>2
<1> DEFINE Bounds == {n \in Nat : \A m \in S : m <= n}
<1>6. Bounds \subseteq Nat /\ b \in Bounds
  BY <1>3, <1>5
<1>7. PICK n \in Bounds : \A m \in Bounds : n <= m
  <2> HIDE DEF Bounds
  <2> QED
    BY <1>6, LeastNatural
<1>8. n \in S
  <2> SUFFICES ASSUME n \notin S PROVE FALSE
    OBVIOUS
  <2>1. PICK s \in S : s \in Nat /\ s <= n /\ s # n
    BY <1>7
  <2>2. n - 1 \in Nat /\ ~(n <= n - 1)
    BY <1>7, <2>1
  <2>3. \A m \in S : m \in Nat /\ m <= n /\ m # n
    BY <1>7
  <2>4. n - 1 \in Bounds
    BY <1>7, <2>2, <2>3
  <2> HIDE DEF Bounds
  <2> QED
    BY <1>7, <2>2, <2>4
<1> QED
  BY <1>7, <1>8

\* One more element at the end of a sequence that has each once.
LEMMA OnceMore ==
  ASSUME NEW W, NEW p \in Seq(W), IsInjective(p), NEW v \in W, \A j \in 1..Len(p) : p[j] # v
  PROVE  IsInjective(Append(p, v))
<1> DEFINE q == Append(p, v)
           n == Len(p)
<1>1. /\ n \in Nat /\ DOMAIN q = 1..(n + 1) /\ DOMAIN p = 1..n /\ q[n + 1] = v
      /\ \A j \in 1..n : q[j] = p[j]
  BY LenProperties
<1> HIDE DEF q, n
<1>2. SUFFICES ASSUME NEW i \in 1..(n + 1), NEW j \in 1..(n + 1), q[i] = q[j] PROVE i = j
  BY <1>1 DEF IsInjective, q
<1>3. CASE i = n + 1 /\ j # n + 1
  BY <1>1, <1>2, <1>3 DEF n
<1>4. CASE j = n + 1 /\ i # n + 1
  BY <1>1, <1>2, <1>4 DEF n
<1>5. CASE i # n + 1 /\ j # n + 1
  <2>1. i \in 1..n /\ j \in 1..n
    BY <1>1, <1>5
  <2> QED
    BY <1>1, <1>2, <2>1 DEF IsInjective
<1> QED
  BY <1>3, <1>4, <1>5

\* The elements of a sequence with one more, and of one without its first.
LEMMA RangeAppends ==
  ASSUME NEW W, NEW q \in Seq(W), NEW v \in W
  PROVE  /\ Append(q, v) \in Seq(W) /\ Len(Append(q, v)) = Len(q) + 1 /\ Len(q) \in Nat
         /\ \A x : x \in Range(Append(q, v)) <=> x \in Range(q) \/ x = v
<1>1. DOMAIN q = 1..Len(q) /\ Len(q) \in Nat
  OBVIOUS
<1>2. PICK p, n : p = Append(q, v) /\ n = Len(q)
  OBVIOUS
<1>3. DOMAIN p = 1..(n + 1) /\ p[n + 1] = v /\ (\A j \in 1..n : p[j] = q[j]) /\ p \in Seq(W) /\ Len(p) = n + 1
  BY <1>2
<1>4. \A x : x \in Range(p) <=> \E j \in 1..(n + 1) : x = p[j]
  BY <1>3 DEF Range
<1>5. \A x : x \in Range(q) <=> \E j \in 1..n : x = q[j]
  BY <1>1, <1>2 DEF Range
<1>6. n \in Nat /\ \A j : j \in 1..(n + 1) <=> j \in 1..n \/ j = n + 1
  BY <1>1, <1>2
<1>7. \A x : x \in Range(p) <=> x \in Range(q) \/ x = v
  BY <1>3, <1>4, <1>5, <1>6
<1> QED
  BY <1>1, <1>2, <1>3, <1>7

LEMMA RangeTails ==
  ASSUME NEW W, NEW q \in Seq(W), q # <<>>
  PROVE  /\ Tail(q) \in Seq(W) /\ Len(Tail(q)) = Len(q) - 1 /\ Len(q) \in Nat \ {0}
         /\ Range(Tail(q)) \subseteq Range(q) /\ Head(q) \in Range(q) /\ Head(q) \in W
<1>1. PICK p, n, h : p = Tail(q) /\ n = Len(q) /\ h = Head(q)
  OBVIOUS
<1>2. n \in Nat /\ n # 0 /\ DOMAIN q = 1..n
  BY <1>1, EmptySeq
<1>3. /\ p \in Seq(W) /\ DOMAIN p = 1..(n - 1) /\ Len(p) = n - 1 /\ h = q[1]
      /\ \A j \in 1..(n - 1) : p[j] = q[j + 1]
  BY <1>1, <1>2
<1>4. (\A j \in 1..(n - 1) : j + 1 \in 1..n) /\ 1 \in 1..n
  BY <1>2
<1>5. \A x : x \in Range(q) <=> \E j \in 1..n : x = q[j]
  BY <1>2 DEF Range
<1>6. \A x : x \in Range(p) <=> \E j \in 1..(n - 1) : x = p[j]
  BY <1>3 DEF Range
<1>7. Range(p) \subseteq Range(q)
  BY <1>3, <1>4, <1>5, <1>6
<1>8. h \in Range(q) /\ h \in W
  <2>1. q[1] \in W
    BY <1>2, <1>4
  <2> QED
    BY <1>3, <1>4, <1>5, <2>1
<1> QED
  BY <1>1, <1>2, <1>3, <1>7, <1>8

\* Who joins a queue of others is in it once.
LEMMA QueueJoins ==
  ASSUME NEW W, NEW q \in Seq(W), IsInjective(q), NEW v \in W, v \notin Range(q)
  PROVE  /\ Append(q, v) \in Seq(W) /\ IsInjective(Append(q, v))
         /\ \A x : x \in Range(Append(q, v)) <=> x \in Range(q) \/ x = v
<1>1. DOMAIN q = 1..Len(q) /\ Len(q) \in Nat
  OBVIOUS
<1>2. \A j \in 1..Len(q) : q[j] # v
  BY <1>1 DEF Range
<1>3. IsInjective(Append(q, v))
  BY <1>2, OnceMore
<1> QED
  BY <1>3, RangeAppends

\* The first leaves a queue that has each once.
LEMMA QueueLeaves ==
  ASSUME NEW W, NEW q \in Seq(W), IsInjective(q), q # <<>>
  PROVE  /\ Tail(q) \in Seq(W) /\ IsInjective(Tail(q))
         /\ \A x : x \in Range(Tail(q)) <=> x \in Range(q) /\ x # Head(q)
         /\ Head(q) \in Range(q) /\ Head(q) \in W
<1>1. PICK p, n, h : p = Tail(q) /\ n = Len(q) /\ h = Head(q)
  OBVIOUS
<1>2. n \in Nat /\ n # 0 /\ DOMAIN q = 1..n
  BY <1>1, EmptySeq
<1>3. /\ p \in Seq(W) /\ DOMAIN p = 1..(n - 1) /\ h = q[1]
      /\ \A j \in 1..(n - 1) : p[j] = q[j + 1]
  BY <1>1, <1>2
<1>4. /\ \A j \in 1..(n - 1) : j + 1 \in 1..n /\ j + 1 # 1
      /\ \A j \in 1..n : j # 1 => j - 1 \in 1..(n - 1) /\ j - 1 + 1 = j
      /\ \A i, j \in 1..(n - 1) : i + 1 = j + 1 => i = j
      /\ 1 \in 1..n
  BY <1>2
<1>5. \A i, j \in 1..n : q[i] = q[j] => i = j
  BY <1>2 DEF IsInjective
<1>6. \A i, j \in 1..(n - 1) : p[i] = p[j] => i = j
  BY <1>3, <1>4, <1>5
<1>7. \A x : x \in Range(p) <=> \E j \in 1..(n - 1) : x = p[j]
  BY <1>3 DEF Range
<1>8. \A x : x \in Range(q) <=> \E j \in 1..n : x = q[j]
  BY <1>2 DEF Range
<1>9. ASSUME NEW x PROVE x \in Range(p) <=> x \in Range(q) /\ x # h
  <2>1. ASSUME x \in Range(p) PROVE x \in Range(q) /\ x # h
    <3>1. PICK j \in 1..(n - 1) : x = p[j]
      BY <1>7, <2>1
    <3>2. x = q[j + 1] /\ j + 1 \in 1..n /\ j + 1 # 1
      BY <1>3, <1>4, <3>1
    <3> QED
      BY <1>3, <1>4, <1>5, <1>8, <3>2
  <2>2. ASSUME x \in Range(q), x # h PROVE x \in Range(p)
    <3>1. PICK j \in 1..n : x = q[j]
      BY <1>8, <2>2
    <3>2. j # 1
      BY <1>3, <2>2, <3>1
    <3>3. PICK i \in 1..(n - 1) : i + 1 = j
      BY <1>4, <3>2
    <3> QED
      BY <1>3, <1>7, <3>1, <3>3
  <2> QED
    BY <2>1, <2>2
<1>10. IsInjective(p)
  BY <1>3, <1>6 DEF IsInjective
<1>11. h \in Range(q) /\ h \in W
  BY <1>1, <1>3, <1>4, <1>8
<1> QED
  BY <1>1, <1>3, <1>9, <1>10, <1>11
=============================================================================
