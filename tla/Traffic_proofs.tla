---------------------------- MODULE Traffic_proofs ----------------------------
(*****************************************************************************)
(* Proofs about what goes over links and what a node stores of it: frames    *)
(* put together again (FrameReassembly), fetches that are shared             *)
(* (FetchTable), queries over several nodes (PartQuery), routes over         *)
(* several hops (Overlay), envelopes on their way to listeners               *)
(* (EnvelopeDispatch), mails (MailboxRelay), chunks and the files that       *)
(* have them (ChunkStore), timelines with their order and JSONL files under  *)
(* their mutex (Timeline).                                                   *)
(*****************************************************************************)
EXTENDS FrameReassembly, FetchTable, PartQuery, Overlay, EnvelopeDispatch, MailboxRelay, ChunkStore,
  Timeline, DataLemmas, FiniteSetTheorems

-----------------------------------------------------------------------------
(* Frames. *)

\* What was delivered is remembered or was forgotten, and twice only if it was forgotten.
FramesInv ==
  /\ network \subseteq UNION {Frames(e) : e \in Envelopes}
  /\ completed \in Seq(Envelopes)
  /\ delivered \in [Envelopes -> Nat]
  /\ \A e \in Envelopes : delivered[e] > 0 => e \in Range(completed) \cup forgotten
  /\ DeliveredOnce

\* The id that is touched is remembered: there is room for one.
LEMMA TouchedEffect ==
  ASSUME completed \in Seq(Envelopes), NEW e \in Envelopes
  PROVE  Touched(e) \in Seq(Envelopes) /\ e \in Range(Touched(e))
<1> DEFINE all == Append(completed, e)
<1>1. /\ all \in Seq(Envelopes) /\ Len(all) = Len(completed) + 1 /\ Len(completed) \in Nat
      /\ all[Len(all)] = e /\ all # <<>>
  BY AppendProperties, LenProperties
<1> HIDE DEF all
<1>2. CASE Len(all) > MaxCompleted
  <2>1. /\ Tail(all) \in Seq(Envelopes) /\ Len(Tail(all)) = Len(all) - 1
        /\ \A i \in 1..Len(Tail(all)) : Tail(all)[i] = all[i + 1]
    BY <1>1, HeadTailProperties
  <2>2. Len(all) - 1 \in 1..Len(Tail(all)) /\ Tail(all)[Len(all) - 1] = e
    BY <1>1, <1>2, <2>1, FramesAssumption
  <2>3. e \in Range(Tail(all))
    BY <2>1, <2>2, LenProperties DEF Range
  <2> QED
    BY <1>2, <2>1, <2>3 DEF Touched, all
<1>3. CASE ~(Len(all) > MaxCompleted)
  <2>1. e \in Range(all)
    <3>1. DOMAIN all = 1..Len(all) /\ Len(all) \in 1..Len(all)
      BY <1>1, LenProperties
    <3> QED
      BY <1>1, <3>1 DEF Range
  <2> QED
    BY <1>1, <1>3, <2>1 DEF Touched, all
<1> QED
  BY <1>2, <1>3

LEMMA CompletesKeeps ==
  ASSUME FramesInv, NEW e \in Envelopes, Completes(e)
  PROVE  /\ completed' \in Seq(Envelopes) /\ delivered' \in [Envelopes -> Nat]
         /\ \A d \in Envelopes : delivered'[d] > 0 => d \in Range(completed') \cup forgotten'
         /\ DeliveredOnce'
<1> USE DEF FramesInv, DeliveredOnce
<1>1. CASE Contains(completed, e)
  BY <1>1 DEF Completes
<1>2. CASE ~Contains(completed, e)
  <2>1. /\ delivered' = [delivered EXCEPT ![e] = @ + 1] /\ completed' = Touched(e)
        /\ forgotten' = forgotten \cup (Range(completed) \ Range(completed'))
    BY <1>2 DEF Completes
  <2>2. e \notin Range(completed)
    <3>1. Range(completed) = {completed[i] : i \in 1..Len(completed)}
      BY RangeEquality
    <3> QED
      BY <1>2, <3>1 DEF Contains
  <2>3. completed' \in Seq(Envelopes) /\ e \in Range(completed')
    BY <2>1, TouchedEffect
  <2>4. \A d \in Envelopes : delivered'[d] = IF d = e THEN delivered[d] + 1 ELSE delivered[d]
    BY <2>1
  <2>5. \A d \in Envelopes : d \in Range(completed) => d \in Range(completed') \cup forgotten'
    BY <2>1
  <2> QED
    BY <2>1, <2>2, <2>3, <2>4, <2>5
<1> QED
  BY <1>1, <1>2

\* The inductive invariant of reassembly.
LEMMA FramesInvariant == SpecFrames => []FramesInv
<1>1. InitFrames => FramesInv
  BY DEF InitFrames, FramesInv, DeliveredOnce
<1>2. FramesInv /\ [NextFrames]_frameVars => FramesInv'
  <2> SUFFICES ASSUME FramesInv, [NextFrames]_frameVars PROVE FramesInv'
    OBVIOUS
  <2>1. ASSUME NEW e \in Envelopes, SendFrames(e) PROVE FramesInv'
    BY <2>1 DEF SendFrames, FramesInv, DeliveredOnce
  <2>2. ASSUME NEW f \in network, LoseFrame(f) PROVE FramesInv'
    BY <2>2 DEF LoseFrame, FramesInv, DeliveredOnce
  <2>3. ASSUME NEW f \in network, ReceiveFrame(f) PROVE FramesInv'
    <3>1. f.envelope \in Envelopes
      BY DEF FramesInv, Frames
    <3>2. /\ network' \subseteq network
          /\ forgotten \subseteq forgotten'
          /\ Completes(f.envelope) \/ UNCHANGED <<completed, delivered, forgotten>>
      BY <2>3 DEF ReceiveFrame, Completes
    <3> QED
      BY <3>1, <3>2, CompletesKeeps DEF FramesInv, DeliveredOnce
  <2>4. CASE UNCHANGED frameVars
    BY <2>4 DEF frameVars, FramesInv, DeliveredOnce
  <2> QED
    BY <2>1, <2>2, <2>3, <2>4 DEF NextFrames
<1> QED
  BY <1>1, <1>2, PTL DEF SpecFrames

\* For any envelopes and bounds: what is delivered twice was forgotten (pipe.mjs:251-253).
THEOREM FramesSound == SpecFrames => []DeliveredOnce
<1>1. FramesInv => DeliveredOnce
  BY DEF FramesInv
<1> QED
  BY <1>1, FramesInvariant, PTL

-----------------------------------------------------------------------------
(* Shared fetches. *)

Entry == [key : Keys, request : Fetches, aged : BOOLEAN]

\* No two entries have a key or a request in common.
Apart(t) == \A i, j \in DOMAIN t : t[i].key = t[j].key \/ t[i].request = t[j].request => i = j

\* Requests of entries were sent, and what finally still looks at was settled.
FetchInv ==
  /\ inflightTable \in Seq(Entry) /\ wait \in [Fetches -> {"unused", "pending", "answered", "timeout", "cancelled"}]
  /\ finally \subseteq Fetches
  /\ Apart(inflightTable)
  /\ \A i \in DOMAIN inflightTable : wait[inflightTable[i].request] # "unused"
  /\ \A f \in finally : wait[f] \notin {"unused", "pending"}
  /\ \A f \in Fetches : wait[f] = "pending" => f \in RequestsOf(inflightTable)

\* A sequence without the element at i.
LEMMA RemoveAtEffect ==
  ASSUME NEW S, NEW s \in Seq(S), NEW i \in 1..Len(s)
  PROVE  /\ RemoveAt(s, i) \in Seq(S) /\ Len(RemoveAt(s, i)) = Len(s) - 1
         /\ \A j \in 1..(Len(s) - 1) : RemoveAt(s, i)[j] = IF j < i THEN s[j] ELSE s[j + 1]
<1> DEFINE a == SubSeq(s, 1, i - 1)
<1> DEFINE b == SubSeq(s, i + 1, Len(s))
<1>1. Len(s) \in Nat /\ \A j \in 1..Len(s) : s[j] \in S
  BY LenProperties
<1>2. a \in Seq(S) /\ Len(a) = i - 1 /\ \A j \in 1..(i - 1) : a[j] = s[j]
  <2>1. \A j \in 1..(i - 1) : s[j] \in S
    BY <1>1
  <2>2. /\ a \in Seq(S) /\ Len(a) = IF 1 <= i - 1 THEN (i - 1) - 1 + 1 ELSE 0
        /\ \A j \in 1..((i - 1) - 1 + 1) : a[j] = s[1 + j - 1]
    BY <1>1, <2>1, SubSeqProperties
  <2> QED
    BY <1>1, <2>2
<1>3. b \in Seq(S) /\ Len(b) = Len(s) - i /\ \A j \in 1..(Len(s) - i) : b[j] = s[i + j]
  <2>1. \A j \in (i + 1)..Len(s) : s[j] \in S
    BY <1>1
  <2>2. /\ b \in Seq(S) /\ Len(b) = IF i + 1 <= Len(s) THEN Len(s) - (i + 1) + 1 ELSE 0
        /\ \A j \in 1..(Len(s) - (i + 1) + 1) : b[j] = s[(i + 1) + j - 1]
    BY <1>1, <2>1, SubSeqProperties
  <2> QED
    BY <1>1, <2>2
<1> HIDE DEF a, b
<1>4. RemoveAt(s, i) = a \o b
  BY DEF RemoveAt, a, b
<1>5. /\ a \o b \in Seq(S) /\ Len(a \o b) = Len(a) + Len(b)
      /\ \A j \in 1..(Len(a) + Len(b)) : (a \o b)[j] = IF j <= Len(a) THEN a[j] ELSE b[j - Len(a)]
  BY <1>2, <1>3, ConcatProperties
<1>6. ASSUME NEW j \in 1..(Len(s) - 1)
      PROVE  RemoveAt(s, i)[j] = IF j < i THEN s[j] ELSE s[j + 1]
  <2>1. j \in 1..(Len(a) + Len(b)) /\ Len(a) = i - 1
    BY <1>1, <1>2, <1>3
  <2>2. RemoveAt(s, i)[j] = IF j <= Len(a) THEN a[j] ELSE b[j - Len(a)]
    BY <2>1, <1>4, <1>5
  <2>3. CASE j < i
    BY <2>1, <2>2, <2>3, <1>2
  <2>4. CASE ~(j < i)
    <3>1. j - (i - 1) \in 1..(Len(s) - i) /\ i + (j - (i - 1)) = j + 1
      BY <1>1, <2>4
    <3>2. b[j - (i - 1)] = s[j + 1]
      BY <3>1, <1>3
    <3> QED
      BY <2>1, <2>2, <2>4, <3>2
  <2> QED
    BY <2>3, <2>4
<1> QED
  BY <1>1, <1>2, <1>3, <1>4, <1>5, <1>6

\* The rest of a sequence after the first n elements, and these.
LEMMA HeadsAndRest ==
  ASSUME NEW S, NEW s \in Seq(S), NEW n \in 0..Len(s)
  PROVE  /\ SubSeq(s, n + 1, Len(s)) \in Seq(S) /\ Len(SubSeq(s, n + 1, Len(s))) = Len(s) - n
         /\ \A j \in 1..(Len(s) - n) : SubSeq(s, n + 1, Len(s))[j] = s[n + j]
         /\ SubSeq(s, 1, n) \in Seq(S) /\ Len(SubSeq(s, 1, n)) = n
         /\ \A j \in 1..n : SubSeq(s, 1, n)[j] = s[j]
<1>1. Len(s) \in Nat /\ \A j \in 1..Len(s) : s[j] \in S
  BY LenProperties
<1>2. /\ SubSeq(s, n + 1, Len(s)) \in Seq(S) /\ Len(SubSeq(s, n + 1, Len(s))) = Len(s) - n
      /\ \A j \in 1..(Len(s) - n) : SubSeq(s, n + 1, Len(s))[j] = s[n + j]
  <2>1. \A j \in (n + 1)..Len(s) : s[j] \in S
    BY <1>1
  <2> DEFINE b == SubSeq(s, n + 1, Len(s))
  <2>2. /\ b \in Seq(S) /\ Len(b) = IF n + 1 <= Len(s) THEN Len(s) - (n + 1) + 1 ELSE 0
        /\ \A j \in 1..(Len(s) - (n + 1) + 1) : b[j] = s[(n + 1) + j - 1]
    BY <1>1, <2>1, SubSeqProperties
  <2> HIDE DEF b
  <2>3. b \in Seq(S) /\ Len(b) = Len(s) - n /\ \A j \in 1..(Len(s) - n) : b[j] = s[n + j]
    BY <1>1, <2>2
  <2> QED
    BY <2>3 DEF b
<1>3. /\ SubSeq(s, 1, n) \in Seq(S) /\ Len(SubSeq(s, 1, n)) = n
      /\ \A j \in 1..n : SubSeq(s, 1, n)[j] = s[j]
  <2>1. \A j \in 1..n : s[j] \in S
    BY <1>1
  <2> DEFINE a == SubSeq(s, 1, n)
  <2>2. /\ a \in Seq(S) /\ Len(a) = IF 1 <= n THEN n - 1 + 1 ELSE 0
        /\ \A j \in 1..(n - 1 + 1) : a[j] = s[1 + j - 1]
    BY <1>1, <2>1, SubSeqProperties
  <2> HIDE DEF a
  <2>3. a \in Seq(S) /\ Len(a) = n /\ \A j \in 1..n : a[j] = s[j]
    BY <1>1, <2>2
  <2> QED
    BY <2>3 DEF a
<1> QED
  BY <1>2, <1>3

LEMMA AgedHeadsBound ==
  ASSUME NEW t \in Seq(Entry)
  PROVE  AgedHeads(t) \in 0..Len(t)
<1> DEFINE aged == {n \in DOMAIN t : n <= Len(t) - MaxInflight + 1 /\ \A i \in 1..n : t[i].aged}
<1>1. Len(t) \in Nat /\ DOMAIN t = 1..Len(t)
  BY LenProperties
<1>2. IsFiniteSet(1..Len(t)) /\ Cardinality(1..Len(t)) = Len(t)
  BY <1>1, FS_Interval
<1>3. aged \in SUBSET (1..Len(t))
  BY <1>1
<1> HIDE DEF aged
<1>4. IsFiniteSet(aged) /\ Cardinality(aged) <= Len(t) /\ Cardinality(aged) \in Nat
  BY <1>2, <1>3, FS_Subset, FS_CardinalityType
<1> QED
  BY <1>1, <1>4 DEF AgedHeads, aged

LEMMA MinIsMember ==
  ASSUME NEW S, S \subseteq Fetches, S # {}
  PROVE  Min(S) \in S
<1>1. S \subseteq Nat
  BY FetchAssumption DEF Fetches
<1>2. \E n \in S : \A m \in S : n <= m
  BY <1>1, LeastNatural
<1> QED
  BY <1>2 DEF Min

\* The requests of a table are those of its first n entries and those of the rest, and these
\* stay apart.
LEMMA CutEffect ==
  ASSUME NEW t \in Seq(Entry), Apart(t), NEW n \in 0..Len(t)
  PROVE  LET rest == SubSeq(t, n + 1, Len(t))
             heads == SubSeq(t, 1, n)
         IN /\ rest \in Seq(Entry) /\ Apart(rest)
            /\ RequestsOf(t) = RequestsOf(heads) \cup RequestsOf(rest)
            /\ RequestsOf(heads) \cap RequestsOf(rest) = {}
            /\ \A i \in DOMAIN rest : \E j \in DOMAIN t : rest[i] = t[j]
<1> DEFINE rest == SubSeq(t, n + 1, Len(t))
<1> DEFINE heads == SubSeq(t, 1, n)
<1>1. /\ rest \in Seq(Entry) /\ Len(rest) = Len(t) - n
      /\ \A j \in 1..(Len(t) - n) : rest[j] = t[n + j]
      /\ heads \in Seq(Entry) /\ Len(heads) = n
      /\ \A j \in 1..n : heads[j] = t[j]
  BY HeadsAndRest
<1> HIDE DEF rest, heads
<1>2. /\ Len(t) \in Nat /\ DOMAIN t = 1..Len(t)
      /\ DOMAIN rest = 1..(Len(t) - n) /\ DOMAIN heads = 1..n
  BY <1>1, LenProperties
<1>3. \A j \in 1..(Len(t) - n) : n + j \in 1..Len(t)
  BY <1>2
<1>4. Apart(rest)
  <2> SUFFICES ASSUME NEW i \in 1..(Len(t) - n), NEW j \in 1..(Len(t) - n),
                      rest[i].key = rest[j].key \/ rest[i].request = rest[j].request
               PROVE  i = j
    BY <1>2 DEF Apart
  <2>1. n + i \in DOMAIN t /\ n + j \in DOMAIN t /\ rest[i] = t[n + i] /\ rest[j] = t[n + j]
    BY <1>1, <1>2, <1>3
  <2>2. n + i = n + j
    BY <2>1 DEF Apart
  <2> QED
    BY <1>2, <2>2
<1>5. RequestsOf(t) = RequestsOf(heads) \cup RequestsOf(rest)
  <2>1. ASSUME NEW i \in 1..Len(t)
        PROVE  t[i].request \in RequestsOf(heads) \cup RequestsOf(rest)
    <3>1. CASE i <= n
      <4>1. i \in DOMAIN heads /\ heads[i] = t[i]
        BY <1>1, <1>2, <3>1
      <4> QED
        BY <4>1 DEF RequestsOf
    <3>2. CASE i > n
      <4>1. i - n \in DOMAIN rest /\ rest[i - n] = t[i]
        BY <1>1, <1>2, <3>2
      <4> QED
        BY <4>1 DEF RequestsOf
    <3> QED
      BY <1>2, <3>1, <3>2
  <2>2. ASSUME NEW i \in DOMAIN heads PROVE heads[i].request \in RequestsOf(t)
    BY <1>1, <1>2 DEF RequestsOf
  <2>3. ASSUME NEW i \in DOMAIN rest PROVE rest[i].request \in RequestsOf(t)
    BY <1>1, <1>2, <1>3 DEF RequestsOf
  <2> QED
    BY <1>2, <2>1, <2>2, <2>3 DEF RequestsOf
<1>6. RequestsOf(heads) \cap RequestsOf(rest) = {}
  <2> SUFFICES ASSUME NEW i \in 1..n, NEW j \in 1..(Len(t) - n), heads[i].request = rest[j].request
               PROVE  FALSE
    BY <1>2 DEF RequestsOf
  <2>1. t[i].request = t[n + j].request /\ i \in 1..Len(t) /\ n + j \in 1..Len(t)
    BY <1>1, <1>2
  <2> QED
    BY <1>2, <2>1 DEF Apart
<1>7. \A i \in DOMAIN rest : \E j \in DOMAIN t : rest[i] = t[j]
  BY <1>1, <1>2, <1>3
<1> QED
  BY <1>1, <1>4, <1>5, <1>6, <1>7 DEF rest, heads

\* A table without one entry, and with one more.
LEMMA RemovedEffect ==
  ASSUME NEW t \in Seq(Entry), Apart(t), NEW i \in DOMAIN t
  PROVE  LET left == RemoveAt(t, i)
         IN /\ left \in Seq(Entry) /\ Apart(left)
            /\ RequestsOf(t) = RequestsOf(left) \cup {t[i].request}
            /\ \A j \in DOMAIN left : /\ left[j].key # t[i].key /\ left[j].request # t[i].request
                                      /\ \E m \in DOMAIN t : left[j] = t[m]
<1> DEFINE left == RemoveAt(t, i)
<1>1. Len(t) \in Nat /\ DOMAIN t = 1..Len(t) /\ i \in 1..Len(t)
  BY LenProperties
<1>2. /\ left \in Seq(Entry) /\ Len(left) = Len(t) - 1
      /\ \A j \in 1..(Len(t) - 1) : left[j] = IF j < i THEN t[j] ELSE t[j + 1]
  BY <1>1, RemoveAtEffect
<1> HIDE DEF left
<1>3. DOMAIN left = 1..(Len(t) - 1)
  BY <1>2, LenProperties
<1> DEFINE at(j) == IF j < i THEN j ELSE j + 1
<1>4. /\ \A j \in 1..(Len(t) - 1) : at(j) \in 1..Len(t) /\ at(j) # i
      /\ \A j, m \in 1..(Len(t) - 1) : at(j) = at(m) => j = m
      /\ \A m \in 1..Len(t) : m # i => \E j \in 1..(Len(t) - 1) : at(j) = m
  <2>1. ASSUME NEW m \in 1..Len(t), m # i
        PROVE  \E j \in 1..(Len(t) - 1) : at(j) = m
    <3>1. CASE m < i
      <4>1. m \in 1..(Len(t) - 1) /\ at(m) = m
        BY <1>1, <3>1
      <4> QED
        BY <4>1
    <3>2. CASE m > i
      <4>1. m - 1 \in 1..(Len(t) - 1) /\ at(m - 1) = m
        BY <1>1, <3>2
      <4> QED
        BY <4>1
    <3> QED
      BY <1>1, <2>1, <3>1, <3>2
  <2>2. \A j \in 1..(Len(t) - 1) : at(j) \in 1..Len(t) /\ at(j) # i
    BY <1>1
  <2>3. \A j, m \in 1..(Len(t) - 1) : at(j) = at(m) => j = m
    BY <1>1
  <2> QED
    BY <2>1, <2>2, <2>3
<1>5. \A j \in 1..(Len(t) - 1) : left[j] = t[at(j)]
  BY <1>2
<1> HIDE DEF at
<1>6. Apart(left)
  <2> SUFFICES ASSUME NEW j \in 1..(Len(t) - 1), NEW m \in 1..(Len(t) - 1),
                      left[j].key = left[m].key \/ left[j].request = left[m].request
               PROVE  j = m
    BY <1>3 DEF Apart
  <2>1. at(j) \in DOMAIN t /\ at(m) \in DOMAIN t /\ left[j] = t[at(j)] /\ left[m] = t[at(m)]
    BY <1>1, <1>4, <1>5
  <2>2. at(j) = at(m)
    BY <2>1 DEF Apart
  <2> QED
    BY <2>2, <1>4
<1>7. \A j \in DOMAIN left : /\ left[j].key # t[i].key /\ left[j].request # t[i].request
                             /\ \E m \in DOMAIN t : left[j] = t[m]
  BY <1>1, <1>3, <1>4, <1>5 DEF Apart
<1>8. RequestsOf(t) = RequestsOf(left) \cup {t[i].request}
  <2>1. ASSUME NEW m \in 1..Len(t) PROVE t[m].request \in RequestsOf(left) \cup {t[i].request}
    <3>1. CASE m # i
      <4>1. PICK j \in 1..(Len(t) - 1) : at(j) = m
        BY <3>1, <1>4
      <4> QED
        BY <4>1, <1>3, <1>5 DEF RequestsOf
    <3> QED
      BY <3>1
  <2>2. ASSUME NEW j \in DOMAIN left PROVE left[j].request \in RequestsOf(t)
    BY <1>7 DEF RequestsOf
  <2>3. t[i].request \in RequestsOf(t)
    BY DEF RequestsOf
  <2> QED
    BY <1>1, <2>1, <2>2, <2>3 DEF RequestsOf
<1> QED
  BY <1>2, <1>6, <1>7, <1>8 DEF left

LEMMA AddedEffect ==
  ASSUME NEW t \in Seq(Entry), Apart(t), NEW e \in Entry,
         \A i \in DOMAIN t : t[i].key # e.key /\ t[i].request # e.request
  PROVE  /\ Append(t, e) \in Seq(Entry) /\ Apart(Append(t, e))
         /\ RequestsOf(Append(t, e)) = RequestsOf(t) \cup {e.request}
<1> DEFINE more == Append(t, e)
<1>1. /\ more \in Seq(Entry) /\ Len(more) = Len(t) + 1 /\ Len(t) \in Nat
      /\ \A i \in 1..Len(t) : more[i] = t[i]
      /\ more[Len(t) + 1] = e
  BY AppendProperties, LenProperties
<1> HIDE DEF more
<1>2. DOMAIN t = 1..Len(t) /\ DOMAIN more = 1..(Len(t) + 1)
  BY <1>1, LenProperties
<1>3. \A i \in 1..(Len(t) + 1) : i \in 1..Len(t) \/ i = Len(t) + 1
  BY <1>1
<1>4. Apart(more)
  <2> SUFFICES ASSUME NEW i \in 1..(Len(t) + 1), NEW j \in 1..(Len(t) + 1),
                      more[i].key = more[j].key \/ more[i].request = more[j].request
               PROVE  i = j
    BY <1>2 DEF Apart
  <2>1. CASE i \in 1..Len(t) /\ j \in 1..Len(t)
    BY <2>1, <1>1, <1>2 DEF Apart
  <2> QED
    BY <2>1, <1>1, <1>2, <1>3
<1>5. RequestsOf(more) = RequestsOf(t) \cup {e.request}
  BY <1>1, <1>2, <1>3 DEF RequestsOf
<1> QED
  BY <1>1, <1>4, <1>5 DEF more

LEMMA RequestsWereSent ==
  ASSUME FetchInv
  PROVE  \A r \in RequestsOf(inflightTable) : r \in Fetches /\ wait[r] # "unused"
<1> SUFFICES ASSUME NEW i \in DOMAIN inflightTable
             PROVE  inflightTable[i].request \in Fetches /\ wait[inflightTable[i].request] # "unused"
  BY DEF RequestsOf
<1>1. inflightTable[i] \in Entry
  BY LenProperties DEF FetchInv
<1> QED
  BY <1>1 DEF FetchInv, Entry

LEMMA ReuseKeeps ==
  ASSUME FetchInv, NEW c \in Fetchers, NEW k \in Keys, Reuse(c, k)
  PROVE  FetchInv'
<1> USE DEF FetchInv
<1> DEFINE at == CHOOSE i \in DOMAIN inflightTable : inflightTable[i].key = k
<1> DEFINE entry == inflightTable[at]
<1> DEFINE left == RemoveAt(inflightTable, at)
<1> DEFINE moved == Append(left, entry)
<1> DEFINE past == AgedHeads(moved)
<1> DEFINE heads == SubSeq(moved, 1, past)
<1>1. /\ at \in DOMAIN inflightTable
      /\ inflightTable' = SubSeq(moved, past + 1, Len(moved))
      /\ Settles(RequestsOf(heads), "cancelled")
  BY DEF Reuse
<1>2. entry \in Entry
  BY <1>1, LenProperties
<1> HIDE DEF at
<1>3. /\ left \in Seq(Entry) /\ Apart(left)
      /\ RequestsOf(inflightTable) = RequestsOf(left) \cup {entry.request}
      /\ \A j \in DOMAIN left : left[j].key # entry.key /\ left[j].request # entry.request
  BY <1>1, RemovedEffect
<1> HIDE DEF entry, left
<1>4. moved \in Seq(Entry) /\ Apart(moved) /\ RequestsOf(moved) = RequestsOf(inflightTable)
  BY <1>2, <1>3, AddedEffect
<1> HIDE DEF moved
<1>5. past \in 0..Len(moved)
  BY <1>4, AgedHeadsBound
<1> HIDE DEF past
<1>6. /\ inflightTable' \in Seq(Entry) /\ Apart(inflightTable')
      /\ RequestsOf(inflightTable) = RequestsOf(heads) \cup RequestsOf(inflightTable')
      /\ RequestsOf(heads) \cap RequestsOf(inflightTable') = {}
  BY <1>1, <1>4, <1>5, CutEffect
<1> HIDE DEF heads
<1>7. \A r \in RequestsOf(inflightTable) : r \in Fetches /\ wait[r] # "unused"
  BY RequestsWereSent
<1> DEFINE due == {f \in RequestsOf(heads) : wait[f] = "pending"}
<1>8. /\ wait' = [f \in Fetches |-> IF f \in due THEN "cancelled" ELSE wait[f]]
      /\ finally' = finally \cup due
  BY <1>1 DEF Settles
<1>9. \A i \in DOMAIN inflightTable' : inflightTable'[i].request \in RequestsOf(inflightTable')
  BY DEF RequestsOf
<1>10. wait' \in [Fetches -> {"unused", "pending", "answered", "timeout", "cancelled"}]
  BY <1>8
<1>11. finally' \subseteq Fetches /\ \A f \in finally' : wait'[f] \notin {"unused", "pending"}
  BY <1>6, <1>7, <1>8
<1>12. \A f \in Fetches : wait'[f] = "pending" => f \in RequestsOf(inflightTable')
  BY <1>6, <1>8
<1>13. \A i \in DOMAIN inflightTable' : wait'[inflightTable'[i].request] # "unused"
  BY <1>6, <1>7, <1>8, <1>9
<1> QED
  BY <1>6, <1>10, <1>11, <1>12, <1>13

LEMMA BeginKeeps ==
  ASSUME FetchInv, NEW c \in Fetchers, NEW k \in Keys, Begin(c, k)
  PROVE  FetchInv'
<1> USE DEF FetchInv
<1> DEFINE past == AgedHeads(inflightTable)
<1> DEFINE left == SubSeq(inflightTable, past + 1, Len(inflightTable))
<1> DEFINE heads == SubSeq(inflightTable, 1, past)
<1> DEFINE ended == RequestsOf(heads) \cap {f \in Fetches : wait[f] = "pending"}
<1> DEFINE free == {f \in Fetches : wait[f] = "unused"}
<1> DEFINE new == Min(free)
<1> DEFINE begins == Len(left) < MaxInflight
<1> DEFINE e == [key |-> k, request |-> new, aged |-> FALSE]
<1>1. /\ \A i \in DOMAIN inflightTable : inflightTable[i].key # k
      /\ begins => free # {}
      /\ inflightTable' = IF begins THEN Append(left, e) ELSE left
      /\ wait' = [f \in Fetches |-> IF f \in ended THEN "cancelled"
                                    ELSE IF begins /\ f = new THEN "pending" ELSE wait[f]]
      /\ finally' = finally \cup ended
  BY DEF Begin
<1>2. past \in 0..Len(inflightTable)
  BY AgedHeadsBound
<1> HIDE DEF past
<1>3. /\ left \in Seq(Entry) /\ Apart(left)
      /\ RequestsOf(inflightTable) = RequestsOf(heads) \cup RequestsOf(left)
      /\ RequestsOf(heads) \cap RequestsOf(left) = {}
      /\ \A i \in DOMAIN left : \E j \in DOMAIN inflightTable : left[i] = inflightTable[j]
  <2>1. inflightTable \in Seq(Entry) /\ Apart(inflightTable)
    OBVIOUS
  <2> HIDE DEF FetchInv
  <2> QED
    BY <1>2, <2>1, CutEffect
<1>4. \A r \in RequestsOf(inflightTable) : r \in Fetches /\ wait[r] # "unused"
  BY RequestsWereSent
<1>5. begins => new \in Fetches /\ wait[new] = "unused"
  <2> HIDE DEF begins
  <2>1. ASSUME begins PROVE new \in free
    BY <1>1, <2>1, MinIsMember
  <2> QED
    BY <2>1
<1> HIDE DEF left, heads, new, begins
<1>6. \A i \in DOMAIN left : left[i].request \in RequestsOf(left) /\ left[i].key # k
  BY <1>1, <1>3 DEF RequestsOf
<1>7. begins => /\ inflightTable' \in Seq(Entry) /\ Apart(inflightTable')
                /\ RequestsOf(inflightTable') = RequestsOf(left) \cup {new}
  <2> SUFFICES ASSUME begins PROVE /\ inflightTable' \in Seq(Entry) /\ Apart(inflightTable')
                                   /\ RequestsOf(inflightTable') = RequestsOf(left) \cup {new}
    OBVIOUS
  <2>1. e \in Entry /\ e.key = k /\ e.request = new
    BY <1>5 DEF Entry
  <2> HIDE DEF e
  <2>2. \A i \in DOMAIN left : left[i].key # e.key /\ left[i].request # e.request
    BY <1>3, <1>4, <1>5, <1>6, <2>1
  <2> QED
    BY <1>1, <1>3, <2>1, <2>2, AddedEffect
<1>8. ~begins => inflightTable' = left
  BY <1>1
<1>9. \A i \in DOMAIN inflightTable' : inflightTable'[i].request \in RequestsOf(inflightTable')
  BY DEF RequestsOf
<1>10. wait' \in [Fetches -> {"unused", "pending", "answered", "timeout", "cancelled"}]
  BY <1>1
<1>11. finally' \subseteq Fetches /\ \A f \in finally' : wait'[f] \notin {"unused", "pending"}
  <2>1. ended \subseteq Fetches /\ finally' = finally \cup ended
    BY <1>1
  <2>2. \A f \in ended : wait'[f] = "cancelled"
    BY <1>1
  <2>3. \A f \in finally : f \notin ended => wait'[f] = wait[f]
    BY <1>1, <1>5
  <2> QED
    BY <2>1, <2>2, <2>3
<1>12. \A f \in Fetches : wait'[f] = "pending" => f \in RequestsOf(inflightTable')
  <2> SUFFICES ASSUME NEW f \in Fetches, wait'[f] = "pending" PROVE f \in RequestsOf(inflightTable')
    OBVIOUS
  <2>1. f \notin ended /\ (wait[f] = "pending" \/ (begins /\ f = new))
    BY <1>1
  <2>2. CASE wait[f] = "pending"
    BY <2>1, <2>2, <1>3, <1>7, <1>8
  <2>3. CASE begins /\ f = new
    BY <2>3, <1>7
  <2> QED
    BY <2>1, <2>2, <2>3
<1>13. \A r \in RequestsOf(inflightTable') : wait'[r] # "unused"
  <2> SUFFICES ASSUME NEW r \in RequestsOf(inflightTable') PROVE wait'[r] # "unused"
    OBVIOUS
  <2>1. r \in RequestsOf(left) \/ (begins /\ r = new)
    BY <1>7, <1>8
  <2> QED
    BY <2>1, <1>1, <1>3, <1>4, <1>5
<1> QED
  BY <1>3, <1>7, <1>8, <1>9, <1>10, <1>11, <1>12, <1>13

\* A pending request is settled.
LEMMA SettledKeeps ==
  ASSUME FetchInv, NEW f \in Fetches, wait[f] = "pending",
         NEW how \in {"answered", "timeout"}, Settles({f}, how), UNCHANGED <<inflightTable, fetcher>>
  PROVE  FetchInv'
<1> USE DEF FetchInv
<1>1. finally' = finally \cup {f} /\ wait' = [wait EXCEPT ![f] = how]
  BY DEF Settles
<1> QED
  BY <1>1 DEF Apart, RequestsOf

LEMMA FinallyKeeps ==
  ASSUME FetchInv, NEW f \in Fetches, Finally(f)
  PROVE  FetchInv'
<1> USE DEF FetchInv
<1>1. /\ f \in finally /\ finally' = finally \ {f} /\ UNCHANGED wait
      /\ inflightTable' = IF EntriesToDrop(f) = {} THEN inflightTable
                          ELSE RemoveAt(inflightTable, CHOOSE i \in EntriesToDrop(f) : TRUE)
  BY DEF Finally
<1>2. CASE EntriesToDrop(f) = {}
  BY <1>1, <1>2 DEF Apart, RequestsOf
<1>3. CASE EntriesToDrop(f) # {}
  <2> DEFINE i == CHOOSE m \in EntriesToDrop(f) : TRUE
  <2>1. i \in DOMAIN inflightTable /\ inflightTable[i].request = f /\ inflightTable' = RemoveAt(inflightTable, i)
    BY <1>1, <1>3 DEF EntriesToDrop, EntryOfRequest
  <2> HIDE DEF i
  <2>2. /\ inflightTable' \in Seq(Entry) /\ Apart(inflightTable')
        /\ RequestsOf(inflightTable) = RequestsOf(inflightTable') \cup {f}
        /\ \A j \in DOMAIN inflightTable' : \E m \in DOMAIN inflightTable : inflightTable'[j] = inflightTable[m]
    BY <2>1, RemovedEffect
  <2> QED
    BY <1>1, <2>2
<1> QED
  BY <1>2, <1>3

LEMMA EntryAgesKeeps ==
  ASSUME FetchInv, NEW i \in DOMAIN inflightTable, EntryAges(i)
  PROVE  FetchInv'
<1> USE DEF FetchInv
<1> DEFINE old == [inflightTable[i] EXCEPT !.aged = TRUE]
<1>1. inflightTable' = [inflightTable EXCEPT ![i] = old] /\ UNCHANGED <<wait, finally>>
  BY DEF EntryAges
<1>2. inflightTable[i] \in Entry
  BY LenProperties
<1>3. old \in Entry /\ old.key = inflightTable[i].key /\ old.request = inflightTable[i].request
  BY <1>2 DEF Entry
<1> HIDE DEF old
<1>4. /\ inflightTable' \in Seq(Entry) /\ DOMAIN inflightTable' = DOMAIN inflightTable
      /\ \A j \in DOMAIN inflightTable : /\ inflightTable'[j].key = inflightTable[j].key
                                         /\ inflightTable'[j].request = inflightTable[j].request
  BY <1>1, <1>3, ExceptSeq, LenProperties
<1>5. RequestsOf(inflightTable') = RequestsOf(inflightTable)
  BY <1>4 DEF RequestsOf
<1> QED
  BY <1>1, <1>4, <1>5 DEF Apart

\* The inductive invariant of fetches.
LEMMA FetchInvariant == SpecFetch => []FetchInv
<1>1. InitFetch => FetchInv
  BY EmptySeq DEF InitFetch, FetchInv, Apart, RequestsOf
<1>2. FetchInv /\ [NextFetch]_fetchVars => FetchInv'
  <2> SUFFICES ASSUME FetchInv, [NextFetch]_fetchVars PROVE FetchInv'
    OBVIOUS
  <2>1. ASSUME NEW c \in Fetchers, FetchReturns(c) PROVE FetchInv'
    BY <2>1 DEF FetchReturns, FetchInv, Apart, RequestsOf
  <2>2. ASSUME NEW c \in Fetchers, NEW k \in Keys, Acquire(c, k) PROVE FetchInv'
    BY <2>2, ReuseKeeps, BeginKeeps DEF Acquire
  <2>3. ASSUME NEW f \in Fetches, Answer(f) \/ WaitTimeout(f) PROVE FetchInv'
    BY <2>3, SettledKeeps DEF Answer, WaitTimeout
  <2>4. ASSUME NEW i, EntryAges(i) PROVE FetchInv'
    BY <2>4, EntryAgesKeeps DEF EntryAges
  <2>5. CASE UNCHANGED fetchVars
    BY <2>5 DEF fetchVars, FetchInv, Apart, RequestsOf
  <2> QED
    BY <2>1, <2>2, <2>3, <2>4, <2>5, FinallyKeeps DEF NextFetch
<1> QED
  BY <1>1, <1>2, PTL DEF SpecFetch

\* For any keys, callers and bounds: no key is fetched twice at a time, and what is pending
\* is in the table (inflight_table.mjs:26-47, 65-85).
THEOREM FetchSound == SpecFetch => []OneFetchPerKey
<1>1. FetchInv => OneFetchPerKey
  BY DEF FetchInv, OneFetchPerKey, Apart, RequestsOf, EntryOfRequest
<1> QED
  BY <1>1, FetchInvariant, PTL

-----------------------------------------------------------------------------
(* Federated queries. *)

Part == [at : {"no", "asks", "waits", "broken", "over"}, ttl : Int, up : Nodes, left : SUBSET Nodes,
         asked : SUBSET Nodes, got : SUBSET Nodes, rows : SUBSET Holders, ended : {"no", "count", "broken", "timer"}]

QueryWire == [q : Queries, kind : {"req", "res"}, from : Nodes, to : Nodes, ttl : Int,
              rows : SUBSET Holders]

\* What one node does about one request: it hears of none it has not asked.
PartFits(p) ==
  /\ p \in Part
  /\ IsFiniteSet(p.asked) /\ p.got \subseteq p.asked
  /\ Origin \notin p.left
  /\ p.at = "no" => p.asked = {} /\ p.left = {}
  /\ p.at = "waits" => p.left = {}
  /\ p.ended = "count" => p.at = "over" /\ p.left = {} /\ p.asked \subseteq p.got

\* A node that knows a request was asked by its up.
WasAsked(pa, q, n) == n # Origin /\ pa[q][n].at # "no" => n \in pa[q][pa[q][n].up].asked

\* A request was sent by one who counts it, an answer comes from one who was asked.
WireFits(pa, w) ==
  /\ w \in QueryWire
  /\ w.kind = "req" => w.to # Origin /\ w.to \in pa[w.q][w.from].asked
  /\ w.kind = "res" => w.from \in pa[w.q][w.to].asked

QueryInv ==
  /\ part \in [Queries -> [Nodes -> Part]]
  /\ cached \in [Nodes -> SUBSET Holders]
  /\ \A q \in Queries, n \in Nodes : PartFits(part[q][n]) /\ WasAsked(part, q, n)
  /\ \A w \in wires : WireFits(part, w)

LEMMA IdleFits == PartFits(Idle) /\ Idle.asked = {} /\ Idle.at = "no"
BY QueryAssumption, FS_EmptySet DEF Idle, PartFits, Part

\* One node's part changes; it forgets nobody it asked.
LEMMA PartBecomes ==
  ASSUME QueryInv, NEW q \in Queries, NEW n \in Nodes, NEW p, PartFits(p), Becomes(q, n, p),
         part[q][n].asked \subseteq p.asked,
         n # Origin /\ p.at # "no" => n \in part[q][p.up].asked
  PROVE  /\ part' \in [Queries -> [Nodes -> Part]]
         /\ \A o \in Queries, m \in Nodes : PartFits(part'[o][m]) /\ WasAsked(part', o, m)
         /\ part'[q][n] = p
         /\ \A w \in wires : WireFits(part', w)
<1>1. /\ part \in [Queries -> [Nodes -> Part]] /\ p \in Part
      /\ part' = [part EXCEPT ![q][n] = p]
  BY DEF QueryInv, PartFits, Becomes
<1>2. part' \in [Queries -> [Nodes -> Part]]
  BY <1>1
<1>3. part'[q][n] = p
  BY <1>1
<1>4. \A o \in Queries, m \in Nodes : o # q \/ m # n => part'[o][m] = part[o][m]
  BY <1>1
<1>5. \A o \in Queries, m \in Nodes : part[o][m].asked \subseteq part'[o][m].asked
  BY <1>3, <1>4
<1>6. ASSUME NEW o \in Queries, NEW m \in Nodes
      PROVE  PartFits(part'[o][m]) /\ WasAsked(part', o, m)
  <2>1. PartFits(part[o][m]) /\ WasAsked(part, o, m) /\ part[o][m].up \in Nodes
    BY <1>1 DEF QueryInv, Part
  <2>2. p.up \in Nodes
    BY <1>1 DEF Part
  <2>3. CASE o = q /\ m = n
    BY <2>2, <2>3, <1>3, <1>5 DEF WasAsked
  <2>4. CASE o # q \/ m # n
    BY <2>1, <2>4, <1>4, <1>5 DEF WasAsked
  <2> QED
    BY <2>3, <2>4
<1>7. ASSUME NEW w \in wires PROVE WireFits(part', w)
  <2>1. WireFits(part, w) /\ w.q \in Queries /\ w.from \in Nodes /\ w.to \in Nodes
    BY DEF QueryInv, WireFits, QueryWire
  <2> QED
    BY <2>1, <1>5 DEF WireFits
<1> QED
  BY <1>2, <1>3, <1>6, <1>7

LEMMA CachesTyped ==
  ASSUME cached \in [Nodes -> SUBSET Holders], NEW n \in Nodes, NEW r \in SUBSET Holders, Caches(n, r)
  PROVE  cached' \in [Nodes -> SUBSET Holders]
BY DEF Caches

\* A node's answer goes to who asked it.
LEMMA AnswerFits ==
  ASSUME QueryInv, NEW q \in Queries, NEW n \in Nodes, NEW p, p \in Part,
         part' \in [Queries -> [Nodes -> Part]], WasAsked(part', q, n), part'[q][n] = p, p.at # "no"
  PROVE  \A w \in Answers(q, n, p) : WireFits(part', w)
<1> SUFFICES ASSUME NEW w \in Answers(q, n, p) PROVE WireFits(part', w)
  OBVIOUS
<1>1. n # Origin /\ w = Response(q, n, p.up, p.rows)
  BY DEF Answers
<1>2. p.up \in Nodes /\ p.rows \in SUBSET Holders
  BY DEF Part
<1>3. n \in part'[q][p.up].asked
  BY <1>1 DEF WasAsked
<1> QED
  BY <1>1, <1>2, <1>3 DEF Response, WireFits, QueryWire

LEMMA AskInv ==
  ASSUME QueryInv, NEW q \in Queries, Ask(q)
  PROVE  QueryInv'
<1> DEFINE p == IF cached[Origin] # {}
                THEN [Idle EXCEPT !.at = "over", !.rows = cached[Origin]]
                ELSE [Idle EXCEPT !.at = "asks", !.ttl = Ttl + 1, !.rows = Own(Origin),
                                  !.left = Neighbours(Origin, {Origin})]
<1>1. Becomes(q, Origin, p) /\ UNCHANGED <<wires, cached>> /\ part[q][Origin].at = "no" /\ Origin \in Nodes
  BY QueryAssumption DEF Ask
<1>2. PartFits(p)
  <2>1. cached[Origin] \in SUBSET Holders
    BY <1>1 DEF QueryInv
  <2>2. Neighbours(Origin, {Origin}) \in SUBSET Nodes /\ Origin \notin Neighbours(Origin, {Origin})
    BY DEF Neighbours
  <2>3. Own(Origin) \in SUBSET Holders /\ Ttl + 1 \in Int
    BY QueryAssumption DEF Own
  <2>4. CASE cached[Origin] # {}
    <3>1. p = [Idle EXCEPT !.at = "over", !.rows = cached[Origin]]
      BY <2>4
    <3> HIDE DEF p
    <3>2. p \in Part /\ p.asked = {} /\ p.got = {} /\ p.ended = "no" /\ Origin \notin p.left /\ p.at \in {"over", "asks"}
      <4> DEFINE kept == cached[Origin]
      <4> HIDE DEF kept
      <4>1. p = [at |-> "over", ttl |-> 0, up |-> Origin, left |-> {}, asked |-> {}, got |-> {},
                 rows |-> kept, ended |-> "no"]
        BY <3>1 DEF Idle, kept
      <4>2. kept \in SUBSET Holders
        BY <2>1 DEF kept
      <4> QED
        BY <4>1, <4>2, <1>1 DEF Part
    <3> QED
      BY <3>2, FS_EmptySet DEF PartFits
  <2>5. CASE cached[Origin] = {}
    <3>1. p = [Idle EXCEPT !.at = "asks", !.ttl = Ttl + 1, !.rows = Own(Origin),
                           !.left = Neighbours(Origin, {Origin})]
      BY <2>5
    <3> HIDE DEF p
    <3>2. p \in Part /\ p.asked = {} /\ p.got = {} /\ p.ended = "no" /\ Origin \notin p.left /\ p.at \in {"over", "asks"}
      <4> DEFINE own == Own(Origin)
                 left == Neighbours(Origin, {Origin})
                 ttl == Ttl + 1
      <4>1. own \in SUBSET Holders /\ left \in SUBSET Nodes /\ Origin \notin left /\ ttl \in Int
        BY <2>2, <2>3
      <4> HIDE DEF own, left, ttl
      <4>2. p = [at |-> "asks", ttl |-> ttl, up |-> Origin, left |-> left, asked |-> {}, got |-> {},
                 rows |-> own, ended |-> "no"]
        BY <3>1 DEF Idle, own, left, ttl
      <4> QED
        BY <4>1, <4>2, <1>1 DEF Part
    <3> QED
      BY <3>2, FS_EmptySet DEF PartFits
  <2> QED
    BY <2>4, <2>5
<1>3. part[q][Origin].asked = {}
  BY <1>1 DEF QueryInv, PartFits
<1> HIDE DEF p
<1>4. /\ part' \in [Queries -> [Nodes -> Part]]
      /\ \A o \in Queries, m \in Nodes : PartFits(part'[o][m]) /\ WasAsked(part', o, m)
      /\ \A w \in wires : WireFits(part', w)
  BY <1>1, <1>2, <1>3, PartBecomes
<1> QED
  BY <1>1, <1>4 DEF QueryInv

LEMMA ForwardInv ==
  ASSUME QueryInv, NEW q \in Queries, NEW n \in Nodes, NEW m \in Nodes, NEW goes \in BOOLEAN,
         Forward(q, n, m, goes)
  PROVE  QueryInv'
<1> DEFINE o == part[q][n]
           p == [o EXCEPT !.left = @ \ {m}, !.asked = IF goes THEN @ \cup {m} ELSE @]
           w0 == Request(q, n, m, o.ttl - 1)
<1>1. /\ m \in o.left /\ Becomes(q, n, p) /\ cached' = cached
      /\ wires' = IF goes THEN wires \cup {w0} ELSE wires
  BY DEF Forward
<1>2. PartFits(o) /\ WasAsked(part, q, n) /\ o \in Part
  BY DEF QueryInv, PartFits
<1> HIDE DEF o
<1>3. p \in Part
  BY <1>2 DEF Part
<1>4. /\ p.left = o.left \ {m} /\ p.asked = IF goes THEN o.asked \cup {m} ELSE o.asked
      /\ p.got = o.got /\ p.at = o.at /\ p.up = o.up /\ p.ended = o.ended /\ p.ttl = o.ttl
  BY <1>2 DEF Part
<1>5. IsFiniteSet(o.asked) /\ IsFiniteSet(o.asked \cup {m})
  BY <1>2, FS_AddElement DEF PartFits
<1> HIDE DEF p
<1>6. PartFits(p)
  <2>1. o.at \notin {"no", "waits"} /\ o.ended # "count"
    BY <1>1, <1>2 DEF PartFits
  <2> QED
    BY <2>1, <1>1, <1>2, <1>3, <1>4, <1>5 DEF PartFits
<1>7. n # Origin /\ p.at # "no" => n \in part[q][p.up].asked
  BY <1>2, <1>4 DEF WasAsked, o
<1>8. o.asked \subseteq p.asked
  BY <1>4
<1>9. /\ part' \in [Queries -> [Nodes -> Part]]
      /\ \A k \in Queries, l \in Nodes : PartFits(part'[k][l]) /\ WasAsked(part', k, l)
      /\ part'[q][n] = p
      /\ \A w \in wires : WireFits(part', w)
  BY <1>1, <1>6, <1>7, <1>8, PartBecomes DEF o
<1>10. goes => WireFits(part', w0)
  <2>1. m # Origin /\ o.ttl - 1 \in Int
    BY <1>1, <1>2 DEF PartFits, Part
  <2> QED
    BY <2>1, <1>4, <1>9 DEF Request, WireFits, QueryWire
<1> QED
  BY <1>1, <1>9, <1>10 DEF QueryInv

\* The end of a node's part keeps whom it asked.
LEMMA FlushesInv ==
  ASSUME QueryInv, NEW q \in Queries, NEW n \in Nodes, NEW p, NEW ended \in {"no", "count", "broken", "timer"},
         p \in Part, Flushes(q, n, p, ended), part[q][n].at # "no",
         p.asked = part[q][n].asked, p.up = part[q][n].up, p.left \subseteq part[q][n].left,
         p.got \subseteq p.asked, ended = "count" => p.left = {} /\ p.asked \subseteq p.got,
         NEW rest \in SUBSET wires, wires' = rest \cup Answers(q, n, p)
  PROVE  QueryInv'
<1> DEFINE over == [p EXCEPT !.at = "over", !.ended = ended]
<1>1. Becomes(q, n, over) /\ Caches(n, p.rows)
  BY DEF Flushes
<1>2. /\ over \in Part /\ over.asked = p.asked /\ over.got = p.got /\ over.at = "over"
      /\ over.left = p.left /\ over.up = p.up /\ over.ended = ended /\ over.rows = p.rows
  BY DEF Part
<1>3. PartFits(part[q][n]) /\ WasAsked(part, q, n)
  BY DEF QueryInv
<1> HIDE DEF over
<1>4. PartFits(over)
  BY <1>2, <1>3 DEF PartFits
<1>5. /\ part' \in [Queries -> [Nodes -> Part]]
      /\ \A k \in Queries, l \in Nodes : PartFits(part'[k][l]) /\ WasAsked(part', k, l)
      /\ part'[q][n] = over
      /\ \A w \in wires : WireFits(part', w)
  BY <1>1, <1>2, <1>3, <1>4, PartBecomes DEF WasAsked
<1>6. cached' \in [Nodes -> SUBSET Holders]
  <2>1. p.rows \in SUBSET Holders
    BY DEF Part
  <2> QED
    BY <2>1, <1>1, CachesTyped DEF QueryInv
<1>7. \A w \in Answers(q, n, over) : WireFits(part', w)
  BY <1>2, <1>5, AnswerFits
<1>8. Answers(q, n, over) = Answers(q, n, p)
  BY <1>2 DEF Answers
<1> QED
  BY <1>5, <1>6, <1>7, <1>8 DEF QueryInv

\* As many answers as were asked are all the answers.
LEMMA AllAnswered ==
  ASSUME NEW all, NEW got, IsFiniteSet(all), got \subseteq all,
         Cardinality(got) >= Cardinality(all)
  PROVE  all \subseteq got
<1>1. IsFiniteSet(got) /\ Cardinality(got) <= Cardinality(all)
      /\ (Cardinality(got) = Cardinality(all) => got = all)
  BY FS_Subset
<1>2. Cardinality(got) \in Nat /\ Cardinality(all) \in Nat
  BY <1>1, FS_CardinalityType
<1> QED
  BY <1>1, <1>2

LEMMA FannedOutInv ==
  ASSUME QueryInv, NEW q \in Queries, NEW n \in Nodes, FannedOut(q, n)
  PROVE  QueryInv'
<1> DEFINE o == part[q][n]
           p == [o EXCEPT !.at = "waits"]
<1>1. PartFits(o) /\ WasAsked(part, q, n) /\ o \in Part
  BY DEF QueryInv, PartFits
<1>2. o.at = "asks" /\ o.left = {}
  BY DEF FannedOut
<1>3. CASE o.asked = {} \/ Cardinality(o.got) >= Cardinality(o.asked)
  <2>1. Flushes(q, n, o, "count") /\ wires' = wires \cup Answers(q, n, o)
    BY <1>3 DEF FannedOut
  <2>2. o.asked \subseteq o.got
    BY <1>1, <1>3, AllAnswered DEF PartFits
  <2>3. o.at # "no" /\ o.got \subseteq o.asked /\ wires \in SUBSET wires
    BY <1>1, <1>2 DEF PartFits
  <2> QED
    BY <1>1, <1>2, <2>1, <2>2, <2>3, FlushesInv
<1>4. CASE ~(o.asked = {} \/ Cardinality(o.got) >= Cardinality(o.asked))
  <2>1. Becomes(q, n, p) /\ UNCHANGED <<wires, cached>>
    BY <1>4 DEF FannedOut
  <2> HIDE DEF o
  <2>2. /\ p \in Part /\ p.left = o.left /\ p.asked = o.asked /\ p.got = o.got
        /\ p.up = o.up /\ p.ended = o.ended /\ p.at = "waits"
    BY <1>1 DEF Part
  <2> HIDE DEF p
  <2>3. PartFits(p)
    BY <1>1, <1>2, <2>2 DEF PartFits
  <2>4. n # Origin => n \in part[q][p.up].asked
    BY <1>1, <1>2, <2>2 DEF WasAsked, o
  <2>5. /\ part' \in [Queries -> [Nodes -> Part]]
        /\ \A k \in Queries, l \in Nodes : PartFits(part'[k][l]) /\ WasAsked(part', k, l)
        /\ \A w \in wires : WireFits(part', w)
    BY <2>1, <2>2, <2>3, <2>4, PartBecomes DEF o
  <2> QED
    BY <2>1, <2>5 DEF QueryInv
<1> QED
  BY <1>3, <1>4

\* A fan-out that breaks leaves the rest unasked: a relay answers, any other goes on waiting.
LEMMA FanOutBreaksInv ==
  ASSUME QueryInv, NEW q \in Queries, NEW n \in Nodes, FanOutBreaks(q, n)
  PROVE  QueryInv'
<1> DEFINE o == part[q][n]
           p == [o EXCEPT !.left = {}]
           r == [p EXCEPT !.at = IF @ = "asks" THEN "broken" ELSE @]
<1>1. PartFits(o) /\ WasAsked(part, q, n) /\ o \in Part
  BY DEF QueryInv, PartFits
<1>2. o.at \in {"asks", "over"} /\ p.at = o.at
  BY <1>1 DEF FanOutBreaks, Part
<1>3. \/ p.at = "asks" /\ Flushes(q, n, p, "broken") /\ wires' = wires \cup Answers(q, n, p)
      \/ Becomes(q, n, r) /\ UNCHANGED <<wires, cached>> /\ (o.at = "over" => o.left # {})
  BY <1>2 DEF FanOutBreaks
<1> HIDE DEF o
<1>4. /\ p \in Part /\ p.left = {} /\ p.asked = o.asked /\ p.got = o.got /\ p.up = o.up /\ p.ended = o.ended
  BY <1>1 DEF Part
<1> HIDE DEF p
<1>5. /\ r \in Part /\ r.left = {} /\ r.asked = o.asked /\ r.got = o.got /\ r.up = o.up /\ r.ended = o.ended
      /\ r.at = IF p.at = "asks" THEN "broken" ELSE p.at
  BY <1>4 DEF Part
<1> HIDE DEF r
<1>6. CASE Flushes(q, n, p, "broken") /\ wires' = wires \cup Answers(q, n, p)
  <2>1. p.got \subseteq p.asked /\ o.at # "no" /\ wires \in SUBSET wires
    BY <1>1, <1>2, <1>4 DEF PartFits
  <2> QED
    BY <1>4, <1>6, <2>1, FlushesInv DEF o
<1>7. CASE Becomes(q, n, r) /\ UNCHANGED <<wires, cached>> /\ (o.at = "over" => o.left # {})
  <2>1. PartFits(r)
    BY <1>1, <1>2, <1>5, <1>7 DEF PartFits
  <2>2. n # Origin /\ r.at # "no" => n \in part[q][r.up].asked
    BY <1>1, <1>2, <1>5 DEF WasAsked, o
  <2>3. /\ part' \in [Queries -> [Nodes -> Part]]
        /\ \A k \in Queries, l \in Nodes : PartFits(part'[k][l]) /\ WasAsked(part', k, l)
        /\ \A w \in wires : WireFits(part', w)
    BY <1>5, <1>7, <2>1, <2>2, PartBecomes DEF o
  <2> QED
    BY <1>7, <2>3 DEF QueryInv
<1> QED
  BY <1>3, <1>6, <1>7

LEMMA QueryTimeoutInv ==
  ASSUME QueryInv, NEW q \in Queries, NEW n \in Nodes, QueryTimeout(q, n)
  PROVE  QueryInv'
<1> DEFINE o == part[q][n]
<1>1. PartFits(o) /\ o \in Part /\ o.got \subseteq o.asked
  BY DEF QueryInv, PartFits
<1>2. /\ o.at # "no" /\ Flushes(q, n, o, "timer")
      /\ wires' = wires \cup Answers(q, n, o)
  BY DEF QueryTimeout
<1> QED
  BY <1>1, <1>2, FlushesInv

LEMMA RequestArrivesInv ==
  ASSUME QueryInv, NEW w \in wires, RequestArrives(w)
  PROVE  QueryInv'
<1> DEFINE q == w.q
           n == w.to
           o == [Idle EXCEPT !.up = w.from, !.ttl = w.ttl, !.rows = Own(n)]
<1>1. /\ WireFits(part, w) /\ w.kind = "req" /\ q \in Queries /\ n \in Nodes /\ w.from \in Nodes
      /\ w.ttl \in Int
  BY DEF RequestArrives, QueryInv, WireFits, QueryWire
<1>2. n # Origin /\ n \in part[q][w.from].asked
  BY <1>1 DEF WireFits
<1>3. CASE part[q][n].at # "no"
  <2>1. wires' = wires \ {w} /\ UNCHANGED <<part, cached>>
    BY <1>3 DEF RequestArrives
  <2> QED
    BY <2>1 DEF QueryInv, WireFits, WasAsked
<1>4. CASE part[q][n].at = "no"
  <2>0. part[q][n].asked = {} /\ cached[n] \in SUBSET Holders
    BY <1>1, <1>4 DEF QueryInv, PartFits
  <2>1. Own(n) \in SUBSET Holders /\ Neighbours(n, {n, Origin, w.from}) \in SUBSET Nodes
        /\ Origin \notin Neighbours(n, {n, Origin, w.from})
    BY DEF Own, Neighbours
  <2>2. /\ o \in Part /\ o.at = "no" /\ o.left = {} /\ o.asked = {} /\ o.got = {} /\ o.up = w.from
        /\ o.ended = "no"
    BY <1>1, <2>1, QueryAssumption DEF Idle, Part
  <2> HIDE DEF o
  <2>3. ASSUME NEW p, p \in Part, p.at \in {"asks", "over"}, p.asked = {}, p.got = {}, p.up = w.from,
               p.ended = "no", Origin \notin p.left, Becomes(q, n, p),
               cached' \in [Nodes -> SUBSET Holders], NEW more, wires' = (wires \ {w}) \cup more,
               \A v \in more : v = Response(q, n, w.from, p.rows)
        PROVE  QueryInv'
    <3>1. PartFits(p)
      BY <2>3, FS_EmptySet DEF PartFits
    <3>2. /\ part' \in [Queries -> [Nodes -> Part]]
          /\ \A k \in Queries, l \in Nodes : PartFits(part'[k][l]) /\ WasAsked(part', k, l)
          /\ part'[q][n] = p
          /\ \A v \in wires : WireFits(part', v)
      <4>1. part[q][n].asked \subseteq p.asked
        BY <2>0
      <4> QED
        BY <4>1, <3>1, <1>1, <1>2, <2>3, PartBecomes
    <3>3. n \in part'[q][w.from].asked
      BY <3>2, <1>1, <1>2, <2>3 DEF WasAsked
    <3>4. ASSUME NEW v \in more PROVE WireFits(part', v)
      <4>1. v = Response(q, n, w.from, p.rows) /\ p.rows \in SUBSET Holders
        BY <2>3 DEF Part
      <4> QED
        BY <4>1, <3>3, <1>1 DEF Response, WireFits, QueryWire
    <3> QED
      BY <3>2, <3>4, <2>3 DEF QueryInv
  <2>4. CASE cached[n] # {}
    <3> DEFINE p == [o EXCEPT !.at = "over", !.rows = cached[n]]
    <3>1. /\ Becomes(q, n, p) /\ UNCHANGED cached
          /\ wires' = (wires \ {w}) \cup {Response(q, n, w.from, cached[n])}
      BY <1>4, <2>4 DEF RequestArrives, o
    <3>2. /\ p \in Part /\ p.at = "over" /\ p.left = {} /\ p.asked = {} /\ p.got = {} /\ p.up = w.from
          /\ p.ended = "no" /\ p.rows = cached[n]
      BY <2>0, <2>2 DEF Part
    <3>3. cached' \in [Nodes -> SUBSET Holders]
      BY <3>1 DEF QueryInv
    <3> DEFINE more == {Response(q, n, w.from, cached[n])}
    <3>4. wires' = (wires \ {w}) \cup more /\ \A v \in more : v = Response(q, n, w.from, p.rows)
      BY <3>1, <3>2
    <3> HIDE DEF p, more, q, n
    <3> QED
      BY <3>1, <3>2, <3>3, <3>4, <2>3
  <2>5. CASE cached[n] = {} /\ w.ttl <= 1
    <3> DEFINE p == [o EXCEPT !.at = "over"]
    <3>1. /\ Becomes(q, n, p) /\ Caches(n, Own(n))
          /\ wires' = (wires \ {w}) \cup {Response(q, n, w.from, Own(n))}
      BY <1>4, <2>5 DEF RequestArrives, o
    <3>2. /\ p \in Part /\ p.at = "over" /\ p.left = {} /\ p.asked = {} /\ p.got = {} /\ p.up = w.from
          /\ p.ended = "no" /\ p.rows = o.rows
      BY <2>2 DEF Part
    <3>3. cached' \in [Nodes -> SUBSET Holders]
      BY <3>1, <2>1, <1>1, CachesTyped DEF QueryInv
    <3>4. o.rows = Own(n)
      BY <1>1 DEF o, Idle
    <3> DEFINE more == {Response(q, n, w.from, Own(n))}
    <3>5. wires' = (wires \ {w}) \cup more /\ \A v \in more : v = Response(q, n, w.from, p.rows)
      BY <3>1, <3>2, <3>4
    <3> HIDE DEF p, more, q, n
    <3> QED
      BY <3>1, <3>2, <3>3, <3>5, <2>3
  <2>6. CASE cached[n] = {} /\ ~(w.ttl <= 1)
    <3> DEFINE p == [o EXCEPT !.at = "asks", !.left = Neighbours(n, {n, Origin, w.from})]
    <3>1. /\ Becomes(q, n, p) /\ UNCHANGED cached /\ wires' = wires \ {w}
      BY <1>4, <2>6 DEF RequestArrives, o
    <3>2. /\ p \in Part /\ p.at = "asks" /\ Origin \notin p.left /\ p.asked = {} /\ p.got = {}
          /\ p.up = w.from /\ p.ended = "no"
      BY <2>1, <2>2 DEF Part
    <3>3. cached' \in [Nodes -> SUBSET Holders] /\ wires' = (wires \ {w}) \cup {}
      BY <3>1 DEF QueryInv
    <3> HIDE DEF p
    <3> QED
      BY <3>1, <3>2, <3>3, <2>3
  <2> QED
    BY <2>4, <2>5, <2>6
<1> QED
  BY <1>3, <1>4

LEMMA ResponseArrivesInv ==
  ASSUME QueryInv, NEW w \in wires, ResponseArrives(w)
  PROVE  QueryInv'
<1> DEFINE q == w.q
           n == w.to
           o == part[q][n]
           p == [o EXCEPT !.got = @ \cup {w.from}, !.rows = @ \cup w.rows]
<1>1. /\ WireFits(part, w) /\ w.kind = "res" /\ q \in Queries /\ n \in Nodes /\ w.from \in Nodes
      /\ w.rows \in SUBSET Holders
  BY DEF ResponseArrives, QueryInv, WireFits, QueryWire
<1>2. w.from \in o.asked
  BY <1>1 DEF WireFits
<1>3. PartFits(o) /\ WasAsked(part, q, n) /\ o \in Part
  BY <1>1 DEF QueryInv, PartFits
<1>4. CASE o.at \notin {"asks", "waits", "broken"} \/ w.from \in o.got
  <2>1. wires' = wires \ {w} /\ UNCHANGED <<part, cached>>
    BY <1>4 DEF ResponseArrives
  <2> QED
    BY <2>1 DEF QueryInv, WireFits, WasAsked
<1>5. CASE ~(o.at \notin {"asks", "waits", "broken"} \/ w.from \in o.got)
  <2>1. \/ /\ Expected(o) > 0 /\ Cardinality(p.got) >= Expected(o)
           /\ Flushes(q, n, p, "count")
           /\ wires' = (wires \ {w}) \cup Answers(q, n, p)
        \/ Becomes(q, n, p) /\ wires' = wires \ {w} /\ UNCHANGED cached
    BY <1>5 DEF ResponseArrives
  <2>2. o.at \in {"asks", "waits", "broken"}
    BY <1>5
  <2> HIDE DEF o
  <2>3. /\ p \in Part /\ p.got = o.got \cup {w.from} /\ p.at = o.at /\ p.left = o.left
        /\ p.asked = o.asked /\ p.up = o.up /\ p.ended = o.ended
    BY <1>1, <1>3 DEF Part
  <2>4. p.got \subseteq p.asked /\ o.at # "no"
    BY <1>2, <1>3, <2>2, <2>3 DEF PartFits
  <2> HIDE DEF p
  <2>5. CASE /\ Expected(o) > 0 /\ Cardinality(p.got) >= Expected(o)
             /\ Flushes(q, n, p, "count")
             /\ wires' = (wires \ {w}) \cup Answers(q, n, p)
    <3>1. o.at = "waits" /\ Expected(o) = Cardinality(o.asked)
      BY <2>5 DEF Expected
    <3>2. p.left = {} /\ p.asked \subseteq p.got
      BY <3>1, <1>3, <2>3, <2>4, <2>5, AllAnswered DEF PartFits
    <3>3. (wires \ {w}) \in SUBSET wires
      OBVIOUS
    <3>4. /\ part[q][n].at # "no" /\ p.asked = part[q][n].asked /\ p.up = part[q][n].up
          /\ p.left = part[q][n].left
      BY <2>3, <2>4 DEF o
    <3> HIDE DEF q, n
    <3> QED
      BY <3>2, <3>3, <3>4, <1>1, <2>3, <2>4, <2>5, FlushesInv
  <2>6. CASE Becomes(q, n, p) /\ wires' = wires \ {w} /\ UNCHANGED cached
    <3>1. PartFits(p)
      BY <1>3, <2>2, <2>3, <2>4 DEF PartFits
    <3>2. n # Origin /\ p.at # "no" => n \in part[q][p.up].asked
      BY <1>3, <2>3 DEF WasAsked, o
    <3>3. /\ part' \in [Queries -> [Nodes -> Part]]
          /\ \A k \in Queries, l \in Nodes : PartFits(part'[k][l]) /\ WasAsked(part', k, l)
          /\ \A v \in wires : WireFits(part', v)
      BY <3>1, <3>2, <1>1, <2>3, <2>6, PartBecomes DEF o
    <3>4. \A v \in wires' : v \in wires
      BY <2>6
    <3>5. cached' \in [Nodes -> SUBSET Holders]
      BY <2>6 DEF QueryInv
    <3> QED
      BY <3>3, <3>4, <3>5 DEF QueryInv
  <2> QED
    BY <2>1, <2>5, <2>6
<1> QED
  BY <1>4, <1>5

LEMMA QueryInitInv == ASSUME InitQuery PROVE QueryInv
<1>1. /\ part = [q \in Queries |-> [n \in Nodes |-> Idle]] /\ wires = {}
      /\ cached \in [Nodes -> SUBSET Holders]
  BY DEF InitQuery
<1>2. Idle \in Part
  BY IdleFits DEF PartFits
<1> QED
  BY <1>1, <1>2, IdleFits DEF QueryInv, WasAsked

LEMMA QueryNextInv == QueryInv /\ [NextQuery]_queryVars => QueryInv'
<1> SUFFICES ASSUME QueryInv, [NextQuery]_queryVars PROVE QueryInv'
  OBVIOUS
<1>1. ASSUME NEW q \in Queries, Ask(q) PROVE QueryInv'
  BY <1>1, AskInv
<1>2. ASSUME NEW q \in Queries, NEW n \in Nodes, FannedOut(q, n) \/ FanOutBreaks(q, n) \/ QueryTimeout(q, n)
      PROVE  QueryInv'
  BY <1>2, FannedOutInv, FanOutBreaksInv, QueryTimeoutInv
<1>3. ASSUME NEW q \in Queries, NEW n \in Nodes, NEW m \in Nodes, NEW goes \in BOOLEAN, Forward(q, n, m, goes)
      PROVE  QueryInv'
  BY <1>3, ForwardInv
<1>4. ASSUME NEW w \in wires, RequestArrives(w) \/ ResponseArrives(w) PROVE QueryInv'
  BY <1>4, RequestArrivesInv, ResponseArrivesInv
<1>5. ASSUME NEW w \in wires, LoseMessage(w) PROVE QueryInv'
  BY <1>5 DEF LoseMessage, QueryInv, WireFits, WasAsked
<1>6. ASSUME NEW n \in Nodes, CacheExpires(n) PROVE QueryInv'
  <2>1. UNCHANGED <<part, wires>> /\ cached' \in [Nodes -> SUBSET Holders]
    BY <1>6 DEF CacheExpires, QueryInv
  <2> QED
    BY <2>1 DEF QueryInv, WireFits, WasAsked
<1>7. CASE UNCHANGED queryVars
  BY <1>7 DEF queryVars, QueryInv, WireFits, WasAsked
<1> QED
  BY <1>1, <1>2, <1>3, <1>4, <1>5, <1>6, <1>7 DEF NextQuery

\* The inductive invariant of queries.
LEMMA QueryInvariant == SpecQuery => []QueryInv
BY QueryInitInv, QueryNextInv, PTL DEF SpecQuery

\* A federated query that ends by the count of its answers has asked every neighbour and heard
\* of every one the request reached, on any graph, with any losses and wherever a fan-out
\* breaks (runtime.mjs:432-447, 456-479).
THEOREM QuerySound == SpecQuery => []EarlyAnswersAreWhole
<1>1. QueryInv => EarlyAnswersAreWhole
  BY DEF QueryInv, PartFits, EarlyAnswersAreWhole
<1> QED
  BY <1>1, QueryInvariant, PTL

-----------------------------------------------------------------------------
(* Routes over several hops. *)

\* A path over links that starts at the asker and meets no node twice.
Walk(p) ==
  /\ p \in Seq(Hosts) /\ p # <<>> /\ p[1] = Asker
  /\ \A i, j \in 1..Len(p) : p[i] = p[j] => i = j
  /\ \A i \in 1..(Len(p) - 1) : <<p[i], p[i + 1]>> \in Wires

\* It ends at the target, within the ttl.
Route(p) == Walk(p) /\ p[Len(p)] = Wanted /\ Len(p) <= RouteTtl + 1

\* A request goes to the next node of its path, an answer and a relay to a node of theirs.
EnvelopeFits(m) ==
  /\ m \in [action : {"route_req", "route_resp", "relay"}, to : Hosts, req : Discoveries,
            path : Seq(Hosts), n : Nat]
  /\ m.action = "route_req" =>
       Walk(m.path) /\ <<m.path[Len(m.path)], m.to>> \in Wires /\ m.n + Len(m.path) = RouteTtl + 1
  /\ m.action = "route_resp" => Route(m.path) /\ \E i \in 1..Len(m.path) : m.path[i] = m.to
  /\ m.action = "relay" => Route(m.path) /\ m.n \in 1..Len(m.path)

RouteInv ==
  /\ \A m \in envelopes : EnvelopeFits(m)
  /\ route \in [Discoveries -> Seq(Hosts)]
  /\ \A r \in Discoveries : route[r] = <<>> \/ Route(route[r])
  /\ \A p \in relayed : Route(p)

LEMMA RouteSize ==
  ASSUME NEW p, Route(p)
  PROVE  Len(p) \in Nat /\ Len(p) >= 2 /\ p \in Seq(Hosts) /\ \A i \in 1..Len(p) : p[i] \in Hosts
<1>1. p \in Seq(Hosts) /\ p # <<>> /\ p[1] = Asker /\ p[Len(p)] = Wanted
  BY DEF Route, Walk
<1>2. Len(p) \in Nat /\ Len(p) # 0 /\ \A i \in 1..Len(p) : p[i] \in Hosts
  <2>1. Len(p) \in Nat /\ \A i \in 1..Len(p) : p[i] \in Hosts
    BY <1>1, LenProperties, ElementOfSeq
  <2>2. Len(p) # 0
    BY <1>1, EmptySeq
  <2> QED
    BY <2>1, <2>2
<1>3. Len(p) # 1
  BY <1>1, OverlayAssumption
<1>4. Len(p) >= 2
  BY <1>2, <1>3
<1> QED
  BY <1>1, <1>2, <1>4

LEMMA DiscoverRouteInv ==
  ASSUME RouteInv, NEW r \in Discoveries, DiscoverRoute(r)
  PROVE  RouteInv'
<1>1. UNCHANGED <<route, relayed>>
      /\ envelopes' = envelopes \cup
           {Envelope("route_req", m, r, <<Asker>>, RouteTtl) : m \in listLinks(Asker)}
  BY DEF DiscoverRoute
<1>2. Asker \in Hosts /\ RouteTtl \in Nat
  BY OverlayAssumption
<1>3. Walk(<<Asker>>) /\ Len(<<Asker>>) = 1 /\ <<Asker>>[1] = Asker
  BY <1>2 DEF Walk
<1>4. ASSUME NEW m \in listLinks(Asker)
      PROVE  EnvelopeFits(Envelope("route_req", m, r, <<Asker>>, RouteTtl))
  <2>1. m \in Hosts /\ <<Asker, m>> \in Wires
    BY DEF listLinks
  <2>2. <<Asker>> \in Seq(Hosts)
    BY <1>2
  <2> DEFINE p == <<Asker>>
  <2>3. Walk(p) /\ Len(p) = 1 /\ p[1] = Asker /\ p \in Seq(Hosts)
    BY <1>3, <2>2
  <2> HIDE DEF p
  <2> QED
    BY <2>1, <2>3, <1>2 DEF EnvelopeFits, Envelope
<1> QED
  BY <1>1, <1>4 DEF RouteInv

\* A walk that goes over one more link to a node it has not met.
LEMMA WalkOn ==
  ASSUME NEW p, Walk(p), NEW n \in Hosts, ~Contains(p, n), <<p[Len(p)], n>> \in Wires
  PROVE  /\ Walk(Append(p, n)) /\ Len(Append(p, n)) = Len(p) + 1 /\ Len(p) \in Nat /\ Len(p) > 0
         /\ Append(p, n)[Len(p) + 1] = n /\ Append(p, n)[Len(p)] = p[Len(p)]
<1>1. p \in Seq(Hosts) /\ p # <<>> /\ p[1] = Asker
  BY DEF Walk
<1> DEFINE k == Len(p)
           w == Append(p, n)
<1>2. k \in Nat /\ k > 0
  BY <1>1, EmptySeq, LenProperties
<1>3. w \in Seq(Hosts) /\ w # <<>> /\ Len(w) = k + 1 /\ w[k + 1] = n /\ \A i \in 1..k : w[i] = p[i]
  BY <1>1, AppendProperties
<1>4. \A i \in 1..k : p[i] # n
  BY DEF Contains
<1> HIDE DEF w
<1>5. \A i, j \in 1..Len(w) : w[i] = w[j] => i = j
  <2>1. \A i \in 1..Len(w) : i \in 1..k \/ i = k + 1
    BY <1>2, <1>3
  <2>2. \A i, j \in 1..k : p[i] = p[j] => i = j
    BY DEF Walk
  <2> QED
    BY <2>1, <2>2, <1>3, <1>4
<1>6. ASSUME NEW i \in 1..(Len(w) - 1) PROVE <<w[i], w[i + 1]>> \in Wires
  <2>1. CASE i = k
    BY <2>1, <1>2, <1>3
  <2>2. CASE i # k
    <3>1. i \in 1..(k - 1) /\ i \in 1..k /\ i + 1 \in 1..k
      BY <2>2, <1>2, <1>3
    <3>2. <<p[i], p[i + 1]>> \in Wires
      BY <3>1 DEF Walk
    <3> QED
      BY <3>1, <3>2, <1>3
  <2> QED
    BY <2>1, <2>2
<1>7. w[1] = Asker
  BY <1>1, <1>2, <1>3
<1>8. Walk(w)
  BY <1>3, <1>5, <1>6, <1>7 DEF Walk
<1> QED
  BY <1>2, <1>3, <1>8 DEF w

LEMMA RouteReqInv ==
  ASSUME RouteInv, NEW m \in envelopes, RouteReq(m)
  PROVE  RouteInv'
<1> DEFINE n == m.to
           path == Append(m.path, n)
           next == {o \in listLinks(n) : ~Contains(m.path, o)}
           out == IF n = Wanted
                   THEN {Envelope("route_resp", Last(m.path), m.req, path, 0)}
                   ELSE {Envelope("route_req", o, m.req, path, m.n - 1) : o \in next}
<1>1. UNCHANGED <<route, relayed>> /\ m.action = "route_req"
      /\ (envelopes' = envelopes \ {m} \/ (~Dropped(m) /\ envelopes' = (envelopes \ {m}) \cup out))
  BY DEF RouteReq
<1>2. CASE envelopes' = envelopes \ {m}
  BY <1>1, <1>2 DEF RouteInv
<1>3. CASE ~Dropped(m) /\ envelopes' = (envelopes \ {m}) \cup out
  <2>1. /\ EnvelopeFits(m) /\ Walk(m.path) /\ <<m.path[Len(m.path)], n>> \in Wires
        /\ m.n + Len(m.path) = RouteTtl + 1 /\ n \in Hosts /\ m.n \in Nat /\ m.req \in Discoveries
    BY <1>1 DEF RouteInv, EnvelopeFits
  <2>2. m.n # 0 /\ ~Contains(m.path, n)
    BY <1>3 DEF Dropped
  <2>3. /\ Walk(path) /\ Len(path) = Len(m.path) + 1 /\ Len(m.path) \in Nat /\ Len(m.path) > 0
        /\ path[Len(path)] = n /\ path[Len(m.path)] = m.path[Len(m.path)]
    BY <2>1, <2>2, WalkOn
  <2>4. path \in Seq(Hosts) /\ RouteTtl \in Nat /\ \A i \in 1..Len(path) : path[i] \in Hosts
    <3>1. path \in Seq(Hosts)
      BY <2>3 DEF Walk
    <3> HIDE DEF path
    <3> QED
      BY <3>1, OverlayAssumption, ElementOfSeq
  <2>5. Last(m.path) = m.path[Len(m.path)]
    BY DEF Last
  <2>6. ASSUME NEW v \in out PROVE EnvelopeFits(v)
    <3> HIDE DEF path
    <3>1. CASE n = Wanted
      <4>1. v = Envelope("route_resp", Last(m.path), m.req, path, 0)
        BY <3>1
      <4>2. Route(path)
        BY <2>1, <2>2, <2>3, <2>4, <3>1 DEF Route
      <4>3. Len(m.path) \in 1..Len(path) /\ path[Len(m.path)] = Last(m.path) /\ Last(m.path) \in Hosts
        BY <2>3, <2>4, <2>5
      <4> HIDE DEF n
      <4> QED
        BY <4>1, <4>2, <4>3, <2>1, <2>4 DEF EnvelopeFits, Envelope
    <3>2. CASE n # Wanted
      <4>1. PICK o \in next : v = Envelope("route_req", o, m.req, path, m.n - 1)
        BY <3>2
      <4>2. o \in Hosts /\ <<n, o>> \in Wires
        BY DEF listLinks
      <4>3. m.n - 1 \in Nat /\ m.n - 1 + Len(path) = RouteTtl + 1
        <5> DEFINE a == Len(m.path)
                   b == Len(path)
                   k == m.n
        <5>1. /\ k \in Nat /\ k # 0 /\ a \in Nat /\ b = a + 1 /\ k + a = RouteTtl + 1
              /\ RouteTtl \in Nat
          BY <2>1, <2>2, <2>3, <2>4
        <5> HIDE DEF a, b, k
        <5>2. k - 1 \in Nat /\ k - 1 + b = RouteTtl + 1
          BY <5>1
        <5> QED
          BY <5>2 DEF a, b, k
      <4> HIDE DEF n, next
      <4> QED
        BY <4>1, <4>2, <4>3, <2>1, <2>3, <2>4 DEF EnvelopeFits, Envelope
    <3> QED
      BY <3>1, <3>2
  <2> HIDE DEF out
  <2> QED
    BY <1>1, <1>3, <2>6 DEF RouteInv
<1> QED
  BY <1>1, <1>2, <1>3

LEMMA RouteRespInv ==
  ASSUME RouteInv, NEW m \in envelopes, RouteResp(m)
  PROVE  RouteInv'
<1> DEFINE n == m.to
           at == CHOOSE i \in DOMAIN m.path : m.path[i] = n /\ \A j \in 1..(i - 1) : m.path[j] # n
           back == [m EXCEPT !.to = m.path[at - 1]]
<1>1. /\ EnvelopeFits(m) /\ Route(m.path) /\ m.req \in Discoveries /\ n \in Hosts
      /\ \E i \in 1..Len(m.path) : m.path[i] = n
      /\ m.action = "route_resp"
  BY DEF RouteResp, RouteInv, EnvelopeFits
<1>2. m.path \in Seq(Hosts) /\ Len(m.path) \in Nat /\ DOMAIN m.path = 1..Len(m.path)
      /\ \A i \in 1..Len(m.path) : m.path[i] \in Hosts
  BY <1>1, RouteSize, LenProperties
<1>3. relayed' = relayed
  BY DEF RouteResp
<1>4. CASE n = Asker
  <2>1. envelopes' = envelopes \ {m} /\ (route' = route \/ route' = [route EXCEPT ![m.req] = m.path])
    BY <1>4 DEF RouteResp
  <2>2. route' \in [Discoveries -> Seq(Hosts)]
        /\ \A r \in Discoveries : route'[r] = <<>> \/ Route(route'[r])
    <3>1. CASE route' = route
      BY <3>1 DEF RouteInv
    <3>2. CASE route' = [route EXCEPT ![m.req] = m.path]
      <4>1. route \in [Discoveries -> Seq(Hosts)] /\ \A r \in Discoveries : route[r] = <<>> \/ Route(route[r])
        BY DEF RouteInv
      <4>2. \A r \in Discoveries : route'[r] = IF r = m.req THEN m.path ELSE route[r]
        BY <3>2, <4>1
      <4>3. route' \in [Discoveries -> Seq(Hosts)]
        BY <3>2, <4>1, <1>1, <1>2
      <4> QED
        BY <4>1, <4>2, <4>3, <1>1
    <3> QED
      BY <2>1, <3>1, <3>2
  <2> QED
    BY <1>3, <2>1, <2>2 DEF RouteInv
<1>5. CASE n # Asker
  <2>1. envelopes' = (envelopes \ {m}) \cup {back} /\ UNCHANGED route
    BY <1>5 DEF RouteResp
  <2>2. at \in 1..Len(m.path) /\ m.path[at] = n
    <3>1. PICK i \in 1..Len(m.path) : m.path[i] = n
      BY <1>1
    <3>2. \A j \in 1..(i - 1) : m.path[j] # n
      <4>1. \A j \in 1..(i - 1) : j \in 1..Len(m.path) /\ j # i
        BY <1>2
      <4> QED
        BY <3>1, <4>1, <1>1 DEF Route, Walk
    <3>3. \E k \in DOMAIN m.path : m.path[k] = n /\ \A j \in 1..(k - 1) : m.path[j] # n
      BY <3>1, <3>2, <1>2
    <3>4. at \in DOMAIN m.path /\ m.path[at] = n
      BY <3>3
    <3> QED
      BY <3>4, <1>2
  <2> HIDE DEF at
  <2>3. at # 1
    BY <2>2, <1>1, <1>5 DEF Route, Walk
  <2>4. at - 1 \in 1..Len(m.path)
    BY <2>2, <2>3, <1>2
  <2> DEFINE to == m.path[at - 1]
  <2>5. to \in Hosts /\ \E i \in 1..Len(m.path) : m.path[i] = to
    BY <2>4, <1>2
  <2> HIDE DEF to
  <2>6. EnvelopeFits(back)
    <3>1. back = [m EXCEPT !.to = to]
      BY DEF to
    <3>2. /\ back.action = m.action /\ back.path = m.path /\ back.to = to
          /\ back \in [action : {"route_req", "route_resp", "relay"}, to : Hosts, req : Discoveries,
                       path : Seq(Hosts), n : Nat]
      <4> HIDE DEF back
      <4> QED
        BY <3>1, <2>5, <1>1 DEF EnvelopeFits
    <3> HIDE DEF back
    <3> QED
      BY <3>2, <2>5, <1>1 DEF EnvelopeFits
  <2> HIDE DEF back
  <2> QED
    BY <1>3, <2>1, <2>6 DEF RouteInv
<1> QED
  BY <1>4, <1>5

LEMMA RelayInvStep ==
  ASSUME RouteInv, NEW r \in Discoveries, Relay(r)
  PROVE  RouteInv'
<1> DEFINE p == route[r]
           v == Envelope("relay", p[2], r, p, 2)
<1>1. p # <<>> /\ envelopes' = envelopes \cup {v} /\ UNCHANGED <<route, relayed>>
  BY DEF Relay
<1>2. Route(p)
  BY <1>1 DEF RouteInv
<1> HIDE DEF p
<1>3. Len(p) \in Nat /\ 2 \in 1..Len(p) /\ p[2] \in Hosts /\ p \in Seq(Hosts)
  BY <1>2, RouteSize
<1>4. EnvelopeFits(v)
  BY <1>2, <1>3 DEF EnvelopeFits, Envelope
<1> QED
  BY <1>1, <1>4 DEF RouteInv

LEMMA RelayArrivesInv ==
  ASSUME RouteInv, NEW m \in envelopes, RelayArrives(m)
  PROVE  RouteInv'
<1>1. /\ EnvelopeFits(m) /\ Route(m.path) /\ m.n \in 1..Len(m.path) /\ m.n \in Nat
      /\ UNCHANGED route /\ m.action = "relay"
  BY DEF RelayArrives, RouteInv, EnvelopeFits
<1>2. CASE m.n = Len(m.path)
  <2>1. envelopes' = envelopes \ {m} /\ relayed' = relayed \cup {m.path}
    BY <1>2 DEF RelayArrives
  <2> QED
    BY <2>1, <1>1 DEF RouteInv
<1>3. CASE m.n # Len(m.path)
  <2> DEFINE k == m.n + 1
             to == m.path[k]
             v == [m EXCEPT !.to = to, !.n = k]
  <2>1. envelopes' = (envelopes \ {m}) \cup {v} /\ relayed' = relayed
    <3>1. /\ envelopes' = (envelopes \ {m}) \cup {[m EXCEPT !.to = m.path[m.n + 1], !.n = @ + 1]}
          /\ relayed' = relayed
      BY <1>3 DEF RelayArrives
    <3> QED
      BY <3>1
  <2>2. k \in 1..Len(m.path) /\ k \in Nat /\ to \in Hosts
    BY <1>1, <1>3, RouteSize
  <2> HIDE DEF k, to
  <2>3. /\ v \in [action : {"route_req", "route_resp", "relay"}, to : Hosts, req : Discoveries,
                  path : Seq(Hosts), n : Nat]
        /\ v.action = "relay" /\ v.path = m.path /\ v.n = k
    BY <1>1, <2>2 DEF EnvelopeFits
  <2> HIDE DEF v
  <2>4. EnvelopeFits(v)
    BY <1>1, <2>2, <2>3 DEF EnvelopeFits
  <2> QED
    BY <1>1, <2>1, <2>4 DEF RouteInv
<1> QED
  BY <1>2, <1>3

LEMMA RouteInitInv == ASSUME InitOverlay PROVE RouteInv
<1>1. /\ route = [r \in Discoveries |-> <<>>] /\ envelopes = {} /\ relayed = {}
  BY DEF InitOverlay
<1>2. <<>> \in Seq(Hosts)
  OBVIOUS
<1> QED
  BY <1>1, <1>2 DEF RouteInv

LEMMA RouteNextInv == RouteInv /\ [NextOverlay]_overlayVars => RouteInv'
<1> SUFFICES ASSUME RouteInv, [NextOverlay]_overlayVars PROVE RouteInv'
  OBVIOUS
<1>1. ASSUME NEW r \in Discoveries, DiscoverRoute(r) \/ Relay(r) PROVE RouteInv'
  BY <1>1, DiscoverRouteInv, RelayInvStep
<1>2. ASSUME NEW r \in Discoveries, RouteTimeout(r) PROVE RouteInv'
  BY <1>2 DEF RouteTimeout, RouteInv
<1>3. ASSUME NEW m \in envelopes, RouteReq(m) \/ RouteResp(m) \/ RelayArrives(m) PROVE RouteInv'
  BY <1>3, RouteReqInv, RouteRespInv, RelayArrivesInv
<1>4. ASSUME NEW m \in envelopes, LoseEnvelope(m) PROVE RouteInv'
  BY <1>4 DEF LoseEnvelope, RouteInv
<1>5. CASE CloseRouter
  BY <1>5 DEF CloseRouter, RouteInv
<1>6. CASE UNCHANGED overlayVars
  BY <1>6 DEF overlayVars, RouteInv
<1> QED
  BY <1>1, <1>2, <1>3, <1>4, <1>5, <1>6 DEF NextOverlay

\* The inductive invariant of routes.
LEMMA RouteInvariant == SpecOverlay => []RouteInv
BY RouteInitInv, RouteNextInv, PTL DEF SpecOverlay

\* A route found, and the path of every relay that reached its end, is a walk over links from the
\* asker to the target that meets no node twice and keeps the ttl, on any graph
\* (overlay/index.mjs:118-146, 156-165).
THEOREM OverlaySound == SpecOverlay => []RoutesAreSound
<1>1. ASSUME NEW p, Route(p)
      PROVE  /\ p[1] = Asker /\ Last(p) = Wanted /\ IsInjective(p)
             /\ \A i \in 1..(Len(p) - 1) : <<p[i], p[i + 1]>> \in Wires
             /\ Len(p) <= RouteTtl + 1
  <2>1. DOMAIN p = 1..Len(p)
    BY <1>1, RouteSize, LenProperties
  <2> QED
    BY <1>1, <2>1 DEF Route, Walk, Last, IsInjective
<1>2. RouteInv => RoutesAreSound
  <2> SUFFICES ASSUME RouteInv, NEW p \in {route[r] : r \in Discoveries} \cup relayed, p # <<>>
               PROVE  Route(p)
    BY <1>1 DEF RoutesAreSound
  <2> QED
    BY DEF RouteInv
<1> QED
  BY <1>2, RouteInvariant, PTL

-----------------------------------------------------------------------------
(* Envelopes on their way to listeners. *)

Dispatched == [st : {"asks", "refused", "tells", "threw", "done"}, at : Nat, awaited : Nat,
               approved : SUBSET Nat, got : SUBSET Nat, asks : SUBSET Nat, tells : SUBSET Nat]

\* The entries up to a place that an envelope is to meet have been met, or one is awaited.
MetUpTo(map, at, due, met) == \A i \in DOMAIN map : i <= at /\ map[i] # 0 /\ map[i] \in due => map[i] \in met

\* How far an envelope is.
DispatchFits(v, authorizers, listeners) ==
  /\ v.st \in {"asks", "refused"} => v.got = {}
  /\ v.st = "asks" => MetUpTo(authorizers, v.at, v.asks, v.approved \cup {v.awaited})
  /\ v.st \notin {"asks", "refused"} => v.asks \cap Listed(authorizers) \subseteq v.approved
  /\ v.st = "tells" => MetUpTo(listeners, v.at, v.tells, v.got)
  /\ v.st = "done" => v.tells \cap Listed(listeners) \subseteq v.got
  /\ v.awaited # 0 => v.st \in {"asks", "tells"}

DispatchInv ==
  /\ created \in BOOLEAN
  /\ authorizer \in Seq([prefix : ScopePrefixes, held : BOOLEAN])
  /\ pendingScopeAuthorizers \subseteq 1..Len(authorizer)
  /\ created => pendingScopeAuthorizers = {}
  /\ scopeAuthorizers \in Seq(Nat) /\ Listed(scopeAuthorizers) \subseteq 1..Len(authorizer)
  /\ ~created => scopeAuthorizers = <<>> /\ envelope = <<>>
  /\ subscription \in Seq({"on", "off"})
  /\ scopeListeners \in Seq(Nat) /\ Listed(scopeListeners) \subseteq 1..Len(subscription)
  /\ envelope \in Seq(Dispatched)
  /\ \A e \in DOMAIN envelope :
       /\ envelope[e].asks \subseteq 1..Len(authorizer) /\ envelope[e].tells \subseteq 1..Len(subscription)
       /\ DispatchFits(envelope[e], scopeAuthorizers, scopeListeners)
  /\ \A a \in DOMAIN authorizer :
       InForce(a) => a \in (IF created THEN Listed(scopeAuthorizers) ELSE pendingScopeAuthorizers)

\* A map in which entries are deleted, and new ones put in their places or at the end.
Ages(map, next, n) ==
  \A i \in DOMAIN next : next[i] = 0 \/ (i \in DOMAIN map /\ next[i] = map[i]) \/ next[i] > n

LEMMA AgesKeeps ==
  ASSUME NEW map, NEW next \in Seq(Nat), NEW n \in Nat, Ages(map, next, n), NEW due, due \subseteq 1..n
  PROVE  /\ due \cap Listed(next) \subseteq Listed(map)
         /\ \A at, met : MetUpTo(map, at, due, met) => MetUpTo(next, at, due, met)
<1>1. \A i \in DOMAIN next : next[i] \in Nat /\ (next[i] \in due => ~(next[i] > n))
  <2>1. \A i \in DOMAIN next : next[i] \in Nat
    BY ElementOfSeq, LenProperties
  <2> QED
    BY <2>1
<1> QED
  BY <1>1 DEF Ages, Listed, MetUpTo

LEMMA AgesFits ==
  ASSUME NEW auth, NEW auth2 \in Seq(Nat), NEW n \in Nat, Ages(auth, auth2, n),
         NEW lis, NEW lis2 \in Seq(Nat), NEW k \in Nat, Ages(lis, lis2, k),
         NEW v, v.asks \subseteq 1..n, v.tells \subseteq 1..k, DispatchFits(v, auth, lis)
  PROVE  DispatchFits(v, auth2, lis2)
<1>1. /\ v.asks \cap Listed(auth2) \subseteq Listed(auth)
      /\ \A at, met : MetUpTo(auth, at, v.asks, met) => MetUpTo(auth2, at, v.asks, met)
  BY AgesKeeps
<1>2. /\ v.tells \cap Listed(lis2) \subseteq Listed(lis)
      /\ \A at, met : MetUpTo(lis, at, v.tells, met) => MetUpTo(lis2, at, v.tells, met)
  BY AgesKeeps
<1> QED
  BY <1>1, <1>2 DEF DispatchFits

LEMMA AgesSame == ASSUME NEW map, NEW n PROVE Ages(map, map, n)
BY DEF Ages

LEMMA DeletedEffect ==
  ASSUME NEW map \in Seq(Nat), NEW out, NEW n
  PROVE  /\ Deleted(map, out) \in Seq(Nat) /\ Listed(Deleted(map, out)) = Listed(map) \ out
         /\ Ages(map, Deleted(map, out), n)
<1> DEFINE d == Deleted(map, out)
<1>1. DOMAIN map = 1..Len(map) /\ Len(map) \in Nat /\ \A i \in 1..Len(map) : map[i] \in Nat
  BY LenProperties, ElementOfSeq
<1>2. d = [i \in 1..Len(map) |-> IF map[i] \in out THEN 0 ELSE map[i]]
  BY <1>1 DEF Deleted
<1> HIDE DEF d
<1>3. d \in [1..Len(map) -> Nat] /\ DOMAIN d = DOMAIN map
      /\ \A i \in DOMAIN map : d[i] = IF map[i] \in out THEN 0 ELSE map[i]
  BY <1>1, <1>2
<1>4. d \in Seq(Nat)
  BY <1>1, <1>3, SeqDef
<1> QED
  BY <1>3, <1>4 DEF Listed, Ages, d

\* Setting a key of a map: later entries of the same prefix take the place of earlier ones.
LEMMA SetInEffect ==
  ASSUME NEW map \in Seq(Nat), NEW a \in Nat \ {0}
  PROVE  /\ SetIn(map, a) \in Seq(Nat) /\ a \in Listed(SetIn(map, a))
         /\ Listed(SetIn(map, a)) \subseteq Listed(map) \cup {a}
         /\ \A b \in Listed(map) :
              authorizer'[b].prefix # authorizer'[a].prefix => b \in Listed(SetIn(map, a))
         /\ Ages(map, SetIn(map, a), a - 1)
<1> DEFINE same == AtPrefix(map, authorizer'[a].prefix)
           s == SetIn(map, a)
<1>1. DOMAIN map = 1..Len(map) /\ Len(map) \in Nat /\ \A i \in 1..Len(map) : map[i] \in Nat
  BY LenProperties, ElementOfSeq
<1>2. a > a - 1 /\ a \in Nat /\ a # 0
  OBVIOUS
<1>3. CASE same = {}
  <2>1. s = Append(map, a)
    BY <1>3 DEF SetIn
  <2> HIDE DEF s
  <2>2. /\ s \in Seq(Nat) /\ Len(s) = Len(map) + 1 /\ s[Len(map) + 1] = a
        /\ \A i \in 1..Len(map) : s[i] = map[i]
    BY <1>2, <2>1, AppendProperties
  <2>3. DOMAIN s = 1..(Len(map) + 1)
    BY <2>2, LenProperties
  <2>4. \A i \in DOMAIN s : i \in DOMAIN map \/ i = Len(map) + 1
    BY <1>1, <2>3
  <2>5. Len(map) + 1 \in DOMAIN s /\ \A i \in DOMAIN map : i \in DOMAIN s
    BY <1>1, <2>3
  <2>6. a \in Listed(s) /\ \A b \in Listed(map) : b \in Listed(s)
    BY <1>1, <1>2, <2>2, <2>5 DEF Listed
  <2>7. Listed(s) \subseteq Listed(map) \cup {a} /\ Ages(map, s, a - 1)
    BY <1>1, <1>2, <2>2, <2>4 DEF Listed, Ages
  <2> QED
    BY <2>2, <2>6, <2>7 DEF s
<1>4. CASE same # {}
  <2> DEFINE i == CHOOSE k \in same : TRUE
  <2>1. i \in same /\ s = [map EXCEPT ![i] = a]
    BY <1>4 DEF SetIn
  <2> HIDE DEF i, s
  <2>2. i \in DOMAIN map /\ authorizer'[map[i]].prefix = authorizer'[a].prefix
    BY <2>1 DEF AtPrefix
  <2>3. /\ DOMAIN s = DOMAIN map /\ s[i] = a /\ \A k \in DOMAIN map : k # i => s[k] = map[k]
        /\ s \in [1..Len(map) -> Nat]
    BY <1>1, <1>2, <2>1, <2>2
  <2>4. s \in Seq(Nat)
    BY <1>1, <2>3, SeqDef
  <2>5. a \in Listed(s) /\ Listed(s) \subseteq Listed(map) \cup {a} /\ Ages(map, s, a - 1)
    BY <1>2, <2>2, <2>3 DEF Listed, Ages
  <2>6. ASSUME NEW b \in Listed(map), authorizer'[b].prefix # authorizer'[a].prefix PROVE b \in Listed(s)
    <3>1. PICK k \in DOMAIN map : map[k] = b /\ b # 0
      BY DEF Listed
    <3>2. k # i
      BY <2>2, <2>6, <3>1
    <3> QED
      BY <2>3, <3>1, <3>2 DEF Listed
  <2> QED
    BY <2>4, <2>5, <2>6 DEF s
<1> QED
  BY <1>3, <1>4

\* The authorizers that waited, put one after the other: the recursion has a solution.
LEMMA PutAllUnfolds ==
  ASSUME NEW map, NEW as, Len(authorizer) \in Nat
  PROVE  \E g : /\ g[0] = map /\ PutAll(map, as) = g[Len(authorizer)]
                /\ \A i \in 1..Len(authorizer) : g[i] = IF i \in as THEN SetIn(g[i - 1], i) ELSE g[i - 1]
<1> DEFINE n == Len(authorizer)
           Puts(m, i) == SetIn(m, i)
           Solves(g, k) == g = [i \in 0..k |-> IF i = 0 THEN map ELSE IF i \in as THEN Puts(g[i - 1], i) ELSE g[i - 1]]
           S == {k \in Nat : ~\E g : Solves(g, k)}
<1>1. PutAll(map, as) = (CHOOSE g : Solves(g, n))[n]
  BY DEF PutAll
<1> HIDE DEF Puts, n
<1>2. S = {}
  <2> SUFFICES ASSUME S # {} PROVE FALSE
    OBVIOUS
  <2>1. PICK k \in S : \A m \in S : k <= m
    <3> HIDE DEF S
    <3>1. S \subseteq Nat
      BY DEF S
    <3> QED
      BY <3>1, LeastNatural
  <2>2. k \in Nat /\ ~\E g : Solves(g, k)
    BY <2>1
  <2>3. CASE k = 0
    <3> DEFINE g == [i \in 0..0 |-> map]
    <3>1. g = [i \in 0..0 |-> IF i = 0 THEN map ELSE IF i \in as THEN Puts(g[i - 1], i) ELSE g[i - 1]]
      <4>1. \A i \in 0..0 : i = 0
        OBVIOUS
      <4> QED
        BY <4>1
    <3>2. Solves(g, k)
      BY <2>3, <3>1
    <3> QED
      BY <2>2, <3>2
  <2>4. CASE k # 0
    <3>1. k - 1 \in Nat /\ ~(k <= k - 1)
      BY <2>2, <2>4
    <3>2. k - 1 \notin S
      BY <2>1, <3>1
    <3>3. PICK g : Solves(g, k - 1)
      BY <3>1, <3>2
    <3> DEFINE last == IF k \in as THEN Puts(g[k - 1], k) ELSE g[k - 1]
               h == [i \in 0..k |-> IF i = k THEN last ELSE g[i]]
    <3> HIDE DEF last
    <3>4. \A i \in 0..k : h[i] = IF i = k THEN last ELSE g[i]
      OBVIOUS
    <3>5. \A i \in 0..(k - 1) :
            g[i] = IF i = 0 THEN map ELSE IF i \in as THEN Puts(g[i - 1], i) ELSE g[i - 1]
      BY <3>3
    <3>6. ASSUME NEW i \in 0..k
          PROVE  h[i] = IF i = 0 THEN map ELSE IF i \in as THEN Puts(h[i - 1], i) ELSE h[i - 1]
      <4>1. CASE i = k
        <5>1. k - 1 \in 0..k /\ k - 1 # k /\ k \in 0..k
          BY <2>2, <3>1
        <5>2. h[k] = last /\ h[k - 1] = g[k - 1]
          BY <3>4, <5>1
        <5> HIDE DEF h
        <5> QED
          BY <2>4, <4>1, <5>2 DEF last
      <4>2. CASE i # k
        <5>1. i \in 0..(k - 1) /\ (i # 0 => i - 1 \in 0..k /\ i - 1 # k)
          BY <2>2, <4>2
        <5>2. h[i] = g[i] /\ (i # 0 => h[i - 1] = g[i - 1])
          BY <3>4, <4>2, <5>1
        <5> HIDE DEF h
        <5> QED
          BY <3>5, <5>1, <5>2
      <4> QED
        BY <4>1, <4>2
    <3>7. h = [i \in 0..k |-> IF i = 0 THEN map ELSE IF i \in as THEN Puts(h[i - 1], i) ELSE h[i - 1]]
      <4> DEFINE f == [i \in 0..k |-> IF i = 0 THEN map ELSE IF i \in as THEN Puts(h[i - 1], i) ELSE h[i - 1]]
      <4>1. \A i \in 0..k : h[i] = f[i]
        BY <3>6
      <4>2. h = [i \in 0..k |-> h[i]] /\ f = [i \in 0..k |-> f[i]]
        OBVIOUS
      <4> HIDE DEF h, f
      <4>3. h = f
        BY <4>1, <4>2
      <4> QED
        BY <4>3 DEF f
    <3> HIDE DEF h
    <3> QED
      BY <2>2, <3>7
  <2> QED
    BY <2>3, <2>4
<1> DEFINE g == CHOOSE g : Solves(g, n)
<1>3. Solves(g, n)
  <2>1. n \in Nat
    BY DEF n
  <2>2. \E f : Solves(f, n)
    BY <1>2, <2>1
  <2> HIDE DEF Solves
  <2> QED
    BY <2>2
<1> HIDE DEF g
<1>4. n \in Nat /\ 0 \in 0..n /\ \A i \in 1..n : i \in 0..n /\ i # 0
  BY DEF n
<1>5. \A i \in 0..n : g[i] = IF i = 0 THEN map ELSE IF i \in as THEN Puts(g[i - 1], i) ELSE g[i - 1]
  BY <1>3
<1>6. g[0] = map
  BY <1>4, <1>5
<1>7. \A i \in 1..n : g[i] = IF i \in as THEN Puts(g[i - 1], i) ELSE g[i - 1]
  BY <1>4, <1>5
<1>8. PutAll(map, as) = g[n]
  BY <1>1 DEF g
<1> QED
  BY <1>6, <1>7, <1>8 DEF Puts, n

LEMMA DispatchTyped ==
  ASSUME DispatchInv
  PROVE  /\ Len(authorizer) \in Nat /\ DOMAIN authorizer = 1..Len(authorizer)
         /\ Len(subscription) \in Nat /\ DOMAIN subscription = 1..Len(subscription)
         /\ Len(envelope) \in Nat /\ DOMAIN envelope = 1..Len(envelope)
         /\ \A e \in DOMAIN envelope : envelope[e] \in Dispatched
  BY LenProperties, ElementOfSeq DEF DispatchInv

\* Envelopes under way do not mind how the maps age.
LEMMA EnvelopesAge ==
  ASSUME DispatchInv, UNCHANGED envelope,
         scopeAuthorizers' \in Seq(Nat), Ages(scopeAuthorizers, scopeAuthorizers', Len(authorizer)),
         scopeListeners' \in Seq(Nat), Ages(scopeListeners, scopeListeners', Len(subscription))
  PROVE  \A e \in DOMAIN envelope' :
           /\ envelope'[e].asks \subseteq 1..Len(authorizer) /\ envelope'[e].tells \subseteq 1..Len(subscription)
           /\ DispatchFits(envelope'[e], scopeAuthorizers', scopeListeners')
<1> SUFFICES ASSUME NEW e \in DOMAIN envelope
             PROVE  /\ envelope[e].asks \subseteq 1..Len(authorizer) /\ envelope[e].tells \subseteq 1..Len(subscription)
                    /\ DispatchFits(envelope[e], scopeAuthorizers', scopeListeners')
  OBVIOUS
<1> DEFINE v == envelope[e]
           n == Len(authorizer)
           k == Len(subscription)
<1>1. v.asks \subseteq 1..n /\ v.tells \subseteq 1..k /\ DispatchFits(v, scopeAuthorizers, scopeListeners)
  BY DEF DispatchInv
<1>2. n \in Nat /\ k \in Nat
  BY DispatchTyped
<1> HIDE DEF v
<1>3. DispatchFits(v, scopeAuthorizers', scopeListeners')
  BY <1>1, <1>2, AgesFits
<1> QED
  BY <1>1, <1>3 DEF v

LEMMA RegisterInv ==
  ASSUME DispatchInv, NEW p \in ScopePrefixes, registerScopeAuthorizer(p)
  PROVE  DispatchInv'
<1> DEFINE n == Len(authorizer)
           a == n + 1
           entry == [prefix |-> p, held |-> TRUE]
<1>1. /\ authorizer' = Append(authorizer, entry)
      /\ UNCHANGED <<created, subscription, scopeListeners, envelope, usurped>>
      /\ \/ created /\ scopeAuthorizers' = SetIn(scopeAuthorizers, a) /\ UNCHANGED pendingScopeAuthorizers
         \/ ~created /\ pendingScopeAuthorizers' = pendingScopeAuthorizers \cup {a} /\ UNCHANGED scopeAuthorizers
  BY DEF registerScopeAuthorizer
<1>2. n \in Nat /\ a \in Nat \ {0} /\ a - 1 = n /\ DOMAIN authorizer = 1..n
  BY DispatchTyped
<1>3. entry \in [prefix : ScopePrefixes, held : BOOLEAN]
  OBVIOUS
<1> HIDE DEF entry
<1>4. /\ authorizer' \in Seq([prefix : ScopePrefixes, held : BOOLEAN]) /\ Len(authorizer') = a
      /\ authorizer'[a] = entry /\ \A i \in 1..n : authorizer'[i] = authorizer[i]
  BY <1>1, <1>3, AppendProperties DEF DispatchInv
<1>5. DOMAIN authorizer' = 1..a
  BY <1>4, LenProperties
<1>6. \A b \in DOMAIN authorizer' : InForce(b)' =>
        b = a \/ (b \in 1..n /\ InForce(b) /\ authorizer'[b].prefix # authorizer'[a].prefix)
  <2> SUFFICES ASSUME NEW b \in DOMAIN authorizer', InForce(b)', b # a
               PROVE  b \in 1..n /\ InForce(b) /\ authorizer'[b].prefix # authorizer'[a].prefix
    OBVIOUS
  <2>1. b \in 1..n /\ a > b /\ a \in DOMAIN authorizer'
    BY <1>2, <1>5
  <2>2. \A c \in 1..n : c \in DOMAIN authorizer'
    BY <1>2, <1>5
  <2> QED
    BY <1>1, <1>2, <1>4, <2>1, <2>2 DEF InForce
<1>7. scopeListeners' \in Seq(Nat) /\ Ages(scopeListeners, scopeListeners', Len(subscription))
  BY <1>1, AgesSame DEF DispatchInv
<1>8. 1..n \subseteq 1..a
  BY <1>2
<1>9. ASSUME scopeAuthorizers' \in Seq(Nat), Ages(scopeAuthorizers, scopeAuthorizers', n)
      PROVE  \A e \in DOMAIN envelope' :
               /\ envelope'[e].asks \subseteq 1..Len(authorizer') /\ envelope'[e].tells \subseteq 1..Len(subscription')
               /\ DispatchFits(envelope'[e], scopeAuthorizers', scopeListeners')
  BY <1>1, <1>4, <1>7, <1>8, <1>9, EnvelopesAge
<1>10. CASE created
  <2>1. /\ scopeAuthorizers' = SetIn(scopeAuthorizers, a) /\ UNCHANGED pendingScopeAuthorizers /\ created' = created
    BY <1>1, <1>10
  <2>2. /\ scopeAuthorizers' \in Seq(Nat) /\ a \in Listed(scopeAuthorizers')
        /\ Listed(scopeAuthorizers') \subseteq Listed(scopeAuthorizers) \cup {a}
        /\ \A b \in Listed(scopeAuthorizers) :
              authorizer'[b].prefix # authorizer'[a].prefix => b \in Listed(scopeAuthorizers')
        /\ Ages(scopeAuthorizers, scopeAuthorizers', n)
    <3>1. scopeAuthorizers \in Seq(Nat)
      BY DEF DispatchInv
    <3> HIDE DEF n, a
    <3>2. Ages(scopeAuthorizers, SetIn(scopeAuthorizers, a), a - 1)
      BY <1>2, <3>1, SetInEffect
    <3>3. Ages(scopeAuthorizers, SetIn(scopeAuthorizers, a), n)
      BY <1>2, <3>2
    <3> QED
      BY <1>2, <2>1, <3>1, <3>3, SetInEffect
  <2>3. Listed(scopeAuthorizers') \subseteq 1..a
    BY <1>2, <1>8, <2>2 DEF DispatchInv
  <2>4. \A b \in DOMAIN authorizer' : InForce(b)' => b \in Listed(scopeAuthorizers')
    BY <1>2, <1>6, <1>10, <2>2 DEF DispatchInv
  <2> HIDE DEF n, a
  <2> QED
    BY <1>1, <1>4, <1>9, <1>10, <2>1, <2>2, <2>3, <2>4 DEF DispatchInv, n
<1>11. CASE ~created
  <2>1. /\ scopeAuthorizers' = scopeAuthorizers /\ pendingScopeAuthorizers' = pendingScopeAuthorizers \cup {a}
        /\ created' = created
    BY <1>1, <1>11
  <2>2. Ages(scopeAuthorizers, scopeAuthorizers', n) /\ scopeAuthorizers' \in Seq(Nat)
    BY <2>1, AgesSame DEF DispatchInv
  <2>3. Listed(scopeAuthorizers') \subseteq 1..a /\ pendingScopeAuthorizers' \subseteq 1..a
    <3>1. Listed(scopeAuthorizers) \subseteq 1..n /\ pendingScopeAuthorizers \subseteq 1..n /\ a \in 1..a
      BY <1>2 DEF DispatchInv
    <3> HIDE DEF n, a
    <3> QED
      BY <1>8, <2>1, <3>1
  <2>4. \A b \in DOMAIN authorizer' : InForce(b)' => b \in pendingScopeAuthorizers'
    BY <1>2, <1>6, <1>11, <2>1 DEF DispatchInv
  <2> HIDE DEF n, a
  <2> QED
    BY <1>1, <1>4, <1>9, <1>11, <2>1, <2>2, <2>3, <2>4 DEF DispatchInv, n
<1> QED
  BY <1>10, <1>11

LEMMA UnregisterInv ==
  ASSUME DispatchInv, NEW a \in DOMAIN authorizer, unregister(a)
  PROVE  DispatchInv'
<1> DEFINE out == {scopeAuthorizers[i] : i \in AtPrefix(scopeAuthorizers, authorizer[a].prefix)}
<1>1. /\ authorizer' = [authorizer EXCEPT ![a].held = FALSE]
      /\ scopeAuthorizers' = Deleted(scopeAuthorizers, out) /\ usurped' = usurped \cup (out \ {a})
      /\ pendingScopeAuthorizers' = pendingScopeAuthorizers \ {a}
      /\ UNCHANGED <<created, subscription, scopeListeners, envelope>>
  BY DEF unregister
<1> HIDE DEF out
<1> DEFINE Auth == [prefix : ScopePrefixes, held : BOOLEAN]
           new == [authorizer[a] EXCEPT !.held = FALSE]
<1>2. /\ Len(authorizer) \in Nat /\ DOMAIN authorizer = 1..Len(authorizer)
      /\ \A i \in 1..Len(authorizer) : authorizer[i] \in Auth
  BY DispatchTyped, ElementOfSeq DEF DispatchInv
<1>3. new \in Auth /\ new.prefix = authorizer[a].prefix /\ new.held = FALSE
  <2>1. authorizer[a] \in Auth
    BY <1>2
  <2> QED
    BY <2>1
<1>4. authorizer \in [1..Len(authorizer) -> Auth]
  <2>1. authorizer \in Seq(Auth)
    BY DEF DispatchInv
  <2> QED
    BY <2>1, SeqDef, LenProperties
<1> HIDE DEF new, Auth
<1>5. /\ authorizer' \in [1..Len(authorizer) -> Auth]
      /\ \A i \in 1..Len(authorizer) : authorizer'[i] = IF i = a THEN new ELSE authorizer[i]
  <2>1. authorizer' = [authorizer EXCEPT ![a] = new]
    BY <1>1 DEF new
  <2> QED
    BY <1>2, <1>3, <1>4, <2>1
<1>6. authorizer' \in Seq(Auth) /\ DOMAIN authorizer' = 1..Len(authorizer) /\ Len(authorizer') = Len(authorizer)
  <2>1. authorizer' \in Seq(Auth) /\ DOMAIN authorizer' = 1..Len(authorizer)
    BY <1>2, <1>5, SeqDef
  <2>2. DOMAIN authorizer' = 1..Len(authorizer') /\ Len(authorizer') \in Nat
    BY <2>1, LenProperties
  <2> QED
    BY <1>2, <2>1, <2>2
<1>7. \A b \in DOMAIN authorizer' : InForce(b)' => b \in DOMAIN authorizer /\ b # a /\ b \notin out /\ InForce(b)
  BY <1>1, <1>2, <1>3, <1>5, <1>6 DEF InForce
<1>8. /\ scopeAuthorizers' \in Seq(Nat) /\ Listed(scopeAuthorizers') = Listed(scopeAuthorizers) \ out
      /\ Ages(scopeAuthorizers, scopeAuthorizers', Len(authorizer))
  BY <1>1, DeletedEffect DEF DispatchInv
<1>9. scopeListeners' \in Seq(Nat) /\ Ages(scopeListeners, scopeListeners', Len(subscription))
  BY <1>1, AgesSame DEF DispatchInv
<1>10. \A e \in DOMAIN envelope' :
         /\ envelope'[e].asks \subseteq 1..Len(authorizer') /\ envelope'[e].tells \subseteq 1..Len(subscription')
         /\ DispatchFits(envelope'[e], scopeAuthorizers', scopeListeners')
  BY <1>1, <1>6, <1>8, <1>9, EnvelopesAge
<1>11. ~created => scopeAuthorizers' = <<>>
  <2> SUFFICES ASSUME ~created PROVE scopeAuthorizers' = <<>>
    OBVIOUS
  <2>1. scopeAuthorizers = <<>>
    BY DEF DispatchInv
  <2>2. Deleted(<<>>, out) = <<>>
    <3> DEFINE d == Deleted(<<>>, out)
    <3>1. d \in Seq(Nat)
      BY DeletedEffect, EmptySeq
    <3>2. DOMAIN d = {}
      BY EmptySeq DEF Deleted
    <3> HIDE DEF d
    <3>3. Len(d) = 0
      <4>1. DOMAIN d = 1..Len(d) /\ Len(d) \in Nat
        BY <3>1, LenProperties
      <4> QED
        BY <3>2, <4>1
    <3> QED
      BY <3>1, <3>3, EmptySeq DEF d
  <2> QED
    BY <1>1, <2>1, <2>2
<1>12. \A b \in DOMAIN authorizer' : InForce(b)' =>
         b \in (IF created THEN Listed(scopeAuthorizers') ELSE pendingScopeAuthorizers')
  BY <1>1, <1>7, <1>8 DEF DispatchInv
<1>13. Listed(scopeAuthorizers') \subseteq 1..Len(authorizer') /\ pendingScopeAuthorizers' \subseteq 1..Len(authorizer')
  BY <1>1, <1>6, <1>8 DEF DispatchInv
<1> QED
  BY <1>1, <1>6, <1>8, <1>10, <1>11, <1>12, <1>13 DEF DispatchInv, Auth

LEMMA GetRegistryInv ==
  ASSUME DispatchInv, getLinkRegistry
  PROVE  DispatchInv'
<1> DEFINE n == Len(authorizer)
           as == pendingScopeAuthorizers
<1>1. /\ ~created /\ created' = TRUE /\ authorizer' = authorizer
      /\ scopeAuthorizers' = PutAll(scopeAuthorizers, as) /\ pendingScopeAuthorizers' = {}
      /\ UNCHANGED <<subscription, scopeListeners, envelope, usurped>>
  BY DEF getLinkRegistry
<1>2. scopeAuthorizers = <<>> /\ envelope = <<>> /\ n \in Nat /\ DOMAIN authorizer = 1..n /\ as \subseteq 1..n
  BY <1>1, DispatchTyped DEF DispatchInv
<1>3. PICK g : /\ g[0] = <<>> /\ PutAll(<<>>, as) = g[n]
               /\ \A i \in 1..n : g[i] = IF i \in as THEN SetIn(g[i - 1], i) ELSE g[i - 1]
  BY <1>2, PutAllUnfolds
<1> DEFINE Lists(i) == /\ g[i] \in Seq(Nat) /\ Listed(g[i]) \subseteq 1..i
                       /\ \A b \in as : b <= i /\ (\A c \in 1..i : c > b => authorizer[c].prefix # authorizer[b].prefix)
                           => b \in Listed(g[i])
           Bad == {i \in 0..n : ~Lists(i)}
<1>4. Bad = {}
  <2> SUFFICES ASSUME Bad # {} PROVE FALSE
    OBVIOUS
  <2>1. PICK i \in Bad : \A j \in Bad : i <= j
    <3>1. Bad \subseteq Nat
      BY <1>2
    <3> HIDE DEF Bad
    <3> QED
      BY <3>1, LeastNatural
  <2>2. i \in 0..n /\ ~Lists(i)
    BY <2>1
  <2>3. CASE i = 0
    <3>1. <<>> \in Seq(Nat) /\ Listed(<<>>) = {}
      BY EmptySeq DEF Listed
    <3>2. \A b \in as : ~(b <= 0)
      BY <1>2
    <3> QED
      BY <1>3, <2>2, <2>3, <3>1, <3>2
  <2>4. CASE i # 0
    <3>1. i \in 1..n /\ i - 1 \in 0..n /\ ~(i <= i - 1) /\ i \in Nat \ {0} /\ i - 1 \in Nat
      BY <1>2, <2>2, <2>4
    <3>2. Lists(i - 1)
      BY <2>1, <3>1
    <3>3. 1..(i - 1) \subseteq 1..i /\ i \in 1..i
      BY <3>1
    <3> DEFINE map == g[i - 1]
    <3>4. map \in Seq(Nat) /\ Listed(map) \subseteq 1..(i - 1)
      BY <3>2
    <3>5. \A b \in as : b <= i - 1 /\ (\A c \in 1..(i - 1) : c > b => authorizer[c].prefix # authorizer[b].prefix)
            => b \in Listed(map)
      BY <3>2
    <3>6. CASE i \notin as
      <4>1. g[i] = map
        BY <1>3, <3>1, <3>6
      <4>2. \A b \in as : b <= i => b <= i - 1
        BY <1>2, <3>1, <3>6
      <4>3. Lists(i)
        <5> HIDE DEF map
        <5> QED
          BY <3>3, <3>4, <3>5, <4>1, <4>2
      <4> QED
        BY <2>2, <4>3
    <3>7. CASE i \in as
      <4>1. g[i] = SetIn(map, i)
        BY <1>3, <3>1, <3>7
      <4> HIDE DEF map
      <4>2. /\ SetIn(map, i) \in Seq(Nat) /\ i \in Listed(SetIn(map, i))
            /\ Listed(SetIn(map, i)) \subseteq Listed(map) \cup {i}
            /\ \A b \in Listed(map) : authorizer'[b].prefix # authorizer'[i].prefix => b \in Listed(SetIn(map, i))
        BY <3>1, <3>4, SetInEffect
      <4>3. Listed(g[i]) \subseteq 1..i
        BY <3>3, <3>4, <4>1, <4>2
      <4>4. ASSUME NEW b \in as, b <= i, \A c \in 1..i : c > b => authorizer[c].prefix # authorizer[b].prefix
            PROVE  b \in Listed(g[i])
        <5>1. CASE b = i
          BY <4>1, <4>2, <5>1
        <5>2. CASE b # i
          <6>1. b <= i - 1 /\ i > b
            BY <1>2, <3>1, <4>4, <5>2
          <6>2. b \in Listed(map)
            BY <3>3, <3>5, <4>4, <6>1
          <6>3. authorizer[i].prefix # authorizer[b].prefix
            BY <3>3, <4>4, <6>1
          <6> QED
            BY <1>1, <4>1, <4>2, <6>2, <6>3
        <5> QED
          BY <5>1, <5>2
      <4>5. Lists(i)
        BY <4>1, <4>2, <4>3, <4>4
      <4> QED
        BY <2>2, <4>5
    <3> QED
      BY <3>6, <3>7
  <2> QED
    BY <2>3, <2>4
<1>5. Lists(n)
  <2>1. n \in 0..n
    BY <1>2
  <2> QED
    BY <1>4, <2>1
<1>6. scopeAuthorizers' = g[n]
  BY <1>1, <1>2, <1>3
<1>7. scopeAuthorizers' \in Seq(Nat) /\ Listed(scopeAuthorizers') \subseteq 1..n
  BY <1>5, <1>6
<1>8. \A b \in DOMAIN authorizer : InForce(b)' => b \in Listed(scopeAuthorizers')
  <2> SUFFICES ASSUME NEW b \in DOMAIN authorizer, InForce(b)' PROVE b \in Listed(scopeAuthorizers')
    OBVIOUS
  <2>1. InForce(b)
    BY <1>1 DEF InForce
  <2>2. b \in as /\ b <= n
    BY <1>1, <1>2, <2>1 DEF DispatchInv
  <2>3. \A c \in 1..n : c > b => authorizer[c].prefix # authorizer[b].prefix
    BY <1>2, <2>1 DEF InForce
  <2> QED
    BY <1>5, <1>6, <2>2, <2>3
<1>9. DOMAIN envelope' = {} /\ envelope' \in Seq(Dispatched)
  BY <1>1, <1>2, EmptySeq
<1>10. {} \subseteq 1..Len(authorizer')
  OBVIOUS
<1> HIDE DEF n, as, Lists, Bad
<1> QED
  BY <1>1, <1>7, <1>8, <1>9, <1>10 DEF DispatchInv, n

LEMMA SubscribeScopeInv ==
  ASSUME DispatchInv, subscribeScope
  PROVE  DispatchInv'
<1> DEFINE k == Len(subscription)
<1>1. /\ created /\ subscription' = Append(subscription, "on") /\ scopeListeners' = Append(scopeListeners, k + 1)
      /\ UNCHANGED <<created, authorizer, pendingScopeAuthorizers, scopeAuthorizers, envelope, usurped>>
  BY DEF subscribeScope
<1>2. k \in Nat /\ k + 1 \in Nat
  BY DispatchTyped
<1>3. subscription' \in Seq({"on", "off"}) /\ Len(subscription') = k + 1
  BY <1>1, AppendProperties DEF DispatchInv
<1>4. /\ scopeListeners' \in Seq(Nat) /\ Len(scopeListeners') = Len(scopeListeners) + 1
      /\ scopeListeners'[Len(scopeListeners) + 1] = k + 1
      /\ \A i \in 1..Len(scopeListeners) : scopeListeners'[i] = scopeListeners[i]
  BY <1>1, <1>2, AppendProperties DEF DispatchInv
<1>5. DOMAIN scopeListeners = 1..Len(scopeListeners) /\ DOMAIN scopeListeners' = 1..(Len(scopeListeners) + 1)
      /\ Len(scopeListeners) \in Nat
  BY <1>4, LenProperties DEF DispatchInv
<1>6. \A i \in DOMAIN scopeListeners' : i \in DOMAIN scopeListeners \/ i = Len(scopeListeners) + 1
  BY <1>5
<1>7. Ages(scopeListeners, scopeListeners', k)
  BY <1>2, <1>4, <1>5, <1>6 DEF Ages
<1>8. Listed(scopeListeners') \subseteq Listed(scopeListeners) \cup {k + 1}
  BY <1>4, <1>5, <1>6 DEF Listed
<1>9. Listed(scopeListeners') \subseteq 1..(k + 1) /\ 1..k \subseteq 1..(k + 1)
  BY <1>2, <1>8 DEF DispatchInv
<1>10. scopeAuthorizers' \in Seq(Nat) /\ Ages(scopeAuthorizers, scopeAuthorizers', Len(authorizer))
  BY <1>1, AgesSame DEF DispatchInv
<1>11. \A e \in DOMAIN envelope' :
         /\ envelope'[e].asks \subseteq 1..Len(authorizer) /\ envelope'[e].tells \subseteq 1..k
         /\ DispatchFits(envelope'[e], scopeAuthorizers', scopeListeners')
  BY <1>1, <1>4, <1>7, <1>10, EnvelopesAge
<1>12. \A e \in DOMAIN envelope' :
         /\ envelope'[e].asks \subseteq 1..Len(authorizer') /\ envelope'[e].tells \subseteq 1..Len(subscription')
         /\ DispatchFits(envelope'[e], scopeAuthorizers', scopeListeners')
  BY <1>1, <1>3, <1>9, <1>11
<1>13. \A b : InForce(b)' <=> InForce(b)
  BY <1>1 DEF InForce
<1> HIDE DEF k
<1> QED
  BY <1>1, <1>3, <1>4, <1>9, <1>12, <1>13 DEF DispatchInv

LEMMA UnsubscribeScopeInv ==
  ASSUME DispatchInv, NEW l \in DOMAIN subscription, unsubscribe(l)
  PROVE  DispatchInv'
<1>1. /\ subscription' = [subscription EXCEPT ![l] = "off"] /\ scopeListeners' = Deleted(scopeListeners, {l})
      /\ UNCHANGED <<created, authorizer, pendingScopeAuthorizers, scopeAuthorizers, envelope, usurped>>
  BY DEF unsubscribe
<1>2. subscription' \in Seq({"on", "off"}) /\ Len(subscription') = Len(subscription)
  <2>1. subscription \in [1..Len(subscription) -> {"on", "off"}] /\ Len(subscription) \in Nat
    BY LenProperties, SeqDef DEF DispatchInv
  <2>2. subscription' \in [1..Len(subscription) -> {"on", "off"}]
    BY <1>1, <2>1
  <2>3. subscription' \in Seq({"on", "off"}) /\ DOMAIN subscription' = 1..Len(subscription)
    BY <2>1, <2>2, SeqDef
  <2>4. DOMAIN subscription' = 1..Len(subscription') /\ Len(subscription') \in Nat
    BY <2>3, LenProperties
  <2> QED
    BY <2>1, <2>3, <2>4
<1>3. /\ scopeListeners' \in Seq(Nat) /\ Listed(scopeListeners') = Listed(scopeListeners) \ {l}
      /\ Ages(scopeListeners, scopeListeners', Len(subscription))
  BY <1>1, DeletedEffect DEF DispatchInv
<1>4. scopeAuthorizers' \in Seq(Nat) /\ Ages(scopeAuthorizers, scopeAuthorizers', Len(authorizer))
  BY <1>1, AgesSame DEF DispatchInv
<1>5. \A e \in DOMAIN envelope' :
        /\ envelope'[e].asks \subseteq 1..Len(authorizer') /\ envelope'[e].tells \subseteq 1..Len(subscription')
        /\ DispatchFits(envelope'[e], scopeAuthorizers', scopeListeners')
  BY <1>1, <1>2, <1>3, <1>4, EnvelopesAge
<1>6. \A b : InForce(b)' <=> InForce(b)
  BY <1>1 DEF InForce
<1> QED
  BY <1>1, <1>2, <1>3, <1>5, <1>6 DEF DispatchInv

\* A step of one envelope.
LEMMA EnvelopeBecomes ==
  ASSUME DispatchInv, created, NEW e \in DOMAIN envelope, NEW v, v \in Dispatched,
         envelope' = [envelope EXCEPT ![e] = v],
         v.asks = envelope[e].asks, v.tells = envelope[e].tells,
         DispatchFits(v, scopeAuthorizers, scopeListeners),
         UNCHANGED <<created, authorizer, pendingScopeAuthorizers, scopeAuthorizers, subscription,
                     scopeListeners, usurped>>
  PROVE  DispatchInv'
<1>1. envelope \in [1..Len(envelope) -> Dispatched] /\ Len(envelope) \in Nat /\ DOMAIN envelope = 1..Len(envelope)
  BY LenProperties, SeqDef DEF DispatchInv
<1>2. envelope' \in [1..Len(envelope) -> Dispatched]
      /\ \A d \in DOMAIN envelope : envelope'[d] = IF d = e THEN v ELSE envelope[d]
  BY <1>1
<1>3. envelope' \in Seq(Dispatched) /\ DOMAIN envelope' = DOMAIN envelope
  BY <1>1, <1>2, SeqDef
<1>4. \A d \in DOMAIN envelope' :
        /\ envelope'[d].asks \subseteq 1..Len(authorizer') /\ envelope'[d].tells \subseteq 1..Len(subscription')
        /\ DispatchFits(envelope'[d], scopeAuthorizers', scopeListeners')
  BY <1>2, <1>3 DEF DispatchInv
<1>5. \A b : InForce(b)' <=> InForce(b)
  BY DEF InForce
<1> QED
  BY <1>3, <1>4, <1>5 DEF DispatchInv

LEMMA DispatchInvStep ==
  ASSUME DispatchInv, dispatchEnvelope
  PROVE  DispatchInv'
<1> DEFINE v == [st |-> "asks", at |-> 0, awaited |-> 0, approved |-> {}, got |-> {},
                 asks |-> Listed(scopeAuthorizers), tells |-> Listed(scopeListeners)]
<1>1. /\ created /\ envelope' = Append(envelope, v)
      /\ UNCHANGED <<created, authorizer, pendingScopeAuthorizers, scopeAuthorizers, subscription,
                     scopeListeners, usurped>>
  BY DEF dispatchEnvelope
<1>2. /\ Listed(scopeAuthorizers) \subseteq 1..Len(authorizer) /\ Listed(scopeListeners) \subseteq 1..Len(subscription)
      /\ Len(authorizer) \in Nat /\ Len(subscription) \in Nat
  BY DispatchTyped DEF DispatchInv
<1>3. Listed(scopeAuthorizers) \in SUBSET Nat /\ Listed(scopeListeners) \in SUBSET Nat
  BY <1>2
<1>4. /\ v.st = "asks" /\ v.at = 0 /\ v.awaited = 0 /\ v.got = {} /\ v.asks = Listed(scopeAuthorizers)
      /\ v.tells = Listed(scopeListeners) /\ v \in Dispatched
  BY <1>3 DEF Dispatched
<1> HIDE DEF v
<1>5. DispatchFits(v, scopeAuthorizers, scopeListeners)
  <2>1. \A i \in DOMAIN scopeAuthorizers : ~(i <= 0)
    BY LenProperties DEF DispatchInv
  <2> QED
    BY <1>4, <2>1 DEF DispatchFits, MetUpTo
<1>6. /\ envelope' \in Seq(Dispatched) /\ Len(envelope') = Len(envelope) + 1 /\ envelope'[Len(envelope) + 1] = v
      /\ \A d \in 1..Len(envelope) : envelope'[d] = envelope[d]
  BY <1>1, <1>4, AppendProperties DEF DispatchInv
<1>7. DOMAIN envelope' = 1..(Len(envelope) + 1) /\ DOMAIN envelope = 1..Len(envelope) /\ Len(envelope) \in Nat
  BY <1>6, LenProperties, DispatchTyped
<1>8. \A d \in DOMAIN envelope' : d \in DOMAIN envelope \/ d = Len(envelope) + 1
  BY <1>7
<1>9. \A d \in DOMAIN envelope' :
        /\ envelope'[d].asks \subseteq 1..Len(authorizer') /\ envelope'[d].tells \subseteq 1..Len(subscription')
        /\ DispatchFits(envelope'[d], scopeAuthorizers', scopeListeners')
  BY <1>1, <1>2, <1>4, <1>5, <1>6, <1>7, <1>8 DEF DispatchInv
<1>10. \A b : InForce(b)' <=> InForce(b)
  BY <1>1 DEF InForce
<1> QED
  BY <1>1, <1>6, <1>9, <1>10 DEF DispatchInv

\* The next entry is awaited, or the loop is over: all there are have been met.
LEMMA CallsEffect ==
  ASSUME DispatchInv, NEW e \in DOMAIN envelope, NEW map \in Seq(Nat), NEW next \in {"tells", "done"},
         Calls(e, map, next)
  PROVE  \E v : /\ v \in Dispatched /\ envelope' = [envelope EXCEPT ![e] = v]
                /\ v.asks = envelope[e].asks /\ v.tells = envelope[e].tells /\ v.approved = envelope[e].approved
                /\ \/ /\ v.st = next /\ v.at = 0 /\ v.awaited = envelope[e].awaited /\ v.got = envelope[e].got
                      /\ \A i \in DOMAIN map : map[i] # 0 => i <= envelope[e].at
                   \/ /\ v.st = envelope[e].st /\ v.at \in DOMAIN map /\ v.awaited = map[v.at] /\ map[v.at] # 0
                      /\ \A i \in DOMAIN map : map[i] # 0 /\ i <= v.at => i <= envelope[e].at \/ i = v.at
                      /\ v.got = IF envelope[e].st = "tells" THEN envelope[e].got \cup {map[v.at]} ELSE envelope[e].got
<1> DEFINE o == envelope[e]
           rest == After(map, o.at)
<1>1. o \in Dispatched /\ o.at \in Nat
  BY DispatchTyped DEF Dispatched
<1>2. DOMAIN map = 1..Len(map) /\ Len(map) \in Nat /\ \A i \in DOMAIN map : map[i] \in Nat /\ i \in Nat
  BY LenProperties, ElementOfSeq
<1>3. envelope \in [DOMAIN envelope -> Dispatched]
  BY LenProperties, SeqDef DEF DispatchInv
<1>4. CASE rest = {}
  <2> DEFINE v == [o EXCEPT !.st = next, !.at = 0]
  <2>1. envelope' = [envelope EXCEPT ![e].st = next, ![e].at = 0]
    BY <1>4 DEF Calls
  <2>2. envelope' = [envelope EXCEPT ![e] = v]
    BY <1>3, <2>1
  <2> HIDE DEF o
  <2>3. /\ v \in Dispatched /\ v.st = next /\ v.at = 0 /\ v.awaited = o.awaited /\ v.got = o.got
        /\ v.asks = o.asks /\ v.tells = o.tells /\ v.approved = o.approved
    BY <1>1 DEF Dispatched
  <2>4. \A i \in DOMAIN map : map[i] # 0 => i <= o.at
    BY <1>1, <1>2, <1>4 DEF After
  <2> HIDE DEF v
  <2> QED
    BY <2>2, <2>3, <2>4 DEF o
<1>5. CASE rest # {}
  <2>1. PICK i \in rest : /\ \A k \in rest : i <= k
                          /\ envelope' = [envelope EXCEPT ![e].at = i, ![e].awaited = map[i],
                               ![e].got = IF envelope[e].st = "tells" THEN @ \cup {map[i]} ELSE @]
    BY <1>5 DEF Calls
  <2> DEFINE j == map[i]
             got == IF o.st = "tells" THEN o.got \cup {j} ELSE o.got
             v == [o EXCEPT !.at = i, !.awaited = j, !.got = got]
  <2>2. envelope' = [envelope EXCEPT ![e] = v]
    BY <1>3, <2>1
  <2>3. i \in DOMAIN map /\ i \in Nat /\ j \in Nat /\ j # 0 /\ i > o.at
    BY <1>2 DEF After
  <2>4. got \in SUBSET Nat
    BY <1>1, <2>3 DEF Dispatched
  <2>5. \A k \in DOMAIN map : map[k] # 0 /\ k <= i => k <= o.at \/ k = i
    <3> SUFFICES ASSUME NEW k \in DOMAIN map, map[k] # 0, k <= i, ~(k <= o.at) PROVE k = i
      OBVIOUS
    <3>1. k > o.at /\ k \in Nat
      BY <1>1, <1>2
    <3>2. k \in rest
      BY <3>1 DEF After
    <3>3. i <= k
      BY <2>1, <3>2
    <3> QED
      BY <2>3, <3>1, <3>3
  <2> HIDE DEF o, j, got
  <2>6. /\ v \in Dispatched /\ v.st = o.st /\ v.at = i /\ v.awaited = j /\ v.got = got
        /\ v.asks = o.asks /\ v.tells = o.tells /\ v.approved = o.approved
    BY <1>1, <2>3, <2>4 DEF Dispatched
  <2> HIDE DEF v
  <2> QED
    BY <2>2, <2>3, <2>5, <2>6 DEF o, j, got
<1> QED
  BY <1>4, <1>5

LEMMA DispatchesInv ==
  ASSUME DispatchInv, NEW e \in DOMAIN envelope, Dispatches(e)
  PROVE  DispatchInv'
<1> DEFINE o == envelope[e]
<1>1. /\ o.awaited = 0
      /\ (o.st = "asks" /\ Calls(e, scopeAuthorizers, "tells")) \/ (o.st = "tells" /\ Calls(e, scopeListeners, "done"))
      /\ UNCHANGED <<created, authorizer, pendingScopeAuthorizers, scopeAuthorizers, subscription,
                     scopeListeners, usurped>>
  BY DEF Dispatches
<1>2. created
  BY EmptySeq DEF DispatchInv
<1>3. /\ o \in Dispatched /\ DispatchFits(o, scopeAuthorizers, scopeListeners)
      /\ o.asks \subseteq 1..Len(authorizer) /\ o.tells \subseteq 1..Len(subscription)
  BY DispatchTyped DEF DispatchInv
<1>4. \A i \in DOMAIN scopeListeners : i \in Nat /\ ~(i <= 0)
  BY LenProperties DEF DispatchInv
<1>5. CASE o.st = "asks" /\ Calls(e, scopeAuthorizers, "tells")
  <2> DEFINE map == scopeAuthorizers
  <2>1. map \in Seq(Nat)
    BY DEF DispatchInv
  <2>2. PICK v : /\ v \in Dispatched /\ envelope' = [envelope EXCEPT ![e] = v]
                 /\ v.asks = o.asks /\ v.tells = o.tells /\ v.approved = o.approved
                 /\ \/ /\ v.st = "tells" /\ v.at = 0 /\ v.awaited = o.awaited /\ v.got = o.got
                       /\ \A i \in DOMAIN map : map[i] # 0 => i <= o.at
                    \/ /\ v.st = o.st /\ v.at \in DOMAIN map /\ v.awaited = map[v.at] /\ map[v.at] # 0
                       /\ \A i \in DOMAIN map : map[i] # 0 /\ i <= v.at => i <= o.at \/ i = v.at
                       /\ v.got = IF o.st = "tells" THEN o.got \cup {map[v.at]} ELSE o.got
    BY <1>5, <2>1, CallsEffect
  <2> HIDE DEF o
  <2>3. MetUpTo(map, o.at, o.asks, o.approved \cup {0}) /\ o.got = {}
    BY <1>1, <1>3, <1>5 DEF DispatchFits
  <2>4. DispatchFits(v, scopeAuthorizers, scopeListeners)
    <3>1. CASE v.st = "tells"
      <4>1. \A i \in DOMAIN map : map[i] # 0 => i <= o.at
        BY <1>5, <2>2, <3>1
      <4>2. v.asks \cap Listed(map) \subseteq v.approved
        BY <2>2, <2>3, <4>1 DEF MetUpTo, Listed
      <4>3. MetUpTo(scopeListeners, v.at, v.tells, v.got)
        BY <1>4, <1>5, <2>2, <3>1 DEF MetUpTo
      <4> QED
        BY <3>1, <4>2, <4>3 DEF DispatchFits
    <3>2. CASE v.st # "tells"
      <4>1. /\ v.st = "asks" /\ v.awaited = map[v.at] /\ v.got = {}
            /\ \A i \in DOMAIN map : map[i] # 0 /\ i <= v.at => i <= o.at \/ i = v.at
        BY <1>5, <2>2, <2>3, <3>2
      <4>2. MetUpTo(map, v.at, v.asks, v.approved \cup {v.awaited})
        BY <2>2, <2>3, <4>1 DEF MetUpTo
      <4> QED
        BY <4>1, <4>2 DEF DispatchFits
    <3> QED
      BY <3>1, <3>2
  <2> QED
    BY <1>1, <1>2, <2>2, <2>4, EnvelopeBecomes DEF o
<1>6. CASE o.st = "tells" /\ Calls(e, scopeListeners, "done")
  <2> DEFINE map == scopeListeners
  <2>1. map \in Seq(Nat)
    BY DEF DispatchInv
  <2>2. PICK v : /\ v \in Dispatched /\ envelope' = [envelope EXCEPT ![e] = v]
                 /\ v.asks = o.asks /\ v.tells = o.tells /\ v.approved = o.approved
                 /\ \/ /\ v.st = "done" /\ v.at = 0 /\ v.awaited = o.awaited /\ v.got = o.got
                       /\ \A i \in DOMAIN map : map[i] # 0 => i <= o.at
                    \/ /\ v.st = o.st /\ v.at \in DOMAIN map /\ v.awaited = map[v.at] /\ map[v.at] # 0
                       /\ \A i \in DOMAIN map : map[i] # 0 /\ i <= v.at => i <= o.at \/ i = v.at
                       /\ v.got = IF o.st = "tells" THEN o.got \cup {map[v.at]} ELSE o.got
    BY <1>6, <2>1, CallsEffect
  <2> HIDE DEF o
  <2>3. MetUpTo(map, o.at, o.tells, o.got) /\ o.asks \cap Listed(scopeAuthorizers) \subseteq o.approved
    BY <1>3, <1>6 DEF DispatchFits
  <2>4. DispatchFits(v, scopeAuthorizers, scopeListeners)
    <3>1. CASE v.st = "done"
      <4>1. (\A i \in DOMAIN map : map[i] # 0 => i <= o.at) /\ v.got = o.got /\ v.awaited = 0
        BY <1>1, <1>6, <2>2, <3>1
      <4>2. v.tells \cap Listed(map) \subseteq v.got
        BY <2>2, <2>3, <4>1 DEF MetUpTo, Listed
      <4> QED
        BY <2>2, <2>3, <3>1, <4>1, <4>2 DEF DispatchFits
    <3>2. CASE v.st # "done"
      <4>1. /\ v.st = "tells" /\ v.got = o.got \cup {map[v.at]}
            /\ \A i \in DOMAIN map : map[i] # 0 /\ i <= v.at => i <= o.at \/ i = v.at
        BY <1>6, <2>2, <3>2
      <4>2. MetUpTo(map, v.at, v.tells, v.got)
        BY <2>2, <2>3, <4>1 DEF MetUpTo
      <4> QED
        BY <2>2, <2>3, <4>1, <4>2 DEF DispatchFits
    <3> QED
      BY <3>1, <3>2
  <2> QED
    BY <1>1, <1>2, <2>2, <2>4, EnvelopeBecomes DEF o
<1> QED
  BY <1>1, <1>5, <1>6

LEMMA EntryAnswersInv ==
  ASSUME DispatchInv, NEW e \in DOMAIN envelope, NEW ok \in BOOLEAN, EntryAnswers(e, ok)
  PROVE  DispatchInv'
<1> DEFINE o == envelope[e]
           st == IF ok THEN o.st ELSE IF o.st = "asks" THEN "refused" ELSE "threw"
           approved == IF ok /\ o.st = "asks" THEN o.approved \cup {o.awaited} ELSE o.approved
           v == [o EXCEPT !.awaited = 0, !.st = st, !.approved = approved]
<1>1. /\ o.awaited # 0
      /\ envelope' = [envelope EXCEPT ![e].awaited = 0,
           ![e].st = IF ok THEN @ ELSE IF @ = "asks" THEN "refused" ELSE "threw",
           ![e].approved = IF ok /\ envelope[e].st = "asks" THEN @ \cup {envelope[e].awaited} ELSE @]
      /\ UNCHANGED <<created, authorizer, pendingScopeAuthorizers, scopeAuthorizers, subscription,
                     scopeListeners, usurped>>
  BY DEF EntryAnswers
<1>2. envelope \in [DOMAIN envelope -> Dispatched]
  BY LenProperties, SeqDef DEF DispatchInv
<1>3. envelope' = [envelope EXCEPT ![e] = v]
  BY <1>1, <1>2
<1>4. o \in Dispatched /\ DispatchFits(o, scopeAuthorizers, scopeListeners)
  BY DispatchTyped DEF DispatchInv
<1>5. created
  BY EmptySeq DEF DispatchInv
<1> HIDE DEF o
<1>6. st \in {"asks", "refused", "tells", "threw", "done"} /\ approved \in SUBSET Nat
  BY <1>4 DEF Dispatched
<1>7. o.st \in {"asks", "tells"}
  BY <1>1, <1>4 DEF DispatchFits
<1>8. o.st = "asks" => (IF ok THEN st = "asks" /\ approved = o.approved \cup {o.awaited} ELSE st = "refused")
  OBVIOUS
<1>9. o.st = "tells" => approved = o.approved /\ (IF ok THEN st = "tells" ELSE st = "threw")
  OBVIOUS
<1> HIDE DEF st, approved
<1>10. /\ v \in Dispatched /\ v.awaited = 0 /\ v.st = st /\ v.approved = approved
       /\ v.at = o.at /\ v.got = o.got /\ v.asks = o.asks /\ v.tells = o.tells
  BY <1>4, <1>6 DEF Dispatched
<1> HIDE DEF v
<1>11. DispatchFits(v, scopeAuthorizers, scopeListeners)
  <2>1. CASE o.st = "asks"
    BY <1>4, <1>8, <1>10, <2>1 DEF DispatchFits, MetUpTo
  <2>2. CASE o.st = "tells"
    BY <1>4, <1>9, <1>10, <2>2 DEF DispatchFits, MetUpTo
  <2> QED
    BY <1>7, <2>1, <2>2
<1> QED
  BY <1>1, <1>3, <1>5, <1>10, <1>11, EnvelopeBecomes DEF o

LEMMA DispatchNextInv == DispatchInv /\ [NextDispatch]_dispatchVars => DispatchInv'
<1> SUFFICES ASSUME DispatchInv, [NextDispatch]_dispatchVars PROVE DispatchInv'
  OBVIOUS
<1>1. ASSUME NEW p \in ScopePrefixes, registerScopeAuthorizer(p) PROVE DispatchInv'
  BY <1>1, RegisterInv
<1>2. ASSUME NEW a \in DOMAIN authorizer, unregister(a) PROVE DispatchInv'
  BY <1>2, UnregisterInv
<1>3. CASE getLinkRegistry \/ subscribeScope \/ dispatchEnvelope
  BY <1>3, GetRegistryInv, SubscribeScopeInv, DispatchInvStep
<1>4. ASSUME NEW l \in DOMAIN subscription, unsubscribe(l) PROVE DispatchInv'
  BY <1>4, UnsubscribeScopeInv
<1>5. ASSUME NEW e \in DOMAIN envelope, Dispatches(e) \/ \E ok \in BOOLEAN : EntryAnswers(e, ok)
      PROVE  DispatchInv'
  BY <1>5, DispatchesInv, EntryAnswersInv
<1>6. CASE UNCHANGED dispatchVars
  <2>1. \A b : InForce(b)' <=> InForce(b)
    BY <1>6 DEF dispatchVars, InForce
  <2> QED
    BY <1>6, <2>1 DEF dispatchVars, DispatchInv
<1> QED
  BY <1>1, <1>2, <1>3, <1>4, <1>5, <1>6 DEF NextDispatch

\* The inductive invariant of dispatches.
LEMMA DispatchInvariant == SpecDispatch => []DispatchInv
<1>1. InitDispatch => DispatchInv
  <2> SUFFICES ASSUME InitDispatch PROVE DispatchInv
    OBVIOUS
  <2>1. /\ created = FALSE /\ authorizer = <<>> /\ pendingScopeAuthorizers = {} /\ scopeAuthorizers = <<>>
        /\ subscription = <<>> /\ scopeListeners = <<>> /\ envelope = <<>>
    BY DEF InitDispatch
  <2>2. Listed(<<>>) = {}
    BY EmptySeq DEF Listed
  <2>3. /\ authorizer \in Seq([prefix : ScopePrefixes, held : BOOLEAN]) /\ scopeAuthorizers \in Seq(Nat)
        /\ subscription \in Seq({"on", "off"}) /\ scopeListeners \in Seq(Nat) /\ envelope \in Seq(Dispatched)
    BY <2>1, EmptySeq
  <2>4. DOMAIN envelope = {} /\ DOMAIN authorizer = {}
    BY <2>1, EmptySeq
  <2>5. Listed(scopeAuthorizers) = {} /\ Listed(scopeListeners) = {}
    BY <2>1, <2>2
  <2>6. \A S : {} \subseteq S
    OBVIOUS
  <2> QED
    BY <2>1, <2>3, <2>4, <2>5, <2>6 DEF DispatchInv
<1> QED
  BY <1>1, DispatchNextInv, PTL DEF SpecDispatch

\* Envelopes pass every authorizer that stayed and reach every listener that stayed, however many
\* come and go between the awaits, and authorizers held are in force (link_registry.mjs:548-580,
\* 803-879).
THEOREM DispatchSound == SpecDispatch => []EnvelopesAreVetted
<1>1. DispatchInv => EnvelopesAreVetted
  <2> SUFFICES ASSUME DispatchInv PROVE EnvelopesAreVetted
    OBVIOUS
  <2>1. \A e \in DOMAIN envelope : DispatchFits(envelope[e], scopeAuthorizers, scopeListeners)
    BY DEF DispatchInv
  <2>2. created => \A a \in DOMAIN authorizer : InForce(a) => a \in Listed(scopeAuthorizers)
    BY DEF DispatchInv
  <2> QED
    BY <2>1, <2>2 DEF EnvelopesAreVetted, DispatchFits
<1> QED
  BY <1>1, DispatchInvariant, PTL

-----------------------------------------------------------------------------
(* The mailbox. *)

MailRow == [mail : Mails, hop : Nat, via : Nat]

\* What a node has of mail: rows that do not understate how far they came.
Near(kept) == \A row \in kept : row \in MailRow /\ row.hop >= row.via

\* Of one record a node stores one row.
OneRowEach(kept) == \A r, s \in kept : r.mail = s.mail => r = s

MailInv ==
  /\ stored \in [MailNodes -> SUBSET MailRow] /\ ingest \in [MailNodes -> SUBSET MailRow]
  /\ \A n \in MailNodes : Near(stored[n]) /\ Near(ingest[n]) /\ OneRowEach(stored[n])
  /\ \A msg \in post : /\ msg.op = "put" => msg.row \in MailRow /\ msg.row.hop >= msg.row.via /\ msg.row.via <= 1
                       /\ msg.op = "give" => \A row \in msg.rows : row.via <= 1
  /\ \A row \in handed : row.via <= 1

\* Nothing of a hop above one is relayed or given.
LEMMA TiersFit ==
  ASSUME NEW hop \in Nat
  PROVE  hop > 1 => Fanout(hop) = 0 /\ mailboxTierFromHop(hop) = "quarantine"
BY DEF Fanout, mailboxTierFromHop

\* The hop of a put is above the one on the wire.
LEMMA HopGrows ==
  ASSUME NEW hop \in Nat, NEW kept \in SUBSET MailRow, \A r, s \in kept : r = s
  PROVE  relayHopAfterWireIngress(hop, kept) \in Nat /\ relayHopAfterWireIngress(hop, kept) >= hop + 1
<1> DEFINE known == {row.hop : row \in kept}
<1> DEFINE all == {hop + 1} \cup {k + 1 : k \in known}
<1>1. known \subseteq Nat /\ \A k, j \in known : k = j
  BY DEF MailRow
<1> HIDE DEF known
<1>2. all \subseteq Nat
  BY <1>1
<1>3. \E h \in all : \A k \in known \cup {hop} : h >= k + 1
  <2>1. CASE \A k \in known : hop >= k
    <3>1. \A k \in known \cup {hop} : hop + 1 >= k + 1
      BY <1>1, <2>1
    <3> QED
      BY <3>1
  <2>2. ASSUME NEW j \in known, hop < j
        PROVE  \E h \in all : \A k \in known \cup {hop} : h >= k + 1
    <3>1. \A k \in known \cup {hop} : j + 1 >= k + 1
      BY <1>1, <2>2
    <3>2. j + 1 \in all
      OBVIOUS
    <3> QED
      BY <3>1, <3>2
  <2> QED
    BY <1>1, <2>1, <2>2
<1> DEFINE chosen == CHOOSE h \in all : \A k \in known \cup {hop} : h >= k + 1
<1>4. chosen \in all /\ \A k \in known \cup {hop} : chosen >= k + 1
  BY <1>3
<1>5. relayHopAfterWireIngress(hop, kept) = chosen
  BY DEF relayHopAfterWireIngress, known
<1> QED
  BY <1>2, <1>4, <1>5

\* Storing and relaying a row.
LEMMA DeliverKeeps ==
  ASSUME MailInv, NEW n \in MailNodes, NEW row \in MailRow, row.hop >= row.via, NEW direct,
         direct # {} => row.via <= 1, deliverOrStore(n, row, direct)
  PROVE  /\ stored' \in [MailNodes -> SUBSET MailRow]
         /\ \A m \in MailNodes : Near(stored'[m]) /\ OneRowEach(stored'[m])
         /\ \A msg \in post' : /\ msg.op = "put" => msg.row \in MailRow /\ msg.row.hop >= msg.row.via /\ msg.row.via <= 1
                               /\ msg.op = "give" => \A r \in msg.rows : r.via <= 1
<1> DEFINE new == RowsOf(n, row.mail) = {}
<1>1. stored' = IF new THEN [stored EXCEPT ![n] = @ \cup {row}] ELSE stored
  BY DEF deliverOrStore
<1>2. /\ stored' \in [MailNodes -> SUBSET MailRow]
      /\ \A m \in MailNodes : Near(stored'[m]) /\ OneRowEach(stored'[m])
  <2>1. CASE new
    <3>1. stored' = [stored EXCEPT ![n] = @ \cup {row}]
      BY <1>1, <2>1
    <3>2. \A r \in stored[n] : r.mail # row.mail
      BY <2>1 DEF RowsOf
    <3>3. Near(stored[n] \cup {row}) /\ OneRowEach(stored[n] \cup {row})
      BY <3>2 DEF MailInv, Near, OneRowEach
    <3> QED
      BY <3>1, <3>3 DEF MailInv
  <2>2. CASE ~new
    BY <1>1, <2>2 DEF MailInv
  <2> QED
    BY <2>1, <2>2
<1>3. PICK some \in SUBSET (MailNodes \ {n}) :
        /\ Cardinality(some) <= IF new THEN Fanout(row.hop) ELSE 0
        /\ post' = post \cup {MailPut(row, p) : p \in some \cup direct}
  BY DEF deliverOrStore
<1>4. some # {} => row.via <= 1
  <2> SUFFICES ASSUME some # {}, row.hop > 1 PROVE FALSE
    BY DEF MailRow
  <2>1. Fanout(row.hop) = 0
    BY TiersFit DEF MailRow
  <2>2. Cardinality(some) <= 0
    BY <1>3, <2>1
  <2>3. IsFiniteSet(some)
    BY MailAssumption, FS_Subset
  <2> QED
    BY <2>2, <2>3, FS_CardinalityType, FS_EmptySet
<1>5. \A p \in some \cup direct : /\ MailPut(row, p).op = "put" /\ MailPut(row, p).row = row
                                  /\ row.via <= 1
  BY <1>4 DEF MailPut
<1> QED
  BY <1>2, <1>3, <1>5 DEF MailInv

\* The inductive invariant of mailboxes.
LEMMA MailInvariant == SpecMail => []MailInv
<1>1. InitMail => MailInv
  BY DEF InitMail, MailInv, Near, OneRowEach
<1>2. MailInv /\ [NextMail]_mailVars => MailInv'
  <2> SUFFICES ASSUME MailInv, [NextMail]_mailVars PROVE MailInv'
    OBVIOUS
  <2>1. ASSUME NEW m \in Mails, NEW direct \in SUBSET {Addressee}, publishMailboxRecord(m, direct)
        PROVE  MailInv'
    <3> DEFINE row == [mail |-> m, hop |-> 0, via |-> 0]
    <3>1. row \in MailRow /\ row.hop >= row.via /\ row.via <= 1
      BY DEF MailRow
    <3>2. deliverOrStore(Author, row, direct) /\ UNCHANGED <<ingest, taken, handed, wants, expiries>>
      BY <2>1 DEF publishMailboxRecord
    <3> HIDE DEF row
    <3>3. Author \in MailNodes
      BY MailAssumption
    <3> QED
      BY <3>1, <3>2, <3>3, DeliverKeeps DEF MailInv
  <2>2. ASSUME NEW n \in MailNodes, NEW msg \in post, ingestMailboxPut(n, msg)
        PROVE  MailInv'
    <3> DEFINE hop == relayHopAfterWireIngress(msg.row.hop, RowsOf(n, msg.row.mail))
    <3> DEFINE row == [mail |-> msg.row.mail, hop |-> hop, via |-> msg.row.via + 1]
    <3>1. /\ msg.op = "put" /\ post' = post \ {msg}
          /\ ingest' = IF hop >= MaxHop THEN ingest ELSE [ingest EXCEPT ![n] = @ \cup {row}]
          /\ UNCHANGED <<stored, taken, handed, wants, expiries>>
      BY <2>2 DEF ingestMailboxPut
    <3>2. msg.row \in MailRow /\ msg.row.hop >= msg.row.via
      BY <3>1 DEF MailInv
    <3>3. RowsOf(n, msg.row.mail) \in SUBSET MailRow /\ \A r, s \in RowsOf(n, msg.row.mail) : r = s
      BY DEF RowsOf, MailInv, OneRowEach
    <3>4. msg.row.mail \in Mails /\ msg.row.hop \in Nat /\ msg.row.via \in Nat
      BY <3>2 DEF MailRow
    <3>5. hop \in Nat /\ hop >= msg.row.hop + 1
      BY <3>3, <3>4, HopGrows
    <3> HIDE DEF hop
    <3>6. row \in MailRow /\ row.hop >= row.via
      BY <3>2, <3>4, <3>5 DEF MailRow
    <3> HIDE DEF row
    <3>7. Near(ingest[n] \cup {row})
      BY <3>6 DEF MailInv, Near
    <3>8. ingest' \in [MailNodes -> SUBSET MailRow] /\ \A k \in MailNodes : Near(ingest'[k])
      BY <3>1, <3>6, <3>7 DEF MailInv
    <3> QED
      BY <3>1, <3>8 DEF MailInv
  <2>3. ASSUME NEW n \in MailNodes, NEW row \in ingest[n], storeIngested(n, row)
        PROVE  MailInv'
    <3>1. row \in MailRow /\ row.hop >= row.via
      BY DEF MailInv, Near
    <3>2. /\ deliverOrStore(n, row, {}) /\ ingest' = [ingest EXCEPT ![n] = @ \ {row}]
          /\ UNCHANGED <<taken, handed, wants, expiries>>
      BY <2>3 DEF storeIngested
    <3>3. ingest' \in [MailNodes -> SUBSET MailRow] /\ \A k \in MailNodes : Near(ingest'[k])
      BY <3>2 DEF MailInv, Near
    <3>4. /\ stored' \in [MailNodes -> SUBSET MailRow]
          /\ \A m \in MailNodes : Near(stored'[m]) /\ OneRowEach(stored'[m])
          /\ \A msg \in post' : /\ msg.op = "put" => msg.row \in MailRow /\ msg.row.hop >= msg.row.via /\ msg.row.via <= 1
                                /\ msg.op = "give" => \A r \in msg.rows : r.via <= 1
      BY <3>1, <3>2, DeliverKeeps
    <3> QED
      BY <3>2, <3>3, <3>4 DEF MailInv
  <2>4. ASSUME NEW n \in MailNodes, NEW msg \in post, respondMailboxWant(n, msg)
        PROVE  MailInv'
    <3> DEFINE kept == Given(n, msg.ids)
    <3> DEFINE give == [op |-> "give", rows |-> kept, to |-> Addressee]
    <3>1. /\ post' \subseteq post \cup {give}
          /\ UNCHANGED <<stored, ingest, taken, handed, wants, expiries>>
      BY <2>4 DEF respondMailboxWant
    <3>2. \A row \in kept : row.via <= 1
      <4> SUFFICES ASSUME NEW row \in kept PROVE row.via <= 1
        OBVIOUS
      <4>1. row \in MailRow /\ row.hop >= row.via /\ mailboxTierFromHop(row.hop) # "quarantine"
        BY DEF Given, isDeliverableMailboxRecord, MailInv, Near
      <4>2. row.hop \in Nat /\ row.via \in Nat
        BY <4>1 DEF MailRow
      <4> QED
        BY <4>1, <4>2, TiersFit
    <3>3. give.op = "give" /\ give.rows = kept
      OBVIOUS
    <3> HIDE DEF give, kept
    <3> QED
      BY <3>1, <3>2, <3>3 DEF MailInv
  <2>5. ASSUME NEW peers, requestMailboxFromNetwork(peers)
        PROVE  MailInv'
    BY <2>5 DEF requestMailboxFromNetwork, MailInv
  <2>6. ASSUME NEW msg \in post, NEW some, ingestMailboxGive(msg, some)
        PROVE  MailInv'
    BY <2>6 DEF ingestMailboxGive, MailInv
  <2>7. ASSUME NEW n \in MailNodes, deleteMailboxRecords(n)
        PROVE  MailInv'
    BY <2>7 DEF deleteMailboxRecords, MailInv, Near, OneRowEach
  <2>8. ASSUME NEW n \in MailNodes, NEW row, RowExpires(n, row)
        PROVE  MailInv'
    BY <2>8 DEF RowExpires, MailInv, Near, OneRowEach
  <2>9. CASE UNCHANGED mailVars
    BY <2>9 DEF mailVars, MailInv
  <2> QED
    BY <2>1, <2>2, <2>3, <2>4, <2>5, <2>6, <2>7, <2>8, <2>9 DEF NextMail
<1> QED
  BY <1>1, <1>2, PTL DEF SpecMail

\* For any finite set of nodes, mails and fanouts: a hop never understates how far a record
\* has come (deliver_or_store.mjs:36-46, 85-86, 153-156).
THEOREM MailSound == SpecMail => []MailStaysNear
<1>1. MailInv => MailStaysNear
  BY DEF MailInv, Near, MailStaysNear
<1> QED
  BY <1>1, MailInvariant, PTL

-----------------------------------------------------------------------------
(* Collections of chunks: who holds the mutex, and what the scan has seen of the files nobody *)
(* touches while it runs. *)

PutRecord == [at : {"idle", "waits", "writes", "saves"}, path : Paths \cup {"none"},
              content : Seq(Chunks), stored : Nat]

GcRecord == [at : {"idle", "reads", "scanned", "deletes"}, paths : SUBSET Paths,
             referenced : SUBSET Chunks, broken : SUBSET Paths, candidates : SUBSET Chunks]

StoreTyped ==
  /\ chunk \in [Chunks -> {"absent", "torn", "whole"}]
  /\ manifest \in [Paths -> Seq(Chunks)]
  /\ storeLock \in Seq(Putters \cup {Collector})
  /\ put \in [Putters -> PutRecord]
  /\ gc \in GcRecord
  /\ untouched \subseteq Paths

\* Who writes a part holds the mutex.
WritersHold == \A w \in Putters : put[w].at = "writes" => StoreHolder(w)

\* The scan has the parts of every untouched file it is past.
ReadSoFar ==
  gc.at = "reads" =>
    \A p \in untouched : p \in gc.paths \/ Range(manifest[p]) \subseteq gc.referenced

\* No candidate is a part of an untouched file.
CandidatesFree ==
  gc.at \in {"scanned", "deletes"} =>
    \A p \in untouched : Range(manifest[p]) \cap gc.candidates = {}

StoreInv == StoreTyped /\ WritersHold /\ ReadSoFar /\ CandidatesFree

-----------------------------------------------------------------------------
(* Sequences. *)

\* The empty content has no parts.
LEMMA RangeOfNothing == Range(<<>>) = {}
BY DEF Range

\* The parts of a content are chunks.
LEMMA RangeTyped == ASSUME NEW s \in Seq(Chunks) PROVE Range(s) \subseteq Chunks
BY DEF Range

\* Whoever comes to the queue leaves the holder as it is.
LEMMA QueueingKeepsHolder ==
  ASSUME NEW S, NEW q \in Seq(S), NEW x \in S
  PROVE  /\ Append(q, x) \in Seq(S)
         /\ q # <<>> => Append(q, x) # <<>> /\ Head(Append(q, x)) = Head(q)
OBVIOUS

-----------------------------------------------------------------------------
(* The invariant. *)

LEMMA StoreInit == InitChunks => StoreInv
BY RangeOfNothing DEF InitChunks, StoreInv, StoreTyped, WritersHold, ReadSoFar, CandidatesFree,
   PutRecord, GcRecord, IdlePut, IdleGc, NoFile

\* Contents are sequences of chunks.
LEMMA ContentsTyped == Contents \subseteq Seq(Chunks) /\ <<>> \in Seq(Chunks)
BY ChunkAssumption

LEMMA StepTyped == StoreInv /\ [NextChunks]_chunkVars => StoreTyped'
<1> SUFFICES ASSUME StoreInv, [NextChunks]_chunkVars PROVE StoreTyped'
  OBVIOUS
<1>1. StoreTyped
  BY DEF StoreInv
<1>2. ASSUME NEW w \in Putters, NEW p \in Paths, NEW content \in Contents, PutStarts(w, p, content)
      PROVE  StoreTyped'
  BY <1>1, <1>2, ContentsTyped, QueueingKeepsHolder DEF PutStarts, StoreTyped, PutRecord
<1>3. ASSUME NEW w \in Putters, PartBegins(w) PROVE StoreTyped'
  BY <1>1, <1>3 DEF PartBegins, StoreTyped, PutRecord
<1>4. ASSUME NEW w \in Putters, PartEnds(w) PROVE StoreTyped'
  <2>1. storeLock # <<>>
    BY <1>4 DEF StoreInv, WritersHold, StoreHolder, PartEnds
  <2>2. Tail(storeLock) \in Seq(Putters \cup {Collector})
    BY <1>1, <2>1 DEF StoreTyped
  <2>3. storeLock' \in Seq(Putters \cup {Collector})
    BY <1>4, <2>2, QueueingKeepsHolder DEF PartEnds
  <2> DEFINE at == IF put[w].stored + 1 = Len(put[w].content) THEN "saves" ELSE "waits"
  <2>4. [put[w] EXCEPT !.at = at, !.stored = @ + 1] \in PutRecord
    <3>1. at \in {"waits", "saves"} /\ put[w] \in PutRecord
      BY <1>1 DEF StoreTyped
    <3>2. \A a \in {"waits", "saves"}, r \in PutRecord : [r EXCEPT !.at = a] \in PutRecord
      BY DEF PutRecord
    <3>3. \A r \in PutRecord : [r EXCEPT !.stored = @ + 1] \in PutRecord
      BY DEF PutRecord
    <3>4. \A r \in PutRecord, a \in {"waits", "saves"} : [r EXCEPT !.at = a].stored = r.stored
      BY DEF PutRecord
    <3> HIDE DEF at
    <3> QED BY <3>1, <3>2, <3>3, <3>4
  <2>5. put' \in [Putters -> PutRecord]
    BY <1>1, <1>4, <2>4 DEF PartEnds, StoreTyped
  <2>6. chunk' \in [Chunks -> {"absent", "torn", "whole"}]
    BY <1>1, <1>4 DEF PartEnds, StoreTyped
  <2> QED BY <1>1, <1>4, <2>3, <2>5, <2>6 DEF PartEnds, StoreTyped
<1>5. ASSUME NEW w \in Putters, ManifestSaved(w) PROVE StoreTyped'
  BY <1>1, <1>5, ContentsTyped DEF ManifestSaved, StoreTyped, PutRecord, IdlePut, NoFile
<1>6. ASSUME NEW p \in Paths, DeleteFileManifest(p) PROVE StoreTyped'
  BY <1>1, <1>6, ContentsTyped DEF DeleteFileManifest, StoreTyped, NoFile
<1>7. CASE GcLists
  BY <1>1, <1>7 DEF GcLists, StoreTyped, GcRecord, IdleGc
<1>8. ASSUME NEW p \in Paths, GcReads(p) PROVE StoreTyped'
  <2>1. Range(manifest[p]) \subseteq Chunks
    BY <1>1, RangeTyped DEF StoreTyped
  <2> QED BY <1>1, <1>8, <2>1 DEF GcReads, StoreTyped, GcRecord, References
<1>9. CASE GcFindsChunks
  BY <1>1, <1>9 DEF GcFindsChunks, StoreTyped, GcRecord
<1>10. ASSUME NEW p \in Paths, GcDeletesBroken(p) PROVE StoreTyped'
  BY <1>1, <1>10, ContentsTyped DEF GcDeletesBroken, StoreTyped, GcRecord, NoFile
<1>11. CASE GcQueues
  BY <1>1, <1>11, QueueingKeepsHolder DEF GcQueues, StoreTyped, GcRecord
<1>12. ASSUME NEW h \in Chunks, GcUnlinks(h) PROVE StoreTyped'
  BY <1>1, <1>12 DEF GcUnlinks, StoreTyped, GcRecord
<1>13. CASE GcEnds
  BY <1>1, <1>13 DEF GcEnds, StoreHolder, StoreTyped, GcRecord, IdleGc
<1>14. CASE (\E p \in Paths : ReadStarts(p)) \/ ReadChecks \/ ReadReads \/ UNCHANGED chunkVars
  BY <1>1, <1>14 DEF ReadStarts, ReadChecks, ReadReads, chunkVars, StoreTyped
<1>15. CASE CrashStore
  BY <1>1, <1>15, ContentsTyped DEF CrashStore, StoreTyped, PutRecord, GcRecord, IdlePut, IdleGc, NoFile
<1> QED BY <1>2, <1>3, <1>4, <1>5, <1>6, <1>7, <1>8, <1>9, <1>10, <1>11, <1>12, <1>13, <1>14, <1>15
        DEF NextChunks

LEMMA StepWritersHold == StoreInv /\ [NextChunks]_chunkVars => WritersHold'
<1> SUFFICES ASSUME StoreInv, [NextChunks]_chunkVars, NEW v \in Putters, put'[v].at = "writes"
             PROVE  StoreHolder(v)'
  BY DEF WritersHold
<1>1. StoreTyped /\ WritersHold
  BY DEF StoreInv
<1>2. put[v] \in PutRecord /\ storeLock \in Seq(Putters \cup {Collector})
  BY <1>1 DEF StoreTyped
<1>3. ASSUME NEW w \in Putters, NEW p \in Paths, NEW content \in Contents, PutStarts(w, p, content)
      PROVE  StoreHolder(v)'
  <2>1. put[v].at = "writes"
    BY <1>1, <1>3 DEF PutStarts, StoreTyped, PutRecord
  <2> QED BY <1>1, <1>2, <1>3, <2>1, QueueingKeepsHolder DEF PutStarts, WritersHold, StoreHolder
<1>4. ASSUME NEW w \in Putters, PartBegins(w) PROVE StoreHolder(v)'
  <2>1. StoreHolder(v)
    BY <1>1, <1>4 DEF PartBegins, StoreTyped, WritersHold
  <2> QED BY <1>4, <2>1 DEF PartBegins, StoreHolder
<1>5. ASSUME NEW w \in Putters, PartEnds(w) PROVE StoreHolder(v)'
  <2>1. v # w /\ put[v].at = "writes"
    BY <1>1, <1>5 DEF PartEnds, StoreTyped, PutRecord
  <2>2. StoreHolder(v) /\ StoreHolder(w)
    BY <1>1, <1>5, <2>1 DEF PartEnds, WritersHold
  <2> QED BY <2>1, <2>2 DEF StoreHolder
<1>6. ASSUME NEW w \in Putters, ManifestSaved(w) PROVE StoreHolder(v)'
  <2>1. put[v].at = "writes" /\ storeLock' = storeLock
    BY <1>1, <1>6 DEF ManifestSaved, StoreTyped, PutRecord, IdlePut
  <2> QED BY <1>1, <2>1 DEF WritersHold, StoreHolder
<1>7. CASE GcQueues
  BY <1>1, <1>2, <1>7, QueueingKeepsHolder DEF GcQueues, WritersHold, StoreHolder
<1>8. CASE GcEnds
  <2>1. StoreHolder(v) /\ StoreHolder(Collector)
    BY <1>1, <1>8 DEF GcEnds, WritersHold
  <2> QED BY <2>1, ChunkAssumption DEF StoreHolder
<1>9. CASE CrashStore
  BY <1>9 DEF CrashStore, IdlePut
<1>10. CASE put' = put /\ storeLock' = storeLock
  BY <1>1, <1>10 DEF WritersHold, StoreHolder
<1>11. CASE \/ \E p \in Paths : DeleteFileManifest(p) \/ GcReads(p) \/ GcDeletesBroken(p) \/ ReadStarts(p)
            \/ GcLists \/ GcFindsChunks
            \/ \E h \in Chunks : GcUnlinks(h)
            \/ ReadChecks \/ ReadReads \/ UNCHANGED chunkVars
  BY <1>10, <1>11 DEF DeleteFileManifest, GcReads, GcDeletesBroken, ReadStarts, GcLists,
     GcFindsChunks, GcUnlinks, ReadChecks, ReadReads, chunkVars
<1> QED BY <1>3, <1>4, <1>5, <1>6, <1>7, <1>8, <1>9, <1>11 DEF NextChunks

-----------------------------------------------------------------------------

\* The scan of a collection: what it has read of the untouched files, and what it will delete.
LEMMA StepScan == StoreInv /\ [NextChunks]_chunkVars => ReadSoFar' /\ CandidatesFree'
<1> SUFFICES ASSUME StoreInv, [NextChunks]_chunkVars PROVE ReadSoFar' /\ CandidatesFree'
  OBVIOUS
<1>1. StoreTyped /\ ReadSoFar /\ CandidatesFree
  BY DEF StoreInv
<1>2. gc \in GcRecord
  BY <1>1 DEF StoreTyped
<1>3. ASSUME gc' = gc, untouched' \subseteq untouched, \A p \in untouched' : manifest'[p] = manifest[p]
      PROVE  ReadSoFar' /\ CandidatesFree'
  BY <1>1, <1>3 DEF ReadSoFar, CandidatesFree
<1>4. ASSUME NEW w \in Putters, ManifestSaved(w) PROVE ReadSoFar' /\ CandidatesFree'
  BY <1>1, <1>3, <1>4 DEF ManifestSaved, StoreTyped
<1>5. ASSUME NEW p \in Paths, DeleteFileManifest(p) PROVE ReadSoFar' /\ CandidatesFree'
  BY <1>1, <1>3, <1>5 DEF DeleteFileManifest, StoreTyped
<1>6. CASE GcLists
  <2>1. \A p \in Paths : p \in gc'.paths \/ Range(manifest'[p]) = {}
    BY <1>6, RangeOfNothing DEF GcLists, IdleGc, NoFile
  <2>2. gc'.at = "reads" /\ untouched' = Paths
    BY <1>6 DEF GcLists, IdleGc
  <2> QED BY <2>1, <2>2 DEF ReadSoFar, CandidatesFree
<1>7. ASSUME NEW p \in Paths, GcReads(p) PROVE ReadSoFar' /\ CandidatesFree'
  <2>1. gc.at = "reads" /\ gc'.at = "reads" /\ manifest' = manifest /\ untouched' = untouched
    BY <1>2, <1>7 DEF GcReads, GcRecord
  <2>2. gc'.paths = gc.paths \ {p} /\ gc.referenced \subseteq gc'.referenced
    BY <1>2, <1>7 DEF GcReads, GcRecord, References
  <2>3. Range(manifest[p]) \subseteq gc'.referenced
    <3>1. CASE manifest[p] = NoFile
      BY <3>1, RangeOfNothing DEF NoFile
    <3>2. CASE manifest[p] # NoFile
      BY <1>2, <1>7, <3>2 DEF GcReads, GcRecord, References
    <3> QED BY <3>1, <3>2
  <2>4. ReadSoFar'
    BY <1>1, <2>1, <2>2, <2>3 DEF ReadSoFar
  <2> QED BY <2>1, <2>4 DEF CandidatesFree
<1>8. CASE GcFindsChunks
  <2>1. gc'.at = "scanned" /\ gc'.candidates \cap gc.referenced = {} /\ gc.at = "reads" /\ gc.paths = {}
    BY <1>2, <1>8 DEF GcFindsChunks, GcRecord
  <2>2. \A p \in untouched : Range(manifest[p]) \subseteq gc.referenced
    BY <1>1, <2>1 DEF ReadSoFar
  <2>3. manifest' = manifest /\ untouched' = untouched
    BY <1>8 DEF GcFindsChunks
  <2> QED BY <2>1, <2>2, <2>3 DEF ReadSoFar, CandidatesFree
<1>9. ASSUME gc'.at \in {"scanned", "deletes"}, gc.at \in {"scanned", "deletes"},
             gc'.candidates \subseteq gc.candidates, untouched' \subseteq untouched,
             \A p \in untouched' : manifest'[p] = manifest[p]
      PROVE  ReadSoFar' /\ CandidatesFree'
  BY <1>1, <1>9 DEF ReadSoFar, CandidatesFree
<1>10. ASSUME NEW p \in Paths, GcDeletesBroken(p) PROVE ReadSoFar' /\ CandidatesFree'
  <2>1. \A q \in untouched' : manifest'[q] = manifest[q]
    BY <1>1, <1>10 DEF GcDeletesBroken, StoreTyped
  <2> QED BY <1>2, <1>9, <1>10, <2>1 DEF GcDeletesBroken, GcRecord
<1>11. CASE GcQueues
  BY <1>2, <1>9, <1>11 DEF GcQueues, GcRecord
<1>12. ASSUME NEW h \in Chunks, GcUnlinks(h) PROVE ReadSoFar' /\ CandidatesFree'
  BY <1>2, <1>9, <1>12 DEF GcUnlinks, GcRecord
<1>13. CASE GcEnds \/ CrashStore
  BY <1>13 DEF GcEnds, CrashStore, IdleGc, ReadSoFar, CandidatesFree
<1>14. CASE \/ \E w \in Putters : PartBegins(w) \/ PartEnds(w)
            \/ \E w \in Putters, p \in Paths, content \in Contents : PutStarts(w, p, content)
            \/ \E p \in Paths : ReadStarts(p)
            \/ ReadChecks \/ ReadReads \/ UNCHANGED chunkVars
  <2>1. gc' = gc /\ untouched' = untouched /\ manifest' = manifest
    BY <1>14 DEF PartBegins, PartEnds, PutStarts, ReadStarts, ReadChecks, ReadReads, chunkVars
  <2> QED BY <1>3, <2>1
<1> QED BY <1>4, <1>5, <1>6, <1>7, <1>8, <1>10, <1>11, <1>12, <1>13, <1>14 DEF NextChunks

\* Every reachable state satisfies the invariant.
THEOREM StoreInvariant == SpecChunks => []StoreInv
<1>1. StoreInv /\ [NextChunks]_chunkVars => StoreInv'
  BY StepTyped, StepWritersHold, StepScan DEF StoreInv
<1> QED BY <1>1, StoreInit, PTL DEF SpecChunks

\* A collection unlinks no chunk that a putter is writing, and none of a file that nobody
\* has written or deleted since the collection began (gc.mjs, chunk/store.mjs).
THEOREM CollectionSpares == SpecChunks => UntouchedFilesSurvive
<1> DEFINE Spared == \A h \in Chunks :
       chunk[h] # "absent" /\ chunk'[h] = "absent" =>
         /\ \A w \in Putters :
              put[w].at = "writes" => put[w].content[put[w].stored + 1] # h
         /\ \A p \in untouched : h \notin Range(manifest[p])
<1>1. ASSUME StoreInv, [NextChunks]_chunkVars PROVE Spared
  <2> SUFFICES ASSUME NEW h \in Chunks, chunk[h] # "absent", chunk'[h] = "absent"
               PROVE  /\ \A w \in Putters : put[w].at # "writes"
                      /\ \A p \in untouched : h \notin Range(manifest[p])
    OBVIOUS
  <2>1. PICK g \in Chunks : GcUnlinks(g)
    <3>1. ~\E w \in Putters : PartBegins(w) \/ PartEnds(w)
      BY <1>1 DEF StoreInv, StoreTyped, PartBegins, PartEnds
    <3>2. chunk' # chunk
      OBVIOUS
    <3> QED BY <1>1, <3>1, <3>2 DEF NextChunks, PutStarts, ManifestSaved, DeleteFileManifest,
         GcReads, GcDeletesBroken, ReadStarts, GcLists, GcFindsChunks, GcQueues, GcEnds,
         ReadChecks, ReadReads, CrashStore, chunkVars
  <2>2. h = g /\ h \in gc.candidates /\ gc.at = "deletes" /\ StoreHolder(Collector)
    BY <1>1, <2>1 DEF GcUnlinks, StoreInv, StoreTyped
  <2>3. \A w \in Putters : put[w].at # "writes"
    BY <1>1, <2>2, ChunkAssumption DEF StoreInv, WritersHold, StoreHolder
  <2> QED BY <1>1, <2>2, <2>3 DEF StoreInv, CandidatesFree
<1>2. StoreInv /\ [NextChunks]_chunkVars => [Spared]_chunkVars
  BY <1>1
<1> QED BY <1>2, StoreInvariant, PTL DEF SpecChunks, UntouchedFilesSurvive

-----------------------------------------------------------------------------
(* A JSONL file under its mutex. *)

FileMoments == {"no", "waits", "unsynced", "read", "written", "unlinked", "done"}

FileCalls == [kind : Kinds, row : Tasks, at : FileMoments]

\* The calls that hold the mutex are one; what it has read, is all that is in the file.
JsonlInv ==
  /\ rows \subseteq Tasks /\ queue \in Seq(Tasks)
  /\ call \in [Tasks -> FileCalls] /\ temp \in [Tasks -> SUBSET Tasks]
  /\ \A t \in Tasks :
       /\ call[t].at \in {"unsynced", "read", "written", "unlinked"} => Holder(t)
       /\ call[t].kind \in {"append", "store"} => call[t].row = t
       /\ call[t].at = "unsynced" => call[t].kind = "append"
       /\ call[t].at = "read" => call[t].kind # "append" /\ rows \subseteq temp[t]
       /\ call[t].at = "written" => call[t].kind # "append" /\ rows \ temp[t] \subseteq gone
       /\ t \in synced => call[t].at = "done"
  /\ synced \subseteq rows \cup gone

\* A call moves on and nothing else about it changes.
LEMMA CallMoves ==
  ASSUME call \in [Tasks -> FileCalls], NEW t \in Tasks, NEW at \in FileMoments, MovesTo(t, at)
  PROVE  /\ call' \in [Tasks -> FileCalls]
         /\ call'[t] = [call[t] EXCEPT !.at = at]
         /\ call'[t].at = at /\ call'[t].kind = call[t].kind /\ call'[t].row = call[t].row
         /\ \A u \in Tasks \ {t} : call'[u] = call[u]
<1> DEFINE c == [call[t] EXCEPT !.at = at]
<1>1. call[t] \in FileCalls
  OBVIOUS
<1>2. c \in FileCalls /\ c.at = at /\ c.kind = call[t].kind /\ c.row = call[t].row
  BY <1>1 DEF FileCalls
<1>3. call' = [call EXCEPT ![t] = c]
  BY DEF MovesTo
<1> HIDE DEF c
<1> QED
  BY <1>2, <1>3 DEF MovesTo

\* The inductive invariant of a file of rows.
LEMMA JsonlInvariant == SpecJsonl => []JsonlInv
<1>1. InitJsonl => JsonlInv
  BY DEF InitJsonl, JsonlInv, FileCalls, Kinds, FileMoments
<1>2. JsonlInv /\ [NextJsonl]_jsonlVars => JsonlInv'
  <2> SUFFICES ASSUME JsonlInv, [NextJsonl]_jsonlVars PROVE JsonlInv'
    OBVIOUS
  <2>1. ASSUME NEW t \in Tasks, NEW kind \in Kinds, NEW row \in Tasks, CallJsonl(t, kind, row)
        PROVE  JsonlInv'
    <3> DEFINE c == [kind |-> kind, row |-> row, at |-> "waits"]
    <3>1. /\ call[t].at = "no" /\ (kind \in {"append", "store"} => row = t)
          /\ call' = [call EXCEPT ![t] = c] /\ queue' = Append(queue, t)
          /\ UNCHANGED <<rows, torn, temp, crashes, synced, gone>>
      BY <2>1 DEF CallJsonl
    <3>2. c \in FileCalls /\ c.kind = kind /\ c.row = row /\ c.at = "waits"
      BY DEF FileCalls, FileMoments
    <3> HIDE DEF c
    <3>3. call' \in [Tasks -> FileCalls] /\ call'[t] = c /\ \A u \in Tasks \ {t} : call'[u] = call[u]
      BY <3>1, <3>2 DEF JsonlInv
    <3>4. queue' \in Seq(Tasks) /\ \A u \in Tasks : Holder(u) => Holder(u)'
      BY <3>1 DEF JsonlInv, Holder
    <3>5. t \notin synced
      BY <3>1 DEF JsonlInv
    <3> QED
      BY <3>1, <3>2, <3>3, <3>4, <3>5 DEF JsonlInv
  <2>2. ASSUME NEW t \in Tasks, AppendLine(t) PROVE JsonlInv'
    <3>1. /\ call[t].kind = "append" /\ call[t].at = "waits" /\ Holder(t)
          /\ rows' = IF torn THEN rows ELSE rows \cup {t}
          /\ MovesTo(t, "unsynced")
          /\ UNCHANGED <<queue, temp, crashes, synced, gone>>
      BY <2>2 DEF AppendLine, At
    <3>2. /\ call' \in [Tasks -> FileCalls]
          /\ call'[t].at = "unsynced" /\ call'[t].kind = "append" /\ call'[t].row = call[t].row
          /\ \A u \in Tasks \ {t} : call'[u] = call[u]
      BY <3>1, CallMoves DEF JsonlInv, FileMoments
    <3>3. \A u \in Tasks \ {t} : call[u].at \notin {"unsynced", "read", "written", "unlinked"}
      BY <3>1 DEF JsonlInv, Holder
    <3>4. rows \subseteq rows' /\ rows' \subseteq Tasks
      BY <3>1 DEF JsonlInv
    <3>5. t \notin synced
      BY <3>1 DEF JsonlInv
    <3>6. \A u \in Tasks : Holder(u)' <=> Holder(u)
      BY <3>1 DEF Holder
    <3> QED
      BY <3>1, <3>2, <3>3, <3>4, <3>5, <3>6 DEF JsonlInv
  <2>3. ASSUME NEW t \in Tasks, call[t].at \in {"unsynced", "read", "written", "unlinked"},
               MovesTo(t, "done"), Releases, UNCHANGED <<temp, gone>>,
               rows' \subseteq Tasks, synced' \subseteq synced \cup {t},
               synced' \subseteq rows' \cup gone
        PROVE  JsonlInv'
    <3>1. Holder(t) /\ queue' = Tail(queue)
      BY <2>3 DEF JsonlInv, Releases
    <3>2. /\ call' \in [Tasks -> FileCalls]
          /\ call'[t].at = "done" /\ call'[t].kind = call[t].kind /\ call'[t].row = call[t].row
          /\ \A u \in Tasks \ {t} : call'[u] = call[u]
      BY <2>3, CallMoves DEF JsonlInv, FileMoments
    <3>3. \A u \in Tasks \ {t} : call[u].at \notin {"unsynced", "read", "written", "unlinked"}
      BY <3>1 DEF JsonlInv, Holder
    <3>4. queue' \in Seq(Tasks)
      BY <3>1 DEF JsonlInv, Holder
    <3>5. \A u \in Tasks : call'[u].at \notin {"unsynced", "read", "written", "unlinked"}
      BY <3>2, <3>3
    <3> QED
      BY <2>3, <3>2, <3>4, <3>5 DEF JsonlInv
  <2>4. ASSUME NEW t \in Tasks, AppendSynced(t) PROVE JsonlInv'
    <3>1. /\ call[t].at \in {"unsynced", "unlinked"} /\ synced' = synced \cup ({t} \cap rows)
          /\ MovesTo(t, "done") /\ Releases
          /\ UNCHANGED <<rows, torn, temp, crashes, gone>>
      BY <2>4 DEF AppendSynced
    <3>3. synced' \subseteq rows' \cup gone /\ synced' \subseteq synced \cup {t} /\ rows' \subseteq Tasks
      BY <3>1 DEF JsonlInv
    <3> QED
      BY <2>3, <3>1, <3>3
  <2>5. ASSUME NEW t \in Tasks, ReadAll(t) PROVE JsonlInv'
    <3>1. /\ call[t].kind \in Kinds \ {"append"} /\ call[t].at = "waits" /\ Holder(t)
          /\ temp' = [temp EXCEPT ![t] = rows]
          /\ MovesTo(t, "read")
          /\ UNCHANGED <<rows, torn, queue, crashes, synced, gone>>
      BY <2>5 DEF ReadAll, At
    <3>2. /\ call' \in [Tasks -> FileCalls]
          /\ call'[t].at = "read" /\ call'[t].kind = call[t].kind /\ call'[t].row = call[t].row
          /\ \A u \in Tasks \ {t} : call'[u] = call[u]
      BY <3>1, CallMoves DEF JsonlInv, FileMoments
    <3>3. temp' \in [Tasks -> SUBSET Tasks] /\ temp'[t] = rows /\ \A u \in Tasks \ {t} : temp'[u] = temp[u]
      BY <3>1 DEF JsonlInv
    <3>4. \A u \in Tasks : Holder(u)' <=> Holder(u)
      BY <3>1 DEF Holder
    <3>5. t \notin synced
      BY <3>1 DEF JsonlInv
    <3> QED
      BY <3>1, <3>2, <3>3, <3>4, <3>5 DEF JsonlInv
  <2>6. ASSUME NEW t \in Tasks, Nothing(t) PROVE JsonlInv'
    <3>1. /\ call[t].at = "read" /\ MovesTo(t, "done") /\ Releases
          /\ UNCHANGED <<rows, torn, temp, crashes, synced, gone>>
      BY <2>6 DEF Nothing
    <3>2. synced' \subseteq rows' \cup gone /\ rows' \subseteq Tasks
      BY <3>1 DEF JsonlInv
    <3> QED
      BY <2>3, <3>1, <3>2
  <2>7. ASSUME NEW t \in Tasks, WriteTemporary(t) PROVE JsonlInv'
    <3>1. PICK new \in NewRows(t) :
            /\ temp' = [temp EXCEPT ![t] = new]
            /\ gone' = gone \cup (temp[t] \ new)
      BY <2>7 DEF WriteTemporary
    <3>2. /\ call[t].at = "read" /\ MovesTo(t, "written")
          /\ UNCHANGED <<rows, torn, queue, crashes, synced>>
      BY <2>7 DEF WriteTemporary
    <3>3. /\ call' \in [Tasks -> FileCalls]
          /\ call'[t].at = "written" /\ call'[t].kind = call[t].kind /\ call'[t].row = call[t].row
          /\ \A u \in Tasks \ {t} : call'[u] = call[u]
      BY <3>2, CallMoves DEF JsonlInv, FileMoments
    <3>4. /\ call[t].kind # "append" /\ rows \subseteq temp[t] /\ temp[t] \subseteq Tasks /\ call[t].row \in Tasks
          /\ Holder(t) /\ call[t].kind \in Kinds
      BY <3>2 DEF JsonlInv, FileCalls
    <3>5. new \subseteq Tasks
      BY <3>1, <3>4 DEF NewRows, Pruned, Kinds
    <3>6. temp' \in [Tasks -> SUBSET Tasks] /\ temp'[t] = new /\ \A u \in Tasks \ {t} : temp'[u] = temp[u]
      BY <3>1, <3>5 DEF JsonlInv
    <3>7. gone \subseteq gone' /\ rows \ new \subseteq gone'
      BY <3>1, <3>4
    <3>8. \A u \in Tasks : Holder(u)' <=> Holder(u)
      BY <3>2 DEF Holder
    <3>9. \A u \in Tasks \ {t} : call[u].at \notin {"unsynced", "read", "written", "unlinked"}
      BY <3>4 DEF JsonlInv, Holder
    <3>10. t \notin synced
      BY <3>2 DEF JsonlInv
    <3> QED
      BY <3>2, <3>3, <3>4, <3>6, <3>7, <3>8, <3>9, <3>10 DEF JsonlInv
  <2>8. ASSUME NEW t \in Tasks, NEW ok \in BOOLEAN, RenameTemporary(t, ok) PROVE JsonlInv'
    <3>1. /\ call[t].at = "written" /\ MovesTo(t, "done") /\ Releases
          /\ UNCHANGED <<temp, crashes, gone>>
      BY <2>8 DEF RenameTemporary
    <3>2. rows \ temp[t] \subseteq gone /\ temp[t] \subseteq Tasks
      BY <3>1 DEF JsonlInv
    <3>3. \/ UNCHANGED <<rows, synced>>
          \/ rows' = temp[t] /\ synced' \subseteq synced \cup ({t} \cap rows')
      BY <2>8 DEF RenameTemporary
    <3>4. synced' \subseteq rows' \cup gone /\ synced' \subseteq synced \cup {t} /\ rows' \subseteq Tasks
      BY <3>2, <3>3 DEF JsonlInv
    <3> QED
      BY <2>3, <3>1, <3>4
  <2>9. CASE CrashJsonl
    <3> DEFINE open == {t \in Tasks : At(t, {"append"}, "unsynced")}
    <3> DEFINE over(t) == IF call[t].at \in {"no", "done"} THEN call[t] ELSE [call[t] EXCEPT !.at = "done"]
    <3>1. /\ rows' = rows \ open \/ rows' = rows
          /\ call' = [t \in Tasks |-> over(t)]
          /\ queue' = <<>>
          /\ UNCHANGED <<temp, synced, gone>>
      BY <2>9 DEF CrashJsonl
    <3>2. open \cap synced = {}
      BY DEF JsonlInv, At
    <3>3. ASSUME NEW t \in Tasks
          PROVE  /\ over(t) \in FileCalls /\ over(t).at \in {"no", "done"}
                 /\ over(t).kind = call[t].kind /\ over(t).row = call[t].row
                 /\ call[t].at = "done" => over(t).at = "done"
      <4>1. call[t] \in FileCalls
        BY DEF JsonlInv
      <4> QED
        BY <4>1 DEF FileCalls, FileMoments
    <3> HIDE DEF open, over
    <3>4. call' \in [Tasks -> FileCalls] /\ \A t \in Tasks : call'[t] = over(t)
      BY <3>1, <3>3
    <3>5. rows' \subseteq Tasks /\ synced' \subseteq rows' \cup gone'
      BY <3>1, <3>2 DEF JsonlInv
    <3>6. queue' \in Seq(Tasks)
      BY <3>1
    <3> QED
      BY <3>1, <3>3, <3>4, <3>5, <3>6 DEF JsonlInv
  <2>10. ASSUME NEW t \in Tasks, RenameMissing(t) PROVE JsonlInv'
    <3>1. /\ call[t].at = "unlinked" /\ MovesTo(t, "done") /\ Releases
          /\ UNCHANGED <<rows, torn, temp, crashes, synced, gone>>
      BY <2>10 DEF RenameMissing, At
    <3>2. synced' \subseteq rows' \cup gone /\ synced' \subseteq synced \cup {t} /\ rows' \subseteq Tasks
      BY <3>1 DEF JsonlInv
    <3> QED
      BY <2>3, <3>1, <3>2
  <2>11. CASE DirectoryRemoved
    <3> DEFINE moved(t) == IF call[t].at \in {"unsynced", "written"}
                           THEN [call[t] EXCEPT !.at = "unlinked"] ELSE call[t]
    <3>1. /\ rows' = {} /\ synced' = {} /\ call' = [t \in Tasks |-> moved(t)]
          /\ UNCHANGED <<queue, temp, gone>>
      BY <2>11 DEF DirectoryRemoved
    <3>2. ASSUME NEW t \in Tasks
          PROVE  /\ moved(t) \in FileCalls /\ moved(t).at \notin {"unsynced", "written"}
                 /\ moved(t).kind = call[t].kind /\ moved(t).row = call[t].row
                 /\ moved(t).at = call[t].at
                      \/ (moved(t).at = "unlinked" /\ call[t].at \in {"unsynced", "written"})
      <4>1. call[t] \in FileCalls
        BY DEF JsonlInv
      <4> QED
        BY <4>1 DEF FileCalls, FileMoments
    <3> HIDE DEF moved
    <3>3. call' \in [Tasks -> FileCalls] /\ \A t \in Tasks : call'[t] = moved(t)
      BY <3>1, <3>2
    <3>4. \A t \in Tasks : Holder(t)' <=> Holder(t)
      BY <3>1 DEF Holder
    <3> QED
      BY <3>1, <3>2, <3>3, <3>4 DEF JsonlInv
  <2>12. CASE UNCHANGED jsonlVars
    BY <2>12 DEF jsonlVars, JsonlInv, Holder
  <2> QED
    BY <2>1, <2>2, <2>4, <2>5, <2>6, <2>7, <2>8, <2>9, <2>10, <2>11, <2>12 DEF NextJsonl
<1> QED
  BY <1>1, <1>2, PTL DEF SpecJsonl

\* A row that was in the file when its call returned stays until it is deleted or pruned, or the
\* directory is removed (dag/storage.mjs:216-284).
THEOREM RowsStay == SpecJsonl => []ReturnedRowsStay
<1>1. JsonlInv => ReturnedRowsStay
  BY DEF JsonlInv, ReturnedRowsStay
<1> QED
  BY <1>1, JsonlInvariant, PTL

-----------------------------------------------------------------------------
(* Timelines. *)

EventFits(e, made) ==
  /\ made.prev \subseteq 1..(e - 1) /\ made.wall \in Nat /\ made.logical \in Nat /\ made.node \in Nat

\* The events are numbered as they are made, each with parents made before it.
EventsFit ==
  /\ DOMAIN event = 1..Cardinality(DOMAIN event) /\ Cardinality(DOMAIN event) \in Nat
  /\ \A e \in DOMAIN event : EventFits(e, event[e])

Topological(order) == \A i, j \in 1..Len(order) : order[i] \in event[order[j]].prev => i < j

\* An order has every event of S once.
IsOrderOf(order, S) == order \in Seq(S) /\ Range(order) = S /\ Len(order) = Cardinality(S)

\* An order has no event twice.
OnceEach(order) == Len(order) = Cardinality(Range(order))

TimelineInv ==
  /\ EventsFit
  /\ wall \in [Writers -> Nat]
  /\ file \in [Writers -> Seq(DOMAIN event)]
  /\ DOMAIN cache = Writers
  /\ \A n \in Writers :
       /\ cache[n].order \in Seq(DOMAIN event)
       /\ OnceEach(cache[n].order)
       /\ ~cache[n].late => Topological(cache[n].order)

\* Of any events one is before all others.
LEMMA FirstExists ==
  ASSUME EventsFit, NEW S, S \subseteq DOMAIN event, S # {}
  PROVE  \E e \in S : \A f \in S \ {e} : Before(e, f)
<1>1. \A e \in S : event[e].wall \in Nat /\ event[e].logical \in Nat /\ event[e].node \in Nat /\ e \in Nat
  BY DEF EventsFit, EventFits
<1> DEFINE Walls == {event[e].wall : e \in S}
<1>2. PICK w \in Walls : \A x \in Walls : w <= x
  <2>1. Walls \subseteq Nat /\ Walls # {}
    BY <1>1
  <2> HIDE DEF Walls
  <2> QED
    BY <2>1, LeastNatural
<1> DEFINE A == {e \in S : event[e].wall = w}
           Logicals == {event[e].logical : e \in A}
<1>3. PICK l \in Logicals : \A x \in Logicals : l <= x
  <2>1. Logicals \subseteq Nat /\ Logicals # {}
    BY <1>1
  <2> HIDE DEF Logicals
  <2> QED
    BY <2>1, LeastNatural
<1> DEFINE B == {e \in A : event[e].logical = l}
           NodesOf == {event[e].node : e \in B}
<1>4. PICK m \in NodesOf : \A x \in NodesOf : m <= x
  <2>1. NodesOf \subseteq Nat /\ NodesOf # {}
    BY <1>1
  <2> HIDE DEF NodesOf
  <2> QED
    BY <2>1, LeastNatural
<1> DEFINE C == {e \in B : event[e].node = m}
<1>5. PICK e \in C : \A x \in C : e <= x
  <2>1. C \subseteq Nat /\ C # {}
    BY <1>1
  <2> HIDE DEF C
  <2> QED
    BY <2>1, LeastNatural
<1>6. e \in S /\ event[e].wall = w /\ event[e].logical = l /\ event[e].node = m
  OBVIOUS
<1>7. ASSUME NEW f \in S, f # e PROVE Before(e, f)
  <2>1. w <= event[f].wall
    BY <1>2
  <2>2. CASE event[f].wall # w
    <3>1. w < event[f].wall
      BY <1>1, <1>6, <2>1, <2>2
    <3> QED
      BY <1>6, <3>1 DEF Before
  <2>3. CASE event[f].wall = w /\ event[f].logical # l
    <3>1. l <= event[f].logical
      BY <1>3, <2>3
    <3>2. l < event[f].logical
      BY <1>1, <1>6, <2>3, <3>1
    <3> QED
      BY <1>6, <2>3, <3>2 DEF Before
  <2>4. CASE event[f].wall = w /\ event[f].logical = l /\ event[f].node # m
    <3>1. m <= event[f].node
      BY <1>4, <2>4
    <3>2. m < event[f].node
      BY <1>1, <1>6, <2>4, <3>1
    <3> QED
      BY <1>6, <2>4, <3>2 DEF Before
  <2>5. CASE event[f].wall = w /\ event[f].logical = l /\ event[f].node = m
    <3>1. e <= f
      BY <1>5, <2>5
    <3>2. e < f
      BY <1>1, <1>6, <1>7, <3>1
    <3> QED
      BY <1>6, <2>5, <3>2 DEF Before
  <2> QED
    BY <2>2, <2>3, <2>4, <2>5
<1> QED
  BY <1>6, <1>7

\* The recursion of the canonical order has a solution.
LEMMA CanonicalUnfolds ==
  ASSUME NEW S, Cardinality(S) \in Nat
  PROVE  \E g : /\ g[0] = <<>> /\ Canonical(S) = g[Cardinality(S)]
                /\ \A i \in 1..Cardinality(S) :
                     LET out == Range(g[i - 1])
                         ripe == {e \in S \ out : event[e].prev \cap S \subseteq out}
                     IN g[i] = Append(g[i - 1], CHOOSE e \in ripe : \A f \in ripe \ {e} : Before(e, f))
<1> DEFINE n == Cardinality(S)
           Ripe(out) == {e \in S \ out : event[e].prev \cap S \subseteq out}
           First(ripe) == CHOOSE e \in ripe : \A f \in ripe \ {e} : Before(e, f)
           Longer(p) == Append(p, First(Ripe(Range(p))))
           Solves(g, k) == g = [i \in 0..k |-> IF i = 0 THEN <<>> ELSE Longer(g[i - 1])]
           Unsolved == {k \in Nat : ~\E g : Solves(g, k)}
<1>1. Canonical(S) = (CHOOSE g : Solves(g, n))[n]
  BY DEF Canonical
<1>a. \A p : LET out == Range(p)
                 ripe == {e \in S \ out : event[e].prev \cap S \subseteq out}
             IN Longer(p) = Append(p, CHOOSE e \in ripe : \A f \in ripe \ {e} : Before(e, f))
  OBVIOUS
<1> HIDE DEF Ripe, First, Longer
<1>b. n \in Nat
  OBVIOUS
<1> HIDE DEF n
<1>2. Unsolved = {}
  <2> SUFFICES ASSUME Unsolved # {} PROVE FALSE
    OBVIOUS
  <2>1. PICK k \in Unsolved : \A m \in Unsolved : k <= m
    <3>1. Unsolved \subseteq Nat
      OBVIOUS
    <3> HIDE DEF Unsolved
    <3> QED
      BY <3>1, LeastNatural
  <2>2. k \in Nat /\ ~\E g : Solves(g, k)
    BY <2>1
  <2>3. CASE k = 0
    <3> DEFINE g == [i \in 0..0 |-> <<>>]
    <3>1. g = [i \in 0..0 |-> IF i = 0 THEN <<>> ELSE Longer(g[i - 1])]
      <4>1. \A i \in 0..0 : i = 0
        OBVIOUS
      <4> QED
        BY <4>1
    <3>2. Solves(g, k)
      BY <2>3, <3>1
    <3> QED
      BY <2>2, <3>2
  <2>4. CASE k # 0
    <3>1. k - 1 \in Nat /\ ~(k <= k - 1)
      BY <2>2, <2>4
    <3>2. k - 1 \notin Unsolved
      BY <2>1, <3>1
    <3>3. PICK g : Solves(g, k - 1)
      BY <3>1, <3>2
    <3> DEFINE h == [i \in 0..k |-> IF i = k THEN Longer(g[k - 1]) ELSE g[i]]
    <3>4. \A i \in 0..k : h[i] = IF i = k THEN Longer(g[k - 1]) ELSE g[i]
      OBVIOUS
    <3>5. \A i \in 0..(k - 1) : g[i] = IF i = 0 THEN <<>> ELSE Longer(g[i - 1])
      BY <3>3
    <3>6. ASSUME NEW i \in 0..k
          PROVE  h[i] = IF i = 0 THEN <<>> ELSE Longer(h[i - 1])
      <4>1. CASE i = k
        <5>1. k - 1 \in 0..k /\ k - 1 # k /\ k \in 0..k
          BY <2>2, <3>1
        <5>2. h[k] = Longer(g[k - 1]) /\ h[k - 1] = g[k - 1]
          BY <3>4, <5>1
        <5> HIDE DEF h
        <5> QED
          BY <2>4, <4>1, <5>2
      <4>2. CASE i # k
        <5>1. i \in 0..(k - 1) /\ (i # 0 => i - 1 \in 0..k /\ i - 1 # k)
          BY <2>2, <4>2
        <5>2. h[i] = g[i] /\ (i # 0 => h[i - 1] = g[i - 1])
          BY <3>4, <4>2, <5>1
        <5> HIDE DEF h
        <5> QED
          BY <3>5, <5>1, <5>2
      <4> QED
        BY <4>1, <4>2
    <3>7. h = [i \in 0..k |-> IF i = 0 THEN <<>> ELSE Longer(h[i - 1])]
      <4> DEFINE u == [i \in 0..k |-> IF i = 0 THEN <<>> ELSE Longer(h[i - 1])]
      <4>1. \A i \in 0..k : h[i] = u[i]
        BY <3>6
      <4>2. h = [i \in 0..k |-> h[i]] /\ u = [i \in 0..k |-> u[i]]
        OBVIOUS
      <4> HIDE DEF h, u
      <4>3. h = u
        BY <4>1, <4>2
      <4> QED
        BY <4>3 DEF u
    <3> QED
      BY <2>2, <3>7
  <2> QED
    BY <2>3, <2>4
<1>3. PICK g : Solves(g, n) /\ g = CHOOSE x : Solves(x, n)
  <2>1. \E x : Solves(x, n)
    BY <1>2, <1>b
  <2> QED
    BY <2>1
<1>4. Canonical(S) = g[n]
  BY <1>1, <1>3
<1>5. \A i \in 0..n : g[i] = IF i = 0 THEN <<>> ELSE Longer(g[i - 1])
  BY <1>3
<1>6. g[0] = <<>> /\ \A i \in 1..n : g[i] = Longer(g[i - 1])
  BY <1>5, <1>b
<1> QED
  BY <1>4, <1>6, <1>a DEF n

\* The events are finitely many numbers.
LEMMA EventsFinite ==
  ASSUME EventsFit, NEW S, S \subseteq DOMAIN event
  PROVE  IsFiniteSet(S) /\ S \subseteq Nat /\ Cardinality(S) \in Nat
<1> DEFINE k == Cardinality(DOMAIN event)
<1>1. DOMAIN event = 1..k /\ k \in Nat
  BY DEF EventsFit
<1> HIDE DEF k
<1>2. IsFiniteSet(1..k) /\ 1..k \subseteq Nat
  BY <1>1, FS_Interval
<1> QED
  BY <1>1, <1>2, FS_Subset, FS_CardinalityType

\* A step of the canonical order: a further event, whose parents in S are out already.
Beginning(p, S) ==
  /\ p \in Seq(S) /\ Cardinality(Range(p)) = Len(p)
  /\ \A i, j \in 1..Len(p) : p[i] = p[j] => i = j
  /\ \A j \in 1..Len(p) : event[p[j]].prev \cap S \subseteq {p[i] : i \in 1..(j - 1)}

LEMMA CanonicalGrows ==
  ASSUME EventsFit, NEW S, S \subseteq DOMAIN event, NEW p, Beginning(p, S),
         Len(p) < Cardinality(S),
         NEW ripe, ripe = {e \in S \ Range(p) : event[e].prev \cap S \subseteq Range(p)}
  PROVE  /\ ripe \subseteq S /\ ripe # {}
         /\ \A e \in ripe : Beginning(Append(p, e), S) /\ Len(Append(p, e)) = Len(p) + 1
<1>1. IsFiniteSet(S) /\ S \subseteq Nat
  BY EventsFinite
<1>2. Range(p) \subseteq S /\ p \in Seq(S) /\ Len(p) \in Nat /\ DOMAIN p = 1..Len(p)
  BY DEF Beginning, Range
<1>3. S \ Range(p) # {}
  <2>1. CASE S = Range(p)
    BY <2>1, <1>2 DEF Beginning
  <2> QED
    BY <2>1, <1>2
<1>4. PICK e \in S \ Range(p) : \A x \in S \ Range(p) : e <= x
  <2>1. S \ Range(p) \subseteq Nat
    BY <1>1
  <2> QED
    BY <1>3, <2>1, LeastNatural
<1>5. e \in ripe
  <2>1. ASSUME NEW x \in event[e].prev \cap S PROVE x \in Range(p)
    <3>1. x \in 1..(e - 1)
      BY DEF EventsFit, EventFits
    <3>2. ~(e <= x)
      BY <1>1, <3>1
    <3> QED
      BY <1>4, <3>2
  <2> QED
    BY <2>1
<1>6. SUFFICES ASSUME NEW first \in ripe
               PROVE  Beginning(Append(p, first), S) /\ Len(Append(p, first)) = Len(p) + 1
  BY <1>5
<1>7. first \in S /\ first \notin Range(p) /\ event[first].prev \cap S \subseteq Range(p)
  BY <1>6
<1> DEFINE q == Append(p, first)
<1>8. /\ q \in Seq(S) /\ Len(q) = Len(p) + 1 /\ q[Len(p) + 1] = first
      /\ \A i \in 1..Len(p) : q[i] = p[i]
  BY <1>2, <1>7
<1> HIDE DEF q
<1>9. Range(q) = Range(p) \cup {first}
  <2>1. DOMAIN q = 1..(Len(p) + 1)
    BY <1>8
  <2>2. \A i \in 1..(Len(p) + 1) : i \in 1..Len(p) \/ i = Len(p) + 1
    BY <1>2
  <2>3. \A i \in 1..Len(p) : i \in 1..(Len(p) + 1)
    BY <1>2
  <2>4. Len(p) + 1 \in 1..(Len(p) + 1)
    BY <1>2
  <2>5. \A x \in Range(q) : x \in Range(p) \cup {first}
    BY <1>2, <1>8, <2>1, <2>2 DEF Range
  <2>6. \A x \in Range(p) \cup {first} : x \in Range(q)
    BY <1>2, <1>8, <2>1, <2>3, <2>4 DEF Range
  <2> QED
    BY <2>5, <2>6
<1>10. Cardinality(Range(q)) = Len(q)
  <2> DEFINE R == Range(p)
  <2>1. IsFiniteSet(R) /\ first \notin R /\ Cardinality(R) = Len(p) /\ Range(q) = R \cup {first}
    BY <1>1, <1>2, <1>7, <1>9, FS_Subset DEF Beginning
  <2> HIDE DEF R
  <2>2. Cardinality(R \cup {first}) = Cardinality(R) + 1
    BY <2>1, FS_AddElement
  <2> QED
    BY <2>1, <2>2, <1>8
<1>11. \A i \in 1..Len(p) : q[i] # first
  BY <1>2, <1>7, <1>8 DEF Range
<1>12. ASSUME NEW i \in 1..Len(q), NEW j \in 1..Len(q), q[i] = q[j] PROVE i = j
  <2>1. (i \in 1..Len(p) \/ i = Len(p) + 1) /\ (j \in 1..Len(p) \/ j = Len(p) + 1)
    BY <1>2, <1>8
  <2> QED
    BY <1>8, <1>11, <1>12, <2>1 DEF Beginning
<1>13. ASSUME NEW j \in 1..Len(q) PROVE event[q[j]].prev \cap S \subseteq {q[i] : i \in 1..(j - 1)}
  <2>1. CASE j \in 1..Len(p)
    <3>1. event[p[j]].prev \cap S \subseteq {p[i] : i \in 1..(j - 1)}
      BY <2>1 DEF Beginning
    <3>2. \A i \in 1..(j - 1) : q[i] = p[i]
      BY <1>2, <1>8, <2>1
    <3>3. q[j] = p[j]
      BY <1>8, <2>1
    <3> QED
      BY <3>1, <3>2, <3>3
  <2>2. CASE j = Len(p) + 1
    <3>1. j - 1 = Len(p) /\ q[j] = first
      BY <1>2, <1>8, <2>2
    <3>2. Range(p) = {q[i] : i \in 1..Len(p)}
      BY <1>2, <1>8 DEF Range
    <3> QED
      BY <1>7, <3>1, <3>2
  <2> QED
    BY <1>2, <1>8, <2>1, <2>2
<1> QED
  BY <1>8, <1>10, <1>12, <1>13 DEF q, Beginning

\* The canonical order has every event once, and parents first.
LEMMA CanonicalOrders ==
  ASSUME EventsFit, NEW S, S \subseteq DOMAIN event
  PROVE  IsOrderOf(Canonical(S), S) /\ Topological(Canonical(S))
<1>1. IsFiniteSet(S) /\ Cardinality(S) \in Nat
  BY EventsFinite
<1> DEFINE n == Cardinality(S)
<1>2. PICK g : /\ g[0] = <<>> /\ Canonical(S) = g[n]
               /\ \A i \in 1..n :
                    LET out == Range(g[i - 1])
                        ripe == {e \in S \ out : event[e].prev \cap S \subseteq out}
                    IN g[i] = Append(g[i - 1], CHOOSE e \in ripe : \A f \in ripe \ {e} : Before(e, f))
  BY <1>1, CanonicalUnfolds
<1> DEFINE Bad == {k \in 0..n : ~(Beginning(g[k], S) /\ Len(g[k]) = k)}
<1>3. Bad = {}
  <2> SUFFICES ASSUME Bad # {} PROVE FALSE
    OBVIOUS
  <2>1. PICK k \in Bad : \A m \in Bad : k <= m
    <3>1. Bad \subseteq Nat
      OBVIOUS
    <3> HIDE DEF Bad
    <3> QED
      BY <3>1, LeastNatural
  <2>2. k \in 0..n /\ ~(Beginning(g[k], S) /\ Len(g[k]) = k)
    BY <2>1
  <2>3. CASE k = 0
    <3>1. Beginning(<<>>, S) /\ Len(<<>>) = 0
      <4>1. Range(<<>>) = {} /\ Len(<<>>) = 0 /\ <<>> \in Seq(S)
        BY DEF Range
      <4>2. Cardinality({}) = 0
        BY FS_EmptySet
      <4>3. \A j \in 1..0 : FALSE
        OBVIOUS
      <4> QED
        BY <4>1, <4>2, <4>3 DEF Beginning
    <3> QED
      BY <1>2, <2>2, <2>3, <3>1
  <2>4. CASE k # 0
    <3>1. k \in 1..n /\ k - 1 \in 0..n /\ ~(k <= k - 1)
      BY <1>1, <2>2, <2>4
    <3>2. k - 1 \notin Bad
      BY <2>1, <3>1
    <3>3. Beginning(g[k - 1], S) /\ Len(g[k - 1]) = k - 1 /\ Len(g[k - 1]) < n
      BY <1>1, <3>1, <3>2
    <3> DEFINE p == g[k - 1]
               ripe == {e \in S \ Range(p) : event[e].prev \cap S \subseteq Range(p)}
               first == CHOOSE e \in ripe : \A f \in ripe \ {e} : Before(e, f)
    <3>4. g[k] = Append(p, first)
      BY <1>2, <3>1
    <3>5. Beginning(Append(p, first), S) /\ Len(Append(p, first)) = Len(p) + 1
      <4>1. Beginning(p, S) /\ Len(p) < Cardinality(S) /\ S \subseteq DOMAIN event
        BY <3>3
      <4>2. ripe = {e \in S \ Range(p) : event[e].prev \cap S \subseteq Range(p)}
        OBVIOUS
      <4> HIDE DEF p, ripe, n
      <4>3. /\ ripe \subseteq S /\ ripe # {}
            /\ \A e \in ripe : Beginning(Append(p, e), S) /\ Len(Append(p, e)) = Len(p) + 1
        BY <4>1, <4>2, CanonicalGrows
      <4>4. \E e \in ripe : \A f \in ripe \ {e} : Before(e, f)
        BY <4>1, <4>3, FirstExists
      <4>5. first \in ripe
        BY <4>4
      <4> HIDE DEF first
      <4> QED
        BY <4>3, <4>5
    <3>6. Len(g[k]) = k
      BY <3>1, <3>3, <3>4, <3>5
    <3> QED
      BY <2>2, <3>4, <3>5, <3>6
  <2> QED
    BY <2>3, <2>4
<1>4. Beginning(Canonical(S), S) /\ Len(Canonical(S)) = n
  BY <1>1, <1>2, <1>3
<1> DEFINE order == Canonical(S)
<1> HIDE DEF order
<1>5. Beginning(order, S) /\ Len(order) = n
  BY <1>4 DEF order
<1>6. Range(order) = S
  <2>1. Range(order) \subseteq S /\ Cardinality(Range(order)) = Cardinality(S)
    BY <1>5 DEF Beginning, Range
  <2> QED
    BY <1>1, <2>1, FS_Subset
<1>7. Topological(order)
  <2> SUFFICES ASSUME NEW i \in 1..Len(order), NEW j \in 1..Len(order), order[i] \in event[order[j]].prev
               PROVE  i < j
    BY DEF Topological
  <2>1. order[i] \in S
    BY <1>5 DEF Beginning
  <2>2. PICK k \in 1..(j - 1) : order[i] = order[k]
    BY <1>5, <2>1 DEF Beginning
  <2>3. k \in 1..Len(order) /\ k < j
    BY <1>1, <1>5, <2>2
  <2>4. k = i
    BY <1>5, <2>2, <2>3 DEF Beginning
  <2> QED
    BY <2>3, <2>4
<1> QED
  BY <1>5, <1>6, <1>7 DEF order, IsOrderOf, Beginning

\* What is kept of an order are events of it, each once where the order has each once: its
\* recursion has a solution in sequences.
LEMMA KeptOfFits ==
  ASSUME NEW W, NEW order \in Seq(W), NEW keep
  PROVE  /\ KeptOf(order, keep) \in Seq(W)
         /\ IsInjective(order) => IsInjective(KeptOf(order, keep))
<1> DEFINE n == Len(order)
           Longer(p, i) == IF order[i] \in keep THEN Append(p, order[i]) ELSE p
           Solves(g, k) == g = [i \in 0..k |-> IF i = 0 THEN <<>> ELSE Longer(g[i - 1], i)]
           Unsolved == {k \in 0..n : ~\E g : Solves(g, k)}
<1>1. KeptOf(order, keep) = (CHOOSE g : Solves(g, n))[n]
  BY DEF KeptOf
<1>2. n \in Nat /\ \A p \in Seq(W), i \in 1..n : Longer(p, i) \in Seq(W)
  OBVIOUS
<1> HIDE DEF n, Longer
<1>3. Unsolved = {}
  <2> SUFFICES ASSUME Unsolved # {} PROVE FALSE
    OBVIOUS
  <2>1. PICK k \in Unsolved : \A m \in Unsolved : k <= m
    <3>1. Unsolved \subseteq Nat
      OBVIOUS
    <3> HIDE DEF Unsolved
    <3> QED
      BY <3>1, LeastNatural
  <2>2. k \in 0..n /\ ~\E g : Solves(g, k)
    BY <2>1
  <2>3. CASE k = 0
    <3> DEFINE g == [i \in 0..0 |-> <<>>]
    <3>1. g = [i \in 0..0 |-> IF i = 0 THEN <<>> ELSE Longer(g[i - 1], i)]
      <4>1. \A i \in 0..0 : i = 0
        OBVIOUS
      <4> QED
        BY <4>1
    <3>2. Solves(g, k)
      BY <2>3, <3>1
    <3> QED
      BY <2>2, <3>2
  <2>4. CASE k # 0
    <3>1. k \in 1..n /\ k - 1 \in 0..n /\ ~(k <= k - 1)
      BY <1>2, <2>2, <2>4
    <3>2. k - 1 \notin Unsolved
      BY <2>1, <3>1
    <3>3. PICK g : Solves(g, k - 1)
      BY <3>1, <3>2
    <3> DEFINE h == [i \in 0..k |-> IF i = k THEN Longer(g[k - 1], k) ELSE g[i]]
    <3>4. \A i \in 0..k : h[i] = IF i = k THEN Longer(g[k - 1], k) ELSE g[i]
      OBVIOUS
    <3>5. \A i \in 0..(k - 1) : g[i] = IF i = 0 THEN <<>> ELSE Longer(g[i - 1], i)
      BY <3>3
    <3>6. ASSUME NEW i \in 0..k
          PROVE  h[i] = IF i = 0 THEN <<>> ELSE Longer(h[i - 1], i)
      <4>1. CASE i = k
        <5>1. k - 1 \in 0..k /\ k - 1 # k /\ k \in 0..k
          BY <2>2, <3>1
        <5>2. h[k] = Longer(g[k - 1], k) /\ h[k - 1] = g[k - 1]
          BY <3>4, <5>1
        <5> HIDE DEF h
        <5> QED
          BY <2>4, <4>1, <5>2
      <4>2. CASE i # k
        <5>1. i \in 0..(k - 1) /\ (i # 0 => i - 1 \in 0..k /\ i - 1 # k)
          BY <2>2, <4>2
        <5>2. h[i] = g[i] /\ (i # 0 => h[i - 1] = g[i - 1])
          BY <3>4, <4>2, <5>1
        <5> HIDE DEF h
        <5> QED
          BY <3>5, <5>1, <5>2
      <4> QED
        BY <4>1, <4>2
    <3>7. h = [i \in 0..k |-> IF i = 0 THEN <<>> ELSE Longer(h[i - 1], i)]
      <4> DEFINE u == [i \in 0..k |-> IF i = 0 THEN <<>> ELSE Longer(h[i - 1], i)]
      <4>1. \A i \in 0..k : h[i] = u[i]
        BY <3>6
      <4>2. h = [i \in 0..k |-> h[i]] /\ u = [i \in 0..k |-> u[i]]
        OBVIOUS
      <4> HIDE DEF h, u
      <4>3. h = u
        BY <4>1, <4>2
      <4> QED
        BY <4>3 DEF u
    <3> QED
      BY <2>2, <3>7
  <2> QED
    BY <2>3, <2>4
<1>4. 0 \in 0..n /\ n \in 0..n
  BY <1>2
<1>5. PICK x : Solves(x, n) /\ x = CHOOSE y : Solves(y, n)
  <2>1. \E g : Solves(g, n)
    BY <1>3, <1>4
  <2> QED
    BY <2>1
<1>6. \A i \in 0..n : x[i] = IF i = 0 THEN <<>> ELSE Longer(x[i - 1], i)
  BY <1>5
<1> DEFINE Sound(k) ==
             /\ x[k] \in Seq(W)
             /\ IsInjective(order) => /\ IsInjective(x[k])
                                      /\ \A j \in 1..Len(x[k]) : \E i \in 1..k : x[k][j] = order[i]
           Bad == {k \in 0..n : ~Sound(k)}
<1>7. Bad = {}
  <2> SUFFICES ASSUME Bad # {} PROVE FALSE
    OBVIOUS
  <2>1. PICK k \in Bad : \A m \in Bad : k <= m
    <3>1. Bad \subseteq Nat
      OBVIOUS
    <3> HIDE DEF Bad
    <3> QED
      BY <3>1, LeastNatural
  <2>2. k # 0
    <3>1. x[0] = <<>> /\ <<>> \in Seq(W)
      BY <1>4, <1>6
    <3>2. IsInjective(<<>>) /\ Len(<<>>) = 0
      BY DEF IsInjective
    <3>3. Sound(0)
      BY <3>1, <3>2
    <3> HIDE DEF Sound
    <3> QED
      BY <2>1, <3>3
  <2>3. k \in 1..n /\ k - 1 \in 0..n /\ ~(k <= k - 1) /\ 1..(k - 1) \subseteq 1..k /\ k \notin 1..(k - 1)
    BY <1>2, <2>1, <2>2
  <2>4. Sound(k - 1)
    <3> HIDE DEF Sound
    <3> QED
      BY <2>1, <2>3
  <2> DEFINE p == x[k - 1]
  <2>5. x[k] = IF order[k] \in keep THEN Append(p, order[k]) ELSE p
    BY <1>6, <2>2, <2>3 DEF Longer
  <2>6. p \in Seq(W) /\ order[k] \in W /\ DOMAIN order = 1..n
    BY <2>3, <2>4 DEF n
  <2>7. ASSUME IsInjective(order)
        PROVE  IsInjective(p) /\ \A j \in 1..Len(p) : \E i \in 1..(k - 1) : p[j] = order[i]
    BY <2>4, <2>7
  <2> HIDE DEF p
  <2>8. CASE order[k] \in keep
    <3> DEFINE v == order[k]
               q == Append(p, v)
    <3>1. x[k] = q /\ v \in W
      BY <2>5, <2>6, <2>8
    <3>2. /\ q \in Seq(W) /\ Len(q) = Len(p) + 1 /\ Len(p) \in Nat /\ q[Len(p) + 1] = v
          /\ \A j \in 1..Len(p) : q[j] = p[j]
      BY <2>6, <3>1
    <3>3. ASSUME IsInjective(order) PROVE IsInjective(q)
      <4>1. ASSUME NEW j \in 1..Len(p) PROVE p[j] # v
        <5>1. PICK i \in 1..(k - 1) : p[j] = order[i]
          BY <2>7, <3>3
        <5>2. i \in 1..n /\ k \in 1..n /\ i # k
          BY <1>2, <2>3
        <5>3. order[i] # order[k]
          BY <2>6, <3>3, <5>2 DEF IsInjective
        <5> QED
          BY <5>1, <5>3
      <4> HIDE DEF v
      <4> QED
        BY <2>6, <2>7, <3>1, <3>3, <4>1, OnceMore
    <3>4. ASSUME IsInjective(order), NEW j \in 1..Len(q) PROVE \E i \in 1..k : q[j] = order[i]
      <4> HIDE DEF q
      <4>1. CASE j = Len(p) + 1
        BY <2>3, <3>2, <4>1
      <4>2. CASE j # Len(p) + 1
        <5>1. j \in 1..Len(p)
          BY <3>2, <4>2
        <5> QED
          BY <2>3, <2>7, <3>2, <3>4, <5>1
      <4> QED
        BY <4>1, <4>2
    <3> HIDE DEF q
    <3>5. Sound(k)
      BY <3>1, <3>2, <3>3, <3>4
    <3> HIDE DEF Sound
    <3> QED
      BY <2>1, <3>5
  <2>9. CASE order[k] \notin keep
    <3>1. x[k] = p
      BY <2>5, <2>9
    <3>2. Sound(k)
      BY <2>3, <2>6, <2>7, <3>1
    <3> HIDE DEF Sound
    <3> QED
      BY <2>1, <3>2
  <2> QED
    BY <2>8, <2>9
<1>8. KeptOf(order, keep) = x[n]
  BY <1>1, <1>5
<1>9. Sound(n)
  <2> HIDE DEF Sound
  <2> QED
    BY <1>4, <1>7
<1> QED
  BY <1>8, <1>9

\* An order whose events are in S, and the rest of S behind it.
LEMMA MergedOrders ==
  ASSUME EventsFit, NEW S, S \subseteq DOMAIN event,
         NEW order \in Seq(S), OnceEach(order)
  PROVE  /\ IsOrderOf(Merged(order, S), S)
         /\ /\ Topological(order)
            /\ \A e \in Range(order) : event[e].prev \cap (S \ Range(order)) = {}
            => Topological(Merged(order, S))
<1> DEFINE rest == S \ Range(order)
           more == Canonical(rest)
<1>1. IsOrderOf(more, rest) /\ Topological(more)
  BY CanonicalOrders
<1>2. Merged(order, S) = order \o more
  BY DEF Merged
<1> HIDE DEF more
<1>3. Range(order) \subseteq S /\ Len(order) \in Nat
  BY DEF Range
<1>4. more \in Seq(S) /\ Len(more) = Cardinality(rest) /\ Range(more) = rest
  BY <1>1 DEF IsOrderOf
<1>5. Cardinality(rest) = Cardinality(S) - Cardinality(Range(order)) /\ Cardinality(S) \in Nat
  <2>1. S \cap Range(order) = Range(order) /\ IsFiniteSet(S)
    BY <1>3, EventsFinite
  <2>2. Cardinality(S \ Range(order)) = Cardinality(S) - Cardinality(S \cap Range(order))
    BY <2>1, FS_Difference
  <2> QED
    BY <2>1, <2>2, EventsFinite
<1> DEFINE all == order \o more
<1>a. more \in Seq(S) /\ order \in Seq(S) /\ Range(order) \cup rest = S
  BY <1>3, <1>4
<1>b. \A W, a, b : a \in Seq(W) /\ b \in Seq(W) => Range(a \o b) = Range(a) \cup Range(b)
  BY RangesJoin
<1> HIDE DEF rest
<1>6. /\ all \in Seq(S) /\ Len(all) = Len(order) + Len(more)
      /\ \A i \in 1..Len(order) : all[i] = order[i]
      /\ \A i \in 1..Len(more) : all[Len(order) + i] = more[i]
      /\ Len(more) \in Nat
  <2> HIDE DEF all
  <2>1. all = order \o more /\ more \in Seq(S) /\ order \in Seq(S)
    BY <1>a DEF all
  <2>2. all \in Seq(S)
    BY <2>1
  <2>5. Len(all) = Len(order) + Len(more) /\ Len(more) \in Nat
    BY <2>1
  <2>3. \A i \in 1..Len(order) : all[i] = order[i]
    BY <2>1
  <2>4. \A i \in 1..Len(more) : all[Len(order) + i] = more[i]
    BY <2>1
  <2> QED
    BY <2>2, <2>3, <2>4, <2>5
<1>7. Range(all) = S
  <2>1. Range(order \o more) = Range(order) \cup Range(more)
    BY <1>a, <1>b
  <2> QED
    BY <1>4, <1>a, <2>1
<1> HIDE DEF all
<1>8. Len(all) = Cardinality(S)
  BY <1>3, <1>4, <1>5, <1>6 DEF OnceEach
<1>9. ASSUME Topological(order), \A e \in Range(order) : event[e].prev \cap rest = {}
      PROVE  Topological(all)
  <2> SUFFICES ASSUME NEW i \in 1..Len(all), NEW j \in 1..Len(all), all[i] \in event[all[j]].prev
               PROVE  i < j
    BY DEF Topological
  <2>1. CASE i <= Len(order) /\ j <= Len(order)
    <3>1. i \in 1..Len(order) /\ j \in 1..Len(order)
      BY <1>3, <2>1
    <3> QED
      BY <1>6, <1>9, <3>1 DEF Topological
  <2>2. CASE i <= Len(order) /\ ~(j <= Len(order))
    BY <1>3, <1>6, <2>2
  <2>3. CASE ~(i <= Len(order)) /\ j <= Len(order)
    <3>1. j \in 1..Len(order) /\ i - Len(order) \in 1..Len(more) /\ Len(order) + (i - Len(order)) = i
      BY <1>3, <1>6, <2>3
    <3>2. all[i] = more[i - Len(order)] /\ all[j] = order[j]
      BY <1>6, <3>1
    <3>3. all[i] \in rest /\ all[j] \in Range(order)
      <4>1. DOMAIN order = 1..Len(order) /\ DOMAIN more = 1..Len(more)
        BY <1>a
      <4>2. more[i - Len(order)] \in Range(more) /\ order[j] \in Range(order)
        BY <3>1, <4>1 DEF Range
      <4> QED
        BY <1>4, <3>2, <4>2
    <3> QED
      BY <1>9, <3>3
  <2>4. CASE ~(i <= Len(order)) /\ ~(j <= Len(order))
    <3> DEFINE k == i - Len(order)
               l == j - Len(order)
    <3>1. k \in 1..Len(more) /\ l \in 1..Len(more) /\ Len(order) + k = i /\ Len(order) + l = j
      BY <1>3, <1>6, <2>4
    <3> HIDE DEF k, l
    <3>2. all[i] = more[k] /\ all[j] = more[l]
      BY <1>6, <3>1
    <3>3. k < l
      BY <1>1, <3>1, <3>2 DEF Topological
    <3> QED
      BY <1>3, <3>1, <3>3
  <2> QED
    BY <2>1, <2>2, <2>3, <2>4
<1> QED
  BY <1>2, <1>6, <1>7, <1>8, <1>9 DEF all, rest, IsOrderOf

\* Whatever the cache holds, what is given is an order of the events there are.
LEMMA ResolvedOrders ==
  ASSUME TimelineInv, NEW n \in Writers
  PROVE  /\ IsOrderOf(Resolved(cache[n], Rows(n)), Rows(n))
         /\ ~Late(n) => Topological(Resolved(cache[n], Rows(n)))
<1> DEFINE S == Rows(n)
           c == cache[n]
           order == c.order
<1>1. S \subseteq DOMAIN event
  BY DEF Rows, TimelineInv, Range
<1>2. EventsFit /\ order \in Seq(DOMAIN event) /\ OnceEach(order)
      /\ (~c.late => Topological(order))
  BY DEF TimelineInv
<1>3. Late(n) <=> /\ Hits(c, S) \/ Merges(c, S)
                  /\ c.late \/ \E e \in Range(order) : event[e].prev \cap (S \ Range(order)) # {}
  BY DEF Late
<1>4. Resolved(c, S) = IF Hits(c, S) THEN order ELSE IF Merges(c, S) THEN Merged(order, S) ELSE Canonical(S)
  BY DEF Resolved
<1>5. (Hits(c, S) => Len(order) = Cardinality(S) /\ Range(order) \subseteq S)
      /\ (Merges(c, S) => Range(order) \subseteq S)
  BY DEF Hits, Merges
<1>6. IsFiniteSet(S)
  BY <1>1, <1>2, EventsFinite
<1> HIDE DEF S, c, order
<1>7. ASSUME Range(order) \subseteq S PROVE order \in Seq(S)
  <2>1. \A i \in 1..Len(order) : order[i] \in S
    BY <1>2, <1>7 DEF Range
  <2> QED
    BY <1>2, <2>1
<1>8. CASE Hits(c, S)
  <2>1. Range(order) = S
    BY <1>2, <1>5, <1>6, <1>8, FS_Subset DEF OnceEach
  <2>2. order \in Seq(S)
    BY <1>7, <2>1
  <2>3. ~Late(n) => Topological(order)
    BY <1>2, <1>3, <1>8
  <2> QED
    BY <1>4, <1>5, <1>8, <2>1, <2>2, <2>3 DEF IsOrderOf, S, c
<1>9. CASE ~Hits(c, S) /\ Merges(c, S)
  <2>1. order \in Seq(S)
    BY <1>5, <1>7, <1>9
  <2>2. /\ IsOrderOf(Merged(order, S), S)
        /\ /\ Topological(order)
           /\ \A e \in Range(order) : event[e].prev \cap (S \ Range(order)) = {}
           => Topological(Merged(order, S))
    BY <1>1, <1>2, <2>1, MergedOrders
  <2>3. ~Late(n) => Topological(Merged(order, S))
    BY <1>2, <1>3, <1>9, <2>2
  <2>4. Resolved(c, S) = Merged(order, S)
    BY <1>4, <1>9
  <2> QED
    BY <2>2, <2>3, <2>4 DEF S, c
<1>10. CASE ~Hits(c, S) /\ ~Merges(c, S)
  <2>1. Resolved(c, S) = Canonical(S)
    BY <1>4, <1>10
  <2> QED
    BY <1>1, <1>2, <2>1, CanonicalOrders DEF S, c
<1> QED
  BY <1>8, <1>9, <1>10

LEMMA TimelineInit == InitTimeline => TimelineInv
<1> SUFFICES ASSUME InitTimeline PROVE TimelineInv
  OBVIOUS
<1>1. event = <<>> /\ file = [n \in Writers |-> <<>>] /\ wall = [n \in Writers |-> 1]
      /\ cache = [n \in Writers |-> NoCache]
  BY DEF InitTimeline
<1>2. DOMAIN event = {} /\ Cardinality({}) = 0 /\ 1..0 = {}
  BY <1>1, FS_EmptySet
<1>3. EventsFit
  BY <1>2 DEF EventsFit
<1>4. \A n \in Writers : cache[n].order = <<>> /\ Range(<<>>) = {}
  BY <1>1 DEF NoCache, Range
<1>5. Topological(<<>>) /\ Len(<<>>) = 0
  BY DEF Topological
<1>6. \A n \in Writers : /\ cache[n].order \in Seq(DOMAIN event)
                         /\ OnceEach(cache[n].order)
                        /\ Topological(cache[n].order)
  <2> SUFFICES ASSUME NEW n \in Writers, NEW order, order = cache[n].order
               PROVE  order \in Seq(DOMAIN event) /\ OnceEach(order) /\ Topological(order)
    OBVIOUS
  <2>1. order = <<>>
    BY <1>4
  <2>2. <<>> \in Seq(DOMAIN event) /\ OnceEach(<<>>) /\ Topological(<<>>)
    <3>1. Range(<<>>) = {}
      BY DEF Range
    <3>2. Cardinality(Range(<<>>)) = 0
      BY <1>2, <3>1, Zenon
    <3>3. <<>> \in Seq(DOMAIN event)
      OBVIOUS
    <3> QED
      BY <1>5, <3>2, <3>3, Zenon DEF OnceEach
  <2> QED
    BY <2>1, <2>2, Zenon
<1>7. wall \in [Writers -> Nat] /\ file \in [Writers -> Seq(DOMAIN event)] /\ DOMAIN cache = Writers
  BY <1>1
<1> QED
  BY <1>3, <1>6, <1>7 DEF TimelineInv

\* A further event changes none of those before it.
LEMMA AppendEventInv ==
  ASSUME TimelineInv, NEW n \in Writers, AppendEvent(n)
  PROVE  TimelineInv'
<1> DEFINE k == Cardinality(DOMAIN event)
           hlc == IF file[n] = <<>> THEN [wall |-> wall[n], logical |-> 0]
                  ELSE NextHlc(event[Last(file[n])], wall[n])
           made == [prev |-> Tips(Rows(n)), wall |-> hlc.wall, logical |-> hlc.logical, node |-> n]
<1>1. /\ event' = [j \in 1..(k + 1) |-> IF j = k + 1 THEN made ELSE event[j]]
      /\ file' = [file EXCEPT ![n] = Append(@, k + 1)]
      /\ wall' = wall /\ cache' = cache
  BY DEF AppendEvent
<1>2. DOMAIN event = 1..k /\ k \in Nat /\ \A e \in 1..k : EventFits(e, event[e])
  BY DEF TimelineInv, EventsFit
<1>3. file[n] \in Seq(1..k) /\ wall[n] \in Nat /\ n \in Nat
  BY <1>2, TimelineAssumption DEF TimelineInv
<1>4. hlc.wall \in Nat /\ hlc.logical \in Nat
  <2>1. CASE file[n] = <<>>
    BY <1>3, <2>1
  <2>2. CASE file[n] # <<>>
    <3> DEFINE last == event[Last(file[n])]
    <3>1. Last(file[n]) \in 1..k
      <4> DEFINE D == 1..k
      <4>1. file[n] \in Seq(D)
        BY <1>3
      <4> HIDE DEF D
      <4>2. Last(file[n]) \in D
        BY <4>1, <2>2 DEF Last
      <4> QED
        BY <4>2 DEF D
    <3>2. last.wall \in Nat /\ last.logical \in Nat
      BY <1>2, <3>1 DEF EventFits
    <3>3. hlc = NextHlc(last, wall[n])
      BY <2>2
    <3> HIDE DEF last, hlc
    <3>4. CASE wall[n] > last.wall
      <4>1. hlc = [wall |-> wall[n], logical |-> 0]
        BY <3>3, <3>4 DEF NextHlc
      <4> QED
        BY <1>3, <4>1
    <3>5. CASE ~(wall[n] > last.wall)
      <4>1. hlc = [wall |-> last.wall, logical |-> last.logical + 1]
        BY <3>3, <3>5 DEF NextHlc
      <4> QED
        BY <3>2, <4>1
    <3> QED
      BY <3>4, <3>5
  <2> QED
    BY <2>1, <2>2
<1>5. Tips(Rows(n)) \subseteq 1..k
  <2> DEFINE D == 1..k
  <2>1. file[n] \in Seq(D)
    BY <1>3
  <2> HIDE DEF D
  <2>2. Range(file[n]) \subseteq D
    BY <2>1 DEF Range
  <2> QED
    BY <2>2 DEF Tips, Rows, D
<1> HIDE DEF hlc
<1>6. EventFits(k + 1, made)
  <2>1. (k + 1) - 1 = k
    BY <1>2
  <2> QED
    BY <1>3, <1>4, <1>5, <2>1 DEF EventFits
<1> HIDE DEF made, k
<1>7. DOMAIN event' = 1..(k + 1) /\ event'[k + 1] = made /\ \A e \in 1..k : event'[e] = event[e]
  BY <1>1, <1>2
<1>8. EventsFit'
  <2>1. Cardinality(1..(k + 1)) = k + 1
    BY <1>2, FS_Interval
  <2>2. \A e \in 1..(k + 1) : e \in 1..k \/ e = k + 1
    BY <1>2
  <2>3. \A e \in 1..(k + 1) : EventFits(e, event'[e])
    BY <1>2, <1>6, <1>7, <2>2
  <2>4. (\A e \in DOMAIN event : EventFits(e, event[e]))'
    BY <1>7, <2>3 DEF EventFits
  <2> QED
    BY <1>2, <1>7, <2>1, <2>4 DEF EventsFit
<1>9. file' \in [Writers -> Seq(1..(k + 1))]
  <2>1. \A m \in Writers : file[m] \in Seq(1..(k + 1))
    <3>1. \A m \in Writers : file[m] \in Seq(1..k)
      BY <1>2 DEF TimelineInv
    <3>2. 1..k \subseteq 1..(k + 1)
      BY <1>2
    <3> QED
      BY <3>1, <3>2, SeqWidens
  <2>2. Append(file[n], k + 1) \in Seq(1..(k + 1))
    <3>1. k + 1 \in 1..(k + 1)
      BY <1>2
    <3> QED
      BY <2>1, <3>1
  <2> QED
    BY <1>1, <2>1, <2>2 DEF TimelineInv
<1>10. ASSUME NEW m \in Writers
       PROVE  /\ cache[m].order \in Seq(1..(k + 1))
              /\ Topological(cache[m].order) => Topological(cache[m].order)'
  <2> DEFINE order == cache[m].order
  <2>1. order \in Seq(1..k)
    BY <1>2 DEF TimelineInv
  <2> HIDE DEF order
  <2>2. 1..k \subseteq 1..(k + 1)
    BY <1>2
  <2>3. \A i \in 1..Len(order) : event'[order[i]] = event[order[i]]
    <3> DEFINE D == 1..k
    <3>1. order \in Seq(D)
      BY <2>1
    <3> HIDE DEF D
    <3>2. \A i \in 1..Len(order) : order[i] \in D
      BY <3>1
    <3> QED
      BY <1>7, <3>2 DEF D
  <2>4. order' = order
    BY <1>1 DEF order
  <2>5. Topological(order) => Topological(order)'
    BY <2>3, <2>4 DEF Topological
  <2>6. order \in Seq(1..(k + 1))
    BY <2>1, <2>2, SeqWidens
  <2> QED
    BY <2>5, <2>6 DEF order
<1> QED
  BY <1>1, <1>7, <1>8, <1>9, <1>10 DEF TimelineInv

LEMMA TimelineNext == TimelineInv /\ [NextTimeline]_timelineVars => TimelineInv'
<1> SUFFICES ASSUME TimelineInv, [NextTimeline]_timelineVars PROVE TimelineInv'
  OBVIOUS
<1>1. ASSUME NEW n \in Writers, WallTicks(n) PROVE TimelineInv'
  <2>1. wall' = [wall EXCEPT ![n] = @ + 1] /\ UNCHANGED <<event, file, cache>>
    BY <1>1 DEF WallTicks
  <2>2. wall' \in [Writers -> Nat]
    BY <2>1 DEF TimelineInv
  <2> QED
    BY <2>1, <2>2 DEF TimelineInv, EventsFit, EventFits, Topological
<1>2. ASSUME NEW n \in Writers, NEW e, ReceiveRow(n, e) PROVE TimelineInv'
  <2>1. e \in DOMAIN event /\ file' = [file EXCEPT ![n] = Append(@, e)] /\ UNCHANGED <<event, wall, cache>>
    BY <1>2 DEF ReceiveRow
  <2>2. file' \in [Writers -> Seq(DOMAIN event)]
    BY <2>1 DEF TimelineInv
  <2> QED
    BY <2>1, <2>2 DEF TimelineInv, EventsFit, EventFits, Topological
<1>3. ASSUME NEW n \in Writers, NEW root, Prune(n, root) PROVE TimelineInv'
  <2> DEFINE S == Rows(n)
  <2>1. file' = [file EXCEPT ![n] = KeptOf(Canonical(S), Descendants(S, root))] /\ UNCHANGED <<event, wall, cache>>
    BY <1>3 DEF Prune
  <2>2. S \subseteq DOMAIN event
    BY DEF Rows, TimelineInv, Range
  <2> HIDE DEF S
  <2>3. Canonical(S) \in Seq(DOMAIN event)
    <3>1. Canonical(S) \in Seq(S)
      BY <2>2, CanonicalOrders DEF TimelineInv, IsOrderOf
    <3> QED
      BY <2>2, <3>1, SeqWidens
  <2>4. KeptOf(Canonical(S), Descendants(S, root)) \in Seq(DOMAIN event)
    BY <2>3, KeptOfFits
  <2>5. file' \in [Writers -> Seq(DOMAIN event)]
    BY <2>1, <2>4 DEF TimelineInv
  <2> QED
    BY <2>1, <2>5 DEF TimelineInv, EventsFit, EventFits, Topological
<1>4. ASSUME NEW n \in Writers, ResolveOrder(n) PROVE TimelineInv'
  <2> DEFINE order == Resolved(cache[n], Rows(n))
             new == [order |-> order, tips |-> Tips(Rows(n)), count |-> Cardinality(Rows(n)), late |-> Late(n)]
  <2>1. cache' = [cache EXCEPT ![n] = new] /\ UNCHANGED <<event, file, wall>>
    BY <1>4 DEF ResolveOrder
  <2>2. IsOrderOf(order, Rows(n)) /\ (~Late(n) => Topological(order))
    BY ResolvedOrders
  <2>3. new.order = order /\ (new.late <=> Late(n))
    OBVIOUS
  <2>4. Rows(n) \subseteq DOMAIN event
    BY DEF Rows, TimelineInv, Range
  <2> HIDE DEF order, new
  <2>5. order \in Seq(DOMAIN event) /\ OnceEach(order)
    BY <2>2, <2>4 DEF IsOrderOf, OnceEach
  <2>6. DOMAIN cache' = Writers /\ cache'[n] = new /\ \A m \in Writers \ {n} : cache'[m] = cache[m]
    BY <2>1 DEF TimelineInv
  <2> QED
    BY <2>1, <2>2, <2>3, <2>5, <2>6 DEF TimelineInv, EventsFit, EventFits, Topological
<1>5. CASE UNCHANGED timelineVars
  BY <1>5 DEF timelineVars, TimelineInv, EventsFit, EventFits, Topological
<1> QED
  BY <1>1, <1>2, <1>3, <1>4, <1>5, AppendEventInv DEF NextTimeline

\* The inductive invariant of timelines.
LEMMA TimelineInvariant == SpecTimeline => []TimelineInv
BY TimelineInit, TimelineNext, PTL DEF SpecTimeline

\* Whoever asks for the order of a timeline gets its events once, parents first
\* (federation/dag_order_cache.mjs:21-71).
THEOREM OrderSound == SpecTimeline => []OrderIsTopological
<1>1. TimelineInv => OrderIsTopological
  <2> SUFFICES ASSUME TimelineInv, NEW n \in Readers
               PROVE  LET order == Resolved(cache[n], Rows(n))
                      IN /\ Len(order) = Cardinality(Rows(n)) /\ Range(order) = Rows(n)
                         /\ ~Late(n) => \A i, j \in 1..Len(order) : order[i] \in event[order[j]].prev => i < j
    BY DEF OrderIsTopological
  <2>1. n \in Writers
    BY TimelineAssumption
  <2> QED
    BY <2>1, ResolvedOrders DEF IsOrderOf, Topological
<1> QED
  BY <1>1, TimelineInvariant, PTL

-----------------------------------------------------------------------------
(* Types of frames. *)

\* The envelopes of which some frames have come.
PartialOnes == {e \in Envelopes : partials[e] # {}}

\* Partial messages are few, and so are remembered ids.
FramesRest ==
  /\ sent \subseteq Envelopes /\ forgotten \subseteq Envelopes /\ copies \in 0..MaxCopies
  /\ DOMAIN partials = Envelopes /\ \A e \in Envelopes : partials[e] \subseteq 0..(Total(e) - 1)
  /\ IsFiniteSet(PartialOnes) /\ Cardinality(PartialOnes) <= MaxPartials
  /\ Len(completed) <= MaxCompleted

LEMMA TouchedIsShort ==
  ASSUME completed \in Seq(Envelopes), Len(completed) <= MaxCompleted, NEW e \in Envelopes
  PROVE  Len(Touched(e)) <= MaxCompleted
<1> DEFINE all == Append(completed, e)
<1>1. all \in Seq(Envelopes) /\ Len(all) = Len(completed) + 1 /\ Len(completed) \in Nat /\ MaxCompleted \in Nat
  BY FramesAssumption
<1> HIDE DEF all
<1>2. CASE Len(all) > MaxCompleted
  <2>1. Len(Tail(all)) = Len(all) - 1
    BY <1>1
  <2> QED
    BY <1>1, <1>2, <2>1 DEF Touched, all
<1>3. CASE ~(Len(all) > MaxCompleted)
  BY <1>1, <1>3 DEF Touched, all
<1> QED
  BY <1>2, <1>3

LEMMA CompletesIsShort ==
  ASSUME FramesInv, FramesRest, NEW e \in Envelopes, Completes(e) \/ UNCHANGED <<completed, delivered, forgotten>>
  PROVE  Len(completed') <= MaxCompleted /\ forgotten' \subseteq Envelopes
<1>1. completed \in Seq(Envelopes) /\ Len(completed) <= MaxCompleted /\ forgotten \subseteq Envelopes
  BY DEF FramesInv, FramesRest
<1>2. CASE UNCHANGED <<completed, delivered, forgotten>>
  BY <1>1, <1>2
<1>3. CASE completed' = Touched(e) /\ forgotten' = forgotten \cup (Range(completed) \ Range(Touched(e)))
  <2>1. Range(completed) \subseteq Envelopes
    BY <1>1, RangeEquality
  <2> QED
    BY <1>1, <1>3, <2>1, TouchedIsShort
<1> QED
  BY <1>2, <1>3 DEF Completes

\* A frame that is received adds at most its own envelope to the partial ones, if it fits.
LEMMA PartialsFit ==
  ASSUME FramesInv, FramesRest, NEW f \in network, ReceiveFrame(f)
  PROVE  /\ DOMAIN partials' = Envelopes /\ \A e \in Envelopes : partials'[e] \subseteq 0..(Total(e) - 1)
         /\ IsFiniteSet(PartialOnes') /\ Cardinality(PartialOnes') <= MaxPartials
<1>1. PICK e \in Envelopes : e = f.envelope /\ f.seq \in 0..(Total(e) - 1)
  BY DEF FramesInv, Frames
<1>2. /\ IsFiniteSet(PartialOnes) /\ Cardinality(PartialOnes) <= MaxPartials /\ Cardinality(PartialOnes) \in Nat
      /\ MaxPartials \in Nat /\ DOMAIN partials = Envelopes
      /\ \A d \in Envelopes : partials[d] \subseteq 0..(Total(d) - 1)
  BY FramesAssumption, FS_CardinalityType DEF FramesRest
<1>3. CASE ~Fits(e)
  <2>1. partials' = partials
    BY <1>1, <1>3 DEF ReceiveFrame
  <2> QED
    BY <1>2, <2>1 DEF PartialOnes
<1>4. CASE Fits(e)
  <2>1. PICK new : /\ partials' = [partials EXCEPT ![e] = new]
                   /\ new = {} \/ new = partials[e] \cup {f.seq}
    BY <1>1, <1>4 DEF ReceiveFrame
  <2>2. DOMAIN partials' = Envelopes /\ \A d \in Envelopes : partials'[d] = IF d = e THEN new ELSE partials[d]
    BY <1>2, <2>1
  <2>3. new \subseteq 0..(Total(e) - 1)
    BY <1>1, <1>2, <2>1
  <2>4. PartialOnes' \subseteq PartialOnes \cup {e}
    BY <2>2 DEF PartialOnes
  <2>5. IsFiniteSet(PartialOnes') /\ Cardinality(PartialOnes') <= MaxPartials
    <3>1. CASE partials[e] # {}
      <4>1. PartialOnes' \subseteq PartialOnes
        BY <2>4, <3>1 DEF PartialOnes
      <4>2. IsFiniteSet(PartialOnes') /\ Cardinality(PartialOnes') <= Cardinality(PartialOnes)
        BY <1>2, <4>1, FS_Subset
      <4>3. Cardinality(PartialOnes') \in Nat
        BY <4>2, FS_CardinalityType
      <4> QED
        BY <1>2, <4>2, <4>3
    <3>2. CASE partials[e] = {}
      <4>1. e \notin PartialOnes /\ Cardinality(PartialOnes) < MaxPartials
        BY <1>4, <3>2 DEF Fits, PartialOnes
      <4>2. IsFiniteSet(PartialOnes \cup {e}) /\ Cardinality(PartialOnes \cup {e}) = Cardinality(PartialOnes) + 1
        BY <1>2, <4>1, FS_AddElement
      <4>3. IsFiniteSet(PartialOnes') /\ Cardinality(PartialOnes') <= Cardinality(PartialOnes \cup {e})
        BY <2>4, <4>2, FS_Subset
      <4>4. Cardinality(PartialOnes') \in Nat
        BY <4>3, FS_CardinalityType
      <4> QED
        BY <1>2, <4>1, <4>2, <4>3, <4>4
    <3> QED
      BY <3>1, <3>2
  <2> QED
    BY <1>2, <2>2, <2>3, <2>5
<1> QED
  BY <1>3, <1>4

\* Partial messages and remembered ids keep their bounds.
LEMMA FramesTyped == SpecFrames => []FramesTypeOK
<1>1. InitFrames => FramesRest
  <2> SUFFICES ASSUME InitFrames PROVE FramesRest
    OBVIOUS
  <2>1. PartialOnes = {} /\ completed = <<>> /\ Len(<<>>) = 0
    BY DEF InitFrames, PartialOnes
  <2>2. IsFiniteSet(PartialOnes) /\ Cardinality(PartialOnes) = 0
    BY <2>1, FS_EmptySet
  <2>3. MaxPartials \in Nat /\ MaxCompleted \in Nat /\ MaxCopies \in Nat
    BY FramesAssumption
  <2>4. Cardinality(PartialOnes) <= MaxPartials /\ Len(completed) <= MaxCompleted
    BY <2>1, <2>2, <2>3
  <2> QED
    BY <2>1, <2>2, <2>3, <2>4 DEF InitFrames, FramesRest
<1>2. FramesInv /\ FramesRest /\ [NextFrames]_frameVars => FramesRest'
  <2> SUFFICES ASSUME FramesInv, FramesRest, [NextFrames]_frameVars PROVE FramesRest'
    OBVIOUS
  <2>1. ASSUME NEW e \in Envelopes, SendFrames(e) PROVE FramesRest'
    BY <2>1 DEF SendFrames, FramesRest, PartialOnes
  <2>2. ASSUME NEW f \in network, LoseFrame(f) PROVE FramesRest'
    BY <2>2 DEF LoseFrame, FramesRest, PartialOnes
  <2>3. ASSUME NEW f \in network, ReceiveFrame(f) PROVE FramesRest'
    <3>1. PICK e \in Envelopes : e = f.envelope
      BY DEF FramesInv, Frames
    <3>2. /\ Completes(e) \/ UNCHANGED <<completed, delivered, forgotten>>
          /\ sent' = sent /\ (copies' = copies \/ (copies < MaxCopies /\ copies' = copies + 1))
      BY <2>3, <3>1 DEF ReceiveFrame
    <3>3. Len(completed') <= MaxCompleted /\ forgotten' \subseteq Envelopes
      BY <3>2, CompletesIsShort
    <3>4. copies' \in 0..MaxCopies
      BY <3>2, FramesAssumption DEF FramesRest
    <3> QED
      BY <2>3, <3>2, <3>3, <3>4, PartialsFit DEF FramesRest
  <2>4. CASE UNCHANGED frameVars
    BY <2>4 DEF frameVars, FramesRest, PartialOnes
  <2> QED
    BY <2>1, <2>2, <2>3, <2>4 DEF NextFrames
<1>3. FramesInv /\ FramesRest => FramesTypeOK
  BY DEF FramesInv, FramesRest, FramesTypeOK, PartialOnes
<1> QED
  BY <1>1, <1>2, <1>3, FramesInvariant, PTL DEF SpecFrames

-----------------------------------------------------------------------------
(* Types of fetches. *)

\* What a fetcher is: where it stands.
Stands(r) == "st" \in DOMAIN r /\ r.st \in {"new", "waits", "refused", "got", "missed"}

\* The table keeps its bound.
FetchRest ==
  /\ Len(inflightTable) <= MaxInflight
  /\ DOMAIN fetcher = Fetchers /\ \A c \in Fetchers : Stands(fetcher[c])

LEMMA StandsElsewhere ==
  ASSUME NEW r, Stands(r), NEW st \in {"new", "waits", "refused", "got", "missed"}
  PROVE  Stands([r EXCEPT !.st = st])
BY DEF Stands

LEMMA StandsNow ==
  ASSUME NEW k, NEW f
  PROVE  Stands([st |-> "waits", key |-> k, on |-> f]) /\ Stands([st |-> "new", key |-> k, on |-> f])
BY DEF Stands

\* One fetcher moves.
LEMMA FetcherMoves ==
  ASSUME FetchRest, NEW c \in Fetchers, NEW r, Stands(r), fetcher' = [fetcher EXCEPT ![c] = r]
  PROVE  DOMAIN fetcher' = Fetchers /\ \A d \in Fetchers : Stands(fetcher'[d])
BY DEF FetchRest

\* What is left of a table that is cut.
LEMMA CutIsShort ==
  ASSUME NEW t \in Seq(Entry), NEW n \in 0..Len(t)
  PROVE  Len(SubSeq(t, n + 1, Len(t))) = Len(t) - n
BY LenProperties

LEMMA ReuseRest ==
  ASSUME FetchInv, FetchRest, NEW c \in Fetchers, NEW k \in Keys, Reuse(c, k)
  PROVE  FetchRest'
<1> DEFINE at == CHOOSE i \in DOMAIN inflightTable : inflightTable[i].key = k
<1> DEFINE entry == inflightTable[at]
<1> DEFINE left == RemoveAt(inflightTable, at)
<1> DEFINE moved == Append(left, entry)
<1> DEFINE past == AgedHeads(moved)
<1>1. /\ at \in DOMAIN inflightTable
      /\ inflightTable' = SubSeq(moved, past + 1, Len(moved))
      /\ fetcher' = [fetcher EXCEPT ![c] = [st |-> "waits", key |-> k, on |-> entry.request]]
  BY DEF Reuse
<1>2. entry \in Entry /\ inflightTable \in Seq(Entry)
  BY <1>1, LenProperties DEF FetchInv
<1> HIDE DEF at
<1>3. left \in Seq(Entry) /\ Len(left) = Len(inflightTable) - 1
  BY <1>1, <1>2, RemoveAtEffect, LenProperties
<1> HIDE DEF entry, left
<1>4. moved \in Seq(Entry) /\ Len(moved) = Len(inflightTable)
  <2>1. Len(inflightTable) \in Nat
    BY <1>2
  <2> QED
    BY <1>2, <1>3, <2>1
<1> HIDE DEF moved
<1>5. past \in 0..Len(moved)
  BY <1>4, AgedHeadsBound
<1> HIDE DEF past
<1>6. Len(inflightTable') = Len(moved) - past
  BY <1>1, <1>4, <1>5, CutIsShort
<1>7. Len(inflightTable') <= MaxInflight
  BY <1>4, <1>5, <1>6, FetchAssumption DEF FetchRest
<1>8. DOMAIN fetcher' = Fetchers /\ \A d \in Fetchers : Stands(fetcher'[d])
  BY <1>1, StandsNow, FetcherMoves
<1> QED
  BY <1>7, <1>8 DEF FetchRest

LEMMA BeginRest ==
  ASSUME FetchInv, FetchRest, NEW c \in Fetchers, NEW k \in Keys, Begin(c, k)
  PROVE  FetchRest'
<1> DEFINE past == AgedHeads(inflightTable)
<1> DEFINE left == SubSeq(inflightTable, past + 1, Len(inflightTable))
<1> DEFINE begins == Len(left) < MaxInflight
<1>1. PICK e, f :
        /\ inflightTable' = IF begins THEN Append(left, e) ELSE left
        /\ fetcher' = [fetcher EXCEPT ![c] = IF begins THEN [st |-> "waits", key |-> k, on |-> f]
                                            ELSE [fetcher[c] EXCEPT !.st = "refused"]]
  BY DEF Begin
<1>2. past \in 0..Len(inflightTable) /\ inflightTable \in Seq(Entry) /\ Len(inflightTable) \in Nat
  BY AgedHeadsBound DEF FetchInv
<1> HIDE DEF past
<1>3. Len(left) = Len(inflightTable) - past /\ left \in Seq(Entry)
  BY <1>2, CutIsShort
<1> HIDE DEF left
<1>4. Len(inflightTable') <= MaxInflight
  <2>1. CASE begins
    <3>1. Len(Append(left, e)) = Len(left) + 1 /\ Len(left) \in Nat
      BY <1>3
    <3> QED
      BY <1>1, <2>1, <3>1, FetchAssumption
  <2>2. CASE ~begins
    BY <1>1, <1>2, <1>3, <2>2, FetchAssumption DEF FetchRest
  <2> QED
    BY <2>1, <2>2
<1> HIDE DEF begins
<1>5. DOMAIN fetcher' = Fetchers /\ \A d \in Fetchers : Stands(fetcher'[d])
  <2>1. CASE begins
    BY <1>1, <2>1, StandsNow, FetcherMoves
  <2>2. CASE ~begins
    <3>1. Stands([fetcher[c] EXCEPT !.st = "refused"])
      BY StandsElsewhere DEF FetchRest
    <3> QED
      BY <1>1, <2>2, <3>1, FetcherMoves
  <2> QED
    BY <2>1, <2>2
<1> QED
  BY <1>4, <1>5 DEF FetchRest

LEMMA FetchRestKept ==
  ASSUME FetchInv, FetchRest, [NextFetch]_fetchVars
  PROVE  FetchRest'
<1>1. CASE UNCHANGED fetchVars
  BY <1>1 DEF fetchVars, FetchRest
<1>2. ASSUME NEW c \in Fetchers, FetchReturns(c) PROVE FetchRest'
  <2>1. PICK st \in {"got", "missed"} : fetcher' = [fetcher EXCEPT ![c].st = st]
    BY <1>2 DEF FetchReturns
  <2>2. UNCHANGED inflightTable
    BY <1>2 DEF FetchReturns
  <2>3. Stands([fetcher[c] EXCEPT !.st = st])
    BY StandsElsewhere DEF FetchRest
  <2>4. fetcher' = [fetcher EXCEPT ![c] = [fetcher[c] EXCEPT !.st = st]]
    BY <2>1
  <2> QED
    BY <2>2, <2>3, <2>4, FetcherMoves DEF FetchRest
<1>3. ASSUME NEW c \in Fetchers, NEW k \in Keys, Acquire(c, k) PROVE FetchRest'
  BY <1>3, ReuseRest, BeginRest DEF Acquire
<1>4. ASSUME NEW f \in Fetches, Answer(f) \/ WaitTimeout(f) PROVE FetchRest'
  BY <1>4 DEF Answer, WaitTimeout, FetchRest
<1>5. ASSUME NEW f \in Fetches, Finally(f) PROVE FetchRest'
  <2>1. inflightTable \in Seq(Entry) /\ Len(inflightTable) \in Nat /\ DOMAIN inflightTable = 1..Len(inflightTable)
    BY DEF FetchInv
  <2>2. CASE EntriesToDrop(f) = {}
    BY <1>5, <2>2 DEF Finally, FetchRest
  <2>3. CASE EntriesToDrop(f) # {}
    <3>1. PICK i : i = CHOOSE j \in EntriesToDrop(f) : TRUE
      OBVIOUS
    <3>2. i \in 1..Len(inflightTable) /\ inflightTable' = RemoveAt(inflightTable, i) /\ UNCHANGED fetcher
      BY <1>5, <2>1, <2>3, <3>1 DEF Finally, EntriesToDrop, EntryOfRequest
    <3>3. Len(inflightTable') = Len(inflightTable) - 1
      BY <2>1, <3>2, RemoveAtEffect
    <3> QED
      BY <2>1, <3>2, <3>3, FetchAssumption DEF FetchRest
  <2> QED
    BY <2>2, <2>3
<1>6. ASSUME NEW i \in 1..MaxInflight, EntryAges(i) PROVE FetchRest'
  <2>1. DOMAIN inflightTable' = DOMAIN inflightTable /\ UNCHANGED fetcher /\ inflightTable \in Seq(Entry)
    BY <1>6 DEF EntryAges, FetchInv
  <2>2. Len(inflightTable') = Len(inflightTable)
    <3>1. inflightTable' \in Seq(Entry)
      BY <1>6, EntryAgesKeeps DEF EntryAges, FetchInv
    <3> QED
      BY <2>1, <3>1
  <2> QED
    BY <2>1, <2>2 DEF FetchRest
<1> QED
  BY <1>1, <1>2, <1>3, <1>4, <1>5, <1>6 DEF NextFetch

\* The table of fetches keeps its bound, and every fetcher waits or knows how it fared.
LEMMA FetchTyped == SpecFetch => []FetchTypeOK
<1>1. InitFetch => FetchRest
  <2> SUFFICES ASSUME InitFetch PROVE FetchRest
    OBVIOUS
  <2>1. inflightTable = <<>> /\ Len(<<>>) = 0 /\ DOMAIN fetcher = Fetchers
    BY DEF InitFetch
  <2>2. \A c \in Fetchers : fetcher[c] = [st |-> "new", key |-> NoFetch, on |-> NoFetch]
    BY DEF InitFetch
  <2>3. \A c \in Fetchers : Stands(fetcher[c])
    BY <2>2, StandsNow
  <2> QED
    BY <2>1, <2>3, FetchAssumption DEF FetchRest
<1>2. FetchInv /\ FetchRest => FetchTypeOK
  BY DEF FetchInv, FetchRest, FetchTypeOK, Entry, Stands
<1> QED
  BY <1>1, <1>2, FetchRestKept, FetchInvariant, PTL DEF SpecFetch

-----------------------------------------------------------------------------
(* Types of queries, routes and envelopes. *)

\* Parts, messages and caches of queries keep their shape.
LEMMA QueryTyped == SpecQuery => []QueryTypeOK
<1>1. QueryInv => QueryTypeOK
  <2> SUFFICES ASSUME QueryInv PROVE QueryTypeOK
    OBVIOUS
  <2>1. ASSUME NEW q \in Queries, NEW n \in Nodes
        PROVE  /\ part[q][n].at \in {"no", "asks", "waits", "broken", "over"}
               /\ part[q][n].left \cup part[q][n].asked \cup part[q][n].got \subseteq Nodes
               /\ part[q][n].rows \subseteq Holders
    <3>1. part[q][n] \in Part
      BY DEF QueryInv, PartFits
    <3> QED
      BY <3>1 DEF Part
  <2>2. \A w \in wires : w.from \in Nodes /\ w.to \in Nodes /\ w.rows \subseteq Holders
    BY DEF QueryInv, WireFits, QueryWire
  <2> QED
    BY <2>1, <2>2 DEF QueryInv, QueryTypeOK
<1> QED
  BY <1>1, QueryInvariant, PTL

-----------------------------------------------------------------------------

\* Routes are known of requests that found one, and an answer on its way counts no hops.
OverlayRest ==
  /\ seenReqs \in [Hosts -> SUBSET Discoveries] /\ closedRouter \in BOOLEAN
  /\ pendingRoutes \in [Discoveries -> {"no", "waiting", "found", "timeout", "left"}]
  /\ DOMAIN route = Discoveries
  /\ \A r \in Discoveries : route[r] # <<>> <=> pendingRoutes[r] = "found"
  /\ \A m \in envelopes : m.action = "route_resp" => m.n = 0

LEMMA RouteReqRest ==
  ASSUME RouteInv, OverlayRest, NEW m \in envelopes, RouteReq(m)
  PROVE  OverlayRest'
<1>1. m.to \in Hosts /\ m.req \in Discoveries
  BY DEF RouteInv, EnvelopeFits
<1>2. UNCHANGED <<pendingRoutes, route, relayed, closedRouter>>
  BY DEF RouteReq
<1>3. seenReqs' \in [Hosts -> SUBSET Discoveries]
  <2>1. seenReqs' = seenReqs \/ seenReqs' = [seenReqs EXCEPT ![m.to] = seenReqs[m.to] \cup {m.req}]
    BY DEF RouteReq
  <2> QED
    BY <1>1, <2>1 DEF OverlayRest
<1>4. ASSUME NEW v \in envelopes', v \notin envelopes PROVE v.action = "route_resp" => v.n = 0
  <2>1. CASE m.to = Wanted
    <3>1. \E o, p : v = Envelope("route_resp", o, m.req, p, 0)
      BY <1>4, <2>1 DEF RouteReq
    <3> QED
      BY <3>1 DEF Envelope
  <2>2. CASE m.to # Wanted
    <3>1. \E o, p, n : v = Envelope("route_req", o, m.req, p, n)
      BY <1>4, <2>2 DEF RouteReq
    <3> QED
      BY <3>1 DEF Envelope
  <2> QED
    BY <2>1, <2>2
<1> QED
  BY <1>2, <1>3, <1>4 DEF OverlayRest

LEMMA RouteRespRest ==
  ASSUME RouteInv, OverlayRest, NEW m \in envelopes, RouteResp(m)
  PROVE  OverlayRest'
<1>1. /\ m.req \in Discoveries /\ m.n = 0 /\ Route(m.path)
      /\ m \in [action : {"route_req", "route_resp", "relay"}, to : Hosts, req : Discoveries,
                path : Seq(Hosts), n : Nat]
  BY DEF RouteInv, EnvelopeFits, RouteResp, OverlayRest
<1>2. m.path # <<>>
  BY <1>1, RouteSize
<1>3. UNCHANGED <<seenReqs, relayed, closedRouter>>
  BY DEF RouteResp
<1>4. CASE m.to = Asker
  <2>1. envelopes' \subseteq envelopes
    BY <1>4 DEF RouteResp
  <2>2. \/ UNCHANGED <<pendingRoutes, route>>
        \/ /\ pendingRoutes' = [pendingRoutes EXCEPT ![m.req] = "found"]
           /\ route' = [route EXCEPT ![m.req] = m.path]
    BY <1>4 DEF RouteResp
  <2>3. pendingRoutes' \in [Discoveries -> {"no", "waiting", "found", "timeout", "left"}]
        /\ DOMAIN route' = Discoveries
    BY <2>2 DEF OverlayRest
  <2>4. \A r \in Discoveries : route'[r] # <<>> <=> pendingRoutes'[r] = "found"
    BY <1>1, <1>2, <2>2 DEF OverlayRest
  <2> QED
    BY <1>3, <2>1, <2>3, <2>4 DEF OverlayRest
<1>5. CASE m.to # Asker
  <2>1. /\ \E o : envelopes' = (envelopes \ {m}) \cup {[m EXCEPT !.to = o]}
        /\ UNCHANGED <<pendingRoutes, route>>
    BY <1>5 DEF RouteResp
  <2>2. \A o : [m EXCEPT !.to = o].n = m.n
    BY <1>1
  <2> QED
    BY <1>1, <1>3, <2>1, <2>2 DEF OverlayRest
<1> QED
  BY <1>4, <1>5

LEMMA OverlayRestKept ==
  ASSUME RouteInv, OverlayRest, [NextOverlay]_overlayVars
  PROVE  OverlayRest'
<1>1. CASE UNCHANGED overlayVars
  BY <1>1 DEF overlayVars, OverlayRest
<1>2. ASSUME NEW r \in Discoveries, DiscoverRoute(r) PROVE OverlayRest'
  <2>1. ASSUME NEW v \in envelopes', v \notin envelopes PROVE v.action = "route_req"
    BY <1>2, <2>1 DEF DiscoverRoute, Envelope
  <2> QED
    BY <1>2, <2>1 DEF DiscoverRoute, OverlayRest
<1>3. ASSUME NEW r \in Discoveries, RouteTimeout(r) PROVE OverlayRest'
  BY <1>3 DEF RouteTimeout, OverlayRest
<1>4. ASSUME NEW r \in Discoveries, Relay(r) PROVE OverlayRest'
  <2>1. ASSUME NEW v \in envelopes', v \notin envelopes PROVE v.action = "relay"
    BY <1>4, <2>1 DEF Relay, Envelope
  <2> QED
    BY <1>4, <2>1 DEF Relay, OverlayRest
<1>5. ASSUME NEW m \in envelopes, RelayArrives(m) PROVE OverlayRest'
  <2>1. /\ m.action = "relay"
        /\ m \in [action : {"route_req", "route_resp", "relay"}, to : Hosts, req : Discoveries,
                  path : Seq(Hosts), n : Nat]
    BY <1>5 DEF RelayArrives, RouteInv, EnvelopeFits
  <2> DEFINE next == [m EXCEPT !.to = m.path[m.n + 1], !.n = @ + 1]
  <2>2. next.action = "relay"
    BY <2>1
  <2>3. envelopes' \subseteq envelopes \cup {next}
    BY <1>5 DEF RelayArrives
  <2> HIDE DEF next
  <2>4. \A v \in envelopes' : v \in envelopes \/ v.action = "relay"
    BY <2>2, <2>3
  <2> QED
    BY <1>5, <2>4 DEF RelayArrives, OverlayRest
<1>6. ASSUME NEW m \in envelopes, LoseEnvelope(m) PROVE OverlayRest'
  BY <1>6 DEF LoseEnvelope, OverlayRest
<1>7. CASE CloseRouter
  BY <1>7 DEF CloseRouter, OverlayRest
<1> QED
  BY <1>1, <1>2, <1>3, <1>4, <1>5, <1>6, <1>7, RouteReqRest, RouteRespRest DEF NextOverlay

\* What is under way counts no more hops than the ttl and the longest path allow, and a route
\* is there exactly when one was found.
LEMMA OverlayTyped == SpecOverlay => []OverlayTypeOK
<1>1. InitOverlay => OverlayRest
  BY DEF InitOverlay, OverlayRest
<1>2. RouteInv /\ OverlayRest => OverlayTypeOK
  <2> SUFFICES ASSUME RouteInv, OverlayRest PROVE OverlayTypeOK
    OBVIOUS
  <2>1. ASSUME NEW m \in envelopes PROVE m.to \in Hosts /\ m.n \in 0..(RouteTtl + MaxHops)
    <3>0. EnvelopeFits(m)
      BY DEF RouteInv
    <3>1. /\ EnvelopeFits(m) /\ m.to \in Hosts /\ m.n \in Nat
          /\ m.action \in {"route_req", "route_resp", "relay"}
          /\ m.path \in Seq(Hosts) /\ Len(m.path) \in Nat
      <4>1. /\ m.to \in Hosts /\ m.n \in Nat /\ m.path \in Seq(Hosts)
            /\ m.action \in {"route_req", "route_resp", "relay"}
        BY <3>0 DEF EnvelopeFits
      <4> QED
        BY <3>0, <4>1, LenProperties
    <3>2. RouteTtl \in Nat /\ MaxHops \in Nat \ {0}
      BY OverlayAssumption
    <3>3. CASE m.action = "route_req"
      <4>1. m.n + Len(m.path) = RouteTtl + 1
        BY <3>1, <3>3 DEF EnvelopeFits
      <4> QED
        BY <3>1, <3>2, <4>1
    <3>4. CASE m.action = "route_resp"
      BY <3>1, <3>2, <3>4 DEF OverlayRest
    <3>5. CASE m.action = "relay"
      <4>1. m.n \in 1..Len(m.path) /\ Len(m.path) <= RouteTtl + 1
        BY <3>1, <3>5 DEF EnvelopeFits, Route
      <4> QED
        BY <3>1, <3>2, <4>1
    <3> QED
      BY <3>1, <3>3, <3>4, <3>5
  <2> QED
    BY <2>1 DEF OverlayRest, OverlayTypeOK
<1> QED
  BY <1>1, <1>2, OverlayRestKept, RouteInvariant, PTL DEF SpecOverlay

-----------------------------------------------------------------------------

\* The set of listeners is of those who are subscribed.
ListenersListed == Listed(scopeListeners) = {l \in DOMAIN subscription : subscription[l] = "on"}

LEMMA ListenersListedKept ==
  ASSUME DispatchInv, ListenersListed, [NextDispatch]_dispatchVars
  PROVE  ListenersListed'
<1>1. /\ subscription \in Seq({"on", "off"}) /\ DOMAIN subscription = 1..Len(subscription) /\ Len(subscription) \in Nat
      /\ scopeListeners \in Seq(Nat) /\ DOMAIN scopeListeners = 1..Len(scopeListeners) /\ Len(scopeListeners) \in Nat
  BY LenProperties DEF DispatchInv
<1>2. CASE UNCHANGED <<subscription, scopeListeners>>
  BY <1>2 DEF ListenersListed
<1>3. CASE subscribeScope
  <2> DEFINE k == Len(subscription) + 1
             n == Len(scopeListeners)
  <2>1. subscription' = Append(subscription, "on") /\ scopeListeners' = Append(scopeListeners, k)
    BY <1>3 DEF subscribeScope
  <2>2. k \in Nat /\ k # 0 /\ k \notin 1..Len(subscription) /\ n \in Nat
    BY <1>1
  <2>3. /\ DOMAIN subscription' = 1..k /\ subscription'[k] = "on"
        /\ \A l \in 1..Len(subscription) : subscription'[l] = subscription[l]
    BY <1>1, <2>1
  <2>4. /\ DOMAIN scopeListeners' = 1..(n + 1) /\ scopeListeners'[n + 1] = k
        /\ \A i \in 1..n : scopeListeners'[i] = scopeListeners[i]
    BY <1>1, <2>1, <2>2
  <2>5. 1..k = 1..Len(subscription) \cup {k} /\ 1..(n + 1) = 1..n \cup {n + 1}
    BY <1>1
  <2> HIDE DEF k, n
  <2>6. Listed(scopeListeners') = Listed(scopeListeners) \cup {k}
    <3>1. DOMAIN scopeListeners = 1..n
      BY <1>1 DEF n
    <3> QED
      BY <2>2, <2>4, <2>5, <3>1 DEF Listed
  <2>7. {l \in DOMAIN subscription' : subscription'[l] = "on"} = {l \in DOMAIN subscription : subscription[l] = "on"} \cup {k}
    BY <1>1, <2>2, <2>3, <2>5
  <2> QED
    BY <2>6, <2>7 DEF ListenersListed
<1>4. ASSUME NEW l \in DOMAIN subscription, unsubscribe(l) PROVE ListenersListed'
  <2>1. subscription' = [subscription EXCEPT ![l] = "off"] /\ scopeListeners' = Deleted(scopeListeners, {l})
    BY <1>4 DEF unsubscribe
  <2>2. Listed(scopeListeners') = Listed(scopeListeners) \ {l}
    BY <1>1, <2>1, DeletedEffect
  <2>3. {k \in DOMAIN subscription' : subscription'[k] = "on"} = {k \in DOMAIN subscription : subscription[k] = "on"} \ {l}
    BY <1>1, <2>1
  <2> QED
    BY <2>2, <2>3 DEF ListenersListed
<1>5. CASE \/ getLinkRegistry \/ dispatchEnvelope
           \/ (\E p \in ScopePrefixes : registerScopeAuthorizer(p)) \/ (\E a \in DOMAIN authorizer : unregister(a))
           \/ \E e \in DOMAIN envelope : Dispatches(e) \/ \E ok \in BOOLEAN : EntryAnswers(e, ok)
  BY <1>2, <1>5 DEF getLinkRegistry, dispatchEnvelope, registerScopeAuthorizer, unregister, Dispatches, EntryAnswers
<1> QED
  BY <1>2, <1>3, <1>4, <1>5 DEF NextDispatch, dispatchVars

\* Authorizers wait or are listed and never both, and the listeners are those subscribed.
LEMMA DispatchFormed == SpecDispatch => []DispatchTypeOK
<1>1. InitDispatch => ListenersListed
  <2> SUFFICES ASSUME InitDispatch PROVE ListenersListed
    OBVIOUS
  <2>1. DOMAIN subscription = {} /\ DOMAIN scopeListeners = {}
    BY EmptySeq DEF InitDispatch
  <2> QED
    BY <2>1 DEF ListenersListed, Listed
<1>2. DispatchInv /\ ListenersListed => DispatchTypeOK
  <2> SUFFICES ASSUME DispatchInv, ListenersListed PROVE DispatchTypeOK
    OBVIOUS
  <2>1. pendingScopeAuthorizers \cap Listed(scopeAuthorizers) = {}
    <3>1. CASE created
      BY <3>1 DEF DispatchInv
    <3>2. CASE ~created
      <4>1. DOMAIN scopeAuthorizers = {}
        BY <3>2, EmptySeq DEF DispatchInv
      <4> QED
        BY <4>1 DEF Listed
    <3> QED
      BY <3>1, <3>2
  <2>2. DOMAIN authorizer = 1..Len(authorizer)
    BY LenProperties DEF DispatchInv
  <2> QED
    BY <2>1, <2>2 DEF DispatchInv, ListenersListed, DispatchTypeOK
<1> QED
  BY <1>1, <1>2, ListenersListedKept, DispatchInvariant, PTL DEF SpecDispatch

-----------------------------------------------------------------------------
(* Types of the mailbox. *)

Low(kept) == \A row \in kept : row.hop < MaxHop

\* Hops that are stored are below the bound, and what is taken are records.
MailRest ==
  /\ \A n \in MailNodes : Low(stored[n]) /\ Low(ingest[n])
  /\ taken \in [MailNodes -> SUBSET Mails]
  /\ \A msg \in post : msg.op = "give" => \A row \in msg.rows : row.mail \in Mails
  /\ wants \in 0..MaxWants /\ expiries \in 0..MaxExpiries

LEMMA MailBounds == MaxHop \in Nat \ {0} /\ MaxWants \in Nat /\ MaxExpiries \in Nat /\ Author \in MailNodes /\ Addressee \in MailNodes
BY MailAssumption

\* Storing and relaying a row of a low hop.
LEMMA DeliverRest ==
  ASSUME MailInv, MailRest, NEW n \in MailNodes, NEW row \in MailRow, row.hop < MaxHop, NEW direct,
         deliverOrStore(n, row, direct)
  PROVE  /\ \A m \in MailNodes : Low(stored'[m])
         /\ \A msg \in post' : msg.op = "give" => \A r \in msg.rows : r.mail \in Mails
<1>1. \A m \in MailNodes : stored'[m] \subseteq stored[m] \cup {row}
  BY DEF deliverOrStore, MailInv
<1>2. PICK some \in SUBSET (MailNodes \ {n}) : post' = post \cup {MailPut(row, p) : p \in some \cup direct}
  BY DEF deliverOrStore
<1>3. \A p : MailPut(row, p).op = "put"
  BY DEF MailPut
<1> QED
  BY <1>1, <1>2, <1>3 DEF MailRest, Low

LEMMA MailRestKept ==
  ASSUME MailInv, MailRest, [NextMail]_mailVars
  PROVE  MailRest'
<1>1. CASE UNCHANGED mailVars
  BY <1>1 DEF mailVars, MailRest
<1>2. ASSUME NEW m \in Mails, NEW direct, publishMailboxRecord(m, direct) PROVE MailRest'
  <2>1. PICK row : row = [mail |-> m, hop |-> 0, via |-> 0]
    OBVIOUS
  <2>2. row \in MailRow /\ row.hop < MaxHop
    BY <2>1, MailBounds DEF MailRow
  <2>3. deliverOrStore(Author, row, direct) /\ UNCHANGED <<ingest, taken, wants, expiries>>
    BY <1>2, <2>1 DEF publishMailboxRecord
  <2> QED
    BY <2>2, <2>3, MailBounds, DeliverRest DEF MailRest
<1>3. ASSUME NEW n \in MailNodes, NEW msg \in post, ingestMailboxPut(n, msg) PROVE MailRest'
  <2>1. PICK hop : hop = relayHopAfterWireIngress(msg.row.hop, RowsOf(n, msg.row.mail))
    OBVIOUS
  <2>2. hop \in Nat
    <3>1. /\ msg.row \in MailRow /\ RowsOf(n, msg.row.mail) \in SUBSET MailRow
          /\ \A r, s \in RowsOf(n, msg.row.mail) : r = s
      BY <1>3 DEF ingestMailboxPut, MailInv, RowsOf, OneRowEach
    <3> QED
      BY <2>1, <3>1, HopGrows DEF MailRow
  <2>3. PICK row : row = [mail |-> msg.row.mail, hop |-> hop, via |-> msg.row.via + 1]
    OBVIOUS
  <2>4. /\ post' = post \ {msg} /\ UNCHANGED <<stored, taken, wants, expiries>>
        /\ ingest' = IF hop >= MaxHop THEN ingest ELSE [ingest EXCEPT ![n] = @ \cup {row}]
    BY <1>3, <2>1, <2>3 DEF ingestMailboxPut
  <2>5. \A m \in MailNodes : \A r \in ingest'[m] : r \in ingest[m] \/ (r = row /\ ~(hop >= MaxHop))
    BY <2>4 DEF MailInv
  <2>6. row.hop = hop /\ (~(hop >= MaxHop) => hop < MaxHop)
    BY <2>2, <2>3, MailBounds
  <2>7. \A m \in MailNodes : Low(ingest'[m])
    BY <2>5, <2>6 DEF MailRest, Low
  <2> QED
    BY <2>4, <2>7 DEF MailRest
<1>4. ASSUME NEW n \in MailNodes, NEW msg \in post, respondMailboxWant(n, msg) PROVE MailRest'
  <2>1. PICK given : given = Given(n, msg.ids)
    OBVIOUS
  <2>2. \A row \in given : row.mail \in Mails
    BY <2>1 DEF Given, MailInv, MailRow
  <2>3. /\ post' \subseteq post \cup {[op |-> "give", rows |-> given, to |-> Addressee]}
        /\ UNCHANGED <<stored, ingest, taken, wants, expiries>>
    BY <1>4, <2>1 DEF respondMailboxWant
  <2> QED
    BY <2>2, <2>3 DEF MailRest
<1>5. ASSUME NEW n \in MailNodes, NEW row \in ingest[n], storeIngested(n, row) PROVE MailRest'
  <2>1. row \in MailRow /\ row.hop < MaxHop
    BY DEF MailInv, MailRest, Low
  <2>2. /\ deliverOrStore(n, row, {}) /\ ingest' = [ingest EXCEPT ![n] = @ \ {row}]
        /\ UNCHANGED <<taken, wants, expiries>>
    BY <1>5 DEF storeIngested
  <2>3. \A m \in MailNodes : ingest'[m] \subseteq ingest[m]
    BY <2>2 DEF MailInv
  <2>4. \A m \in MailNodes : Low(ingest'[m])
    BY <2>3 DEF MailRest, Low
  <2> QED
    BY <2>1, <2>2, <2>4, DeliverRest DEF MailRest
<1>6. ASSUME NEW n \in MailNodes, NEW row \in stored[n], RowExpires(n, row) PROVE MailRest'
  <2>1. /\ expiries' = expiries + 1 /\ expiries < MaxExpiries /\ stored' = [stored EXCEPT ![n] = @ \ {row}]
        /\ UNCHANGED <<ingest, post, taken, wants>>
    BY <1>6 DEF RowExpires
  <2>2. \A m \in MailNodes : stored'[m] \subseteq stored[m]
    BY <2>1 DEF MailInv
  <2>3. expiries' \in 0..MaxExpiries
    BY <2>1, MailBounds DEF MailRest
  <2> QED
    BY <2>1, <2>2, <2>3 DEF MailRest, Low
<1>7. ASSUME NEW n \in MailNodes, deleteMailboxRecords(n) PROVE MailRest'
  <2>1. /\ stored' = [stored EXCEPT ![n] = {row \in @ : row.mail \notin taken[n]}]
        /\ taken' = [taken EXCEPT ![n] = {}] /\ UNCHANGED <<ingest, post, wants, expiries>>
    BY <1>7 DEF deleteMailboxRecords
  <2>2. \A m \in MailNodes : stored'[m] \subseteq stored[m]
    BY <2>1 DEF MailInv
  <2> QED
    BY <2>1, <2>2 DEF MailRest, Low
<1>8. ASSUME NEW peers, requestMailboxFromNetwork(peers) PROVE MailRest'
  <2>1. PICK ids : ids = {row.mail : row \in stored[Addressee]}
    OBVIOUS
  <2>2. /\ wants < MaxWants /\ wants' = wants + 1 /\ UNCHANGED <<stored, ingest, taken, expiries>>
        /\ post' = post \cup {[op |-> "want", ids |-> ids, to |-> p] : p \in peers}
    BY <1>8, <2>1 DEF requestMailboxFromNetwork
  <2>3. wants' \in 0..MaxWants
    BY <2>2, MailBounds DEF MailRest
  <2>4. \A msg \in post' : msg \in post \/ msg.op = "want"
    BY <2>2
  <2>5. \A msg \in post' : msg.op = "give" => \A row \in msg.rows : row.mail \in Mails
    BY <2>4 DEF MailRest
  <2> QED
    BY <2>2, <2>3, <2>5 DEF MailRest
<1>9. ASSUME NEW msg \in post, NEW some \in SUBSET msg.rows, ingestMailboxGive(msg, some) PROVE MailRest'
  <2>1. PICK mails : mails = {row.mail : row \in some}
    OBVIOUS
  <2>2. /\ post' = post \ {msg} /\ taken' = [taken EXCEPT ![Addressee] = @ \cup mails]
        /\ UNCHANGED <<stored, ingest, wants, expiries>> /\ msg.op = "give"
    BY <1>9, <2>1 DEF ingestMailboxGive
  <2>3. mails \subseteq Mails
    BY <2>1, <2>2 DEF MailRest
  <2>4. taken' \in [MailNodes -> SUBSET Mails]
    BY <2>2, <2>3 DEF MailRest
  <2> QED
    BY <2>2, <2>4 DEF MailRest
<1> QED
  BY <1>1, <1>2, <1>3, <1>4, <1>5, <1>6, <1>7, <1>8, <1>9 DEF NextMail

\* Of one record a node stores one row, of a hop below the bound.
LEMMA MailTyped == SpecMail => []MailTypeOK
<1>1. InitMail => MailRest
  BY MailBounds DEF InitMail, MailRest, Low
<1>2. MailInv /\ MailRest => MailTypeOK
  <2> SUFFICES ASSUME MailInv, MailRest PROVE MailTypeOK
    OBVIOUS
  <2>1. ASSUME NEW n \in MailNodes, NEW row \in stored[n] \cup ingest[n]
        PROVE  row.mail \in Mails /\ row.hop \in 0..(MaxHop - 1)
    <3>1. row \in MailRow /\ row.hop < MaxHop
      BY <2>1 DEF MailInv, MailRest, Low
    <3>2. row.mail \in Mails /\ row.hop \in Nat
      BY <3>1 DEF MailRow
    <3> QED
      BY <3>1, <3>2, MailBounds
  <2>2. ASSUME NEW n \in MailNodes, NEW m \in Mails PROVE Cardinality(RowsOf(n, m)) <= 1
    <3>1. PICK S : S = RowsOf(n, m)
      OBVIOUS
    <3>2. \A r, s \in S : r = s
      BY <3>1 DEF RowsOf, MailInv, OneRowEach
    <3>3. CASE S = {}
      BY <3>1, <3>3, FS_EmptySet
    <3>4. CASE S # {}
      <4>1. PICK r : r \in S
        BY <3>4
      <4>2. S = {r}
        BY <3>2, <4>1
      <4>3. Cardinality({r}) = 1
        BY FS_Singleton
      <4> QED
        BY <3>1, <4>2, <4>3
    <3> QED
      BY <3>3, <3>4
  <2>3. /\ \A n \in MailNodes : taken[n] \subseteq Mails
        /\ wants \in 0..MaxWants /\ expiries \in 0..MaxExpiries
    BY DEF MailRest
  <2> QED
    BY <2>1, <2>2, <2>3 DEF MailTypeOK
<1> QED
  BY <1>1, <1>2, MailRestKept, MailInvariant, PTL DEF SpecMail

-----------------------------------------------------------------------------
(* Types of the chunks. *)

\* In the queue of the mutex is, once, who waits for it or holds it; what is or was put is
\* one of the contents.
QueueRest ==
  /\ IsInjective(storeLock)
  /\ \A w \in Putters : w \in Range(storeLock) <=> put[w].at \in {"waits", "writes"}
  /\ Collector \in Range(storeLock) <=> gc.at = "deletes"

ContentRest ==
  /\ manifest \in [Paths -> Contents \cup {NoFile}]
  /\ \A w \in Putters : put[w].at # "idle" => put[w].content \in Contents
  /\ reader.at \in {"idle", "checks", "reads"}

LEMMA ContentRestKept ==
  ASSUME StoreInv, ContentRest, [NextChunks]_chunkVars
  PROVE  ContentRest'
<1>1. StoreTyped
  BY DEF StoreInv
<1>2. ASSUME NEW w \in Putters, NEW p \in Paths, NEW content \in Contents, PutStarts(w, p, content)
      PROVE  ContentRest'
  BY <1>1, <1>2 DEF PutStarts, ContentRest, StoreTyped
<1>3. ASSUME NEW w \in Putters, PartBegins(w) PROVE ContentRest'
  BY <1>1, <1>3 DEF PartBegins, ContentRest, StoreTyped, PutRecord
<1>4. ASSUME NEW w \in Putters, PartEnds(w) PROVE ContentRest'
  <2>0. PICK at : put' = [put EXCEPT ![w].at = at, ![w].stored = @ + 1]
    BY <1>4 DEF PartEnds
  <2>1. PICK r : r = [put[w] EXCEPT !.at = at, !.stored = @ + 1] /\ put' = [put EXCEPT ![w] = r]
    BY <2>0
  <2>2. put[w] \in PutRecord
    BY <1>1 DEF StoreTyped
  <2>3. r.content = put[w].content
    BY <2>1, <2>2 DEF PutRecord
  <2>4. put[w].at # "idle" /\ UNCHANGED <<manifest, reader>>
    BY <1>4 DEF PartEnds
  <2>5. \A v \in Putters : put'[v].content = put[v].content /\ (v # w => put'[v] = put[v])
    BY <1>1, <2>1, <2>3 DEF StoreTyped
  <2> QED
    BY <2>4, <2>5 DEF ContentRest
<1>5. ASSUME NEW w \in Putters, ManifestSaved(w) PROVE ContentRest'
  <2>1. put[w].content \in Contents
    BY <1>5 DEF ManifestSaved, ContentRest
  <2> QED
    BY <1>1, <1>5, <2>1 DEF ManifestSaved, ContentRest, StoreTyped, IdlePut
<1>6. ASSUME NEW p \in Paths, DeleteFileManifest(p) \/ GcDeletesBroken(p) PROVE ContentRest'
  BY <1>1, <1>6 DEF DeleteFileManifest, GcDeletesBroken, ContentRest
<1>7. ASSUME NEW p \in Paths, GcReads(p) PROVE ContentRest'
  BY <1>7 DEF GcReads, ContentRest
<1>8. ASSUME NEW p \in Paths, ReadStarts(p) PROVE ContentRest'
  BY <1>8 DEF ReadStarts, ContentRest
<1>9. CASE GcLists \/ GcFindsChunks \/ GcQueues \/ GcEnds
  BY <1>9 DEF GcLists, GcFindsChunks, GcQueues, GcEnds, ContentRest
<1>10. ASSUME NEW h \in Chunks, GcUnlinks(h) PROVE ContentRest'
  BY <1>10 DEF GcUnlinks, ContentRest
<1>11. CASE ReadChecks
  BY <1>11 DEF ReadChecks, ContentRest, IdleReader
<1>12. CASE ReadReads
  BY <1>12 DEF ReadReads, ContentRest, IdleReader
<1>13. CASE CrashStore
  BY <1>13 DEF CrashStore, ContentRest, IdlePut, IdleReader
<1>14. CASE UNCHANGED chunkVars
  BY <1>14 DEF chunkVars, ContentRest
<1> QED
  BY <1>2, <1>3, <1>4, <1>5, <1>6, <1>7, <1>8, <1>9, <1>10, <1>11, <1>12, <1>13, <1>14 DEF NextChunks

LEMMA QueueRestKept ==
  ASSUME StoreInv, QueueRest, [NextChunks]_chunkVars
  PROVE  QueueRest'
<1>1. StoreTyped /\ storeLock \in Seq(Putters \cup {Collector}) /\ Collector \notin Putters
  BY ChunkAssumption DEF StoreInv, StoreTyped
<1>2. ASSUME NEW w \in Putters, NEW p \in Paths, NEW content \in Contents, PutStarts(w, p, content)
      PROVE  QueueRest'
  <2>1. put[w].at = "idle" /\ storeLock' = Append(storeLock, w) /\ gc' = gc
    BY <1>2 DEF PutStarts
  <2>2. put'[w].at = "waits" /\ \A v \in Putters \ {w} : put'[v] = put[v]
    BY <1>1, <1>2 DEF PutStarts, StoreTyped
  <2>3. w \notin Range(storeLock)
    BY <2>1 DEF QueueRest
  <2>4. IsInjective(storeLock') /\ \A x : x \in Range(storeLock') <=> x \in Range(storeLock) \/ x = w
    <3>1. PICK W : W = Putters \cup {Collector}
      OBVIOUS
    <3>2. storeLock \in Seq(W) /\ w \in W
      BY <1>1, <3>1
    <3> QED
      BY <2>1, <2>3, <3>2, QueueJoins DEF QueueRest
  <2> QED
    BY <1>1, <2>1, <2>2, <2>4 DEF QueueRest
<1>3. ASSUME NEW w \in Putters, PartBegins(w) PROVE QueueRest'
  <2>1. put[w].at = "waits" /\ UNCHANGED <<storeLock, gc>>
    BY <1>3 DEF PartBegins
  <2>2. put'[w].at = "writes" /\ \A v \in Putters \ {w} : put'[v] = put[v]
    BY <1>1, <1>3 DEF PartBegins, StoreTyped, PutRecord
  <2> QED
    BY <2>1, <2>2 DEF QueueRest
<1>4. ASSUME NEW w \in Putters, PartEnds(w) PROVE QueueRest'
  <2>1. PICK last \in BOOLEAN : last = (put[w].stored + 1 = Len(put[w].content))
    OBVIOUS
  <2>2. PICK at : at = IF last THEN "saves" ELSE "waits"
    OBVIOUS
  <2>3. PICK r : r = [put[w] EXCEPT !.at = at, !.stored = @ + 1]
    OBVIOUS
  <2>4. /\ put[w].at = "writes" /\ put' = [put EXCEPT ![w] = r] /\ gc' = gc
        /\ storeLock' = IF last THEN Tail(storeLock) ELSE Append(Tail(storeLock), w)
    BY <1>4, <2>1, <2>2, <2>3 DEF PartEnds
  <2>5. put[w] \in PutRecord
    BY <1>1 DEF StoreTyped
  <2>6. r.at = at
    BY <2>3, <2>5 DEF PutRecord
  <2>7. put'[w].at = at /\ \A v \in Putters \ {w} : put'[v] = put[v]
    BY <1>1, <2>4, <2>6 DEF StoreTyped
  <2>8. storeLock # <<>> /\ Head(storeLock) = w
    BY <2>4 DEF StoreInv, WritersHold, StoreHolder
  <2>9. PICK W, t : W = Putters \cup {Collector} /\ t = Tail(storeLock)
    OBVIOUS
  <2>10. /\ t \in Seq(W) /\ IsInjective(t) /\ w \in W
         /\ \A x : x \in Range(t) <=> x \in Range(storeLock) /\ x # w
    BY <1>1, <2>8, <2>9, QueueLeaves DEF QueueRest
  <2>11. CASE last
    <3>1. storeLock' = t /\ at = "saves"
      BY <2>2, <2>4, <2>9, <2>11
    <3> QED
      BY <1>1, <2>4, <2>7, <2>10, <3>1 DEF QueueRest
  <2>12. CASE ~last
    <3>1. storeLock' = Append(t, w) /\ at = "waits"
      BY <2>2, <2>4, <2>9, <2>12
    <3>2. IsInjective(storeLock') /\ \A x : x \in Range(storeLock') <=> x \in Range(t) \/ x = w
      BY <2>10, <3>1, QueueJoins
    <3>3. \A x : x \in Range(storeLock') <=> x \in Range(storeLock) \/ x = w
      BY <2>10, <3>2
    <3> QED
      BY <1>1, <2>4, <2>7, <3>1, <3>2, <3>3 DEF QueueRest
  <2> QED
    BY <2>11, <2>12
<1>5. ASSUME NEW w \in Putters, ManifestSaved(w) PROVE QueueRest'
  <2>1. put[w].at = "saves" /\ UNCHANGED <<storeLock, gc>> /\ put' = [put EXCEPT ![w] = IdlePut]
    BY <1>5 DEF ManifestSaved
  <2>2. put'[w].at = "idle" /\ \A v \in Putters \ {w} : put'[v] = put[v]
    BY <1>1, <2>1 DEF StoreTyped, IdlePut
  <2> QED
    BY <2>1, <2>2 DEF QueueRest
<1>6. ASSUME NEW p \in Paths, DeleteFileManifest(p) \/ ReadStarts(p) PROVE QueueRest'
  BY <1>6 DEF DeleteFileManifest, ReadStarts, QueueRest
<1>7. ASSUME UNCHANGED <<storeLock, put>>, gc'.at # "deletes", gc.at # "deletes" PROVE QueueRest'
  BY <1>7 DEF QueueRest
<1>8. gc \in GcRecord
  BY <1>1 DEF StoreTyped
<1>9. ASSUME NEW p \in Paths, GcReads(p) \/ GcDeletesBroken(p) PROVE QueueRest'
  <2>1. gc'.at = gc.at /\ gc.at # "deletes" /\ UNCHANGED <<storeLock, put>>
    BY <1>8, <1>9 DEF GcReads, GcDeletesBroken, GcRecord
  <2> QED
    BY <1>7, <2>1
<1>10. CASE GcLists \/ GcFindsChunks
  <2>1. gc'.at # "deletes" /\ gc.at # "deletes" /\ UNCHANGED <<storeLock, put>>
    BY <1>8, <1>10 DEF GcLists, GcFindsChunks, GcRecord, IdleGc
  <2> QED
    BY <1>7, <2>1
<1>11. CASE GcQueues
  <2>1. /\ gc'.at = "deletes" /\ gc.at = "scanned" /\ put' = put
        /\ storeLock' = Append(storeLock, Collector)
    BY <1>8, <1>11 DEF GcQueues, GcRecord
  <2>2. Collector \notin Range(storeLock)
    BY <2>1 DEF QueueRest
  <2>3. IsInjective(storeLock') /\ \A x : x \in Range(storeLock') <=> x \in Range(storeLock) \/ x = Collector
    <3>1. PICK W, c : W = Putters \cup {Collector} /\ c = Collector
      OBVIOUS
    <3>2. storeLock \in Seq(W) /\ c \in W
      BY <1>1, <3>1
    <3> QED
      BY <2>1, <2>2, <3>1, <3>2, QueueJoins DEF QueueRest
  <2> QED
    BY <1>1, <2>1, <2>3 DEF QueueRest
<1>12. CASE GcEnds
  <2>1. /\ gc.at = "deletes" /\ gc'.at = "idle" /\ put' = put /\ storeLock' = Tail(storeLock)
        /\ storeLock # <<>> /\ Head(storeLock) = Collector
    BY <1>12 DEF GcEnds, IdleGc, StoreHolder
  <2>2. IsInjective(storeLock') /\ \A x : x \in Range(storeLock') <=> x \in Range(storeLock) /\ x # Collector
    <3>1. PICK W : W = Putters \cup {Collector}
      OBVIOUS
    <3> QED
      BY <1>1, <2>1, <3>1, QueueLeaves DEF QueueRest
  <2> QED
    BY <1>1, <2>1, <2>2 DEF QueueRest
<1>13. ASSUME NEW h \in Chunks, GcUnlinks(h) PROVE QueueRest'
  <2>1. gc'.at = gc.at /\ UNCHANGED <<storeLock, put>>
    BY <1>8, <1>13 DEF GcUnlinks, GcRecord
  <2> QED
    BY <2>1 DEF QueueRest
<1>14. CASE ReadChecks \/ ReadReads
  BY <1>14 DEF ReadChecks, ReadReads, QueueRest
<1>15. CASE CrashStore
  <2>1. storeLock' = <<>> /\ gc'.at = "idle" /\ \A w \in Putters : put'[w].at = "idle"
    BY <1>15 DEF CrashStore, IdlePut, IdleGc
  <2>2. IsInjective(<<>>)
    BY DEF IsInjective
  <2> QED
    BY <2>1, <2>2, RangeOfNothing DEF QueueRest
<1>16. CASE UNCHANGED chunkVars
  BY <1>16 DEF chunkVars, QueueRest
<1> QED
  BY <1>2, <1>3, <1>4, <1>5, <1>6, <1>9, <1>10, <1>11, <1>12, <1>13, <1>14, <1>15, <1>16 DEF NextChunks

\* Nobody is in the queue of the mutex twice, and a path holds what may be put.
LEMMA ChunksTyped == SpecChunks => []ChunksTypeOK
<1>1. InitChunks => QueueRest /\ ContentRest
  <2> SUFFICES ASSUME InitChunks PROVE QueueRest /\ ContentRest
    OBVIOUS
  <2>1. IsInjective(<<>>)
    BY DEF IsInjective
  <2>2. storeLock = <<>> /\ gc.at = "idle" /\ \A w \in Putters : put[w].at = "idle"
    BY DEF InitChunks, IdlePut, IdleGc
  <2>3. QueueRest
    BY <2>1, <2>2, RangeOfNothing DEF QueueRest
  <2>4. ContentRest
    BY <2>2 DEF InitChunks, ContentRest, IdleReader
  <2> QED
    BY <2>3, <2>4
<1>2. StoreInv /\ QueueRest /\ ContentRest => ChunksTypeOK
  <2> SUFFICES ASSUME StoreInv, QueueRest, ContentRest PROVE ChunksTypeOK
    OBVIOUS
  <2>1. StoreTyped
    BY DEF StoreInv
  <2>2. Range(storeLock) \subseteq Putters \cup {Collector}
    <3>1. PICK W : W = Putters \cup {Collector}
      OBVIOUS
    <3>2. storeLock \in Seq(W)
      BY <2>1, <3>1 DEF StoreTyped
    <3>3. Range(storeLock) \subseteq W
      BY <3>2 DEF Range
    <3> QED
      BY <3>1, <3>3
  <2>3. \A w \in Putters : put[w].at \in {"idle", "waits", "writes", "saves"}
    BY <2>1 DEF StoreTyped, PutRecord
  <2>4. gc.at \in {"idle", "reads", "scanned", "deletes"}
    BY <2>1 DEF StoreTyped, GcRecord
  <2>5. chunk \in [Chunks -> {"absent", "torn", "whole"}] /\ untouched \subseteq Paths
    BY <2>1 DEF StoreTyped
  <2> QED
    BY <2>2, <2>3, <2>4, <2>5 DEF QueueRest, ContentRest, ChunksTypeOK
<1> QED
  BY <1>1, <1>2, QueueRestKept, ContentRestKept, StoreInvariant, PTL DEF SpecChunks

-----------------------------------------------------------------------------
(* Types of JSONL files. *)

TornKept == torn \in BOOLEAN

LEMMA TornStep == ASSUME TornKept, [NextJsonl]_jsonlVars PROVE TornKept'
<1>1. CASE UNCHANGED jsonlVars
  BY <1>1 DEF jsonlVars, TornKept
<1>2. ASSUME NEW t \in Tasks, NEW kind \in Kinds, NEW row \in Tasks, CallJsonl(t, kind, row) PROVE TornKept'
  BY <1>2 DEF CallJsonl, TornKept
<1>3. ASSUME NEW t \in Tasks, AppendLine(t) PROVE TornKept'
  BY <1>3, Zenon DEF AppendLine, TornKept
<1>4. ASSUME NEW t \in Tasks, AppendSynced(t) \/ ReadAll(t) \/ Nothing(t) \/ WriteTemporary(t) PROVE TornKept'
  BY <1>4, Zenon DEF AppendSynced, ReadAll, Nothing, WriteTemporary, TornKept
<1>5. ASSUME NEW t \in Tasks, NEW ok \in BOOLEAN, RenameTemporary(t, ok) PROVE TornKept'
  BY <1>5, Zenon DEF RenameTemporary, TornKept
<1>6. CASE CrashJsonl
  <2>1. PICK lose \in BOOLEAN, tear \in BOOLEAN :
          torn' = (torn \/ (tear /\ ({t \in Tasks : At(t, {"append"}, "waits") /\ Holder(t)} # {}
                                     \/ (lose /\ {t \in Tasks : At(t, {"append"}, "unsynced")} # {}))))
    BY <1>6 DEF CrashJsonl
  <2> QED
    BY <2>1, Zenon DEF TornKept
<1>7. ASSUME NEW t \in Tasks, RenameMissing(t) PROVE TornKept'
  BY <1>7, Zenon DEF RenameMissing, TornKept
<1>8. CASE DirectoryRemoved
  BY <1>8, Zenon DEF DirectoryRemoved, TornKept
<1> QED
  BY <1>1, <1>2, <1>3, <1>4, <1>5, <1>6, <1>7, <1>8 DEF NextJsonl

\* The rows, the queue and the calls keep their shape.
LEMMA JsonlTyped == SpecJsonl => []JsonlTypeOK
<1>1. InitJsonl => TornKept
  BY Zenon DEF InitJsonl, TornKept
<1>2. JsonlInv /\ TornKept => JsonlTypeOK
  <2> SUFFICES ASSUME JsonlInv, TornKept PROVE JsonlTypeOK
    OBVIOUS
  <2>1. ASSUME NEW t \in Tasks
        PROVE  /\ call[t].kind \in Kinds /\ call[t].row \in Tasks
               /\ call[t].at \in {"no", "waits", "unsynced", "read", "written", "unlinked", "done"}
    <3>1. call[t] \in FileCalls
      BY DEF JsonlInv
    <3> QED
      BY <3>1 DEF FileCalls, FileMoments
  <2>2. rows \subseteq Tasks /\ queue \in Seq(Tasks)
    BY DEF JsonlInv
  <2> QED
    BY <2>1, <2>2, Zenon DEF JsonlTypeOK, TornKept
<1> QED
  BY <1>1, <1>2, TornStep, JsonlInvariant, PTL DEF SpecJsonl

-----------------------------------------------------------------------------
(* Types of timelines. *)

\* The clocks, the number of events, and that a file has each row once.
TimelineRest ==
  /\ DOMAIN event \subseteq Ids
  /\ wall \in [Writers -> 1..MaxWall]
  /\ \A n \in Writers : IsInjective(file[n])

LEMMA InjectiveOrders ==
  ASSUME EventsFit, NEW S, S \subseteq DOMAIN event
  PROVE  IsInjective(Canonical(S))
<1>1. PICK order : order = Canonical(S)
  OBVIOUS
<1>2. order \in Seq(S) /\ Range(order) = S /\ Len(order) = Cardinality(S)
  BY <1>1, CanonicalOrders DEF IsOrderOf
<1>3. PICK n : n = Len(order)
  OBVIOUS
<1>4. n \in Nat /\ DOMAIN order = 1..n /\ order \in [1..n -> S]
  BY <1>2, <1>3
<1>5. IsFiniteSet(1..n) /\ Cardinality(1..n) = n
  <2>1. 1 \in Int /\ n \in Int /\ ~(1 > n) => n - 1 + 1 = n
    BY <1>4
  <2>2. IsFiniteSet(1..n) /\ Cardinality(1..n) = IF 1 > n THEN 0 ELSE n - 1 + 1
    BY <1>4, FS_Interval
  <2> QED
    BY <1>4, <2>2
<1>6. order \in Surjection(1..n, S)
  <2>1. \A s \in S : \E i \in 1..n : order[i] = s
    BY <1>2, <1>4 DEF Range
  <2> QED
    BY <1>4, <2>1 DEF Surjection
<1>7. order \in Injection(1..n, S)
  BY <1>2, <1>3, <1>5, <1>6, FS_SurjSameCardinalityImpliesInj
<1> QED
  BY <1>1, <1>7 DEF Injection, IsInjective

LEMMA TimelineRestKept ==
  ASSUME TimelineInv, TimelineRest, [NextTimeline]_timelineVars
  PROVE  TimelineRest'
<1>1. CASE UNCHANGED timelineVars
  BY <1>1 DEF timelineVars, TimelineRest
<1>2. ASSUME NEW n \in Writers, WallTicks(n) PROVE TimelineRest'
  <2>1. wall' = [wall EXCEPT ![n] = @ + 1] /\ wall[n] < MaxWall /\ UNCHANGED <<event, file>>
    BY <1>2 DEF WallTicks
  <2>2. wall[n] \in 1..MaxWall /\ MaxWall \in Nat
    BY TimelineAssumption DEF TimelineRest
  <2>3. wall[n] + 1 \in 1..MaxWall
    BY <2>1, <2>2
  <2>4. wall' \in [Writers -> 1..MaxWall]
    BY <2>1, <2>3 DEF TimelineRest
  <2> QED
    BY <2>1, <2>4 DEF TimelineRest
<1>3. ASSUME NEW n \in Writers, AppendEvent(n) PROVE TimelineRest'
  <2>1. PICK k : k = Cardinality(DOMAIN event)
    OBVIOUS
  <2>2. k \in Nat /\ DOMAIN event = 1..k
    BY <2>1 DEF TimelineInv, EventsFit
  <2>3. /\ k + 1 \in Ids /\ DOMAIN event' = 1..(k + 1) /\ wall' = wall
        /\ file' = [file EXCEPT ![n] = Append(@, k + 1)]
    BY <1>3, <2>1 DEF AppendEvent
  <2>4. DOMAIN event' \subseteq Ids
    BY <2>2, <2>3, TimelineAssumption DEF Ids
  <2>5. PICK p : p = file[n]
    OBVIOUS
  <2>6. p \in Seq(1..k) /\ IsInjective(p)
    BY <2>2, <2>5 DEF TimelineInv, TimelineRest
  <2>7. p \in Seq(1..(k + 1)) /\ \A j \in 1..Len(p) : p[j] # k + 1
    <3>1. \A j \in 1..Len(p) : p[j] \in 1..k
      <4>1. PICK W : W = 1..k
        OBVIOUS
      <4>2. p \in Seq(W)
        BY <2>6, <4>1
      <4>3. \A j \in 1..Len(p) : p[j] \in W
        BY <4>2
      <4> QED
        BY <4>1, <4>3
    <3>2. 1..k \subseteq 1..(k + 1) /\ k + 1 \notin 1..k
      BY <2>2
    <3> QED
      BY <2>6, <3>1, <3>2, SeqWidens
  <2>8. IsInjective(Append(p, k + 1))
    <3>1. PICK v : v = k + 1
      OBVIOUS
    <3>2. v \in 1..(k + 1)
      BY <2>2, <3>1
    <3>3. PICK W : W = 1..(k + 1)
      OBVIOUS
    <3>4. IsInjective(Append(p, v))
      BY <2>6, <2>7, <3>1, <3>2, <3>3, OnceMore
    <3> QED
      BY <3>1, <3>4
  <2>9. file'[n] = Append(p, k + 1) /\ \A m \in Writers \ {n} : file'[m] = file[m]
    BY <2>3, <2>5 DEF TimelineInv
  <2> QED
    BY <2>3, <2>4, <2>8, <2>9 DEF TimelineRest
<1>4. ASSUME NEW n \in Writers, NEW e, ReceiveRow(n, e) PROVE TimelineRest'
  <2>1. e \in DOMAIN event /\ e \notin Rows(n) /\ file' = [file EXCEPT ![n] = Append(@, e)] /\ UNCHANGED <<event, wall>>
    BY <1>4 DEF ReceiveRow
  <2>2. PICK p : p = file[n]
    OBVIOUS
  <2>3. p \in Seq(DOMAIN event) /\ IsInjective(p)
    BY <2>2 DEF TimelineInv, TimelineRest
  <2>4. \A j \in 1..Len(p) : p[j] # e
    BY <2>1, <2>2, <2>3 DEF Rows, Range
  <2>5. IsInjective(Append(p, e))
    <3>1. PICK W : W = DOMAIN event
      OBVIOUS
    <3> QED
      BY <2>1, <2>3, <2>4, <3>1, OnceMore
  <2>6. file'[n] = Append(p, e) /\ \A m \in Writers \ {n} : file'[m] = file[m]
    BY <2>1, <2>2 DEF TimelineInv
  <2> QED
    BY <2>1, <2>5, <2>6 DEF TimelineRest
<1>5. ASSUME NEW n \in Writers, ResolveOrder(n) PROVE TimelineRest'
  BY <1>5 DEF ResolveOrder, TimelineRest
<1>6. ASSUME NEW n \in Writers, NEW root, Prune(n, root) PROVE TimelineRest'
  <2>1. PICK S, keep : S = Rows(n) /\ keep = Descendants(Rows(n), root)
    OBVIOUS
  <2>2. file' = [file EXCEPT ![n] = KeptOf(Canonical(S), keep)] /\ UNCHANGED <<event, wall>>
    BY <1>6, <2>1 DEF Prune
  <2>3. EventsFit /\ S \subseteq DOMAIN event
    BY <2>1 DEF Rows, TimelineInv, Range
  <2>4. PICK order : order = Canonical(S)
    OBVIOUS
  <2>5. order \in Seq(S) /\ IsInjective(order)
    BY <2>3, <2>4, CanonicalOrders, InjectiveOrders DEF IsOrderOf
  <2>6. IsInjective(KeptOf(order, keep))
    BY <2>5, KeptOfFits
  <2>7. file'[n] = KeptOf(order, keep) /\ \A m \in Writers \ {n} : file'[m] = file[m]
    BY <2>2, <2>4 DEF TimelineInv
  <2> QED
    BY <2>2, <2>6, <2>7 DEF TimelineRest
<1> QED
  BY <1>1, <1>2, <1>3, <1>4, <1>5, <1>6 DEF NextTimeline

\* An event's parents were made before it, and no file has a row twice.
LEMMA TimelineTyped == SpecTimeline => []TimelineTypeOK
<1>1. InitTimeline => TimelineRest
  <2> SUFFICES ASSUME InitTimeline PROVE TimelineRest
    OBVIOUS
  <2>1. DOMAIN event = {} /\ \A n \in Writers : file[n] = <<>>
    BY DEF InitTimeline
  <2>2. IsInjective(<<>>)
    BY DEF IsInjective
  <2>3. 1 \in 1..MaxWall
    BY TimelineAssumption
  <2>4. wall \in [Writers -> 1..MaxWall]
    BY <2>3 DEF InitTimeline
  <2> QED
    BY <2>1, <2>2, <2>4 DEF TimelineRest
<1>2. TimelineInv /\ TimelineRest => TimelineTypeOK
  <2> SUFFICES ASSUME TimelineInv, TimelineRest PROVE TimelineTypeOK
    OBVIOUS
  <2>1. \A e \in DOMAIN event : event[e].prev \subseteq 1..(e - 1)
    BY DEF TimelineInv, EventsFit, EventFits
  <2>2. \A n \in Writers : Rows(n) \subseteq DOMAIN event
    BY DEF TimelineInv, Rows, Range
  <2> QED
    BY <2>1, <2>2 DEF TimelineRest, TimelineTypeOK
<1> QED
  BY <1>1, <1>2, TimelineRestKept, TimelineInvariant, PTL DEF SpecTimeline
=============================================================================
