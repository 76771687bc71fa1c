----------------------------- MODULE Pipes_proofs -----------------------------
(*****************************************************************************)
(* Proofs about links over WebRTC (WebRtcLink), the pipe above a link        *)
(* (LinkPipe) and the files that go over it (PublicFiles), for any numbers   *)
(* of sessions, connections, pipes, packets, losses and reads.               *)
(*                                                                           *)
(* The signals of a link, its ladder of peer connections and the queues of   *)
(* its channels have an inductive invariant each, which bounds what is       *)
(* queued or under way by what was sent.                                     *)
(*                                                                           *)
(* What an end of a pipe believes was signed, what is under way and what     *)
(* is kept for a pipe to come is all found among what the other end has      *)
(* signed. Until the first fault each end can say of the other where its     *)
(* hello and its auth are until they have been taken: when nothing is        *)
(* under way both ends are ready, so no handshake timer can run out.         *)
(*                                                                           *)
(* What a read of a file has in hand is no newer than what is on disk        *)
(* until it saves, and no older than what its node returned when it began.   *)
(*****************************************************************************)
EXTENDS WebRtcLink, LinkPipe, PublicFiles, DataLemmas, FiniteSetTheorems

-----------------------------------------------------------------------------
(* The sessions through which signals go. *)

Session == [conn : ConnIds, flow : Flows]

FlowRecord == [st : {"none", "waits", "listens", "deaf", "over"}, conn : ConnIds]

SignalUnderWay(st) == st \in {"waits", "listens", "deaf"}

\* An entry is of a connId of its own, and its flow is under way with that connId.
TableFits ==
  /\ signalSessions \in Seq(Session) /\ Len(signalSessions) <= SessionCap
  /\ \A i, j \in 1..Len(signalSessions) :
       signalSessions[i].conn = signalSessions[j].conn => i = j
  /\ \A i \in 1..Len(signalSessions) :
       LET s == signalSessions[i] IN SignalUnderWay(flow[s.flow].st) /\ flow[s.flow].conn = s.conn

\* Signals are kept for flows.
SignalsKept ==
  /\ flow \in [Flows -> FlowRecord]
  /\ backlog \in [Flows -> Seq(SignalKinds)] /\ \A f \in Flows : Len(backlog[f]) <= BacklogMax
  /\ given \in [Flows -> Seq(SignalKinds)] /\ heard \in [Flows -> Seq(SignalKinds)]
  /\ robbed \subseteq Flows

\* Two flows under way with one connId are both known as robbed.
TwinsRobbed ==
  \A f, g \in Flows :
    f # g /\ SignalUnderWay(flow[f].st) /\ SignalUnderWay(flow[g].st) /\ flow[f].conn = flow[g].conn =>
      f \in robbed /\ g \in robbed

\* A flow's session is in the table.
Seated(f) == \E i \in 1..Len(signalSessions) : signalSessions[i] = [conn |-> flow[f].conn, flow |-> f]

FlowIsHeard(f) ==
  /\ flow[f].st \in {"waits", "listens"} => Seated(f)
  /\ flow[f].st = "waits" => backlog[f] = Latest(given[f])
  /\ flow[f].st = "listens" => heard[f] = Latest(given[f])

SessionsInv == TableFits /\ SignalsKept /\ TwinsRobbed /\ \A f \in Flows \ robbed : FlowIsHeard(f)

LEMMA EntryTells ==
  ASSUME TableFits, NEW i \in 1..Len(signalSessions)
  PROVE  /\ signalSessions[i] \in Session /\ signalSessions[i].flow \in Flows
         /\ SignalUnderWay(flow[signalSessions[i].flow].st)
         /\ flow[signalSessions[i].flow].conn = signalSessions[i].conn
<1>1. signalSessions[i] \in Session
  BY ElementOfSeq DEF TableFits
<1>2. signalSessions[i].flow \in Flows
  BY <1>1 DEF Session
<1> QED
  BY <1>1, <1>2 DEF TableFits

LEMMA LatestIs ==
  ASSUME NEW s \in Seq(SignalKinds)
  PROVE  /\ Latest(s) \in Seq(SignalKinds)
         /\ Len(s) <= BacklogMax => Latest(s) = s
         /\ Len(s) > BacklogMax => /\ Len(Latest(s)) = BacklogMax
                                   /\ \A i \in 1..BacklogMax : Latest(s)[i] = s[Len(s) - BacklogMax + i]
<1>0. BacklogMax \in Nat \ {0} /\ Len(s) \in Nat
  BY SessionsAssumption
<1>1. ASSUME Len(s) <= BacklogMax PROVE Latest(s) = s
  <2>1. ~(Len(s) > BacklogMax)
    BY <1>0, <1>1
  <2>2. SubSeq(s, 1, Len(s)) = s
    BY SubSeqFull
  <2> QED
    BY <2>1, <2>2 DEF Latest
<1>2. ASSUME Len(s) > BacklogMax
      PROVE  /\ Latest(s) \in Seq(SignalKinds) /\ Len(Latest(s)) = BacklogMax
             /\ \A i \in 1..BacklogMax : Latest(s)[i] = s[Len(s) - BacklogMax + i]
  <2> DEFINE m == Len(s) - BacklogMax + 1
             n == Len(s)
  <2>1. m \in Int /\ n \in Int /\ m \in 1..n /\ n - m + 1 = BacklogMax /\ m <= n
    BY <1>0, <1>2
  <2>2. \A i \in m..n : s[i] \in SignalKinds
    BY <2>1
  <2>3. Latest(s) = SubSeq(s, m, n)
    BY <1>2 DEF Latest
  <2>4. \A i \in 1..BacklogMax : m + i - 1 = Len(s) - BacklogMax + i
    BY <1>0
  <2> HIDE DEF m, n
  <2>5. /\ SubSeq(s, m, n) \in Seq(SignalKinds)
        /\ Len(SubSeq(s, m, n)) = IF m <= n THEN n - m + 1 ELSE 0
        /\ \A i \in 1..(n - m + 1) : SubSeq(s, m, n)[i] = s[m + i - 1]
    BY <2>1, <2>2, SubSeqProperties
  <2> QED
    BY <2>1, <2>3, <2>4, <2>5
<1> QED
  BY <1>0, <1>1, <1>2

LEMMA KeptIs ==
  ASSUME NEW b \in Seq(SignalKinds), NEW m \in SignalKinds, Len(b) <= BacklogMax
  PROVE  /\ KeptSignals(b, m) \in Seq(SignalKinds) /\ Len(KeptSignals(b, m)) <= BacklogMax
         /\ Len(b) < BacklogMax => KeptSignals(b, m) = Append(b, m)
         /\ Len(b) = BacklogMax => /\ Len(KeptSignals(b, m)) = BacklogMax
                                   /\ KeptSignals(b, m)[BacklogMax] = m
                                   /\ \A i \in 1..(BacklogMax - 1) : KeptSignals(b, m)[i] = b[i + 1]
<1>0. BacklogMax \in Nat \ {0} /\ Len(b) \in Nat
  BY SessionsAssumption
<1>1. ASSUME Len(b) < BacklogMax
      PROVE  KeptSignals(b, m) = Append(b, m) /\ KeptSignals(b, m) \in Seq(SignalKinds) /\ Len(KeptSignals(b, m)) <= BacklogMax
  <2>1. KeptSignals(b, m) = Append(b, m)
    BY <1>0, <1>1 DEF KeptSignals
  <2> QED
    BY <1>0, <1>1, <2>1
<1>2. ASSUME Len(b) = BacklogMax
      PROVE  /\ KeptSignals(b, m) \in Seq(SignalKinds) /\ Len(KeptSignals(b, m)) = BacklogMax
             /\ KeptSignals(b, m)[BacklogMax] = m
             /\ \A i \in 1..(BacklogMax - 1) : KeptSignals(b, m)[i] = b[i + 1]
  <2>1. b # <<>> /\ KeptSignals(b, m) = Append(Tail(b), m)
    BY <1>0, <1>2 DEF KeptSignals
  <2>2. /\ Tail(b) \in Seq(SignalKinds) /\ Len(Tail(b)) = BacklogMax - 1
        /\ \A i \in 1..(BacklogMax - 1) : Tail(b)[i] = b[i + 1]
    BY <1>2, <2>1, HeadTailProperties
  <2> DEFINE tl == Tail(b)
  <2> HIDE DEF tl
  <2>3. /\ tl \in Seq(SignalKinds) /\ Len(tl) = BacklogMax - 1
        /\ \A i \in 1..(BacklogMax - 1) : tl[i] = b[i + 1]
        /\ KeptSignals(b, m) = Append(tl, m)
    BY <2>1, <2>2 DEF tl
  <2> QED
    BY <1>0, <2>3
<1> QED
  BY <1>0, <1>1, <1>2

\* To keep one signal more is to keep the latest of them all.
LEMMA LatestGrows ==
  ASSUME NEW s \in Seq(SignalKinds), NEW m \in SignalKinds
  PROVE  Latest(Append(s, m)) = KeptSignals(Latest(s), m)
<1> DEFINE t == Append(s, m)
           b == Latest(s)
<1>0. BacklogMax \in Nat \ {0} /\ Len(s) \in Nat
  BY SessionsAssumption
<1>1. t \in Seq(SignalKinds) /\ Len(t) = Len(s) + 1 /\ t[Len(s) + 1] = m /\ \A i \in 1..Len(s) : t[i] = s[i]
  OBVIOUS
<1>2. CASE Len(s) < BacklogMax
  <2>1. b = s
    BY <1>0, <1>2, LatestIs
  <2>2. KeptSignals(s, m) = t
    BY <1>0, <1>2, KeptIs
  <2>3. Len(t) <= BacklogMax
    BY <1>0, <1>1, <1>2
  <2>4. Latest(t) = t
    BY <1>1, <2>3, LatestIs
  <2> QED
    BY <2>1, <2>2, <2>4
<1>3. CASE Len(s) >= BacklogMax
  <2>1. /\ b \in Seq(SignalKinds) /\ Len(b) = BacklogMax
        /\ \A i \in 1..BacklogMax : b[i] = s[Len(s) - BacklogMax + i]
    <3>1. CASE Len(s) = BacklogMax
      <4>1. b = s
        BY <1>0, <3>1, LatestIs
      <4>2. \A i \in 1..BacklogMax : Len(s) - BacklogMax + i = i
        BY <1>0, <3>1
      <4> QED
        BY <3>1, <4>1, <4>2
    <3>2. CASE Len(s) > BacklogMax
      BY <3>2, LatestIs
    <3> QED
      BY <1>0, <1>3, <3>1, <3>2
  <2> HIDE DEF b, t
  <2>2. /\ KeptSignals(b, m) \in Seq(SignalKinds) /\ Len(KeptSignals(b, m)) = BacklogMax
        /\ KeptSignals(b, m)[BacklogMax] = m
        /\ \A i \in 1..(BacklogMax - 1) : KeptSignals(b, m)[i] = b[i + 1]
    <3>1. Len(b) <= BacklogMax
      BY <1>0, <2>1
    <3> QED
      BY <2>1, <3>1, KeptIs
  <2>3. /\ Latest(t) \in Seq(SignalKinds) /\ Len(Latest(t)) = BacklogMax
        /\ \A i \in 1..BacklogMax : Latest(t)[i] = t[Len(t) - BacklogMax + i]
    <3>1. Len(t) > BacklogMax
      BY <1>0, <1>1, <1>3
    <3> QED
      BY <1>1, <3>1, LatestIs
  <2>4. ASSUME NEW i \in 1..BacklogMax PROVE Latest(t)[i] = KeptSignals(b, m)[i]
    <3>1. CASE i = BacklogMax
      <4>1. Len(t) - BacklogMax + i = Len(s) + 1
        BY <1>0, <1>1, <3>1
      <4> QED
        BY <1>1, <2>2, <2>3, <3>1, <4>1
    <3>2. CASE i # BacklogMax
      <4>1. i \in 1..(BacklogMax - 1) /\ i + 1 \in 1..BacklogMax
        BY <1>0, <3>2
      <4>2. Len(t) - BacklogMax + i = Len(s) - BacklogMax + (i + 1) /\ Len(t) - BacklogMax + i \in 1..Len(s)
        <5>1. PICK n : n = Len(s)
          OBVIOUS
        <5>2. n \in Nat /\ Len(t) = n + 1 /\ n >= BacklogMax /\ BacklogMax \in Nat /\ i \in Nat /\ i >= 1
              /\ i < BacklogMax
          BY <1>0, <1>1, <1>3, <4>1, <5>1
        <5>3. (n + 1) - BacklogMax + i = n - BacklogMax + (i + 1) /\ (n + 1) - BacklogMax + i \in 1..n
          BY <5>2
        <5> QED
          BY <5>1, <5>2, <5>3
      <4>3. Latest(t)[i] = t[Len(t) - BacklogMax + i]
        BY <2>3
      <4>4. t[Len(t) - BacklogMax + i] = s[Len(t) - BacklogMax + i]
        BY <1>1, <4>2
      <4>5. KeptSignals(b, m)[i] = s[Len(s) - BacklogMax + (i + 1)]
        BY <2>1, <2>2, <4>1
      <4> QED
        BY <4>2, <4>3, <4>4, <4>5
    <3> QED
      BY <3>1, <3>2
  <2>5. Latest(t) = KeptSignals(b, m)
    BY <2>2, <2>3, <2>4, SeqEqual
  <2> QED
    BY <2>5 DEF b, t
<1> QED
  BY <1>0, <1>2, <1>3

LEMMA SessionsInit == InitSessions => SessionsInv
<1> SUFFICES ASSUME InitSessions PROVE SessionsInv
  OBVIOUS
<1>1. (CHOOSE k \in ConnIds : TRUE) \in ConnIds
  BY SessionsAssumption
<1>2. flow \in [Flows -> FlowRecord] /\ \A f \in Flows : flow[f].st = "none"
  BY <1>1 DEF InitSessions, FlowRecord
<1>3. <<>> \in Seq(SignalKinds) /\ <<>> \in Seq(Session) /\ Len(<<>>) = 0 /\ BacklogMax \in Nat /\ SessionCap \in Nat
  BY SessionsAssumption
<1>4. SignalsKept
  BY <1>2, <1>3 DEF InitSessions, SignalsKept
<1>5. TableFits
  BY <1>3 DEF InitSessions, TableFits
<1> QED
  BY <1>2, <1>4, <1>5 DEF SessionsInv, TwinsRobbed, FlowIsHeard, SignalUnderWay

LEMMA SessionsTyped == SessionsInv => SessionsTypeOK /\ SignalsAreHeard
<1> SUFFICES ASSUME SessionsInv PROVE SessionsTypeOK /\ SignalsAreHeard
  OBVIOUS
<1>1. DOMAIN signalSessions = 1..Len(signalSessions) /\ \A i \in DOMAIN signalSessions : signalSessions[i] \in Session
  BY DEF SessionsInv, TableFits
<1>2. \A f \in Flows : flow[f].st \in {"none", "waits", "listens", "deaf", "over"}
  BY DEF SessionsInv, SignalsKept, FlowRecord
<1> QED
  BY <1>1, <1>2 DEF SessionsInv, TableFits, SignalsKept, SessionsTypeOK, SignalsAreHeard, FlowIsHeard, Seated, Session

\* What makes room is the oldest part of the table.
LEMMA RoomIs ==
  ASSUME NEW t \in Seq(Session), Len(t) <= SessionCap
  PROVE  /\ Surplus(t) \in 0..Len(t)
         /\ Room(t) \in Seq(Session) /\ Len(Room(t)) = Len(t) - Surplus(t) /\ Len(Room(t)) < SessionCap
         /\ \A i \in 1..Len(Room(t)) : Room(t)[i] = t[i + Surplus(t)] /\ i + Surplus(t) \in 1..Len(t)
         /\ \A i \in 1..Len(t) : i > Surplus(t) => i - Surplus(t) \in 1..Len(Room(t)) /\ Room(t)[i - Surplus(t)] = t[i]
         /\ \A i \in 1..Len(t) : t[i].flow \notin Evicted(t) => i > Surplus(t)
<1>0. SessionCap \in Nat \ {0} /\ Len(t) \in Nat
  BY SessionsAssumption
<1>1. Surplus(t) \in 0..Len(t) /\ Len(t) - Surplus(t) < SessionCap
  BY <1>0 DEF Surplus
<1> DEFINE m == Surplus(t) + 1
           n == Len(t)
<1>2. m \in Int /\ n \in Int /\ \A i \in m..n : t[i] \in Session
  BY <1>0, <1>1
<1>3. n - m + 1 = Len(t) - Surplus(t) /\ (IF m <= n THEN n - m + 1 ELSE 0) = Len(t) - Surplus(t)
  BY <1>0, <1>1
<1>a. \A i \in Int : m + i - 1 = i + Surplus(t)
  BY <1>1
<1>4. Room(t) = SubSeq(t, m, n)
  BY DEF Room
<1> HIDE DEF m, n
<1>5. /\ SubSeq(t, m, n) \in Seq(Session)
      /\ Len(SubSeq(t, m, n)) = IF m <= n THEN n - m + 1 ELSE 0
      /\ \A i \in 1..(n - m + 1) : SubSeq(t, m, n)[i] = t[m + i - 1]
  BY <1>2, SubSeqProperties
<1>6. /\ Room(t) \in Seq(Session) /\ Len(Room(t)) = Len(t) - Surplus(t)
      /\ \A i \in 1..(Len(t) - Surplus(t)) : Room(t)[i] = t[i + Surplus(t)]
  <2>1. \A i \in 1..(Len(t) - Surplus(t)) : i \in 1..(n - m + 1) /\ i \in Int
    BY <1>3
  <2> QED
    BY <1>3, <1>4, <1>5, <1>a, <2>1
<1>7. \A i \in 1..Len(t) : t[i].flow \notin Evicted(t) => i > Surplus(t)
  BY <1>0, <1>1 DEF Evicted
<1> QED
  BY <1>0, <1>1, <1>6, <1>7

\* A flow enters whose connId no entry of the table has.
LEMMA EntersKeeps ==
  ASSUME SessionsInv, NEW f \in Flows, NEW k \in ConnIds, NEW kept \in Seq(SignalKinds), Len(kept) <= 1,
         Enters(f, k, kept), \A i \in 1..Len(signalSessions) : signalSessions[i].conn # k
  PROVE  SessionsInv'
<1> DEFINE t == signalSessions
           gone == Evicted(t)
           room == Room(t)
           e == [conn |-> k, flow |-> f]
<1>0. /\ TableFits /\ SignalsKept /\ TwinsRobbed
      /\ BacklogMax \in Nat \ {0} /\ SessionCap \in Nat \ {0} /\ Len(kept) \in Nat
      /\ flow[f].st = "none"
  BY SessionsAssumption DEF SessionsInv, Enters
<1>1. t \in Seq(Session) /\ Len(t) <= SessionCap
  BY <1>0 DEF TableFits
<1>2. /\ Surplus(t) \in 0..Len(t)
      /\ room \in Seq(Session) /\ Len(room) = Len(t) - Surplus(t) /\ Len(room) < SessionCap
      /\ \A i \in 1..Len(room) : room[i] = t[i + Surplus(t)] /\ i + Surplus(t) \in 1..Len(t)
      /\ \A i \in 1..Len(t) : i > Surplus(t) => i - Surplus(t) \in 1..Len(room) /\ room[i - Surplus(t)] = t[i]
      /\ \A i \in 1..Len(t) : t[i].flow \notin gone => i > Surplus(t)
  BY <1>1, RoomIs
<1>3. gone \subseteq Flows
  <2>1. \A i \in 1..Surplus(t) : i \in 1..Len(t)
    BY <1>2
  <2>2. \A i \in 1..Surplus(t) : t[i] \in Session
    BY <1>1, <2>1, ElementOfSeq
  <2> QED
    BY <2>2 DEF Evicted, Session
<1>4. t' = Append(room, e)
  BY DEF Enters
<1>5. e \in Session /\ e.conn = k /\ e.flow = f
  BY DEF Session
<1>6. \A g \in Flows : flow'[g] = IF g = f THEN [st |-> "waits", conn |-> k]
                                 ELSE IF g \in gone /\ flow[g].st = "listens"
                                 THEN [flow[g] EXCEPT !.st = "deaf"] ELSE flow[g]
  BY DEF Enters
<1>7. \A g \in Flows : backlog'[g] = IF g = f THEN kept ELSE IF g \in gone THEN <<>> ELSE backlog[g]
  BY DEF Enters
<1>8. \A g \in Flows : given'[g] = IF g = f THEN kept ELSE given[g]
  BY <1>0 DEF Enters, SignalsKept
<1>9. /\ heard' = heard
      /\ robbed \subseteq robbed' /\ gone \subseteq robbed' /\ robbed' \subseteq Flows
      /\ \A g \in Flows : SignalUnderWay(flow[g].st) /\ flow[g].conn = k => g \in robbed' /\ f \in robbed'
  <2>1. \A g \in Flows : SignalUnderWay(flow[g].st) <=> flow[g].st \notin {"none", "over"}
    BY <1>0 DEF SignalsKept, FlowRecord, SignalUnderWay
  <2> HIDE DEF gone
  <2> QED
    BY <1>0, <1>3, <2>1 DEF Enters, SignalsKept, gone
<1> HIDE DEF gone, room, e
<1>10. /\ t' \in Seq(Session) /\ Len(t') = Len(room) + 1 /\ Len(t') <= SessionCap
       /\ t'[Len(room) + 1] = e /\ \A i \in 1..Len(room) : t'[i] = room[i]
  BY <1>0, <1>2, <1>4, <1>5
<1>11. \A g \in Flows : /\ flow'[g] \in FlowRecord
                        /\ flow'[g].conn = IF g = f THEN k ELSE flow[g].conn
                        /\ SignalUnderWay(flow'[g].st) <=> g = f \/ SignalUnderWay(flow[g].st)
                        /\ g # f /\ g \notin gone => flow'[g] = flow[g]
                        /\ g = f => flow'[g].st = "waits"
  <2> TAKE g \in Flows
  <2>1. flow[g] \in FlowRecord
    BY <1>0 DEF SignalsKept
  <2>2. CASE g = f
    <3>1. flow'[g] = [st |-> "waits", conn |-> k]
      BY <1>6, <2>2
    <3> QED
      BY <2>2, <3>1 DEF FlowRecord, SignalUnderWay
  <2>3. CASE g # f /\ g \in gone /\ flow[g].st = "listens"
    <3>1. flow'[g] = [flow[g] EXCEPT !.st = "deaf"]
      BY <1>6, <2>3
    <3> QED
      BY <2>1, <2>3, <3>1 DEF FlowRecord, SignalUnderWay
  <2>4. CASE g # f /\ ~(g \in gone /\ flow[g].st = "listens")
    <3>1. flow'[g] = flow[g]
      BY <1>6, <2>4
    <3> QED
      BY <2>1, <2>4, <3>1
  <2> QED
    BY <2>2, <2>3, <2>4
<1>12. SignalsKept'
  <2>1. flow' \in [Flows -> FlowRecord]
    <3>1. flow' = [g \in Flows |-> flow'[g]]
      BY DEF Enters
    <3> QED
      BY <1>11, <3>1
  <2>2. \A g \in Flows : backlog'[g] \in Seq(SignalKinds) /\ Len(backlog'[g]) <= BacklogMax
    <3>1. <<>> \in Seq(SignalKinds) /\ Len(<<>>) = 0 /\ Len(kept) <= BacklogMax
      BY <1>0
    <3> TAKE g \in Flows
    <3>2. backlog[g] \in Seq(SignalKinds) /\ Len(backlog[g]) <= BacklogMax
      BY <1>0 DEF SignalsKept
    <3>3. backlog'[g] = kept \/ backlog'[g] = <<>> \/ backlog'[g] = backlog[g]
      BY <1>7
    <3>4. CASE backlog'[g] = <<>>
      BY <3>1, <3>4, SessionsAssumption
    <3>5. CASE backlog'[g] = kept
      BY <3>1, <3>5
    <3> QED
      BY <3>2, <3>3, <3>4, <3>5
  <2>3. backlog' \in [Flows -> Seq(SignalKinds)]
    <3>1. backlog' = [g \in Flows |-> backlog'[g]]
      BY DEF Enters
    <3> QED
      BY <2>2, <3>1
  <2>4. given' \in [Flows -> Seq(SignalKinds)]
    BY <1>0 DEF Enters, SignalsKept
  <2> QED
    BY <1>0, <1>9, <2>1, <2>2, <2>3, <2>4 DEF SignalsKept
<1>13. TableFits'
  <2>1. \A i \in 1..Len(t') : t'[i] = e \/ (i \in 1..Len(room) /\ t'[i] = t[i + Surplus(t)] /\ i + Surplus(t) \in 1..Len(t))
    BY <1>2, <1>10
  <2>2. ASSUME NEW i \in 1..Len(t'), NEW j \in 1..Len(t'), t'[i].conn = t'[j].conn PROVE i = j
    <3>1. CASE i \in 1..Len(room) /\ j \in 1..Len(room)
      <4>1. t[i + Surplus(t)].conn = t[j + Surplus(t)].conn /\ i + Surplus(t) \in 1..Len(t) /\ j + Surplus(t) \in 1..Len(t)
        BY <1>2, <1>10, <2>2, <3>1
      <4>2. i + Surplus(t) = j + Surplus(t)
        BY <1>0, <4>1 DEF TableFits
      <4> QED
        BY <1>2, <4>2
    <3>2. CASE i \in 1..Len(room) /\ j = Len(room) + 1
      <4>1. t'[i] = t[i + Surplus(t)] /\ i + Surplus(t) \in 1..Len(t) /\ t'[j].conn = k
        BY <1>2, <1>5, <1>10, <3>2
      <4> QED
        BY <2>2, <4>1
    <3>3. CASE j \in 1..Len(room) /\ i = Len(room) + 1
      <4>1. t'[j] = t[j + Surplus(t)] /\ j + Surplus(t) \in 1..Len(t) /\ t'[i].conn = k
        BY <1>2, <1>5, <1>10, <3>3
      <4> QED
        BY <2>2, <4>1
    <3>4. CASE i = Len(room) + 1 /\ j = Len(room) + 1
      BY <3>4
    <3> QED
      BY <1>2, <1>10, <3>1, <3>2, <3>3, <3>4
  <2>3. ASSUME NEW i \in 1..Len(t') PROVE SignalUnderWay(flow'[t'[i].flow].st) /\ flow'[t'[i].flow].conn = t'[i].conn
    <3>1. CASE t'[i] = e
      BY <1>5, <1>11, <3>1
    <3>2. CASE i \in 1..Len(room) /\ t'[i] = t[i + Surplus(t)] /\ i + Surplus(t) \in 1..Len(t)
      <4>1. LET s == t[i + Surplus(t)] IN s \in Session /\ SignalUnderWay(flow[s.flow].st) /\ flow[s.flow].conn = s.conn
        BY <1>0, <3>2 DEF TableFits
      <4>2. t'[i].flow \in Flows /\ t'[i].flow # f
        BY <1>0, <3>2, <4>1 DEF Session, SignalUnderWay
      <4> QED
        BY <1>11, <3>2, <4>1, <4>2
    <3> QED
      BY <2>1, <3>1, <3>2
  <2> QED
    BY <1>10, <2>2, <2>3 DEF TableFits
<1>14. TwinsRobbed'
  <2> SUFFICES ASSUME NEW g \in Flows, NEW h \in Flows, g # h, SignalUnderWay(flow'[g].st), SignalUnderWay(flow'[h].st),
                      flow'[g].conn = flow'[h].conn
               PROVE  g \in robbed' /\ h \in robbed'
    BY DEF TwinsRobbed
  <2>1. CASE g # f /\ h # f
    BY <1>0, <1>9, <1>11, <2>1 DEF TwinsRobbed
  <2>2. CASE g = f
    BY <1>9, <1>11, <2>2
  <2>3. CASE h = f
    BY <1>9, <1>11, <2>3
  <2> QED
    BY <2>1, <2>2, <2>3
<1>15. ASSUME NEW g \in Flows \ robbed' PROVE FlowIsHeard(g)'
  <2>1. CASE g = f
    <3>1. Latest(kept) = kept
      <4>1. Len(kept) <= BacklogMax
        BY <1>0
      <4> QED
        BY <4>1, LatestIs
    <3>2. t'[Len(room) + 1] = [conn |-> flow'[g].conn, flow |-> g] /\ Len(room) + 1 \in 1..Len(t')
      BY <1>2, <1>10, <1>11, <2>1 DEF e
    <3> QED
      BY <1>7, <1>8, <1>11, <2>1, <3>1, <3>2 DEF FlowIsHeard, Seated
  <2>2. CASE g # f
    <3>1. g \notin gone /\ flow'[g] = flow[g] /\ backlog'[g] = backlog[g] /\ given'[g] = given[g] /\ FlowIsHeard(g)
      BY <1>7, <1>8, <1>9, <1>11, <2>2 DEF SessionsInv
    <3>2. Seated(g) => Seated(g)'
      <4> SUFFICES ASSUME Seated(g) PROVE Seated(g)'
        OBVIOUS
      <4>1. PICK i \in 1..Len(t) : t[i] = [conn |-> flow[g].conn, flow |-> g]
        BY DEF Seated
      <4>2. i > Surplus(t) /\ i - Surplus(t) \in 1..Len(room) /\ room[i - Surplus(t)] = t[i]
        BY <1>2, <3>1, <4>1
      <4>3. i - Surplus(t) \in 1..Len(t') /\ t'[i - Surplus(t)] = t[i]
        BY <1>2, <1>10, <4>2
      <4> QED
        BY <3>1, <4>1, <4>3 DEF Seated
    <3> QED
      BY <1>9, <3>1, <3>2 DEF FlowIsHeard
  <2> QED
    BY <2>1, <2>2
<1> QED
  BY <1>12, <1>13, <1>14, <1>15 DEF SessionsInv

\* An entry is deleted, and no other.
LEMMA DeletedIs ==
  ASSUME TableFits, NEW k
  PROVE  /\ Deleted(k) \in Seq(Session) /\ Len(Deleted(k)) <= Len(signalSessions)
         /\ \A i \in 1..Len(Deleted(k)) :
              \E j \in 1..Len(signalSessions) :
                /\ Deleted(k)[i] = signalSessions[j] /\ signalSessions[j].conn # k
         /\ \A i, j \in 1..Len(Deleted(k)) : Deleted(k)[i].conn = Deleted(k)[j].conn => i = j
         /\ \A j \in 1..Len(signalSessions) : signalSessions[j].conn # k =>
              \E i \in 1..Len(Deleted(k)) : Deleted(k)[i] = signalSessions[j]
<1> DEFINE t == signalSessions
           d == Deleted(k)
<1>0. t \in Seq(Session) /\ Len(t) \in Nat /\ DOMAIN t = 1..Len(t)
  BY DEF TableFits
<1>1. CASE SessionOf(k) = {}
  <2>1. d = t /\ \A j \in 1..Len(t) : t[j].conn # k
    BY <1>0, <1>1 DEF Deleted, SessionOf
  <2> QED
    BY <1>0, <2>1 DEF TableFits
<1>2. CASE SessionOf(k) # {}
  <2>1. PICK p \in 1..Len(t) : t[p].conn = k /\ d = RemoveAt(t, p)
    BY <1>0, <1>2 DEF SessionOf, Deleted
  <2>0. p \in Nat /\ p <= Len(t) /\ 1 <= p
    BY <1>0
  <2>2. p - 1 \in Int /\ p + 1 \in Int /\ Len(t) \in Int /\ 1 \in Int /\ p \in Nat
        /\ (\A i \in 1..(p - 1) : t[i] \in Session) /\ \A i \in (p + 1)..Len(t) : t[i] \in Session
    BY <1>0
  <2> DEFINE a == SubSeq(t, 1, p - 1)
             b == SubSeq(t, p + 1, Len(t))
  <2>3. /\ a \in Seq(Session) /\ Len(a) = (IF 1 <= p - 1 THEN (p - 1) - 1 + 1 ELSE 0)
        /\ \A i \in 1..((p - 1) - 1 + 1) : a[i] = t[1 + i - 1]
    BY <2>2, SubSeqProperties
  <2>4. /\ b \in Seq(Session) /\ Len(b) = (IF p + 1 <= Len(t) THEN Len(t) - (p + 1) + 1 ELSE 0)
        /\ \A i \in 1..(Len(t) - (p + 1) + 1) : b[i] = t[p + 1 + i - 1]
    BY <2>2, SubSeqProperties
  <2>5. d = a \o b
    BY <2>1 DEF RemoveAt
  <2>a. /\ a \in Seq(Session) /\ Len(a) = p - 1 /\ \A i \in 1..(p - 1) : a[i] = t[i]
    BY <1>0, <2>1, <2>3
  <2>b. /\ b \in Seq(Session) /\ Len(b) = Len(t) - p /\ \A i \in 1..(Len(t) - p) : b[i] = t[p + i]
    <3>1. \A i \in Int : p + 1 + i - 1 = p + i
      BY <2>2
    <3>2. Len(t) - (p + 1) + 1 = Len(t) - p /\ (IF p + 1 <= Len(t) THEN Len(t) - (p + 1) + 1 ELSE 0) = Len(t) - p
      <4> DEFINE n == Len(t)
      <4>1. n \in Nat /\ p <= n /\ p \in Nat
        BY <1>0, <2>0
      <4> HIDE DEF n
      <4>2. n - (p + 1) + 1 = n - p /\ (p + 1 <= n => n - (p + 1) + 1 = n - p) /\ (~(p + 1 <= n) => n - p = 0)
        BY <4>1
      <4> QED
        BY <4>2 DEF n
    <3>3. \A i \in 1..(Len(t) - p) : i \in Int
      OBVIOUS
    <3> QED
      BY <2>4, <3>1, <3>2, <3>3
  <2> HIDE DEF a, b, d
  <2>6. /\ d \in Seq(Session) /\ Len(d) = Len(a) + Len(b)
        /\ \A i \in 1..(Len(a) + Len(b)) : d[i] = IF i <= Len(a) THEN a[i] ELSE b[i - Len(a)]
    BY <2>5, <2>a, <2>b, ConcatProperties
  <2>7. /\ Len(d) = Len(t) - 1
        /\ \A i \in 1..Len(d) : d[i] = IF i < p THEN t[i] ELSE t[i + 1]
    <3>1. Len(d) = Len(t) - 1
      BY <1>0, <2>2, <2>6, <2>a, <2>b
    <3>2. ASSUME NEW i \in 1..Len(d), i < p PROVE d[i] = t[i]
      <4>1. i \in 1..(p - 1) /\ i <= Len(a) /\ i \in 1..(Len(a) + Len(b))
        BY <1>0, <2>a, <2>6, <3>2
      <4> QED
        BY <2>6, <2>a, <4>1
    <3>3. ASSUME NEW i \in 1..Len(d), ~(i < p) PROVE d[i] = t[i + 1]
      <4>1. i - Len(a) \in 1..(Len(t) - p) /\ ~(i <= Len(a)) /\ i \in 1..(Len(a) + Len(b)) /\ p + (i - Len(a)) = i + 1
        BY <1>0, <2>a, <2>6, <3>1, <3>3
      <4> QED
        BY <2>6, <2>b, <4>1
    <3> QED
      BY <3>1, <3>2, <3>3
  <2>8. \A i \in 1..Len(t) : i # p => t[i].conn # k
    BY <2>1 DEF TableFits
  <2> DEFINE at(i) == IF i < p THEN i ELSE i + 1
  <2>9. \A i \in 1..Len(d) : at(i) \in 1..Len(t) /\ at(i) # p /\ d[i] = t[at(i)]
    BY <1>0, <2>7
  <2>10. \A i, j \in 1..Len(d) : at(i) = at(j) => i = j
    BY <1>0, <2>7
  <2>11. ASSUME NEW j \in 1..Len(t), j # p PROVE \E i \in 1..Len(d) : d[i] = t[j]
    <3>1. CASE j < p
      BY <1>0, <2>7, <3>1
    <3>2. CASE ~(j < p)
      <4>1. j - 1 \in 1..Len(d) /\ ~(j - 1 < p) /\ (j - 1) + 1 = j
        BY <1>0, <2>7, <2>11, <3>2
      <4> QED
        BY <2>7, <4>1
    <3> QED
      BY <3>1, <3>2
  <2> HIDE DEF at
  <2>12. \A i, j \in 1..Len(d) : d[i].conn = d[j].conn => i = j
    BY <2>9, <2>10 DEF TableFits
  <2>13. Len(d) <= Len(t)
    BY <1>0, <2>7
  <2> QED
    BY <2>1, <2>6, <2>8, <2>9, <2>11, <2>12, <2>13 DEF d
<1> QED
  BY <1>1, <1>2

LEMMA FlowEndsKeeps == ASSUME SessionsInv, NEW f \in Flows, FlowEnds(f) PROVE SessionsInv'
<1> DEFINE t == signalSessions
           k == flow[f].conn
<1>0. TableFits /\ SignalsKept /\ TwinsRobbed /\ SignalUnderWay(flow[f].st)
  BY DEF SessionsInv, FlowEnds, SignalUnderWay
<1>1. t' = Deleted(k)
  BY DEF FlowEnds
<1>2. /\ t' \in Seq(Session) /\ Len(t') <= Len(t)
      /\ \A i \in 1..Len(t') : \E j \in 1..Len(t) : t'[i] = t[j] /\ t[j].conn # k
      /\ \A i, j \in 1..Len(t') : t'[i].conn = t'[j].conn => i = j
      /\ \A j \in 1..Len(t) : t[j].conn # k => \E i \in 1..Len(t') : t'[i] = t[j]
  <2> HIDE DEF k, t
  <2>1. /\ Deleted(k) \in Seq(Session) /\ Len(Deleted(k)) <= Len(t)
        /\ \A i \in 1..Len(Deleted(k)) : \E j \in 1..Len(t) : Deleted(k)[i] = t[j] /\ t[j].conn # k
        /\ \A i, j \in 1..Len(Deleted(k)) : Deleted(k)[i].conn = Deleted(k)[j].conn => i = j
        /\ \A j \in 1..Len(t) : t[j].conn # k => \E i \in 1..Len(Deleted(k)) : Deleted(k)[i] = t[j]
    BY <1>0, DeletedIs DEF t
  <2> QED
    BY <1>1, <2>1
<1> HIDE DEF k
<1>3. /\ flow' \in [Flows -> FlowRecord]
      /\ \A g \in Flows : g # f => flow'[g] = flow[g]
      /\ ~SignalUnderWay(flow'[f].st)
  BY <1>0 DEF FlowEnds, SignalsKept, FlowRecord, SignalUnderWay
<1>4. /\ backlog' \in [Flows -> Seq(SignalKinds)] /\ given' \in [Flows -> Seq(SignalKinds)]
      /\ heard' \in [Flows -> Seq(SignalKinds)]
      /\ \A g \in Flows : g # f => backlog'[g] = backlog[g] /\ given'[g] = given[g] /\ heard'[g] = heard[g]
      /\ backlog'[f] = <<>> /\ robbed' = robbed \ {f}
  <2>1. <<>> \in Seq(SignalKinds)
    OBVIOUS
  <2> QED
    BY <1>0, <2>1 DEF FlowEnds, SignalsKept
<1>5. SignalsKept'
  <2>1. Len(<<>>) = 0 /\ BacklogMax \in Nat
    BY SessionsAssumption
  <2>2. \A g \in Flows : Len(backlog'[g]) <= BacklogMax
    <3> TAKE g \in Flows
    <3>1. backlog'[g] = <<>> \/ backlog'[g] = backlog[g]
      BY <1>4
    <3>2. Len(backlog[g]) <= BacklogMax
      BY <1>0 DEF SignalsKept
    <3> QED
      BY <2>1, <3>1, <3>2
  <2> QED
    BY <1>0, <1>3, <1>4, <2>2 DEF SignalsKept
<1>6. TableFits'
  <2>1. Len(t') \in Nat /\ Len(t) \in Nat /\ SessionCap \in Nat /\ Len(t) <= SessionCap
    BY <1>0, <1>2, SessionsAssumption DEF TableFits
  <2>2. ASSUME NEW i \in 1..Len(t') PROVE SignalUnderWay(flow'[t'[i].flow].st) /\ flow'[t'[i].flow].conn = t'[i].conn
    <3>1. PICK j \in 1..Len(t) : t'[i] = t[j] /\ t[j].conn # k
      BY <1>2
    <3>2. t[j] \in Session /\ SignalUnderWay(flow[t[j].flow].st) /\ flow[t[j].flow].conn = t[j].conn
      BY <1>0 DEF TableFits
    <3>3. t[j].flow \in Flows /\ t[j].flow # f
      BY <3>1, <3>2 DEF Session, k
    <3> QED
      BY <1>3, <3>1, <3>2, <3>3
  <2>3. t' \in Seq(Session) /\ Len(t') <= SessionCap
    BY <1>2, <2>1
  <2>4. \A i, j \in 1..Len(t') : t'[i].conn = t'[j].conn => i = j
    BY <1>2
  <2> HIDE DEF t
  <2>5. signalSessions' = t'
    BY DEF t
  <2> QED
    BY <2>2, <2>3, <2>4, <2>5 DEF TableFits
<1>7. TwinsRobbed'
  <2> SUFFICES ASSUME NEW h \in Flows, NEW g \in Flows, h # g, SignalUnderWay(flow'[h].st),
                      SignalUnderWay(flow'[g].st), flow'[h].conn = flow'[g].conn
               PROVE  h \in robbed' /\ g \in robbed'
    BY DEF TwinsRobbed
  <2>1. h # f /\ g # f
    BY <1>3
  <2>2. flow'[h] = flow[h] /\ flow'[g] = flow[g]
    BY <1>3, <2>1
  <2>3. h \in robbed /\ g \in robbed
    BY <1>0, <2>2 DEF TwinsRobbed
  <2> QED
    BY <1>4, <2>1, <2>3
<1>8. ASSUME NEW g \in Flows \ robbed' PROVE FlowIsHeard(g)'
  <2>1. CASE g = f
    BY <1>3, <2>1 DEF FlowIsHeard, SignalUnderWay
  <2>2. CASE g # f
    <3>1. g \notin robbed /\ flow'[g] = flow[g] /\ FlowIsHeard(g)
      BY <1>3, <1>4, <2>2 DEF SessionsInv
    <3>2. ASSUME Seated(g), flow[g].st \in {"waits", "listens"} PROVE Seated(g)'
      <4>1. PICK i \in 1..Len(t) : t[i] = [conn |-> flow[g].conn, flow |-> g]
        BY <3>2 DEF Seated
      <4>2. t[i].conn # k
        BY <1>0, <2>2, <3>1, <3>2, <4>1 DEF TwinsRobbed, SignalUnderWay, k
      <4>3. PICK j \in 1..Len(t') : t'[j] = t[i]
        BY <1>2, <4>2
      <4> QED
        BY <3>1, <4>1, <4>3 DEF Seated
    <3> QED
      BY <1>4, <2>2, <3>1, <3>2 DEF FlowIsHeard
  <2> QED
    BY <2>1, <2>2
<1> QED
  BY <1>5, <1>6, <1>7, <1>8 DEF SessionsInv

LEMMA deliverKeeps ==
  ASSUME SessionsInv, NEW f \in Flows, NEW m \in SignalKinds, deliver(f, m),
         UNCHANGED <<signalSessions, flow, heard, robbed>>
  PROVE  SessionsInv'
<1>1. CASE flow[f].st # "waits"
  <2>1. UNCHANGED sessionVars
    BY <1>1 DEF deliver, sessionVars
  <2> QED
    BY <2>1 DEF sessionVars, SessionsInv, TableFits, SignalsKept, TwinsRobbed, FlowIsHeard, Seated
<1>2. CASE flow[f].st = "waits"
  <2>0. SignalsKept /\ f \in Flows /\ given[f] \in Seq(SignalKinds) /\ backlog[f] \in Seq(SignalKinds)
        /\ Len(backlog[f]) <= BacklogMax
    BY DEF SessionsInv, SignalsKept
  <2>1. /\ given' = [given EXCEPT ![f] = Append(given[f], m)]
        /\ backlog' = [backlog EXCEPT ![f] = KeptSignals(backlog[f], m)]
    BY <1>2 DEF deliver
  <2>2. KeptSignals(backlog[f], m) \in Seq(SignalKinds) /\ Len(KeptSignals(backlog[f], m)) <= BacklogMax
    BY <2>0, KeptIs
  <2>3. /\ \A g \in Flows : g # f => given'[g] = given[g] /\ backlog'[g] = backlog[g]
        /\ given'[f] = Append(given[f], m) /\ backlog'[f] = KeptSignals(backlog[f], m)
    BY <2>0, <2>1 DEF SignalsKept
  <2>4. SignalsKept'
    <3>1. given' \in [Flows -> Seq(SignalKinds)]
      BY <2>0, <2>1 DEF SignalsKept
    <3>2. backlog' \in [Flows -> Seq(SignalKinds)]
      BY <2>0, <2>1, <2>2 DEF SignalsKept
    <3>3. \A g \in Flows : Len(backlog'[g]) <= BacklogMax
      BY <2>0, <2>2, <2>3 DEF SignalsKept
    <3> QED
      BY <2>0, <3>1, <3>2, <3>3 DEF SignalsKept
  <2>5. ASSUME NEW g \in Flows \ robbed' PROVE FlowIsHeard(g)'
    <3>0. FlowIsHeard(g)
      BY DEF SessionsInv
    <3>1. CASE g = f
      <4>1. backlog'[f] = Latest(given'[f])
        BY <1>2, <2>0, <2>3, <3>0, <3>1, LatestGrows DEF FlowIsHeard
      <4> QED
        BY <1>2, <3>0, <3>1, <4>1 DEF FlowIsHeard, Seated
    <3>2. CASE g # f
      BY <2>3, <3>0, <3>2 DEF FlowIsHeard, Seated
    <3> QED
      BY <3>1, <3>2
  <2>6. TableFits' /\ TwinsRobbed'
    BY DEF SessionsInv, TableFits, TwinsRobbed
  <2> QED
    BY <2>4, <2>5, <2>6 DEF SessionsInv
<1> QED
  BY <1>1, <1>2

LEMMA ProviderListensKeeps == ASSUME SessionsInv, NEW f \in Flows, ProviderListens(f) PROVE SessionsInv'
<1>0. SignalsKept /\ flow[f].st = "waits"
  BY DEF SessionsInv, ProviderListens
<1>1. /\ flow' \in [Flows -> FlowRecord]
      /\ \A g \in Flows : /\ g # f => flow'[g] = flow[g]
                          /\ flow'[g].conn = flow[g].conn /\ (SignalUnderWay(flow'[g].st) <=> SignalUnderWay(flow[g].st))
      /\ flow'[f].st = "listens"
  <2>1. flow' = [flow EXCEPT ![f].st = "listens"] /\ flow \in [Flows -> FlowRecord]
    BY <1>0 DEF ProviderListens, SignalsKept
  <2>2. flow' \in [Flows -> FlowRecord] /\ flow'[f].st = "listens" /\ flow'[f].conn = flow[f].conn
    BY <2>1 DEF FlowRecord
  <2>3. \A g \in Flows : g # f => flow'[g] = flow[g]
    BY <2>1
  <2> QED
    BY <1>0, <2>2, <2>3 DEF SignalUnderWay
<1>2. /\ \A g \in Flows : g # f => heard'[g] = heard[g] /\ backlog'[g] = backlog[g]
      /\ heard'[f] = backlog[f] /\ backlog'[f] = <<>>
      /\ UNCHANGED <<signalSessions, given, robbed>>
  BY <1>0 DEF ProviderListens, SignalsKept
<1>3. SignalsKept'
  <2>1. <<>> \in Seq(SignalKinds) /\ Len(<<>>) = 0 /\ BacklogMax \in Nat
    BY SessionsAssumption
  <2>2. heard' \in [Flows -> Seq(SignalKinds)] /\ backlog' \in [Flows -> Seq(SignalKinds)]
    BY <1>0, <2>1 DEF ProviderListens, SignalsKept
  <2>3. \A g \in Flows : Len(backlog'[g]) <= BacklogMax
    <3> TAKE g \in Flows
    <3>1. CASE g = f
      BY <1>2, <2>1, <3>1
    <3>2. CASE g # f
      BY <1>0, <1>2, <3>2 DEF SignalsKept
    <3> QED
      BY <3>1, <3>2
  <2> QED
    BY <1>0, <1>1, <1>2, <2>2, <2>3 DEF SignalsKept
<1>4. TableFits'
  <2>1. \A i \in 1..Len(signalSessions) : signalSessions[i].flow \in Flows
    BY EntryTells DEF SessionsInv
  <2> QED
    BY <1>1, <1>2, <2>1 DEF SessionsInv, TableFits
<1>5. TwinsRobbed'
  BY <1>1, <1>2 DEF SessionsInv, TwinsRobbed
<1>6. ASSUME NEW g \in Flows \ robbed' PROVE FlowIsHeard(g)'
  <2>0. FlowIsHeard(g) /\ (Seated(g) => Seated(g)')
    BY <1>1, <1>2 DEF SessionsInv, Seated
  <2>1. CASE g = f
    BY <1>0, <1>1, <1>2, <2>0, <2>1 DEF FlowIsHeard
  <2>2. CASE g # f
    BY <1>1, <1>2, <2>0, <2>2 DEF FlowIsHeard
  <2> QED
    BY <2>1, <2>2
<1> QED
  BY <1>3, <1>4, <1>5, <1>6 DEF SessionsInv

\* A node's sessions keep their signals, and a flow that was not robbed its session.
LEMMA SessionsSound == SpecSessions => [](SessionsTypeOK /\ SignalsAreHeard)
<1>1. InitSessions => SessionsInv
  BY SessionsInit
<1>2. SessionsInv /\ [NextSessions]_sessionVars => SessionsInv'
  <2> SUFFICES ASSUME SessionsInv, [NextSessions]_sessionVars PROVE SessionsInv'
    OBVIOUS
  <2>0. /\ signalSessions \in Seq(Session) /\ DOMAIN signalSessions = 1..Len(signalSessions)
        /\ \A i \in 1..Len(signalSessions) :
             /\ signalSessions[i].flow \in Flows
             /\ SignalUnderWay(flow[signalSessions[i].flow].st)
             /\ flow[signalSessions[i].flow].conn = signalSessions[i].conn
    BY EntryTells DEF SessionsInv, TableFits
  <2>1. ASSUME NEW k \in ConnIds, NEW f \in Flows, DialOfferAnswer(f, k) PROVE SessionsInv'
    <3>1. \A i \in 1..Len(signalSessions) : signalSessions[i].conn # k
      BY <2>0, <2>1 DEF DialOfferAnswer, SignalUnderWay
    <3>2. <<>> \in Seq(SignalKinds) /\ Len(<<>>) <= 1
      OBVIOUS
    <3> QED
      BY <2>1, <3>1, <3>2, EntersKeeps DEF DialOfferAnswer
  <2>2. ASSUME NEW k \in ConnIds, NEW m \in SignalKinds, handleSignalPacket(k, m) PROVE SessionsInv'
    <3>1. CASE SessionOf(k) # {} /\ deliver(FlowAt(k), m) /\ UNCHANGED <<signalSessions, flow, heard, robbed>>
      <4>1. (CHOOSE i \in SessionOf(k) : TRUE) \in 1..Len(signalSessions)
        BY <2>0, <3>1 DEF SessionOf
      <4>2. FlowAt(k) \in Flows
        BY <2>0, <4>1 DEF FlowAt
      <4> QED
        BY <3>1, <4>2, deliverKeeps
    <3>2. ASSUME SessionOf(k) = {}, NEW f \in Flows, Enters(f, k, <<m>>) PROVE SessionsInv'
      <4>1. \A i \in 1..Len(signalSessions) : signalSessions[i].conn # k
        BY <2>0, <3>2 DEF SessionOf
      <4>2. <<m>> \in Seq(SignalKinds) /\ Len(<<m>>) <= 1
        OBVIOUS
      <4> QED
        BY <3>2, <4>1, <4>2, EntersKeeps
    <3> QED
      BY <2>2, <3>1, <3>2 DEF handleSignalPacket
  <2>3. CASE UNCHANGED sessionVars
    BY <2>3 DEF sessionVars, SessionsInv, TableFits, SignalsKept, TwinsRobbed, FlowIsHeard, Seated
  <2> QED
    BY <2>1, <2>2, <2>3, ProviderListensKeeps, FlowEndsKeeps DEF NextSessions
<1> QED
  BY <1>1, <1>2, SessionsTyped, PTL DEF SpecSessions

-----------------------------------------------------------------------------
(* The send queues of a link. *)

LEMMA LargestFrame == Max(Sizes) \in Sizes /\ \A n \in Sizes : n <= Max(Sizes) /\ n \in Nat
<1>1. Sizes \subseteq Nat /\ Sizes # {} /\ IsFiniteSet(Sizes)
  BY ChannelAssumption
<1>2. PICK m \in Sizes : \A n \in Sizes : n <= m
  BY <1>1, GreatestNatural
<1>3. \A n \in Sizes : m >= n
  BY <1>1, <1>2
<1>4. Max(Sizes) \in Sizes /\ \A n \in Sizes : Max(Sizes) >= n
  BY <1>2, <1>3 DEF Max
<1> QED
  BY <1>1, <1>4

\* The load after a frame is the load before it and the frame.
LEMMA LoadUnfolds ==
  ASSUME NEW c, Len(queues[c]) \in Nat
  PROVE  /\ Load(c)[0] = buffered[c]
         /\ \A i \in 1..Len(queues[c]) : Load(c)[i] = Load(c)[i - 1] + frames[queues[c][i]].size
<1> DEFINE n == Len(queues[c])
           size(i) == frames[queues[c][i]].size
           Solves(g, k) == g = [i \in 0..k |-> IF i = 0 THEN buffered[c] ELSE g[i - 1] + size(i)]
           Unsolved == {k \in 0..n : ~\E g : Solves(g, k)}
<1>1. Load(c) = CHOOSE g : Solves(g, n)
  BY DEF Load
<1>2. n \in Nat
  OBVIOUS
<1>0. \A i \in 1..n : size(i) = frames[queues[c][i]].size
  OBVIOUS
<1> HIDE DEF n, size
<1>3. Unsolved = {}
  <2> SUFFICES ASSUME Unsolved # {} PROVE FALSE
    OBVIOUS
  <2>1. PICK k \in Unsolved : \A m \in Unsolved : k <= m
    <3>1. Unsolved \subseteq Nat
      OBVIOUS
    <3> HIDE DEF Unsolved
    <3> QED
      BY <3>1, LeastNatural
  <2>2. k \in 0..n /\ ~\E g : Solves(g, k)
    BY <2>1
  <2>3. CASE k = 0
    <3> DEFINE g == [i \in 0..0 |-> buffered[c]]
    <3>1. g = [i \in 0..0 |-> IF i = 0 THEN buffered[c] ELSE g[i - 1] + size(i)]
      <4>1. \A i \in 0..0 : i = 0
        OBVIOUS
      <4> QED
        BY <4>1
    <3>2. Solves(g, k)
      BY <2>3, <3>1
    <3> QED
      BY <2>2, <3>2
  <2>4. CASE k # 0
    <3>1. k \in 1..n /\ k - 1 \in 0..n /\ ~(k <= k - 1)
      BY <1>2, <2>2, <2>4
    <3>2. k - 1 \notin Unsolved
      BY <2>1, <3>1
    <3>3. PICK g : Solves(g, k - 1)
      BY <3>1, <3>2
    <3> DEFINE h == [i \in 0..k |-> IF i = k THEN g[k - 1] + size(k) ELSE g[i]]
    <3>4. \A i \in 0..k : h[i] = IF i = k THEN g[k - 1] + size(k) ELSE g[i]
      OBVIOUS
    <3>5. \A i \in 0..(k - 1) : g[i] = IF i = 0 THEN buffered[c] ELSE g[i - 1] + size(i)
      BY <3>3
    <3>6. ASSUME NEW i \in 0..k
          PROVE  h[i] = IF i = 0 THEN buffered[c] ELSE h[i - 1] + size(i)
      <4>1. CASE i = k
        <5>1. k - 1 \in 0..k /\ k - 1 # k /\ k \in 0..k
          BY <2>2, <3>1
        <5>2. h[k] = g[k - 1] + size(k) /\ h[k - 1] = g[k - 1]
          BY <3>4, <5>1
        <5> HIDE DEF h
        <5> QED
          BY <2>4, <4>1, <5>2
      <4>2. CASE i # k
        <5>1. i \in 0..(k - 1) /\ (i # 0 => i - 1 \in 0..k /\ i - 1 # k)
          BY <2>2, <4>2
        <5>2. h[i] = g[i] /\ (i # 0 => h[i - 1] = g[i - 1])
          BY <3>4, <4>2, <5>1
        <5> HIDE DEF h
        <5> QED
          BY <3>5, <5>1, <5>2
      <4> QED
        BY <4>1, <4>2
    <3>7. h = [i \in 0..k |-> IF i = 0 THEN buffered[c] ELSE h[i - 1] + size(i)]
      <4> DEFINE u == [i \in 0..k |-> IF i = 0 THEN buffered[c] ELSE h[i - 1] + size(i)]
      <4>1. \A i \in 0..k : h[i] = u[i]
        BY <3>6
      <4>2. h = [i \in 0..k |-> h[i]] /\ u = [i \in 0..k |-> u[i]]
        OBVIOUS
      <4> HIDE DEF h, u
      <4>3. h = u
        BY <4>1, <4>2
      <4> QED
        BY <4>3 DEF u
    <3> QED
      BY <2>2, <3>7
  <2> QED
    BY <2>3, <2>4
<1>4. 0 \in 0..n /\ n \in 0..n
  BY <1>2
<1>5. Solves(Load(c), n)
  <2>1. \E g : Solves(g, n)
    BY <1>3, <1>4
  <2> QED
    BY <1>1, <2>1
<1>6. \A i \in 0..n : Load(c)[i] = IF i = 0 THEN buffered[c] ELSE Load(c)[i - 1] + size(i)
  <2> DEFINE load == Load(c)
  <2> HIDE DEF load
  <2>1. load = [i \in 0..n |-> IF i = 0 THEN buffered[c] ELSE load[i - 1] + size(i)]
    BY <1>5 DEF load
  <2>2. \A i \in 0..n : load[i] = IF i = 0 THEN buffered[c] ELSE load[i - 1] + size(i)
    BY <2>1
  <2> QED
    BY <2>2 DEF load
<1> QED
  BY <1>0, <1>2, <1>4, <1>6 DEF n

Frame == [channel : Channels, priority : Nat, size : Sizes]

\* Of two frames, the first goes out first: it came first, or is more urgent.
Before(fr, x, y) == x > y => fr[x].priority < fr[y].priority

ChannelInv ==
  /\ frames \in Seq(Frame)
  /\ queues \in [Channels -> Seq(1..Len(frames))] /\ sentFrames \in [Channels -> Seq(1..Len(frames))]
  /\ scheduled \in [Channels -> BOOLEAN] /\ open \in [Channels -> BOOLEAN] /\ lowDue \in [Channels -> BOOLEAN]
  /\ buffered \in [Channels -> 0..(HighWatermark + Max(Sizes))]
  /\ \A c \in Channels :
       /\ open[c] /\ queues[c] # <<>> => scheduled[c] \/ lowDue[c] \/ buffered[c] > LowThreshold
       /\ \A i, k \in 1..Len(sentFrames[c]) : i < k => Before(frames, sentFrames[c][i], sentFrames[c][k])
       /\ \A i \in 1..Len(sentFrames[c]), k \in 1..Len(queues[c]) : Before(frames, sentFrames[c][i], queues[c][k])
       /\ \A i, k \in 1..Len(queues[c]) : i < k => /\ Before(frames, queues[c][i], queues[c][k])
                                                 /\ frames[queues[c][i]].priority <= frames[queues[c][k]].priority

LEMMA Watermarks == HighWatermark \in Nat /\ LowThreshold \in Nat /\ LowThreshold <= HighWatermark /\ Max(Sizes) \in Nat
<1>1. LowThreshold \in Nat /\ HighOption \in Nat
  BY ChannelAssumption
<1>2. Max(Sizes) \in Nat
  BY LargestFrame
<1> QED
  BY <1>1, <1>2 DEF HighWatermark

\* A frame goes in behind those that are as urgent, and before the others.
LEMMA PlaceIs ==
  ASSUME NEW queue \in Seq(Nat), NEW f,
         \A i \in 1..Len(queue) : frames'[queue[i]].priority \in Nat, frames'[f].priority \in Nat,
         \A i, k \in 1..Len(queue) : i < k => frames'[queue[i]].priority <= frames'[queue[k]].priority
  PROVE  /\ Place(queue, f) \in 1..(Len(queue) + 1)
         /\ \A i \in 1..Len(queue) : /\ i < Place(queue, f) => frames'[queue[i]].priority <= frames'[f].priority
                                     /\ i >= Place(queue, f) => frames'[queue[i]].priority > frames'[f].priority
<1> DEFINE n == Len(queue)
           pr(i) == frames'[queue[i]].priority
           x == frames'[f].priority
           behind == {i \in 1..(n + 1) : i = n + 1 \/ pr(i) > x}
<1>1. n \in Nat /\ DOMAIN queue = 1..n
  OBVIOUS
<1>2. /\ \A i \in 1..n : pr(i) \in Nat
      /\ x \in Nat
      /\ \A i, k \in 1..n : i < k => pr(i) <= pr(k)
      /\ Place(queue, f) = Cardinality({i \in DOMAIN queue : pr(i) <= x}) + 1
  BY DEF Place
<1> HIDE DEF n, pr, x
<1>3. behind \subseteq Nat /\ n + 1 \in behind
  BY <1>1
<1>4. PICK p \in behind : \A i \in behind : p <= i
  <2> HIDE DEF behind
  <2> QED
    BY <1>3, LeastNatural
<1>5. p \in 1..(n + 1) /\ (p = n + 1 \/ pr(p) > x)
  BY <1>4
<1>6. ASSUME NEW i \in 1..n PROVE (i < p => pr(i) <= x) /\ (i >= p => pr(i) > x)
  <2>1. CASE i < p
    <3>1. i \notin behind /\ i \in 1..(n + 1)
      BY <1>1, <1>4, <1>5, <2>1
    <3>2. ~(pr(i) > x)
      BY <3>1
    <3> QED
      BY <1>1, <1>2, <1>5, <2>1, <3>2
  <2>2. CASE i >= p
    <3>1. p \in 1..n /\ pr(p) > x
      BY <1>1, <1>5, <2>2
    <3>2. pr(p) <= pr(i) \/ p = i
      BY <1>1, <1>2, <1>5, <2>2, <3>1
    <3> QED
      BY <1>1, <1>2, <1>5, <2>2, <3>1, <3>2
  <2> QED
    BY <1>1, <1>5, <2>1, <2>2
<1>7. {i \in DOMAIN queue : pr(i) <= x} = 1..(p - 1)
  <2>1. \A i \in 1..n : pr(i) <= x <=> i \in 1..(p - 1)
    BY <1>1, <1>2, <1>5, <1>6
  <2>2. \A i \in 1..(p - 1) : i \in 1..n
    BY <1>1, <1>5
  <2> QED
    BY <1>1, <2>1, <2>2
<1>8. Cardinality(1..(p - 1)) = p - 1
  <2>1. 1 \in Int /\ p - 1 \in Int /\ ((p - 1) - 1) + 1 = p - 1 /\ (1 > p - 1 => p - 1 = 0)
    BY <1>1, <1>5
  <2> QED
    BY <2>1, FS_Interval
<1>9. Place(queue, f) = p
  <2>1. Cardinality({i \in DOMAIN queue : pr(i) <= x}) = p - 1
    BY <1>7, <1>8
  <2>2. p \in Nat
    BY <1>1, <1>5
  <2> QED
    BY <1>2, <2>1, <2>2
<1> QED
  BY <1>5, <1>6, <1>9 DEF n, pr, x

Inserts(x, q, p, f) ==
  /\ Len(x) = Len(q) + 1
  /\ \A i \in 1..(Len(q) + 1) : x[i] = IF i < p THEN q[i] ELSE IF i = p THEN f ELSE q[i - 1]

LEMMA Inserted ==
  ASSUME NEW W, NEW q \in Seq(W), NEW p \in 1..(Len(q) + 1), NEW f \in W
  PROVE  InsertAt(q, p, f) \in Seq(W) /\ Inserts(InsertAt(q, p, f), q, p, f)
<1> DEFINE n == Len(q)
           a == SubSeq(q, 1, p - 1)
           b == SubSeq(q, p, n)
<1>0. n \in Nat /\ p \in Nat /\ 1 <= p /\ p <= n + 1
  OBVIOUS
<1>1. /\ a \in Seq(W) /\ Len(a) = p - 1 /\ \A i \in 1..(p - 1) : a[i] = q[i]
  <2>1. 1 \in Int /\ p - 1 \in Int /\ \A i \in 1..(p - 1) : q[i] \in W
    OBVIOUS
  <2>2. /\ a \in Seq(W) /\ Len(a) = (IF 1 <= p - 1 THEN (p - 1) - 1 + 1 ELSE 0)
        /\ \A i \in 1..((p - 1) - 1 + 1) : a[i] = q[1 + i - 1]
    BY <2>1, SubSeqProperties
  <2> HIDE DEF a, b, n
  <2>3. (p - 1) - 1 + 1 = p - 1 /\ (~(1 <= p - 1) => p - 1 = 0)
    BY <1>0
  <2> QED
    BY <2>2, <2>3
<1>2. /\ b \in Seq(W) /\ Len(b) = n - p + 1 /\ \A i \in 1..(n - p + 1) : b[i] = q[p + i - 1]
  <2>1. p \in Int /\ n \in Int /\ \A i \in p..n : q[i] \in W
    OBVIOUS
  <2>2. /\ b \in Seq(W) /\ Len(b) = (IF p <= n THEN n - p + 1 ELSE 0)
        /\ \A i \in 1..(n - p + 1) : b[i] = q[p + i - 1]
    BY <2>1, SubSeqProperties
  <2> HIDE DEF a, b, n
  <2>3. ~(p <= n) => n - p + 1 = 0
    BY <1>0
  <2> QED
    BY <2>2, <2>3
<1> DEFINE m == a \o <<f>>
           s == m \o b
<1>3. InsertAt(q, p, f) = s
  BY DEF InsertAt
<1> HIDE DEF a, b
<1>4. /\ m \in Seq(W) /\ Len(m) = p /\ m[p] = f /\ \A i \in 1..(p - 1) : m[i] = q[i]
  <2>1. <<f>> \in Seq(W) /\ Len(<<f>>) = 1 /\ <<f>>[1] = f
    OBVIOUS
  <2>2. /\ m \in Seq(W) /\ Len(m) = Len(a) + Len(<<f>>)
        /\ \A i \in 1..(Len(a) + Len(<<f>>)) : m[i] = IF i <= Len(a) THEN a[i] ELSE <<f>>[i - Len(a)]
    BY <1>1, <2>1, ConcatProperties
  <2> DEFINE o == <<f>>
  <2> HIDE DEF m, n, o
  <2>3. /\ m \in Seq(W) /\ Len(m) = Len(a) + Len(o) /\ Len(o) = 1 /\ o[1] = f
        /\ \A i \in 1..(Len(a) + Len(o)) : m[i] = IF i <= Len(a) THEN a[i] ELSE o[i - Len(a)]
    BY <2>1, <2>2 DEF o
  <2>4. Len(a) + Len(o) = p /\ p - Len(a) = 1 /\ p \in 1..p
    BY <1>0, <1>1, <2>3
  <2> QED
    BY <1>0, <1>1, <2>3, <2>4
<1> HIDE DEF m
<1>5. /\ s \in Seq(W) /\ Len(s) = Len(m) + Len(b)
      /\ \A i \in 1..(Len(m) + Len(b)) : s[i] = IF i <= Len(m) THEN m[i] ELSE b[i - Len(m)]
  BY <1>2, <1>4, ConcatProperties
<1> HIDE DEF s, n
<1>6. Len(s) = n + 1
  BY <1>0, <1>2, <1>4, <1>5
<1>7. ASSUME NEW i \in 1..(n + 1)
      PROVE  s[i] = IF i < p THEN q[i] ELSE IF i = p THEN f ELSE q[i - 1]
  <2>1. s[i] = IF i <= p THEN m[i] ELSE b[i - p]
    BY <1>0, <1>2, <1>4, <1>5, <1>7
  <2>2. CASE i < p
    BY <1>0, <1>4, <2>1, <2>2
  <2>3. CASE i = p
    BY <1>0, <1>4, <2>1, <2>3
  <2>4. CASE i > p
    <3>1. i - p \in 1..(n - p + 1) /\ p + (i - p) - 1 = i - 1 /\ ~(i <= p) /\ ~(i < p) /\ i # p
      BY <1>0, <2>4
    <3> QED
      BY <1>2, <2>1, <3>1
  <2> QED
    BY <1>0, <2>2, <2>3, <2>4
<1>8. Inserts(s, q, p, f)
  BY <1>6, <1>7 DEF n, Inserts
<1> QED
  BY <1>3, <1>5, <1>8

LEMMA enqueueKeeps ==
  ASSUME ChannelInv, NEW action \in Actions, NEW size \in Sizes, enqueue(action, size)
  PROVE  ChannelInv'
<1> DEFINE c == pickChannel(action, size)
           f == Len(frames) + 1
           e == [channel |-> c, priority |-> action.priority, size |-> size]
           q == queues[c]
           p == Place(q, f)
           s == InsertAt(q, p, f)
           N == 1..Len(frames)
<1>0. frames \in Seq(Frame) /\ Len(frames) \in Nat
  BY DEF ChannelInv
<1>1. c \in Channels
  BY DEF pickChannel, Channels
<1>2. e \in Frame
  <2>1. action.priority \in Nat
    BY ChannelAssumption
  <2> HIDE DEF c
  <2> QED
    BY <1>1, <2>1 DEF Frame
<1>3. frames' = Append(frames, e)
  BY DEF enqueue
<1> HIDE DEF e, c
<1>4. /\ frames' \in Seq(Frame) /\ Len(frames') = f /\ f \in Nat /\ N \subseteq 1..f
      /\ \A x \in N : frames'[x] = frames[x]
  BY <1>0, <1>2, <1>3
<1>5. \A x \in 1..f : frames'[x] \in Frame /\ frames'[x].priority \in Nat
  <2> HIDE DEF f
  <2>1. \A x \in 1..f : frames'[x] \in Frame
    BY <1>4, ElementOfSeq
  <2> QED
    BY <2>1 DEF Frame
<1>6. q \in Seq(N) /\ q \in Seq(Nat) /\ q \in Seq(1..f) /\ Len(q) \in Nat
  <2>1. q \in Seq(N) /\ N \subseteq Nat
    BY <1>1 DEF ChannelInv
  <2> HIDE DEF N, q, f
  <2>2. q \in Seq(Nat)
    BY <2>1, SeqMonotonic
  <2>3. q \in Seq(1..f)
    BY <1>4, <2>1, SeqMonotonic
  <2> QED
    BY <2>1, <2>2, <2>3
<1>7. \A i, k \in 1..Len(q) : i < k => /\ Before(frames, q[i], q[k])
                                     /\ frames[q[i]].priority <= frames[q[k]].priority
  BY <1>1 DEF ChannelInv
<1>8. \A i \in 1..Len(q) : q[i] \in N
  BY <1>6
<1> HIDE DEF N
<1>9. /\ p \in 1..(Len(q) + 1)
      /\ \A i \in 1..Len(q) : /\ i < p => frames'[q[i]].priority <= frames'[f].priority
                              /\ i >= p => frames'[q[i]].priority > frames'[f].priority
  <2> HIDE DEF q, f
  <2>1. \A i \in 1..Len(q) : frames'[q[i]].priority \in Nat
    BY <1>4, <1>5, <1>8
  <2>2. frames'[f].priority \in Nat
    <3>1. f \in 1..f
      BY <1>0 DEF f
    <3> QED
      BY <1>5, <3>1
  <2>3. \A i, k \in 1..Len(q) : i < k => frames'[q[i]].priority <= frames'[q[k]].priority
    BY <1>4, <1>7, <1>8
  <2> QED
    BY <1>6, <2>1, <2>2, <2>3, PlaceIs
<1>10. /\ queues' = [queues EXCEPT ![c] = s] /\ scheduled' = [scheduled EXCEPT ![c] = TRUE]
       /\ UNCHANGED <<open, buffered, lowDue, sentFrames>>
  BY DEF enqueue, c
<1> HIDE DEF p
<1>11. /\ s \in Seq(1..f) /\ Len(s) = Len(q) + 1
       /\ \A i \in 1..(Len(q) + 1) : s[i] = IF i < p THEN q[i] ELSE IF i = p THEN f ELSE q[i - 1]
  <2>1. f \in 1..f
    BY <1>0
  <2> DEFINE W == 1..f
  <2>2. q \in Seq(W) /\ f \in W
    BY <1>6, <2>1
  <2> HIDE DEF q, f, W, s
  <2>3. InsertAt(q, p, f) \in Seq(W) /\ Inserts(InsertAt(q, p, f), q, p, f)
    <3>1. p \in 1..(Len(q) + 1)
      BY <1>9
    <3> QED
      BY <2>2, <3>1, Inserted
  <2> QED
    BY <2>3 DEF s, W, Inserts
<1> HIDE DEF s
<1>12. /\ \A d \in Channels : d # c => queues'[d] = queues[d] /\ scheduled'[d] = scheduled[d]
       /\ queues'[c] = s /\ scheduled'[c] = TRUE
       /\ scheduled' \in [Channels -> BOOLEAN]
  BY <1>1, <1>10 DEF ChannelInv
<1>13. \A d \in Channels : queues[d] \in Seq(1..f) /\ sentFrames[d] \in Seq(1..f)
  <2> TAKE d \in Channels
  <2>1. queues[d] \in Seq(N) /\ sentFrames[d] \in Seq(N)
    BY DEF ChannelInv, N
  <2> HIDE DEF f
  <2> QED
    BY <1>4, <2>1, SeqMonotonic
<1>14. queues' \in [Channels -> Seq(1..Len(frames'))] /\ sentFrames' \in [Channels -> Seq(1..Len(frames'))]
  <2>1. queues \in [Channels -> Seq(1..f)] /\ sentFrames \in [Channels -> Seq(1..f)]
    <3>1. queues = [d \in Channels |-> queues[d]] /\ sentFrames = [d \in Channels |-> sentFrames[d]]
      BY DEF ChannelInv
    <3> HIDE DEF f
    <3> QED
      BY <1>13, <3>1
  <2> HIDE DEF f
  <2> QED
    BY <1>1, <1>4, <1>10, <1>11, <2>1
\* What was there before keeps its order.
<1>15. \A x, y \in N : Before(frames, x, y) => Before(frames', x, y)
  BY <1>4 DEF Before
<1>16. \A x \in N : x < f /\ ~(x > f) /\ Before(frames', x, f)
  BY <1>0 DEF Before, N
<1>17. ASSUME NEW i \in 1..Len(s), NEW k \in 1..Len(s), i < k
       PROVE  Before(frames', s[i], s[k]) /\ frames'[s[i]].priority <= frames'[s[k]].priority
  <2> HIDE DEF q, f
  <2>0. i \in Nat /\ k \in Nat /\ p \in Nat /\ i <= Len(q) + 1 /\ k <= Len(q) + 1 /\ 1 <= i
    BY <1>6, <1>9, <1>11
  <2> DEFINE a == IF i < p THEN i ELSE i - 1
             b == IF k < p THEN k ELSE k - 1
  <2>1. CASE i # p /\ k # p
    <3>1. s[i] = q[a] /\ s[k] = q[b] /\ a \in 1..Len(q) /\ b \in 1..Len(q) /\ a < b
      <4>1. s[i] = q[a] /\ s[k] = q[b]
        BY <1>11, <2>0, <2>1, <1>17
      <4>2. a \in 1..Len(q) /\ b \in 1..Len(q) /\ a < b
        BY <1>6, <1>9, <2>0, <2>1, <1>17
      <4> QED
        BY <4>1, <4>2
    <3> HIDE DEF a, b
    <3>2. q[a] \in N /\ q[b] \in N
      BY <1>8, <3>1
    <3>3. Before(frames, q[a], q[b]) /\ frames[q[a]].priority <= frames[q[b]].priority
      BY <1>7, <3>1
    <3>4. Before(frames', q[a], q[b])
      BY <1>15, <3>2, <3>3
    <3> QED
      BY <1>4, <3>1, <3>2, <3>3, <3>4 DEF Before
  <2>2. CASE k = p
    <3>1. i < p /\ i \in 1..Len(q)
      BY <1>6, <2>0, <1>17, <1>9, <2>2
    <3>2. s[i] = q[i] /\ s[k] = f
      BY <1>11, <2>0, <2>2, <3>1
    <3>3. frames'[q[i]].priority <= frames'[f].priority /\ q[i] \in N
      BY <1>8, <1>9, <3>1
    <3> QED
      BY <1>16, <3>2, <3>3 DEF Before
  <2>3. CASE i = p
    <3>1. ~(k < p) /\ k # p /\ k - 1 \in 1..Len(q) /\ k - 1 >= p
      BY <1>6, <2>0, <1>17, <1>9, <2>3
    <3>2. s[k] = q[k - 1] /\ s[i] = f
      BY <1>11, <2>0, <2>3, <3>1
    <3>3. frames'[q[k - 1]].priority > frames'[f].priority /\ q[k - 1] \in N
      BY <1>8, <1>9, <3>1
    <3>4. frames'[q[k - 1]].priority \in Nat /\ frames'[f].priority \in Nat
      <4>1. q[k - 1] \in 1..f
        BY <1>4, <3>3
      <4>2. f \in 1..f
        BY <1>0 DEF f
      <4> QED
        BY <1>5, <4>1, <4>2
    <3>5. frames'[f].priority < frames'[q[k - 1]].priority /\ frames'[f].priority <= frames'[q[k - 1]].priority
      BY <3>3, <3>4
    <3> QED
      BY <3>2, <3>5 DEF Before
  <2> QED
    BY <2>1, <2>2, <2>3
<1>18. \A k \in 1..Len(s) : s[k] \in N \/ s[k] = f
  <2> HIDE DEF q, f
  <2> TAKE k \in 1..Len(s)
  <2>0. k \in Nat /\ p \in Nat /\ k <= Len(q) + 1 /\ 1 <= k /\ k \in 1..(Len(q) + 1)
    BY <1>6, <1>9, <1>11
  <2>1. k < p => k \in 1..Len(q)
    BY <1>6, <1>9, <2>0
  <2>2. k > p => k - 1 \in 1..Len(q)
    BY <1>6, <1>9, <2>0
  <2>3. k < p \/ k = p \/ k > p
    BY <2>0
  <2>4. k > p => ~(k < p) /\ k # p
    BY <2>0
  <2> QED
    BY <1>8, <1>11, <2>0, <2>1, <2>2, <2>3, <2>4
<1>19. ASSUME NEW d \in Channels
       PROVE  /\ open'[d] /\ queues'[d] # <<>> => scheduled'[d] \/ lowDue'[d] \/ buffered'[d] > LowThreshold
              /\ \A i, k \in 1..Len(sentFrames'[d]) : i < k => Before(frames', sentFrames'[d][i], sentFrames'[d][k])
              /\ \A i \in 1..Len(sentFrames'[d]), k \in 1..Len(queues'[d]) : Before(frames', sentFrames'[d][i], queues'[d][k])
              /\ \A i, k \in 1..Len(queues'[d]) : i < k => /\ Before(frames', queues'[d][i], queues'[d][k])
                                                 /\ frames'[queues'[d][i]].priority <= frames'[queues'[d][k]].priority
  <2>0. /\ open[d] /\ queues[d] # <<>> => scheduled[d] \/ lowDue[d] \/ buffered[d] > LowThreshold
        /\ \A i, k \in 1..Len(sentFrames[d]) : i < k => Before(frames, sentFrames[d][i], sentFrames[d][k])
        /\ \A i \in 1..Len(sentFrames[d]), k \in 1..Len(queues[d]) : Before(frames, sentFrames[d][i], queues[d][k])
        /\ \A i, k \in 1..Len(queues[d]) : i < k => /\ Before(frames, queues[d][i], queues[d][k])
                                                 /\ frames[queues[d][i]].priority <= frames[queues[d][k]].priority
    BY DEF ChannelInv
  <2>1. /\ \A i \in 1..Len(sentFrames[d]) : sentFrames[d][i] \in N
        /\ \A i \in 1..Len(queues[d]) : queues[d][i] \in N
    BY DEF ChannelInv, N
  <2>2. sentFrames' = sentFrames /\ open' = open /\ lowDue' = lowDue /\ buffered' = buffered
    BY <1>10
  <2> HIDE DEF q, f
  <2>3. \A i, k \in 1..Len(sentFrames'[d]) : i < k => Before(frames', sentFrames'[d][i], sentFrames'[d][k])
    BY <1>15, <2>0, <2>1, <2>2 DEF Before
  <2>4. CASE d # c
    <3>1. queues'[d] = queues[d] /\ scheduled'[d] = scheduled[d]
      BY <1>12, <2>4
    <3>2. \A i \in 1..Len(sentFrames'[d]), k \in 1..Len(queues'[d]) : Before(frames', sentFrames'[d][i], queues'[d][k])
      BY <1>15, <2>0, <2>1, <2>2, <3>1 DEF Before
    <3>3. \A i, k \in 1..Len(queues'[d]) : i < k => Before(frames', queues'[d][i], queues'[d][k])
      BY <1>15, <2>0, <2>1, <2>2, <3>1 DEF Before
    <3>4. \A i, k \in 1..Len(queues'[d]) : i < k => frames'[queues'[d][i]].priority <= frames'[queues'[d][k]].priority
      BY <1>4, <2>0, <2>1, <3>1
    <3> QED
      BY <2>0, <2>2, <2>3, <3>1, <3>2, <3>3, <3>4
  <2>5. CASE d = c
    <3>1. queues'[d] = s /\ scheduled'[d] = TRUE /\ queues[d] = q
      BY <1>12, <2>5 DEF q
    <3>2. ASSUME NEW i \in 1..Len(sentFrames'[d]), NEW k \in 1..Len(queues'[d])
          PROVE  Before(frames', sentFrames'[d][i], queues'[d][k])
      <4>1. sentFrames[d][i] \in N
        BY <2>1, <2>2
      <4>2. CASE s[k] = f
        BY <1>16, <2>2, <3>1, <4>1, <4>2 DEF Before
      <4>3. CASE s[k] \in N
        <5>1. \E j \in 1..Len(q) : s[k] = q[j]
          <6>0. k \in Nat /\ p \in Nat /\ k <= Len(q) + 1 /\ 1 <= k /\ k \in 1..(Len(q) + 1)
            BY <1>6, <1>9, <1>11, <3>1
          <6>1. k = p => s[k] = f /\ f \notin N
            BY <1>11, <1>16, <6>0
          <6>2. CASE k < p
            BY <1>6, <1>9, <1>11, <6>0, <6>2
          <6>3. CASE k > p
            <7>1. k - 1 \in 1..Len(q) /\ ~(k < p) /\ k # p
              BY <1>6, <1>9, <6>0, <6>3
            <7> QED
              BY <1>11, <6>0, <7>1
          <6> QED
            BY <4>3, <6>0, <6>1, <6>2, <6>3
        <5>2. PICK j \in 1..Len(q) : s[k] = q[j]
          BY <5>1
        <5>3. Before(frames, sentFrames[d][i], q[j])
          BY <2>0, <2>2, <3>1
        <5>4. Before(frames, sentFrames[d][i], s[k])
          BY <5>2, <5>3
        <5> HIDE DEF Before
        <5>5. frames'[sentFrames[d][i]] = frames[sentFrames[d][i]] /\ frames'[s[k]] = frames[s[k]]
          BY <1>4, <4>1, <4>3
        <5> QED
          BY <2>2, <3>1, <5>4, <5>5 DEF Before
      <4> QED
        BY <1>18, <3>1, <4>2, <4>3
    <3>3. \A i, k \in 1..Len(queues'[d]) : i < k => /\ Before(frames', queues'[d][i], queues'[d][k])
                                                 /\ frames'[queues'[d][i]].priority <= frames'[queues'[d][k]].priority
      BY <1>17, <3>1 DEF Before
    <3> QED
      BY <2>3, <3>1, <3>2, <3>3
  <2> QED
    BY <2>4, <2>5
<1> QED
  BY <1>4, <1>10, <1>12, <1>14, <1>19 DEF ChannelInv

\* The sizes add up.
LEMMA LoadIsNat ==
  ASSUME ChannelInv, NEW c \in Channels
  PROVE  /\ \A i \in 0..Len(queues[c]) : Load(c)[i] \in Nat
         /\ Load(c)[0] = buffered[c]
         /\ \A i \in 1..Len(queues[c]) : Load(c)[i] <= Load(c)[i - 1] + Max(Sizes)
<1> DEFINE n == Len(queues[c])
           load == Load(c)
           m == Max(Sizes)
           Odd == {i \in 0..n : load[i] \notin Nat}
<1>0. n \in Nat /\ queues[c] \in Seq(1..Len(frames)) /\ buffered[c] \in Nat
  <2>1. HighWatermark \in Nat /\ Max(Sizes) \in Nat
    BY Watermarks
  <2> QED
    BY <2>1 DEF ChannelInv
<1>1. load[0] = buffered[c] /\ \A i \in 1..n : load[i] = load[i - 1] + frames[queues[c][i]].size
  BY <1>0, LoadUnfolds
<1>2. \A i \in 1..n : frames[queues[c][i]].size \in Nat /\ frames[queues[c][i]].size <= m
  <2> TAKE i \in 1..n
  <2>1. queues[c][i] \in 1..Len(frames)
    BY <1>0
  <2>2. frames[queues[c][i]] \in Frame
    BY <2>1 DEF ChannelInv
  <2> QED
    BY <2>2, LargestFrame DEF Frame
<1> HIDE DEF n, load, m
<1>3. Odd = {}
  <2> SUFFICES ASSUME Odd # {} PROVE FALSE
    OBVIOUS
  <2>1. Odd \subseteq Nat
    BY <1>0
  <2>2. PICK i \in Odd : \A j \in Odd : i <= j
    <3> HIDE DEF Odd
    <3> QED
      BY <2>1, LeastNatural
  <2>3. i \in 0..n /\ load[i] \notin Nat
    BY <2>2
  <2>4. i # 0
    BY <1>0, <1>1, <2>3
  <2>5. i \in 1..n /\ i - 1 \in 0..n /\ ~(i <= i - 1)
    BY <1>0, <2>3, <2>4
  <2>6. load[i - 1] \in Nat
    BY <2>2, <2>5
  <2> QED
    BY <1>1, <1>2, <2>3, <2>5, <2>6
<1>4. \A i \in 0..n : load[i] \in Nat
  BY <1>3
<1>5. \A i \in 1..n : load[i] <= load[i - 1] + m
  <2> TAKE i \in 1..n
  <2>1. i - 1 \in 0..n
    BY <1>0
  <2>2. load[i - 1] \in Nat /\ m \in Nat
    BY <1>4, <2>1, Watermarks DEF m
  <2> QED
    BY <1>1, <1>2, <2>2
<1> QED
  BY <1>1, <1>4, <1>5 DEF n, load, m

\* A flush of an open channel sends a part of the queue, and leaves something only over the mark.
LEMMA FlushIs ==
  ASSUME ChannelInv, NEW c \in Channels, NEW n \in Sendable(c), \A k \in Sendable(c) : k <= n
  PROVE  /\ n \in 0..Len(queues[c]) /\ Load(c)[n] \in 0..(HighWatermark + Max(Sizes))
         /\ n = Len(queues[c]) \/ Load(c)[n] > LowThreshold
<1>0. /\ n \in 0..Len(queues[c]) /\ \A k \in 0..(n - 1) : Load(c)[k] <= HighWatermark
      /\ Len(queues[c]) \in Nat
  BY DEF Sendable, ChannelInv
<1>1. /\ \A i \in 0..Len(queues[c]) : Load(c)[i] \in Nat
      /\ Load(c)[0] = buffered[c]
      /\ \A i \in 1..Len(queues[c]) : Load(c)[i] <= Load(c)[i - 1] + Max(Sizes)
  BY LoadIsNat
<1>2. HighWatermark \in Nat /\ LowThreshold \in Nat /\ LowThreshold <= HighWatermark /\ Max(Sizes) \in Nat
  BY Watermarks
<1>3. Load(c)[n] \in 0..(HighWatermark + Max(Sizes))
  <2>1. CASE n = 0
    BY <1>1, <2>1 DEF ChannelInv
  <2>2. CASE n # 0
    <3>1. n \in 1..Len(queues[c]) /\ n - 1 \in 0..(n - 1) /\ n - 1 \in 0..Len(queues[c])
      BY <1>0, <2>2
    <3>2. Load(c)[n - 1] <= HighWatermark /\ Load(c)[n - 1] \in Nat /\ Load(c)[n] \in Nat
          /\ Load(c)[n] <= Load(c)[n - 1] + Max(Sizes)
      BY <1>0, <1>1, <3>1
    <3> QED
      BY <1>2, <3>2
  <2> QED
    BY <2>1, <2>2
<1>4. ASSUME n # Len(queues[c]) PROVE Load(c)[n] > LowThreshold
  <2>1. n + 1 \in 0..Len(queues[c]) /\ ~(n + 1 <= n) /\ \A k \in 0..((n + 1) - 1) : k = n \/ k \in 0..(n - 1)
    BY <1>0, <1>4
  <2>2. n + 1 \notin Sendable(c)
    BY <2>1
  <2>3. PICK k \in 0..((n + 1) - 1) : ~(Load(c)[k] <= HighWatermark)
    BY <2>1, <2>2 DEF Sendable
  <2>4. ~(Load(c)[n] <= HighWatermark)
    BY <1>0, <2>1, <2>3
  <2> QED
    BY <1>0, <1>1, <1>2, <2>4
<1> QED
  BY <1>0, <1>3, <1>4

\* A part of a queue is sent.
LEMMA PartSent ==
  ASSUME NEW W, NEW q \in Seq(W), NEW s \in Seq(W), NEW n \in 0..Len(q)
  PROVE  LET a == s \o SubSeq(q, 1, n)
             b == SubSeq(q, n + 1, Len(q))
         IN  /\ a \in Seq(W) /\ Len(a) = Len(s) + n
             /\ \A i \in 1..(Len(s) + n) : a[i] = IF i <= Len(s) THEN s[i] ELSE q[i - Len(s)]
             /\ b \in Seq(W) /\ Len(b) = Len(q) - n
             /\ \A i \in 1..(Len(q) - n) : b[i] = q[n + i]
<1> DEFINE l == Len(q)
           p == SubSeq(q, 1, n)
           b == SubSeq(q, n + 1, l)
<1>0. l \in Nat /\ n \in Nat /\ n <= l /\ Len(s) \in Nat
  OBVIOUS
<1>1. p \in Seq(W) /\ Len(p) = n /\ \A i \in 1..n : p[i] = q[i]
  <2>1. 1 \in Int /\ n \in Int /\ \A i \in 1..n : q[i] \in W
    OBVIOUS
  <2>2. /\ p \in Seq(W) /\ Len(p) = (IF 1 <= n THEN n - 1 + 1 ELSE 0)
        /\ \A i \in 1..(n - 1 + 1) : p[i] = q[1 + i - 1]
    BY <2>1, SubSeqProperties
  <2> HIDE DEF p, l
  <2>3. n - 1 + 1 = n /\ (~(1 <= n) => n = 0)
    BY <1>0
  <2> QED
    BY <2>2, <2>3
<1>2. b \in Seq(W) /\ Len(b) = l - n /\ \A i \in 1..(l - n) : b[i] = q[n + i]
  <2>1. n + 1 \in Int /\ l \in Int /\ \A i \in (n + 1)..l : q[i] \in W
    OBVIOUS
  <2>2. /\ b \in Seq(W) /\ Len(b) = (IF n + 1 <= l THEN l - (n + 1) + 1 ELSE 0)
        /\ \A i \in 1..(l - (n + 1) + 1) : b[i] = q[(n + 1) + i - 1]
    BY <2>1, SubSeqProperties
  <2> HIDE DEF b, l
  <2>3. l - (n + 1) + 1 = l - n /\ (~(n + 1 <= l) => l - n = 0) /\ \A i \in 1..(l - n) : (n + 1) + i - 1 = n + i
    BY <1>0
  <2> QED
    BY <2>2, <2>3
<1> HIDE DEF p
<1> DEFINE a == s \o p
<1>3. /\ a \in Seq(W) /\ Len(a) = Len(s) + Len(p)
      /\ \A i \in 1..(Len(s) + Len(p)) : a[i] = IF i <= Len(s) THEN s[i] ELSE p[i - Len(s)]
  BY <1>1, ConcatProperties
<1> HIDE DEF a
<1>4. \A i \in 1..(Len(s) + n) : a[i] = IF i <= Len(s) THEN s[i] ELSE q[i - Len(s)]
  <2> TAKE i \in 1..(Len(s) + n)
  <2>1. ~(i <= Len(s)) => i - Len(s) \in 1..n
    BY <1>0
  <2> QED
    BY <1>1, <1>3, <2>1
<1> QED
  BY <1>1, <1>2, <1>3, <1>4 DEF a, p

LEMMA flushKeeps == ASSUME ChannelInv, NEW c \in Channels, flush(c) PROVE ChannelInv'
<1> DEFINE N == 1..Len(frames)
<1>0. /\ queues \in [Channels -> Seq(N)] /\ sentFrames \in [Channels -> Seq(N)]
      /\ scheduled' \in [Channels -> BOOLEAN] /\ UNCHANGED <<open, lowDue, frames>>
      /\ \A d \in Channels : d # c => scheduled'[d] = scheduled[d]
  BY DEF ChannelInv, flush
<1>1. CASE ~open[c]
  <2>1. UNCHANGED <<buffered, sentFrames, queues>>
    BY <1>1 DEF flush
  <2>2. \A d \in Channels : open'[d] => scheduled'[d] = scheduled[d]
    BY <1>0, <1>1
  <2> QED
    BY <1>0, <2>1, <2>2 DEF ChannelInv
<1>2. CASE open[c]
  <2>1. PICK n \in Sendable(c) :
          /\ \A k \in Sendable(c) : k <= n
          /\ buffered' = [buffered EXCEPT ![c] = Load(c)[n]]
          /\ sentFrames' = [sentFrames EXCEPT ![c] = sentFrames[c] \o SubSeq(queues[c], 1, n)]
          /\ queues' = [queues EXCEPT ![c] = SubSeq(queues[c], n + 1, Len(queues[c]))]
    BY <1>2 DEF flush
  <2>2. /\ n \in 0..Len(queues[c]) /\ Load(c)[n] \in 0..(HighWatermark + Max(Sizes))
        /\ n = Len(queues[c]) \/ Load(c)[n] > LowThreshold
    BY <2>1, FlushIs
  <2> DEFINE q == queues[c]
             s == sentFrames[c]
             a == s \o SubSeq(q, 1, n)
             b == SubSeq(q, n + 1, Len(q))
  <2>3. q \in Seq(N) /\ s \in Seq(N) /\ Len(q) \in Nat /\ Len(s) \in Nat /\ n \in Nat /\ n <= Len(q)
    BY <1>0, <2>2
  <2>4. /\ a \in Seq(N) /\ Len(a) = Len(s) + n
        /\ \A i \in 1..(Len(s) + n) : a[i] = IF i <= Len(s) THEN s[i] ELSE q[i - Len(s)]
        /\ b \in Seq(N) /\ Len(b) = Len(q) - n
        /\ \A i \in 1..(Len(q) - n) : b[i] = q[n + i]
    <3>1. n \in 0..Len(q)
      BY <2>2
    <3> HIDE DEF N, q, s
    <3> QED
      BY <2>3, <3>1, PartSent
  <2>5. /\ buffered' = [buffered EXCEPT ![c] = Load(c)[n]] /\ sentFrames' = [sentFrames EXCEPT ![c] = a]
        /\ queues' = [queues EXCEPT ![c] = b]
    BY <2>1
  <2>6. /\ \A i, k \in 1..Len(s) : i < k => Before(frames, s[i], s[k])
        /\ \A i \in 1..Len(s), k \in 1..Len(q) : Before(frames, s[i], q[k])
        /\ \A i, k \in 1..Len(q) : i < k => /\ Before(frames, q[i], q[k])
                                            /\ frames[q[i]].priority <= frames[q[k]].priority
    BY DEF ChannelInv
  <2> HIDE DEF q, s, a, b, N
  <2>7. /\ queues' \in [Channels -> Seq(N)] /\ sentFrames' \in [Channels -> Seq(N)]
        /\ buffered' \in [Channels -> 0..(HighWatermark + Max(Sizes))]
    BY <1>0, <2>2, <2>4, <2>5 DEF ChannelInv
  <2>8. /\ \A d \in Channels : d # c => /\ queues'[d] = queues[d] /\ sentFrames'[d] = sentFrames[d]
                                        /\ buffered'[d] = buffered[d]
        /\ queues'[c] = b /\ sentFrames'[c] = a /\ buffered'[c] = Load(c)[n]
    BY <1>0, <2>5 DEF ChannelInv
  <2>9. \A i \in 1..Len(a) : \/ i \in 1..Len(s) /\ a[i] = s[i]
                             \/ i > Len(s) /\ i - Len(s) \in 1..n /\ a[i] = q[i - Len(s)]
    <3> TAKE i \in 1..Len(a)
    <3>1. i \in 1..(Len(s) + n) /\ a[i] = IF i <= Len(s) THEN s[i] ELSE q[i - Len(s)]
      BY <2>4
    <3>2. CASE i <= Len(s)
      BY <2>3, <3>1, <3>2
    <3>3. CASE ~(i <= Len(s))
      BY <2>3, <3>1, <3>3
    <3> QED
      BY <3>2, <3>3
  <2>10. \A k \in 1..Len(b) : n + k \in 1..Len(q) /\ b[k] = q[n + k]
    <3> TAKE k \in 1..Len(b)
    <3>1. k \in 1..(Len(q) - n)
      BY <2>4
    <3>2. b[k] = q[n + k]
      BY <2>4, <3>1
    <3>3. Len(q) \in Nat /\ n \in Nat
      BY <2>3
    <3>4. n + k \in 1..Len(q)
      BY <3>1, <3>3
    <3> QED
      BY <3>2, <3>4
  <2>11. \A j \in 1..n : j \in 1..Len(q)
    BY <2>3
  <2>12. ASSUME NEW i \in 1..Len(a), NEW k \in 1..Len(a), i < k PROVE Before(frames, a[i], a[k])
    <3>1. CASE k \in 1..Len(s) /\ a[k] = s[k]
      <4>1. i \in 1..Len(s) /\ a[i] = s[i]
        BY <2>3, <2>4, <2>9, <2>12, <3>1
      <4> QED
        BY <2>6, <2>12, <3>1, <4>1
    <3>2. CASE k > Len(s) /\ k - Len(s) \in 1..n /\ a[k] = q[k - Len(s)]
      <4>1. CASE i \in 1..Len(s) /\ a[i] = s[i]
        BY <2>6, <2>11, <3>2, <4>1
      <4>2. CASE i > Len(s) /\ i - Len(s) \in 1..n /\ a[i] = q[i - Len(s)]
        <5>1. i - Len(s) < k - Len(s)
          BY <2>3, <2>4, <2>12
        <5> QED
          BY <2>6, <2>11, <3>2, <4>2, <5>1
      <4> QED
        BY <2>9, <4>1, <4>2
    <3> QED
      BY <2>9, <3>1, <3>2
  <2>13. ASSUME NEW i \in 1..Len(a), NEW k \in 1..Len(b) PROVE Before(frames, a[i], b[k])
    <3>1. CASE i \in 1..Len(s) /\ a[i] = s[i]
      BY <2>6, <2>10, <3>1
    <3>2. CASE i > Len(s) /\ i - Len(s) \in 1..n /\ a[i] = q[i - Len(s)]
      <4>1. i - Len(s) < n + k
        BY <2>3, <2>4, <3>2
      <4> QED
        BY <2>6, <2>10, <2>11, <3>2, <4>1
    <3> QED
      BY <2>9, <3>1, <3>2
  <2>14. ASSUME NEW i \in 1..Len(b), NEW k \in 1..Len(b), i < k
         PROVE  Before(frames, b[i], b[k]) /\ frames[b[i]].priority <= frames[b[k]].priority
    <3>1. n + i < n + k
      BY <2>3, <2>4, <2>14
    <3> QED
      BY <2>6, <2>10, <3>1
  <2>15. b = <<>> \/ Load(c)[n] > LowThreshold
    <3>1. CASE n = Len(queues[c])
      <4>1. Len(b) = 0
        BY <2>3, <2>4, <3>1 DEF q
      <4> QED
        BY <2>4, <4>1, EmptySeq
    <3> QED
      BY <2>2, <3>1
  <2>16. ASSUME NEW d \in Channels
         PROVE  /\ open'[d] /\ queues'[d] # <<>> => scheduled'[d] \/ lowDue'[d] \/ buffered'[d] > LowThreshold
                /\ \A i, k \in 1..Len(sentFrames'[d]) : i < k => Before(frames', sentFrames'[d][i], sentFrames'[d][k])
                /\ \A i \in 1..Len(sentFrames'[d]), k \in 1..Len(queues'[d]) : Before(frames', sentFrames'[d][i], queues'[d][k])
                /\ \A i, k \in 1..Len(queues'[d]) : i < k => /\ Before(frames', queues'[d][i], queues'[d][k])
                                                   /\ frames'[queues'[d][i]].priority <= frames'[queues'[d][k]].priority
    <3>1. CASE d = c
      <4>1. queues'[d] = b /\ sentFrames'[d] = a /\ frames' = frames /\ buffered'[d] = Load(c)[n]
        BY <1>0, <2>8, <3>1
      <4> QED
        BY <2>12, <2>13, <2>14, <2>15, <4>1
    <3>2. CASE d # c
      <4>1. /\ queues'[d] = queues[d] /\ sentFrames'[d] = sentFrames[d] /\ buffered'[d] = buffered[d]
            /\ frames' = frames /\ open'[d] = open[d] /\ lowDue'[d] = lowDue[d] /\ scheduled'[d] = scheduled[d]
        BY <1>0, <2>8, <3>2
      <4> QED
        BY <4>1 DEF ChannelInv
    <3> QED
      BY <3>1, <3>2
  <2> QED
    BY <1>0, <2>7, <2>16 DEF ChannelInv, N
<1> QED
  BY <1>1, <1>2

LEMMA ChannelsInit == InitChannels => ChannelInv
<1> SUFFICES ASSUME InitChannels PROVE ChannelInv
  OBVIOUS
<1>1. HighWatermark \in Nat /\ Max(Sizes) \in Nat
  BY Watermarks
<1>2. 0 \in 0..(HighWatermark + Max(Sizes))
  BY <1>1
<1>3. <<>> \in Seq(Frame) /\ <<>> \in Seq(1..Len(<<>>)) /\ Len(<<>>) = 0
  OBVIOUS
<1>4. /\ frames \in Seq(Frame)
      /\ queues \in [Channels -> Seq(1..Len(frames))] /\ sentFrames \in [Channels -> Seq(1..Len(frames))]
  BY <1>3 DEF InitChannels
<1>5. scheduled \in [Channels -> BOOLEAN] /\ open \in [Channels -> BOOLEAN] /\ lowDue \in [Channels -> BOOLEAN]
  BY DEF InitChannels
<1>6. buffered \in [Channels -> 0..(HighWatermark + Max(Sizes))]
  BY <1>2 DEF InitChannels
<1>7. \A c \in Channels : queues[c] = <<>> /\ sentFrames[c] = <<>> /\ Len(sentFrames[c]) = 0 /\ Len(queues[c]) = 0
  BY <1>3 DEF InitChannels
<1> QED
  BY <1>4, <1>5, <1>6, <1>7 DEF ChannelInv

LEMMA ChannelsTyped == ChannelInv => ChannelsTypeOK /\ QueuesNeverStall
<1> SUFFICES ASSUME ChannelInv PROVE ChannelsTypeOK /\ QueuesNeverStall
  OBVIOUS
<1>1. DOMAIN frames = 1..Len(frames)
  BY DEF ChannelInv
<1>2. \A c \in Channels : DOMAIN queues[c] = 1..Len(queues[c]) /\ DOMAIN sentFrames[c] = 1..Len(sentFrames[c])
  BY DEF ChannelInv
<1>3. ChannelsTypeOK
  BY <1>1 DEF ChannelInv, ChannelsTypeOK
<1>4. QueuesNeverStall
  BY <1>2 DEF ChannelInv, QueuesNeverStall, Before
<1> QED
  BY <1>3, <1>4

\* A channel drains by one.
LEMMA DrainsKeeps == ASSUME ChannelInv, NEW c \in Channels, Drains(c) PROVE ChannelInv'
<1>0. /\ buffered[c] \in 0..(HighWatermark + Max(Sizes)) /\ buffered[c] > 0
      /\ LowThreshold \in Nat /\ HighWatermark \in Nat /\ Max(Sizes) \in Nat
  BY Watermarks DEF ChannelInv, Drains
<1>1. buffered[c] - 1 \in 0..(HighWatermark + Max(Sizes))
  BY <1>0
<1>2. /\ buffered' \in [Channels -> 0..(HighWatermark + Max(Sizes))] /\ buffered'[c] = buffered[c] - 1
      /\ \A d \in Channels : d # c => buffered'[d] = buffered[d]
  BY <1>1 DEF ChannelInv, Drains
<1>3. lowDue'[c] = (lowDue[c] \/ buffered[c] = LowThreshold + 1)
      /\ \A d \in Channels : d # c => lowDue'[d] = lowDue[d]
  BY DEF ChannelInv, Drains
<1>4. lowDue' \in [Channels -> BOOLEAN]
  <2>1. (lowDue[c] \/ buffered[c] = LowThreshold + 1) \in BOOLEAN
    OBVIOUS
  <2> QED
    BY <2>1 DEF ChannelInv, Drains
<1>5. buffered[c] > LowThreshold => buffered'[c] > LowThreshold \/ lowDue'[c]
  <2>1. buffered[c] = LowThreshold + 1 => lowDue'[c]
    BY <1>3, Zenon
  <2>2. buffered[c] > LowThreshold /\ buffered[c] # LowThreshold + 1 => buffered'[c] > LowThreshold
    BY <1>0, <1>2
  <2> QED
    BY <2>1, <2>2
<1>6. lowDue[c] => lowDue'[c]
  BY <1>3
<1>7. UNCHANGED <<queues, scheduled, open, frames, sentFrames>>
  BY DEF Drains
<1>8. ASSUME NEW d \in Channels
      PROVE  open'[d] /\ queues'[d] # <<>> => scheduled'[d] \/ lowDue'[d] \/ buffered'[d] > LowThreshold
  <2>1. open[d] /\ queues[d] # <<>> => scheduled[d] \/ lowDue[d] \/ buffered[d] > LowThreshold
    BY DEF ChannelInv
  <2>2. CASE d = c
    BY <1>5, <1>6, <1>7, <2>1, <2>2
  <2>3. CASE d # c
    BY <1>2, <1>3, <1>7, <2>1, <2>3
  <2> QED
    BY <2>2, <2>3
<1> QED
  BY <1>2, <1>4, <1>7, <1>8 DEF ChannelInv

\* A queue never waits for an event that does not come, and a frame for a less urgent one.
LEMMA ChannelsSound == SpecChannels => [](ChannelsTypeOK /\ QueuesNeverStall)
<1>1. InitChannels => ChannelInv
  BY ChannelsInit
<1>2. ChannelInv /\ [NextChannels]_channelVars => ChannelInv'
  <2> SUFFICES ASSUME ChannelInv, [NextChannels]_channelVars PROVE ChannelInv'
    OBVIOUS
  <2>1. ASSUME NEW c \in Channels, onBufferedAmountLow(c) PROVE ChannelInv'
    <3>1. /\ scheduled' \in [Channels -> BOOLEAN] /\ lowDue' \in [Channels -> BOOLEAN]
          /\ scheduled'[c] = TRUE
          /\ \A d \in Channels : d # c => scheduled'[d] = scheduled[d] /\ lowDue'[d] = lowDue[d]
          /\ UNCHANGED <<queues, open, buffered, frames, sentFrames>>
      BY <2>1 DEF ChannelInv, onBufferedAmountLow
    <3> QED
      BY <3>1 DEF ChannelInv
  <2>2. ASSUME NEW c \in Channels, ChannelFails(c) PROVE ChannelInv'
    <3>1. /\ open' \in [Channels -> BOOLEAN] /\ \A d \in Channels : open'[d] => open[d]
          /\ UNCHANGED <<queues, scheduled, buffered, lowDue, frames, sentFrames>>
      BY <2>2 DEF ChannelInv, ChannelFails
    <3> QED
      BY <3>1 DEF ChannelInv
  <2>3. CASE ClearQueues
    <3>1. /\ open' \in [Channels -> BOOLEAN] /\ \A c \in Channels : ~open'[c]
          /\ UNCHANGED <<scheduled, buffered, lowDue, frames, sentFrames>>
      BY <2>3 DEF ClearQueues
    <3>2. queues' \in [Channels -> Seq(1..Len(frames))] /\ \A c \in Channels : Len(queues'[c]) = 0
      BY <2>3 DEF ClearQueues
    <3> QED
      BY <3>1, <3>2 DEF ChannelInv
  <2>4. CASE UNCHANGED channelVars
    BY <2>4 DEF channelVars, ChannelInv
  <2> QED
    BY <2>1, <2>2, <2>3, <2>4, enqueueKeeps, flushKeeps, DrainsKeeps DEF NextChannels
<1> QED
  BY <1>1, <1>2, ChannelsTyped, PTL DEF SpecChannels

-----------------------------------------------------------------------------
(* The two ends of a WebRTC link while it is set up. *)

PeerConnection ==
  [own : RtcEnds, open : BOOLEAN, attached : BOOLEAN, remote : 0..MaxConns, local : BOOLEAN]

EndRecord ==
  [main : {"new", "build", "offer", "gather", "returned", "threw"}, prev : Nat, conn : Nat, rung : Nat,
   pipe : {"open", "closed"}, ready : BOOLEAN, shaking : BOOLEAN]

RtcSignal == [type : {"offer", "answer"}, conn : Nat, rung : Nat, to : Nat]

HandlerRecord ==
  [at : {"idle", "load", "handle", "rebuild", "apply", "answer", "gather", "send", "done"},
   msg : RtcSignal \cup {<<>>}, prev : Nat, conn : Nat, tries : Nat]

RtcShape ==
  /\ conns \in Seq(PeerConnection) /\ Len(conns) <= MaxConns
  /\ rtc \in [RtcEnds -> EndRecord]
  /\ signals \in [RtcEnds -> [Copies -> HandlerRecord]]
  /\ seenSig \in [RtcEnds -> SUBSET RtcSignal]
  /\ air \subseteq aired /\ aired \subseteq RtcSignal
  /\ rtcFaults \in 0..MaxSignalFaults

\* An end's connection is its own, and made before there is an offer.
EndFits(e) ==
  /\ rtc[e].conn \in 0..Len(conns) /\ rtc[e].prev \in 0..Len(conns) /\ rtc[e].rung \in 0..LadderTop[e]
  /\ rtc[e].conn # NoConn => conns[rtc[e].conn].own = e
  /\ e = Caller /\ rtc[e].main \in {"offer", "gather", "returned"} => rtc[e].conn # NoConn
  /\ e = Callee => rtc[e].main \in {"new", "build", "returned"}

\* A handler has a signal that was sent, and only the callee's builds and answers.
HandlerFits(e, k) ==
  /\ signals[e][k].at # "idle" => /\ signals[e][k].msg \in aired /\ signals[e][k].msg.type = For(e)
                                  /\ rtc[e].main # "new"
  /\ signals[e][k].at \notin {"idle", "load", "done"} => rtc[e].conn # NoConn
  /\ signals[e][k].at \in {"load", "rebuild", "answer", "gather", "send"} => e = Callee
  /\ signals[e][k].prev \in 0..Len(conns)

Working(k) == signals[Callee][k].at \in {"rebuild", "apply", "answer", "gather", "send"}

\* One handler at a time deals with the offer, and nobody else builds then.
WorkingFits(k) ==
  Working(k) =>
    /\ signals[Callee][k].msg \in seenSig[Callee]
    /\ rtc[Callee].main = "returned"
    /\ \A j \in Copies : signals[Callee][j].at # "load" /\ (j # k => ~Working(j))
    /\ signals[Callee][k].at \in {"answer", "gather", "send"} =>
         conns[rtc[Callee].conn].remote = signals[Callee][k].msg.conn

\* There is one offer, of the caller's connection, which stays.
OffersFit ==
  \A m \in aired : m.type = "offer" =>
    rtc[Caller].main = "returned" /\ m = SignalOf("offer", rtc[Caller].conn, rtc[Caller].rung, NoConn)

\* An answer is of a connection of the callee that has the offer.
AnswersFit ==
  \A m \in aired : m.type = "answer" =>
    /\ SignalOf("offer", m.to, m.rung, NoConn) \in aired
    /\ m.conn \in 1..Len(conns) /\ conns[m.conn].own = Callee /\ conns[m.conn].remote = m.to

\* The caller has the description of an answer to that connection.
CallerFits ==
  \A p \in 1..Len(conns) : conns[p].own = Caller /\ conns[p].remote # NoConn =>
    \E m \in aired : m.type = "answer" /\ m.conn = conns[p].remote /\ m.to = p

NoneStrays ==
  \A p \in 1..Len(conns) : p \notin strays /\ conns[p].open =>
    p = rtc[conns[p].own].conn /\ rtc[conns[p].own].pipe = "open"

\* An attached connection of an open pipe is open, and current if it has a description.
SpareFits(p) ==
  conns[p].attached /\ rtc[conns[p].own].pipe = "open" =>
    conns[p].open /\ (p = rtc[conns[p].own].conn \/ conns[p].remote = NoConn)

\* Whoever builds over a connection that has a description replaces that one.
SparesFit ==
  /\ \A p \in 1..Len(conns) : SpareFits(p)
  /\ rtc[Caller].main \in {"new", "build"} => rtc[Caller].prev = rtc[Caller].conn
  /\ rtc[Callee].conn # NoConn /\ conns[rtc[Callee].conn].remote # NoConn =>
       rtc[Callee].main = "returned" /\ \A k \in Copies : signals[Callee][k].at # "load"
  /\ \A k \in Copies : signals[Callee][k].at = "rebuild" => signals[Callee][k].prev = rtc[Callee].conn

RtcInv ==
  /\ RtcShape /\ OffersFit /\ AnswersFit /\ CallerFits /\ NoneStrays /\ SparesFit
  /\ \A e \in RtcEnds : EndFits(e)
  /\ \A e \in RtcEnds, k \in Copies : HandlerFits(e, k)
  /\ \A k \in Copies : WorkingFits(k)

LEMMA RtcInitial == InitRtc => RtcInv
<1> SUFFICES ASSUME InitRtc PROVE RtcInv
  OBVIOUS
<1>0. MaxConns \in Nat /\ MaxSignalFaults \in Nat /\ \A e \in RtcEnds : LadderTop[e] \in Nat
  BY RtcAssumption DEF RtcEnds
<1>1. conns = <<>> /\ Len(conns) = 0 /\ conns \in Seq(PeerConnection) /\ aired = {}
  BY DEF InitRtc
<1>2. \A e \in RtcEnds : rtc[e].main = "new" /\ rtc[e].conn = 0 /\ rtc[e].prev = 0 /\ rtc[e].rung = 0
  BY DEF InitRtc, NoConn
<1>3. rtc \in [RtcEnds -> EndRecord]
  BY DEF InitRtc, EndRecord, NoConn
<1>4. Idle \in HandlerRecord /\ Idle.at = "idle" /\ Idle.prev = 0
  BY DEF Idle, HandlerRecord, NoConn
<1>5. signals \in [RtcEnds -> [Copies -> HandlerRecord]] /\ \A e \in RtcEnds, k \in Copies : signals[e][k] = Idle
  BY <1>4 DEF InitRtc
<1>6. RtcShape
  <2>1. seenSig \in [RtcEnds -> SUBSET RtcSignal]
    BY DEF InitRtc
  <2>2. air \subseteq aired /\ aired \subseteq RtcSignal /\ rtcFaults \in 0..MaxSignalFaults
    BY <1>0 DEF InitRtc
  <2>3. Len(conns) <= MaxConns
    BY <1>0, <1>1
  <2> QED
    BY <1>1, <1>3, <1>5, <2>1, <2>2, <2>3 DEF RtcShape
<1>7. Callee \in RtcEnds
  BY DEF RtcEnds
<1>8. \A e \in RtcEnds : EndFits(e)
  BY <1>0, <1>1, <1>2 DEF EndFits, NoConn
<1>9. \A e \in RtcEnds, k \in Copies : HandlerFits(e, k)
  BY <1>1, <1>4, <1>5 DEF HandlerFits
<1>10. \A k \in Copies : WorkingFits(k)
  BY <1>4, <1>5, <1>7 DEF WorkingFits, Working
<1>11. OffersFit /\ AnswersFit /\ CallerFits /\ NoneStrays
  BY <1>1 DEF OffersFit, AnswersFit, CallerFits, NoneStrays
<1>12. SparesFit
  BY <1>1, <1>2, <1>4, <1>5, <1>7 DEF SparesFit, RtcEnds, NoConn
<1> QED
  BY <1>6, <1>8, <1>9, <1>10, <1>11, <1>12 DEF RtcInv

LEMMA RtcTyped == RtcInv => RtcTypeOK /\ LadderIsClean
<1> SUFFICES ASSUME RtcInv PROVE RtcTypeOK /\ LadderIsClean
  OBVIOUS
<1>1. DOMAIN conns = 1..Len(conns)
  BY DEF RtcInv, RtcShape
<1>2. RtcTypeOK
  <2>1. ASSUME NEW e \in RtcEnds
        PROVE  /\ rtc[e].conn \in 0..Len(conns) /\ rtc[e].rung \in 0..LadderTop[e]
               /\ rtc[e].main \in {"new", "build", "offer", "gather", "returned", "threw"}
               /\ rtc[e].pipe \in {"open", "closed"}
    <3>1. rtc[e] \in EndRecord /\ EndFits(e)
      BY DEF RtcInv, RtcShape
    <3> QED
      BY <3>1 DEF EndRecord, EndFits
  <2> QED
    BY <2>1 DEF RtcInv, RtcShape, RtcTypeOK, PeerConnection
<1>3. ASSUME NEW p \in DOMAIN conns, NEW q \in DOMAIN conns, conns[p].remote = q, conns[p].own = Caller
      PROVE  conns[q].remote = p
  <2>1. q # NoConn
    BY <1>1 DEF NoConn
  <2>2. PICK m \in aired : m.type = "answer" /\ m.conn = q /\ m.to = p
    BY <1>1, <1>3, <2>1 DEF RtcInv, CallerFits
  <2> QED
    BY <2>2 DEF RtcInv, AnswersFit
<1>4. AnswersFitOffers
  BY <1>3 DEF AnswersFitOffers, RtcInv, AnswersFit
<1>5. NoStrayConnection
  BY <1>1 DEF NoStrayConnection, RtcInv, NoneStrays
<1> QED
  BY <1>2, <1>4, <1>5 DEF LadderIsClean

\* What a step leaves as it is but for a close of a pipe, the end of a handler, and of main.
CalleeQuiet ==
  /\ rtc' \in [RtcEnds -> EndRecord]
  /\ \A e \in RtcEnds :
       /\ rtc'[e].conn = rtc[e].conn /\ rtc'[e].prev = rtc[e].prev /\ rtc'[e].rung = rtc[e].rung
       /\ \/ rtc'[e].main = rtc[e].main
          \/ rtc[e].main = "new" /\ rtc'[e].main = "build"
          \/ e = Caller /\ rtc[e].main = "offer" /\ rtc'[e].main = "gather"
          \/ e = Caller /\ rtc[e].main = "gather" /\ rtc'[e].main = "threw"
  /\ \/ /\ conns' = conns \/ \E p \in 1..Len(conns) : conns' = [conns EXCEPT ![p].local = TRUE]
        /\ \A e \in RtcEnds : rtc'[e].pipe = rtc[e].pipe
     \/ \E e \in RtcEnds : /\ conns' = ClosedBy(e) /\ rtc'[e].pipe = "closed"
                           /\ \A o \in RtcEnds : o # e => rtc'[o].pipe = rtc[o].pipe
  /\ signals' \in [RtcEnds -> [Copies -> HandlerRecord]]
  /\ \A e \in RtcEnds, k \in Copies :
       /\ signals'[e][k].msg = signals[e][k].msg /\ signals'[e][k].prev = signals[e][k].prev
       /\ \/ signals'[e][k].at = signals[e][k].at
          \/ signals'[e][k].at = "done" /\ signals[e][k].at # "idle"
          \/ signals'[e][k].at = "gather" /\ signals[e][k].at = "answer"
          \/ signals'[e][k].at = "send" /\ signals[e][k].at = "gather"
  /\ air' \subseteq aired
  /\ rtcFaults' \in 0..MaxSignalFaults
  /\ UNCHANGED <<seenSig, aired, strays>>

\* To close a pipe closes connections, and changes nothing else of them.
LEMMA ClosedByTells ==
  ASSUME RtcInv, NEW e \in RtcEnds
  PROVE  /\ ClosedBy(e) \in Seq(PeerConnection) /\ Len(ClosedBy(e)) = Len(conns)
         /\ \A p \in 1..Len(conns) :
              /\ ClosedBy(e)[p].own = conns[p].own /\ ClosedBy(e)[p].remote = conns[p].remote
              /\ ClosedBy(e)[p].open => conns[p].open
              /\ ClosedBy(e)[p].attached = conns[p].attached
              /\ conns[p].open => ClosedBy(e)[p].open \/ p = rtc[e].conn
              /\ p = rtc[e].conn /\ rtc[e].pipe = "open" => ~ClosedBy(e)[p].open
<1> DEFINE c == ClosedBy(e)
<1>0. conns \in Seq(PeerConnection) /\ Len(conns) \in Nat /\ DOMAIN conns = 1..Len(conns)
  BY DEF RtcInv, RtcShape
<1>1. c = [p \in 1..Len(conns) |-> c[p]]
  BY <1>0 DEF ClosedBy
<1>2. ASSUME NEW p \in 1..Len(conns)
      PROVE  /\ c[p] \in PeerConnection
             /\ c[p].own = conns[p].own /\ c[p].remote = conns[p].remote
             /\ c[p].open => conns[p].open
             /\ c[p].attached = conns[p].attached
             /\ conns[p].open => c[p].open \/ p = rtc[e].conn
             /\ p = rtc[e].conn /\ rtc[e].pipe = "open" => ~c[p].open
  <2>1. conns[p] \in PeerConnection
    BY <1>0
  <2>2. CASE p = rtc[e].conn /\ rtc[e].pipe = "open"
    <3>1. c[p] = [conns[p] EXCEPT !.open = FALSE]
      BY <1>0, <2>2 DEF ClosedBy
    <3> QED
      BY <2>1, <2>2, <3>1 DEF PeerConnection
  <2>3. CASE ~(p = rtc[e].conn /\ rtc[e].pipe = "open")
    <3>1. c[p] = conns[p]
      BY <1>0, <2>3 DEF ClosedBy
    <3> QED
      BY <2>1, <2>3, <3>1
  <2> QED
    BY <2>2, <2>3
<1> HIDE DEF c
<1>3. c \in [1..Len(conns) -> PeerConnection]
  BY <1>1, <1>2
<1>4. c \in Seq(PeerConnection)
  BY <1>0, <1>3, SeqDef
<1>5. Len(c) = Len(conns)
  BY <1>0, <1>3, <1>4, LenProperties
<1> QED
  BY <1>2, <1>4, <1>5 DEF c

\* What leaves the connections attached as they are, and closes none of an open pipe.
LEMMA SparesStay ==
  ASSUME RtcInv, Len(conns') = Len(conns),
         \A p \in 1..Len(conns) :
           /\ conns'[p].own = conns[p].own /\ conns'[p].remote = conns[p].remote
           /\ conns'[p].attached = conns[p].attached
           /\ conns[p].open => conns'[p].open \/ rtc'[conns[p].own].pipe = "closed",
         \A o \in RtcEnds : rtc'[o].conn = rtc[o].conn /\ (rtc'[o].pipe = "open" => rtc[o].pipe = "open"),
         rtc'[Caller].main \in {"new", "build"} => rtc'[Caller].prev = rtc[Caller].conn,
         rtc[Callee].main = "returned" => rtc'[Callee].main = "returned",
         \A k \in Copies :
           /\ signals'[Callee][k].at = "load" => signals[Callee][k].at = "load" \/ rtc[Callee].conn = NoConn
           /\ signals'[Callee][k].at = "rebuild" => signals'[Callee][k].prev = rtc[Callee].conn
  PROVE  SparesFit'
<1>0. /\ SparesFit /\ Caller \in RtcEnds /\ Callee \in RtcEnds
      /\ conns \in Seq(PeerConnection) /\ Len(conns) \in Nat /\ NoConn = 0
  BY RtcAssumption DEF RtcInv, RtcShape, RtcEnds, NoConn
<1>1. ASSUME NEW p \in 1..Len(conns') PROVE SpareFits(p)'
  <2>1. SpareFits(p) /\ conns[p].own \in RtcEnds
    <3>1. conns[p] \in PeerConnection
      BY <1>0
    <3> QED
      BY <1>0, <3>1 DEF SparesFit, PeerConnection
  <2>2. "open" # "closed"
    OBVIOUS
  <2> QED
    BY <1>0, <2>1, <2>2 DEF SpareFits
<1>2. rtc[Callee].conn # NoConn => conns'[rtc[Callee].conn].remote = conns[rtc[Callee].conn].remote
  <2>1. rtc[Callee].conn \in 0..Len(conns)
    BY <1>0 DEF RtcInv, EndFits
  <2>2. rtc[Callee].conn # NoConn => rtc[Callee].conn \in 1..Len(conns)
    BY <1>0, <2>1
  <2> QED
    BY <2>2
<1>3. rtc'[Callee].conn = rtc[Callee].conn /\ rtc'[Caller].conn = rtc[Caller].conn
  BY <1>0
<1>4. rtc'[Callee].conn # NoConn /\ conns'[rtc'[Callee].conn].remote # NoConn =>
        rtc'[Callee].main = "returned" /\ \A k \in Copies : signals'[Callee][k].at # "load"
  BY <1>0, <1>2, <1>3 DEF SparesFit
<1> QED
  BY <1>1, <1>3, <1>4 DEF SparesFit

LEMMA QuietKeeps == ASSUME RtcInv, CalleeQuiet PROVE RtcInv'
<1>0. RtcShape /\ Caller \in RtcEnds /\ Callee \in RtcEnds /\ Caller # Callee
  BY RtcAssumption DEF RtcInv, RtcEnds
<1>1. /\ conns' \in Seq(PeerConnection) /\ Len(conns') = Len(conns)
      /\ \A p \in 1..Len(conns) : /\ conns'[p].own = conns[p].own /\ conns'[p].remote = conns[p].remote
                                  /\ conns'[p].open => conns[p].open
                                  /\ conns'[p].attached = conns[p].attached
  <2>1. CASE conns' = conns
    BY <1>0, <2>1 DEF RtcShape
  <2>3. ASSUME NEW q \in 1..Len(conns), conns' = [conns EXCEPT ![q].local = TRUE]
        PROVE  /\ conns' \in Seq(PeerConnection) /\ Len(conns') = Len(conns)
               /\ \A p \in 1..Len(conns) : /\ conns'[p].own = conns[p].own /\ conns'[p].remote = conns[p].remote
                                           /\ conns'[p].open => conns[p].open
                                           /\ conns'[p].attached = conns[p].attached
    <3>1. conns \in Seq(PeerConnection) /\ q \in DOMAIN conns /\ conns[q] \in PeerConnection
      BY <1>0 DEF RtcShape
    <3>2. [conns[q] EXCEPT !.local = TRUE] \in PeerConnection
      BY <3>1 DEF PeerConnection
    <3>3. conns' \in Seq(PeerConnection) /\ Len(conns') = Len(conns)
      BY <2>3, <3>1, <3>2
    <3>4. ASSUME NEW p \in 1..Len(conns)
          PROVE  /\ conns'[p].own = conns[p].own /\ conns'[p].remote = conns[p].remote
                 /\ conns'[p].open = conns[p].open /\ conns'[p].attached = conns[p].attached
      <4>1. CASE p = q
        BY <2>3, <3>1, <4>1 DEF PeerConnection
      <4>2. CASE p # q
        BY <2>3, <3>1, <4>2
      <4> QED
        BY <4>1, <4>2
    <3> QED
      BY <3>3, <3>4
  <2>2. ASSUME NEW e \in RtcEnds, conns' = ClosedBy(e)
        PROVE  /\ conns' \in Seq(PeerConnection) /\ Len(conns') = Len(conns)
               /\ \A p \in 1..Len(conns) : /\ conns'[p].own = conns[p].own /\ conns'[p].remote = conns[p].remote
                                           /\ conns'[p].open => conns[p].open
                                           /\ conns'[p].attached = conns[p].attached
    BY <2>2, ClosedByTells
  <2> QED
    BY <2>1, <2>2, <2>3 DEF CalleeQuiet
<1>2. RtcShape'
  BY <1>0, <1>1 DEF RtcShape, CalleeQuiet
<1>3. \A e \in RtcEnds : rtc[e].conn \in 0..Len(conns)
  BY DEF RtcInv, EndFits
<1>4. Len(conns) \in Nat
  BY <1>0 DEF RtcShape
<1>5. ASSUME NEW e \in RtcEnds PROVE EndFits(e)'
  <2>1. EndFits(e)
    BY DEF RtcInv
  <2>2. rtc[e].conn # NoConn => rtc[e].conn \in 1..Len(conns)
    BY <1>3, <1>4 DEF NoConn
  <2>3. rtc'[e].conn # NoConn => conns'[rtc'[e].conn].own = e
    BY <1>1, <2>1, <2>2 DEF EndFits, CalleeQuiet
  <2> QED
    BY <1>1, <2>1, <2>3 DEF EndFits, CalleeQuiet
<1>6. ASSUME NEW e \in RtcEnds, NEW k \in Copies PROVE HandlerFits(e, k)'
  <2>1. HandlerFits(e, k)
    BY DEF RtcInv
  <2> QED
    BY <1>1, <2>1 DEF HandlerFits, CalleeQuiet, For
<1>7. ASSUME NEW k \in Copies PROVE WorkingFits(k)'
  <2>1. WorkingFits(k)
    BY DEF RtcInv
  <2>2. \A j \in Copies : /\ Working(j)' => Working(j)
                          /\ signals'[Callee][j].at = "load" => signals[Callee][j].at = "load"
    BY <1>0 DEF Working, CalleeQuiet
  <2>3. signals'[Callee][k].at \in {"answer", "gather", "send"} =>
          signals[Callee][k].at \in {"answer", "gather", "send"}
    BY <1>0 DEF CalleeQuiet
  <2>4. rtc'[Callee].conn = rtc[Callee].conn /\ seenSig' = seenSig /\ signals'[Callee][k].msg = signals[Callee][k].msg
        /\ (rtc[Callee].main = "returned" => rtc'[Callee].main = "returned")
    BY <1>0 DEF CalleeQuiet
  <2>5. Working(k) => conns'[rtc[Callee].conn].remote = conns[rtc[Callee].conn].remote
    <3>1. Working(k) => rtc[Callee].conn # NoConn
      BY <1>0 DEF RtcInv, HandlerFits, Working
    <3>2. rtc[Callee].conn # NoConn => rtc[Callee].conn \in 1..Len(conns)
      BY <1>0, <1>3, <1>4 DEF NoConn
    <3> QED
      BY <1>1, <3>1, <3>2
  <2> QED
    BY <2>1, <2>2, <2>3, <2>4, <2>5 DEF WorkingFits
<1>8. OffersFit'
  <2>1. /\ rtc'[Caller].conn = rtc[Caller].conn /\ rtc'[Caller].rung = rtc[Caller].rung
        /\ (rtc[Caller].main = "returned" => rtc'[Caller].main = "returned")
    BY <1>0 DEF CalleeQuiet
  <2> QED
    BY <2>1 DEF RtcInv, OffersFit, CalleeQuiet
<1>9. AnswersFit'
  BY <1>1 DEF RtcInv, AnswersFit, CalleeQuiet
<1>10. CallerFits'
  BY <1>1 DEF RtcInv, CallerFits, CalleeQuiet
<1>11. NoneStrays'
  <2> SUFFICES ASSUME NEW p \in 1..Len(conns'), p \notin strays', conns'[p].open
               PROVE  p = rtc'[conns'[p].own].conn /\ rtc'[conns'[p].own].pipe = "open"
    BY DEF NoneStrays
  <2> DEFINE o == conns[p].own
  <2>1. p \in 1..Len(conns) /\ conns'[p].own = o /\ conns[p].open /\ p \notin strays
    BY <1>1 DEF CalleeQuiet
  <2>2. p = rtc[o].conn /\ rtc[o].pipe = "open" /\ o \in RtcEnds
    <3>1. conns[p] \in PeerConnection
      BY <1>0, <2>1 DEF RtcShape
    <3> QED
      BY <2>1, <3>1 DEF RtcInv, NoneStrays, PeerConnection
  <2> HIDE DEF o
  <2>3. ASSUME NEW e \in RtcEnds, conns' = ClosedBy(e), \A r \in RtcEnds : r # e => rtc'[r].pipe = rtc[r].pipe
        PROVE  rtc'[o].pipe = "open"
    <3>1. o # e
      BY <2>1, <2>2, <2>3, ClosedByTells
    <3> QED
      BY <2>2, <2>3, <3>1
  <2>4. rtc'[o].pipe = "open"
    BY <2>2, <2>3 DEF CalleeQuiet
  <2> QED
    BY <2>1, <2>2, <2>4 DEF CalleeQuiet
<1>12. ASSUME NEW p \in 1..Len(conns), conns[p].open
       PROVE  conns'[p].open \/ rtc'[conns[p].own].pipe = "closed"
  <2>0. conns \in Seq(PeerConnection) /\ conns[p] \in PeerConnection /\ p \in DOMAIN conns
    BY <1>0 DEF RtcShape
  <2>1. CASE conns' = conns
    BY <1>12, <2>1
  <2>2. ASSUME NEW q \in 1..Len(conns), conns' = [conns EXCEPT ![q].local = TRUE]
        PROVE  conns'[p].open
    <3>1. CASE p = q
      BY <1>12, <2>0, <2>2, <3>1 DEF PeerConnection
    <3>2. CASE p # q
      BY <1>12, <2>0, <2>2, <3>2
    <3> QED
      BY <3>1, <3>2
  <2>3. ASSUME NEW e \in RtcEnds, conns' = ClosedBy(e), rtc'[e].pipe = "closed"
        PROVE  conns'[p].open \/ rtc'[conns[p].own].pipe = "closed"
    <3>1. CASE p = rtc[e].conn
      <4>1. conns[p].own = e
        BY <1>4, <3>1 DEF RtcInv, EndFits, NoConn
      <4> QED
        BY <2>3, <4>1
    <3>2. CASE p # rtc[e].conn
      BY <1>12, <2>3, <3>2, ClosedByTells
    <3> QED
      BY <3>1, <3>2
  <2> QED
    BY <2>1, <2>2, <2>3 DEF CalleeQuiet
<1>13. /\ \A o \in RtcEnds : rtc'[o].conn = rtc[o].conn /\ (rtc'[o].pipe = "open" => rtc[o].pipe = "open")
       /\ rtc'[Caller].main \in {"new", "build"} => rtc'[Caller].prev = rtc[Caller].conn
       /\ rtc[Callee].main = "returned" => rtc'[Callee].main = "returned"
  <2>1. rtc[Caller].main \in {"new", "build"} => rtc[Caller].prev = rtc[Caller].conn
    BY DEF RtcInv, SparesFit
  <2>2. \A o \in RtcEnds : rtc'[o].pipe = "open" => rtc[o].pipe = "open"
    BY DEF CalleeQuiet
  <2>3. /\ rtc'[Caller].prev = rtc[Caller].prev
        /\ rtc'[Caller].main \in {"new", "build"} => rtc[Caller].main \in {"new", "build"}
        /\ rtc[Callee].main = "returned" => rtc'[Callee].main = "returned"
        /\ \A o \in RtcEnds : rtc'[o].conn = rtc[o].conn
    BY <1>0 DEF CalleeQuiet
  <2> QED
    BY <2>1, <2>2, <2>3
<1>14. \A k \in Copies :
         /\ signals'[Callee][k].at = "load" => signals[Callee][k].at = "load"
         /\ signals'[Callee][k].at = "rebuild" => signals'[Callee][k].prev = rtc[Callee].conn
  <2>1. \A k \in Copies :
          signals[Callee][k].at = "rebuild" => signals[Callee][k].prev = rtc[Callee].conn
    BY DEF RtcInv, SparesFit
  <2> QED
    BY <1>0, <2>1 DEF CalleeQuiet
<1>15. SparesFit'
  BY <1>1, <1>12, <1>13, <1>14, SparesStay
<1> QED
  BY <1>2, <1>5, <1>6, <1>7, <1>8, <1>9, <1>10, <1>11, <1>15 DEF RtcInv

\* A close of a pipe, by whatever: of an end and, with it, of the handlers given.
LEMMA RtcEndsTell ==
  ASSUME RtcInv
  PROVE  /\ \A e \in RtcEnds : rtc[e] \in EndRecord
         /\ \A e \in RtcEnds, k \in Copies : signals[e][k] \in HandlerRecord
         /\ rtc \in [RtcEnds -> EndRecord] /\ signals \in [RtcEnds -> [Copies -> HandlerRecord]]
         /\ air \subseteq aired /\ rtcFaults \in 0..MaxSignalFaults
         /\ Caller \in RtcEnds /\ Callee \in RtcEnds /\ Caller # Callee
BY RtcAssumption DEF RtcInv, RtcShape, RtcEnds

LEMMA FaultCounts == ASSUME RtcInv, Faulty PROVE rtcFaults' \in 0..MaxSignalFaults
BY RtcAssumption DEF RtcInv, RtcShape, Faulty

LEMMA PipeCloses ==
  ASSUME RtcInv, NEW e \in RtcEnds, rtc' = [rtc EXCEPT ![e].pipe = "closed"]
  PROVE  /\ rtc' \in [RtcEnds -> EndRecord]
         /\ \A o \in RtcEnds : /\ rtc'[o].conn = rtc[o].conn /\ rtc'[o].prev = rtc[o].prev
                               /\ rtc'[o].rung = rtc[o].rung /\ rtc'[o].main = rtc[o].main
                               /\ o # e => rtc'[o].pipe = rtc[o].pipe
         /\ rtc'[e].pipe = "closed"
BY RtcEndsTell DEF EndRecord

LEMMA HandlerSet ==
  ASSUME RtcInv, NEW e \in RtcEnds, NEW k \in Copies, NEW h \in HandlerRecord
  PROVE  /\ [signals EXCEPT ![e][k] = h] \in [RtcEnds -> [Copies -> HandlerRecord]]
         /\ \A o \in RtcEnds, j \in Copies :
              [signals EXCEPT ![e][k] = h][o][j] = IF o = e /\ j = k THEN h ELSE signals[o][j]
<1> DEFINE s == [signals EXCEPT ![e] = [signals[e] EXCEPT ![k] = h]]
<1>1. signals \in [RtcEnds -> [Copies -> HandlerRecord]]
  BY RtcEndsTell
<1>2. [signals[e] EXCEPT ![k] = h] \in [Copies -> HandlerRecord]
  BY <1>1
<1>3. ASSUME NEW o \in RtcEnds, NEW j \in Copies
      PROVE  s[o][j] = IF o = e /\ j = k THEN h ELSE signals[o][j]
  <2>1. CASE o = e
    BY <1>1, <2>1
  <2>2. CASE o # e
    BY <1>1, <2>2
  <2> QED
    BY <2>1, <2>2
<1>4. s \in [RtcEnds -> [Copies -> HandlerRecord]]
  BY <1>1, <1>2
<1> QED
  BY <1>3, <1>4

LEMMA HandlerEnds ==
  ASSUME RtcInv, NEW e \in RtcEnds, NEW k \in Copies, signals[e][k].at # "idle",
         signals' = [signals EXCEPT ![e][k].at = "done"]
  PROVE  /\ signals' \in [RtcEnds -> [Copies -> HandlerRecord]]
         /\ \A o \in RtcEnds, j \in Copies :
              /\ signals'[o][j].msg = signals[o][j].msg /\ signals'[o][j].prev = signals[o][j].prev
              /\ \/ signals'[o][j].at = signals[o][j].at
                 \/ signals'[o][j].at = "done" /\ signals[o][j].at # "idle"
<1> DEFINE h == [signals[e][k] EXCEPT !.at = "done"]
<1>0. h \in HandlerRecord /\ h.msg = signals[e][k].msg /\ h.prev = signals[e][k].prev /\ h.at = "done"
  BY RtcEndsTell DEF HandlerRecord
<1>1. signals' = [signals EXCEPT ![e][k] = h]
  OBVIOUS
<1> HIDE DEF h
<1>2. /\ signals' \in [RtcEnds -> [Copies -> HandlerRecord]]
      /\ \A o \in RtcEnds, j \in Copies : signals'[o][j] = IF o = e /\ j = k THEN h ELSE signals[o][j]
  <2>1. h \in HandlerRecord
    BY <1>0
  <2>2. /\ [signals EXCEPT ![e][k] = h] \in [RtcEnds -> [Copies -> HandlerRecord]]
        /\ \A o \in RtcEnds, j \in Copies :
             [signals EXCEPT ![e][k] = h][o][j] = IF o = e /\ j = k THEN h ELSE signals[o][j]
    BY <2>1, HandlerSet
  <2> QED
    BY <1>1, <2>2, SMT
<1>3. ASSUME NEW o \in RtcEnds, NEW j \in Copies
      PROVE  /\ signals'[o][j].msg = signals[o][j].msg /\ signals'[o][j].prev = signals[o][j].prev
             /\ \/ signals'[o][j].at = signals[o][j].at
                \/ signals'[o][j].at = "done" /\ signals[o][j].at # "idle"
  BY <1>0, <1>2
<1> QED
  BY <1>2, <1>3

LEMMA SignalFailsKeeps ==
  ASSUME RtcInv, NEW e \in RtcEnds, NEW k \in Copies, signals[e][k].at # "idle", SignalFails(e, k),
         rtcFaults' \in 0..MaxSignalFaults, UNCHANGED <<seenSig, air, aired, strays>>
  PROVE  RtcInv'
<1>1. /\ signals' \in [RtcEnds -> [Copies -> HandlerRecord]]
      /\ \A o \in RtcEnds, j \in Copies :
              /\ signals'[o][j].msg = signals[o][j].msg /\ signals'[o][j].prev = signals[o][j].prev
              /\ \/ signals'[o][j].at = signals[o][j].at
                 \/ signals'[o][j].at = "done" /\ signals[o][j].at # "idle"
  BY HandlerEnds DEF SignalFails
<1>2. rtc' = [rtc EXCEPT ![e].pipe = "closed"] /\ conns' = ClosedBy(e)
  BY DEF SignalFails
<1>3. /\ rtc' \in [RtcEnds -> EndRecord]
      /\ \A o \in RtcEnds : /\ rtc'[o].conn = rtc[o].conn /\ rtc'[o].prev = rtc[o].prev
                            /\ rtc'[o].rung = rtc[o].rung /\ rtc'[o].main = rtc[o].main
                            /\ o # e => rtc'[o].pipe = rtc[o].pipe
      /\ rtc'[e].pipe = "closed"
  BY <1>2, PipeCloses
<1>4. air' \subseteq aired
  BY RtcEndsTell
<1>5. CalleeQuiet
  BY <1>1, <1>2, <1>3, <1>4 DEF CalleeQuiet
<1> QED
  BY <1>5, QuietKeeps

\* The steps at the main flow and the pipe that change no connection but by a close.
LEMMA BeginKeeps == ASSUME RtcInv, NEW e \in RtcEnds, Begin(e) PROVE RtcInv'
<1>1. rtc' \in [RtcEnds -> EndRecord]
  BY RtcEndsTell DEF Begin, EndRecord
<1>2. ASSUME NEW o \in RtcEnds
      PROVE  /\ rtc'[o].conn = rtc[o].conn /\ rtc'[o].prev = rtc[o].prev /\ rtc'[o].rung = rtc[o].rung
             /\ rtc'[o].pipe = rtc[o].pipe
             /\ \/ rtc'[o].main = rtc[o].main
                \/ rtc[o].main = "new" /\ rtc'[o].main = "build"
  BY RtcEndsTell DEF Begin, EndRecord
<1>3. CalleeQuiet
  BY <1>1, <1>2, RtcEndsTell DEF Begin, CalleeQuiet
<1> QED
  BY <1>3, QuietKeeps

LEMMA OfferNotSentKeeps == ASSUME RtcInv, OfferNotSent \/ GatheringOverdue PROVE RtcInv'
<1>1. rtc' \in [RtcEnds -> EndRecord]
  <2>1. CASE OfferNotSent
    BY <2>1, RtcEndsTell DEF OfferNotSent, EndRecord
  <2>2. CASE rtc' = [rtc EXCEPT ![Caller].main = "threw", ![Caller].pipe = "closed"]
    <3>1. [rtc[Caller] EXCEPT !.main = "threw", !.pipe = "closed"] \in EndRecord
      BY RtcEndsTell DEF EndRecord
    <3> QED
      BY <2>2, <3>1, RtcEndsTell
  <2> QED
    BY <2>1, <2>2 DEF GatheringOverdue
<1>2. ASSUME NEW o \in RtcEnds
      PROVE  /\ rtc'[o].conn = rtc[o].conn /\ rtc'[o].prev = rtc[o].prev /\ rtc'[o].rung = rtc[o].rung
             /\ o # Caller => rtc'[o].pipe = rtc[o].pipe /\ rtc'[o].main = rtc[o].main
             /\ o = Caller => rtc[o].main = "gather" /\ rtc'[o].main = "threw"
  BY RtcEndsTell DEF OfferNotSent, GatheringOverdue, EndRecord
<1>3. CASE OfferNotSent
  <2>1. \A o \in RtcEnds : rtc'[o].pipe = rtc[o].pipe
    BY <1>3, RtcEndsTell DEF OfferNotSent, EndRecord
  <2>2. CalleeQuiet
    BY <1>1, <1>2, <1>3, <2>1, FaultCounts, RtcEndsTell DEF OfferNotSent, CalleeQuiet
  <2> QED
    BY <2>2, QuietKeeps
<1>4. CASE GatheringOverdue
  <2>1. rtc'[Caller].pipe = "closed"
    BY <1>4, RtcEndsTell DEF GatheringOverdue, EndRecord
  <2>2. CalleeQuiet
    BY <1>1, <1>2, <1>4, <2>1, FaultCounts, RtcEndsTell DEF GatheringOverdue, CalleeQuiet
  <2> QED
    BY <2>2, QuietKeeps
<1> QED
  BY <1>3, <1>4

LEMMA ChannelsOpenKeeps == ASSUME RtcInv, NEW e \in RtcEnds, ChannelsOpen(e) PROVE RtcInv'
<1>1. rtc' \in [RtcEnds -> EndRecord]
  BY RtcEndsTell DEF ChannelsOpen, EndRecord
<1>2. ASSUME NEW o \in RtcEnds
      PROVE  /\ rtc'[o].conn = rtc[o].conn /\ rtc'[o].prev = rtc[o].prev /\ rtc'[o].rung = rtc[o].rung
             /\ rtc'[o].pipe = rtc[o].pipe /\ rtc'[o].main = rtc[o].main
  BY RtcEndsTell DEF ChannelsOpen, EndRecord
<1>3. CalleeQuiet
  BY <1>1, <1>2, RtcEndsTell DEF ChannelsOpen, CalleeQuiet
<1> QED
  BY <1>3, QuietKeeps

LEMMA ShakenKeeps == ASSUME RtcInv, NEW e \in RtcEnds, NEW ok \in BOOLEAN, Shaken(e, ok) PROVE RtcInv'
<1>1. CASE ok
  <2>1. rtc' \in [RtcEnds -> EndRecord]
    <3>1. rtc' = [rtc EXCEPT ![e].ready = TRUE]
      BY <1>1 DEF Shaken
    <3>2. [rtc[e] EXCEPT !.ready = TRUE] \in EndRecord
      BY RtcEndsTell DEF EndRecord
    <3> QED
      BY <3>1, <3>2, RtcEndsTell
  <2>2. ASSUME NEW o \in RtcEnds
        PROVE  /\ rtc'[o].conn = rtc[o].conn /\ rtc'[o].prev = rtc[o].prev /\ rtc'[o].rung = rtc[o].rung
               /\ rtc'[o].pipe = rtc[o].pipe /\ rtc'[o].main = rtc[o].main
    BY <1>1, RtcEndsTell DEF Shaken, EndRecord
  <2>3. CalleeQuiet
    BY <1>1, <2>1, <2>2, RtcEndsTell DEF Shaken, CalleeQuiet
  <2> QED
    BY <2>3, QuietKeeps
<1>2. CASE ~ok
  <2>1. CalleeQuiet
    BY <1>2, PipeCloses, RtcEndsTell DEF Shaken, CalleeQuiet
  <2> QED
    BY <2>1, QuietKeeps
<1> QED
  BY <1>1, <1>2

LEMMA PipeClosesKeeps ==
  ASSUME RtcInv, \/ ChannelTimeout
                 \/ \E e \in RtcEnds : CloseFromOutside(e)
                 \/ \E p \in DOMAIN conns : StateFails(p)
  PROVE  RtcInv'
<1>1. CASE ChannelTimeout
  <2>1. CalleeQuiet
    BY <1>1, PipeCloses, RtcEndsTell DEF ChannelTimeout, CalleeQuiet
  <2> QED
    BY <2>1, QuietKeeps
<1>2. ASSUME NEW e \in RtcEnds, CloseFromOutside(e) PROVE RtcInv'
  <2>1. CalleeQuiet
    BY <1>2, PipeCloses, FaultCounts, RtcEndsTell DEF CloseFromOutside, CalleeQuiet
  <2> QED
    BY <2>1, QuietKeeps
<1>3. ASSUME NEW p \in DOMAIN conns, StateFails(p) PROVE RtcInv'
  <2> DEFINE e == conns[p].own
  <2>1. e \in RtcEnds
    <3>1. conns[p] \in PeerConnection
      BY DEF RtcInv, RtcShape
    <3> QED
      BY <3>1 DEF PeerConnection
  <2>2. rtc' = [rtc EXCEPT ![e].pipe = "closed"] /\ conns' = ClosedBy(e)
        /\ UNCHANGED <<signals, seenSig, air, aired, strays, rtcFaults>>
    BY <1>3 DEF StateFails
  <2> HIDE DEF e
  <2>3. CalleeQuiet
    BY <2>1, <2>2, PipeCloses, RtcEndsTell DEF CalleeQuiet
  <2> QED
    BY <2>3, QuietKeeps
<1> QED
  BY <1>1, <1>2, <1>3

LEMMA SignalLostKeeps == ASSUME RtcInv, NEW m \in aired, SignalLost(m) \/ SignalRepeated(m) PROVE RtcInv'
<1>1. CalleeQuiet
  BY FaultCounts, RtcEndsTell DEF SignalLost, SignalRepeated, CalleeQuiet
<1> QED
  BY <1>1, QuietKeeps

LEMMA AnswerOverdueKeeps == ASSUME RtcInv, NEW k \in Copies, AnswerOverdue(k) PROVE RtcInv'
BY SignalFailsKeeps, FaultCounts, RtcEndsTell DEF AnswerOverdue

LEMMA AnswerNotSentKeeps == ASSUME RtcInv, NEW k \in Copies, AnswerNotSent(k) PROVE RtcInv'
<1>0. signals[Callee][k].at # "idle" /\ rtcFaults' \in 0..MaxSignalFaults
      /\ UNCHANGED <<seenSig, air, aired, strays>>
  BY FaultCounts DEF AnswerNotSent
<1>1. CASE UNCHANGED <<conns, rtc>> /\ signals' = [signals EXCEPT ![Callee][k].at = "done"]
  <2>1. CalleeQuiet
    BY <1>0, <1>1, HandlerEnds, RtcEndsTell DEF CalleeQuiet
  <2> QED
    BY <2>1, QuietKeeps
<1>2. CASE SignalFails(Callee, k)
  BY <1>0, <1>2, SignalFailsKeeps, RtcEndsTell
<1>3. CASE UNCHANGED <<conns, rtc>> /\ signals' = [signals EXCEPT ![Callee][k].tries = @ + 1]
  <2> DEFINE h == [signals[Callee][k] EXCEPT !.tries = @ + 1]
  <2>0. h \in HandlerRecord /\ h.msg = signals[Callee][k].msg /\ h.prev = signals[Callee][k].prev
        /\ h.at = signals[Callee][k].at
    <3>1. signals[Callee][k] \in HandlerRecord
      BY RtcEndsTell
    <3>2. signals[Callee][k].tries + 1 \in Nat
      BY <3>1 DEF HandlerRecord
    <3> QED
      BY <3>1, <3>2 DEF HandlerRecord
  <2>a. signals' = [signals EXCEPT ![Callee][k] = h]
    BY <1>3
  <2> HIDE DEF h
  <2>1. /\ signals' \in [RtcEnds -> [Copies -> HandlerRecord]]
        /\ \A o \in RtcEnds, j \in Copies : signals'[o][j] = IF o = Callee /\ j = k THEN h ELSE signals[o][j]
    <3>1. h \in HandlerRecord /\ Callee \in RtcEnds
      BY <2>0, RtcEndsTell
    <3>2. /\ [signals EXCEPT ![Callee][k] = h] \in [RtcEnds -> [Copies -> HandlerRecord]]
          /\ \A o \in RtcEnds, j \in Copies :
               [signals EXCEPT ![Callee][k] = h][o][j] = IF o = Callee /\ j = k THEN h ELSE signals[o][j]
      BY <3>1, HandlerSet
    <3> QED
      BY <2>a, <3>2, SMT
  <2>2. ASSUME NEW o \in RtcEnds, NEW j \in Copies
        PROVE  /\ signals'[o][j].msg = signals[o][j].msg /\ signals'[o][j].prev = signals[o][j].prev
               /\ signals'[o][j].at = signals[o][j].at
    BY <2>0, <2>1
  <2>3. CalleeQuiet
    BY <1>0, <1>3, <2>1, <2>2, RtcEndsTell DEF CalleeQuiet
  <2> QED
    BY <2>3, QuietKeeps
<1> QED
  BY <1>1, <1>2, <1>3 DEF AnswerNotSent

LEMMA CreateOfferKeeps == ASSUME RtcInv, CreateOffer PROVE RtcInv'
<1>1. rtc' \in [RtcEnds -> EndRecord]
  BY RtcEndsTell DEF CreateOffer, EndRecord
<1>2. ASSUME NEW o \in RtcEnds
      PROVE  /\ rtc'[o].conn = rtc[o].conn /\ rtc'[o].prev = rtc[o].prev /\ rtc'[o].rung = rtc[o].rung
             /\ rtc'[o].pipe = rtc[o].pipe
             /\ \/ rtc'[o].main = rtc[o].main
                \/ o = Caller /\ rtc[o].main = "offer" /\ rtc'[o].main = "gather"
  BY RtcEndsTell DEF CreateOffer, EndRecord
<1>3. rtc[Caller].conn \in 1..Len(conns)
  <2>1. EndFits(Caller) /\ Len(conns) \in Nat
    BY RtcEndsTell DEF RtcInv, RtcShape
  <2> QED
    BY <2>1 DEF CreateOffer, EndFits, NoConn
<1>4. CalleeQuiet
  BY <1>1, <1>2, <1>3, RtcEndsTell DEF CreateOffer, CalleeQuiet
<1> QED
  BY <1>4, QuietKeeps

LEMMA AnswerGatheredKeeps == ASSUME RtcInv, NEW k \in Copies, AnswerGathered(k) PROVE RtcInv'
<1> DEFINE h == [signals[Callee][k] EXCEPT !.at = "send", !.conn = rtc[Callee].conn]
<1>1. h \in HandlerRecord /\ h.msg = signals[Callee][k].msg /\ h.prev = signals[Callee][k].prev
      /\ h.at = "send" /\ signals[Callee][k].at = "gather"
  <2>1. signals[Callee][k] \in HandlerRecord /\ rtc[Callee].conn \in Nat
    BY RtcEndsTell DEF EndRecord
  <2> QED
    BY <2>1 DEF AnswerGathered, HandlerRecord
<1>2. signals' = [signals EXCEPT ![Callee][k] = h]
  BY DEF AnswerGathered
<1> HIDE DEF h
<1>3. /\ signals' \in [RtcEnds -> [Copies -> HandlerRecord]]
      /\ \A o \in RtcEnds, j \in Copies : signals'[o][j] = IF o = Callee /\ j = k THEN h ELSE signals[o][j]
  <2>1. h \in HandlerRecord /\ Callee \in RtcEnds
    BY <1>1, RtcEndsTell
  <2>2. /\ [signals EXCEPT ![Callee][k] = h] \in [RtcEnds -> [Copies -> HandlerRecord]]
        /\ \A o \in RtcEnds, j \in Copies :
             [signals EXCEPT ![Callee][k] = h][o][j] = IF o = Callee /\ j = k THEN h ELSE signals[o][j]
    BY <2>1, HandlerSet
  <2> QED
    BY <1>2, <2>2, SMT
<1>4. ASSUME NEW o \in RtcEnds, NEW j \in Copies
      PROVE  /\ signals'[o][j].msg = signals[o][j].msg /\ signals'[o][j].prev = signals[o][j].prev
             /\ \/ signals'[o][j].at = signals[o][j].at
                \/ signals'[o][j].at = "send" /\ signals[o][j].at = "gather"
  BY <1>1, <1>3
<1>5. CalleeQuiet
  BY <1>3, <1>4, RtcEndsTell DEF AnswerGathered, CalleeQuiet
<1> QED
  BY <1>5, QuietKeeps

LEMMA CreateAnswerKeeps == ASSUME RtcInv, NEW k \in Copies, CreateAnswer(k) PROVE RtcInv'
<1> DEFINE c == rtc[Callee].conn
           h == [signals[Callee][k] EXCEPT !.at = "gather"]
<1>1. h \in HandlerRecord /\ h.msg = signals[Callee][k].msg /\ h.prev = signals[Callee][k].prev
      /\ h.at = "gather" /\ signals[Callee][k].at = "answer"
  <2>1. signals[Callee][k] \in HandlerRecord
    BY RtcEndsTell
  <2> QED
    BY <2>1 DEF CreateAnswer, HandlerRecord
<1>2. c \in 1..Len(conns)
  <2>1. EndFits(Callee) /\ HandlerFits(Callee, k) /\ Len(conns) \in Nat
    BY RtcEndsTell DEF RtcInv, RtcShape
  <2> QED
    BY <1>1, <2>1 DEF EndFits, HandlerFits, NoConn
<1>3. CASE SignalFails(Callee, k)
  BY <1>1, <1>3, SignalFailsKeeps, RtcEndsTell DEF CreateAnswer
<1>4. CASE conns' = [conns EXCEPT ![c].local = TRUE] /\ signals' = [signals EXCEPT ![Callee][k].at = "gather"]
           /\ UNCHANGED rtc
  <2>1. signals' = [signals EXCEPT ![Callee][k] = h]
    BY <1>4
  <2> HIDE DEF h, c
  <2>3. /\ signals' \in [RtcEnds -> [Copies -> HandlerRecord]]
        /\ \A o \in RtcEnds, j \in Copies : signals'[o][j] = IF o = Callee /\ j = k THEN h ELSE signals[o][j]
    <3>1. h \in HandlerRecord /\ Callee \in RtcEnds
      BY <1>1, RtcEndsTell
    <3>2. /\ [signals EXCEPT ![Callee][k] = h] \in [RtcEnds -> [Copies -> HandlerRecord]]
          /\ \A o \in RtcEnds, j \in Copies :
               [signals EXCEPT ![Callee][k] = h][o][j] = IF o = Callee /\ j = k THEN h ELSE signals[o][j]
      BY <3>1, HandlerSet
    <3> QED
      BY <2>1, <3>2, SMT
  <2>4. ASSUME NEW o \in RtcEnds, NEW j \in Copies
        PROVE  /\ signals'[o][j].msg = signals[o][j].msg /\ signals'[o][j].prev = signals[o][j].prev
               /\ \/ signals'[o][j].at = signals[o][j].at
                  \/ signals'[o][j].at = "gather" /\ signals[o][j].at = "answer"
    BY <1>1, <2>3
  <2>5. UNCHANGED <<seenSig, air, aired, strays, rtcFaults, rtc>>
    BY <1>4 DEF CreateAnswer
  <2>6. CalleeQuiet
    <3>1. \E p \in 1..Len(conns) : conns' = [conns EXCEPT ![p].local = TRUE]
      BY <1>2, <1>4
    <3>2. /\ rtc' = rtc /\ rtc \in [RtcEnds -> EndRecord] /\ air' \subseteq aired
          /\ rtcFaults' \in 0..MaxSignalFaults /\ UNCHANGED <<seenSig, aired, strays>>
      BY <2>5, RtcEndsTell
    <3> QED
      BY <2>3, <2>4, <3>1, <3>2, ZenonT(30) DEF CalleeQuiet
  <2> QED
    BY <2>6, QuietKeeps
<1> QED
  BY <1>3, <1>4 DEF CreateAnswer

\* A build adds a connection, and closes the one it replaces.
LEMMA BuildsTells ==
  ASSUME RtcInv, NEW e \in RtcEnds, NEW prev, Builds(e, prev)
  PROVE  /\ conns' \in Seq(PeerConnection) /\ Len(conns') = Len(conns) + 1 /\ Len(conns') <= MaxConns
         /\ \A p \in 1..Len(conns) :
              /\ conns'[p].own = conns[p].own /\ conns'[p].remote = conns[p].remote
              /\ conns'[p].open => conns[p].open /\ p # prev
              /\ conns'[p].attached => conns[p].attached /\ p # prev
              /\ p # prev => conns'[p].open = conns[p].open
         /\ conns'[Len(conns) + 1].own = e /\ conns'[Len(conns) + 1].remote = NoConn
         /\ conns'[Len(conns) + 1].open
<1> DEFINE c == [p \in DOMAIN conns |-> IF p = prev THEN Replaced(p) ELSE conns[p]]
           new == [own |-> e, open |-> TRUE, attached |-> TRUE, remote |-> NoConn, local |-> FALSE]
<1>0. conns \in Seq(PeerConnection) /\ Len(conns) \in Nat /\ DOMAIN conns = 1..Len(conns)
      /\ Len(conns) < MaxConns /\ MaxConns \in Nat
  BY RtcAssumption DEF RtcInv, RtcShape, Builds
<1>1. new \in PeerConnection /\ new.own = e /\ new.remote = NoConn /\ new.open
  BY <1>0 DEF PeerConnection, NoConn
<1>2. ASSUME NEW p \in 1..Len(conns)
      PROVE  /\ c[p] \in PeerConnection
             /\ c[p].own = conns[p].own /\ c[p].remote = conns[p].remote
             /\ c[p].open => conns[p].open /\ p # prev
             /\ c[p].attached => conns[p].attached /\ p # prev
             /\ p # prev => c[p].open = conns[p].open
  <2>1. conns[p] \in PeerConnection
    BY <1>0
  <2>2. CASE p = prev
    <3>1. c[p] = [conns[p] EXCEPT !.open = FALSE, !.attached = FALSE]
      BY <1>0, <2>2 DEF Replaced
    <3> HIDE DEF c
    <3>2. /\ c[p] \in PeerConnection
          /\ c[p].own = conns[p].own /\ c[p].remote = conns[p].remote /\ ~c[p].open /\ ~c[p].attached
      BY <2>1, <3>1 DEF PeerConnection
    <3> QED
      BY <2>2, <3>2
  <2>3. CASE p # prev
    <3>1. c[p] = conns[p]
      BY <1>0, <2>3
    <3> QED
      BY <2>1, <2>3, <3>1
  <2> QED
    BY <2>2, <2>3
<1>a. c = [p \in 1..Len(conns) |-> c[p]]
  BY <1>0
<1>b. conns' = Append(c, new)
  BY DEF Builds
<1> HIDE DEF c, new
<1>3. c \in [1..Len(conns) -> PeerConnection]
  BY <1>a, <1>2
<1>4. c \in Seq(PeerConnection)
  BY <1>0, <1>3, SeqDef
<1>5. Len(c) = Len(conns)
  BY <1>0, <1>3, <1>4, LenProperties
<1>6. /\ conns' \in Seq(PeerConnection) /\ Len(conns') = Len(c) + 1 /\ conns'[Len(c) + 1] = new
      /\ \A p \in 1..Len(c) : conns'[p] = c[p]
  BY <1>1, <1>4, <1>b, AppendProperties
<1>7. Len(conns') <= MaxConns
  BY <1>0, <1>5, <1>6
<1> QED
  BY <1>1, <1>2, <1>5, <1>6, <1>7

\* What a build keeps, whoever builds.
LEMMA BuiltKeeps ==
  ASSUME RtcInv, NEW e \in RtcEnds, NEW prev, Builds(e, prev),
         rtc' \in [RtcEnds -> EndRecord],
         \A o \in RtcEnds : /\ rtc'[o].rung = rtc[o].rung /\ rtc'[o].prev = rtc[o].prev
                            /\ rtc'[o].pipe = rtc[o].pipe
                            /\ rtc'[o].conn = IF o = e THEN Len(conns) + 1 ELSE rtc[o].conn,
         signals' \in [RtcEnds -> [Copies -> HandlerRecord]],
         UNCHANGED <<seenSig, air, aired, rtcFaults>>
  PROVE  /\ RtcShape' /\ AnswersFit' /\ CallerFits' /\ NoneStrays'
         /\ \A o \in RtcEnds : /\ rtc'[o].conn \in 0..Len(conns') /\ rtc'[o].prev \in 0..Len(conns')
                               /\ rtc'[o].rung \in 0..LadderTop[o]
                               /\ rtc'[o].conn # NoConn => conns'[rtc'[o].conn].own = o
<1>0. RtcShape /\ Len(conns) \in Nat /\ conns \in Seq(PeerConnection)
  BY DEF RtcInv, RtcShape
<1>1. /\ conns' \in Seq(PeerConnection) /\ Len(conns') = Len(conns) + 1 /\ Len(conns') <= MaxConns
      /\ \A p \in 1..Len(conns) :
            /\ conns'[p].own = conns[p].own /\ conns'[p].remote = conns[p].remote
            /\ conns'[p].open => conns[p].open /\ p # prev
      /\ conns'[Len(conns) + 1].own = e /\ conns'[Len(conns) + 1].remote = NoConn
  BY BuildsTells
<1>2. RtcShape'
  BY <1>0, <1>1 DEF RtcShape
<1>3. AnswersFit'
  <2>1. \A q \in 1..Len(conns) : q \in 1..Len(conns')
    BY <1>0, <1>1
  <2> QED
    BY <1>1, <2>1 DEF RtcInv, AnswersFit
<1>4. CallerFits'
  <2> SUFFICES ASSUME NEW p \in 1..Len(conns'), conns'[p].own = Caller, conns'[p].remote # NoConn
               PROVE  \E m \in aired : m.type = "answer" /\ m.conn = conns'[p].remote /\ m.to = p
    BY DEF CallerFits
  <2>1. p \in 1..Len(conns)
    BY <1>0, <1>1
  <2> QED
    BY <1>1, <2>1 DEF RtcInv, CallerFits
<1>5. NoneStrays'
  <2> SUFFICES ASSUME NEW p \in 1..Len(conns'), p \notin strays', conns'[p].open
               PROVE  p = rtc'[conns'[p].own].conn /\ rtc'[conns'[p].own].pipe = "open"
    BY DEF NoneStrays
  <2>0. strays \subseteq strays' /\ (rtc[e].conn # prev => rtc[e].conn \in strays')
        /\ (rtc[e].pipe # "open" => Len(conns) + 1 \in strays')
    BY DEF Builds
  <2>1. CASE p = Len(conns) + 1
    BY <1>1, <2>0, <2>1
  <2>2. CASE p # Len(conns) + 1
    <3> DEFINE o == conns[p].own
    <3>1. p \in 1..Len(conns)
      BY <1>0, <1>1, <2>2
    <3>2. conns'[p].own = o /\ conns[p].open /\ p # prev /\ p \notin strays
      BY <1>1, <2>0, <3>1
    <3>3. o \in RtcEnds
      <4>1. conns[p] \in PeerConnection
        BY <1>0, <3>1
      <4> QED
        BY <4>1 DEF PeerConnection
    <3>4. p = rtc[o].conn /\ rtc[o].pipe = "open"
      BY <3>1, <3>2 DEF RtcInv, NoneStrays
    <3> HIDE DEF o
    <3>5. o # e
      BY <2>0, <3>2, <3>4
    <3> QED
      BY <3>2, <3>3, <3>4, <3>5
  <2> QED
    BY <2>1, <2>2
<1>6. ASSUME NEW o \in RtcEnds
      PROVE  /\ rtc'[o].conn \in 0..Len(conns') /\ rtc'[o].prev \in 0..Len(conns')
             /\ rtc'[o].rung \in 0..LadderTop[o]
             /\ rtc'[o].conn # NoConn => conns'[rtc'[o].conn].own = o
  <2>1. EndFits(o)
    BY DEF RtcInv
  <2>2. rtc'[o].prev \in 0..Len(conns') /\ rtc'[o].rung \in 0..LadderTop[o]
    BY <1>0, <1>1, <2>1 DEF EndFits
  <2>3. CASE o = e
    BY <1>0, <1>1, <2>2, <2>3
  <2>4. CASE o # e
    <3>1. rtc'[o].conn = rtc[o].conn
      BY <2>4
    <3>2. rtc[o].conn \in 0..Len(conns') /\ (rtc[o].conn # NoConn => rtc[o].conn \in 1..Len(conns))
      BY <1>0, <1>1, <2>1 DEF EndFits, NoConn
    <3> QED
      BY <1>1, <2>1, <2>2, <3>1, <3>2 DEF EndFits
  <2> QED
    BY <2>3, <2>4
<1> QED
  BY <1>2, <1>3, <1>4, <1>5, <1>6

\* A build of an end whose connection has no description, or is the one replaced.
LEMMA BuiltSpares ==
  ASSUME RtcInv, NEW e \in RtcEnds, NEW prev, Builds(e, prev),
         rtc[e].conn \in {prev, NoConn} \/ conns[rtc[e].conn].remote = NoConn,
         \A o \in RtcEnds : /\ rtc'[o].pipe = rtc[o].pipe
                            /\ rtc'[o].conn = IF o = e THEN Len(conns) + 1 ELSE rtc[o].conn
  PROVE  /\ \A p \in 1..Len(conns') : SpareFits(p)'
         /\ conns'[Len(conns) + 1].remote = NoConn
<1>0. SparesFit /\ conns \in Seq(PeerConnection) /\ Len(conns) \in Nat /\ NoConn = 0
  BY DEF RtcInv, RtcShape, NoConn
<1>1. /\ conns' \in Seq(PeerConnection) /\ Len(conns') = Len(conns) + 1
      /\ \A p \in 1..Len(conns) :
           /\ conns'[p].own = conns[p].own /\ conns'[p].remote = conns[p].remote
           /\ conns'[p].attached => conns[p].attached /\ p # prev
           /\ p # prev => conns'[p].open = conns[p].open
      /\ conns'[Len(conns) + 1].own = e /\ conns'[Len(conns) + 1].remote = NoConn
      /\ conns'[Len(conns) + 1].open
  BY BuildsTells
<1>2. ASSUME NEW p \in 1..Len(conns') PROVE SpareFits(p)'
  <2>1. CASE p = Len(conns) + 1
    BY <1>1, <2>1 DEF SpareFits
  <2>2. CASE p # Len(conns) + 1
    <3> DEFINE o == conns[p].own
    <3>1. p \in 1..Len(conns)
      BY <1>0, <1>1, <2>2
    <3>2. SpareFits(p) /\ o \in RtcEnds
      <4>1. conns[p] \in PeerConnection
        BY <1>0, <3>1
      <4> QED
        BY <1>0, <3>1, <4>1 DEF SparesFit, PeerConnection
    <3> SUFFICES ASSUME conns'[p].attached, rtc'[o].pipe = "open"
                 PROVE  conns'[p].open /\ (p = rtc'[o].conn \/ conns'[p].remote = NoConn)
      BY <1>1, <3>1 DEF SpareFits
    <3>3. conns[p].attached /\ p # prev /\ rtc[o].pipe = "open" /\ conns'[p].open = conns[p].open
          /\ conns'[p].remote = conns[p].remote
      BY <1>1, <3>1, <3>2
    <3>4. conns[p].open /\ (p = rtc[o].conn \/ conns[p].remote = NoConn)
      BY <3>2, <3>3 DEF SpareFits
    <3> HIDE DEF o
    <3>5. CASE o = e
      <4>1. p = rtc[e].conn => conns[p].remote = NoConn
        BY <1>0, <3>1, <3>3
      <4> QED
        BY <3>3, <3>4, <3>5, <4>1
    <3>6. CASE o # e
      BY <3>2, <3>3, <3>4, <3>6
    <3> QED
      BY <3>5, <3>6
  <2> QED
    BY <2>1, <2>2
<1> QED
  BY <1>1, <1>2

\* There is one offer, and none before the caller's dial has it sent.
LEMMA OneOffer ==
  ASSUME RtcInv
  PROVE  /\ \A m \in aired : m.type = "offer" =>
              /\ rtc[Caller].main = "returned" /\ m.conn = rtc[Caller].conn /\ m.rung = rtc[Caller].rung
              /\ m = SignalOf("offer", m.conn, m.rung, NoConn)
         /\ \A m, n \in aired : m.type = "offer" /\ n.type = "offer" => m = n
         /\ \A m \in aired : m.type = "answer" =>
              rtc[Caller].main = "returned" /\ m.to = rtc[Caller].conn
         /\ \A k \in Copies : signals[Callee][k].at # "idle" =>
              rtc[Caller].main = "returned" /\ signals[Callee][k].msg \in aired
              /\ signals[Callee][k].msg.type = "offer"
<1>1. \A m \in aired : m.type = "offer" =>
        rtc[Caller].main = "returned" /\ m = SignalOf("offer", rtc[Caller].conn, rtc[Caller].rung, NoConn)
  BY DEF RtcInv, OffersFit
<1>2. ASSUME NEW m \in aired, m.type = "offer"
      PROVE  /\ rtc[Caller].main = "returned" /\ m.conn = rtc[Caller].conn /\ m.rung = rtc[Caller].rung
             /\ m = SignalOf("offer", m.conn, m.rung, NoConn)
  BY <1>1, <1>2 DEF SignalOf
<1>3. ASSUME NEW m \in aired, m.type = "answer"
      PROVE  rtc[Caller].main = "returned" /\ m.to = rtc[Caller].conn
  <2>1. SignalOf("offer", m.to, m.rung, NoConn) \in aired
    BY <1>3 DEF RtcInv, AnswersFit
  <2>2. SignalOf("offer", m.to, m.rung, NoConn).type = "offer"
        /\ SignalOf("offer", m.to, m.rung, NoConn).conn = m.to
    BY DEF SignalOf
  <2> QED
    BY <1>2, <2>1, <2>2
<1>4. ASSUME NEW k \in Copies, signals[Callee][k].at # "idle"
      PROVE  rtc[Caller].main = "returned" /\ signals[Callee][k].msg \in aired
             /\ signals[Callee][k].msg.type = "offer"
  <2>1. HandlerFits(Callee, k) /\ For(Callee) = "offer"
    BY RtcEndsTell DEF RtcInv, For
  <2>2. signals[Callee][k].msg \in aired /\ signals[Callee][k].msg.type = "offer"
    BY <1>4, <2>1 DEF HandlerFits
  <2> QED
    BY <1>1, <2>2
<1>5. \A m, n \in aired : m.type = "offer" /\ n.type = "offer" => m = n
  BY <1>1
<1> QED
  BY <1>2, <1>3, <1>4, <1>5

LEMMA MainBuiltKeeps == ASSUME RtcInv, NEW e \in RtcEnds, MainBuilt(e) PROVE RtcInv'
<1> DEFINE prev == rtc[e].prev
<1>1. Builds(e, prev) /\ UNCHANGED <<signals, seenSig, air, aired, rtcFaults>> /\ rtc[e].main = "build"
  BY DEF MainBuilt
<1>2. Len(conns) \in Nat /\ NoConn = 0
  BY DEF RtcInv, RtcShape, NoConn
<1>3. rtc' \in [RtcEnds -> EndRecord]
  <2>0. Len(conns) + 1 \in Nat /\ rtc[e] \in EndRecord
    BY <1>2, RtcEndsTell
  <2>1. [rtc[e] EXCEPT !.conn = Len(conns) + 1, !.main = IF e = Caller THEN "offer" ELSE "returned"] \in EndRecord
    BY <2>0 DEF EndRecord
  <2> QED
    BY <2>1, RtcEndsTell DEF MainBuilt
<1>4. ASSUME NEW o \in RtcEnds
      PROVE  /\ rtc'[o].rung = rtc[o].rung /\ rtc'[o].prev = rtc[o].prev /\ rtc'[o].pipe = rtc[o].pipe
             /\ rtc'[o].conn = IF o = e THEN Len(conns) + 1 ELSE rtc[o].conn
             /\ rtc'[o].main = IF o = e THEN IF e = Caller THEN "offer" ELSE "returned" ELSE rtc[o].main
  BY RtcEndsTell DEF MainBuilt, EndRecord
<1>5. signals' \in [RtcEnds -> [Copies -> HandlerRecord]]
  BY <1>1, RtcEndsTell
<1> HIDE DEF prev
<1>6. /\ RtcShape' /\ AnswersFit' /\ CallerFits' /\ NoneStrays'
      /\ \A o \in RtcEnds : /\ rtc'[o].conn \in 0..Len(conns') /\ rtc'[o].prev \in 0..Len(conns')
                            /\ rtc'[o].rung \in 0..LadderTop[o]
                            /\ rtc'[o].conn # NoConn => conns'[rtc'[o].conn].own = o
  BY <1>1, <1>3, <1>4, <1>5, BuiltKeeps
<1>7. Len(conns') = Len(conns) + 1
  BY <1>1, BuildsTells
<1>8. ASSUME NEW o \in RtcEnds PROVE EndFits(o)'
  <2>1. EndFits(o)
    BY DEF RtcInv
  <2>2. o = Caller /\ rtc'[o].main \in {"offer", "gather", "returned"} => rtc'[o].conn # NoConn
    BY <1>2, <1>4, <2>1 DEF EndFits
  <2>3. o = Callee => rtc'[o].main \in {"new", "build", "returned"}
    BY <1>4, <2>1, RtcEndsTell DEF EndFits
  <2> QED
    BY <1>6, <2>2, <2>3 DEF EndFits
<1>9. ASSUME NEW o \in RtcEnds, NEW k \in Copies PROVE HandlerFits(o, k)'
  <2>1. HandlerFits(o, k)
    BY DEF RtcInv
  <2>2. rtc'[o].main # "new" \/ rtc'[o].main = rtc[o].main
    BY <1>4
  <2>3. rtc'[o].conn # NoConn \/ rtc'[o].conn = rtc[o].conn
    BY <1>2, <1>4
  <2>4. signals[o][k].prev \in 0..Len(conns')
    BY <1>2, <1>7, <2>1 DEF HandlerFits
  <2> QED
    BY <1>1, <2>1, <2>2, <2>3, <2>4 DEF HandlerFits
<1>10. ASSUME NEW k \in Copies PROVE WorkingFits(k)'
  <2>1. ~Working(k)
    <3>1. WorkingFits(k)
      BY DEF RtcInv
    <3>2. CASE e = Caller
      BY <1>1, <3>2, OneOffer DEF Working
    <3>3. CASE e = Callee
      BY <1>1, <3>1, <3>3 DEF WorkingFits
    <3> QED
      BY <3>2, <3>3 DEF RtcEnds
  <2> QED
    BY <1>1, <2>1 DEF WorkingFits, Working
<1>11. OffersFit'
  <2>1. CASE e = Caller
    <3>1. \A m \in aired : m.type # "offer"
      BY <1>1, <2>1, OneOffer
    <3> QED
      BY <1>1, <3>1 DEF OffersFit
  <2>2. CASE e # Caller
    <3>1. rtc'[Caller].main = rtc[Caller].main /\ rtc'[Caller].conn = rtc[Caller].conn
          /\ rtc'[Caller].rung = rtc[Caller].rung
      BY <1>4, <2>2, RtcEndsTell
    <3> QED
      BY <1>1, <3>1 DEF RtcInv, OffersFit
  <2> QED
    BY <2>1, <2>2
<1>12. rtc[e].conn \in {prev, NoConn} \/ conns[rtc[e].conn].remote = NoConn
  BY <1>1 DEF RtcInv, SparesFit, RtcEnds, prev
<1>13. (\A p \in 1..Len(conns') : SpareFits(p)') /\ conns'[Len(conns) + 1].remote = NoConn
  BY <1>1, <1>4, <1>12, BuiltSpares
<1>14. SparesFit'
  <2>0. SparesFit /\ EndFits(Callee) /\ conns \in Seq(PeerConnection)
        /\ Caller \in RtcEnds /\ Callee \in RtcEnds /\ Caller # Callee
    BY RtcEndsTell DEF RtcInv, RtcShape
  <2>1. CASE e = Caller
    <3>1. rtc'[Caller].main = "offer" /\ rtc'[Callee].conn = rtc[Callee].conn
          /\ rtc'[Callee].main = rtc[Callee].main
      BY <1>4, <2>0, <2>1
    <3>2. rtc[Callee].conn # NoConn => conns'[rtc[Callee].conn].remote = conns[rtc[Callee].conn].remote
      <4>1. rtc[Callee].conn # NoConn => rtc[Callee].conn \in 1..Len(conns)
        BY <1>2, <2>0 DEF EndFits
      <4> QED
        BY <1>1, <4>1, BuildsTells
    <3> QED
      BY <1>1, <1>13, <2>0, <3>1, <3>2 DEF SparesFit
  <2>2. CASE e = Callee
    <3>1. rtc'[Caller].main = rtc[Caller].main /\ rtc'[Caller].prev = rtc[Caller].prev
          /\ rtc'[Caller].conn = rtc[Caller].conn /\ rtc'[Callee].conn = Len(conns) + 1
      BY <1>4, <2>0, <2>2
    <3>2. \A k \in Copies : signals[Callee][k].at # "rebuild"
      BY <1>1, <2>2 DEF RtcInv, WorkingFits, Working
    <3> QED
      BY <1>1, <1>13, <2>0, <3>1, <3>2 DEF SparesFit
  <2> QED
    BY <2>1, <2>2 DEF RtcEnds
<1> QED
  BY <1>6, <1>8, <1>9, <1>10, <1>11, <1>14 DEF RtcInv

LEMMA SignalBuiltKeeps ==
  ASSUME RtcInv, NEW e \in RtcEnds, NEW k \in Copies, SignalBuilt(e, k) PROVE RtcInv'
<1> DEFINE prev == signals[e][k].prev
           h == [signals[e][k] EXCEPT !.at = IF @ = "load" THEN "handle" ELSE "apply"]
<1>1. Builds(e, prev) /\ UNCHANGED <<seenSig, air, aired, rtcFaults>>
      /\ signals[e][k].at \in {"load", "rebuild"}
  BY DEF SignalBuilt
<1>2. Len(conns) \in Nat /\ NoConn = 0
  BY DEF RtcInv, RtcShape, NoConn
<1>0. e = Callee
  BY <1>1 DEF RtcInv, HandlerFits
<1>3. rtc' \in [RtcEnds -> EndRecord]
  <2>0. Len(conns) + 1 \in Nat /\ rtc[e] \in EndRecord
    BY <1>2, RtcEndsTell
  <2>1. [rtc[e] EXCEPT !.conn = Len(conns) + 1] \in EndRecord
    BY <2>0, Zenon DEF EndRecord
  <2> QED
    BY <2>1, RtcEndsTell DEF SignalBuilt
<1>4. ASSUME NEW o \in RtcEnds
      PROVE  /\ rtc'[o].rung = rtc[o].rung /\ rtc'[o].prev = rtc[o].prev /\ rtc'[o].pipe = rtc[o].pipe
             /\ rtc'[o].conn = IF o = e THEN Len(conns) + 1 ELSE rtc[o].conn
             /\ rtc'[o].main = rtc[o].main
  BY RtcEndsTell DEF SignalBuilt, EndRecord
<1>a. h \in HandlerRecord /\ h.msg = signals[e][k].msg /\ h.prev = signals[e][k].prev
      /\ h.at = IF signals[e][k].at = "load" THEN "handle" ELSE "apply"
  <2>1. signals[e][k] \in HandlerRecord
    BY RtcEndsTell
  <2> QED
    BY <2>1 DEF HandlerRecord
<1>b. signals' = [signals EXCEPT ![e][k] = h]
  BY DEF SignalBuilt
<1> HIDE DEF prev, h
<1>5. /\ signals' \in [RtcEnds -> [Copies -> HandlerRecord]]
      /\ \A o \in RtcEnds, j \in Copies : signals'[o][j] = IF o = e /\ j = k THEN h ELSE signals[o][j]
  <2>1. h \in HandlerRecord
    BY <1>a
  <2>2. /\ [signals EXCEPT ![e][k] = h] \in [RtcEnds -> [Copies -> HandlerRecord]]
        /\ \A o \in RtcEnds, j \in Copies :
             [signals EXCEPT ![e][k] = h][o][j] = IF o = e /\ j = k THEN h ELSE signals[o][j]
    BY <2>1, HandlerSet
  <2> QED
    BY <1>b, <2>2, SMT
<1>6. /\ RtcShape' /\ AnswersFit' /\ CallerFits' /\ NoneStrays'
      /\ \A o \in RtcEnds : /\ rtc'[o].conn \in 0..Len(conns') /\ rtc'[o].prev \in 0..Len(conns')
                            /\ rtc'[o].rung \in 0..LadderTop[o]
                            /\ rtc'[o].conn # NoConn => conns'[rtc'[o].conn].own = o
  BY <1>1, <1>3, <1>4, <1>5, BuiltKeeps
<1>7. Len(conns') = Len(conns) + 1
  BY <1>1, BuildsTells
<1>8. ASSUME NEW o \in RtcEnds PROVE EndFits(o)'
  <2>1. EndFits(o)
    BY DEF RtcInv
  <2>2. o = Caller /\ rtc'[o].main \in {"offer", "gather", "returned"} => rtc'[o].conn # NoConn
    BY <1>2, <1>4, <2>1 DEF EndFits
  <2>3. o = Callee => rtc'[o].main \in {"new", "build", "returned"}
    BY <1>4, <2>1 DEF EndFits
  <2> QED
    BY <1>6, <2>2, <2>3 DEF EndFits
<1>9. ASSUME NEW o \in RtcEnds, NEW j \in Copies PROVE HandlerFits(o, j)'
  <2>1. HandlerFits(o, j)
    BY DEF RtcInv
  <2>3. rtc'[o].conn # NoConn \/ rtc'[o].conn = rtc[o].conn
    BY <1>2, <1>4
  <2>4. signals[o][j].prev \in 0..Len(conns')
    BY <1>2, <1>7, <2>1 DEF HandlerFits
  <2>5. CASE o = e /\ j = k
    <3>1. signals'[o][j] = h
      BY <1>5, <2>5
    <3>2. h.at \in {"handle", "apply"}
      BY <1>a
    <3>3. rtc'[o].conn # NoConn
      BY <1>2, <1>4, <2>5
    <3> QED
      BY <1>1, <1>4, <1>a, <2>1, <2>4, <2>5, <3>1, <3>2, <3>3 DEF HandlerFits, For
  <2>6. CASE ~(o = e /\ j = k)
    <3>1. signals'[o][j] = signals[o][j]
      BY <1>5, <2>6
    <3> QED
      BY <1>1, <1>4, <2>1, <2>3, <2>4, <3>1 DEF HandlerFits, For
  <2> QED
    BY <2>5, <2>6
<1>10. ASSUME NEW j \in Copies PROVE WorkingFits(j)'
  <2>1. WorkingFits(k) /\ WorkingFits(j)
    BY DEF RtcInv
  <2>2. CASE signals[Callee][k].at = "load"
    <3>1. ~Working(j)
      BY <2>1, <2>2 DEF WorkingFits
    <3>2. signals'[Callee][j].at = IF j = k THEN "handle" ELSE signals[Callee][j].at
      BY <1>0, <1>5, <1>a, <2>2
    <3> QED
      BY <3>1, <3>2 DEF WorkingFits, Working
  <2>3. CASE signals[Callee][k].at # "load"
    <3>1. Working(k)
      BY <1>0, <1>1, <2>3 DEF Working
    <3>2. \A i \in Copies : /\ signals'[Callee][i].at = IF i = k THEN "apply" ELSE signals[Callee][i].at
                            /\ signals'[Callee][i].msg = signals[Callee][i].msg
      BY <1>0, <1>5, <1>a, <2>3
    <3>3. \A i \in Copies : signals'[Callee][i].at # "load" /\ (i # k => ~Working(i)')
      BY <2>1, <3>1, <3>2 DEF WorkingFits, Working
    <3>4. rtc'[Callee].main = "returned" /\ signals'[Callee][k].msg \in seenSig'[Callee]
      BY <1>0, <1>1, <1>4, <2>1, <3>1, <3>2 DEF WorkingFits
    <3>5. signals'[Callee][k].at = "apply"
      BY <3>2
    <3> QED
      BY <3>3, <3>4, <3>5 DEF WorkingFits
  <2> QED
    BY <2>2, <2>3
<1>11. OffersFit'
  <2>1. rtc'[Caller].main = rtc[Caller].main /\ rtc'[Caller].conn = rtc[Caller].conn
        /\ rtc'[Caller].rung = rtc[Caller].rung
    BY <1>0, <1>4, RtcEndsTell
  <2> QED
    BY <1>1, <2>1 DEF RtcInv, OffersFit
<1>12. rtc[e].conn \in {prev, NoConn} \/ conns[rtc[e].conn].remote = NoConn
  BY <1>0, <1>1 DEF RtcInv, SparesFit, prev
<1>13. (\A p \in 1..Len(conns') : SpareFits(p)') /\ conns'[Len(conns) + 1].remote = NoConn
  BY <1>1, <1>4, <1>12, BuiltSpares
<1>14. \A j \in Copies : signals'[Callee][j].at # "rebuild"
  <2> TAKE j \in Copies
  <2>1. CASE j = k
    BY <1>0, <1>5, <1>a, <2>1
  <2>2. CASE j # k
    <3>1. signals'[Callee][j] = signals[Callee][j]
      BY <1>0, <1>5, <2>2
    <3>2. WorkingFits(k) /\ WorkingFits(j)
      BY DEF RtcInv
    <3> QED
      BY <1>0, <1>1, <2>2, <3>1, <3>2 DEF WorkingFits, Working
  <2> QED
    BY <2>1, <2>2
<1>15. SparesFit'
  <2>1. rtc'[Caller].main = rtc[Caller].main /\ rtc'[Caller].prev = rtc[Caller].prev
        /\ rtc'[Caller].conn = rtc[Caller].conn /\ rtc'[Callee].conn = Len(conns) + 1
    BY <1>0, <1>4, RtcEndsTell
  <2>2. SparesFit
    BY DEF RtcInv
  <2> QED
    BY <1>13, <1>14, <2>1, <2>2 DEF SparesFit
<1> QED
  BY <1>6, <1>8, <1>9, <1>10, <1>11, <1>15 DEF RtcInv

\* What holds of the connections while none of them changes.
LEMMA ConnsStay ==
  ASSUME RtcInv, UNCHANGED <<conns, strays>>, aired \subseteq aired',
         \A o \in RtcEnds : rtc'[o].conn = rtc[o].conn /\ rtc'[o].pipe = rtc[o].pipe
  PROVE  NoneStrays' /\ CallerFits'
<1>1. NoneStrays'
  <2> SUFFICES ASSUME NEW p \in 1..Len(conns), p \notin strays, conns[p].open
               PROVE  p = rtc'[conns[p].own].conn /\ rtc'[conns[p].own].pipe = "open"
    BY DEF NoneStrays
  <2>1. p = rtc[conns[p].own].conn /\ rtc[conns[p].own].pipe = "open"
    BY DEF RtcInv, NoneStrays
  <2>2. conns[p].own \in RtcEnds
    <3>1. conns[p] \in PeerConnection
      BY DEF RtcInv, RtcShape
    <3> QED
      BY <3>1 DEF PeerConnection
  <2> QED
    BY <2>1, <2>2
<1>2. CallerFits'
  BY DEF RtcInv, CallerFits
<1> QED
  BY <1>1, <1>2

LEMMA EscalateKeeps == ASSUME RtcInv, Escalate PROVE RtcInv'
<1>1. UNCHANGED <<conns, signals, seenSig, air, aired, strays, rtcFaults>>
      /\ rtc[Caller].main = "gather" /\ rtc[Caller].rung < LadderTop[Caller]
  BY DEF Escalate
<1>2. rtc[Caller] \in EndRecord /\ EndFits(Caller) /\ LadderTop[Caller] \in Nat
  BY RtcEndsTell, RtcAssumption DEF RtcInv
<1>3. rtc[Caller].rung + 1 \in Nat /\ rtc[Caller].rung + 1 \in 0..LadderTop[Caller]
  BY <1>1, <1>2 DEF EndRecord
<1>4. rtc' \in [RtcEnds -> EndRecord]
  <2>0. rtc[Caller].conn \in Nat
    BY <1>2 DEF EndRecord
  <2>1. [rtc[Caller] EXCEPT !.main = "build", !.prev = rtc[Caller].conn, !.rung = rtc[Caller].rung + 1] \in EndRecord
    BY <1>2, <1>3, <2>0 DEF EndRecord
  <2>2. rtc' = [rtc EXCEPT ![Caller] =
                  [rtc[Caller] EXCEPT !.main = "build", !.prev = rtc[Caller].conn, !.rung = rtc[Caller].rung + 1]]
    BY DEF Escalate
  <2> QED
    BY <2>1, <2>2, RtcEndsTell
<1>5. ASSUME NEW o \in RtcEnds
      PROVE  /\ rtc'[o].conn = rtc[o].conn /\ rtc'[o].pipe = rtc[o].pipe
             /\ rtc'[o].main = IF o = Caller THEN "build" ELSE rtc[o].main
             /\ rtc'[o].prev = IF o = Caller THEN rtc[o].conn ELSE rtc[o].prev
             /\ rtc'[o].rung = IF o = Caller THEN rtc[o].rung + 1 ELSE rtc[o].rung
  BY RtcEndsTell DEF Escalate, EndRecord
<1>6. RtcShape'
  BY <1>1, <1>4 DEF RtcInv, RtcShape
<1>7. NoneStrays' /\ CallerFits'
  BY <1>1, <1>5, ConnsStay
<1>8. AnswersFit'
  BY <1>1 DEF RtcInv, AnswersFit
<1>9. OffersFit'
  <2>1. \A m \in aired : m.type # "offer"
    BY <1>1, OneOffer
  <2> QED
    BY <1>1, <2>1 DEF OffersFit
<1>10. ASSUME NEW o \in RtcEnds PROVE EndFits(o)'
  <2>1. EndFits(o)
    BY DEF RtcInv
  <2>2. CASE o = Caller
    BY <1>1, <1>3, <1>5, <2>1, <2>2, RtcEndsTell DEF EndFits
  <2>3. CASE o # Caller
    BY <1>1, <1>5, <2>1, <2>3 DEF EndFits
  <2> QED
    BY <2>2, <2>3
<1>11. ASSUME NEW o \in RtcEnds, NEW k \in Copies PROVE HandlerFits(o, k)'
  <2>1. HandlerFits(o, k)
    BY DEF RtcInv
  <2>2. rtc'[o].main # "new" \/ rtc'[o].main = rtc[o].main
    BY <1>5
  <2> QED
    BY <1>1, <1>5, <2>1, <2>2 DEF HandlerFits
<1>12. ASSUME NEW k \in Copies PROVE WorkingFits(k)'
  <2>1. ~Working(k)
    BY <1>1, OneOffer DEF Working
  <2> QED
    BY <1>1, <2>1 DEF WorkingFits, Working
<1>13. SparesFit'
  <2>1. /\ rtc'[Caller].main \in {"new", "build"} => rtc'[Caller].prev = rtc[Caller].conn
        /\ rtc[Callee].main = "returned" => rtc'[Callee].main = "returned"
    BY <1>5, RtcEndsTell
  <2>2. \A k \in Copies : signals[Callee][k].at = "rebuild" => signals[Callee][k].prev = rtc[Callee].conn
    BY DEF RtcInv, SparesFit
  <2> QED
    BY <1>1, <1>5, <2>1, <2>2, SparesStay
<1> QED
  BY <1>6, <1>7, <1>8, <1>9, <1>10, <1>11, <1>12, <1>13 DEF RtcInv

LEMMA SendOfferKeeps == ASSUME RtcInv, SendOffer PROVE RtcInv'
<1> DEFINE m == SignalOf("offer", rtc[Caller].conn, rtc[Caller].rung, NoConn)
<1>1. UNCHANGED <<conns, signals, seenSig, strays, rtcFaults>> /\ rtc[Caller].main = "gather"
      /\ air' = air \cup {m} /\ aired' = aired \cup {m}
  BY DEF SendOffer
<1>2. m \in RtcSignal /\ m.type = "offer"
  <2>1. rtc[Caller] \in EndRecord
    BY RtcEndsTell
  <2> QED
    BY <2>1 DEF EndRecord, RtcSignal, SignalOf, NoConn
<1>3. rtc' \in [RtcEnds -> EndRecord]
  BY RtcEndsTell DEF SendOffer, EndRecord
<1>5. ASSUME NEW o \in RtcEnds
      PROVE  /\ rtc'[o].conn = rtc[o].conn /\ rtc'[o].pipe = rtc[o].pipe /\ rtc'[o].prev = rtc[o].prev
             /\ rtc'[o].rung = rtc[o].rung
             /\ rtc'[o].main = IF o = Caller THEN "returned" ELSE rtc[o].main
  BY RtcEndsTell DEF SendOffer, EndRecord
<1>9. OffersFit'
  <2>1. \A n \in aired : n.type # "offer"
    BY <1>1, OneOffer
  <2>2. rtc'[Caller].main = "returned"
        /\ m = SignalOf("offer", rtc'[Caller].conn, rtc'[Caller].rung, NoConn)
    BY <1>5, RtcEndsTell
  <2> QED
    BY <1>1, <2>1, <2>2 DEF OffersFit
<1> HIDE DEF m
<1>6. RtcShape'
  BY <1>1, <1>2, <1>3 DEF RtcInv, RtcShape
<1>7. NoneStrays' /\ CallerFits'
  BY <1>1, <1>5, ConnsStay
<1>8. AnswersFit'
  BY <1>1, <1>2 DEF RtcInv, AnswersFit
<1>10. ASSUME NEW o \in RtcEnds PROVE EndFits(o)'
  <2>1. EndFits(o)
    BY DEF RtcInv
  <2>2. o = Callee => rtc'[o].main = rtc[o].main
    BY <1>5, RtcEndsTell
  <2> QED
    BY <1>1, <1>5, <2>1, <2>2 DEF EndFits
<1>11. ASSUME NEW o \in RtcEnds, NEW k \in Copies PROVE HandlerFits(o, k)'
  <2>1. HandlerFits(o, k)
    BY DEF RtcInv
  <2>2. rtc'[o].main # "new" \/ rtc'[o].main = rtc[o].main
    BY <1>5
  <2> QED
    BY <1>1, <1>5, <2>1, <2>2 DEF HandlerFits
<1>12. ASSUME NEW k \in Copies PROVE WorkingFits(k)'
  <2>1. ~Working(k)
    BY <1>1, OneOffer DEF Working
  <2> QED
    BY <1>1, <2>1 DEF WorkingFits, Working
<1>13. SparesFit'
  <2>1. /\ rtc'[Caller].main \in {"new", "build"} => rtc'[Caller].prev = rtc[Caller].conn
        /\ rtc[Callee].main = "returned" => rtc'[Callee].main = "returned"
    BY <1>5, RtcEndsTell
  <2>2. \A k \in Copies : signals[Callee][k].at = "rebuild" => signals[Callee][k].prev = rtc[Callee].conn
    BY DEF RtcInv, SparesFit
  <2> QED
    BY <1>1, <1>5, <2>1, <2>2, SparesStay
<1> QED
  BY <1>6, <1>7, <1>8, <1>9, <1>10, <1>11, <1>12, <1>13 DEF RtcInv

LEMMA SignalArrivesKeeps ==
  ASSUME RtcInv, NEW e \in RtcEnds, NEW k \in Copies, NEW m \in air, SignalArrives(e, k, m) PROVE RtcInv'
<1> DEFINE at == IF rtc[e].conn = NoConn THEN "load" ELSE "handle"
           h == [Idle EXCEPT !.msg = m, !.at = at]
<1>1. /\ m \in aired /\ m \in RtcSignal /\ m.type = For(e) /\ rtc[e].main # "new" /\ air' \subseteq aired
      /\ signals[e][k].at = "idle"
      /\ UNCHANGED <<conns, rtc, seenSig, aired, strays, rtcFaults>>
  BY DEF SignalArrives, RtcInv, RtcShape
<1>2. CASE rtc[e].pipe # "open"
  <2>1. CalleeQuiet
    BY <1>1, <1>2, RtcEndsTell DEF SignalArrives, CalleeQuiet
  <2> QED
    BY <2>1, QuietKeeps
<1>3. CASE rtc[e].pipe = "open"
  <2>1. h \in HandlerRecord /\ h.msg = m /\ h.prev = 0 /\ h.at = at
    BY <1>1 DEF HandlerRecord, Idle, NoConn
  <2>2. signals' = [signals EXCEPT ![e][k] = h]
    BY <1>3 DEF SignalArrives
  <2>3. at = "load" => e = Callee
    <3>1. CASE e = Caller
      <4>1. m.type = "answer"
        BY <1>1, <3>1, RtcEndsTell DEF For
      <4>2. rtc[Caller].main = "returned" /\ EndFits(Caller)
        BY <1>1, <4>1, OneOffer, RtcEndsTell DEF RtcInv
      <4> QED
        BY <3>1, <4>2 DEF EndFits
    <3> QED
      BY <3>1 DEF RtcEnds
  <2>4. at \in {"load", "handle"} /\ (at = "handle" => rtc[e].conn # NoConn)
        /\ (at = "load" => rtc[e].conn = NoConn)
    OBVIOUS
  <2> HIDE DEF h, at
  <2>5. /\ signals' \in [RtcEnds -> [Copies -> HandlerRecord]]
        /\ \A o \in RtcEnds, j \in Copies : signals'[o][j] = IF o = e /\ j = k THEN h ELSE signals[o][j]
    <3>1. h \in HandlerRecord
      BY <2>1
    <3>2. /\ [signals EXCEPT ![e][k] = h] \in [RtcEnds -> [Copies -> HandlerRecord]]
          /\ \A o \in RtcEnds, j \in Copies :
               [signals EXCEPT ![e][k] = h][o][j] = IF o = e /\ j = k THEN h ELSE signals[o][j]
      BY <3>1, HandlerSet
    <3> QED
      BY <2>2, <3>2, SMT
  <2>6. RtcShape'
    BY <1>1, <2>5 DEF RtcInv, RtcShape
  <2>7. NoneStrays' /\ CallerFits' /\ AnswersFit' /\ OffersFit' /\ \A o \in RtcEnds : EndFits(o)'
    BY <1>1 DEF RtcInv, NoneStrays, CallerFits, AnswersFit, OffersFit, EndFits
  <2>8. ASSUME NEW o \in RtcEnds, NEW j \in Copies PROVE HandlerFits(o, j)'
    <3>1. HandlerFits(o, j)
      BY DEF RtcInv
    <3>2. CASE o = e /\ j = k
      <4>1. signals'[o][j] = h /\ 0 \in 0..Len(conns)
        BY <2>5, <3>2 DEF RtcInv, RtcShape
      <4> QED
        BY <1>1, <2>1, <2>3, <2>4, <3>2, <4>1 DEF HandlerFits, For
    <3>3. CASE ~(o = e /\ j = k)
      <4>1. signals'[o][j] = signals[o][j]
        BY <2>5, <3>3
      <4> QED
        BY <1>1, <3>1, <4>1 DEF HandlerFits, For
    <3> QED
      BY <3>2, <3>3
  <2>9. ASSUME NEW j \in Copies, Working(j)' PROVE WorkingFits(j)'
    <3>1. signals'[Callee][j] = signals[Callee][j] /\ ~(e = Callee /\ j = k)
      BY <2>1, <2>4, <2>5, <2>9, RtcEndsTell DEF Working
    <3>2. Working(j) /\ WorkingFits(j) /\ HandlerFits(Callee, j)
      BY <2>9, <3>1, RtcEndsTell DEF RtcInv, Working
    <3>3. rtc[Callee].conn # NoConn
      BY <3>2 DEF HandlerFits, Working
    <3>4. \A i \in Copies : signals'[Callee][i].at # "load" /\ (i # j => ~Working(i)')
      <4> TAKE i \in Copies
      <4>1. CASE e = Callee /\ i = k
        <5>1. signals'[Callee][i].at = at /\ at = "handle"
          BY <2>1, <2>4, <2>5, <3>3, <4>1
        <5> QED
          BY <5>1 DEF Working
      <4>2. CASE ~(e = Callee /\ i = k)
        <5>1. signals'[Callee][i] = signals[Callee][i]
          BY <2>5, <4>2, RtcEndsTell
        <5> QED
          BY <3>2, <5>1 DEF WorkingFits, Working
      <4> QED
        BY <4>1, <4>2
    <3> QED
      BY <1>1, <3>1, <3>2, <3>4 DEF WorkingFits
  <2>10. \A j \in Copies : WorkingFits(j)'
    BY <2>9 DEF WorkingFits
  <2>11. \A j \in Copies :
           /\ signals'[Callee][j].at = "load" => signals[Callee][j].at = "load" \/ rtc[Callee].conn = NoConn
           /\ signals'[Callee][j].at = "rebuild" => signals'[Callee][j].prev = rtc[Callee].conn
    <3> TAKE j \in Copies
    <3>1. CASE e = Callee /\ j = k
      BY <2>1, <2>4, <2>5, <3>1, RtcEndsTell
    <3>2. CASE ~(e = Callee /\ j = k)
      <4>1. signals'[Callee][j] = signals[Callee][j]
        BY <2>5, <3>2, RtcEndsTell
      <4> QED
        BY <4>1 DEF RtcInv, SparesFit
    <3> QED
      BY <3>1, <3>2
  <2>12. SparesFit'
    <3>1. rtc[Caller].main \in {"new", "build"} => rtc[Caller].prev = rtc[Caller].conn
      BY DEF RtcInv, SparesFit
    <3> QED
      BY <1>1, <2>11, <3>1, SparesStay
  <2> QED
    BY <2>6, <2>7, <2>8, <2>10, <2>12 DEF RtcInv
<1> QED
  BY <1>2, <1>3

LEMMA HandleKeeps ==
  ASSUME RtcInv, NEW e \in RtcEnds, NEW k \in Copies, Handle(e, k) PROVE RtcInv'
<1> DEFINE m == signals[e][k].msg
           repeated == m \in seenSig[e]
           stable == e = Caller /\ conns[rtc[e].conn].remote # NoConn
           rebuilds == e = Callee /\ m.rung # rtc[e].rung
           h == IF repeated \/ stable THEN [signals[e][k] EXCEPT !.at = "done"]
                ELSE IF rebuilds THEN [signals[e][k] EXCEPT !.at = "rebuild", !.prev = rtc[e].conn]
                ELSE [signals[e][k] EXCEPT !.at = "apply"]
<1>1. /\ signals[e][k].at = "handle" /\ BothBuilt(e) /\ seenSig' = [seenSig EXCEPT ![e] = @ \cup {m}]
      /\ signals' = [signals EXCEPT ![e][k] = h]
      /\ rtc' = IF rebuilds /\ ~repeated THEN [rtc EXCEPT ![e].rung = Clamp(e, m.rung)] ELSE rtc
      /\ UNCHANGED <<conns, air, aired, strays, rtcFaults>>
  BY DEF Handle
<1>2. /\ HandlerFits(e, k) /\ signals[e][k] \in HandlerRecord /\ rtc[e] \in EndRecord
      /\ EndFits(e) /\ conns \in Seq(PeerConnection)
  BY RtcEndsTell DEF RtcInv, RtcShape
<1>3. m \in aired /\ m.type = For(e) /\ m \in RtcSignal /\ rtc[e].conn # NoConn /\ rtc[e].main # "new"
  BY <1>1, <1>2 DEF HandlerFits, RtcInv, RtcShape
<1>4. /\ h \in HandlerRecord /\ h.msg = m /\ h.prev \in {signals[e][k].prev, rtc[e].conn}
      /\ h.at \in {"done", "rebuild", "apply"} /\ (h.at = "rebuild" => e = Callee)
      /\ (h.at # "done" => ~repeated) /\ (h.at = "rebuild" => h.prev = rtc[e].conn)
  <2>1. rtc[e].conn \in Nat
    BY <1>2 DEF EndRecord
  <2> QED
    BY <1>2, <2>1 DEF HandlerRecord
<1>5. /\ rtc' \in [RtcEnds -> EndRecord]
      /\ \A o \in RtcEnds : /\ rtc'[o].conn = rtc[o].conn /\ rtc'[o].prev = rtc[o].prev
                            /\ rtc'[o].pipe = rtc[o].pipe /\ rtc'[o].main = rtc[o].main
                            /\ rtc'[o].rung \in 0..LadderTop[o]
                            /\ o = Caller => rtc'[o].rung = rtc[o].rung
  <2>1. CASE rebuilds /\ ~repeated
    <3>0. rtc' = [rtc EXCEPT ![e].rung = Clamp(e, m.rung)] /\ e = Callee
      BY <1>1, <2>1
    <3>1. m.rung \in Nat /\ LadderTop[e] \in Nat
      BY <1>3, RtcAssumption DEF RtcSignal, RtcEnds
    <3>2. Clamp(e, m.rung) \in 0..LadderTop[e] /\ Clamp(e, m.rung) \in Nat
      BY <3>1 DEF Clamp
    <3>3. [rtc[e] EXCEPT !.rung = Clamp(e, m.rung)] \in EndRecord
      BY <1>2, <3>2 DEF EndRecord
    <3>4. rtc' \in [RtcEnds -> EndRecord]
      BY <3>0, <3>3, RtcEndsTell
    <3>5. ASSUME NEW o \in RtcEnds
          PROVE  /\ rtc'[o].conn = rtc[o].conn /\ rtc'[o].prev = rtc[o].prev
                 /\ rtc'[o].pipe = rtc[o].pipe /\ rtc'[o].main = rtc[o].main
                 /\ rtc'[o].rung = IF o = e THEN Clamp(e, m.rung) ELSE rtc[o].rung
      BY <3>0, RtcEndsTell DEF EndRecord
    <3>6. \A o \in RtcEnds : rtc[o].rung \in 0..LadderTop[o]
      BY DEF RtcInv, EndFits
    <3>7. e # Caller
      BY <3>0, RtcEndsTell
    <3> HIDE DEF m, rebuilds, repeated
    <3> QED
      BY <3>2, <3>4, <3>5, <3>6, <3>7
  <2>2. CASE ~(rebuilds /\ ~repeated)
    <3>1. rtc' = rtc
      BY <1>1, <2>2
    <3>2. \A o \in RtcEnds : rtc[o].rung \in 0..LadderTop[o]
      BY DEF RtcInv, EndFits
    <3> QED
      BY <3>1, <3>2, RtcEndsTell
  <2> QED
    BY <2>1, <2>2
<1>a. ~repeated => m \notin seenSig[e]
  OBVIOUS
<1> HIDE DEF m, h, repeated, rebuilds, stable
<1>6. /\ signals' \in [RtcEnds -> [Copies -> HandlerRecord]]
      /\ \A o \in RtcEnds, j \in Copies : signals'[o][j] = IF o = e /\ j = k THEN h ELSE signals[o][j]
  <2>1. h \in HandlerRecord
    BY <1>4
  <2>2. /\ [signals EXCEPT ![e][k] = h] \in [RtcEnds -> [Copies -> HandlerRecord]]
        /\ \A o \in RtcEnds, j \in Copies :
             [signals EXCEPT ![e][k] = h][o][j] = IF o = e /\ j = k THEN h ELSE signals[o][j]
    BY <2>1, HandlerSet
  <2> QED
    BY <1>1, <2>2, SMT
<1>7. seenSig' \in [RtcEnds -> SUBSET RtcSignal]
      /\ \A o \in RtcEnds : seenSig[o] \subseteq seenSig'[o] /\ (o = e => m \in seenSig'[o])
  <2>1. seenSig \in [RtcEnds -> SUBSET RtcSignal]
    BY DEF RtcInv, RtcShape
  <2> QED
    BY <1>1, <1>3, <2>1
<1>8. RtcShape'
  BY <1>1, <1>5, <1>6, <1>7 DEF RtcInv, RtcShape
<1>9. NoneStrays' /\ CallerFits'
  BY <1>1, <1>5, ConnsStay
<1>10. AnswersFit'
  BY <1>1 DEF RtcInv, AnswersFit
<1>11. OffersFit'
  BY <1>1, <1>5, RtcEndsTell DEF RtcInv, OffersFit
<1>12. ASSUME NEW o \in RtcEnds PROVE EndFits(o)'
  <2>1. EndFits(o)
    BY DEF RtcInv
  <2> QED
    BY <1>1, <1>5, <2>1 DEF EndFits
<1>13. ASSUME NEW o \in RtcEnds, NEW j \in Copies PROVE HandlerFits(o, j)'
  <2>1. HandlerFits(o, j)
    BY DEF RtcInv
  <2>2. CASE o = e /\ j = k
    <3>1. signals'[o][j] = h
      BY <1>6, <2>2
    <3>2. h.prev \in 0..Len(conns)
      BY <1>2, <1>4 DEF HandlerFits, EndFits
    <3> QED
      BY <1>1, <1>3, <1>4, <1>5, <2>2, <3>1, <3>2 DEF HandlerFits, For
  <2>3. CASE ~(o = e /\ j = k)
    <3>1. signals'[o][j] = signals[o][j]
      BY <1>6, <2>3
    <3> QED
      BY <1>1, <1>5, <2>1, <3>1 DEF HandlerFits, For
  <2> QED
    BY <2>2, <2>3
<1>14. ASSUME NEW j \in Copies, Working(j)' PROVE WorkingFits(j)'
  <2>0. \A i \in Copies : WorkingFits(i)
    BY DEF RtcInv
  <2>1. CASE e = Caller
    <3>1. \A i \in Copies : signals'[Callee][i] = signals[Callee][i]
      BY <1>6, <2>1, RtcEndsTell
    <3>2. Working(j) /\ WorkingFits(j)
      BY <1>14, <2>0, <3>1 DEF Working
    <3> QED
      BY <1>1, <1>5, <1>7, <3>1, <3>2, RtcEndsTell DEF WorkingFits, Working
  <2>2. CASE e = Callee /\ h.at = "done"
    <3>1. \A i \in Copies : signals'[Callee][i].at # signals[Callee][i].at => signals'[Callee][i].at = "done"
      BY <1>6, <2>2
    <3>2. Working(j) /\ WorkingFits(j) /\ j # k
      BY <1>1, <1>14, <2>0, <2>2, <3>1 DEF Working
    <3>3. signals'[Callee][j] = signals[Callee][j]
      BY <1>6, <3>2, RtcEndsTell
    <3> QED
      BY <1>1, <1>5, <1>7, <3>1, <3>2, <3>3, RtcEndsTell DEF WorkingFits, Working
  <2>3. CASE e = Callee /\ h.at # "done"
    <3>1. m \notin seenSig[Callee] /\ m.type = "offer"
      BY <1>3, <1>4, <1>a, <2>3 DEF For
    <3>2. ASSUME NEW i \in Copies PROVE ~Working(i)
      <4>1. Working(i) => signals[Callee][i].msg \in seenSig[Callee] /\ signals[Callee][i].msg = m
        BY <1>3, <2>0, <3>1, OneOffer DEF WorkingFits, Working
      <4> QED
        BY <3>1, <4>1
    <3>3. j = k /\ signals'[Callee][j] = h
      BY <1>6, <1>14, <2>3, <3>2, RtcEndsTell DEF Working
    <3>4. \A i \in Copies : signals'[Callee][i].at # "load" /\ (i # j => ~Working(i)')
      <4>1. \A i \in Copies : signals[Callee][i].at # "load"
        BY <1>1, <2>3 DEF BothBuilt
      <4>2. \A i \in Copies : i # k => signals'[Callee][i] = signals[Callee][i]
        BY <1>6, RtcEndsTell
      <4> QED
        BY <1>4, <3>2, <3>3, <4>1, <4>2 DEF Working
    <3>5. rtc'[Callee].main = "returned"
      BY <1>1, <1>2, <1>3, <1>5, <2>3 DEF BothBuilt, EndFits
    <3>6. signals'[Callee][j].msg \in seenSig'[Callee]
      BY <1>4, <1>7, <2>3, <3>3
    <3> QED
      BY <1>4, <3>3, <3>4, <3>5, <3>6 DEF WorkingFits
  <2> QED
    BY <2>1, <2>2, <2>3 DEF RtcEnds
<1>15. \A j \in Copies : WorkingFits(j)'
  BY <1>14 DEF WorkingFits
<1>16. \A j \in Copies :
         /\ signals'[Callee][j].at = "load" => signals[Callee][j].at = "load"
         /\ signals'[Callee][j].at = "rebuild" => signals'[Callee][j].prev = rtc[Callee].conn
  <2> TAKE j \in Copies
  <2>1. CASE e = Callee /\ j = k
    BY <1>4, <1>6, <2>1, RtcEndsTell
  <2>2. CASE ~(e = Callee /\ j = k)
    <3>1. signals'[Callee][j] = signals[Callee][j]
      BY <1>6, <2>2, RtcEndsTell
    <3> QED
      BY <3>1 DEF RtcInv, SparesFit
  <2> QED
    BY <2>1, <2>2
<1>17. SparesFit'
  <2>1. rtc[Caller].main \in {"new", "build"} => rtc[Caller].prev = rtc[Caller].conn
    BY DEF RtcInv, SparesFit
  <2>2. rtc'[Caller].main = rtc[Caller].main /\ rtc'[Caller].prev = rtc[Caller].prev
        /\ rtc'[Callee].main = rtc[Callee].main
    BY <1>5, RtcEndsTell
  <2> QED
    BY <1>1, <1>5, <1>16, <2>1, <2>2, SparesStay
<1> QED
  BY <1>8, <1>9, <1>10, <1>11, <1>12, <1>13, <1>15, <1>17 DEF RtcInv

LEMMA SendAnswerKeeps == ASSUME RtcInv, NEW k \in Copies, SendAnswer(k) PROVE RtcInv'
<1> DEFINE s == signals[Callee][k]
           m == SignalOf("answer", rtc[Callee].conn, rtc[Callee].rung, s.msg.conn)
<1>1. s.at = "send" /\ UNCHANGED <<conns, rtc, seenSig, strays, rtcFaults>>
      /\ signals' = [signals EXCEPT ![Callee][k].at = "done"]
  BY DEF SendAnswer
<1>2. \/ ~Current(k) /\ air' = air /\ aired' = aired
      \/ Current(k) /\ air' = air \cup {m} /\ aired' = aired \cup {m}
  BY DEF SendAnswer
<1>3. /\ signals' \in [RtcEnds -> [Copies -> HandlerRecord]]
      /\ \A o \in RtcEnds, j \in Copies :
              /\ signals'[o][j].msg = signals[o][j].msg /\ signals'[o][j].prev = signals[o][j].prev
              /\ \/ signals'[o][j].at = signals[o][j].at
                 \/ signals'[o][j].at = "done" /\ signals[o][j].at # "idle"
  BY <1>1, HandlerEnds, RtcEndsTell
<1>4. CASE air' = air /\ aired' = aired
  <2>1. CalleeQuiet
    BY <1>1, <1>3, <1>4, RtcEndsTell DEF CalleeQuiet
  <2> QED
    BY <2>1, QuietKeeps
<1>5. CASE Current(k) /\ air' = air \cup {m} /\ aired' = aired \cup {m}
  <2>1. /\ s.msg \in aired /\ s.msg.type = "offer" /\ s.msg.rung = rtc[Callee].rung
        /\ s.msg = SignalOf("offer", s.msg.conn, s.msg.rung, NoConn)
    BY <1>1, <1>5, OneOffer DEF Current
  <2>2. /\ rtc[Callee].conn \in 1..Len(conns) /\ conns[rtc[Callee].conn].own = Callee
        /\ conns[rtc[Callee].conn].remote = s.msg.conn
    <3>1. EndFits(Callee) /\ HandlerFits(Callee, k) /\ WorkingFits(k) /\ Len(conns) \in Nat
      BY RtcEndsTell DEF RtcInv, RtcShape
    <3>2. rtc[Callee].conn # NoConn
      BY <1>1, <3>1 DEF HandlerFits
    <3> QED
      BY <1>1, <3>1, <3>2 DEF EndFits, WorkingFits, Working, NoConn
  <2>3. /\ m.type = "answer" /\ m.to = s.msg.conn /\ m.rung = s.msg.rung /\ m.conn = rtc[Callee].conn
        /\ m \in RtcSignal
    <3>1. rtc[Callee] \in EndRecord /\ s.msg \in RtcSignal
      BY <2>1, RtcEndsTell DEF RtcInv, RtcShape
    <3> QED
      BY <2>1, <3>1 DEF EndRecord, RtcSignal, SignalOf
  <2> HIDE DEF m
  <2>4. AnswersFit'
    <3> SUFFICES ASSUME NEW n \in aired', n.type = "answer"
                 PROVE  /\ SignalOf("offer", n.to, n.rung, NoConn) \in aired'
                        /\ n.conn \in 1..Len(conns) /\ conns[n.conn].own = Callee
                        /\ conns[n.conn].remote = n.to
      BY <1>1 DEF AnswersFit
    <3>1. CASE n = m
      BY <1>5, <2>1, <2>2, <2>3, <3>1
    <3>2. CASE n # m
      BY <1>5, <3>2 DEF RtcInv, AnswersFit
    <3> QED
      BY <3>1, <3>2
  <2>5. OffersFit'
    BY <1>1, <1>5, <2>3 DEF RtcInv, OffersFit
  <2>6. NoneStrays' /\ CallerFits'
    BY <1>1, <1>5, ConnsStay
  <2>7. RtcShape'
    BY <1>1, <1>3, <1>5, <2>3 DEF RtcInv, RtcShape
  <2>8. \A o \in RtcEnds : EndFits(o)'
    BY <1>1 DEF RtcInv, EndFits
  <2>9. ASSUME NEW o \in RtcEnds, NEW j \in Copies PROVE HandlerFits(o, j)'
    <3>1. HandlerFits(o, j)
      BY DEF RtcInv
    <3> QED
      BY <1>1, <1>3, <1>5, <3>1 DEF HandlerFits, For
  <2>10. ASSUME NEW j \in Copies PROVE WorkingFits(j)'
    <3>1. WorkingFits(j)
      BY DEF RtcInv
    <3>2. \A i \in Copies : /\ Working(i)' => Working(i) /\ signals'[Callee][i].at = signals[Callee][i].at
                            /\ signals'[Callee][i].at = "load" => signals[Callee][i].at = "load"
                            /\ signals'[Callee][i].msg = signals[Callee][i].msg
      BY <1>3, RtcEndsTell DEF Working
    <3> QED
      BY <1>1, <3>1, <3>2 DEF WorkingFits
  <2>11. SparesFit'
    <3>1. rtc[Caller].main \in {"new", "build"} => rtc[Caller].prev = rtc[Caller].conn
      BY DEF RtcInv, SparesFit
    <3>2. \A j \in Copies :
            /\ signals'[Callee][j].at = "load" => signals[Callee][j].at = "load"
            /\ signals'[Callee][j].at = "rebuild" => signals'[Callee][j].prev = rtc[Callee].conn
      <4>1. \A j \in Copies : signals[Callee][j].at = "rebuild" => signals[Callee][j].prev = rtc[Callee].conn
        BY DEF RtcInv, SparesFit
      <4> QED
        BY <1>3, <4>1, RtcEndsTell
    <3> QED
      BY <1>1, <3>1, <3>2, SparesStay
  <2> QED
    BY <2>4, <2>5, <2>6, <2>7, <2>8, <2>9, <2>10, <2>11 DEF RtcInv
<1> QED
  BY <1>2, <1>4, <1>5

LEMMA ApplyKeeps ==
  ASSUME RtcInv, NEW e \in RtcEnds, NEW k \in Copies, Apply(e, k) PROVE RtcInv'
<1> DEFINE c == rtc[e].conn
           m == signals[e][k].msg
           h == [signals[e][k] EXCEPT !.at = IF e = Callee THEN "answer" ELSE "done"]
<1>1. signals[e][k].at = "apply" /\ UNCHANGED <<seenSig, air, aired, strays, rtcFaults>>
  BY DEF Apply
<1>2. CASE SignalFails(e, k)
  <2>1. rtcFaults' \in 0..MaxSignalFaults /\ signals[e][k].at # "idle"
    BY <1>1, RtcEndsTell
  <2> QED
    BY <1>1, <1>2, <2>1, SignalFailsKeeps
<1>3. CASE /\ conns' = [conns EXCEPT ![c].remote = m.conn] /\ rtc' = rtc
           /\ signals' = [signals EXCEPT ![e][k].at = IF e = Callee THEN "answer" ELSE "done"]
  <2>1. /\ HandlerFits(e, k) /\ signals[e][k] \in HandlerRecord /\ EndFits(e)
        /\ conns \in Seq(PeerConnection) /\ Len(conns) \in Nat /\ Len(conns) <= MaxConns /\ MaxConns \in Nat
        /\ NoConn = 0
    BY RtcEndsTell, RtcAssumption DEF RtcInv, RtcShape, NoConn
  <2>2. /\ c \in 1..Len(conns) /\ conns[c].own = e /\ m \in aired /\ m.type = For(e)
    BY <1>1, <2>1 DEF HandlerFits, EndFits
  <2>3. m.conn \in 0..MaxConns
    <3>1. CASE m.type = "offer"
      <4>1. m.conn = rtc[Caller].conn /\ EndFits(Caller)
        BY <2>2, <3>1, OneOffer, RtcEndsTell DEF RtcInv
      <4> QED
        BY <2>1, <4>1 DEF EndFits
    <3>2. CASE m.type = "answer"
      <4>1. m.conn \in 1..Len(conns)
        BY <2>2, <3>2 DEF RtcInv, AnswersFit
      <4> QED
        BY <2>1, <4>1
    <3> QED
      BY <2>2, <3>1, <3>2 DEF For
  <2>4. /\ h \in HandlerRecord /\ h.msg = m /\ h.prev = signals[e][k].prev
        /\ h.at = IF e = Callee THEN "answer" ELSE "done"
    BY <2>1 DEF HandlerRecord
  <2>5. signals' = [signals EXCEPT ![e][k] = h]
    BY <1>3
  <2>a. For(e) = IF e = Callee THEN "offer" ELSE "answer"
    BY DEF For
  <2> HIDE DEF h, m, c
  <2>6. /\ signals' \in [RtcEnds -> [Copies -> HandlerRecord]]
        /\ \A o \in RtcEnds, j \in Copies : signals'[o][j] = IF o = e /\ j = k THEN h ELSE signals[o][j]
    <3>1. h \in HandlerRecord
      BY <2>4
    <3>2. /\ [signals EXCEPT ![e][k] = h] \in [RtcEnds -> [Copies -> HandlerRecord]]
          /\ \A o \in RtcEnds, j \in Copies :
               [signals EXCEPT ![e][k] = h][o][j] = IF o = e /\ j = k THEN h ELSE signals[o][j]
      BY <3>1, HandlerSet
    <3> QED
      BY <2>5, <3>2, SMT
  <2>7. conns' \in Seq(PeerConnection) /\ Len(conns') = Len(conns)
    <3>1. conns[c] \in PeerConnection
      BY <2>1, <2>2
    <3>2. [conns[c] EXCEPT !.remote = m.conn] \in PeerConnection
      BY <2>3, <3>1 DEF PeerConnection
    <3>3. conns' = [conns EXCEPT ![c] = [conns[c] EXCEPT !.remote = m.conn]]
      BY <1>3
    <3> QED
      BY <2>1, <2>2, <3>2, <3>3
  <2>8. ASSUME NEW p \in 1..Len(conns)
        PROVE  /\ conns'[p].own = conns[p].own /\ conns'[p].open = conns[p].open
               /\ conns'[p].attached = conns[p].attached
               /\ conns'[p].remote = IF p = c THEN m.conn ELSE conns[p].remote
    <3>1. conns[p] \in PeerConnection /\ p \in DOMAIN conns
      BY <2>1
    <3>2. CASE p = c
      <4>1. conns'[p] = [conns[p] EXCEPT !.remote = m.conn]
        BY <1>3, <3>1, <3>2
      <4> QED
        BY <3>1, <3>2, <4>1 DEF PeerConnection
    <3>3. CASE p # c
      BY <1>3, <3>1, <3>3
    <3> QED
      BY <3>2, <3>3
  <2>9. RtcShape'
    BY <1>1, <1>3, <2>6, <2>7 DEF RtcInv, RtcShape
  <2>10. NoneStrays'
    BY <1>1, <1>3, <2>7, <2>8 DEF RtcInv, NoneStrays
  <2>11. OffersFit'
    BY <1>1, <1>3 DEF RtcInv, OffersFit
  <2>12. ASSUME NEW o \in RtcEnds PROVE EndFits(o)'
    <3>1. EndFits(o)
      BY DEF RtcInv
    <3>2. rtc[o].conn # NoConn => rtc[o].conn \in 1..Len(conns)
      BY <2>1, <3>1 DEF EndFits
    <3>3. rtc[o].conn # NoConn => conns'[rtc[o].conn].own = o
      BY <2>8, <3>1, <3>2 DEF EndFits
    <3> QED
      BY <1>3, <2>7, <3>1, <3>3 DEF EndFits
  <2>13. AnswersFit'
    <3> SUFFICES ASSUME NEW n \in aired, n.type = "answer"
                 PROVE  /\ SignalOf("offer", n.to, n.rung, NoConn) \in aired
                        /\ n.conn \in 1..Len(conns') /\ conns'[n.conn].own = Callee
                        /\ conns'[n.conn].remote = n.to
      BY <1>1 DEF AnswersFit
    <3>1. /\ SignalOf("offer", n.to, n.rung, NoConn) \in aired
          /\ n.conn \in 1..Len(conns) /\ conns[n.conn].own = Callee /\ conns[n.conn].remote = n.to
      BY DEF RtcInv, AnswersFit
    <3>2. n.conn = c => m.conn = n.to
      <4>1. ASSUME n.conn = c PROVE m.type = "offer"
        BY <2>2, <2>a, <3>1, <4>1
      <4>2. m.type = "offer" => m.conn = rtc[Caller].conn
        BY <2>2, OneOffer
      <4>3. n.to = rtc[Caller].conn
        BY OneOffer
      <4> QED
        BY <4>1, <4>2, <4>3
    <3>3. conns'[n.conn].own = Callee /\ conns'[n.conn].remote = n.to
      BY <2>8, <3>1, <3>2
    <3> QED
      BY <2>7, <3>1, <3>3
  <2>14. CallerFits'
    <3> SUFFICES ASSUME NEW p \in 1..Len(conns), conns'[p].own = Caller, conns'[p].remote # NoConn
                 PROVE  \E n \in aired : n.type = "answer" /\ n.conn = conns'[p].remote /\ n.to = p
      BY <1>1, <2>7 DEF CallerFits
    <3>1. conns[p].own = Caller
      BY <2>8
    <3>2. CASE p = c
      <4>1. e = Caller /\ m.type = "answer" /\ conns'[p].remote = m.conn
        BY <2>2, <2>8, <2>a, <3>1, <3>2, RtcEndsTell
      <4>2. m.to = c
        BY <2>2, <4>1, OneOffer DEF c
      <4> QED
        BY <2>2, <3>2, <4>1, <4>2
    <3>3. CASE p # c
      <4>1. conns'[p].remote = conns[p].remote
        BY <2>8, <3>3
      <4> QED
        BY <3>1, <4>1 DEF RtcInv, CallerFits
    <3> QED
      BY <3>2, <3>3
  <2>15. ASSUME NEW o \in RtcEnds, NEW j \in Copies PROVE HandlerFits(o, j)'
    <3>1. HandlerFits(o, j)
      BY DEF RtcInv
    <3>2. CASE o = e /\ j = k
      <4>1. signals'[o][j] = h
        BY <2>6, <3>2
      <4>2. h.at \in {"answer", "done"} /\ (h.at = "answer" => o = Callee)
        BY <2>4, <3>2
      <4> QED
        BY <1>1, <1>3, <2>2, <2>4, <2>7, <3>1, <3>2, <4>1, <4>2 DEF HandlerFits
    <3>3. CASE ~(o = e /\ j = k)
      <4>1. signals'[o][j] = signals[o][j]
        BY <2>6, <3>3
      <4> QED
        BY <1>1, <1>3, <2>7, <3>1, <4>1 DEF HandlerFits, For
    <3> QED
      BY <3>2, <3>3
  <2>16. ASSUME NEW j \in Copies, Working(j)' PROVE WorkingFits(j)'
    <3>1. \A i \in Copies : /\ signals'[Callee][i].msg = signals[Callee][i].msg
                            /\ Working(i)' => Working(i)
                            /\ signals'[Callee][i].at = "load" => signals[Callee][i].at = "load"
                            /\ signals'[Callee][i].at = signals[Callee][i].at \/ (e = Callee /\ i = k)
      <4> TAKE i \in Copies
      <4>1. CASE e = Callee /\ i = k
        BY <1>1, <2>4, <2>6, <4>1, RtcEndsTell DEF Working, m
      <4>2. CASE ~(e = Callee /\ i = k)
        <5>1. signals'[Callee][i] = signals[Callee][i]
          BY <2>6, <4>2, RtcEndsTell
        <5> QED
          BY <5>1 DEF Working
      <4> QED
        BY <4>1, <4>2
    <3>2. Working(j) /\ WorkingFits(j)
      BY <2>16, <3>1 DEF RtcInv
    <3>3. signals'[Callee][j].at \in {"answer", "gather", "send"} =>
            conns'[rtc[Callee].conn].remote = signals'[Callee][j].msg.conn
      <4>1. CASE e = Callee
        <5>1. Working(k) /\ j = k
          BY <1>1, <3>2, <4>1 DEF WorkingFits, Working
        <5>2. signals'[Callee][j].msg = m /\ rtc[Callee].conn = c
          BY <3>1, <4>1, <5>1 DEF m, c
        <5> QED
          BY <2>2, <2>8, <5>2
      <4>2. CASE e # Callee
        <5>1. signals'[Callee][j].at = signals[Callee][j].at /\ signals'[Callee][j].msg = signals[Callee][j].msg
          BY <3>1, <4>2
        <5>2. rtc[Callee].conn \in 1..Len(conns) /\ conns[rtc[Callee].conn].own = Callee
          <6>1. EndFits(Callee) /\ HandlerFits(Callee, j)
            BY RtcEndsTell DEF RtcInv
          <6> QED
            BY <2>1, <3>2, <6>1 DEF EndFits, HandlerFits, Working
        <5>3. conns'[rtc[Callee].conn].remote = conns[rtc[Callee].conn].remote
          BY <2>2, <2>8, <4>2, <5>2
        <5> QED
          BY <3>2, <5>1, <5>3 DEF WorkingFits
      <4> QED
        BY <4>1, <4>2
    <3> QED
      BY <1>1, <1>3, <3>1, <3>2, <3>3 DEF WorkingFits
  <2>17. \A j \in Copies : WorkingFits(j)'
    BY <2>16 DEF WorkingFits
  <2>18. SparesFit'
    <3>0. SparesFit /\ EndFits(Callee)
          /\ Caller \in RtcEnds /\ Callee \in RtcEnds /\ Caller # Callee
      BY RtcEndsTell DEF RtcInv
    <3>1. ASSUME NEW p \in 1..Len(conns') PROVE SpareFits(p)'
      <4>1. SpareFits(p) /\ p \in 1..Len(conns)
        BY <2>7, <3>0 DEF SparesFit
      <4>2. p = c => p = rtc[conns[p].own].conn
        BY <2>2 DEF c
      <4> QED
        BY <1>3, <2>8, <4>1, <4>2 DEF SpareFits
    <3>2. \A j \in Copies : /\ signals'[Callee][j].at \in {"load", "rebuild"} => signals'[Callee][j] = signals[Callee][j]
                            /\ signals[Callee][j].at # "load" => signals'[Callee][j].at # "load"
      <4> TAKE j \in Copies
      <4>1. CASE e = Callee /\ j = k
        BY <2>4, <2>6, <4>1, <3>0
      <4>2. CASE ~(e = Callee /\ j = k)
        BY <2>6, <4>2, <3>0
      <4> QED
        BY <4>1, <4>2
    <3>3. rtc[Callee].conn # NoConn /\ conns'[rtc[Callee].conn].remote # NoConn =>
            rtc[Callee].main = "returned" /\ \A j \in Copies : signals[Callee][j].at # "load"
      <4>1. CASE e = Callee
        <5>1. Working(k) /\ WorkingFits(k)
          BY <1>1, <4>1 DEF Working, RtcInv
        <5> QED
          BY <5>1 DEF WorkingFits
      <4>2. CASE e # Callee
        <5>1. rtc[Callee].conn # NoConn => rtc[Callee].conn \in 1..Len(conns) /\ rtc[Callee].conn # c
          BY <2>1, <2>2, <3>0, <4>2 DEF EndFits
        <5> QED
          BY <2>8, <3>0, <5>1 DEF SparesFit
      <4> QED
        BY <4>1, <4>2
    <3> QED
      BY <1>3, <3>0, <3>1, <3>2, <3>3 DEF SparesFit
  <2> QED
    BY <2>9, <2>10, <2>11, <2>12, <2>13, <2>14, <2>15, <2>17, <2>18 DEF RtcInv
<1> QED
  BY <1>1, <1>2, <1>3 DEF Apply

LEMMA RtcStutters == ASSUME RtcInv, UNCHANGED rtcVars PROVE RtcInv'
<1>1. CalleeQuiet
  BY RtcEndsTell DEF rtcVars, CalleeQuiet
<1> QED
  BY <1>1, QuietKeeps

LEMMA RtcStep == ASSUME RtcInv, NextRtc PROVE RtcInv'
<1>1. CASE CreateOffer \/ Escalate \/ SendOffer \/ OfferNotSent \/ GatheringOverdue \/ ChannelTimeout
  BY <1>1, CreateOfferKeeps, EscalateKeeps, SendOfferKeeps, OfferNotSentKeeps, PipeClosesKeeps
<1>2. ASSUME NEW e \in RtcEnds, Begin(e) \/ MainBuilt(e) \/ ChannelsOpen(e) \/ CloseFromOutside(e) PROVE RtcInv'
  BY <1>2, BeginKeeps, MainBuiltKeeps, ChannelsOpenKeeps, PipeClosesKeeps
<1>3. ASSUME NEW e \in RtcEnds, NEW ok \in BOOLEAN, Shaken(e, ok) PROVE RtcInv'
  BY <1>3, ShakenKeeps
<1>4. ASSUME NEW e \in RtcEnds, NEW k \in Copies, SignalGoesOn(e, k) PROVE RtcInv'
  BY <1>4, SignalBuiltKeeps, HandleKeeps, ApplyKeeps DEF SignalGoesOn
<1>5. ASSUME NEW e \in RtcEnds, NEW k \in Copies, NEW m \in air, SignalArrives(e, k, m) PROVE RtcInv'
  BY <1>5, SignalArrivesKeeps
<1>6. ASSUME NEW k \in Copies, AnswerGoesOn(k) \/ AnswerOverdue(k) \/ AnswerNotSent(k) PROVE RtcInv'
  BY <1>6, CreateAnswerKeeps, AnswerGatheredKeeps, SendAnswerKeeps, AnswerOverdueKeeps,
     AnswerNotSentKeeps DEF AnswerGoesOn
<1>7. ASSUME NEW p \in DOMAIN conns, StateFails(p) PROVE RtcInv'
  BY <1>7, PipeClosesKeeps
<1>8. ASSUME NEW m \in aired, SignalLost(m) \/ SignalRepeated(m) PROVE RtcInv'
  BY <1>8, SignalLostKeeps
<1> QED
  BY <1>1, <1>2, <1>3, <1>4, <1>5, <1>6, <1>7, <1>8, Zenon DEF NextRtc

\* A connection whose failure closes the pipe is attached: it is the pipe's current one.
LEMMA FailsCurrent ==
  ASSUME RtcInv, NEW p \in DOMAIN conns, StateFails(p) PROVE p = rtc[conns[p].own].conn
<1>1. p \in 1..Len(conns) /\ SpareFits(p)
  BY DEF RtcInv, RtcShape, SparesFit
<1> QED
  BY <1>1 DEF StateFails, SpareFits

\* Both ends of a WebRTC link talk about the same two connections, and leave no other one
\* open, however rungs, repeated and lost signals and closes interleave.
THEOREM RtcSound == SpecRtc => [](RtcTypeOK /\ LadderIsClean)
<1>1. RtcInv /\ [NextRtc]_rtcVars => RtcInv'
  BY RtcStep, RtcStutters
<1> QED
  BY <1>1, RtcInitial, RtcTyped, PTL DEF SpecRtc

\* A link is closed by events of its current connection only: one that a rung left behind
\* is detached, or has nothing left to fail (webrtc.mjs:311-316, 394-400).
THEOREM RtcSpares == SpecRtc => RebuildSparesLink
<1>1. RtcInv /\ [NextRtc]_rtcVars => RtcInv'
  BY RtcStep, RtcStutters
<1>2. RtcInv /\ [NextRtc]_rtcVars =>
        [\A p \in DOMAIN conns : StateFails(p) => p = rtc[conns[p].own].conn]_rtcVars
  BY FailsCurrent
<1> QED
  BY <1>1, <1>2, RtcInitial, PTL DEF SpecRtc, RebuildSparesLink

-----------------------------------------------------------------------------
(* An end is ready only on an auth for its own nonce. *)

\* The packets kept are taken one after the other.
LEMMA TakenUnfolds ==
  ASSUME NEW rec, NEW packets \in Seq(Packets)
  PROVE  \E x : /\ x[0] = rec
                /\ \A i \in 1..Len(packets) : x[i] = applySessionPacket(x[i - 1], packets[i])
                /\ Taken(rec, packets) = x[Len(packets)]
<1> DEFINE n == Len(packets)
           Next(p, i) == applySessionPacket(p, packets[i])
           Solves(g, k) == g = [i \in 0..k |-> IF i = 0 THEN rec ELSE Next(g[i - 1], i)]
           Unsolved == {k \in 0..n : ~\E g : Solves(g, k)}
<1>1. Taken(rec, packets) = (CHOOSE g : Solves(g, n))[n]
  BY DEF Taken
<1>2. n \in Nat
  OBVIOUS
<1>0. \A p : \A i \in 1..n : Next(p, i) = applySessionPacket(p, packets[i])
  OBVIOUS
<1> HIDE DEF n, Next
<1>3. Unsolved = {}
  <2> SUFFICES ASSUME Unsolved # {} PROVE FALSE
    OBVIOUS
  <2>1. PICK k \in Unsolved : \A m \in Unsolved : k <= m
    <3>1. Unsolved \subseteq Nat
      OBVIOUS
    <3> HIDE DEF Unsolved
    <3> QED
      BY <3>1, LeastNatural
  <2>2. k \in 0..n /\ ~\E g : Solves(g, k)
    BY <2>1
  <2>3. CASE k = 0
    <3> DEFINE g == [i \in 0..0 |-> rec]
    <3>1. g = [i \in 0..0 |-> IF i = 0 THEN rec ELSE Next(g[i - 1], i)]
      <4>1. \A i \in 0..0 : i = 0
        OBVIOUS
      <4> QED
        BY <4>1
    <3>2. Solves(g, k)
      BY <2>3, <3>1
    <3> QED
      BY <2>2, <3>2
  <2>4. CASE k # 0
    <3>1. k \in 1..n /\ k - 1 \in 0..n /\ ~(k <= k - 1)
      BY <1>2, <2>2, <2>4
    <3>2. k - 1 \notin Unsolved
      BY <2>1, <3>1
    <3>3. PICK g : Solves(g, k - 1)
      BY <3>1, <3>2
    <3> DEFINE h == [i \in 0..k |-> IF i = k THEN Next(g[k - 1], k) ELSE g[i]]
    <3>4. \A i \in 0..k : h[i] = IF i = k THEN Next(g[k - 1], k) ELSE g[i]
      OBVIOUS
    <3>5. \A i \in 0..(k - 1) : g[i] = IF i = 0 THEN rec ELSE Next(g[i - 1], i)
      BY <3>3
    <3>6. ASSUME NEW i \in 0..k
          PROVE  h[i] = IF i = 0 THEN rec ELSE Next(h[i - 1], i)
      <4>1. CASE i = k
        <5>1. k - 1 \in 0..k /\ k - 1 # k /\ k \in 0..k
          BY <2>2, <3>1
        <5>2. h[k] = Next(g[k - 1], k) /\ h[k - 1] = g[k - 1]
          BY <3>4, <5>1
        <5> HIDE DEF h
        <5> QED
          BY <2>4, <4>1, <5>2
      <4>2. CASE i # k
        <5>1. i \in 0..(k - 1) /\ (i # 0 => i - 1 \in 0..k /\ i - 1 # k)
          BY <2>2, <4>2
        <5>2. h[i] = g[i] /\ (i # 0 => h[i - 1] = g[i - 1])
          BY <3>4, <4>2, <5>1
        <5> HIDE DEF h
        <5> QED
          BY <3>5, <5>1, <5>2
      <4> QED
        BY <4>1, <4>2
    <3>7. h = [i \in 0..k |-> IF i = 0 THEN rec ELSE Next(h[i - 1], i)]
      <4> DEFINE u == [i \in 0..k |-> IF i = 0 THEN rec ELSE Next(h[i - 1], i)]
      <4>1. \A i \in 0..k : h[i] = u[i]
        BY <3>6
      <4>2. h = [i \in 0..k |-> h[i]] /\ u = [i \in 0..k |-> u[i]]
        OBVIOUS
      <4> HIDE DEF h, u
      <4>3. h = u
        BY <4>1, <4>2
      <4> QED
        BY <4>3 DEF u
    <3> QED
      BY <2>2, <3>7
  <2> QED
    BY <2>3, <2>4
<1>4. 0 \in 0..n /\ n \in 0..n
  BY <1>2
<1>5. PICK x : Solves(x, n) /\ x = CHOOSE y : Solves(y, n)
  <2>1. \E g : Solves(g, n)
    BY <1>3, <1>4
  <2> QED
    BY <2>1
<1>6. \A i \in 0..n : x[i] = IF i = 0 THEN rec ELSE Next(x[i - 1], i)
  BY <1>5
<1>7. Taken(rec, packets) = x[n]
  BY <1>1, <1>5
<1>8. x[0] = rec
  BY <1>4, <1>6
<1>9. \A i \in 1..n : x[i] = applySessionPacket(x[i - 1], packets[i])
  BY <1>0, <1>2, <1>6
<1> QED
  BY <1>7, <1>8, <1>9 DEF n

\* What an end believes was signed by the other.
Believes(rec, sg) ==
  /\ rec.pendingAuth # 0 => rec.pendingAuth \in sg
  /\ TRUE \in rec.verifying => rec.nonce # 0 /\ rec.nonce \in sg
  /\ rec.ready => rec.nonce # 0 /\ rec.nonce \in sg

\* An auth was signed.
Genuine(m, sg) == m.op = "auth" => m.nonce \in sg

\* All that is under way was signed.
WiresFit(w, sg) ==
  w \in [Ends -> SUBSET Packets] /\ \A x \in Ends : \A m \in w[x] : Genuine(m, sg[Other(x)])

\* So was what the acceptor keeps for the pipe to come.
PendingFits(q, sg) ==
  q \in Seq(Packets) /\ Len(q) <= PendingMax /\ \A i \in 1..Len(q) : Genuine(q[i], sg[Dialer])

\* Neither end believes what the other has not signed.
PipesFit(p, sg) == p \in [Ends -> PipeRecord] /\ \A e \in Ends : Believes(p[e], sg[Other(e)])

\* The acceptor opens a pipe only where none is open, and within the bound.
PipeWaiting(p, opens) ==
  /\ opens \in BOOLEAN
  /\ opens => /\ p[Acceptor].st \in {"none", "down"}
              /\ p[Acceptor].id + (IF p[Acceptor].id = 0 THEN 2 ELSE 1) <= MaxPipes

SignedFits(sg) == sg \in [Ends -> SUBSET (1..MaxPipes)]

\* The invariant.
AuthInv ==
  /\ PipesFit(pipe, signed) /\ WiresFit(wire, signed) /\ PendingFits(pending, signed)
  /\ PipeWaiting(pipe, opening) /\ SignedFits(signed) /\ faults \in 0..MaxFaults

\* There are two ends, each the other of the other.
LEMMA EndsDiffer ==
  /\ Dialer \in Ends /\ Acceptor \in Ends
  /\ \A e \in Ends : Other(e) \in Ends /\ Other(Other(e)) = e /\ Other(e) # e
  /\ Other(Acceptor) = Dialer /\ Other(Dialer) = Acceptor
BY PipeEndsAssumption DEF Ends, Other

\* A pipe that is not there, one that is new and one whose handshake has begun believe nothing.
LEMMA NewPipeFits ==
  ASSUME NEW n \in 0..MaxPipes, NEW sg
  PROVE  /\ NewPipe(n) \in PipeRecord /\ Believes(NewPipe(n), sg)
         /\ n # 0 => Started(NewPipe(n)) \in PipeRecord /\ Believes(Started(NewPipe(n)), sg)
         /\ NoPipe \in PipeRecord /\ Believes(NoPipe, sg)
         /\ NewPipe(n).st = "open" /\ NewPipe(n).id = n /\ NewPipe(n).nonce = 0
         /\ Started(NewPipe(n)).st = "open" /\ Started(NewPipe(n)).id = n
         /\ NoPipe.st = "none" /\ NoPipe.id = 0
<1>1. 0 \in 0..MaxPipes
  BY PipeBoundsAssumption
<1> QED
  BY <1>1 DEF NewPipe, NoPipe, Started, PipeRecord, Believes

\* An auth that was signed is kept or looked at, and only a signature of the nonce is good.
LEMMA HandleAuthFits ==
  ASSUME NEW rec \in PipeRecord, NEW sg, Believes(rec, sg), NEW n \in 1..MaxPipes, n \in sg
  PROVE  /\ handleAuth(rec, n) \in PipeRecord /\ Believes(handleAuth(rec, n), sg)
         /\ handleAuth(rec, n).id = rec.id /\ handleAuth(rec, n).st = rec.st
<1>1. CASE rec.heard = 0
  <2> DEFINE r == [rec EXCEPT !.pendingAuth = n]
  <2>1. r \in PipeRecord
    BY DEF PipeRecord
  <2>2. r.verifying = rec.verifying /\ r.pendingAuth = n /\ r.nonce = rec.nonce
        /\ r.ready = rec.ready /\ r.id = rec.id /\ r.st = rec.st
    BY DEF PipeRecord
  <2> HIDE DEF r
  <2>3. Believes(r, sg)
    BY <2>2 DEF Believes
  <2> QED
    BY <1>1, <2>1, <2>2, <2>3 DEF handleAuth, r
<1>2. CASE rec.heard # 0
  <2> DEFINE b == verifyAuth(rec, n)
             r == [rec EXCEPT !.verifying = @ \cup {b}]
  <2>1. b \in BOOLEAN /\ (b => rec.nonce # 0 /\ n = rec.nonce)
    BY DEF verifyAuth
  <2> HIDE DEF b
  <2>2. r \in PipeRecord
    BY <2>1 DEF PipeRecord
  <2>3. r.verifying = rec.verifying \cup {b} /\ r.pendingAuth = rec.pendingAuth /\ r.nonce = rec.nonce
        /\ r.ready = rec.ready /\ r.id = rec.id /\ r.st = rec.st
    BY DEF PipeRecord
  <2> HIDE DEF r
  <2>4. Believes(r, sg)
    BY <2>1, <2>3 DEF Believes
  <2> QED
    BY <1>2, <2>2, <2>3, <2>4 DEF handleAuth, r, b
<1> QED
  BY <1>1, <1>2

\* The same for the auth that was kept.
LEMMA TakeFits ==
  ASSUME NEW rec \in PipeRecord, NEW sg, Believes(rec, sg)
  PROVE  /\ TakePendingAuth(rec) \in PipeRecord /\ Believes(TakePendingAuth(rec), sg)
         /\ TakePendingAuth(rec).id = rec.id /\ TakePendingAuth(rec).st = rec.st
<1>1. CASE rec.pendingAuth = 0
  BY <1>1 DEF TakePendingAuth
<1>2. CASE rec.pendingAuth # 0
  <2> DEFINE r == [rec EXCEPT !.pendingAuth = 0]
  <2>0. r.verifying = rec.verifying /\ r.pendingAuth = 0 /\ r.nonce = rec.nonce
        /\ r.ready = rec.ready /\ r.id = rec.id /\ r.st = rec.st /\ r \in PipeRecord
    BY PipeBoundsAssumption DEF PipeRecord
  <2>1. r \in PipeRecord /\ Believes(r, sg) /\ r.id = rec.id /\ r.st = rec.st
    <3> HIDE DEF r
    <3> QED
      BY <2>0 DEF Believes
  <2>2. rec.pendingAuth \in 1..MaxPipes /\ rec.pendingAuth \in sg
    BY <1>2 DEF PipeRecord, Believes
  <2> HIDE DEF r
  <2> QED
    BY <1>2, <2>1, <2>2, HandleAuthFits DEF TakePendingAuth, r
<1> QED
  BY <1>1, <1>2

\* A packet leaves an end with what it may believe.
LEMMA PacketFits ==
  ASSUME NEW rec \in PipeRecord, NEW sg, Believes(rec, sg), NEW m \in Packets, Genuine(m, sg)
  PROVE  /\ applySessionPacket(rec, m) \in PipeRecord /\ Believes(applySessionPacket(rec, m), sg)
         /\ applySessionPacket(rec, m).id = rec.id
<1>1. CASE m.op = "hello"
  <2>1. m.nonce \in 1..MaxPipes
    BY <1>1 DEF Packets
  <2>2. CASE rec.authSent
    <3> DEFINE r == [rec EXCEPT !.heard = m.nonce]
    <3>0. r.verifying = rec.verifying /\ r.pendingAuth = rec.pendingAuth /\ r.nonce = rec.nonce
          /\ r.ready = rec.ready /\ r.id = rec.id /\ r \in PipeRecord
      BY <2>1 DEF PipeRecord
    <3>1. r \in PipeRecord /\ Believes(r, sg) /\ r.id = rec.id
      <4> HIDE DEF r
      <4> QED
        BY <3>0 DEF Believes
    <3> HIDE DEF r
    <3> QED
      BY <1>1, <2>2, <3>1, TakeFits DEF applySessionPacket, handleHello, r
  <2>3. CASE ~rec.authSent
    <3> DEFINE r == [rec EXCEPT !.heard = m.nonce, !.authSent = TRUE, !.signing = m.nonce]
    <3> DEFINE hears == [rec EXCEPT !.heard = m.nonce]
               sent == [hears EXCEPT !.authSent = TRUE]
               last == [sent EXCEPT !.signing = m.nonce]
    <3>a. hears \in PipeRecord /\ hears.verifying = rec.verifying /\ hears.pendingAuth = rec.pendingAuth
          /\ hears.nonce = rec.nonce /\ hears.ready = rec.ready /\ hears.id = rec.id
      BY <2>1 DEF PipeRecord
    <3>b. r = last
      BY DEF PipeRecord
    <3> HIDE DEF hears
    <3>c. sent \in PipeRecord /\ sent.verifying = rec.verifying /\ sent.pendingAuth = rec.pendingAuth
          /\ sent.nonce = rec.nonce /\ sent.ready = rec.ready /\ sent.id = rec.id
      BY <3>a DEF PipeRecord
    <3> HIDE DEF sent
    <3>0. last \in PipeRecord /\ last.verifying = rec.verifying /\ last.pendingAuth = rec.pendingAuth
          /\ last.nonce = rec.nonce /\ last.ready = rec.ready /\ last.id = rec.id
      BY <2>1, <3>c DEF PipeRecord
    <3> HIDE DEF last
    <3>1. r \in PipeRecord /\ Believes(r, sg) /\ r.id = rec.id
      <4> HIDE DEF r
      <4> QED
        BY <3>0, <3>b DEF Believes
    <3> HIDE DEF r
    <3>2. applySessionPacket(rec, m) = r
      BY <1>1, <2>3 DEF applySessionPacket, handleHello, r
    <3> QED
      BY <3>1, <3>2
  <2> QED
    BY <2>2, <2>3
<1>2. CASE m.op = "auth"
  <2>1. m.nonce \in 1..MaxPipes /\ m.nonce \in sg
    BY <1>2 DEF Packets, Genuine
  <2> QED
    BY <1>2, <2>1, HandleAuthFits DEF applySessionPacket
<1>3. CASE m.op = "close"
  BY <1>3 DEF applySessionPacket, Closing, PipeRecord, Believes
<1>4. CASE m.op \notin {"hello", "auth", "close"}
  BY <1>4 DEF applySessionPacket
<1> QED
  BY <1>1, <1>2, <1>3, <1>4

\* So do the packets kept for it.
LEMMA TakenFits ==
  ASSUME NEW rec \in PipeRecord, NEW sg, Believes(rec, sg), NEW packets \in Seq(Packets),
         \A i \in 1..Len(packets) : Genuine(packets[i], sg)
  PROVE  /\ Taken(rec, packets) \in PipeRecord /\ Believes(Taken(rec, packets), sg)
         /\ Taken(rec, packets).id = rec.id
<1> DEFINE n == Len(packets)
<1>0. n \in Nat
  OBVIOUS
<1>1. PICK x : /\ x[0] = rec
               /\ \A i \in 1..n : x[i] = applySessionPacket(x[i - 1], packets[i])
               /\ Taken(rec, packets) = x[n]
  BY TakenUnfolds
<1> DEFINE Good(r) == r \in PipeRecord /\ Believes(r, sg) /\ r.id = rec.id
           Bad == {k \in 0..n : ~Good(x[k])}
<1>2. ASSUME NEW i \in 1..n, Good(x[i - 1]) PROVE Good(x[i])
  <2>1. packets[i] \in Packets /\ Genuine(packets[i], sg)
    OBVIOUS
  <2>2. x[i] = applySessionPacket(x[i - 1], packets[i])
    BY <1>1
  <2> QED
    BY <1>2, <2>1, <2>2, PacketFits
<1>3. Good(x[0])
  BY <1>1
<1> HIDE DEF n, Good
<1>4. Bad = {}
  <2> SUFFICES ASSUME Bad # {} PROVE FALSE
    OBVIOUS
  <2>1. PICK k \in Bad : \A m \in Bad : k <= m
    <3>1. Bad \subseteq Nat
      OBVIOUS
    <3> HIDE DEF Bad
    <3> QED
      BY <3>1, LeastNatural
  <2>2. k # 0
    BY <1>3, <2>1
  <2>3. k \in 1..n /\ k - 1 \in 0..n /\ ~(k <= k - 1)
    BY <1>0, <2>1, <2>2
  <2>4. Good(x[k - 1])
    BY <2>1, <2>3
  <2> QED
    BY <1>2, <2>1, <2>3, <2>4
<1>5. Good(x[n])
  BY <1>0, <1>4
<1> QED
  BY <1>1, <1>5 DEF Good

\* An end changes.
LEMMA EndMoves ==
  ASSUME PipesFit(pipe, signed), SignedFits(signed), NEW e \in Ends, NEW r \in PipeRecord,
         Believes(r, signed[Other(e)]),
         pipe' = [pipe EXCEPT ![e] = r], signed' = signed
  PROVE  /\ PipesFit(pipe', signed') /\ SignedFits(signed')
         /\ pipe'[e] = r /\ \A x \in Ends \ {e} : pipe'[x] = pipe[x]
<1>1. pipe' \in [Ends -> PipeRecord] /\ pipe'[e] = r /\ \A x \in Ends \ {e} : pipe'[x] = pipe[x]
  BY DEF PipesFit
<1>2. ASSUME NEW x \in Ends PROVE Believes(pipe'[x], signed'[Other(x)])
  <2>1. CASE x = e
    BY <1>1, <2>1
  <2>2. CASE x # e
    BY <1>1, <2>2 DEF PipesFit
  <2> QED
    BY <2>1, <2>2
<1> QED
  BY <1>1, <1>2 DEF PipesFit

\* The acceptor waits for its pipe, whatever becomes of the end.
LEMMA WaitsOn ==
  ASSUME PipeWaiting(pipe, opening), NEW e \in Ends, NEW r, opening' = opening,
         pipe'[e] = r, \A x \in Ends \ {e} : pipe'[x] = pipe[x],
         r.id = pipe[e].id, pipe[e].st \in {"none", "down"} => r.st \in {"none", "down"}
  PROVE  PipeWaiting(pipe', opening')
<1>1. pipe'[Acceptor].id = pipe[Acceptor].id
      /\ (pipe[Acceptor].st \in {"none", "down"} => pipe'[Acceptor].st \in {"none", "down"})
  BY EndsDiffer
<1> QED
  BY <1>1 DEF PipeWaiting

\* A packet comes that is genuine.
LEMMA WireGains ==
  ASSUME WiresFit(wire, signed), NEW e \in Ends, NEW m \in Packets, Genuine(m, signed[Other(e)]),
         wire' = [wire EXCEPT ![e] = @ \cup {m}]
  PROVE  WiresFit(wire', signed)
<1>1. \A x \in Ends : wire'[x] = IF x = e THEN wire[e] \cup {m} ELSE wire[x]
  BY DEF WiresFit
<1>2. wire' \in [Ends -> SUBSET Packets]
  BY DEF WiresFit
<1> QED
  BY <1>1, <1>2 DEF WiresFit

\* A packet goes.
LEMMA WireLoses ==
  ASSUME WiresFit(wire, signed), NEW e \in Ends, NEW m, wire' = [wire EXCEPT ![e] = @ \ {m}]
  PROVE  WiresFit(wire', signed)
<1>1. \A x \in Ends : wire'[x] \subseteq wire[x]
  BY DEF WiresFit
<1>2. wire' \in [Ends -> SUBSET Packets]
  BY DEF WiresFit
<1> QED
  BY <1>1, <1>2 DEF WiresFit

\* A packet is kept, and the oldest makes room for it.
LEMMA KeptFits ==
  ASSUME PendingFits(pending, signed), NEW m \in Packets, Genuine(m, signed[Dialer]), bufferPending(m)
  PROVE  PendingFits(pending', signed)
<1>1. pending \in Seq(Packets) /\ Len(pending) <= PendingMax /\ PendingMax \in Nat \ {0} /\ Len(pending) \in Nat
      /\ \A i \in 1..Len(pending) : Genuine(pending[i], signed[Dialer])
  BY PipeBoundsAssumption DEF PendingFits
<1>2. CASE Len(pending) >= PendingMax
  <2> DEFINE q == Tail(pending)
  <2>1. q \in Seq(Packets) /\ Len(q) = Len(pending) - 1 /\ \A i \in 1..Len(q) : q[i] = pending[i + 1]
    BY <1>1, <1>2
  <2>2. pending' = Append(q, m)
    BY <1>2 DEF bufferPending
  <2>3. \A i \in 1..Len(q) : Genuine(q[i], signed[Dialer])
    BY <1>1, <2>1
  <2> HIDE DEF q
  <2>4. pending' \in Seq(Packets) /\ Len(pending') = Len(pending)
        /\ \A i \in 1..Len(pending') : pending'[i] = IF i = Len(pending) THEN m ELSE q[i]
    BY <1>1, <2>1, <2>2
  <2> QED
    BY <1>1, <2>1, <2>3, <2>4 DEF PendingFits
<1>3. CASE ~(Len(pending) >= PendingMax)
  <2>1. pending' = Append(pending, m)
    BY <1>3 DEF bufferPending
  <2>2. pending' \in Seq(Packets) /\ Len(pending') = Len(pending) + 1
        /\ \A i \in 1..Len(pending') : pending'[i] = IF i = Len(pending) + 1 THEN m ELSE pending[i]
    BY <1>1, <2>1
  <2> QED
    BY <1>1, <1>3, <2>2 DEF PendingFits
<1> QED
  BY <1>2, <1>3

\* An end changes, and what is under way stays genuine.
LEMMA EndSteps ==
  ASSUME AuthInv, NEW e \in Ends, NEW r \in PipeRecord, Believes(r, signed[Other(e)]),
         pipe' = [pipe EXCEPT ![e] = r], UNCHANGED <<opening, pending, signed>>,
         r.id = pipe[e].id, pipe[e].st \in {"none", "down"} => r.st \in {"none", "down"},
         WiresFit(wire', signed), faults' \in 0..MaxFaults
  PROVE  AuthInv'
<1>1. PipesFit(pipe, signed) /\ SignedFits(signed) /\ PipeWaiting(pipe, opening) /\ PendingFits(pending, signed)
  BY DEF AuthInv
<1>2. /\ PipesFit(pipe', signed') /\ SignedFits(signed')
      /\ pipe'[e] = r /\ \A x \in Ends \ {e} : pipe'[x] = pipe[x]
  BY <1>1, EndMoves
<1>3. PipeWaiting(pipe', opening')
  BY <1>1, <1>2, WaitsOn
<1>4. WiresFit(wire', signed') /\ PendingFits(pending', signed')
  BY <1>1
<1> QED
  BY <1>2, <1>3, <1>4 DEF AuthInv

\* The same where what an end believes and what became of it are not touched.
LEMMA EndStays ==
  ASSUME AuthInv, NEW e \in Ends, NEW r \in PipeRecord,
         r.pendingAuth = pipe[e].pendingAuth, r.verifying = pipe[e].verifying, r.ready = pipe[e].ready,
         r.nonce = pipe[e].nonce,
         pipe' = [pipe EXCEPT ![e] = r], UNCHANGED <<opening, pending, signed>>,
         r.id = pipe[e].id, pipe[e].st \in {"none", "down"} => r.st \in {"none", "down"},
         WiresFit(wire', signed), faults' \in 0..MaxFaults
  PROVE  AuthInv'
<1>1. Believes(r, signed[Other(e)])
  BY DEF AuthInv, PipesFit, Believes
<1> QED
  BY <1>1, EndSteps

\* A pipe closes.
LEMMA FieldsFit ==
  ASSUME NEW rec \in PipeRecord
  PROVE  /\ Closing(rec) \in PipeRecord /\ Closing(rec).pendingAuth = rec.pendingAuth
         /\ Closing(rec).verifying = rec.verifying /\ Closing(rec).ready = rec.ready
         /\ Closing(rec).nonce = rec.nonce /\ Closing(rec).id = rec.id
         /\ rec.st \in {"none", "down"} => Closing(rec).st \in {"none", "down"}
BY DEF Closing, PipeRecord

\* A pipe forgets what it was signing.
LEMMA SigningFits ==
  ASSUME NEW rec \in PipeRecord, NEW r, r = [rec EXCEPT !.signing = 0]
  PROVE  /\ r \in PipeRecord /\ r.pendingAuth = rec.pendingAuth /\ r.verifying = rec.verifying
         /\ r.ready = rec.ready /\ r.nonce = rec.nonce /\ r.id = rec.id /\ r.st = rec.st
<1>1. 0 \in 0..MaxPipes
  BY PipeBoundsAssumption
<1> QED
  BY <1>1 DEF PipeRecord

\* A user sends over it.
LEMMA SendingFits ==
  ASSUME NEW rec \in PipeRecord, NEW s \in {"waits", "sent", "refused"}, NEW r, r = [rec EXCEPT !.sending = s]
  PROVE  /\ r \in PipeRecord /\ r.pendingAuth = rec.pendingAuth /\ r.verifying = rec.verifying
         /\ r.ready = rec.ready /\ r.nonce = rec.nonce /\ r.id = rec.id /\ r.st = rec.st
BY DEF PipeRecord

\* No step lets an end believe what was not signed.
LEMMA AuthKept == ASSUME AuthInv, NextPipe PROVE AuthInv'
<1>p. pipe \in [Ends -> PipeRecord] /\ \A e \in Ends : pipe[e] \in PipeRecord /\ Believes(pipe[e], signed[Other(e)])
  BY DEF AuthInv, PipesFit
<1>i. PipesFit(pipe, signed) /\ WiresFit(wire, signed) /\ PendingFits(pending, signed) /\ PipeWaiting(pipe, opening)
      /\ SignedFits(signed) /\ faults \in 0..MaxFaults
  BY DEF AuthInv
<1>f. faults' = faults \/ (faults < MaxFaults /\ faults' = faults + 1) => faults' \in 0..MaxFaults
  BY PipeBoundsAssumption DEF AuthInv
<1>1. /\ \A n \in 1..MaxPipes : Packet("hello", n) \in Packets /\ Packet("auth", n) \in Packets
      /\ Packet("open", 0) \in Packets /\ Packet("close", 0) \in Packets /\ Packet("data", 0) \in Packets
      /\ \A sg : /\ Genuine(Packet("open", 0), sg) /\ Genuine(Packet("close", 0), sg) /\ Genuine(Packet("data", 0), sg)
                 /\ \A n : Genuine(Packet("hello", n), sg) /\ (n \in sg => Genuine(Packet("auth", n), sg))
      /\ 1 \in 1..MaxPipes
  BY PipeBoundsAssumption DEF Packet, Packets, Genuine
<1>2. CASE Dial
  <2> DEFINE r == NewPipe(1)
  <2>1. pipe' = [pipe EXCEPT ![Dialer] = r]
        /\ wire' = [wire EXCEPT ![Acceptor] = @ \cup {Packet("open", 0)}]
        /\ UNCHANGED <<opening, pending, signed, faults>>
    BY <1>2 DEF Dial
  <2>2. WiresFit(wire', signed)
    BY <1>1, <1>i, <2>1, WireGains, EndsDiffer
  <2>3. r \in PipeRecord /\ Believes(r, signed[Other(Dialer)])
    <3>1. 1 \in 0..MaxPipes
      BY PipeBoundsAssumption
    <3> QED
      BY <3>1, NewPipeFits
  <2> HIDE DEF r
  <2>4. PipesFit(pipe', signed') /\ SignedFits(signed') /\ \A x \in Ends \ {Dialer} : pipe'[x] = pipe[x]
    BY <1>i, <2>1, <2>3, EndMoves, EndsDiffer
  <2>5. PipeWaiting(pipe', opening')
    <3>1. pipe'[Acceptor] = pipe[Acceptor]
      BY <2>4, EndsDiffer
    <3> QED
      BY <1>i, <2>1, <3>1 DEF PipeWaiting
  <2> QED
    BY <1>i, <2>1, <2>2, <2>4, <2>5 DEF AuthInv
<1>3. CASE StartHandshake
  <2> DEFINE rec == pipe[Dialer]
             r == Started(rec)
  <2>1. pipe' = [pipe EXCEPT ![Dialer] = r] /\ rec.nonce = 0
        /\ wire' = [wire EXCEPT ![Acceptor] = @ \cup {Packet("hello", 1)}]
        /\ UNCHANGED <<opening, pending, signed, faults>>
    BY <1>3 DEF StartHandshake
  <2>2. rec \in PipeRecord /\ Believes(rec, signed[Other(Dialer)])
    BY <1>p, EndsDiffer
  <2> HIDE DEF rec
  <2>3. r \in PipeRecord /\ r.pendingAuth = rec.pendingAuth /\ r.verifying = rec.verifying /\ r.ready = rec.ready
        /\ r.id = rec.id /\ r.st = rec.st
    BY <2>2 DEF Started, PipeRecord
  <2> HIDE DEF r
  <2>4. Believes(r, signed[Other(Dialer)])
    BY <2>1, <2>2, <2>3 DEF Believes
  <2>5. WiresFit(wire', signed)
    BY <1>1, <1>i, <2>1, WireGains, EndsDiffer
  <2> QED
    BY <1>i, <2>1, <2>3, <2>4, <2>5, EndSteps, EndsDiffer DEF rec
<1>4. CASE DialThrows
  <2> DEFINE rec == pipe[Dialer]
             r == [rec EXCEPT !.held = FALSE]
  <2>1. pipe' = [pipe EXCEPT ![Dialer] = r] /\ faults' \in 0..MaxFaults
        /\ UNCHANGED <<wire, opening, pending, signed>>
    BY <1>4, <1>f DEF DialThrows
  <2>2. rec \in PipeRecord
    BY <1>p, EndsDiffer
  <2>3. r \in PipeRecord /\ r.pendingAuth = rec.pendingAuth /\ r.verifying = rec.verifying /\ r.ready = rec.ready
        /\ r.nonce = rec.nonce /\ r.id = rec.id /\ r.st = rec.st
    <3> HIDE DEF rec
    <3> QED
      BY <2>2 DEF PipeRecord
  <2> HIDE DEF r
  <2> QED
    BY <1>i, <2>1, <2>3, EndStays, EndsDiffer
<1>5. CASE OpenArrives
  <2>1. wire' = [wire EXCEPT ![Acceptor] = @ \ {Packet("open", 0)}]
        /\ opening' = (opening \/ (pipe[Acceptor].st \in {"none", "down"} /\ NextNumber <= MaxPipes))
        /\ UNCHANGED <<pipe, pending, signed, faults>>
    BY <1>5 DEF OpenArrives
  <2>2. WiresFit(wire', signed)
    BY <1>i, <2>1, WireLoses, EndsDiffer
  <2>3. PipeWaiting(pipe', opening')
    BY <1>i, <2>1 DEF PipeWaiting, NextNumber
  <2> QED
    BY <1>i, <2>1, <2>2, <2>3 DEF AuthInv
<1>6. CASE OpenPipe
  <2> DEFINE begun == Started(NewPipe(NextNumber))
             r == Taken(begun, pending)
  <2>1. opening /\ opening' = FALSE /\ pending' = <<>> /\ pipe' = [pipe EXCEPT ![Acceptor] = r]
        /\ wire' = [wire EXCEPT ![Dialer] = @ \cup {Packet("hello", NextNumber)}]
        /\ UNCHANGED <<signed, faults>>
    BY <1>6 DEF OpenPipe
  <2>2. NextNumber \in 1..MaxPipes
    <3>1. NextNumber <= MaxPipes /\ pipe[Acceptor].id \in 0..MaxPipes
      BY <1>i, <1>p, <2>1, EndsDiffer DEF PipeWaiting, NextNumber, PipeRecord
    <3> QED
      BY <3>1, PipeBoundsAssumption DEF NextNumber
  <2>3. begun \in PipeRecord /\ Believes(begun, signed[Dialer])
    <3>1. NextNumber \in 0..MaxPipes /\ NextNumber # 0
      BY <2>2, PipeBoundsAssumption
    <3> QED
      BY <3>1, NewPipeFits
  <2> HIDE DEF begun
  <2>4. r \in PipeRecord /\ Believes(r, signed[Other(Acceptor)])
    <3>1. pending \in Seq(Packets) /\ \A i \in 1..Len(pending) : Genuine(pending[i], signed[Dialer])
      BY <1>i DEF PendingFits
    <3> QED
      BY <2>3, <3>1, TakenFits, EndsDiffer
  <2> HIDE DEF r
  <2>5. WiresFit(wire', signed)
    BY <1>1, <1>i, <2>1, <2>2, WireGains, EndsDiffer
  <2>6. PipesFit(pipe', signed') /\ SignedFits(signed')
    BY <1>i, <2>1, <2>4, EndMoves, EndsDiffer
  <2>7. PendingFits(<<>>, signed) /\ PipeWaiting(pipe', FALSE)
    BY PipeBoundsAssumption DEF PendingFits, PipeWaiting
  <2> QED
    BY <1>i, <2>1, <2>5, <2>6, <2>7 DEF AuthInv
<1>7. ASSUME NEW e \in Ends, NEW m \in Packets, Deliver(e, m) PROVE AuthInv'
  <2>1. m \in wire[e] /\ wire' = [wire EXCEPT ![e] = @ \ {m}] /\ UNCHANGED <<opening, signed, faults>>
    BY <1>7 DEF Deliver
  <2>2. WiresFit(wire', signed)
    BY <1>i, <2>1, WireLoses
  <2>3. Genuine(m, signed[Other(e)])
    BY <1>i, <2>1 DEF WiresFit
  <2>4. CASE pipe[e].st = "open" /\ pipe' = [pipe EXCEPT ![e] = applySessionPacket(pipe[e], m)] /\ pending' = pending
    <3> DEFINE r == applySessionPacket(pipe[e], m)
    <3>1. r \in PipeRecord /\ Believes(r, signed[Other(e)]) /\ r.id = pipe[e].id
      BY <1>p, <2>3, PacketFits
    <3>2. pipe' = [pipe EXCEPT ![e] = r]
      BY <2>4
    <3> HIDE DEF r
    <3> QED
      BY <1>i, <2>1, <2>2, <2>4, <3>1, <3>2, EndSteps
  <2>5. CASE e = Acceptor /\ bufferPending(m) /\ pipe' = pipe
    <3>1. PendingFits(pending', signed)
      BY <1>i, <2>3, <2>5, KeptFits, EndsDiffer
    <3> QED
      BY <1>i, <2>1, <2>2, <2>5, <3>1 DEF AuthInv
  <2>6. CASE pipe' = pipe /\ pending' = pending
    BY <1>i, <2>1, <2>2, <2>6 DEF AuthInv
  <2> QED
    BY <1>7, <2>4, <2>5, <2>6 DEF Deliver
<1>8. ASSUME NEW e \in Ends, AuthSent(e) PROVE AuthInv'
  <2> DEFINE rec == pipe[e]
             idle == [rec EXCEPT !.signing = 0]
             r == TakePendingAuth(idle)
             n == rec.signing
             m == Packet("auth", n)
  <2>1. n # 0 /\ signed' = [signed EXCEPT ![e] = @ \cup {n}]
        /\ wire' = [wire EXCEPT ![Other(e)] = @ \cup {m}]
        /\ pipe' = [pipe EXCEPT ![e] = r]
        /\ UNCHANGED <<opening, pending, faults>>
    BY <1>8 DEF AuthSent
  <2>2. rec \in PipeRecord /\ Believes(rec, signed[Other(e)])
    BY <1>p
  <2>3. n \in 1..MaxPipes
    <3> HIDE DEF rec
    <3> QED
      BY <2>1, <2>2 DEF PipeRecord
  <2>4. idle \in PipeRecord /\ idle.pendingAuth = rec.pendingAuth /\ idle.verifying = rec.verifying
        /\ idle.ready = rec.ready /\ idle.nonce = rec.nonce /\ idle.id = rec.id /\ idle.st = rec.st
    <3> HIDE DEF rec
    <3> QED
      BY <2>2, SigningFits
  <2> HIDE DEF idle, n, m, rec
  <2>5. /\ SignedFits(signed') /\ \A x \in Ends : signed[x] \subseteq signed'[x]
        /\ n \in signed'[e]
    BY <1>i, <2>1, <2>3 DEF SignedFits
  <2>6. signed'[Other(e)] = signed[Other(e)]
    BY <1>i, <2>1, EndsDiffer DEF SignedFits
  <2>7. Believes(idle, signed[Other(e)])
    BY <2>2, <2>4 DEF Believes
  <2>8. r \in PipeRecord /\ Believes(r, signed[Other(e)]) /\ r.id = rec.id /\ r.st = rec.st
    BY <2>4, <2>7, TakeFits
  <2> HIDE DEF r
  <2>9. pipe' \in [Ends -> PipeRecord] /\ pipe'[e] = r /\ \A x \in Ends \ {e} : pipe'[x] = pipe[x]
    BY <1>p, <2>1, <2>8
  <2>10. PipesFit(pipe', signed')
    <3>1. ASSUME NEW x \in Ends PROVE Believes(pipe'[x], signed'[Other(x)])
      <4>1. CASE x = e
        BY <2>6, <2>8, <2>9, <4>1
      <4>2. CASE x # e
        <5>1. Believes(pipe[x], signed[Other(x)]) /\ signed[Other(x)] \subseteq signed'[Other(x)]
          BY <1>p, <2>5, EndsDiffer
        <5> QED
          BY <2>9, <4>2, <5>1 DEF Believes
      <4> QED
        BY <4>1, <4>2
    <3> QED
      BY <2>9, <3>1 DEF PipesFit
  <2>11. WiresFit(wire', signed')
    <3>1. m \in Packets /\ Genuine(m, signed'[e])
      BY <1>1, <2>3, <2>5 DEF m
    <3>2. wire' \in [Ends -> SUBSET Packets]
          /\ \A x \in Ends : wire'[x] = IF x = Other(e) THEN wire[x] \cup {m} ELSE wire[x]
      BY <1>i, <2>1, <3>1, EndsDiffer DEF WiresFit
    <3>3. ASSUME NEW x \in Ends, NEW p \in wire'[x] PROVE Genuine(p, signed'[Other(x)])
      <4>1. CASE p \in wire[x]
        <5>1. Genuine(p, signed[Other(x)]) /\ signed[Other(x)] \subseteq signed'[Other(x)]
          BY <1>i, <2>5, <4>1, EndsDiffer DEF WiresFit
        <5> QED
          BY <5>1 DEF Genuine
      <4>2. CASE p \notin wire[x]
        <5>1. x = Other(e) /\ p = m
          BY <3>2, <4>2
        <5> QED
          BY <3>1, <5>1, EndsDiffer
      <4> QED
        BY <4>1, <4>2
    <3> QED
      BY <3>2, <3>3 DEF WiresFit
  <2>12. PendingFits(pending', signed')
    <3>1. signed[Dialer] \subseteq signed'[Dialer]
      BY <2>5, EndsDiffer
    <3>2. pending \in Seq(Packets) /\ Len(pending) <= PendingMax
          /\ \A i \in 1..Len(pending) : Genuine(pending[i], signed'[Dialer])
      BY <1>i, <3>1 DEF PendingFits, Genuine
    <3> QED
      BY <2>1, <3>2 DEF PendingFits
  <2>13. PipeWaiting(pipe', opening')
    BY <1>i, <2>1, <2>8, <2>9, WaitsOn DEF rec
  <2> QED
    BY <1>i, <2>1, <2>5, <2>10, <2>11, <2>12, <2>13 DEF AuthInv
<1>9. ASSUME NEW e \in Ends, AuthSendFails(e) PROVE AuthInv'
  <2> DEFINE r == [pipe[e] EXCEPT !.signing = 0]
  <2>1. pipe' = [pipe EXCEPT ![e] = r] /\ faults' \in 0..MaxFaults
        /\ UNCHANGED <<wire, opening, pending, signed>>
    BY <1>9, <1>f DEF AuthSendFails
  <2>2. r \in PipeRecord /\ r.pendingAuth = pipe[e].pendingAuth /\ r.verifying = pipe[e].verifying
        /\ r.ready = pipe[e].ready /\ r.nonce = pipe[e].nonce /\ r.id = pipe[e].id /\ r.st = pipe[e].st
    BY <1>p, SigningFits
  <2> HIDE DEF r
  <2> QED
    BY <1>i, <2>1, <2>2, EndStays
<1>10. ASSUME NEW e \in Ends, NEW ok \in BOOLEAN, AuthChecked(e, ok) PROVE AuthInv'
  <2> DEFINE rec == [pipe[e] EXCEPT !.verifying = @ \ {ok}]
             r == IF ok THEN Finished(rec) ELSE Closing(rec)
  <2>1. ok \in pipe[e].verifying /\ pipe' = [pipe EXCEPT ![e] = r]
        /\ UNCHANGED <<wire, opening, pending, signed, faults>>
    BY <1>10 DEF AuthChecked
  <2>2. pipe[e] \in PipeRecord /\ Believes(pipe[e], signed[Other(e)])
    BY <1>p
  <2>3. rec \in PipeRecord /\ rec.pendingAuth = pipe[e].pendingAuth /\ rec.verifying \subseteq pipe[e].verifying
        /\ rec.ready = pipe[e].ready /\ rec.nonce = pipe[e].nonce /\ rec.id = pipe[e].id /\ rec.st = pipe[e].st
    BY <2>2 DEF PipeRecord
  <2> HIDE DEF rec
  <2>4. Believes(rec, signed[Other(e)])
    BY <2>2, <2>3 DEF Believes
  <2>5. ok => rec.nonce # 0 /\ rec.nonce \in signed[Other(e)]
    BY <2>1, <2>2, <2>3 DEF Believes
  <2>6. CASE ok
    <3> DEFINE f == Finished(rec)
    <3>1. f \in PipeRecord
      BY <2>3 DEF Finished, PipeRecord
    <3>2. f.pendingAuth = rec.pendingAuth /\ f.verifying = rec.verifying /\ f.nonce = rec.nonce
          /\ f.id = rec.id /\ f.st = rec.st
      BY <2>3 DEF Finished, PipeRecord
    <3>3. pipe' = [pipe EXCEPT ![e] = f]
      BY <2>1, <2>6
    <3> HIDE DEF f
    <3>4. Believes(f, signed[Other(e)])
      BY <2>4, <2>5, <2>6, <3>2 DEF Believes
    <3> QED
      BY <1>i, <2>1, <2>3, <3>1, <3>2, <3>3, <3>4, EndSteps
  <2>7. CASE ~ok
    <3> DEFINE f == Closing(rec)
    <3>1. f \in PipeRecord /\ f.pendingAuth = rec.pendingAuth /\ f.verifying = rec.verifying /\ f.nonce = rec.nonce
          /\ f.ready = rec.ready /\ f.id = rec.id /\ (rec.st \in {"none", "down"} => f.st \in {"none", "down"})
      BY <2>3, FieldsFit
    <3>2. pipe' = [pipe EXCEPT ![e] = f]
      BY <2>1, <2>7
    <3> HIDE DEF f
    <3>3. Believes(f, signed[Other(e)])
      BY <2>4, <3>1 DEF Believes
    <3> QED
      BY <1>i, <2>1, <2>3, <3>1, <3>2, <3>3, EndSteps
  <2> QED
    BY <2>6, <2>7
<1>11. ASSUME NEW e \in Ends, CloseDone(e) PROVE AuthInv'
  <2> DEFINE r == [pipe[e] EXCEPT !.st = "down", !.promise = IF pipe[e].ready THEN @ ELSE "rejected"]
  <2>1. pipe' = [pipe EXCEPT ![e] = r] /\ pipe[e].st = "closing"
        /\ wire' = [wire EXCEPT ![Other(e)] = @ \cup {Packet("close", 0)}]
        /\ UNCHANGED <<opening, pending, signed, faults>>
    BY <1>11 DEF CloseDone
  <2>2. pipe[e] \in PipeRecord
    BY <1>p
  <2>3. r \in PipeRecord /\ r.pendingAuth = pipe[e].pendingAuth /\ r.verifying = pipe[e].verifying
        /\ r.ready = pipe[e].ready /\ r.nonce = pipe[e].nonce /\ r.id = pipe[e].id
    BY <2>2 DEF PipeRecord
  <2> HIDE DEF r
  <2>4. WiresFit(wire', signed)
    BY <1>1, <1>i, <2>1, WireGains, EndsDiffer
  <2>5. ~(pipe[e].st \in {"none", "down"})
    BY <2>1
  <2> QED
    BY <1>i, <2>1, <2>3, <2>4, <2>5, EndStays
<1>12. ASSUME NEW e \in Ends, Send(e) \/ SendSettles(e) PROVE AuthInv'
  <2>1. PICK s \in {"waits", "sent", "refused"} :
          /\ pipe' = [pipe EXCEPT ![e].sending = s]
          /\ wire' = wire \/ wire' = [wire EXCEPT ![Other(e)] = @ \cup {Packet("data", 0)}]
          /\ UNCHANGED <<opening, pending, signed, faults>>
    BY <1>12 DEF Send, SendSettles
  <2> DEFINE r == [pipe[e] EXCEPT !.sending = s]
  <2>2. pipe' = [pipe EXCEPT ![e] = r]
    BY <2>1
  <2>3. r \in PipeRecord /\ r.pendingAuth = pipe[e].pendingAuth /\ r.verifying = pipe[e].verifying
        /\ r.ready = pipe[e].ready /\ r.nonce = pipe[e].nonce /\ r.id = pipe[e].id /\ r.st = pipe[e].st
    BY <1>p, SendingFits
  <2> HIDE DEF r
  <2>4. WiresFit(wire', signed)
    <3>1. CASE wire' = wire
      BY <1>i, <3>1
    <3>2. CASE wire' = [wire EXCEPT ![Other(e)] = @ \cup {Packet("data", 0)}]
      BY <1>1, <1>i, <3>2, WireGains, EndsDiffer
    <3> QED
      BY <2>1, <3>1, <3>2
  <2> QED
    BY <1>i, <2>1, <2>2, <2>3, <2>4, EndStays
<1>13. ASSUME NEW e \in Ends, HandshakeTimeout(e) \/ IdleTimeout(e) \/ CloseLink(e) PROVE AuthInv'
  <2> DEFINE r == Closing(pipe[e])
  <2>1. /\ pipe' = [pipe EXCEPT ![e] = r]
        /\ faults' = faults \/ (faults < MaxFaults /\ faults' = faults + 1)
        /\ UNCHANGED <<wire, opening, pending, signed>>
    BY <1>13 DEF HandshakeTimeout, IdleTimeout, CloseLink
  <2>2. r \in PipeRecord /\ r.pendingAuth = pipe[e].pendingAuth /\ r.verifying = pipe[e].verifying
        /\ r.ready = pipe[e].ready /\ r.nonce = pipe[e].nonce /\ r.id = pipe[e].id
        /\ (pipe[e].st \in {"none", "down"} => r.st \in {"none", "down"})
    BY <1>p, FieldsFit
  <2> HIDE DEF r
  <2> QED
    BY <1>f, <1>i, <2>1, <2>2, EndStays
<1>14. ASSUME NEW e \in Ends, NEW m \in Packets, Lose(e, m) PROVE AuthInv'
  <2>1. wire' = [wire EXCEPT ![e] = @ \ {m}] /\ faults' \in 0..MaxFaults
        /\ UNCHANGED <<pipe, opening, pending, signed>>
    BY <1>14, <1>f DEF Lose
  <2>2. WiresFit(wire', signed)
    BY <1>i, <2>1, WireLoses
  <2> QED
    BY <1>i, <2>1, <2>2 DEF AuthInv
<1>15. ASSUME NEW e \in Ends, NEW m \in Packets, NEW n \in 1..MaxPipes, Redeliver(e, n, m) PROVE AuthInv'
  <2>1. wire' = [wire EXCEPT ![e] = @ \cup {m}] /\ faults' \in 0..MaxFaults
        /\ UNCHANGED <<pipe, opening, pending, signed>>
    BY <1>15, <1>f DEF Redeliver
  <2>2. Genuine(m, signed[Other(e)])
    BY <1>1, <1>15 DEF Redeliver
  <2>3. WiresFit(wire', signed)
    BY <1>i, <2>1, <2>2, WireGains
  <2> QED
    BY <1>i, <2>1, <2>3 DEF AuthInv
<1> QED
  BY <1>2, <1>3, <1>4, <1>5, <1>6, <1>7, <1>8, <1>9, <1>10, <1>11, <1>12, <1>13, <1>14, <1>15
  DEF NextPipe, PipeContinues

\* The inductive invariant of authentication.
LEMMA AuthInvariant == SpecPipe => []AuthInv
<1>1. InitPipe => AuthInv
  <2> SUFFICES ASSUME InitPipe PROVE AuthInv
    OBVIOUS
  <2>1. NoPipe \in PipeRecord /\ NoPipe.st = "none" /\ (\A sg : Believes(NoPipe, sg)) /\ NoPipe.id = 0
    <3>1. 1 \in 0..MaxPipes
      BY PipeBoundsAssumption
    <3> QED
      BY <3>1, NewPipeFits
  <2>2. PipesFit(pipe, signed)
    BY <2>1 DEF InitPipe, PipesFit
  <2>3. WiresFit(wire, signed) /\ SignedFits(signed) /\ PipeWaiting(pipe, opening)
    BY DEF InitPipe, WiresFit, SignedFits, PipeWaiting
  <2>4. PendingFits(pending, signed) /\ faults \in 0..MaxFaults
    BY PipeBoundsAssumption DEF InitPipe, PendingFits
  <2> QED
    BY <2>2, <2>3, <2>4 DEF AuthInv
<1>2. AuthInv /\ [NextPipe]_pipeVars => AuthInv'
  <2>1. AuthInv /\ UNCHANGED pipeVars => AuthInv'
    BY DEF AuthInv, pipeVars
  <2> QED
    BY <2>1, AuthKept
<1> QED
  BY <1>1, <1>2, PTL DEF SpecPipe

\* For any number of pipes, losses and duplicates: an end is ready only when the other has
\* signed the nonce of this end's own pipe (pipe.mjs:196-275).
THEOREM AuthSound == SpecPipe => []ReadyIsAuthenticated
<1>1. AuthInv => ReadyIsAuthenticated
  BY DEF AuthInv, PipesFit, Believes, ReadyIsAuthenticated
<1> QED
  BY <1>1, AuthInvariant, PTL

\* Every variable of a pipe keeps its shape.
THEOREM PipeTyped == SpecPipe => []PipeTypeOK
<1>1. AuthInv => PipeTypeOK
  BY DEF AuthInv, PipesFit, WiresFit, PendingFits, SignedFits, PipeWaiting, PipeTypeOK
<1> QED
  BY <1>1, AuthInvariant, PTL

-----------------------------------------------------------------------------
(* A pipe that nothing goes wrong with. *)

\* The number of an end's only pipe.
Number(e) == IF e = Dialer THEN 1 ELSE 2

\* An auth was heard, and looked at, or is kept.
AuthWaits(rec) == rec.pendingAuth # 0 \/ rec.verifying # {} \/ rec.ready

\* The state of an end whose other end has the nonce n.
CalmEnd(rec, e, n) ==
  /\ rec.st \in {"none", "open"}
  /\ rec.st = "none" => rec = NoPipe
  /\ rec.st = "open" => rec.id = Number(e) /\ rec.held /\ (e = Acceptor => rec.nonce # 0)
  /\ rec.nonce \in {0, Number(e)} /\ (rec.nonce = 0 => rec.timers = {})
  /\ rec.heard \in {0, n} /\ rec.signing \in {0, rec.heard} /\ rec.pendingAuth \in {0, rec.nonce}
  /\ FALSE \notin rec.verifying /\ (rec.verifying # {} => rec.nonce # 0)
  /\ rec.authSent <=> rec.heard # 0
  /\ rec.pendingAuth # 0 => rec.heard = 0 \/ rec.signing # 0
  /\ rec.ready => "handshake" \notin rec.timers
  /\ rec.promise # "pending" => rec.ready

\* What is under way to an end.
CalmWire(e) ==
  \A m \in wire[e] :
    /\ m.op # "close"
    /\ m.op = "hello" => m.nonce # 0 /\ m.nonce = pipe[Other(e)].nonce
    /\ m.op = "auth" => m.nonce # 0 /\ m.nonce = pipe[e].nonce
    /\ m.op = "data" => pipe[e].st = "open"

\* The other end's hello comes or has come, and the auth that answers it.
Tells(e) ==
  /\ pipe[Other(e)].nonce # 0 =>
       \/ pipe[e].heard # 0 \/ Packet("hello", pipe[Other(e)].nonce) \in wire[e]
       \/ e = Acceptor /\ pending # <<>>
  /\ pipe[e].heard # 0 /\ pipe[e].signing = 0 =>
       AuthWaits(pipe[Other(e)]) \/ Packet("auth", pipe[Other(e)].nonce) \in wire[Other(e)]

\* The acceptor has no pipe before the dialer has one, and hears of it; before it has one
\* the dialer hears nothing.
CalmStart ==
  /\ pipe[Dialer].st = "none" => pipe[Acceptor].st = "none" /\ wire[Acceptor] = {} /\ ~opening /\ pending = <<>>
  /\ pipe[Acceptor].st = "none" => wire[Dialer] = {} /\ pipe[Dialer].heard = 0 /\ ~AuthWaits(pipe[Dialer])
  /\ pipe[Dialer].st = "open" /\ pipe[Acceptor].st = "none" => opening \/ Packet("open", 0) \in wire[Acceptor]
  /\ pending # <<>> =>
       /\ pending = <<Packet("hello", 1)>> /\ Packet("hello", 1) \notin wire[Acceptor]
       /\ pipe[Acceptor].st = "none" /\ pipe[Dialer].nonce = 1

\* The two ends of a link without a fault.
Calm ==
  /\ \A e \in Ends : CalmEnd(pipe[e], e, pipe[Other(e)].nonce) /\ CalmWire(e) /\ Tells(e)
  /\ CalmStart

\* When nothing is under way both ends have heard each other.
LEMMA QuietIsReady ==
  ASSUME AuthInv, Calm, Quiet, NEW e \in Ends, pipe[e].st = "open"
  PROVE  \A x \in Ends : pipe[x].st = "open" /\ pipe[x].ready /\ "handshake" \notin pipe[x].timers
<1>1. /\ \A x \in Ends : wire[x] = {} /\ pipe[x].signing = 0 /\ pipe[x].verifying = {} /\ pipe[x].st # "closing"
      /\ ~opening /\ (pipe[Dialer].st = "open" => pipe[Dialer].nonce # 0 \/ ~pipe[Dialer].held)
  BY DEF Quiet
<1>2. pipe[Dialer].st = "open"
  <2>1. CASE e = Dialer
    BY <2>1
  <2>2. CASE e = Acceptor
    <3>1. pipe[Dialer].st # "none"
      BY <2>2 DEF Calm, CalmStart
    <3> QED
      BY <3>1, EndsDiffer DEF Calm, CalmEnd
  <2> QED
    BY <2>1, <2>2 DEF Ends
<1>3. pipe[Acceptor].st = "open"
  <2>1. pipe[Acceptor].st # "none"
    BY <1>1, <1>2, EndsDiffer DEF Calm, CalmStart
  <2> QED
    BY <2>1, EndsDiffer DEF Calm, CalmEnd
<1>4. pipe[Dialer].nonce # 0 /\ pipe[Acceptor].nonce # 0
  BY <1>1, <1>2, <1>3, EndsDiffer DEF Calm, CalmEnd
<1>5. pending = <<>>
  BY <1>3 DEF Calm, CalmStart
<1>6. ASSUME NEW x \in Ends PROVE pipe[x].heard # 0 /\ AuthWaits(pipe[Other(x)])
  <2>1. pipe[Other(x)].nonce # 0
    BY <1>4 DEF Other
  <2>2. Tells(x) /\ wire[x] = {} /\ wire[Other(x)] = {} /\ pipe[x].signing = 0
    BY <1>1, EndsDiffer DEF Calm
  <2> QED
    BY <1>5, <2>1, <2>2 DEF Tells
<1>7. ASSUME NEW x \in Ends PROVE pipe[x].st = "open" /\ pipe[x].ready /\ "handshake" \notin pipe[x].timers
  <2>1. AuthWaits(pipe[x]) /\ pipe[x].heard # 0
    BY <1>6, EndsDiffer
  <2>2. CalmEnd(pipe[x], x, pipe[Other(x)].nonce) /\ pipe[x].signing = 0 /\ pipe[x].verifying = {}
    BY <1>1 DEF Calm
  <2>3. pipe[x].ready
    BY <2>1, <2>2 DEF AuthWaits, CalmEnd
  <2>4. pipe[x].st = "open"
    BY <1>2, <1>3 DEF Ends
  <2> QED
    BY <2>2, <2>3, <2>4 DEF CalmEnd
<1> QED
  BY <1>7

\* What an end does not take back: it keeps its nonce, what it heard, and the auth it has.
KeepsOn(rec, r) ==
  /\ r.st = rec.st /\ r.nonce = rec.nonce
  /\ rec.heard # 0 => r.heard = rec.heard
  /\ AuthWaits(rec) => AuthWaits(r)
  /\ r.heard # 0 /\ r.signing = 0 => rec.heard # 0 /\ rec.signing = 0

\* A calm end takes an auth for its nonce.
LEMMA CalmAuth ==
  ASSUME NEW rec \in PipeRecord, NEW e \in Ends, NEW n, CalmEnd(rec, e, n), rec.st = "open", rec.nonce # 0
  PROVE  LET r == handleAuth(rec, rec.nonce) IN CalmEnd(r, e, n) /\ KeepsOn(rec, r) /\ AuthWaits(r)
<1> DEFINE k == rec.nonce
           r == handleAuth(rec, k)
<1>1. CASE rec.heard = 0
  <2> DEFINE s == [rec EXCEPT !.pendingAuth = k]
  <2>1. s.st = rec.st /\ s.id = rec.id /\ s.held = rec.held /\ s.nonce = rec.nonce /\ s.timers = rec.timers
        /\ s.heard = rec.heard /\ s.signing = rec.signing /\ s.pendingAuth = k /\ s.verifying = rec.verifying
        /\ s.authSent = rec.authSent /\ s.ready = rec.ready /\ s.promise = rec.promise
    BY DEF PipeRecord
  <2>2. r = s
    BY <1>1 DEF handleAuth
  <2> HIDE DEF s, r
  <2>3. CalmEnd(s, e, n) /\ KeepsOn(rec, s) /\ AuthWaits(s)
    BY <1>1, <2>1 DEF CalmEnd, KeepsOn, AuthWaits
  <2> QED
    BY <2>2, <2>3 DEF r
<1>2. CASE rec.heard # 0
  <2> DEFINE s == [rec EXCEPT !.verifying = @ \cup {TRUE}]
  <2>1. s.st = rec.st /\ s.id = rec.id /\ s.held = rec.held /\ s.nonce = rec.nonce /\ s.timers = rec.timers
        /\ s.heard = rec.heard /\ s.signing = rec.signing /\ s.pendingAuth = rec.pendingAuth
        /\ s.verifying = rec.verifying \cup {TRUE}
        /\ s.authSent = rec.authSent /\ s.ready = rec.ready /\ s.promise = rec.promise
    BY DEF PipeRecord
  <2>2. verifyAuth(rec, k) = TRUE
    BY DEF verifyAuth
  <2>3. r = s
    BY <1>2, <2>2 DEF handleAuth
  <2> HIDE DEF s, r
  <2>4. CalmEnd(s, e, n) /\ KeepsOn(rec, s) /\ AuthWaits(s)
    BY <1>2, <2>1 DEF CalmEnd, KeepsOn, AuthWaits
  <2> QED
    BY <2>3, <2>4 DEF r
<1> QED
  BY <1>1, <1>2

\* It takes the auth that it kept.
LEMMA CalmTake ==
  ASSUME NEW rec \in PipeRecord, NEW e \in Ends, NEW n, CalmEnd(rec, e, n), rec.st = "open", rec.heard # 0
  PROVE  LET r == TakePendingAuth(rec) IN CalmEnd(r, e, n) /\ KeepsOn(rec, r) /\ r.signing = rec.signing
<1>1. CASE rec.pendingAuth = 0
  BY <1>1 DEF TakePendingAuth, KeepsOn
<1>2. CASE rec.pendingAuth # 0
  <2> DEFINE s == [rec EXCEPT !.pendingAuth = 0]
             t == [s EXCEPT !.verifying = @ \cup {TRUE}]
  <2>1. rec.pendingAuth = rec.nonce /\ rec.nonce # 0
    BY <1>2 DEF CalmEnd
  <2>2. s \in PipeRecord /\ s.st = rec.st /\ s.id = rec.id /\ s.held = rec.held /\ s.nonce = rec.nonce
        /\ s.timers = rec.timers /\ s.heard = rec.heard /\ s.signing = rec.signing /\ s.pendingAuth = 0
        /\ s.verifying = rec.verifying /\ s.authSent = rec.authSent /\ s.ready = rec.ready
        /\ s.promise = rec.promise
    BY PipeBoundsAssumption DEF PipeRecord
  <2>3. TakePendingAuth(rec) = handleAuth(s, rec.nonce)
    BY <1>2, <2>1 DEF TakePendingAuth
  <2> HIDE DEF s
  <2>4. t.st = s.st /\ t.id = s.id /\ t.held = s.held /\ t.nonce = s.nonce /\ t.timers = s.timers
        /\ t.heard = s.heard /\ t.signing = s.signing /\ t.pendingAuth = s.pendingAuth
        /\ t.verifying = s.verifying \cup {TRUE} /\ t.authSent = s.authSent /\ t.ready = s.ready
        /\ t.promise = s.promise
    BY <2>2 DEF PipeRecord
  <2>5. verifyAuth(s, rec.nonce) = TRUE
    BY <2>1, <2>2 DEF verifyAuth
  <2>6. handleAuth(s, rec.nonce) = t
    BY <2>2, <2>5 DEF handleAuth
  <2> HIDE DEF t
  <2>7. CalmEnd(t, e, n)
    BY <2>1, <2>2, <2>4 DEF CalmEnd
  <2>8. KeepsOn(rec, t) /\ t.signing = rec.signing
    BY <2>2, <2>4 DEF KeepsOn, AuthWaits
  <2> QED
    BY <2>3, <2>6, <2>7, <2>8
<1> QED
  BY <1>1, <1>2

\* It takes the hello of the other end.
LEMMA CalmHello ==
  ASSUME NEW rec \in PipeRecord, NEW e \in Ends, NEW n \in 1..MaxPipes, CalmEnd(rec, e, n), rec.st = "open"
  PROVE  LET r == handleHello(rec, n) IN CalmEnd(r, e, n) /\ KeepsOn(rec, r) /\ r.heard # 0
<1>1. CASE rec.authSent
  <2>1. rec.heard = n /\ n # 0
    BY <1>1 DEF CalmEnd
  <2>2. [rec EXCEPT !.heard = n] = rec
    BY <2>1 DEF PipeRecord
  <2>3. handleHello(rec, n) = TakePendingAuth(rec)
    BY <1>1, <2>2 DEF handleHello
  <2> QED
    BY <2>1, <2>3, CalmTake DEF KeepsOn
<1>2. CASE ~rec.authSent
  <2> DEFINE s == [rec EXCEPT !.heard = n, !.authSent = TRUE, !.signing = n]
  <2>1. s.st = rec.st /\ s.id = rec.id /\ s.held = rec.held /\ s.nonce = rec.nonce /\ s.timers = rec.timers
        /\ s.heard = n /\ s.signing = n /\ s.pendingAuth = rec.pendingAuth /\ s.verifying = rec.verifying
        /\ s.authSent /\ s.ready = rec.ready /\ s.promise = rec.promise
    BY DEF PipeRecord
  <2>2. handleHello(rec, n) = s
    BY <1>2 DEF handleHello
  <2>3. rec.heard = 0 /\ n # 0
    BY <1>2 DEF CalmEnd
  <2> HIDE DEF s
  <2>4. KeepsOn(rec, s) /\ s.heard # 0
    BY <2>1, <2>3 DEF KeepsOn, AuthWaits
  <2>5. CalmEnd(s, e, n)
    BY <2>1, <2>3 DEF CalmEnd
  <2> QED
    BY <2>2, <2>4, <2>5
<1> QED
  BY <1>1, <1>2

\* An open end e becomes r without taking anything back, and looks at the packet it takes.
Takes(e, r) ==
  LET k == pipe[Other(e)].nonce IN
  /\ wire'[e] \subseteq wire[e]
  /\ Packet("hello", k) \in wire[e] => r.heard # 0 \/ Packet("hello", k) \in wire'[e]
  /\ Packet("auth", r.nonce) \in wire[e] => AuthWaits(r) \/ Packet("auth", r.nonce) \in wire'[e]

\* What it writes is an auth for the other end, or data once that is open.
Writes(e, r) ==
  LET k == pipe[Other(e)].nonce IN
  /\ wire[Other(e)] \subseteq wire'[Other(e)]
  /\ \A m \in wire'[Other(e)] \ wire[Other(e)] :
       \/ m = Packet("auth", k) /\ k # 0
       \/ m = Packet("data", 0) /\ pipe[Other(e)].st = "open"
  /\ r.heard # 0 /\ r.signing = 0 =>
       \/ pipe[e].heard # 0 /\ pipe[e].signing = 0
       \/ Packet("auth", k) \in wire'[Other(e)]

\* Such a change leaves both ends calm.
LEMMA CalmMove ==
  ASSUME AuthInv, Calm, NEW e \in Ends, NEW r,
         pipe[e].st = "open", r.st = "open", r.nonce = pipe[e].nonce,
         CalmEnd(r, e, pipe[Other(e)].nonce),
         pipe[e].heard # 0 => r.heard # 0, AuthWaits(pipe[e]) => AuthWaits(r),
         pipe[Other(e)].st = "none" => r.heard = 0 /\ ~AuthWaits(r),
         Takes(e, r), Writes(e, r),
         pipe' = [pipe EXCEPT ![e] = r], UNCHANGED <<pending, opening>>
  PROVE  Calm'
<1> DEFINE o == Other(e)
<1>0. o \in Ends /\ o # e /\ Other(o) = e /\ Ends = {e, o}
  BY EndsDiffer DEF Ends, Other
<1>1. pipe'[e] = r /\ pipe'[o] = pipe[o] /\ pending' = pending /\ opening' = opening
  BY <1>0 DEF AuthInv, PipesFit
<1>2. /\ CalmEnd(pipe[o], o, pipe[e].nonce) /\ CalmWire(e) /\ CalmWire(o) /\ Tells(e) /\ Tells(o) /\ CalmStart
  BY <1>0 DEF Calm
<1> HIDE DEF o
<1>3. CalmEnd(pipe'[e], e, pipe'[o].nonce) /\ CalmEnd(pipe'[o], o, pipe'[e].nonce)
  BY <1>1, <1>2 DEF o
<1>4. CalmWire(e)'
  BY <1>0, <1>1, <1>2 DEF CalmWire, Takes, o
<1>5. CalmWire(o)'
  <2>1. \A m \in wire'[o] \ wire[o] :
          (m.op = "auth" /\ m.nonce = pipe[o].nonce /\ m.nonce # 0) \/ (m.op = "data" /\ pipe[o].st = "open")
    BY DEF Writes, o, Packet
  <2>2. \A m \in wire'[o] \cap wire[o] :
          /\ m.op # "close"
          /\ m.op = "hello" => m.nonce # 0 /\ m.nonce = pipe[e].nonce
          /\ m.op = "auth" => m.nonce # 0 /\ m.nonce = pipe[o].nonce
          /\ m.op = "data" => pipe[o].st = "open"
    BY <1>0, <1>2 DEF CalmWire
  <2> QED
    BY <1>0, <1>1, <2>1, <2>2 DEF CalmWire
<1>6. Tells(e)'
  <2>1. pipe[o].nonce # 0 => \/ r.heard # 0 \/ Packet("hello", pipe[o].nonce) \in wire'[e]
                             \/ e = Acceptor /\ pending # <<>>
    BY <1>2 DEF Tells, Takes, o
  <2>2. r.heard # 0 /\ r.signing = 0 => AuthWaits(pipe[o]) \/ Packet("auth", pipe[o].nonce) \in wire'[o]
    BY <1>2 DEF Tells, Writes, o
  <2> QED
    BY <1>0, <1>1, <2>1, <2>2 DEF Tells, o
<1>7. Tells(o)'
  <2>1. r.nonce # 0 => \/ pipe[o].heard # 0 \/ Packet("hello", r.nonce) \in wire'[o]
                       \/ o = Acceptor /\ pending # <<>>
    BY <1>0, <1>2 DEF Tells, Writes, o
  <2>2. pipe[o].heard # 0 /\ pipe[o].signing = 0 => AuthWaits(r) \/ Packet("auth", r.nonce) \in wire'[e]
    BY <1>0, <1>2 DEF Tells, Takes, o
  <2> QED
    BY <1>0, <1>1, <2>1, <2>2 DEF Tells
<1>8. CalmStart'
  <2>1. CASE e = Dialer
    <3>1. o = Acceptor
      BY <2>1, EndsDiffer DEF o
    <3>2. Packet("hello", 1) \notin wire'[Acceptor] \/ Packet("hello", 1) \in wire[Acceptor]
      BY <3>1 DEF Writes, o, Packet
    <3>3. pipe[Acceptor].st = "none" => wire'[Dialer] = {}
      BY <1>2, <2>1 DEF CalmStart, Takes
    <3>4. Packet("open", 0) \in wire[Acceptor] => Packet("open", 0) \in wire'[Acceptor]
      BY <3>1 DEF Writes, o
    <3> QED
      BY <1>1, <1>2, <2>1, <3>1, <3>2, <3>3, <3>4 DEF CalmStart, o
  <2>2. CASE e = Acceptor
    <3>1. o = Dialer
      BY <2>2, EndsDiffer DEF o
    <3> QED
      BY <1>1, <1>2, <2>2, <3>1 DEF CalmStart
  <2> QED
    BY <2>1, <2>2 DEF Ends
<1> QED
  BY <1>0, <1>3, <1>4, <1>5, <1>6, <1>7, <1>8 DEF Calm

\* The first packets of a link.
LEMMA CalmOpens == AuthInv /\ Calm /\ (Dial \/ StartHandshake \/ OpenArrives) => Calm'
<1> SUFFICES ASSUME AuthInv, Calm PROVE Dial \/ StartHandshake \/ OpenArrives => Calm'
  OBVIOUS
<1>0. /\ Ends = {Dialer, Acceptor} /\ Dialer # Acceptor /\ Other(Dialer) = Acceptor /\ Other(Acceptor) = Dialer
      /\ pipe \in [Ends -> PipeRecord] /\ wire \in [Ends -> SUBSET Packets] /\ MaxPipes \in Nat \ {0, 1}
  BY EndsDiffer, PipeBoundsAssumption DEF AuthInv, PipesFit, WiresFit, Ends
<1>1. /\ CalmEnd(pipe[Dialer], Dialer, pipe[Acceptor].nonce) /\ CalmEnd(pipe[Acceptor], Acceptor, pipe[Dialer].nonce)
      /\ CalmWire(Dialer) /\ CalmWire(Acceptor) /\ Tells(Dialer) /\ Tells(Acceptor) /\ CalmStart
  BY <1>0 DEF Calm
<1>n. NoPipe.st = "none" /\ NoPipe.nonce = 0 /\ NoPipe.heard = 0 /\ ~AuthWaits(NoPipe)
  BY DEF NoPipe, NewPipe, AuthWaits
<1>2. ASSUME Dial PROVE Calm'
  <2> DEFINE r == NewPipe(1)
  <2>1. pipe[Dialer] = NoPipe /\ pipe[Acceptor] = NoPipe /\ wire[Acceptor] = {} /\ wire[Dialer] = {}
        /\ ~opening /\ pending = <<>>
    BY <1>1, <1>2 DEF Dial, CalmStart, CalmEnd
  <2>2. pipe'[Dialer] = r /\ pipe'[Acceptor] = NoPipe /\ wire'[Acceptor] = {Packet("open", 0)} /\ wire'[Dialer] = {}
        /\ ~opening' /\ pending' = <<>>
    BY <1>0, <1>2, <2>1 DEF Dial
  <2>3. r.st = "open" /\ r.id = 1 /\ r.held /\ r.nonce = 0 /\ r.timers = {} /\ r.heard = 0 /\ r.signing = 0
        /\ r.pendingAuth = 0 /\ r.verifying = {} /\ ~r.authSent /\ ~r.ready /\ r.promise = "pending"
    BY DEF NewPipe
  <2> HIDE DEF r
  <2>4. CalmEnd(r, Dialer, 0) /\ ~AuthWaits(r)
    <3>1. Number(Dialer) = 1 /\ ~AuthWaits(r)
      BY <2>3 DEF Number, AuthWaits
    <3>2. r.authSent <=> r.heard # 0
      BY <2>3
    <3> QED
      BY <1>0, <2>3, <3>1, <3>2 DEF CalmEnd
  <2>5. CalmEnd(NoPipe, Acceptor, 0)
    BY <1>0, <1>1, <1>n, <2>1
  <2>6. CalmWire(Dialer)' /\ CalmWire(Acceptor)'
    BY <2>2 DEF CalmWire, Packet
  <2>7. Tells(Dialer)' /\ Tells(Acceptor)'
    BY <1>0, <1>n, <2>2, <2>3 DEF Tells
  <2>8. CalmStart'
    BY <1>n, <2>2, <2>3, <2>4 DEF CalmStart
  <2> QED
    BY <1>0, <1>n, <2>2, <2>3, <2>4, <2>5, <2>6, <2>7, <2>8 DEF Calm
<1>3. ASSUME StartHandshake PROVE Calm'
  <2> DEFINE d == pipe[Dialer]
             r == Started(d)
             a == pipe[Acceptor]
  <2>1. d.st = "open" /\ d.nonce = 0 /\ d.held /\ pipe' = [pipe EXCEPT ![Dialer] = r]
        /\ wire' = [wire EXCEPT ![Acceptor] = @ \cup {Packet("hello", 1)}] /\ UNCHANGED <<opening, pending>>
    BY <1>3 DEF StartHandshake
  <2>2. d \in PipeRecord /\ Believes(d, signed[Acceptor])
    BY <1>0 DEF AuthInv, PipesFit
  <2>3. d.id = 1 /\ ~d.ready /\ d.verifying = {} /\ d.pendingAuth = 0 /\ ~AuthWaits(d)
    BY <1>0, <1>1, <2>1, <2>2 DEF CalmEnd, Number, Believes, AuthWaits
  <2>4. r.st = d.st /\ r.id = d.id /\ r.held = d.held /\ r.nonce = 1 /\ r.timers = {"handshake"} /\ r.heard = d.heard
        /\ r.signing = d.signing /\ r.pendingAuth = d.pendingAuth /\ r.verifying = d.verifying
        /\ r.authSent = d.authSent /\ r.ready = d.ready /\ r.promise = d.promise
    BY <2>2, <2>3 DEF Started, PipeRecord
  <2>5. pipe'[Dialer] = r /\ pipe'[Acceptor] = a /\ wire'[Acceptor] = wire[Acceptor] \cup {Packet("hello", 1)}
        /\ wire'[Dialer] = wire[Dialer] /\ opening' = opening /\ pending' = pending
    BY <1>0, <2>1
  <2> HIDE DEF r
  <2>6. CalmEnd(r, Dialer, a.nonce) /\ ~AuthWaits(r)
    <3>1. CalmEnd(d, Dialer, a.nonce)
      BY <1>1
    <3> QED
      BY <1>0, <2>1, <2>3, <2>4, <3>1 DEF CalmEnd, Number, AuthWaits
  <2>7. a.heard = 0 /\ CalmEnd(a, Acceptor, 1)
    BY <1>1, <2>1 DEF CalmEnd
  <2>8. pending = <<>>
    BY <1>1, <2>1 DEF CalmStart
  <2>9. CalmWire(Dialer)'
    BY <1>0, <1>1, <2>1, <2>4, <2>5 DEF CalmWire
  <2>10. CalmWire(Acceptor)'
    <3>1. \A m \in wire[Acceptor] : m.op # "hello"
      BY <1>0, <1>1, <2>1 DEF CalmWire
    <3>2. \A m \in wire'[Acceptor] : m \in wire[Acceptor] \/ (m.op = "hello" /\ m.nonce = 1)
      BY <2>5 DEF Packet
    <3> QED
      BY <1>0, <1>1, <2>4, <2>5, <3>1, <3>2 DEF CalmWire
  <2>11. Tells(Dialer)'
    BY <1>0, <1>1, <2>4, <2>5, <2>8 DEF Tells
  <2>12. Tells(Acceptor)'
    BY <1>0, <2>4, <2>5, <2>7 DEF Tells
  <2>13. CalmStart'
    BY <1>1, <2>1, <2>4, <2>5, <2>6, <2>8 DEF CalmStart
  <2> QED
    BY <1>0, <2>4, <2>5, <2>6, <2>7, <2>9, <2>10, <2>11, <2>12, <2>13 DEF Calm
<1>4. ASSUME OpenArrives PROVE Calm'
  <2>1. Packet("open", 0) \in wire[Acceptor] /\ wire'[Acceptor] = wire[Acceptor] \ {Packet("open", 0)}
        /\ wire'[Dialer] = wire[Dialer] /\ pipe' = pipe /\ pending' = pending
        /\ opening' = (opening \/ (pipe[Acceptor].st \in {"none", "down"} /\ NextNumber <= MaxPipes))
    BY <1>0, <1>4 DEF OpenArrives
  <2>2. pipe[Acceptor].st = "none" => opening'
    <3> SUFFICES ASSUME pipe[Acceptor].st = "none" PROVE opening'
      OBVIOUS
    <3>1. pipe[Acceptor] = NoPipe /\ NoPipe.id = 0
      BY <1>1 DEF CalmEnd, NoPipe, NewPipe
    <3>2. NextNumber = 2
      BY <3>1 DEF NextNumber
    <3>3. NextNumber <= MaxPipes /\ pipe[Acceptor].st \in {"none", "down"}
      BY <1>0, <3>2
    <3> QED
      BY <2>1, <3>3
  <2>3. \A op, n : op # "open" => Packet(op, n) # Packet("open", 0)
    BY DEF Packet
  <2>4. CalmWire(Dialer)' /\ CalmWire(Acceptor)'
    BY <1>0, <1>1, <2>1 DEF CalmWire
  <2>5. Tells(Dialer)' /\ Tells(Acceptor)'
    BY <1>0, <1>1, <2>1, <2>3 DEF Tells
  <2>6. pipe[Dialer].st # "none"
    BY <1>1, <2>1 DEF CalmStart
  <2>7. CalmStart'
    BY <1>1, <2>1, <2>2, <2>6 DEF CalmStart
  <2> QED
    BY <1>0, <1>1, <2>1, <2>4, <2>5, <2>7 DEF Calm
<1> QED
  BY <1>2, <1>3, <1>4

\* The acceptor's pipe starts with the hello kept for it.
LEMMA CalmPipe == AuthInv /\ Calm /\ OpenPipe => Calm'
<1> SUFFICES ASSUME AuthInv, Calm, OpenPipe PROVE Calm'
  OBVIOUS
<1>0. /\ Ends = {Dialer, Acceptor} /\ Dialer # Acceptor /\ Other(Dialer) = Acceptor /\ Other(Acceptor) = Dialer
      /\ pipe \in [Ends -> PipeRecord] /\ wire \in [Ends -> SUBSET Packets] /\ MaxPipes \in Nat \ {0, 1}
      /\ pending \in Seq(Packets)
  BY EndsDiffer, PipeBoundsAssumption DEF AuthInv, PipesFit, WiresFit, PendingFits, Ends
<1>1. /\ CalmEnd(pipe[Dialer], Dialer, pipe[Acceptor].nonce) /\ CalmEnd(pipe[Acceptor], Acceptor, pipe[Dialer].nonce)
      /\ CalmWire(Dialer) /\ CalmWire(Acceptor) /\ Tells(Dialer) /\ Tells(Acceptor) /\ CalmStart
  BY <1>0 DEF Calm
<1> DEFINE d == pipe[Dialer]
           s == Started(NewPipe(2))
           r == Taken(s, pending)
<1>2. pipe[Acceptor] = NoPipe /\ pipe[Acceptor].st = "none" /\ pipe[Acceptor].nonce = 0 /\ pipe[Acceptor].heard = 0
  <2>1. pipe[Acceptor].st \in {"none", "down"}
    BY DEF OpenPipe, AuthInv, PipeWaiting
  <2> QED
    BY <1>1, <2>1 DEF CalmEnd, NoPipe, NewPipe
<1>3. NextNumber = 2
  BY <1>2 DEF NextNumber, NoPipe, NewPipe
<1>4. pipe'[Acceptor] = r /\ pipe'[Dialer] = d /\ wire'[Dialer] = wire[Dialer] \cup {Packet("hello", 2)}
      /\ wire'[Acceptor] = wire[Acceptor] /\ pending' = <<>> /\ opening
  BY <1>0, <1>3 DEF OpenPipe
<1>5. d.st = "open" /\ d.heard = 0 /\ wire[Dialer] = {} /\ (pending # <<>> => d.nonce = 1)
  <2>1. d.st # "none" /\ d.heard = 0 /\ wire[Dialer] = {} /\ (pending # <<>> => d.nonce = 1)
    BY <1>1, <1>2, <1>4 DEF CalmStart
  <2>2. d.st \in {"none", "open"}
    BY <1>1 DEF CalmEnd
  <2> QED
    BY <2>1, <2>2
<1>6. s \in PipeRecord /\ s.st = "open" /\ s.id = 2 /\ s.held /\ s.nonce = 2 /\ s.timers = {"handshake"}
      /\ s.heard = 0 /\ s.signing = 0 /\ s.pendingAuth = 0 /\ s.verifying = {} /\ (s.authSent <=> s.heard # 0)
      /\ ~s.ready /\ s.promise = "pending"
  <2>1. s \in PipeRecord
    BY <1>0, NewPipeFits
  <2> QED
    BY <2>1 DEF Started, NewPipe
<1>7. CalmEnd(s, Acceptor, d.nonce)
  <2>1. Number(Acceptor) = 2
    BY <1>0 DEF Number
  <2> HIDE DEF s, d
  <2> QED
    BY <1>6, <2>1 DEF CalmEnd
<1>8. r.st = "open" /\ r.nonce = 2 /\ CalmEnd(r, Acceptor, d.nonce) /\ (r.heard # 0 => r.signing # 0)
      /\ (pending # <<>> => r.heard # 0)
  <2>1. PICK x : /\ x[0] = s
                 /\ \A i \in 1..Len(pending) : x[i] = applySessionPacket(x[i - 1], pending[i])
                 /\ r = x[Len(pending)]
    BY <1>0, TakenUnfolds
  <2> HIDE DEF r, s, d
  <2>2. CASE pending = <<>>
    <3>1. Len(pending) = 0
      BY <2>2
    <3>2. r = s
      BY <2>1, <3>1
    <3> QED
      BY <1>6, <1>7, <2>2, <3>2
  <2>3. CASE pending # <<>>
    <3>1. pending = <<Packet("hello", 1)>> /\ d.nonce = 1
      BY <1>1, <1>5, <2>3 DEF CalmStart
    <3>2. Len(pending) = 1 /\ pending[1] = Packet("hello", 1)
      BY <3>1
    <3>3. r = applySessionPacket(s, Packet("hello", 1))
      BY <2>1, <3>2
    <3>4. r = handleHello(s, 1)
      BY <3>3 DEF applySessionPacket, Packet
    <3> DEFINE t == [s EXCEPT !.heard = 1, !.authSent = TRUE, !.signing = 1]
    <3>5. r = t
      BY <1>6, <3>4 DEF handleHello
    <3>6. t.signing = 1 /\ t.nonce = s.nonce /\ t.st = s.st
      BY <1>6 DEF PipeRecord
    <3>7. 1 \in 1..MaxPipes /\ CalmEnd(s, Acceptor, 1) /\ Acceptor \in Ends
      BY <1>0, <1>7, <3>1
    <3>8. CalmEnd(r, Acceptor, 1) /\ r.heard # 0
      BY <1>6, <3>4, <3>7, CalmHello
    <3> HIDE DEF t
    <3> QED
      BY <1>6, <3>1, <3>5, <3>6, <3>8
  <2> QED
    BY <2>2, <2>3
<1> HIDE DEF r, s
<1>9. CalmEnd(d, Dialer, 2)
  BY <1>1, <1>2, <1>5 DEF CalmEnd
<1>10. CalmWire(Dialer)'
  <2>1. \A m \in wire'[Dialer] : m.op = "hello" /\ m.nonce = 2
    BY <1>4, <1>5 DEF Packet
  <2> QED
    BY <1>0, <1>4, <1>8, <2>1 DEF CalmWire
<1>11. CalmWire(Acceptor)'
  <2>1. \A m \in wire[Acceptor] : m.op # "close" /\ m.op # "auth" /\ (m.op = "hello" => m.nonce # 0 /\ m.nonce = d.nonce)
    BY <1>0, <1>1, <1>2 DEF CalmWire
  <2> QED
    BY <1>0, <1>4, <1>8, <2>1 DEF CalmWire
<1>12. Tells(Dialer)'
  BY <1>0, <1>4, <1>5, <1>8 DEF Tells
<1>13. Tells(Acceptor)'
  <2>1. d.nonce # 0 => r.heard # 0 \/ Packet("hello", d.nonce) \in wire[Acceptor]
    BY <1>0, <1>1, <1>2, <1>8 DEF Tells
  <2> QED
    BY <1>0, <1>4, <1>8, <2>1 DEF Tells
<1>14. CalmStart'
  BY <1>4, <1>5, <1>8 DEF CalmStart
<1> QED
  BY <1>0, <1>4, <1>8, <1>9, <1>10, <1>11, <1>12, <1>13, <1>14 DEF Calm

\* A packet arrives.
LEMMA CalmDelivers ==
  ASSUME AuthInv, Calm, NEW e \in Ends, NEW m \in Packets, Deliver(e, m)
  PROVE  Calm'
<1> DEFINE o == Other(e)
           k == pipe[o].nonce
<1>0. o \in Ends /\ o # e /\ Other(o) = e /\ pipe \in [Ends -> PipeRecord] /\ wire \in [Ends -> SUBSET Packets]
  BY EndsDiffer DEF AuthInv, PipesFit, WiresFit
<1>1. CalmEnd(pipe[e], e, k) /\ CalmWire(e) /\ Tells(e) /\ CalmStart /\ CalmEnd(pipe[o], o, pipe[e].nonce)
  BY <1>0 DEF Calm
<1>2. m \in wire[e] /\ m.op # "open" /\ wire'[e] = wire[e] \ {m} /\ wire'[o] = wire[o] /\ opening' = opening
      /\ \A x \in Ends \ {e} : wire'[x] = wire[x]
  BY <1>0 DEF Deliver
<1>3. /\ m.op # "close" /\ (m.op = "hello" => m.nonce = k /\ k # 0) /\ (m.op = "auth" => m.nonce = pipe[e].nonce /\ m.nonce # 0)
      /\ (m.op = "data" => pipe[e].st = "open")
  BY <1>1, <1>2 DEF CalmWire
<1>m. m.op \in {"hello", "auth", "data"} /\ m = Packet(m.op, m.nonce)
  BY <1>2, <1>3 DEF Packets, Packet
<1>t. \A op, op2, n, n2 : Packet(op, n) = Packet(op2, n2) => op = op2 /\ n = n2
  <2>1. \A op, n : Packet(op, n).op = op /\ Packet(op, n).nonce = n
    BY DEF Packet
  <2> QED
    BY <2>1
<1>4. CASE pipe[e].st = "open"
  <2> DEFINE rec == pipe[e]
             r == applySessionPacket(rec, m)
  <2>1. pipe' = [pipe EXCEPT ![e] = r] /\ pending' = pending /\ rec \in PipeRecord
    BY <1>0, <1>4 DEF Deliver
  <2>2. CalmEnd(r, e, k) /\ KeepsOn(rec, r) /\ (m.op = "hello" => r.heard # 0) /\ (m.op = "auth" => AuthWaits(r))
        /\ (m.op # "hello" => r.heard = rec.heard)
    <3>1. CASE m.op = "hello"
      <4>1. k \in 1..MaxPipes /\ r = handleHello(rec, k)
        <5>1. m.nonce \in 1..MaxPipes
          BY <3>1 DEF Packets
        <5> QED
          BY <1>3, <3>1, <5>1 DEF applySessionPacket
      <4> HIDE DEF r, rec, k
      <4>2. CalmEnd(handleHello(rec, k), e, k) /\ KeepsOn(rec, handleHello(rec, k)) /\ handleHello(rec, k).heard # 0
        BY <1>1, <1>4, <2>1, <4>1, CalmHello DEF rec
      <4> QED
        BY <3>1, <4>1, <4>2
    <3>2. CASE m.op = "auth"
      <4>1. r = handleAuth(rec, rec.nonce) /\ rec.nonce # 0
        BY <1>3, <3>2 DEF applySessionPacket
      <4>2. handleAuth(rec, rec.nonce).heard = rec.heard
        BY <2>1 DEF handleAuth, PipeRecord
      <4> HIDE DEF r, rec, k
      <4>3. CalmEnd(r, e, k) /\ KeepsOn(rec, r) /\ AuthWaits(r)
        BY <1>1, <1>4, <2>1, <4>1, CalmAuth DEF rec
      <4> QED
        BY <3>2, <4>1, <4>2, <4>3
    <3>3. CASE m.op = "data"
      BY <1>1, <3>3 DEF applySessionPacket, KeepsOn
    <3> QED
      BY <1>m, <3>1, <3>2, <3>3
  <2> HIDE DEF r
  <2>3. Takes(e, r)
    <3>1. r.nonce = rec.nonce
      BY <2>2 DEF KeepsOn
    <3>2. Packet("hello", k) \in wire[e] => r.heard # 0 \/ Packet("hello", k) \in wire'[e]
      BY <1>2, <1>m, <1>t, <2>2
    <3>3. Packet("auth", r.nonce) \in wire[e] => AuthWaits(r) \/ Packet("auth", r.nonce) \in wire'[e]
      BY <1>2, <1>m, <1>t, <2>2
    <3> QED
      BY <1>2, <3>2, <3>3 DEF Takes
  <2>4. Writes(e, r)
    <3>1. r.heard # 0 /\ r.signing = 0 => rec.heard # 0 /\ rec.signing = 0
      BY <2>2 DEF KeepsOn
    <3> QED
      BY <1>2, <3>1 DEF Writes
  <2>5. pipe[o].st # "none"
    <3>1. CASE e = Dialer
      <4>1. o = Acceptor
        BY <3>1, EndsDiffer
      <4> QED
        BY <1>1, <1>2, <3>1, <4>1 DEF CalmStart
    <3>2. CASE e = Acceptor
      <4>1. o = Dialer
        BY <3>2, EndsDiffer
      <4> QED
        BY <1>1, <1>2, <3>2, <4>1 DEF CalmStart
    <3> QED
      BY <3>1, <3>2 DEF Ends
  <2>6. r.st = "open" /\ r.nonce = rec.nonce /\ (rec.heard # 0 => r.heard # 0) /\ (AuthWaits(rec) => AuthWaits(r))
    BY <1>4, <2>2 DEF KeepsOn
  <2> QED
    BY <1>2, <1>4, <2>1, <2>2, <2>3, <2>4, <2>5, <2>6, CalmMove
<1>5. CASE pipe[e].st # "open"
  <2>1. pipe[e] = NoPipe /\ pipe[e].st = "none" /\ pipe[e].nonce = 0 /\ pipe' = pipe
    BY <1>1, <1>5 DEF CalmEnd, Deliver, NoPipe, NewPipe
  <2>2. e = Acceptor /\ o = Dialer
    <3>1. e # Dialer
      BY <1>1, <1>2, <2>1, EndsDiffer DEF CalmStart
    <3> QED
      BY <3>1, EndsDiffer DEF Ends
  <2>3. m = Packet("hello", k) /\ k # 0
    BY <1>3, <1>5, <1>m, <2>1
  <2>4. k = 1
    BY <1>1, <2>2, <2>3 DEF CalmEnd, Number
  <2>5. pending = <<>>
    BY <1>1, <1>2, <2>2, <2>3, <2>4 DEF CalmStart
  <2>6. pending' = <<m>>
    <3>1. bufferPending(m)
      BY <1>5, <2>2, PipeEndsAssumption DEF Deliver
    <3>2. Len(pending) = 0 /\ ~(0 >= PendingMax)
      BY <2>5, PipeBoundsAssumption
    <3> QED
      BY <2>5, <3>1, <3>2 DEF bufferPending
  <2>7. CalmWire(Dialer)' /\ CalmWire(Acceptor)'
    BY <1>0, <1>2, <2>1, <2>2 DEF Calm, CalmWire
  <2>8. Tells(Acceptor)'
    <3>1. pipe[Acceptor].heard = 0 /\ pending' # <<>>
      BY <2>1, <2>2, <2>6 DEF NoPipe, NewPipe
    <3> QED
      BY <2>1, <3>1 DEF Tells
  <2>9. Tells(Dialer)'
    <3>1. pipe[Dialer].heard = 0 /\ pipe[Acceptor].nonce = 0 /\ Other(Dialer) = Acceptor
      BY <1>1, <2>1, <2>2, EndsDiffer DEF CalmStart
    <3> QED
      BY <2>1, <3>1 DEF Tells
  <2>10. CalmStart'
    <3>1. Packet("hello", 1) \notin wire'[Acceptor] /\ pending' = <<Packet("hello", 1)>> /\ pipe[Dialer].nonce = 1
          /\ wire'[Acceptor] \subseteq wire[Acceptor] /\ wire'[Dialer] = wire[Dialer]
      BY <1>2, <2>2, <2>3, <2>4, <2>6
    <3>2. Packet("open", 0) # m
      BY <1>m, <1>t, <1>2
    <3>3. pipe[Dialer].st # "none"
      BY <1>1, <1>2, <2>2 DEF CalmStart
    <3> QED
      BY <1>1, <1>2, <2>1, <2>2, <3>1, <3>2, <3>3 DEF CalmStart
  <2> QED
    BY <1>0, <1>1, <2>1, <2>2, <2>7, <2>8, <2>9, <2>10 DEF Calm, Ends
<1> QED
  BY <1>4, <1>5

\* A continuation of an end.
LEMMA CalmContinues ==
  ASSUME AuthInv, Calm, NEW e \in Ends,
         AuthSent(e) \/ (\E ok \in BOOLEAN : AuthChecked(e, ok)) \/ Send(e) \/ SendSettles(e)
  PROVE  Calm'
<1> DEFINE o == Other(e)
           k == pipe[o].nonce
           rec == pipe[e]
<1>0. o \in Ends /\ o # e /\ Other(o) = e /\ pipe \in [Ends -> PipeRecord] /\ wire \in [Ends -> SUBSET Packets]
      /\ rec \in PipeRecord
  BY EndsDiffer DEF AuthInv, PipesFit, WiresFit
<1>1. CalmEnd(rec, e, k) /\ Tells(e) /\ CalmStart /\ CalmEnd(pipe[o], o, rec.nonce)
  BY <1>0 DEF Calm
<1>n. NoPipe.signing = 0 /\ NoPipe.verifying = {} /\ NoPipe.promise = "pending" /\ NoPipe.st = "none"
  BY DEF NoPipe, NewPipe
<1>2. rec.st = "open"
  <2>1. rec.st # "none"
    BY <1>1, <1>n DEF AuthSent, AuthChecked, Send, SendSettles, CalmEnd
  <2> QED
    BY <1>1, <2>1 DEF CalmEnd
<1>3. pipe[o].st = "none" => rec.heard = 0 /\ ~AuthWaits(rec)
  <2>1. CASE e = Dialer
    <3>1. o = Acceptor
      BY <2>1, EndsDiffer
    <3> QED
      BY <1>1, <2>1, <3>1 DEF CalmStart
  <2>2. CASE e = Acceptor
    <3>1. o = Dialer
      BY <2>2, EndsDiffer
    <3> QED
      BY <1>1, <1>2, <2>2, <3>1 DEF CalmStart
  <2> QED
    BY <2>1, <2>2 DEF Ends
<1>4. ASSUME AuthSent(e) PROVE Calm'
  <2> DEFINE t == [rec EXCEPT !.signing = 0]
             r == TakePendingAuth(t)
  <2>1. rec.signing = k /\ k # 0 /\ rec.heard = k
    BY <1>1, <1>4 DEF AuthSent, CalmEnd
  <2>2. pipe' = [pipe EXCEPT ![e] = r] /\ UNCHANGED <<pending, opening>>
        /\ wire' = [wire EXCEPT ![o] = @ \cup {Packet("auth", k)}]
    BY <1>4, <2>1 DEF AuthSent
  <2>3. t \in PipeRecord /\ t.st = rec.st /\ t.id = rec.id /\ t.held = rec.held /\ t.nonce = rec.nonce
        /\ t.timers = rec.timers /\ t.heard = rec.heard /\ t.signing = 0 /\ t.pendingAuth = rec.pendingAuth
        /\ t.verifying = rec.verifying /\ t.authSent = rec.authSent /\ t.ready = rec.ready
        /\ t.promise = rec.promise
    BY <1>0, PipeBoundsAssumption DEF PipeRecord
  <2>p. ASSUME NEW x, x = TakePendingAuth(t)
        PROVE  CalmEnd(x, e, k) /\ KeepsOn(t, x)
    <3> DEFINE none == [t EXCEPT !.pendingAuth = 0]
               seen == [none EXCEPT !.verifying = @ \cup {TRUE}]
    <3>1. CASE rec.pendingAuth = 0
      <4>1. x = t
        BY <2>p, <2>3, <3>1 DEF TakePendingAuth
      <4> HIDE DEF t
      <4>2. CalmEnd(t, e, k)
        BY <1>1, <1>2, <2>3, <3>1 DEF CalmEnd
      <4> QED
        BY <4>1, <4>2 DEF KeepsOn
    <3>2. CASE rec.pendingAuth # 0
      <4>1. rec.pendingAuth = rec.nonce /\ rec.nonce # 0
        BY <1>1, <3>2 DEF CalmEnd
      <4> HIDE DEF t
      <4>2. none \in PipeRecord /\ none.st = t.st /\ none.id = t.id /\ none.held = t.held /\ none.nonce = t.nonce
            /\ none.timers = t.timers /\ none.heard = t.heard /\ none.signing = 0 /\ none.pendingAuth = 0
            /\ none.verifying = t.verifying /\ none.authSent = t.authSent /\ none.ready = t.ready
            /\ none.promise = t.promise
        BY <2>3, PipeBoundsAssumption DEF PipeRecord
      <4>3. x = handleAuth(none, rec.nonce)
        BY <2>p, <2>3, <3>2, <4>1 DEF TakePendingAuth
      <4> HIDE DEF none
      <4>4. verifyAuth(none, rec.nonce) = TRUE
        BY <2>3, <4>1, <4>2 DEF verifyAuth
      <4>5. x = seen
        BY <2>1, <2>3, <4>2, <4>3, <4>4 DEF handleAuth
      <4>6. seen.st = rec.st /\ seen.id = rec.id /\ seen.held = rec.held /\ seen.nonce = rec.nonce
            /\ seen.timers = rec.timers /\ seen.heard = rec.heard /\ seen.signing = 0 /\ seen.pendingAuth = 0
            /\ seen.verifying = rec.verifying \cup {TRUE} /\ seen.authSent = rec.authSent /\ seen.ready = rec.ready
            /\ seen.promise = rec.promise
        BY <2>3, <4>2 DEF PipeRecord
      <4> HIDE DEF seen
      <4>7. CalmEnd(seen, e, k)
        BY <1>1, <1>2, <4>1, <4>6 DEF CalmEnd
      <4>8. KeepsOn(t, seen)
        BY <2>3, <4>6 DEF KeepsOn, AuthWaits
      <4> QED
        BY <4>5, <4>7, <4>8
    <3> QED
      BY <3>1, <3>2
  <2>4. CalmEnd(r, e, k) /\ KeepsOn(t, r)
    BY <2>p
  <2> HIDE DEF r, t
  <2>5. r.st = "open" /\ r.nonce = rec.nonce /\ (rec.heard # 0 => r.heard # 0) /\ (AuthWaits(rec) => AuthWaits(r))
    BY <1>2, <2>3, <2>4 DEF KeepsOn, AuthWaits
  <2>6. wire'[o] = wire[o] \cup {Packet("auth", k)} /\ wire'[e] = wire[e]
    BY <1>0, <2>2
  <2>7. pipe[o].st # "none"
    BY <1>3, <2>1
  <2>8. Takes(e, r)
    BY <2>6 DEF Takes
  <2>9. Writes(e, r)
    BY <2>1, <2>6 DEF Writes
  <2> QED
    BY <1>2, <2>2, <2>4, <2>5, <2>7, <2>8, <2>9, CalmMove
<1>5. ASSUME NEW ok \in BOOLEAN, AuthChecked(e, ok) PROVE Calm'
  <2> DEFINE t == [rec EXCEPT !.verifying = @ \ {ok}]
             r == Finished(t)
  <2>1. ok = TRUE
    BY <1>1, <1>5 DEF AuthChecked, CalmEnd
  <2>2. pipe' = [pipe EXCEPT ![e] = r] /\ UNCHANGED <<wire, pending, opening>> /\ ok \in rec.verifying
    BY <1>5, <2>1 DEF AuthChecked
  <2>3. t \in PipeRecord /\ t.st = rec.st /\ t.id = rec.id /\ t.held = rec.held /\ t.nonce = rec.nonce
        /\ t.timers = rec.timers /\ t.heard = rec.heard /\ t.signing = rec.signing /\ t.pendingAuth = rec.pendingAuth
        /\ t.verifying \subseteq rec.verifying /\ t.authSent = rec.authSent /\ t.ready = rec.ready
        /\ t.promise = rec.promise
    BY <1>0 DEF PipeRecord
  <2> HIDE DEF t
  <2>4. r.st = t.st /\ r.id = t.id /\ r.held = t.held /\ r.nonce = t.nonce
        /\ ((r.timers = t.timers /\ t.ready) \/ r.timers = {"run"}) /\ r.heard = t.heard /\ r.signing = t.signing
        /\ r.pendingAuth = t.pendingAuth /\ r.verifying = t.verifying /\ r.authSent = t.authSent /\ r.ready
    BY <2>3 DEF Finished, PipeRecord
  <2> HIDE DEF r
  <2>5. CalmEnd(r, e, k)
    <3>1. rec.nonce # 0
      BY <1>1, <2>2 DEF CalmEnd
    <3> QED
      BY <1>1, <1>2, <2>3, <2>4, <3>1 DEF CalmEnd
  <2>6. AuthWaits(rec) /\ AuthWaits(r)
    BY <2>2, <2>4 DEF AuthWaits
  <2>7. pipe[o].st # "none"
    BY <1>3, <2>6
  <2>8. Takes(e, r)
    BY <2>2 DEF Takes
  <2>9. Writes(e, r)
    BY <2>2, <2>3, <2>4 DEF Writes
  <2>10. r.st = "open" /\ r.nonce = rec.nonce /\ (rec.heard # 0 => r.heard # 0)
    BY <1>2, <2>3, <2>4
  <2> QED
    BY <1>2, <2>2, <2>5, <2>6, <2>7, <2>8, <2>9, <2>10, CalmMove
<1>6. ASSUME Send(e) \/ SendSettles(e) PROVE Calm'
  <2>1. PICK s \in {"waits", "sent", "refused"} :
          /\ pipe' = [pipe EXCEPT ![e].sending = s]
          /\ \/ wire' = wire
             \/ wire' = [wire EXCEPT ![o] = @ \cup {Packet("data", 0)}] /\ rec.promise # "pending"
          /\ UNCHANGED <<opening, pending>>
    BY <1>6 DEF Send, SendSettles
  <2> DEFINE r == [rec EXCEPT !.sending = s]
  <2>2. pipe' = [pipe EXCEPT ![e] = r]
    BY <2>1
  <2>3. r.st = rec.st /\ r.id = rec.id /\ r.held = rec.held /\ r.nonce = rec.nonce
        /\ r.timers = rec.timers /\ r.heard = rec.heard /\ r.signing = rec.signing /\ r.pendingAuth = rec.pendingAuth
        /\ r.verifying = rec.verifying /\ r.authSent = rec.authSent /\ r.ready = rec.ready
        /\ r.promise = rec.promise
    BY <1>0 DEF PipeRecord
  <2> HIDE DEF r
  <2>4. CalmEnd(r, e, k)
    BY <1>1, <1>2, <2>3 DEF CalmEnd
  <2>5. AuthWaits(r) <=> AuthWaits(rec)
    BY <2>3 DEF AuthWaits
  <2>6. wire'[e] = wire[e] /\ (wire'[o] = wire[o] \/ (wire'[o] = wire[o] \cup {Packet("data", 0)} /\ pipe[o].st = "open"))
    <3>1. rec.promise # "pending" => pipe[o].st = "open"
      BY <1>1, <1>3 DEF CalmEnd, AuthWaits
    <3> QED
      BY <1>0, <2>1, <3>1
  <2>7. Takes(e, r)
    BY <2>6 DEF Takes
  <2>8. Writes(e, r)
    BY <2>3, <2>6 DEF Writes
  <2> QED
    BY <1>2, <1>3, <2>1, <2>2, <2>3, <2>4, <2>5, <2>7, <2>8, CalmMove
<1> QED
  BY <1>4, <1>5, <1>6

\* The invariant of a link until its first fault.
CalmInv == AuthInv /\ (faults = 0 => Calm)

\* No close begins and no timer runs out as long as there has been no fault.
LEMMA CalmKept == CalmInv /\ [NextPipe]_pipeVars => CalmInv'
<1> SUFFICES ASSUME CalmInv, [NextPipe]_pipeVars, faults' = 0 PROVE Calm'
  BY AuthKept DEF CalmInv, AuthInv, pipeVars
<1>f. faults \in Nat
  BY PipeBoundsAssumption DEF CalmInv, AuthInv
<1>1. CASE UNCHANGED pipeVars
  <2>1. UNCHANGED <<pipe, wire, opening, pending>> /\ Calm
    BY <1>1 DEF CalmInv, pipeVars
  <2>2. ASSUME NEW e \in Ends PROVE CalmWire(e)' /\ Tells(e)'
    <3>1. CalmWire(e) /\ Tells(e)
      BY <2>1 DEF Calm
    <3>2. CalmWire(e)'
      BY <2>1, <3>1 DEF CalmWire
    <3>3. Tells(e)'
      BY <2>1, <3>1 DEF Tells
    <3> QED
      BY <3>2, <3>3
  <2>3. CalmStart'
    <3>1. CalmStart
      BY <2>1 DEF Calm
    <3> QED
      BY <2>1, <3>1 DEF CalmStart
  <2> QED
    BY <2>1, <2>2, <2>3 DEF Calm
<1>2. CASE Dial \/ StartHandshake \/ OpenArrives \/ OpenPipe
  <2>1. faults = 0
    BY <1>2 DEF Dial, StartHandshake, OpenArrives, OpenPipe
  <2> QED
    BY <1>2, <2>1, CalmOpens, CalmPipe DEF CalmInv
<1>3. CASE DialThrows
  BY <1>3, <1>f DEF DialThrows
<1>4. ASSUME NEW e \in Ends, NEW m \in Packets, Deliver(e, m) PROVE Calm'
  <2>1. faults = 0
    BY <1>4 DEF Deliver
  <2> QED
    BY <1>4, <2>1, CalmDelivers DEF CalmInv
<1>5. ASSUME NEW e \in Ends,
             AuthSent(e) \/ (\E ok \in BOOLEAN : AuthChecked(e, ok)) \/ Send(e) \/ SendSettles(e)
      PROVE  Calm'
  <2>1. faults = 0
    BY <1>5 DEF AuthSent, AuthChecked, Send, SendSettles
  <2> QED
    BY <1>5, <2>1, CalmContinues DEF CalmInv
<1>6. ASSUME NEW e \in Ends, CloseDone(e) PROVE Calm'
  <2>1. pipe[e].st = "closing" /\ faults = 0
    BY <1>6 DEF CloseDone
  <2> QED
    BY <2>1 DEF CalmInv, Calm, CalmEnd
<1>7. ASSUME NEW e \in Ends, HandshakeTimeout(e) \/ IdleTimeout(e) PROVE Calm'
  <2>1. faults = 0 /\ Quiet /\ pipe[e].timers # {}
        /\ ("handshake" \in pipe[e].timers \/ ~(pipe[Other(e)].st = "open" /\ pipe[Other(e)].ready))
    BY <1>7 DEF HandshakeTimeout, IdleTimeout
  <2>2. pipe[e].st = "open"
    BY <2>1 DEF CalmInv, Calm, CalmEnd, NoPipe, NewPipe
  <2>3. AuthInv /\ Calm
    BY <2>1 DEF CalmInv
  <2> QED
    BY <2>1, <2>2, <2>3, QuietIsReady, EndsDiffer
<1>8. ASSUME NEW e \in Ends, AuthSendFails(e) \/ CloseLink(e) \/ (\E m \in Packets : Lose(e, m))
                             \/ (\E m \in Packets, n \in 1..MaxPipes : Redeliver(e, n, m))
      PROVE  Calm'
  <2>1. faults' = faults + 1
    BY <1>8 DEF AuthSendFails, CloseLink, Lose, Redeliver
  <2> QED
    BY <1>f, <2>1
<1> QED
  BY <1>1, <1>2, <1>3, <1>4, <1>5, <1>6, <1>7, <1>8 DEF NextPipe, PipeContinues

\* For any bounds: without a fault no order in which open, hello and auth arrive closes an
\* end, because no auth fails and no handshake times out (pipe.mjs:196-275, nostr/index.mjs).
THEOREM CalmSound == SpecPipe => []ReorderingIsHarmless
<1>1. InitPipe /\ AuthInv => CalmInv
  <2> SUFFICES ASSUME InitPipe PROVE Calm
    BY DEF CalmInv
  <2>0. \A e \in Ends : Other(e) \in Ends
    BY EndsDiffer
  <2>1. NoPipe.st = "none" /\ NoPipe.nonce = 0 /\ NoPipe.heard = 0 /\ ~AuthWaits(NoPipe) /\ NoPipe.timers = {}
        /\ NoPipe.signing = 0 /\ NoPipe.pendingAuth = 0 /\ NoPipe.verifying = {} /\ ~NoPipe.authSent
        /\ ~NoPipe.ready /\ NoPipe.promise = "pending"
    BY DEF NoPipe, NewPipe, AuthWaits
  <2>2. ASSUME NEW e \in Ends PROVE pipe[e] = NoPipe /\ pipe[Other(e)] = NoPipe /\ wire[e] = {}
    BY <2>0 DEF InitPipe
  <2>3. \A e \in Ends : CalmEnd(NoPipe, e, 0)
    BY <2>1 DEF CalmEnd
  <2>4. \A e \in Ends : CalmWire(e) /\ Tells(e)
    BY <2>1, <2>2 DEF CalmWire, Tells
  <2>5. CalmStart
    BY <2>1, EndsDiffer DEF CalmStart, InitPipe
  <2> QED
    BY <2>1, <2>2, <2>3, <2>4, <2>5 DEF Calm
<1>2. CalmInv => ReorderingIsHarmless
  BY DEF CalmInv, Calm, CalmEnd, ReorderingIsHarmless
<1> QED
  BY <1>1, <1>2, CalmKept, AuthInvariant, PTL DEF SpecPipe

-----------------------------------------------------------------------------
(* A public file is whole, signed and ever newer. *)

\* The shape of a read.
ReadRecord ==
  [pc : {"new", "reading", "waits", "caching", "saving", "parts", "done", "null"}, node : FileNodes,
   revalidate : BOOLEAN, asks : BOOLEAN, local : Manifest, got : Manifest,
   refresh : {"no", "waits", "caching", "saving"}, floor : 0..MaxPublishedAt]

Answer == [by : FileNodes, manifest : Manifest]

Stages == {"new", "parts", "base", "sign", "done", "failed"}

\* Types of what is not a read.
DisksTyped ==
  /\ filed \in [FileNodes -> Manifest] /\ held \in [FileNodes -> SUBSET AllParts]
  /\ publication \in [Publications -> [pc : Stages, at : 0..MaxPublishedAt]]
  /\ now \in 0..MaxPublishedAt /\ served \in [FileNodes -> SUBSET Answer]
  /\ newestRead \in [FileNodes -> 0..MaxPublishedAt] /\ doubly \subseteq FileNodes

\* The owner's manifest is of a publication whose parts are stored.
OwnerStored ==
  /\ \A p \in Publications : publication[p].pc \notin {"new", "parts"} => PartsOf[p] \subseteq held[FileOwner]
  /\ filed[FileOwner] # NoManifest =>
       \E p \in Publications : filed[FileOwner].content = p /\ publication[p].pc \notin {"new", "parts"}

\* Publications one after the other are signed in their order.
SignedInTurn ==
  /\ \A p \in Publications : publication[p].at <= now
  /\ ~overlaid => \A p, q \in Publications :
                    Underway(p) => publication[q].at <= publication[p].at /\ (Underway(q) => p = q)
  /\ ~overlaid /\ ~unsignedLeft /\ (\A q \in Publications : publication[q].pc # "sign") =>
       \A p \in Publications : publication[p].pc = "done" => filed[FileOwner].at >= publication[p].at

\* A read is in one place at a time, and saves only what is newer and not the owner's.
ReadShaped(x) ==
  /\ x.refresh # "no" => x.pc \in {"parts", "done", "null"}
  /\ x.asks => x.pc \notin {"caching", "saving"} /\ x.refresh \notin {"caching", "saving"}
  /\ x.pc = "caching" \/ x.refresh = "caching" => x.got.at > 0
  /\ x.pc = "saving" \/ x.refresh = "saving" => x.node # FileOwner
  /\ x.pc = "new" => ~x.asks

\* What a read has is no older than what was returned before it (floor), and no newer than
\* what is on disk (at), until it saves.
ReadHolds(x, at) ==
  /\ x.pc \in {"waits", "caching", "saving", "parts"} => x.floor <= x.local.at /\ x.local.at <= at
  /\ x.pc \in {"caching", "saving"} => x.got.at > x.local.at
  /\ x.pc = "saving" \/ x.refresh = "saving" => x.got.at > at

\* A read x, where f is filed, nr what was returned last and d where two reads wrote at once.
SoundRead(x, f, nr, d) ==
  /\ x \in ReadRecord /\ ReadShaped(x)
  /\ x.node \notin d \cup {FileOwner} => ReadHolds(x, f[x.node].at) /\ x.floor <= nr[x.node]

ReadsSound(fr, f, nr, d) ==
  /\ fr \in [FileReads -> ReadRecord]
  /\ \A r \in FileReads : SoundRead(fr[r], f, nr, d)

\* What was returned is on disk, where no two reads wrote at once.
ReturnedIsFiled(f, nr, d) == \A n \in FileNodes \ (d \cup {FileOwner}) : nr[n] <= f[n].at

\* The invariant.
FilesInv ==
  /\ DisksTyped /\ OwnerStored /\ SignedInTurn
  /\ ReadsSound(fileRead, filed, newestRead, doubly)
  /\ ReturnedIsFiled(filed, newestRead, doubly) /\ ~wentBack

\* A manifest has a time, and none of it is no publication.
LEMMA ManifestFits ==
  /\ NoManifest \in Manifest /\ NoManifest.at = 0 /\ MaxPublishedAt \in Nat /\ FileOwner \in FileNodes
  /\ \A m \in Manifest : m.at \in 0..MaxPublishedAt /\ (m # NoManifest => m.content \in Publications)
  /\ \A p \in Publications, n \in 0..MaxPublishedAt :
       [content |-> p, at |-> n] \in Manifest /\ [content |-> p, at |-> n] # NoManifest
BY FilesAssumption DEF Manifest, NoManifest

\* What is left of a read that has ended asks nothing.
LEMMA LeftSound ==
  ASSUME NEW x, NEW f, NEW nr, NEW d, SoundRead(x, f, nr, d)
  PROVE  SoundRead(LeftOf(x), f, nr, d)
<1>1. CASE x.pc \in {"done", "null"} /\ x.refresh = "no"
  <2> DEFINE y == [NoRead EXCEPT !.pc = x.pc]
  <2>1. y \in ReadRecord
    BY <1>1, ManifestFits DEF NoRead, ReadRecord
  <2>2. y.node = FileOwner /\ ~y.asks /\ y.refresh = "no" /\ y.pc = x.pc
    BY DEF NoRead
  <2> HIDE DEF y
  <2>3. SoundRead(y, f, nr, d)
    BY <1>1, <2>1, <2>2 DEF SoundRead, ReadShaped
  <2> QED
    BY <1>1, <2>3 DEF LeftOf, y
<1>2. CASE ~(x.pc \in {"done", "null"} /\ x.refresh = "no")
  BY <1>2 DEF LeftOf
<1> QED
  BY <1>1, <1>2

\* A read returns a manifest m, which is on disk.
LEMMA ReturnsSound ==
  ASSUME NEW x, NEW f, NEW nr, NEW d, x \in ReadRecord, NEW m \in Manifest,
         f \in [FileNodes -> Manifest], x.refresh = "no",
         x.node \notin d \cup {FileOwner} /\ m # NoManifest =>
           x.floor <= m.at /\ m.at <= f[x.node].at /\ x.floor <= nr[x.node]
  PROVE  /\ SoundRead(Returns(x, m), f, nr, d)
         /\ m # NoManifest /\ x.asks \in BOOLEAN => 
              SoundRead([Returns(x, m) EXCEPT !.refresh = "waits"], f, nr, d)
<1>1. CASE m = NoManifest
  <2> DEFINE y == [x EXCEPT !.pc = "null"]
  <2>1. y \in ReadRecord /\ y.pc = "null" /\ y.refresh = "no"
    BY DEF ReadRecord
  <2> HIDE DEF y
  <2> DEFINE z == [NoRead EXCEPT !.pc = "null"]
  <2>2. LeftOf(y) = z
    BY <2>1 DEF LeftOf
  <2>3. z \in ReadRecord /\ z.node = FileOwner /\ ~z.asks /\ z.refresh = "no" /\ z.pc = "null"
    BY ManifestFits DEF NoRead, ReadRecord
  <2> HIDE DEF z
  <2>4. SoundRead(z, f, nr, d)
    BY <2>3 DEF SoundRead, ReadShaped
  <2>5. Returns(x, m) = LeftOf(y)
    BY <1>1 DEF Returns, y
  <2> QED
    BY <1>1, <2>2, <2>4, <2>5
<1>2. CASE m # NoManifest
  <2> DEFINE y == [x EXCEPT !.pc = "parts", !.local = m]
             z == [y EXCEPT !.refresh = "waits"]
  <2>1. Returns(x, m) = y
    BY <1>2 DEF Returns
  <2>2. y \in ReadRecord /\ y.pc = "parts" /\ y.local = m /\ y.node = x.node /\ y.refresh = "no"
        /\ y.floor = x.floor
    BY DEF ReadRecord
  <2> HIDE DEF y
  <2>3. z \in ReadRecord /\ z.pc = "parts" /\ z.local = m /\ z.node = x.node /\ z.refresh = "waits"
        /\ z.floor = x.floor
    BY <2>2 DEF ReadRecord
  <2> HIDE DEF z
  <2>4. SoundRead(y, f, nr, d)
    BY <1>2, <2>2 DEF SoundRead, ReadShaped, ReadHolds
  <2>5. SoundRead(z, f, nr, d)
    BY <1>2, <2>3 DEF SoundRead, ReadShaped, ReadHolds
  <2> QED
    BY <2>1, <2>4, <2>5 DEF z
<1> QED
  BY <1>1, <1>2

\* A read goes on, and nothing else changes.
LEMMA ReadGoes ==
  ASSUME FilesInv, NEW r \in FileReads, NEW x, SoundRead(x, filed, newestRead, doubly),
         fileRead' = [fileRead EXCEPT ![r] = x],
         UNCHANGED <<served, newestRead, doubly, wentBack>>, FilesUnchanged
  PROVE  FilesInv'
<1>1. UNCHANGED <<filed, held, publication, now, unsignedLeft, overlaid, served, newestRead, doubly, wentBack>>
  BY DEF FilesUnchanged
<1>2. ReadsSound(fileRead', filed, newestRead, doubly)
  <2>1. x \in ReadRecord
    BY DEF SoundRead
  <2>2. fileRead' \in [FileReads -> ReadRecord] /\ \A q \in FileReads : fileRead'[q] = IF q = r THEN x ELSE fileRead[q]
    BY <2>1 DEF FilesInv, ReadsSound
  <2> QED
    BY <2>2 DEF FilesInv, ReadsSound
<1>3. DisksTyped' /\ OwnerStored' /\ SignedInTurn'
  BY <1>1 DEF FilesInv, DisksTyped, OwnerStored, SignedInTurn, Underway
<1> QED
  BY <1>1, <1>2, <1>3 DEF FilesInv

\* A publication goes on; what it writes is the owner's.
LEMMA PublicationKept ==
  ASSUME FilesInv, NEW p \in Publications,
         publishPublicFile(p) \/ PartsStored(p) \/ BaseSaved(p) \/ SignedSaved(p) \/ PublicationFails(p)
  PROVE  FilesInv'
<1>0. UNCHANGED <<fileRead, served, newestRead, doubly, wentBack>>
  BY DEF publishPublicFile, PartsStored, BaseSaved, SignedSaved, PublicationFails, ReadsUnchanged
<1>1. /\ filed \in [FileNodes -> Manifest] /\ held \in [FileNodes -> SUBSET AllParts]
      /\ publication \in [Publications -> [pc : Stages, at : 0..MaxPublishedAt]]
      /\ now \in 0..MaxPublishedAt /\ served \in [FileNodes -> SUBSET Answer]
      /\ newestRead \in [FileNodes -> 0..MaxPublishedAt] /\ doubly \subseteq FileNodes
  BY DEF FilesInv, DisksTyped
<1>2. OwnerStored /\ SignedInTurn
  BY DEF FilesInv
\* What is written elsewhere.
<1>3. ASSUME filed' \in [FileNodes -> Manifest], \A n \in FileNodes \ {FileOwner} : filed'[n] = filed[n]
      PROVE  ReadsSound(fileRead', filed', newestRead', doubly') /\ ReturnedIsFiled(filed', newestRead', doubly')
  <2>1. ASSUME NEW r \in FileReads PROVE SoundRead(fileRead[r], filed', newestRead, doubly)
    <3>1. SoundRead(fileRead[r], filed, newestRead, doubly)
      BY DEF FilesInv, ReadsSound
    <3>2. fileRead[r].node \in FileNodes
      BY <3>1 DEF SoundRead, ReadRecord
    <3> QED
      BY <1>3, <3>1, <3>2 DEF SoundRead
  <2>2. ReadsSound(fileRead, filed', newestRead, doubly)
    BY <2>1 DEF FilesInv, ReadsSound
  <2>3. ReturnedIsFiled(filed', newestRead, doubly)
    BY <1>3 DEF FilesInv, ReturnedIsFiled
  <2> QED
    BY <1>0, <2>2, <2>3
\* How far each is.
<1>4. ASSUME NEW st \in Stages, publication' = [publication EXCEPT ![p].pc = st]
      PROVE  /\ publication' \in [Publications -> [pc : Stages, at : 0..MaxPublishedAt]]
             /\ \A q \in Publications : /\ publication'[q].at = publication[q].at
                                        /\ publication'[q].pc = IF q = p THEN st ELSE publication[q].pc
  <2> DEFINE x == [publication[p] EXCEPT !.pc = st]
  <2>1. publication' = [publication EXCEPT ![p] = x]
    BY <1>4
  <2>2. x \in [pc : Stages, at : 0..MaxPublishedAt] /\ x.pc = st /\ x.at = publication[p].at
    BY <1>1
  <2> HIDE DEF x
  <2>3. \A q \in Publications : publication'[q] = IF q = p THEN x ELSE publication[q]
    BY <1>1, <2>1
  <2>4. publication' \in [Publications -> [pc : Stages, at : 0..MaxPublishedAt]]
    BY <1>1, <2>1, <2>2
  <2> QED
    BY <2>2, <2>3, <2>4
<1>5. CASE publishPublicFile(p)
  <2>1. /\ publication[p].pc = "new" /\ now < MaxPublishedAt /\ now' = now + 1
        /\ publication' = [publication EXCEPT ![p] = [pc |-> "parts", at |-> now']]
        /\ overlaid' = (overlaid \/ \E q \in Publications : Underway(q))
        /\ UNCHANGED <<filed, held, unsignedLeft>>
    BY <1>5 DEF publishPublicFile
  <2>2. now' \in 0..MaxPublishedAt
    BY <1>1, <2>1, ManifestFits
  <2> DEFINE x == [pc |-> "parts", at |-> now']
  <2>3. x \in [pc : Stages, at : 0..MaxPublishedAt] /\ x.pc = "parts" /\ x.at = now + 1
    BY <2>1, <2>2 DEF Stages
  <2> HIDE DEF x
  <2>4. /\ publication' \in [Publications -> [pc : Stages, at : 0..MaxPublishedAt]]
        /\ publication'[p] = x /\ \A q \in Publications \ {p} : publication'[q] = publication[q]
    BY <1>1, <2>1, <2>3 DEF x
  <2>5. DisksTyped'
    BY <1>0, <1>1, <2>1, <2>2, <2>4 DEF DisksTyped
  <2>6. OwnerStored'
    <3>1. \A q \in Publications : publication'[q].pc \notin {"new", "parts"} => publication[q].pc \notin {"new", "parts"}
      BY <2>3, <2>4
    <3>2. \A q \in Publications : publication[q].pc \notin {"new", "parts"} => publication'[q].pc \notin {"new", "parts"}
      BY <2>1, <2>3, <2>4
    <3> QED
      BY <1>2, <2>1, <3>1, <3>2 DEF OwnerStored
  <2>7. SignedInTurn'
    <3>1. \A q \in Publications : publication[q].at \in Nat /\ publication[q].at <= now
      BY <1>1, <1>2 DEF SignedInTurn
    <3>2. \A q \in Publications : publication'[q].at <= now'
      BY <1>1, <2>1, <2>3, <2>4, <3>1
    <3>3. ~overlaid' => ~overlaid /\ \A q \in Publications : ~Underway(q)
      BY <2>1
    <3>4. \A q \in Publications \ {p} : Underway(q)' <=> Underway(q)
      BY <2>4 DEF Underway
    <3>5. ~overlaid' => \A q, s \in Publications :
                          Underway(q)' => publication'[s].at <= publication'[q].at /\ (Underway(s)' => q = s)
      BY <2>1, <2>3, <2>4, <3>2, <3>3, <3>4
    <3>6. \A q \in Publications : (publication'[q].pc = "sign" <=> publication[q].pc = "sign")
                                  /\ (publication'[q].pc = "done" => publication[q].pc = "done" /\ publication'[q] = publication[q])
      BY <2>1, <2>3, <2>4
    <3>7. ~overlaid' /\ ~unsignedLeft' /\ (\A q \in Publications : publication'[q].pc # "sign") =>
            \A q \in Publications : publication'[q].pc = "done" => filed'[FileOwner].at >= publication'[q].at
      BY <1>2, <2>1, <3>3, <3>6 DEF SignedInTurn
    <3> QED
      BY <3>2, <3>5, <3>7 DEF SignedInTurn
  <2> QED
    BY <1>0, <1>1, <1>3, <2>1, <2>5, <2>6, <2>7 DEF FilesInv
<1>6. CASE PartsStored(p)
  <2>1. /\ publication[p].pc = "parts" /\ publication' = [publication EXCEPT ![p].pc = "base"]
        /\ held' = [held EXCEPT ![FileOwner] = @ \cup PartsOf[p]]
        /\ UNCHANGED <<filed, now, unsignedLeft, overlaid>>
    BY <1>6 DEF PartsStored, Proceeds, Stored
  <2>2. /\ publication' \in [Publications -> [pc : Stages, at : 0..MaxPublishedAt]]
        /\ \A q \in Publications : /\ publication'[q].at = publication[q].at
                                   /\ publication'[q].pc = IF q = p THEN "base" ELSE publication[q].pc
    BY <1>4, <2>1 DEF Stages
  <2>3. PartsOf[p] \subseteq AllParts
    BY DEF AllParts
  <2>4. held' \in [FileNodes -> SUBSET AllParts] /\ held'[FileOwner] = held[FileOwner] \cup PartsOf[p]
    BY <1>1, <2>1, <2>3, ManifestFits
  <2>5. DisksTyped'
    BY <1>0, <1>1, <2>1, <2>2, <2>4 DEF DisksTyped
  <2>6. OwnerStored'
    BY <1>2, <2>1, <2>2, <2>4 DEF OwnerStored
  <2>7. SignedInTurn'
    <3>1. \A q \in Publications : Underway(q)' <=> Underway(q)
      BY <2>1, <2>2 DEF Underway
    <3> QED
      BY <1>2, <2>1, <2>2, <3>1 DEF SignedInTurn
  <2> QED
    BY <1>0, <1>1, <1>3, <2>1, <2>5, <2>6, <2>7 DEF FilesInv
<1>7. CASE BaseSaved(p) \/ SignedSaved(p)
  <2>1. PICK st \in {"sign", "done"}, m \in Manifest :
        /\ publication[p].pc = (IF st = "sign" THEN "base" ELSE "sign")
        /\ publication' = [publication EXCEPT ![p].pc = st]
        /\ filed' = [filed EXCEPT ![FileOwner] = m]
        /\ m.content = p /\ m # NoManifest /\ (st = "done" => m.at = publication[p].at)
        /\ UNCHANGED <<held, now, unsignedLeft, overlaid>>
    <3>1. publication[p].at \in 0..MaxPublishedAt /\ 0 \in 0..MaxPublishedAt
      BY <1>1, ManifestFits
    <3>2. CASE BaseSaved(p)
      <4> DEFINE m == [content |-> p, at |-> 0]
      <4>1. m \in Manifest /\ m # NoManifest /\ m.content = p
        BY <3>1, ManifestFits
      <4>2. /\ publication[p].pc = "base" /\ publication' = [publication EXCEPT ![p].pc = "sign"]
            /\ filed' = [filed EXCEPT ![FileOwner] = m] /\ UNCHANGED <<held, now, unsignedLeft, overlaid>>
        BY <3>2 DEF BaseSaved, Proceeds
      <4> HIDE DEF m
      <4> QED
        BY <4>1, <4>2
    <3>3. CASE SignedSaved(p)
      <4> DEFINE m == [content |-> p, at |-> publication[p].at]
      <4>1. m \in Manifest /\ m # NoManifest /\ m.content = p /\ m.at = publication[p].at
        BY <3>1, ManifestFits
      <4>2. /\ publication[p].pc = "sign" /\ publication' = [publication EXCEPT ![p].pc = "done"]
            /\ filed' = [filed EXCEPT ![FileOwner] = m] /\ UNCHANGED <<held, now, unsignedLeft, overlaid>>
        BY <3>3 DEF SignedSaved, Proceeds, Signed
      <4> HIDE DEF m
      <4> QED
        BY <4>1, <4>2
    <3> QED
      BY <1>7, <3>2, <3>3
  <2>2. /\ publication' \in [Publications -> [pc : Stages, at : 0..MaxPublishedAt]]
        /\ \A q \in Publications : /\ publication'[q].at = publication[q].at
                                   /\ publication'[q].pc = IF q = p THEN st ELSE publication[q].pc
    <3>1. st \in Stages /\ publication' = [publication EXCEPT ![p].pc = st]
      BY <2>1 DEF Stages
    <3> QED
      BY <1>4, <3>1
  <2>3. filed' \in [FileNodes -> Manifest] /\ filed'[FileOwner] = m
        /\ \A n \in FileNodes \ {FileOwner} : filed'[n] = filed[n]
    BY <1>1, <2>1, ManifestFits
  <2>4. DisksTyped'
    BY <1>0, <1>1, <2>1, <2>2, <2>3 DEF DisksTyped
  <2>5. OwnerStored'
    BY <1>2, <2>1, <2>2, <2>3 DEF OwnerStored
  <2>6. SignedInTurn'
    <3>1. \A q \in Publications : Underway(q)' => Underway(q)
      BY <2>1, <2>2 DEF Underway
    <3>2. Underway(p)
      BY <2>1 DEF Underway
    <3>3. ~overlaid /\ (\A q \in Publications : publication'[q].pc # "sign") =>
            \A q \in Publications : filed'[FileOwner].at >= publication'[q].at
      <4> SUFFICES ASSUME ~overlaid, publication'[p].pc # "sign"
                   PROVE  \A q \in Publications : filed'[FileOwner].at >= publication'[q].at
        OBVIOUS
      <4>1. filed'[FileOwner].at = publication[p].at
        BY <2>1, <2>2, <2>3
      <4>2. \A q \in Publications : publication[q].at <= publication[p].at
        BY <1>2, <3>2 DEF SignedInTurn
      <4>3. \A q \in Publications : publication[q].at \in Nat
        BY <1>1
      <4> QED
        BY <2>2, <4>1, <4>2, <4>3
    <3> QED
      BY <1>2, <2>1, <2>2, <3>1, <3>3 DEF SignedInTurn
  <2> QED
    BY <1>0, <1>1, <1>3, <2>3, <2>4, <2>5, <2>6 DEF FilesInv
<1>8. CASE PublicationFails(p)
  <2>1. /\ publication[p].pc \in {"base", "sign"} /\ publication' = [publication EXCEPT ![p].pc = "failed"]
        /\ unsignedLeft' = (unsignedLeft \/ publication[p].pc = "sign")
        /\ UNCHANGED <<filed, held, now, overlaid>>
    BY <1>8 DEF PublicationFails
  <2>2. /\ publication' \in [Publications -> [pc : Stages, at : 0..MaxPublishedAt]]
        /\ \A q \in Publications : /\ publication'[q].at = publication[q].at
                                   /\ publication'[q].pc = IF q = p THEN "failed" ELSE publication[q].pc
    BY <1>4, <2>1 DEF Stages
  <2>3. DisksTyped'
    BY <1>0, <1>1, <2>1, <2>2 DEF DisksTyped
  <2>4. OwnerStored'
    BY <1>2, <2>1, <2>2 DEF OwnerStored
  <2>5. SignedInTurn'
    <3>1. \A q \in Publications : Underway(q)' => Underway(q)
      BY <2>1, <2>2 DEF Underway
    <3>2. ~unsignedLeft' => ~unsignedLeft /\ publication[p].pc = "base"
      BY <2>1
    <3>3. ~unsignedLeft' /\ (\A q \in Publications : publication'[q].pc # "sign") =>
            \A q \in Publications : publication[q].pc # "sign"
      BY <2>2, <3>2
    <3> QED
      BY <1>2, <2>1, <2>2, <3>1, <3>2, <3>3 DEF SignedInTurn
  <2> QED
    BY <1>0, <1>1, <1>3, <2>1, <2>3, <2>4, <2>5 DEF FilesInv
<1> QED
  BY <1>5, <1>6, <1>7, <1>8

\* The request ends that reads of a node share.
LEMMA RequestKept ==
  ASSUME FilesInv, NEW n \in FileNodes, NEW m \in Manifest, RequestEnds(n, m)
  PROVE  FilesInv'
<1>1. UNCHANGED <<filed, held, publication, now, unsignedLeft, overlaid, newestRead, doubly, wentBack>>
      /\ served' = [served EXCEPT ![n] = {}]
      /\ fileRead' = [r \in FileReads |-> IF fileRead[r].node = n /\ fileRead[r].asks
                                         THEN [fileRead[r] EXCEPT !.asks = FALSE, !.got = m] ELSE fileRead[r]]
  BY DEF RequestEnds, FilesUnchanged
<1>2. ASSUME NEW r \in FileReads PROVE SoundRead(fileRead'[r], filed, newestRead, doubly)
  <2> DEFINE x == fileRead[r]
             y == [x EXCEPT !.asks = FALSE, !.got = m]
  <2>1. SoundRead(x, filed, newestRead, doubly) /\ x \in ReadRecord
    BY DEF FilesInv, ReadsSound, SoundRead
  <2>2. CASE x.node = n /\ x.asks
    <3>1. fileRead'[r] = y
      BY <1>1, <2>2
    <3>2. y \in ReadRecord /\ y.pc = x.pc /\ y.node = x.node /\ ~y.asks /\ y.local = x.local /\ y.refresh = x.refresh
          /\ y.floor = x.floor
      BY <2>1 DEF ReadRecord
    <3>3. x.pc \notin {"caching", "saving"} /\ x.refresh \notin {"caching", "saving"}
      BY <2>1, <2>2 DEF SoundRead, ReadShaped
    <3> HIDE DEF x, y
    <3>4. SoundRead(y, filed, newestRead, doubly)
      BY <2>1, <3>2, <3>3 DEF SoundRead, ReadShaped, ReadHolds
    <3> QED
      BY <3>1, <3>4
  <2>3. CASE ~(x.node = n /\ x.asks)
    BY <1>1, <2>1, <2>3
  <2> QED
    BY <2>2, <2>3
<1>3. fileRead' \in [FileReads -> ReadRecord]
  <2>1. \A r \in FileReads : fileRead'[r] \in ReadRecord
    BY <1>2 DEF SoundRead
  <2> QED
    BY <1>1, <2>1
<1>4. ReadsSound(fileRead', filed, newestRead, doubly)
  BY <1>2, <1>3 DEF ReadsSound
<1>5. DisksTyped' /\ OwnerStored' /\ SignedInTurn'
  BY <1>1 DEF FilesInv, DisksTyped, OwnerStored, SignedInTurn, Underway
<1> QED
  BY <1>1, <1>4, <1>5 DEF FilesInv

\* Another node answers it.
LEMMA AnswerKept ==
  ASSUME FilesInv, NEW n \in FileNodes, NEW by \in FileNodes, handleIncomingManifestGet(n, by)
  PROVE  FilesInv'
<1>1. UNCHANGED <<fileRead, filed, held, publication, now, unsignedLeft, overlaid, newestRead, doubly, wentBack>>
      /\ served' = [served EXCEPT ![n] = @ \cup {[by |-> by, manifest |-> filed[by]]}]
  BY DEF handleIncomingManifestGet, FilesUnchanged
<1>2. [by |-> by, manifest |-> filed[by]] \in Answer
  BY DEF FilesInv, DisksTyped, Answer
<1>3. DisksTyped'
  BY <1>1, <1>2 DEF FilesInv, DisksTyped
<1>4. OwnerStored' /\ SignedInTurn'
  BY <1>1 DEF FilesInv, OwnerStored, SignedInTurn, Underway
<1> QED
  BY <1>1, <1>3, <1>4 DEF FilesInv

\* A read begins, looks at what is here, and at what it was told.
LEMMA ReadStepKept ==
  ASSUME FilesInv, NEW r \in FileReads,
         \/ \E n \in ReadersAt, revalidate \in BOOLEAN : readPublicFile(r, n, revalidate)
         \/ LocalRead(r) \/ WaitEnds(r) \/ RefreshEnds(r) \/ CacheLooks(r)
  PROVE  FilesInv'
<1> DEFINE x == fileRead[r]
           ok(y) == SoundRead(y, filed, newestRead, doubly)
<1>0. ok(x) /\ x \in ReadRecord /\ filed \in [FileNodes -> Manifest] /\ newestRead \in [FileNodes -> 0..MaxPublishedAt]
      /\ x.node \in FileNodes /\ filed[x.node] \in Manifest /\ filed[x.node].at \in Nat /\ newestRead[x.node] \in Nat
      /\ x.local.at \in Nat /\ x.got.at \in Nat /\ x.floor \in Nat /\ x.local \in Manifest /\ x.got \in Manifest
  <2>1. ok(x) /\ x \in ReadRecord /\ filed \in [FileNodes -> Manifest] /\ newestRead \in [FileNodes -> 0..MaxPublishedAt]
    BY DEF FilesInv, DisksTyped, ReadsSound, SoundRead
  <2>2. x.node \in FileNodes /\ x.local \in Manifest /\ x.got \in Manifest /\ x.floor \in 0..MaxPublishedAt
    BY <2>1 DEF ReadRecord
  <2> QED
    BY <2>1, <2>2, ManifestFits
<1>1. x.node \notin doubly \cup {FileOwner} =>
        ReadHolds(x, filed[x.node].at) /\ x.floor <= newestRead[x.node] /\ newestRead[x.node] <= filed[x.node].at
  BY <1>0 DEF SoundRead, FilesInv, ReturnedIsFiled
<1>g. ASSUME NEW y, ok(y), fileRead' = [fileRead EXCEPT ![r] = y],
             UNCHANGED <<served, newestRead, doubly, wentBack>>, FilesUnchanged
      PROVE  FilesInv'
  BY <1>g, ReadGoes
<1>2. ASSUME NEW n \in ReadersAt, NEW revalidate \in BOOLEAN, readPublicFile(r, n, revalidate) PROVE FilesInv'
  <2> DEFINE y == [NoRead EXCEPT !.pc = "reading", !.node = n, !.revalidate = revalidate, !.asks = TRUE,
                                 !.floor = newestRead[n]]
  <2>1. n \in FileNodes /\ newestRead[n] \in 0..MaxPublishedAt
    BY <1>0, FilesAssumption
  <2>2. y \in ReadRecord
    BY <2>1, ManifestFits DEF NoRead, ReadRecord
  <2>3. y.pc = "reading" /\ y.node = n /\ y.refresh = "no" /\ y.floor = newestRead[n]
    BY DEF NoRead
  <2>4. fileRead' = [fileRead EXCEPT ![r] = y] /\ UNCHANGED <<served, newestRead, doubly, wentBack>> /\ FilesUnchanged
    BY <1>2 DEF readPublicFile
  <2> HIDE DEF y
  <2>5. ok(y)
    BY <2>1, <2>2, <2>3 DEF SoundRead, ReadShaped, ReadHolds
  <2> QED
    BY <1>g, <2>4, <2>5
<1>3. CASE LocalRead(r)
  <2> DEFINE local == filed[x.node]
             waits == [x EXCEPT !.pc = "waits", !.local = local]
             y == IF local.at > 0
                  THEN IF x.revalidate THEN waits ELSE [Returns(x, local) EXCEPT !.refresh = "waits"]
                  ELSE IF local = NoManifest THEN waits ELSE Returns(x, NoManifest)
  <2>1. x.pc = "reading" /\ fileRead' = [fileRead EXCEPT ![r] = y]
        /\ UNCHANGED <<served, newestRead, doubly, wentBack>> /\ FilesUnchanged
    BY <1>3 DEF LocalRead
  <2>2. x.refresh = "no"
    BY <1>0, <2>1 DEF SoundRead, ReadShaped, ReadRecord
  <2>3. ok(waits)
    <3>1. waits \in ReadRecord /\ waits.pc = "waits" /\ waits.local = local /\ waits.node = x.node
          /\ waits.refresh = "no" /\ waits.floor = x.floor
      BY <1>0, <2>2 DEF ReadRecord
    <3> HIDE DEF waits, x
    <3> QED
      BY <1>0, <1>1, <3>1 DEF SoundRead, ReadShaped, ReadHolds
  <2>4. x.asks \in BOOLEAN /\ (x.node \notin doubly \cup {FileOwner} => x.floor <= local.at /\ local.at <= filed[x.node].at
                                                                     /\ x.floor <= newestRead[x.node])
    BY <1>0, <1>1 DEF ReadRecord
  <2>5. ok(Returns(x, NoManifest))
    BY <1>0, <2>2, ManifestFits, ReturnsSound
  <2>6. local.at > 0 => ok([Returns(x, local) EXCEPT !.refresh = "waits"])
    <3>1. local.at > 0 => local # NoManifest
      BY <1>0, ManifestFits
    <3> HIDE DEF x, local
    <3> QED
      BY <1>0, <2>2, <2>4, <3>1, ReturnsSound DEF local
  <2>7. ok(y)
    <3> HIDE DEF ok, waits, x, local
    <3> QED
      BY <2>3, <2>5, <2>6
  <2> HIDE DEF y, ok
  <2> QED
    BY <1>g, <2>1, <2>7
<1>4. CASE WaitEnds(r)
  <2> DEFINE c == [x EXCEPT !.pc = "caching"]
             y == IF Prefers(x.local, x.got) THEN c ELSE Returns(x, x.local)
  <2>1. x.pc = "waits" /\ ~x.asks /\ fileRead' = [fileRead EXCEPT ![r] = y]
        /\ UNCHANGED <<served, newestRead, doubly, wentBack>> /\ FilesUnchanged
    BY <1>4 DEF WaitEnds
  <2>2. x.refresh = "no"
    BY <1>0, <2>1 DEF SoundRead, ReadShaped, ReadRecord
  <2>3. x.node \notin doubly \cup {FileOwner} => x.floor <= x.local.at /\ x.local.at <= filed[x.node].at
    BY <1>1, <2>1 DEF ReadHolds
  <2>4. Prefers(x.local, x.got) => ok(c)
    <3>1. c \in ReadRecord /\ c.pc = "caching" /\ c.local = x.local /\ c.node = x.node /\ c.got = x.got
          /\ c.refresh = "no" /\ c.floor = x.floor /\ ~c.asks
      BY <1>0, <2>1, <2>2 DEF ReadRecord
    <3> HIDE DEF c, x
    <3> QED
      BY <1>0, <1>1, <2>3, <3>1 DEF SoundRead, ReadShaped, ReadHolds, Prefers
  <2>5. ok(Returns(x, x.local))
    <3> HIDE DEF x
    <3> QED
      BY <1>0, <1>1, <2>2, <2>3, ReturnsSound
  <2>6. ok(y)
    <3> HIDE DEF ok, c, x
    <3> QED
      BY <2>4, <2>5
  <2> HIDE DEF y, ok
  <2> QED
    BY <1>g, <2>1, <2>6
<1>5. CASE RefreshEnds(r)
  <2> DEFINE to == IF Prefers(x.local, x.got) THEN "caching" ELSE "no"
             c == [x EXCEPT !.refresh = to]
  <2>1. x.refresh = "waits" /\ ~x.asks /\ fileRead' = [fileRead EXCEPT ![r] = LeftOf(c)]
        /\ UNCHANGED <<served, newestRead, doubly, wentBack>> /\ FilesUnchanged
    BY <1>5 DEF RefreshEnds
  <2>2. to \in {"caching", "no"} /\ (to = "caching" => x.got.at > 0)
    BY <1>0 DEF Prefers
  <2> HIDE DEF to
  <2>3. c \in ReadRecord /\ c.pc = x.pc /\ c.local = x.local /\ c.node = x.node /\ c.got = x.got
        /\ c.refresh = to /\ c.floor = x.floor /\ ~c.asks
    BY <1>0, <2>1, <2>2 DEF ReadRecord
  <2> HIDE DEF c
  <2>4. ok(c)
    <3> HIDE DEF x
    <3> QED
      BY <1>0, <1>1, <2>1, <2>2, <2>3 DEF SoundRead, ReadShaped, ReadHolds
  <2>5. ok(LeftOf(c))
    BY <2>4, LeftSound
  <2> HIDE DEF ok
  <2> QED
    BY <1>g, <2>1, <2>5 DEF c, to
<1>6. CASE CacheLooks(r)
  <2> DEFINE to == IF Keeps(x.node, x.got) THEN "saving" ELSE "no"
             c == [x EXCEPT !.refresh = to]
             s == [x EXCEPT !.pc = "saving"]
             y == IF x.refresh = "caching" THEN LeftOf(c) ELSE IF to = "saving" THEN s ELSE Returns(x, x.got)
  <2>1. "caching" \in {x.pc, x.refresh} /\ fileRead' = [fileRead EXCEPT ![r] = y]
        /\ UNCHANGED <<served, newestRead, doubly, wentBack>> /\ FilesUnchanged
    BY <1>6 DEF CacheLooks
  <2>2. to \in {"saving", "no"} /\ (to = "saving" => x.node # FileOwner)
    BY DEF Keeps
  <2>3. x.got.at > 0 /\ ~x.asks
    BY <1>0, <2>1 DEF SoundRead, ReadShaped
  <2>4. to = "saving" => x.got.at > filed[x.node].at
    BY <1>0, <2>3, ManifestFits DEF Keeps, Prefers
  <2>5. to = "no" /\ x.node # FileOwner => x.got.at <= filed[x.node].at
    BY <1>0 DEF Keeps, Prefers
  <2> HIDE DEF to
  <2>6. CASE x.refresh = "caching"
    <3>1. c \in ReadRecord /\ c.pc = x.pc /\ c.local = x.local /\ c.node = x.node /\ c.got = x.got
          /\ c.refresh = to /\ c.floor = x.floor /\ ~c.asks
      BY <1>0, <2>2, <2>3 DEF ReadRecord
    <3> HIDE DEF c
    <3>2. ok(c)
      <4> HIDE DEF x
      <4> QED
        BY <1>0, <1>1, <2>2, <2>4, <2>6, <3>1 DEF SoundRead, ReadShaped, ReadHolds
    <3>3. ok(LeftOf(c)) /\ y = LeftOf(c)
      BY <2>6, <3>2, LeftSound
    <3> HIDE DEF ok, y
    <3> QED
      BY <1>g, <2>1, <3>3
  <2>7. CASE x.refresh # "caching"
    <3>1. x.pc = "caching" /\ x.refresh = "no"
      BY <1>0, <2>1, <2>7 DEF SoundRead, ReadShaped, ReadRecord
    <3>2. x.node \notin doubly \cup {FileOwner} =>
            x.floor <= x.local.at /\ x.local.at <= filed[x.node].at /\ x.got.at > x.local.at
      BY <1>1, <3>1 DEF ReadHolds
    <3>3. to = "saving" => ok(s)
      <4>1. s \in ReadRecord /\ s.pc = "saving" /\ s.local = x.local /\ s.node = x.node /\ s.got = x.got
            /\ s.refresh = "no" /\ s.floor = x.floor /\ ~s.asks
        BY <1>0, <2>3, <3>1 DEF ReadRecord
      <4> HIDE DEF s, x
      <4> QED
        BY <1>0, <1>1, <2>2, <2>4, <3>2, <4>1 DEF SoundRead, ReadShaped, ReadHolds
    <3>4. to = "no" => ok(Returns(x, x.got))
      <4> SUFFICES ASSUME to = "no" PROVE ok(Returns(x, x.got))
        OBVIOUS
      <4>1. x.node \notin doubly \cup {FileOwner} =>
              x.floor <= x.got.at /\ x.got.at <= filed[x.node].at /\ x.floor <= newestRead[x.node]
        BY <1>0, <1>1, <2>5, <3>2
      <4> HIDE DEF x
      <4> QED
        BY <1>0, <3>1, <4>1, ReturnsSound
    <3>5. ok(y)
      <4> HIDE DEF ok, s, x
      <4> QED
        BY <2>2, <2>7, <3>3, <3>4
    <3> HIDE DEF ok, y
    <3> QED
      BY <1>g, <2>1, <3>5
  <2> QED
    BY <2>6, <2>7
<1> QED
  BY <1>2, <1>3, <1>4, <1>5, <1>6

\* A write of a newer manifest, beside which no other may come.
LEMMA SaveKept ==
  ASSUME FilesInv, NEW r \in FileReads, CacheSaves(r)
  PROVE  FilesInv'
<1> DEFINE x == fileRead[r]
           n == x.node
           d == doubly'
           f == filed'
           nr == newestRead
           c == [x EXCEPT !.refresh = "no"]
           y == IF x.refresh = "saving" THEN LeftOf(c) ELSE Returns(x, x.got)
<1>0. /\ filed \in [FileNodes -> Manifest] /\ newestRead \in [FileNodes -> 0..MaxPublishedAt]
      /\ doubly \subseteq FileNodes /\ fileRead \in [FileReads -> ReadRecord]
      /\ \A q \in FileReads : SoundRead(fileRead[q], filed, nr, doubly)
  BY DEF FilesInv, DisksTyped, ReadsSound
<1>1. /\ Saving(r) /\ filed' = [filed EXCEPT ![n] = x.got] /\ fileRead' = [fileRead EXCEPT ![r] = y]
      /\ doubly' = IF \E q \in FileReads \ {r} : Saving(q) /\ fileRead[q].node = n THEN doubly \cup {n} ELSE doubly
      /\ UNCHANGED <<held, publication, now, unsignedLeft, overlaid, served, newestRead, wentBack>>
  BY DEF CacheSaves
<1>2. /\ x \in ReadRecord /\ SoundRead(x, filed, nr, doubly) /\ n \in FileNodes /\ x.got \in Manifest /\ x.got.at \in Nat
      /\ x.local.at \in Nat /\ x.floor \in Nat /\ filed[n].at \in Nat /\ nr[n] \in Nat
  <2>1. x \in ReadRecord /\ SoundRead(x, filed, nr, doubly)
    BY <1>0
  <2>2. n \in FileNodes /\ x.local \in Manifest /\ x.got \in Manifest /\ x.floor \in 0..MaxPublishedAt
    BY <2>1 DEF ReadRecord
  <2>3. filed[n] \in Manifest /\ nr[n] \in 0..MaxPublishedAt
    BY <1>0, <2>2
  <2> QED
    BY <2>1, <2>2, <2>3, ManifestFits
<1>3. x.pc = "saving" \/ x.refresh = "saving"
  BY <1>1 DEF Saving
<1>4. n # FileOwner
  BY <1>2, <1>3 DEF SoundRead, ReadShaped
<1>5. doubly \subseteq d /\ d \subseteq FileNodes
  BY <1>0, <1>1, <1>2
<1>6. f \in [FileNodes -> Manifest] /\ f[n] = x.got /\ \A k \in FileNodes \ {n} : f[k] = filed[k]
  BY <1>0, <1>1, <1>2
<1>7. n \notin d => /\ ReadHolds(x, filed[n].at) /\ x.floor <= nr[n] /\ nr[n] <= filed[n].at /\ x.got.at > filed[n].at
                    /\ \A q \in FileReads \ {r} : fileRead[q].node = n => ~Saving(q)
  <2> SUFFICES ASSUME n \notin d
               PROVE  /\ ReadHolds(x, filed[n].at) /\ x.floor <= nr[n] /\ nr[n] <= filed[n].at /\ x.got.at > filed[n].at
                      /\ \A q \in FileReads \ {r} : fileRead[q].node = n => ~Saving(q)
    OBVIOUS
  <2>1. n \notin doubly \cup {FileOwner}
    BY <1>4, <1>5
  <2>2. ReadHolds(x, filed[n].at) /\ x.floor <= nr[n]
    BY <1>2, <2>1 DEF SoundRead
  <2>3. nr[n] <= filed[n].at
    BY <1>2, <2>1 DEF FilesInv, ReturnedIsFiled
  <2>4. x.got.at > filed[n].at
    BY <1>3, <2>2 DEF ReadHolds
  <2>5. \A q \in FileReads \ {r} : fileRead[q].node = n => ~Saving(q)
    BY <1>1
  <2> QED
    BY <2>2, <2>3, <2>4, <2>5
<1>8. ReturnedIsFiled(f, nr, d)
  <2> SUFFICES ASSUME NEW k \in FileNodes \ (d \cup {FileOwner}) PROVE nr[k] <= f[k].at
    BY DEF ReturnedIsFiled
  <2>1. CASE k = n
    BY <1>2, <1>6, <1>7, <2>1
  <2>2. CASE k # n
    BY <1>5, <1>6, <2>2 DEF FilesInv, ReturnedIsFiled
  <2> QED
    BY <2>1, <2>2
<1>9. ASSUME NEW q \in FileReads \ {r} PROVE SoundRead(fileRead[q], f, nr, d)
  <2> DEFINE z == fileRead[q]
  <2>1. z \in ReadRecord /\ SoundRead(z, filed, nr, doubly)
    BY <1>0
  <2>2. z.node \in FileNodes /\ z.local.at \in Nat /\ z.got.at \in Nat /\ z.floor \in Nat
    <3>1. z.node \in FileNodes /\ z.local \in Manifest /\ z.got \in Manifest /\ z.floor \in 0..MaxPublishedAt
      BY <2>1 DEF ReadRecord
    <3> QED
      BY <3>1, ManifestFits
  <2>3. CASE z.node = n /\ n \notin d
    <3>1. z.pc # "saving" /\ z.refresh # "saving"
      BY <1>7, <2>3 DEF Saving
    <3>2. ReadHolds(z, filed[n].at) /\ z.floor <= nr[n]
      BY <1>4, <1>5, <2>1, <2>3 DEF SoundRead
    <3> HIDE DEF z
    <3>3. ReadHolds(z, f[n].at)
      BY <1>2, <1>6, <1>7, <2>2, <2>3, <3>1, <3>2 DEF ReadHolds
    <3> HIDE DEF f, d, n, nr
    <3>4. SoundRead(z, f, nr, d)
      BY <2>1, <2>3, <3>2, <3>3 DEF SoundRead
    <3> QED
      BY <3>4 DEF z
  <2>4. CASE z.node # n
    <3>1. f[z.node] = filed[z.node]
      BY <1>6, <2>2, <2>4
    <3> HIDE DEF z, f, d, nr
    <3>2. SoundRead(z, f, nr, d)
      BY <1>5, <2>1, <3>1 DEF SoundRead
    <3> QED
      BY <3>2 DEF z
  <2>5. CASE z.node = n /\ n \in d
    <3> HIDE DEF z, f, d, n, nr
    <3>1. SoundRead(z, f, nr, d)
      BY <2>1, <2>5 DEF SoundRead
    <3> QED
      BY <3>1 DEF z
  <2> QED
    BY <2>3, <2>4, <2>5
<1>10. SoundRead(y, f, nr, d)
  <2>1. CASE x.refresh = "saving"
    <3>1. x.pc \in {"parts", "done", "null"} /\ ~x.asks
      BY <1>2, <2>1 DEF SoundRead, ReadShaped
    <3>2. c \in ReadRecord /\ c.pc = x.pc /\ c.local = x.local /\ c.node = n /\ c.refresh = "no" /\ c.floor = x.floor
          /\ ~c.asks
      BY <1>2, <3>1 DEF ReadRecord
    <3>3. n \notin d => x.got.at > filed[n].at /\ x.floor <= nr[n]
                        /\ (x.pc = "parts" => x.floor <= x.local.at /\ x.local.at <= filed[n].at)
      BY <1>7 DEF ReadHolds
    <3> HIDE DEF c, x, n, f, nr, d
    <3>4. ReadShaped(c)
      BY <3>1, <3>2 DEF ReadShaped
    <3>5. n \notin d => ReadHolds(c, f[n].at)
      BY <1>2, <1>6, <3>1, <3>2, <3>3 DEF ReadHolds
    <3>6. SoundRead(c, f, nr, d)
      BY <3>2, <3>3, <3>4, <3>5 DEF SoundRead
    <3> QED
      BY <2>1, <3>6, LeftSound
  <2>2. CASE x.refresh # "saving"
    <3>1. x.pc = "saving" /\ x.refresh = "no"
      BY <1>2, <1>3, <2>2 DEF SoundRead, ReadShaped, ReadRecord
    <3>2. n \notin d \cup {FileOwner} =>
            x.floor <= x.got.at /\ x.got.at <= f[n].at /\ x.floor <= nr[n]
      BY <1>2, <1>6, <1>7, <3>1 DEF ReadHolds
    <3> HIDE DEF x, f, nr, d
    <3>3. SoundRead(Returns(x, x.got), f, nr, d)
      BY <1>2, <1>6, <3>1, <3>2, ReturnsSound
    <3> QED
      BY <2>2, <3>3
  <2> QED
    BY <2>1, <2>2
<1>11. ReadsSound(fileRead', f, nr, d)
  <2>1. y \in ReadRecord
    BY <1>10 DEF SoundRead
  <2> HIDE DEF y
  <2>2. fileRead' \in [FileReads -> ReadRecord] /\ \A q \in FileReads : fileRead'[q] = IF q = r THEN y ELSE fileRead[q]
    BY <1>0, <1>1, <2>1
  <2> HIDE DEF f, nr, d
  <2> QED
    BY <1>9, <1>10, <2>2 DEF ReadsSound
<1>12. DisksTyped'
  BY <1>0, <1>1, <1>5, <1>6 DEF FilesInv, DisksTyped
<1>13. OwnerStored' /\ SignedInTurn'
  <2>1. filed'[FileOwner] = filed[FileOwner]
    BY <1>4, <1>6, ManifestFits
  <2>2. OwnerStored'
    BY <1>1, <2>1 DEF FilesInv, OwnerStored
  <2>3. SignedInTurn'
    BY <1>1, <2>1 DEF FilesInv, SignedInTurn, Underway
  <2> QED
    BY <2>2, <2>3
<1> QED
  BY <1>1, <1>8, <1>11, <1>12, <1>13 DEF FilesInv

\* The parts are read, and what a read returns is no older than what was returned before it.
LEMMA PartsKept ==
  ASSUME FilesInv, NEW r \in FileReads, NEW fetched \in SUBSET AllParts, PartsRead(r, fetched)
  PROVE  FilesInv'
<1> DEFINE x == fileRead[r]
           n == x.node
           whole == fetched = PartsOf[x.local.content] \ held[n]
           latest == IF x.local.at > newestRead[n] THEN x.local.at ELSE newestRead[n]
           to == IF whole THEN "done" ELSE "null"
           c == [x EXCEPT !.pc = to]
           nr == newestRead'
<1>0. /\ filed \in [FileNodes -> Manifest] /\ newestRead \in [FileNodes -> 0..MaxPublishedAt]
      /\ held \in [FileNodes -> SUBSET AllParts]
      /\ fileRead \in [FileReads -> ReadRecord] /\ \A q \in FileReads : SoundRead(fileRead[q], filed, newestRead, doubly)
  BY DEF FilesInv, DisksTyped, ReadsSound
<1>1. /\ x.pc = "parts" /\ held' = [held EXCEPT ![n] = @ \cup fetched]
      /\ fileRead' = [fileRead EXCEPT ![r] = LeftOf(c)]
      /\ wentBack' = (wentBack \/ (whole /\ 0 < x.local.at /\ x.local.at < x.floor /\ n \notin doubly \cup {FileOwner}))
      /\ newestRead' = IF whole THEN [newestRead EXCEPT ![n] = latest] ELSE newestRead
      /\ UNCHANGED <<filed, publication, now, unsignedLeft, overlaid, served, doubly>>
  BY DEF PartsRead
<1>2. /\ x \in ReadRecord /\ SoundRead(x, filed, newestRead, doubly) /\ n \in FileNodes
      /\ x.local.at \in 0..MaxPublishedAt /\ x.floor \in Nat /\ filed[n].at \in Nat
      /\ \A k \in FileNodes : newestRead[k] \in 0..MaxPublishedAt
  <2>1. x \in ReadRecord /\ SoundRead(x, filed, newestRead, doubly)
    BY <1>0
  <2>2. n \in FileNodes /\ x.local \in Manifest /\ x.floor \in 0..MaxPublishedAt
    BY <2>1 DEF ReadRecord
  <2>3. filed[n] \in Manifest
    BY <1>0, <2>2
  <2> QED
    BY <1>0, <2>1, <2>2, <2>3, ManifestFits
<1>3. n \notin doubly \cup {FileOwner} => x.floor <= x.local.at /\ x.local.at <= filed[n].at /\ x.floor <= newestRead[n]
  BY <1>1, <1>2 DEF SoundRead, ReadHolds
<1> HIDE DEF x, whole
<1>4. ~wentBack'
  <2>1. n \notin doubly \cup {FileOwner} => ~(x.local.at < x.floor)
    BY <1>2, <1>3
  <2> QED
    BY <1>1, <2>1 DEF FilesInv
<1>5. latest \in 0..MaxPublishedAt /\ newestRead[n] <= latest /\ latest \in {x.local.at, newestRead[n]}
  BY <1>2
<1> HIDE DEF latest, n
<1>6. /\ nr \in [FileNodes -> 0..MaxPublishedAt] /\ nr[n] \in {latest, newestRead[n]}
      /\ \A k \in FileNodes \ {n} : nr[k] = newestRead[k]
  BY <1>0, <1>1, <1>2, <1>5
<1>7. \A k \in FileNodes : newestRead[k] <= nr[k] /\ nr[k] \in Nat /\ newestRead[k] \in Nat
  BY <1>2, <1>5, <1>6
<1>8. ReturnedIsFiled(filed, nr, doubly)
  <2> SUFFICES ASSUME NEW k \in FileNodes \ (doubly \cup {FileOwner}) PROVE nr[k] <= filed[k].at
    BY DEF ReturnedIsFiled
  <2>1. newestRead[k] <= filed[k].at
    BY DEF FilesInv, ReturnedIsFiled
  <2> QED
    BY <1>3, <1>5, <1>6, <2>1
<1>9. ASSUME NEW z, SoundRead(z, filed, newestRead, doubly) PROVE SoundRead(z, filed, nr, doubly)
  <2>1. z.floor \in Nat /\ z.node \in FileNodes
    BY <1>9, ManifestFits DEF SoundRead, ReadRecord
  <2> HIDE DEF nr
  <2> QED
    BY <1>7, <1>9, <2>1 DEF SoundRead
<1>10. SoundRead(LeftOf(c), filed, newestRead, doubly)
  <2>1. to \in {"done", "null"}
    OBVIOUS
  <2> HIDE DEF to
  <2>2. c \in ReadRecord /\ c.pc = to /\ c.node = n /\ c.refresh = x.refresh /\ c.asks = x.asks /\ c.got = x.got
        /\ c.floor = x.floor
    BY <1>2, <2>1 DEF ReadRecord, n
  <2>3. ReadShaped(x) /\ (n \notin doubly \cup {FileOwner} => ReadHolds(x, filed[n].at))
    BY <1>2 DEF SoundRead, n
  <2> HIDE DEF c
  <2>4. ReadShaped(c)
    BY <1>1, <2>1, <2>2, <2>3 DEF ReadShaped, n
  <2>5. n \notin doubly \cup {FileOwner} => ReadHolds(c, filed[n].at)
    BY <1>1, <2>1, <2>2, <2>3 DEF ReadHolds
  <2>6. SoundRead(c, filed, newestRead, doubly)
    BY <1>3, <2>2, <2>4, <2>5 DEF SoundRead
  <2> QED
    BY <2>6, LeftSound
<1>11. ReadsSound(fileRead', filed, nr, doubly)
  <2> DEFINE y == LeftOf(c)
  <2>1. y \in ReadRecord /\ SoundRead(y, filed, nr, doubly)
    BY <1>9, <1>10 DEF SoundRead
  <2>2. fileRead' = [fileRead EXCEPT ![r] = y]
    BY <1>1
  <2> HIDE DEF y, nr
  <2>3. fileRead' \in [FileReads -> ReadRecord] /\ \A q \in FileReads : fileRead'[q] = IF q = r THEN y ELSE fileRead[q]
    BY <1>0, <2>1, <2>2
  <2>4. \A q \in FileReads : SoundRead(fileRead[q], filed, nr, doubly)
    BY <1>0, <1>9
  <2> QED
    BY <2>1, <2>3, <2>4 DEF ReadsSound
<1>12. held' \in [FileNodes -> SUBSET AllParts] /\ held[FileOwner] \subseteq held'[FileOwner]
  <2>1. \A k \in FileNodes : held'[k] = IF k = n THEN held[k] \cup fetched ELSE held[k]
    BY <1>0, <1>1
  <2> QED
    BY <1>0, <1>1, <2>1, ManifestFits
<1>13. DisksTyped'
  BY <1>1, <1>6, <1>12 DEF FilesInv, DisksTyped
<1>14. OwnerStored' /\ SignedInTurn'
  <2>1. OwnerStored'
    BY <1>1, <1>12 DEF FilesInv, OwnerStored
  <2>2. SignedInTurn'
    BY <1>1 DEF FilesInv, SignedInTurn, Underway
  <2> QED
    BY <2>1, <2>2
<1> QED
  BY <1>1, <1>4, <1>8, <1>11, <1>13, <1>14 DEF FilesInv

\* The inductive invariant of a public file.
LEMMA FilesInvariant == SpecFiles => []FilesInv
<1>1. InitFiles => FilesInv
  <2> SUFFICES ASSUME InitFiles PROVE FilesInv
    OBVIOUS
  <2>0. 0 \in 0..MaxPublishedAt
    BY ManifestFits
  <2>1. DisksTyped
    BY <2>0, ManifestFits DEF InitFiles, DisksTyped, Stages
  <2>2. OwnerStored
    BY ManifestFits DEF InitFiles, OwnerStored
  <2>3. SignedInTurn
    BY DEF InitFiles, SignedInTurn, Underway
  <2>4. NoRead \in ReadRecord /\ ReadShaped(NoRead) /\ NoRead.node = FileOwner
    BY <2>0, ManifestFits DEF NoRead, ReadRecord, ReadShaped
  <2>5. ReadsSound(fileRead, filed, newestRead, doubly)
    BY <2>4 DEF InitFiles, ReadsSound, SoundRead
  <2>6. ReturnedIsFiled(filed, newestRead, doubly) /\ ~wentBack
    BY ManifestFits DEF InitFiles, ReturnedIsFiled
  <2> QED
    BY <2>1, <2>2, <2>3, <2>5, <2>6 DEF FilesInv
<1>2. FilesInv /\ [NextFiles]_fileVars => FilesInv'
  <2> SUFFICES ASSUME FilesInv, [NextFiles]_fileVars PROVE FilesInv'
    OBVIOUS
  <2>1. CASE UNCHANGED fileVars
    BY <2>1 DEF fileVars, FilesInv, DisksTyped, OwnerStored, SignedInTurn, Underway
  <2>2. ASSUME NEW n \in FileNodes,
               RequestTimesOut(n) \/ \E by \in FileNodes : resolvePendingManifestFetch(n, by)
        PROVE  FilesInv'
    <3>1. PICK m \in Manifest : RequestEnds(n, m)
      <4>1. \A answer \in served[n] : answer.manifest \in Manifest
        BY DEF FilesInv, DisksTyped, Answer
      <4> QED
        BY <2>2, <4>1, ManifestFits DEF RequestTimesOut, resolvePendingManifestFetch
    <3> QED
      BY <3>1, RequestKept
  <2>3. CASE NextFiles
    BY <2>2, <2>3, PublicationKept, ReadStepKept, AnswerKept, SaveKept, PartsKept DEF NextFiles
  <2> QED
    BY <2>1, <2>3
<1> QED
  BY <1>1, <1>2, PTL DEF SpecFiles

\* For any nodes, publications, reads and parts: the owner has every part of the manifest it
\* has on disk, publications that neither fail nor overlap leave the newest one signed, and
\* no read of a node returns an older publication than one before it, where no two reads
\* wrote at once (fetch.mjs:39-131, public.mjs:128-153, evfs.mjs:156-251).
THEOREM FilesSound == SpecFiles => []FilesAreSound
<1>1. FilesInv => FilesAreSound
  <2> SUFFICES ASSUME FilesInv PROVE FilesAreSound
    OBVIOUS
  <2>1. OwnerHasParts
    BY DEF FilesInv, OwnerStored, OwnerHasParts
  <2>2. NewestIsSigned
    BY DEF FilesInv, SignedInTurn, NewestIsSigned, Underway
  <2>3. ReadsDoNotGoBack
    BY DEF FilesInv, ReadsDoNotGoBack
  <2> QED
    BY <2>1, <2>2, <2>3 DEF FilesAreSound
<1> QED
  BY <1>1, FilesInvariant, PTL

\* Manifests, parts and reads keep their shape.
THEOREM FilesTyped == SpecFiles => []FilesTypeOK
<1>1. FilesInv => FilesTypeOK
  <2> SUFFICES ASSUME FilesInv PROVE FilesTypeOK
    OBVIOUS
  <2>1. /\ filed \in [FileNodes -> Manifest] /\ held \in [FileNodes -> SUBSET AllParts]
        /\ \A n \in FileNodes : served[n] \subseteq [by : FileNodes, manifest : Manifest]
    BY DEF FilesInv, DisksTyped, Answer
  <2>2. \A r \in FileReads : fileRead[r] \in ReadRecord
    BY DEF FilesInv, ReadsSound
  <2> QED
    BY <2>1, <2>2 DEF FilesTypeOK, ReadRecord
<1> QED
  BY <1>1, FilesInvariant, PTL

-----------------------------------------------------------------------------
(* Files that are cut while they arrive. *)

Part == [from : Nat, to : Nat]
Sized(parts) == \A i \in 1..Len(parts) : parts[i].to - parts[i].from \in 1..PartMax

\* Where the parts end.
EndOf(parts) == IF Len(parts) = 0 THEN 0 ELSE parts[Len(parts)].to

\* Each begins where the one before it ends.
PartsMeet(parts) == \A i \in 1..Len(parts) : parts[i].from = IF i = 1 THEN 0 ELSE parts[i - 1].to

\* Whole parts only.
Whole(parts) == \A i \in 1..Len(parts) : parts[i] = [from |-> (i - 1) * PartMax, to |-> i * PartMax]

UploadRecord ==
  [pc : {"new", "reads", "saved", "failed"}, declared : Nat, total : Nat, cut : Nat, parts : Seq(Part)]
DownloadRecord ==
  [pc : {"no", "reads", "ended", "destroyed"}, index : Nat \ {0}, pending : Nat, intact : BOOLEAN, out : Nat]

UploadInv ==
  /\ upload \in UploadRecord /\ upload.cut <= upload.total
  /\ Sized(upload.parts) /\ PartsMeet(upload.parts)
  /\ upload.pc \in {"new", "reads"} => /\ Whole(upload.parts) /\ upload.cut = Len(upload.parts) * PartMax
                                       /\ upload.cut = EndOf(upload.parts) /\ upload.total <= upload.declared
  /\ CutsAgree

DownloadInv ==
  /\ download \in DownloadRecord
  /\ \A i \in DOMAIN partFile : partFile[i].left \in Nat
  /\ download.pc # "no" => /\ upload.pc = "saved" /\ DOMAIN partFile = 1..Len(upload.parts)
                           /\ download.index \in 1..(Len(upload.parts) + 1)
                           /\ download.out = IF download.index = 1 THEN 0 ELSE upload.parts[download.index - 1].to
  /\ download.pc = "no" => download.index = 1 /\ download.out = 0 /\ download.pending = 0
  /\ download.pc = "ended" => download.out = upload.total

\* How many parts a file has.
LEMMA Quotient ==
  ASSUME NEW b \in Nat \ {0}, NEW q \in Nat, NEW r \in 0..(b - 1)
  PROVE  (q * b + r) \div b = q
<1>1. q * b + r \in Nat /\ b \in Nat
  OBVIOUS
<1> QED
  BY <1>1

LEMMA PartsCounted ==
  ASSUME NEW b \in Nat \ {0}, NEW k \in Nat, NEW n \in Nat
  PROVE  /\ n = k * b => (n + b - 1) \div b = k
         /\ k * b < n /\ n <= k * b + b => (n + b - 1) \div b = k + 1
<1>1. k * b \in Nat /\ (k + 1) * b = k * b + b
  OBVIOUS
<1>2. ASSUME n = k * b PROVE (n + b - 1) \div b = k
  <2>1. b - 1 \in 0..(b - 1) /\ n + b - 1 = k * b + (b - 1)
    BY <1>1, <1>2
  <2> QED
    BY <2>1, Quotient
<1>3. ASSUME k * b < n, n <= k * b + b PROVE (n + b - 1) \div b = k + 1
  <2> DEFINE r == n - k * b - 1
  <2>1. r \in 0..(b - 1) /\ n + b - 1 = (k + 1) * b + r /\ k + 1 \in Nat
    BY <1>1, <1>3
  <2> HIDE DEF r
  <2> QED
    BY <2>1, Quotient
<1> QED
  BY <1>2, <1>3

LEMMA TimesGrows == ASSUME NEW b \in Nat, NEW i \in Nat, NEW k \in Nat, i <= k PROVE i * b <= k * b
OBVIOUS

LEMMA LesserIs == \A a, b \in Nat : a <= b => Lesser(a, b) = a
BY DEF Lesser

\* Whole parts, and what is left, are the slices of the file.
LEMMA WholeAreSlices ==
  ASSUME NEW parts \in Seq(Part), Whole(parts), NEW n \in Nat, n = Len(parts) * PartMax
  PROVE  parts = Slices(n)
<1> DEFINE k == Len(parts)
<1>1. k \in Nat /\ (n + PartMax - 1) \div PartMax = k /\ PartMax \in Nat
  BY StreamsAssumption, PartsCounted
<1>2. DOMAIN parts = 1..k /\ parts = [i \in 1..k |-> parts[i]]
  OBVIOUS
<1>3. ASSUME NEW i \in 1..k PROVE parts[i] = [from |-> (i - 1) * PartMax, to |-> Lesser(i * PartMax, n)]
  <2>1. i * PartMax <= n /\ i * PartMax \in Nat
    BY <1>1, TimesGrows
  <2>2. Lesser(i * PartMax, n) = i * PartMax
    BY <2>1, LesserIs
  <2>3. parts[i] = [from |-> (i - 1) * PartMax, to |-> i * PartMax]
    BY DEF Whole
  <2> QED
    BY <2>2, <2>3
<1> HIDE DEF k
<1> QED
  BY <1>1, <1>2, <1>3 DEF Slices

LEMMA WithTheRestAreSlices ==
  ASSUME NEW parts \in Seq(Part), Whole(parts), NEW rest \in 1..PartMax, NEW n \in Nat,
         n = Len(parts) * PartMax + rest
  PROVE  Append(parts, [from |-> Len(parts) * PartMax, to |-> n]) = Slices(n)
<1> DEFINE k == Len(parts)
           e == [from |-> k * PartMax, to |-> n]
           whole == Append(parts, e)
<1>1. k \in Nat /\ PartMax \in Nat \ {0} /\ k * PartMax \in Nat
  BY StreamsAssumption
<1>a. (n + PartMax - 1) \div PartMax = k + 1
  BY <1>1, PartsCounted
<1>2. /\ DOMAIN whole = 1..(k + 1) /\ whole = [i \in 1..(k + 1) |-> whole[i]]
      /\ \A i \in 1..k : whole[i] = parts[i]
      /\ whole[k + 1] = e
  BY DEF Part
<1>3. ASSUME NEW i \in 1..k PROVE whole[i] = [from |-> (i - 1) * PartMax, to |-> Lesser(i * PartMax, n)]
  <2>1. i * PartMax <= k * PartMax /\ i * PartMax \in Nat /\ rest \in Nat
    BY <1>1, TimesGrows
  <2>2. i * PartMax <= n
    BY <1>1, <2>1
  <2>3. Lesser(i * PartMax, n) = i * PartMax
    BY <2>1, <2>2, LesserIs
  <2>4. parts[i] = [from |-> (i - 1) * PartMax, to |-> i * PartMax]
    BY DEF Whole
  <2> QED
    BY <1>2, <2>3, <2>4
<1>4. e = [from |-> ((k + 1) - 1) * PartMax, to |-> Lesser((k + 1) * PartMax, n)]
  <2>1. (k + 1) * PartMax = k * PartMax + PartMax /\ (k + 1) - 1 = k
    BY <1>1
  <2> QED
    BY <1>1, <2>1 DEF Lesser
<1> HIDE DEF e, whole
<1>5. \A i \in 1..(k + 1) : whole[i] = [from |-> (i - 1) * PartMax, to |-> Lesser(i * PartMax, n)]
  <2>1. \A i \in 1..(k + 1) : i \in 1..k \/ i = k + 1
    BY <1>1
  <2> HIDE DEF k
  <2> QED
    BY <1>2, <1>3, <1>4, <2>1
<1>6. whole = Slices(n)
  BY <1>a, <1>2, <1>5 DEF Slices
<1> QED
  BY <1>6 DEF whole, e

\* A part more.
LEMMA PartAdded ==
  ASSUME NEW parts \in Seq(Part), NEW from \in Nat, NEW n \in 1..PartMax, from = EndOf(parts),
         Sized(parts), PartsMeet(parts)
  PROVE  LET more == Append(parts, [from |-> from, to |-> from + n])
         IN  /\ more \in Seq(Part) /\ Sized(more) /\ PartsMeet(more) /\ EndOf(more) = from + n
             /\ Len(more) = Len(parts) + 1
             /\ n = PartMax /\ Whole(parts) /\ from = Len(parts) * PartMax =>
                  Whole(more) /\ from + n = Len(more) * PartMax
<1> DEFINE e == [from |-> from, to |-> from + n]
           more == Append(parts, e)
<1>0. n \in Nat /\ PartMax \in Nat
  BY StreamsAssumption
<1>1. e \in Part /\ e.from = from /\ e.to = from + n
  BY <1>0 DEF Part
<1> HIDE DEF e
<1>2. /\ more \in Seq(Part) /\ Len(more) = Len(parts) + 1 /\ more[Len(parts) + 1] = e
      /\ \A i \in 1..Len(parts) : more[i] = parts[i]
      /\ \A i \in 1..Len(more) : i \in 1..Len(parts) \/ i = Len(parts) + 1
  BY <1>1
<1>3. Sized(more)
  BY <1>0, <1>1, <1>2 DEF Sized
<1>4. EndOf(more) = from + n
  BY <1>1, <1>2 DEF EndOf
<1>5. PartsMeet(more)
  <2>1. ASSUME NEW i \in 1..Len(parts) PROVE more[i].from = IF i = 1 THEN 0 ELSE more[i - 1].to
    <3>1. i # 1 => i - 1 \in 1..Len(parts)
      OBVIOUS
    <3> QED
      BY <1>2, <3>1 DEF PartsMeet
  <2>2. e.from = IF Len(parts) + 1 = 1 THEN 0 ELSE more[Len(parts)].to
    BY <1>1, <1>2 DEF EndOf
  <2> QED
    BY <1>2, <2>1, <2>2 DEF PartsMeet
<1>6. ASSUME n = PartMax, Whole(parts), from = Len(parts) * PartMax
      PROVE  Whole(more) /\ from + n = Len(more) * PartMax
  <2>1. (Len(parts) + 1) * PartMax = Len(parts) * PartMax + PartMax /\ (Len(parts) + 1) - 1 = Len(parts)
    BY <1>0
  <2>2. e = [from |-> ((Len(parts) + 1) - 1) * PartMax, to |-> (Len(parts) + 1) * PartMax]
    BY <1>6, <2>1 DEF e
  <2> QED
    BY <1>2, <1>6, <2>1, <2>2 DEF Whole
<1> QED
  BY <1>2, <1>3, <1>4, <1>5, <1>6 DEF e

LEMMA StreamsInit == InitStreams => UploadInv /\ DownloadInv
<1> SUFFICES ASSUME InitStreams PROVE UploadInv /\ DownloadInv
  OBVIOUS
<1>1. /\ upload \in UploadRecord /\ upload.pc = "new" /\ upload.total = 0 /\ upload.cut = 0 /\ upload.declared = 0
      /\ upload.parts = <<>>
  BY DEF InitStreams, NoUpload, UploadRecord
<1>2. /\ download \in DownloadRecord /\ download.pc = "no" /\ download.index = 1 /\ download.out = 0
      /\ download.pending = 0 /\ DOMAIN partFile = {}
  BY DEF InitStreams, NoDownload, DownloadRecord
<1>3. Len(upload.parts) = 0 /\ PartMax \in Nat
  BY <1>1, StreamsAssumption
<1>4. UploadInv
  BY <1>1, <1>3 DEF UploadInv, Sized, PartsMeet, Whole, EndOf, CutsAgree
<1>5. DownloadInv
  BY <1>1, <1>2 DEF DownloadInv
<1> QED
  BY <1>4, <1>5

\* What the upload does.
LEMMA UploadKeeps ==
  ASSUME UploadInv,
         \/ \E n \in 0..MaxFileBytes : putFileManifestFromStream(n)
         \/ \E n \in 1..MaxFileBytes : PieceArrives(n)
         \/ \E ok \in BOOLEAN : PartCut(ok)
         \/ UploadEnds \/ UploadBreaks
  PROVE  UploadInv' /\ upload.pc # "saved" /\ UNCHANGED <<download, partFile>>
<1>0. /\ upload \in UploadRecord /\ upload.parts \in Seq(Part) /\ upload.total \in Nat /\ upload.cut \in Nat
      /\ upload.declared \in Nat /\ PartMax \in Nat \ {0} /\ MaxFileBytes \in Nat
  BY StreamsAssumption DEF UploadInv, UploadRecord
<1>1. ASSUME NEW n \in 0..MaxFileBytes, putFileManifestFromStream(n) PROVE UploadInv'
  <2>1. upload' = [pc |-> "reads", declared |-> n, total |-> 0, cut |-> 0, parts |-> <<>>]
    BY <1>1 DEF putFileManifestFromStream, NoUpload
  <2>2. n \in Nat
    BY <1>0
  <2> QED
    BY <1>0, <2>1, <2>2 DEF UploadInv, UploadRecord, Sized, PartsMeet, Whole, EndOf, CutsAgree
<1>2. ASSUME NEW n \in 1..MaxFileBytes, PieceArrives(n) PROVE UploadInv'
  <2>n. n \in Nat /\ upload.total + n \in Nat
    BY <1>0
  <2>0. /\ n \in Nat /\ upload.pc = "reads"
        /\ upload' = [upload EXCEPT !.total = upload.total + n,
                                    !.pc = IF upload.total + n > upload.declared THEN "failed" ELSE @]
    BY <2>n, <1>2 DEF PieceArrives
  <2>1. /\ upload' \in UploadRecord /\ upload'.total = upload.total + n
        /\ upload'.cut = upload.cut /\ upload'.parts = upload.parts /\ upload'.declared = upload.declared
        /\ upload'.pc = IF upload.total + n > upload.declared THEN "failed" ELSE "reads"
    <3> DEFINE total == upload.total + n
               pc == IF upload.total + n > upload.declared THEN "failed" ELSE "reads"
    <3>1. upload' = [upload EXCEPT !.total = total, !.pc = pc] /\ total \in Nat /\ pc \in {"failed", "reads"}
      BY <2>n, <2>0
    <3> HIDE DEF total, pc
    <3>2. /\ upload' \in UploadRecord /\ upload'.total = total /\ upload'.pc = pc
          /\ upload'.cut = upload.cut /\ upload'.parts = upload.parts /\ upload'.declared = upload.declared
      BY <1>0, <3>1 DEF UploadRecord
    <3> QED
      BY <3>2 DEF total, pc
  <2> QED
    BY <1>0, <2>0, <2>1 DEF UploadInv, CutsAgree
<1>3. ASSUME NEW ok \in BOOLEAN, PartCut(ok) PROVE UploadInv'
  <2>1. CASE ok
    <3>1. /\ upload.pc = "reads" /\ upload.total - upload.cut >= PartMax
          /\ upload' = [upload EXCEPT !.parts = Append(upload.parts, [from |-> upload.cut, to |-> upload.cut + PartMax]),
                                      !.cut = @ + PartMax]
      BY <1>3, <2>1 DEF PartCut, MustCut, Pending, PartsWith
    <3> DEFINE more == Append(upload.parts, [from |-> upload.cut, to |-> upload.cut + PartMax])
    <3>2. PartMax \in 1..PartMax
      BY <1>0
    <3>3. /\ more \in Seq(Part) /\ Sized(more) /\ PartsMeet(more) /\ EndOf(more) = upload.cut + PartMax
          /\ Whole(more) /\ upload.cut + PartMax = Len(more) * PartMax
      BY <1>0, <3>1, <3>2, PartAdded DEF UploadInv
    <3> HIDE DEF more
    <3>4. /\ upload' \in UploadRecord /\ upload'.total = upload.total /\ upload'.declared = upload.declared
          /\ upload'.cut = upload.cut + PartMax /\ upload'.parts = more /\ upload'.pc = "reads"
      <4> DEFINE cut == upload.cut + PartMax
      <4>1. upload' = [upload EXCEPT !.parts = more, !.cut = cut] /\ cut \in Nat
        BY <1>0, <3>1 DEF more
      <4> HIDE DEF cut
      <4>2. /\ upload' \in UploadRecord /\ upload'.total = upload.total /\ upload'.declared = upload.declared
            /\ upload'.cut = cut /\ upload'.parts = more /\ upload'.pc = "reads"
        BY <1>0, <3>1, <3>3, <4>1 DEF UploadRecord
      <4> QED
        BY <4>2 DEF cut
    <3>5. upload.cut + PartMax <= upload.total /\ upload.total <= upload.declared
      BY <1>0, <3>1 DEF UploadInv
    <3> QED
      BY <1>0, <3>1, <3>3, <3>4, <3>5 DEF UploadInv, CutsAgree
  <2>2. CASE ~ok
    <3>1. upload' = [upload EXCEPT !.pc = "failed"]
      BY <1>3, <2>2 DEF PartCut
    <3> QED
      BY <1>0, <3>1 DEF UploadInv, UploadRecord, CutsAgree
  <2> QED
    BY <2>1, <2>2
<1>4. ASSUME UploadBreaks PROVE UploadInv'
  <2>1. upload' = [upload EXCEPT !.pc = "failed"]
    BY <1>4 DEF UploadBreaks
  <2> QED
    BY <1>0, <2>1 DEF UploadInv, UploadRecord, CutsAgree
<1>5. ASSUME UploadEnds PROVE UploadInv'
  <2> DEFINE rest == upload.total - upload.cut
  <2>1. /\ upload.pc = "reads" /\ rest < PartMax /\ rest \in Nat
        /\ upload' = [upload EXCEPT !.parts = LastParts, !.cut = upload.total,
                                    !.pc = IF LastParts = <<>> THEN "failed" ELSE "saved"]
    BY <1>0, <1>5 DEF UploadEnds, MustCut, Pending, UploadInv
  <2>2. LastParts \in Seq(Part) /\ Sized(LastParts) /\ PartsMeet(LastParts) /\ LastParts = Slices(upload.total)
    <3>1. CASE rest > 0
      <4>1. LastParts = Append(upload.parts, [from |-> upload.cut, to |-> upload.cut + rest])
        BY <3>1 DEF LastParts, PartsWith, Pending
      <4>2. rest \in 1..PartMax /\ upload.cut + rest = upload.total
        BY <1>0, <2>1, <3>1
      <4>3. upload.cut = Len(upload.parts) * PartMax /\ Whole(upload.parts)
        BY <2>1 DEF UploadInv
      <4>4. LastParts \in Seq(Part) /\ Sized(LastParts) /\ PartsMeet(LastParts)
        BY <1>0, <2>1, <4>1, <4>2, PartAdded DEF UploadInv
      <4> HIDE DEF rest
      <4>5. LastParts = Slices(upload.total)
        BY <1>0, <4>1, <4>2, <4>3, WithTheRestAreSlices
      <4> QED
        BY <4>4, <4>5
    <3>2. CASE rest = 0
      <4>1. LastParts = upload.parts /\ upload.total = Len(upload.parts) * PartMax /\ Whole(upload.parts)
        BY <1>0, <2>1, <3>2 DEF LastParts, Pending, UploadInv
      <4> QED
        BY <1>0, <4>1, WholeAreSlices DEF UploadInv
    <3> QED
      BY <2>1, <3>1, <3>2
  <2>3. /\ upload' \in UploadRecord /\ upload'.parts = LastParts /\ upload'.cut = upload.total
        /\ upload'.total = upload.total /\ upload'.declared = upload.declared
        /\ upload'.pc \in {"failed", "saved"}
    BY <1>0, <2>1, <2>2 DEF UploadRecord
  <2>4. upload.total <= upload.declared
    BY <2>1 DEF UploadInv
  <2>5. upload'.cut <= upload'.total
    BY <1>0, <2>3
  <2>6. upload'.pc # "new" /\ upload'.pc # "reads"
    BY <2>3
  <2> QED
    BY <2>2, <2>3, <2>4, <2>5, <2>6 DEF UploadInv, CutsAgree
<1>6. upload.pc # "saved" /\ UNCHANGED <<download, partFile>>
  BY DEF putFileManifestFromStream, PieceArrives, PartCut, UploadEnds, UploadBreaks, UploadOnly
<1> QED
  BY <1>1, <1>2, <1>3, <1>4, <1>5, <1>6

\* What the download does, of a file that was saved.
LEMMA DownloadKeeps ==
  ASSUME UploadInv, DownloadInv,
         \/ \E n \in 1..MaxFileBytes : PieceRead(n)
         \/ \E i \in 1..MaxFileBytes, left \in 0..(PartMax + 1), st \in {"open", "gone"}, right \in BOOLEAN :
              readManifestPlaintextStream(i, [left |-> left, st |-> st, right |-> right])
         \/ PartShort \/ PartPushed \/ DownloadEnds
         \/ \E i \in 1..MaxFileBytes : PartFails(i)
  PROVE  DownloadInv' /\ UNCHANGED upload
<1>0. /\ upload.parts \in Seq(Part) /\ DOMAIN upload.parts = 1..Len(upload.parts) /\ PartMax \in Nat
      /\ MaxFileBytes \in Nat /\ download \in DownloadRecord
  BY StreamsAssumption DEF UploadInv, UploadRecord, DownloadInv
<1>1. ASSUME NEW n \in 1..MaxFileBytes, PieceRead(n) PROVE DownloadInv'
  <2>1. /\ download.pc = "reads" /\ download.index \in DOMAIN partFile /\ n <= partFile[download.index].left
        /\ partFile' = [partFile EXCEPT ![download.index].left = @ - n]
        /\ download' = [download EXCEPT !.pending = @ + n, !.intact = @ /\ partFile[download.index].right]
        /\ upload' = upload /\ n \in Nat
    <3>1. n \in Nat
      BY <1>0
    <3> QED
      BY <3>1, <1>1 DEF PieceRead, DownloadOnly
  <2>2. DOMAIN partFile' = DOMAIN partFile /\ \A i \in DOMAIN partFile : partFile'[i].left \in Nat
    <3>1. partFile[download.index].left - n \in Nat
      BY <2>1 DEF DownloadInv
    <3>2. ASSUME NEW i \in DOMAIN partFile PROVE partFile'[i].left = IF i = download.index THEN partFile[i].left - n ELSE partFile[i].left
      BY <2>1
    <3> QED
      BY <2>1, <3>1, <3>2 DEF DownloadInv
  <2>3. /\ download' \in DownloadRecord /\ download'.pc = download.pc /\ download'.index = download.index
        /\ download'.out = download.out
    <3> DEFINE more == download.pending + n
               intact == download.intact /\ partFile[download.index].right
    <3>1. download' = [download EXCEPT !.pending = more, !.intact = intact] /\ more \in Nat /\ intact \in BOOLEAN
      BY <1>0, <2>1 DEF DownloadRecord
    <3> HIDE DEF more, intact
    <3> QED
      BY <1>0, <3>1 DEF DownloadRecord
  <2> QED
    BY <2>1, <2>2, <2>3 DEF DownloadInv
<1>2. ASSUME NEW i \in 1..MaxFileBytes, NEW left \in 0..(PartMax + 1), NEW st \in {"open", "gone"}, NEW right \in BOOLEAN,
             readManifestPlaintextStream(i, [left |-> left, st |-> st, right |-> right])
      PROVE  DownloadInv'
  <2>1. /\ upload.pc = "saved" /\ download.pc = "no" /\ upload' = upload
        /\ DOMAIN partFile' = DOMAIN upload.parts
        /\ \A k \in DOMAIN upload.parts : partFile'[k].left = IF k = i THEN left ELSE Size(upload.parts[k])
        /\ download' = [download EXCEPT !.pc = "reads"]
    BY <1>2 DEF readManifestPlaintextStream, DownloadOnly
  <2>2. \A k \in DOMAIN upload.parts : Size(upload.parts[k]) \in Nat
    BY <1>0 DEF UploadInv, Sized, Size
  <2>3. left \in Nat
    BY <1>0
  <2>4. /\ download' \in DownloadRecord /\ download'.pc = "reads" /\ download'.index = download.index
        /\ download'.out = download.out
    BY <1>0, <2>1 DEF DownloadRecord
  <2>5. \A k \in DOMAIN partFile' : partFile'[k].left \in Nat
    BY <2>1, <2>2, <2>3
  <2>6. download.index = 1 /\ download.out = 0 /\ 1 \in 1..(Len(upload.parts) + 1)
    BY <1>0, <2>1 DEF DownloadInv
  <2> QED
    BY <1>0, <2>1, <2>4, <2>5, <2>6 DEF DownloadInv
<1>3. ASSUME PartShort PROVE DownloadInv'
  <2>1. /\ download.pc = "reads" /\ download' = [download EXCEPT !.pc = "destroyed"] /\ UNCHANGED <<upload, partFile>>
    BY <1>3 DEF PartShort, DownloadOnly
  <2> QED
    BY <1>0, <2>1 DEF DownloadInv, DownloadRecord
<1>4. ASSUME NEW i \in 1..MaxFileBytes, PartFails(i) PROVE DownloadInv'
  <2>1. /\ download.pc = "reads" /\ upload' = upload /\ i \in DOMAIN partFile
        /\ partFile' = [partFile EXCEPT ![i].st = "failed"]
        /\ \/ download' = [download EXCEPT !.pc = "destroyed"]
           \/ download' = download
    BY <1>4 DEF PartFails, DownloadOnly
  <2>2. DOMAIN partFile' = DOMAIN partFile /\ \A k \in DOMAIN partFile : partFile'[k].left = partFile[k].left
    BY <2>1
  <2>3. /\ download' \in DownloadRecord /\ download'.pc \in {"reads", "destroyed"} /\ download'.index = download.index
        /\ download'.out = download.out
    BY <1>0, <2>1 DEF DownloadRecord
  <2> QED
    BY <2>1, <2>2, <2>3 DEF DownloadInv
<1>5. ASSUME PartPushed PROVE DownloadInv'
  <2>1. CASE Fits
    <3> DEFINE k == download.index
    <3>1. /\ download.pc = "reads" /\ k \in DOMAIN partFile /\ UNCHANGED <<upload, partFile>>
          /\ download.pending = upload.parts[k].to - upload.parts[k].from
          /\ download' = [download EXCEPT !.out = @ + download.pending, !.pending = 0, !.index = @ + 1]
      BY <1>5, <2>1 DEF PartPushed, Fits, Need, Size, DownloadOnly
    <3>2. /\ download' \in DownloadRecord /\ download'.pc = "reads" /\ download'.index = k + 1
          /\ download'.out = download.out + download.pending
      <4> DEFINE out == download.out + download.pending
                 index == k + 1
      <4>1. download' = [download EXCEPT !.out = out, !.pending = 0, !.index = index] /\ out \in Nat /\ index \in Nat \ {0}
        BY <1>0, <3>1 DEF DownloadRecord
      <4> HIDE DEF out, index
      <4>0. download.pc = "reads" /\ 0 \in Nat
        BY <3>1
      <4>2. download' \in DownloadRecord /\ download'.pc = "reads" /\ download'.index = index /\ download'.out = out
        BY <1>0, <4>0, <4>1 DEF DownloadRecord
      <4> QED
        BY <4>2 DEF out, index
    <3>3. /\ k \in 1..Len(upload.parts) /\ download.out = (IF k = 1 THEN 0 ELSE upload.parts[k - 1].to)
          /\ upload.pc = "saved" /\ DOMAIN partFile = 1..Len(upload.parts)
      BY <3>1 DEF DownloadInv
    <3>4. upload.parts[k].from = (IF k = 1 THEN 0 ELSE upload.parts[k - 1].to)
      BY <3>3 DEF UploadInv, PartsMeet
    <3>5. upload.parts[k].from \in Nat /\ upload.parts[k].to \in Nat
      <4>1. upload.parts[k] \in Part
        BY <1>0, <3>3
      <4> QED
        BY <4>1 DEF Part
    <3>6. download'.out = upload.parts[k].to
      BY <3>1, <3>2, <3>3, <3>4, <3>5
    <3>7. k + 1 \in 1..(Len(upload.parts) + 1) /\ k + 1 # 1 /\ (k + 1) - 1 = k
      BY <1>0, <3>3
    <3> HIDE DEF k
    <3> QED
      BY <3>1, <3>2, <3>3, <3>6, <3>7 DEF DownloadInv
  <2>2. CASE ~Fits
    <3>1. /\ download.pc = "reads" /\ download' = [download EXCEPT !.pc = "destroyed"] /\ UNCHANGED <<upload, partFile>>
      BY <1>5, <2>2 DEF PartPushed, DownloadOnly
    <3> QED
      BY <1>0, <3>1 DEF DownloadInv, DownloadRecord
  <2> QED
    BY <2>1, <2>2
<1>6. ASSUME DownloadEnds PROVE DownloadInv'
  <2>1. /\ download.pc = "reads" /\ UNCHANGED <<upload, partFile>>
        /\ download' = [download EXCEPT !.pc = IF download.out = upload.total THEN "ended" ELSE "destroyed"]
    BY <1>6 DEF DownloadEnds, DownloadOnly
  <2> QED
    BY <1>0, <2>1 DEF DownloadInv, DownloadRecord
<1>7. UNCHANGED upload
  BY DEF PieceRead, readManifestPlaintextStream, PartShort, PartFails, PartPushed, DownloadEnds, DownloadOnly
<1> QED
  BY <1>1, <1>2, <1>3, <1>4, <1>5, <1>6, <1>7

\* For any part size and file, however it comes in and whatever becomes of the parts: the upload
\* cuts what an upload at once would cut, and a reader gets whole parts of it, and all if the
\* stream ends (assemble_stream.mjs:25-181, assemble.mjs:131-147).
LEMMA StreamsSound == SpecStreams => [](StreamsTypeOK /\ StreamsAreWhole)
<1>1. UploadInv /\ DownloadInv /\ [NextStreams]_streamVars => UploadInv' /\ DownloadInv'
  <2> SUFFICES ASSUME UploadInv, DownloadInv, [NextStreams]_streamVars PROVE UploadInv' /\ DownloadInv'
    OBVIOUS
  <2>1. CASE \/ \E n \in 0..MaxFileBytes : putFileManifestFromStream(n)
             \/ \E n \in 1..MaxFileBytes : PieceArrives(n)
             \/ \E ok \in BOOLEAN : PartCut(ok)
             \/ UploadEnds \/ UploadBreaks
    <3>1. UploadInv' /\ upload.pc # "saved" /\ UNCHANGED <<download, partFile>>
      BY <2>1, UploadKeeps
    <3> QED
      BY <3>1 DEF DownloadInv
  <2>2. CASE \/ \E n \in 1..MaxFileBytes : PieceRead(n)
             \/ \E i \in 1..MaxFileBytes, left \in 0..(PartMax + 1), st \in {"open", "gone"}, right \in BOOLEAN :
                  readManifestPlaintextStream(i, [left |-> left, st |-> st, right |-> right])
             \/ PartShort \/ PartPushed \/ DownloadEnds
             \/ \E i \in 1..MaxFileBytes : PartFails(i)
    <3>1. DownloadInv' /\ UNCHANGED upload
      BY <2>2, DownloadKeeps
    <3> QED
      BY <3>1 DEF UploadInv, CutsAgree
  <2>3. CASE UNCHANGED streamVars
    BY <2>3 DEF streamVars, UploadInv, DownloadInv, CutsAgree
  <2> QED
    BY <2>1, <2>2, <2>3 DEF NextStreams
<1>2. UploadInv /\ DownloadInv => StreamsTypeOK /\ StreamsAreWhole
  <2> SUFFICES ASSUME UploadInv, DownloadInv PROVE StreamsTypeOK /\ StreamsAreWhole
    OBVIOUS
  <2>1. 0 <= Pending /\ upload.parts \in Seq(Part) /\ download \in DownloadRecord /\ upload \in UploadRecord
    BY DEF UploadInv, UploadRecord, DownloadInv, Pending
  <2>2. StreamsTypeOK
    BY <2>1 DEF StreamsTypeOK, UploadInv, UploadRecord, DownloadInv, DownloadRecord, Sized, Size
  <2>3. ASSUME download.pc # "no"
        PROVE  \E n \in 0..Len(upload.parts) : download.out = (IF n = 0 THEN 0 ELSE upload.parts[n].to)
    <3>1. download.index - 1 \in 0..Len(upload.parts) /\ (download.index = 1 <=> download.index - 1 = 0)
      BY <2>1, <2>3 DEF DownloadInv
    <3> QED
      BY <2>3, <3>1 DEF DownloadInv
  <2> QED
    BY <2>2, <2>3 DEF StreamsAreWhole, DownloadIsWhole, UploadInv, DownloadInv
<1> QED
  BY <1>1, <1>2, StreamsInit, PTL DEF SpecStreams
=============================================================================
