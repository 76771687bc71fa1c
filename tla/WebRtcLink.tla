----------------------------- MODULE WebRtcLink ------------------------------
(***************************************************************************)
(* WebRTC links: the two ends of one while it is set up, the table of      *)
(* sessions through which their signals go, and the queues it sends from.  *)
(* The three share no state.                                               *)
(***************************************************************************)
EXTENDS Naturals, Sequences, FiniteSets, SequencesExt

(***************************************************************************)
(* The two ends of one WebRTC link while it is set up                      *)
(* (link/providers/webrtc.mjs): peer connections built and rebuilt on the  *)
(* rungs of the ICE ladder, one offer, its answer, signals lost and        *)
(* delivered twice, channels, and the close of the pipe.  Peer connections *)
(* are numbered as they are built.  The pipe's own handshake is LinkPipe.  *)
(* `ice` messages, which this code takes but never sends, are left out.    *)
(***************************************************************************)

CONSTANTS
  Caller, Callee,  \* the initiator and the acceptor
  LadderTop,       \* of each end: the last rung of its ladder
  AnswerTries,     \* sends of an answer (ANSWER_SIGNAL_RETRY_DELAYS_MS and the first)
  MaxConns,        \* bound: peer connections built
  MaxSignalFaults  \* bound: signals lost, repeated or not sent, gatherings overdue, closes from outside

ASSUME RtcAssumption ==
  /\ Caller # Callee
  /\ LadderTop \in [{Caller, Callee} -> Nat]
  /\ AnswerTries \in Nat \ {0} /\ MaxConns \in Nat /\ MaxSignalFaults \in Nat

VARIABLES
  conns,    \* the peer connections: whose, whether open, attached to its pipe, what is set
  rtc,      \* each end's closure: current connection, rung, the pipe, the main flow
  signals,  \* each end's handling of signals that came
  seenSig,  \* of each end: the signals it has seen
  air,      \* signals under way
  aired,    \* history: every signal sent
  strays,   \* history: connections that a second build replaced, or that came after the close
  rtcFaults

rtcVars == <<conns, rtc, signals, seenSig, air, aired, strays, rtcFaults>>

RtcEnds == {Caller, Callee}
Copies == 1..2      \* a signal and its repetition
NoConn == 0

\* prev is the connection a build replaces, tries counts the sends of an answer.
Idle == [at |-> "idle", msg |-> <<>>, prev |-> NoConn, conn |-> NoConn, tries |-> 0]

InitRtc ==
  /\ conns = <<>>
  /\ rtc = [e \in RtcEnds |-> [main |-> "new", prev |-> NoConn, conn |-> NoConn, rung |-> 0,
                               pipe |-> "open", ready |-> FALSE, shaking |-> FALSE]]
  /\ signals = [e \in RtcEnds |-> [k \in Copies |-> Idle]]
  /\ seenSig = [e \in RtcEnds |-> {}]
  /\ air = {} /\ aired = {} /\ strays = {} /\ rtcFaults = 0

Clamp(e, r) == IF r > LadderTop[e] THEN LadderTop[e] ELSE r

Faulty == rtcFaults < MaxSignalFaults /\ rtcFaults' = rtcFaults + 1

\* What close() of e's pipe does to the connections: closeTransport closes the current one.
ClosedBy(e) ==
  [p \in DOMAIN conns |->
     IF p = rtc[e].conn /\ rtc[e].pipe = "open" THEN [conns[p] EXCEPT !.open = FALSE] ELSE conns[p]]

\* Mutant of Replaced: the connection that is replaced keeps its handlers.
ReplacedAttached(p) == [conns[p] EXCEPT !.open = FALSE]

\* buildPeerConnection detaches the connection it replaces before it closes it.
Replaced(p) == [conns[p] EXCEPT !.open = FALSE, !.attached = FALSE]

\* The rest of buildPeerConnection once the RTC backend is loaded; prev was read before.
Builds(e, prev) ==
  /\ Len(conns) < MaxConns
  /\ conns' = Append([p \in DOMAIN conns |-> IF p = prev THEN Replaced(p) ELSE conns[p]],
                     [own |-> e, open |-> TRUE, attached |-> TRUE, remote |-> NoConn, local |-> FALSE])
  /\ strays' = strays
       \cup (IF rtc[e].conn # prev THEN {rtc[e].conn} ELSE {})
       \cup (IF rtc[e].pipe # "open" THEN {Len(conns) + 1} ELSE {})

-----------------------------------------------------------------------------
(* createWebRtcLink. *)

\* The signal handler is there, and the first build begins.
Begin(e) ==
  /\ rtc[e].main = "new"
  /\ rtc' = [rtc EXCEPT ![e].main = "build"]
  /\ UNCHANGED <<conns, signals, seenSig, air, aired, strays, rtcFaults>>

MainBuilt(e) ==
  /\ rtc[e].main = "build"
  /\ Builds(e, rtc[e].prev)
  /\ rtc' = [rtc EXCEPT ![e].conn = Len(conns) + 1,
                        ![e].main = IF e = Caller THEN "offer" ELSE "returned"]
  /\ UNCHANGED <<signals, seenSig, air, aired, rtcFaults>>

\* The channels and the offer are made; candidates are gathered from here on.
CreateOffer ==
  /\ rtc[Caller].main = "offer"
  /\ rtc' = [rtc EXCEPT ![Caller].main = "gather"]
  /\ conns' = [conns EXCEPT ![rtc[Caller].conn].local = TRUE]
  /\ UNCHANGED <<signals, seenSig, air, aired, strays, rtcFaults>>

SignalOf(type, c, rung, to) == [type |-> type, conn |-> c, rung |-> rung, to |-> to]

\* Mutant of Escalate: the offer of a rung without candidates is sent, too.
EscalateAfterOffer ==
  LET m == SignalOf("offer", rtc[Caller].conn, rtc[Caller].rung, NoConn) IN
  /\ rtc[Caller].main = "gather"
  /\ rtc[Caller].rung < LadderTop[Caller]
  /\ rtc' = [rtc EXCEPT ![Caller].main = "build", ![Caller].prev = rtc[Caller].conn,
                        ![Caller].rung = @ + 1]
  /\ air' = air \cup {m} /\ aired' = aired \cup {m}
  /\ UNCHANGED <<conns, signals, seenSig, strays, rtcFaults>>

\* No candidate came: the next rung is tried on a new connection, while there is time.
Escalate ==
  /\ rtc[Caller].main = "gather"
  /\ rtc[Caller].rung < LadderTop[Caller]
  /\ rtc' = [rtc EXCEPT ![Caller].main = "build", ![Caller].prev = rtc[Caller].conn,
                        ![Caller].rung = @ + 1]
  /\ UNCHANGED <<conns, signals, seenSig, air, aired, strays, rtcFaults>>

\* The offer goes out, with or without candidates.
SendOffer ==
  LET m == SignalOf("offer", rtc[Caller].conn, rtc[Caller].rung, NoConn) IN
  /\ rtc[Caller].main = "gather"
  /\ rtc' = [rtc EXCEPT ![Caller].main = "returned"]
  /\ air' = air \cup {m} /\ aired' = aired \cup {m}
  /\ UNCHANGED <<conns, signals, seenSig, strays, rtcFaults>>

\* No medium takes the offer: dial() throws, and the pipe and its connection stay.
OfferNotSent ==
  /\ rtc[Caller].main = "gather"
  /\ Faulty
  /\ rtc' = [rtc EXCEPT ![Caller].main = "threw"]
  /\ UNCHANGED <<conns, signals, seenSig, air, aired, strays>>

\* Gathering is overdue: the pipe is closed and dial() throws.
GatheringOverdue ==
  /\ rtc[Caller].main = "gather"
  /\ Faulty
  /\ conns' = ClosedBy(Caller)
  /\ rtc' = [rtc EXCEPT ![Caller].main = "threw", ![Caller].pipe = "closed"]
  /\ UNCHANGED <<signals, seenSig, air, aired, strays>>

-----------------------------------------------------------------------------
(* handleRemoteSignal. *)

For(e) == IF e = Callee THEN "offer" ELSE "answer"

\* A handler waits for a connection to exist, and builds one if none does yet.  Before
\* Begin the session keeps the signal, and the handler is gone once the pipe is closed.
SignalArrives(e, k, m) ==
  /\ m \in air /\ m.type = For(e)
  /\ rtc[e].main # "new"
  /\ signals[e][k].at = "idle" /\ (k = 1 \/ signals[e][1].at # "idle")
  /\ air' = air \ {m}
  /\ signals' = IF rtc[e].pipe # "open" THEN signals
                ELSE [signals EXCEPT ![e][k] =
                        [Idle EXCEPT !.msg = m, !.at = IF rtc[e].conn = NoConn THEN "load" ELSE "handle"]]
  /\ UNCHANGED <<conns, rtc, seenSig, aired, strays, rtcFaults>>

\* The handler's own build of the first connection.
SignalBuilt(e, k) ==
  /\ signals[e][k].at \in {"load", "rebuild"}
  /\ Builds(e, signals[e][k].prev)
  /\ rtc' = [rtc EXCEPT ![e].conn = Len(conns) + 1]
  /\ signals' = [signals EXCEPT ![e][k].at = IF @ = "load" THEN "handle" ELSE "apply"]
  /\ UNCHANGED <<seenSig, air, aired, rtcFaults>>

\* Two first builds that began together are over together: whoever goes on finds both done.
BothBuilt(e) ==
  e = Callee => /\ rtc[e].main # "build"
                /\ \A k \in Copies : signals[e][k].at # "load"

\* An offer of another rung than this end's makes it build a connection on that rung.
Handle(e, k) ==
  LET m == signals[e][k].msg
      repeated == m \in seenSig[e]
      stable == e = Caller /\ conns[rtc[e].conn].remote # NoConn
      rebuilds == e = Callee /\ m.rung # rtc[e].rung
  IN /\ signals[e][k].at = "handle" /\ BothBuilt(e)
     /\ seenSig' = [seenSig EXCEPT ![e] = @ \cup {m}]
     /\ signals' = [signals EXCEPT ![e][k] =
          IF repeated \/ stable THEN [@ EXCEPT !.at = "done"]
          ELSE IF rebuilds THEN [@ EXCEPT !.at = "rebuild", !.prev = rtc[e].conn]
          ELSE [@ EXCEPT !.at = "apply"]]
     /\ rtc' = IF rebuilds /\ ~repeated THEN [rtc EXCEPT ![e].rung = Clamp(e, m.rung)] ELSE rtc
     /\ UNCHANGED <<conns, air, aired, strays, rtcFaults>>

\* An error in a handler closes the pipe.
SignalFails(e, k) ==
  /\ conns' = ClosedBy(e)
  /\ rtc' = [rtc EXCEPT ![e].pipe = "closed"]
  /\ signals' = [signals EXCEPT ![e][k].at = "done"]

\* setRemoteDescription, on the connection that is current now.
Apply(e, k) ==
  LET c == rtc[e].conn IN
  /\ signals[e][k].at = "apply"
  /\ IF conns[c].open
     THEN /\ conns' = [conns EXCEPT ![c].remote = signals[e][k].msg.conn]
          /\ signals' = [signals EXCEPT ![e][k].at = IF e = Callee THEN "answer" ELSE "done"]
          /\ UNCHANGED rtc
     ELSE SignalFails(e, k)
  /\ UNCHANGED <<seenSig, air, aired, strays, rtcFaults>>

\* createAnswer and setLocalDescription need the offer on the connection that is current.
CreateAnswer(k) ==
  LET c == rtc[Callee].conn IN
  /\ signals[Callee][k].at = "answer"
  /\ IF conns[c].open /\ conns[c].remote # NoConn
     THEN /\ conns' = [conns EXCEPT ![c].local = TRUE]
          /\ signals' = [signals EXCEPT ![Callee][k].at = "gather"]
          /\ UNCHANGED rtc
     ELSE SignalFails(Callee, k)
  /\ UNCHANGED <<seenSig, air, aired, strays, rtcFaults>>

AnswerGathered(k) ==
  /\ signals[Callee][k].at = "gather"
  /\ signals' = [signals EXCEPT ![Callee][k].at = "send", ![Callee][k].conn = rtc[Callee].conn]
  /\ UNCHANGED <<conns, rtc, seenSig, air, aired, strays, rtcFaults>>

AnswerOverdue(k) ==
  /\ signals[Callee][k].at = "gather"
  /\ Faulty
  /\ SignalFails(Callee, k)
  /\ UNCHANGED <<seenSig, air, aired, strays>>

\* isCurrent of sendAnswerSignal.
Current(k) ==
  LET s == signals[Callee][k]
  IN rtc[Callee].conn = s.conn /\ rtc[Callee].rung = s.msg.rung /\ rtc[Callee].pipe = "open"

SendAnswer(k) ==
  LET s == signals[Callee][k]
      m == SignalOf("answer", rtc[Callee].conn, rtc[Callee].rung, s.msg.conn)
      sent == IF Current(k) THEN {m} ELSE {}
  IN /\ s.at = "send"
     /\ air' = air \cup sent /\ aired' = aired \cup sent
     /\ signals' = [signals EXCEPT ![Callee][k].at = "done"]
     /\ UNCHANGED <<conns, rtc, seenSig, strays, rtcFaults>>

\* No medium takes the answer: again after a while, and at last the pipe is closed unless
\* it is ready.
AnswerNotSent(k) ==
  /\ signals[Callee][k].at = "send" /\ Current(k)
  /\ Faulty
  /\ \/ /\ signals[Callee][k].tries + 1 < AnswerTries /\ ~rtc[Callee].ready
        /\ signals' = [signals EXCEPT ![Callee][k].tries = @ + 1]
        /\ UNCHANGED <<conns, rtc>>
     \/ /\ rtc[Callee].ready
        /\ signals' = [signals EXCEPT ![Callee][k].at = "done"]
        /\ UNCHANGED <<conns, rtc>>
     \/ /\ signals[Callee][k].tries + 1 = AnswerTries /\ ~rtc[Callee].ready
        /\ SignalFails(Callee, k)
  /\ UNCHANGED <<seenSig, air, aired, strays>>

-----------------------------------------------------------------------------
(* Channels, failures, closes. *)

\* The connections that p can reach: each has the other's description.
Linked(p, q) ==
  /\ conns[p].open /\ conns[q].open
  /\ conns[p].remote = q /\ conns[q].remote = p

Reached(p) == \E q \in DOMAIN conns : Linked(p, q)

\* Both channels are open: the pipe starts its handshake.
ChannelsOpen(e) ==
  /\ rtc[e].main = "returned" /\ rtc[e].pipe = "open" /\ ~rtc[e].shaking
  /\ rtc[e].conn # NoConn /\ Reached(rtc[e].conn)
  /\ rtc' = [rtc EXCEPT ![e].shaking = TRUE]
  /\ UNCHANGED <<conns, signals, seenSig, air, aired, strays, rtcFaults>>

\* The handshake of the pipe ends: it is ready, or closes (LinkPipe).
Shaken(e, ok) ==
  /\ rtc[e].shaking /\ ~rtc[e].ready /\ rtc[e].pipe = "open"
  /\ IF ok
     THEN /\ \A o \in RtcEnds : rtc[o].shaking
          /\ rtc' = [rtc EXCEPT ![e].ready = TRUE] /\ UNCHANGED conns
     ELSE rtc' = [rtc EXCEPT ![e].pipe = "closed"] /\ conns' = ClosedBy(e)
  /\ UNCHANGED <<signals, seenSig, air, aired, strays, rtcFaults>>

\* Mutant of ChannelTimeout: the wait for the channels has no end.
ChannelTimeoutNever == FALSE /\ UNCHANGED rtcVars

\* The initiator's channels do not open in time.
ChannelTimeout ==
  /\ rtc[Caller].main = "returned" /\ rtc[Caller].pipe = "open" /\ ~rtc[Caller].shaking
  /\ ~Reached(rtc[Caller].conn)
  /\ rtc' = [rtc EXCEPT ![Caller].pipe = "closed"]
  /\ conns' = ClosedBy(Caller)
  /\ UNCHANGED <<signals, seenSig, air, aired, strays, rtcFaults>>

\* A connection that is still attached is closed, or ICE gives up on it.
StateFails(p) ==
  LET e == conns[p].own IN
  /\ conns[p].attached /\ rtc[e].pipe = "open"
  /\ ~conns[p].open \/ (conns[p].local /\ conns[p].remote # NoConn /\ ~Reached(p))
  /\ rtc' = [rtc EXCEPT ![e].pipe = "closed"]
  /\ conns' = ClosedBy(e)
  /\ UNCHANGED <<signals, seenSig, air, aired, strays, rtcFaults>>

\* Who has the handle closes the link.
CloseFromOutside(e) ==
  /\ rtc[e].main = "returned" /\ rtc[e].pipe = "open"
  /\ Faulty
  /\ rtc' = [rtc EXCEPT ![e].pipe = "closed"]
  /\ conns' = ClosedBy(e)
  /\ UNCHANGED <<signals, seenSig, air, aired, strays>>

SignalLost(m) ==
  /\ m \in air /\ Faulty
  /\ air' = air \ {m}
  /\ UNCHANGED <<conns, rtc, signals, seenSig, aired, strays>>

SignalRepeated(m) ==
  /\ m \in aired \ air /\ Faulty
  /\ air' = air \cup {m}
  /\ UNCHANGED <<conns, rtc, signals, seenSig, aired, strays>>

SignalGoesOn(e, k) == SignalBuilt(e, k) \/ Handle(e, k) \/ Apply(e, k)
AnswerGoesOn(k) == CreateAnswer(k) \/ AnswerGathered(k) \/ SendAnswer(k)

NextRtc ==
  \/ CreateOffer \/ Escalate \/ SendOffer \/ OfferNotSent \/ GatheringOverdue \/ ChannelTimeout
  \/ \E e \in RtcEnds :
       \/ Begin(e) \/ MainBuilt(e) \/ ChannelsOpen(e) \/ CloseFromOutside(e)
       \/ \E ok \in BOOLEAN : Shaken(e, ok)
       \/ \E k \in Copies : SignalGoesOn(e, k) \/ \E m \in air : SignalArrives(e, k, m)
  \/ \E k \in Copies : AnswerGoesOn(k) \/ AnswerOverdue(k) \/ AnswerNotSent(k)
  \/ \E p \in DOMAIN conns : StateFails(p)
  \/ \E m \in aired : SignalLost(m) \/ SignalRepeated(m)

SpecRtc == InitRtc /\ [][NextRtc]_rtcVars

\* Backends load, gathering ends one way or another, the handshake ends, the timer fires.
FairRtc ==
  /\ WF_rtcVars(CreateOffer \/ Escalate \/ SendOffer \/ \E e \in RtcEnds : MainBuilt(e))
  /\ WF_rtcVars(ChannelTimeout)
  /\ WF_rtcVars(\E e \in RtcEnds : ChannelsOpen(e) \/ \E ok \in BOOLEAN : Shaken(e, ok))

-----------------------------------------------------------------------------
(* Properties. *)

\* Types of the state.
RtcTypeOK ==
  /\ conns \in Seq([own : RtcEnds, open : BOOLEAN, attached : BOOLEAN, remote : 0..MaxConns,
                    local : BOOLEAN])
  /\ \A e \in RtcEnds :
       /\ rtc[e].conn \in 0..Len(conns) /\ rtc[e].rung \in 0..LadderTop[e]
       /\ rtc[e].main \in {"new", "build", "offer", "gather", "returned", "threw"}
       /\ rtc[e].pipe \in {"open", "closed"}
  /\ air \subseteq aired
  /\ rtcFaults \in 0..MaxSignalFaults

\* An answer is never applied to another connection than the one whose offer it answers,
\* whatever rungs were climbed meanwhile, and the answer comes from the connection that has
\* that offer, built on the rung of the offer (webrtc.mjs:478-482, 494-500, 581-621).
AnswersFitOffers ==
  /\ \A p, q \in DOMAIN conns :
       conns[p].remote = q /\ conns[p].own = Caller => conns[q].remote = p
  /\ \A m \in aired : m.type = "answer" =>
       SignalOf("offer", m.to, m.rung, NoConn) \in aired /\ conns[m.conn].remote = m.to

\* Once its pipe is closed an end holds no connection open, and while it is open none but
\* the current, where no second build overtook the first and none came after the close
\* (webrtc.mjs:231-237, 302-316).
NoStrayConnection ==
  \A p \in DOMAIN conns \ strays :
    conns[p].open => p = rtc[conns[p].own].conn /\ rtc[conns[p].own].pipe = "open"

\* However rungs, signals and closes interleave, both ends talk about the same two
\* connections and leave no other one open.
LadderIsClean == AnswersFitOffers /\ NoStrayConnection

\* A link is closed by events of its current connection only: what a rung left behind
\* never closes the connection of the next (webrtc.mjs:311-316, 394-400).
RebuildSparesLink ==
  [][\A p \in DOMAIN conns : StateFails(p) => p = rtc[conns[p].own].conn]_rtcVars

\* A dial that has returned a link has it ready or closed, whatever was lost on the way
\* (webrtc.mjs:554-569, 628).
DialSettled ==
  rtc[Caller].main = "returned" => rtc[Caller].ready \/ rtc[Caller].pipe = "closed"

-----------------------------------------------------------------------------
(***************************************************************************)
(* A node's table of signal sessions, one for each connId of a dial or an  *)
(* accept (transport/offer_answer.mjs): signals that come before the       *)
(* provider listens are kept, the table has a cap, and whoever ends a dial *)
(* or an accept deletes the entry of its connId.                           *)
(***************************************************************************)

CONSTANTS
  ConnIds,      \* connection ids
  SessionCap,  \* entries of the table (MAX_SIGNAL_SESSIONS)
  BacklogMax,   \* signals kept for a provider (SIGNAL_BACKLOG_MAX)
  MaxFlows,     \* bound: dials and accepts
  MaxPackets    \* bound: signals one of them is given before its provider listens

ASSUME SessionsAssumption ==
  /\ ConnIds # {} /\ {SessionCap, BacklogMax} \subseteq Nat \ {0}
  /\ MaxFlows \in Nat /\ MaxPackets \in Nat

VARIABLES
  signalSessions,  \* the entries, oldest first: connId and flow
  flow,            \* each dial or accept: its connId, how far it is
  backlog,         \* of each: signals kept
  given, heard,    \* history: signals it was given before its provider listened, and those
                   \* the provider got when it did
  robbed           \* history: evicted, or of a connId that another flow has, too

sessionVars == <<signalSessions, flow, backlog, given, heard, robbed>>

Flows == 1..MaxFlows
SignalKinds == {"offer", "other"}

InitSessions ==
  /\ signalSessions = <<>>
  /\ flow = [f \in Flows |-> [st |-> "none", conn |-> CHOOSE k \in ConnIds : TRUE]]
  /\ backlog = [f \in Flows |-> <<>>]
  /\ given = [f \in Flows |-> <<>>]
  /\ heard = [f \in Flows |-> <<>>]
  /\ robbed = {}

Surplus(t) == IF Len(t) >= SessionCap THEN Len(t) - SessionCap + 1 ELSE 0

\* ensureSignalSessionBudget: the flows whose entries go before another comes in.
Evicted(t) == {t[i].flow : i \in 1..Surplus(t)}
Room(t) == SubSeq(t, Surplus(t) + 1, Len(t))

SessionOf(k) == {i \in DOMAIN signalSessions : signalSessions[i].conn = k}
FlowAt(k) == signalSessions[CHOOSE i \in SessionOf(k) : TRUE].flow

\* createConnSession and signalSessions.set for a new flow f; entries evicted are cleared.
Enters(f, k, kept) ==
  /\ flow[f].st = "none" /\ \A g \in 1..(f - 1) : flow[g].st # "none"
  /\ signalSessions' = Append(Room(signalSessions), [conn |-> k, flow |-> f])
  /\ flow' = [g \in Flows |-> IF g = f THEN [st |-> "waits", conn |-> k]
                              ELSE IF g \in Evicted(signalSessions) /\ flow[g].st = "listens"
                              THEN [flow[g] EXCEPT !.st = "deaf"] ELSE flow[g]]
  /\ backlog' = [g \in Flows |-> IF g = f THEN kept
                                 ELSE IF g \in Evicted(signalSessions) THEN <<>> ELSE backlog[g]]
  /\ given' = [given EXCEPT ![f] = kept]
  /\ robbed' = robbed \cup Evicted(signalSessions)
                      \cup {g \in Flows : flow[g].st \notin {"none", "over"} /\ flow[g].conn = k}
                      \cup (IF \E g \in Flows : flow[g].st \notin {"none", "over"} /\ flow[g].conn = k
                            THEN {f} ELSE {})
  /\ UNCHANGED heard

\* dialOfferAnswer draws a connId nobody has used.
DialOfferAnswer(f, k) ==
  /\ \A g \in Flows : flow[g].st # "none" => flow[g].conn # k
  /\ Enters(f, k, <<>>)

\* Mutant of KeptSignals: a full backlog takes nothing.
KeptSignalsIfRoom(b, m) == IF Len(b) >= BacklogMax THEN b ELSE Append(b, m)

\* A signal is kept: the oldest makes room.
KeptSignals(b, m) == Append(IF Len(b) >= BacklogMax THEN Tail(b) ELSE b, m)

\* deliver of a session in the table: kept while no handler is there, else the handler is
\* called.
deliver(f, m) ==
  IF flow[f].st = "waits"
  THEN /\ Len(given[f]) < MaxPackets
       /\ given' = [given EXCEPT ![f] = Append(@, m)]
       /\ backlog' = [backlog EXCEPT ![f] = KeptSignals(@, m)]
  ELSE UNCHANGED <<given, backlog>>

\* handleSignalPacket: an unknown connId begins an accept, if the signal is an offer.
handleSignalPacket(k, m) ==
  \/ /\ SessionOf(k) # {}
     /\ deliver(FlowAt(k), m)
     /\ UNCHANGED <<signalSessions, flow, heard, robbed>>
  \/ /\ SessionOf(k) = {} /\ m = "offer"
     /\ \E f \in Flows : Enters(f, k, <<m>>)

\* The provider's onRemote, after trimToBudget: the backlog is handed over in order.
ProviderListens(f) ==
  /\ flow[f].st = "waits"
  /\ flow' = [flow EXCEPT ![f].st = "listens"]
  /\ heard' = [heard EXCEPT ![f] = backlog[f]]
  /\ backlog' = [backlog EXCEPT ![f] = <<>>]
  /\ UNCHANGED <<signalSessions, given, robbed>>

\* signalSessions.delete(connId).
Deleted(k) ==
  IF SessionOf(k) = {} THEN signalSessions ELSE RemoveAt(signalSessions, CHOOSE i \in SessionOf(k) : TRUE)

\* The dial or accept fails, or its link goes down: the entry of its connId is deleted,
\* whoever's it is.  (Its own session and history are gone with it.)
FlowEnds(f) ==
  /\ flow[f].st \in {"waits", "listens", "deaf"}
  /\ flow' = [flow EXCEPT ![f].st = "over"]
  /\ signalSessions' = Deleted(flow[f].conn)
  /\ backlog' = [backlog EXCEPT ![f] = <<>>]
  /\ given' = [given EXCEPT ![f] = <<>>]
  /\ heard' = [heard EXCEPT ![f] = <<>>]
  /\ robbed' = robbed \ {f}

NextSessions ==
  \/ \E k \in ConnIds : \/ \E f \in Flows : DialOfferAnswer(f, k)
                        \/ \E m \in SignalKinds : handleSignalPacket(k, m)
  \/ \E f \in Flows : ProviderListens(f) \/ FlowEnds(f)

SpecSessions == InitSessions /\ [][NextSessions]_sessionVars

-----------------------------------------------------------------------------
(* Properties. *)

\* Types of the state; the table keeps its cap.
SessionsTypeOK ==
  /\ Len(signalSessions) <= SessionCap
  /\ \A i \in DOMAIN signalSessions : signalSessions[i] \in [conn : ConnIds, flow : Flows]
  /\ \A f \in Flows : /\ flow[f].st \in {"none", "waits", "listens", "deaf", "over"}
                      /\ Len(backlog[f]) <= BacklogMax
  /\ robbed \subseteq Flows

Latest(s) == SubSeq(s, IF Len(s) > BacklogMax THEN Len(s) - BacklogMax + 1 ELSE 1, Len(s))

\* A dial or accept under way keeps its session, and its provider is called with every
\* signal given before it listens, in order, the oldest of more than BacklogMax aside
\* (offer_answer.mjs:53-71, 181-195); not so for one that was evicted, or shares its
\* connId with another because of that: the end of either deletes the other's entry
\* (offer_answer.mjs:147-161).
SignalsAreHeard ==
  \A f \in Flows \ robbed :
    /\ flow[f].st \in {"waits", "listens"} =>
         \E i \in DOMAIN signalSessions : signalSessions[i] = [conn |-> flow[f].conn, flow |-> f]
    /\ flow[f].st = "waits" => backlog[f] = Latest(given[f])
    /\ flow[f].st = "listens" => heard[f] = Latest(given[f])

-----------------------------------------------------------------------------
(***************************************************************************)
(* The send queues of a WebRTC link (link/channel_mux.mjs,                 *)
(* createChannelSendQueues, and attachBackpressurePump in                  *)
(* link/providers/webrtc.mjs): frames wait by priority for the control or  *)
(* the bulk channel, a flush runs as a microtask and stops at the high     *)
(* watermark, and the channel's low event starts the next.  The channels   *)
(* are open when the queues are made.                                      *)
(***************************************************************************)

CONSTANTS
  Actions,       \* actions of envelopes: priority, and whether routing pins them to control
  Sizes,         \* sizes of frames
  BulkMin,       \* BULK_CHANNEL_MIN_BYTES: larger frames take the bulk channel
  LowThreshold,  \* CHANNEL_LOW_THRESHOLD_BYTES
  HighOption,    \* options.highWatermarkBytes, or its default
  MaxFrames      \* bound: frames enqueued

ASSUME ChannelAssumption ==
  /\ Actions \subseteq [priority : Nat, pinned : BOOLEAN]
  /\ Sizes \subseteq Nat \ {0} /\ Sizes # {} /\ IsFiniteSet(Sizes)
  /\ {BulkMin, LowThreshold} \subseteq Nat /\ HighOption \in Nat \ {0}

VARIABLES
  queues,     \* per channel the frames that wait
  scheduled,  \* per channel: a flush is a microtask already
  open,       \* per channel: readyState is "open"
  buffered,   \* bufferedAmount of each channel
  lowDue,     \* per channel: the low event is on its way
  frames,     \* frames enqueued so far: channel, priority, size
  sentFrames  \* history: per channel the frames sent, in order

channelVars == <<queues, scheduled, open, buffered, lowDue, frames, sentFrames>>

Channels == {"control", "bulk"}

InitChannels ==
  /\ queues = [c \in Channels |-> <<>>]
  /\ scheduled = [c \in Channels |-> FALSE]
  /\ open = [c \in Channels |-> TRUE]
  /\ buffered = [c \in Channels |-> 0]
  /\ lowDue = [c \in Channels |-> FALSE]
  /\ frames = <<>>
  /\ sentFrames = [c \in Channels |-> <<>>]

\* Mutant of HighWatermark: the option as it is.
HighWatermarkAsGiven == HighOption

HighWatermark == IF HighOption > LowThreshold THEN HighOption ELSE LowThreshold

pickChannel(action, size) ==
  IF action.pinned \/ (size <= BulkMin /\ action.priority <= 3) THEN "control" ELSE "bulk"

\* Behind every frame of its own or a smaller priority number.
Place(queue, f) == Cardinality({i \in DOMAIN queue : frames'[queue[i]].priority <= frames'[f].priority}) + 1

enqueue(action, size) ==
  LET c == pickChannel(action, size)
      f == Len(frames) + 1 IN
  /\ Len(frames) < MaxFrames
  /\ frames' = Append(frames, [channel |-> c, priority |-> action.priority, size |-> size])
  /\ queues' = [queues EXCEPT ![c] = InsertAt(@, Place(@, f), f)]
  /\ scheduled' = [scheduled EXCEPT ![c] = TRUE]
  /\ UNCHANGED <<open, buffered, lowDue, sentFrames>>

\* What the channel holds once the first frames of its queue are sent, for each number of them.
Load(c) ==
  LET load[i \in 0..Len(queues[c])] ==
        IF i = 0 THEN buffered[c] ELSE load[i - 1] + frames[queues[c][i]].size
  IN load

\* A frame is sent as long as the channel holds no more than the high watermark.
Sendable(c) == {n \in 0..Len(queues[c]) : \A k \in 0..(n - 1) : Load(c)[k] <= HighWatermark}

flush(c) ==
  /\ scheduled[c]
  /\ scheduled' = [scheduled EXCEPT ![c] = FALSE]
  /\ IF open[c]
     THEN \E n \in Sendable(c) :
            /\ \A k \in Sendable(c) : k <= n
            /\ buffered' = [buffered EXCEPT ![c] = Load(c)[n]]
            /\ sentFrames' = [sentFrames EXCEPT ![c] = @ \o SubSeq(queues[c], 1, n)]
            /\ queues' = [queues EXCEPT ![c] = SubSeq(@, n + 1, Len(@))]
     ELSE UNCHANGED <<buffered, sentFrames, queues>>
  /\ UNCHANGED <<open, lowDue, frames>>

\* The transport takes a byte; the event is due when the amount falls to the threshold.
Drains(c) ==
  /\ open[c] /\ buffered[c] > 0
  /\ buffered' = [buffered EXCEPT ![c] = @ - 1]
  /\ lowDue' = [lowDue EXCEPT ![c] = @ \/ buffered[c] = LowThreshold + 1]
  /\ UNCHANGED <<queues, scheduled, open, frames, sentFrames>>

onBufferedAmountLow(c) ==
  /\ lowDue[c]
  /\ lowDue' = [lowDue EXCEPT ![c] = FALSE]
  /\ scheduled' = [scheduled EXCEPT ![c] = TRUE]
  /\ UNCHANGED <<queues, open, buffered, frames, sentFrames>>

\* A channel fails; the pipe closes only later, if at all.
ChannelFails(c) ==
  /\ open[c]
  /\ open' = [open EXCEPT ![c] = FALSE]
  /\ UNCHANGED <<queues, scheduled, buffered, lowDue, frames, sentFrames>>

\* closeTransport of the pipe.
ClearQueues ==
  /\ open' = [c \in Channels |-> FALSE]
  /\ queues' = [c \in Channels |-> <<>>]
  /\ UNCHANGED <<scheduled, buffered, lowDue, frames, sentFrames>>

NextChannels ==
  \/ \E action \in Actions, size \in Sizes : enqueue(action, size)
  \/ \E c \in Channels : flush(c) \/ Drains(c) \/ onBufferedAmountLow(c) \/ ChannelFails(c)
  \/ ClearQueues

SpecChannels == InitChannels /\ [][NextChannels]_channelVars

-----------------------------------------------------------------------------
(* Properties. *)

\* Types of the state.
ChannelsTypeOK ==
  /\ queues \in [Channels -> Seq(DOMAIN frames)] /\ sentFrames \in [Channels -> Seq(DOMAIN frames)]
  /\ \A c \in Channels : buffered[c] \in 0..(HighWatermark + Max(Sizes))

\* Frames that wait for an open channel never wait for an event that does not come: a flush
\* or the low event is under way, or the amount is still to fall through the threshold.  Of
\* one priority they leave in the order they came, and a frame that waited is not overtaken
\* by one of lower priority (channel_mux.mjs:115-205, webrtc.mjs:263-275).
QueuesNeverStall ==
  \A c \in Channels :
    /\ open[c] /\ queues[c] # <<>> => scheduled[c] \/ lowDue[c] \/ buffered[c] > LowThreshold
    /\ \A i, k \in DOMAIN sentFrames[c] : i < k /\ sentFrames[c][i] > sentFrames[c][k] =>
         frames[sentFrames[c][i]].priority < frames[sentFrames[c][k]].priority
    /\ \A i, k \in DOMAIN queues[c] : i < k =>
         frames[queues[c][i]].priority <= frames[queues[c][k]].priority
=============================================================================
