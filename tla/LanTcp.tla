-------------------------------- MODULE LanTcp --------------------------------
(***************************************************************************)
(* Links over TCP in a local network (link/providers/lan_tcp.mjs,          *)
(* discovery/lan_peer_hints.mjs): one node dials the endpoints announced   *)
(* for another, which listens, stops and listens again.  A socket carries  *)
(* frames with a length before each, cut into chunks anywhere; the first   *)
(* is link-open, and the handshake that follows is LinkPipe.               *)
(***************************************************************************)
EXTENDS Naturals, SequencesExt

CONSTANTS
  Endpoints,     \* endpoints that may be announced
  Reachable,          \* the one at which the listener is found
  MaxEndpoints,  \* endpoints kept for a peer
  HeaderBytes, FrameBytes, \* length of the prefix, and of the dialer's frames in their order
  MaxFrameBytes, \* the longest frame that is read
  MaxNotes, MaxTcpDials, MaxSockets, MaxTcpListens \* bounds: what may be called or made

ASSUME LanTcpAssumption ==
  /\ Reachable \in Endpoints /\ {MaxEndpoints, HeaderBytes} \subseteq Nat \ {0}
  /\ FrameBytes \in Seq(Nat) /\ Len(FrameBytes) = 3 /\ MaxFrameBytes \in Nat

VARIABLES
  hints,      \* endpoints known for the peer, the newest first
  notes,      \* announcements so far
  dialing,    \* the dials so far: state, the hints left and the socket in use
  socket,     \* the sockets so far, seen from both ends
  server,     \* the calls of ensureListening that made the server, 0 for none, and its state
  onInbound,  \* somebody takes inbound links
  listens,    \* the calls of ensureListening so far
  stale       \* history: a stop function has stopped what a later call holds

lanVars == <<hints, notes, dialing, socket, server, onInbound, listens, stale>>

NoServer == [made |-> 0, st |-> "none"]

InitLan ==
  /\ hints = <<>> /\ notes = 0
  /\ dialing = <<>> /\ socket = <<>>
  /\ server = NoServer /\ onInbound = FALSE /\ listens = <<>>
  /\ stale = FALSE

-----------------------------------------------------------------------------
(* Hints. *)

\* All but this endpoint, which is known once.
Others(e) ==
  IF e \in Range(hints) THEN RemoveAt(hints, CHOOSE i \in DOMAIN hints : hints[i] = e) ELSE hints

noteLanPeerHint(e) ==
  /\ notes < MaxNotes
  /\ notes' = notes + 1
  /\ LET next == <<e>> \o Others(e)
     IN hints' = SubSeq(next, 1, IF Len(next) < MaxEndpoints THEN Len(next) ELSE MaxEndpoints)
  /\ UNCHANGED <<dialing, socket, server, onInbound, listens, stale>>

HintsExpire ==
  /\ hints # <<>>
  /\ hints' = <<>>
  /\ UNCHANGED <<notes, dialing, socket, server, onInbound, listens, stale>>

-----------------------------------------------------------------------------
(* The stream of a socket; a byte is named by its frame and its place. *)

FrameOf(i) == [k \in 1..(HeaderBytes + FrameBytes[i]) |-> [frame |-> i, at |-> k]]
Body(i) == SubSeq(FrameOf(i), HeaderBytes + 1, HeaderBytes + FrameBytes[i])

\* What the first bytes say; bytes that are no prefix read as any number, here a short one.
LengthIn(bytes) == IF bytes[1].at = 1 THEN FrameBytes[bytes[1].frame] ELSE 1

\* Mutant of PutBack: a prefix without its frame is forgotten.
PutBackNothing(bytes) == SubSeq(bytes, HeaderBytes + 1, Len(bytes))

\* The prefix goes back in front of what is buffered.
PutBack(bytes) == bytes

\* onData, once through its loop: a whole frame is taken off, as long as there is one.
CutOne(cut) ==
  LET end == HeaderBytes + LengthIn(cut.left) IN
  IF cut.st # "cuts" \/ Len(cut.left) < HeaderBytes THEN cut
  ELSE IF LengthIn(cut.left) > MaxFrameBytes THEN [cut EXCEPT !.left = <<>>, !.st = "tooLarge"]
  ELSE IF Len(cut.left) < end THEN [cut EXCEPT !.left = PutBack(cut.left), !.st = "waits"]
  ELSE [cut EXCEPT !.left = SubSeq(cut.left, end + 1, Len(cut.left)),
                   !.taken = Append(cut.taken, SubSeq(cut.left, HeaderBytes + 1, end))]

\* The loop, which takes a prefix at least each time.
Cut(bytes, taken) ==
  LET rounds[n \in 0..Len(bytes)] ==
        IF n = 0 THEN [left |-> bytes, taken |-> taken, st |-> "cuts"] ELSE CutOne(rounds[n - 1])
  IN rounds[Len(bytes)]

-----------------------------------------------------------------------------
(* The dialer. *)

dialLanTcp ==
  /\ Len(dialing) < MaxTcpDials /\ hints # <<>>
  /\ dialing' = Append(dialing, [st |-> "next", left |-> hints, on |-> 0])
  /\ UNCHANGED <<hints, notes, socket, server, onInbound, listens, stale>>

connectTcp(d) ==
  /\ dialing[d].st = "next" /\ dialing[d].left # <<>> /\ Len(socket) < MaxSockets
  /\ socket' = Append(socket,
       [to |-> Head(dialing[d].left), dialer |-> "connecting", acceptor |-> "none", wire |-> <<>>,
        buffered |-> <<>>, delivered |-> <<>>, authSent |-> FALSE, ready |-> FALSE, owned |-> FALSE])
  /\ dialing' = [dialing EXCEPT ![d] = [st |-> "dials", left |-> Tail(@.left), on |-> Len(socket) + 1]]
  /\ UNCHANGED <<hints, notes, server, onInbound, listens, stale>>

\* Refused, or the timeout.
ConnectRefused(d) ==
  /\ dialing[d].st = "dials" /\ socket[dialing[d].on].dialer = "connecting"
  /\ socket' = [socket EXCEPT ![dialing[d].on].dialer = "gone"]
  /\ UNCHANGED <<hints, notes, dialing, server, onInbound, listens, stale>>

\* openTcpPipe: link-open and hello go out.
TcpConnects(d) ==
  LET s == dialing[d].on IN
  /\ dialing[d].st = "dials" /\ socket[s].dialer = "connecting"
  /\ socket[s].to = Reachable /\ server.st = "listening"
  /\ socket' = [socket EXCEPT ![s].dialer = "open", ![s].acceptor = "queued",
                              ![s].wire = FrameOf(1) \o FrameOf(2)]
  /\ UNCHANGED <<hints, notes, dialing, server, onInbound, listens, stale>>

\* The other end's hello has come.
DialerSendsAuth(s) ==
  /\ socket[s].dialer = "open" /\ socket[s].acceptor = "pipe" /\ ~socket[s].authSent
  /\ socket' = [socket EXCEPT ![s].authSent = TRUE, ![s].wire = @ \o FrameOf(3)]
  /\ UNCHANGED <<hints, notes, dialing, server, onInbound, listens, stale>>

\* link.ready, once the other end has answered the hello.
DialerReady(d) ==
  LET s == dialing[d].on IN
  /\ dialing[d].st = "dials" /\ socket[s].dialer = "open" /\ socket[s].acceptor = "pipe"
  /\ Len(socket[s].delivered) >= 2 /\ socket[s].authSent
  /\ dialing' = [dialing EXCEPT ![d].st = "linked"]
  /\ UNCHANGED <<hints, notes, socket, server, onInbound, listens, stale>>

\* The dialer's pipe closes: the handshake timer, or its registry.
DialerCloses(s) ==
  /\ socket[s].dialer = "open"
  /\ socket' = [socket EXCEPT ![s].dialer = "gone"]
  /\ UNCHANGED <<hints, notes, dialing, server, onInbound, listens, stale>>

\* link.ready was rejected, or the connect timer ran out: the next hint.
NextHint(d) ==
  /\ dialing[d].st = "dials" /\ socket[dialing[d].on].dialer = "gone"
  /\ dialing' = [dialing EXCEPT ![d].st = "next"]
  /\ UNCHANGED <<hints, notes, socket, server, onInbound, listens, stale>>

DialFails(d) ==
  /\ dialing[d].st = "next" /\ dialing[d].left = <<>>
  /\ dialing' = [dialing EXCEPT ![d].st = "failed"]
  /\ UNCHANGED <<hints, notes, socket, server, onInbound, listens, stale>>

-----------------------------------------------------------------------------
(* The listener. *)

acceptConnection(s) ==
  /\ socket[s].acceptor = "queued"
  /\ socket' = [socket EXCEPT ![s].acceptor =
                  IF server.st = "listening" /\ onInbound THEN "accepted" ELSE "gone"]
  /\ UNCHANGED <<hints, notes, dialing, server, onInbound, listens, stale>>

\* A chunk of any length: the first frame makes the pipe and hands it to whoever takes it.
DataArrives(s, n) ==
  LET cut == Cut(socket[s].buffered \o SubSeq(socket[s].wire, 1, n), socket[s].delivered) IN
  /\ socket[s].acceptor \in {"accepted", "pipe"} /\ n \in 1..Len(socket[s].wire)
  /\ socket' = [socket EXCEPT
       ![s].wire = SubSeq(@, n + 1, Len(@)), ![s].buffered = cut.left, ![s].delivered = cut.taken,
       ![s].acceptor = IF cut.st = "tooLarge" THEN "gone"
                       ELSE IF @ = "pipe" \/ cut.taken = <<>> THEN @
                       ELSE IF cut.taken[1] = Body(1) THEN "pipe" ELSE "gone",
       ![s].owned = @ \/ (socket[s].acceptor = "accepted" /\ cut.taken # <<>> /\ onInbound)]
  /\ UNCHANGED <<hints, notes, dialing, server, onInbound, listens, stale>>

AcceptorReady(s) ==
  /\ socket[s].acceptor = "pipe" /\ ~socket[s].ready /\ Len(socket[s].delivered) = 3
  /\ socket' = [socket EXCEPT ![s].ready = TRUE]
  /\ UNCHANGED <<hints, notes, dialing, server, onInbound, listens, stale>>

\* The acceptor's pipe closes: a timer, or its registry.
AcceptorCloses(s) ==
  /\ socket[s].acceptor = "pipe"
  /\ socket' = [socket EXCEPT ![s].acceptor = "gone"]
  /\ UNCHANGED <<hints, notes, dialing, server, onInbound, listens, stale>>

\* The close event of a socket whose other end is gone; both pipes close on it.
CloseIsSeen(s) ==
  /\ \/ socket[s].dialer = "gone" /\ socket[s].acceptor \in {"queued", "accepted", "pipe"}
     \/ socket[s].acceptor = "gone" /\ socket[s].dialer = "open"
  /\ socket' = [socket EXCEPT ![s].dialer = "gone", ![s].acceptor = "gone"]
  /\ UNCHANGED <<hints, notes, dialing, server, onInbound, listens, stale>>

ensureListening ==
  LET k == Len(listens) + 1 IN
  /\ k <= MaxTcpListens
  /\ onInbound' = TRUE
  /\ IF server = NoServer
     THEN server' = [made |-> k, st |-> "opening"] /\ listens' = Append(listens, "waits")
     ELSE UNCHANGED server /\ listens' = Append(listens, "held")
  /\ UNCHANGED <<hints, notes, dialing, socket, stale>>

\* The event, or the error, which leaves the server set; after a close neither comes.
ServerListens(ok) ==
  /\ server.st = "opening"
  /\ server' = [server EXCEPT !.st = IF ok THEN "listening" ELSE "failed"]
  /\ listens' = [listens EXCEPT ![server.made] = IF ok THEN "held" ELSE "threw"]
  /\ UNCHANGED <<hints, notes, dialing, socket, onInbound, stale>>

StopTcpListening(k) ==
  /\ listens[k] = "held"
  /\ listens' = [listens EXCEPT ![k] = "stopped"]
  /\ onInbound' = FALSE
  /\ server' = NoServer
  /\ stale' = (stale \/ \E j \in DOMAIN listens \ {k} : listens[j] \in {"held", "waits"})
  /\ UNCHANGED <<hints, notes, dialing, socket>>

NextLan ==
  \/ \E e \in Endpoints : noteLanPeerHint(e)
  \/ HintsExpire \/ dialLanTcp \/ ensureListening
  \/ \E d \in DOMAIN dialing : \/ connectTcp(d) \/ ConnectRefused(d) \/ TcpConnects(d)
                               \/ DialerReady(d) \/ NextHint(d) \/ DialFails(d)
  \/ \E s \in DOMAIN socket :
       \/ DialerSendsAuth(s) \/ DialerCloses(s) \/ acceptConnection(s) \/ AcceptorReady(s)
       \/ AcceptorCloses(s) \/ CloseIsSeen(s)
       \/ \E n \in 1..Len(socket[s].wire) : DataArrives(s, n)
  \/ \E ok \in BOOLEAN : ServerListens(ok)
  \/ \E k \in DOMAIN listens : StopTcpListening(k)

\* The connect timer, the handshake timer and the close events come, the loop goes on.
FairLan ==
  /\ WF_lanVars(\E d \in DOMAIN dialing :
       connectTcp(d) \/ NextHint(d) \/ DialFails(d) \/ ConnectRefused(d))
  /\ WF_lanVars(\E s \in DOMAIN socket : CloseIsSeen(s) \/ acceptConnection(s)
       \/ ((\E d \in DOMAIN dialing : dialing[d].on = s /\ dialing[d].st = "dials") /\ DialerCloses(s)))

SpecLan == InitLan /\ [][NextLan]_lanVars
FairSpecLan == SpecLan /\ FairLan

-----------------------------------------------------------------------------
(* Properties. *)

\* Types of the state.
LanTypeOK ==
  /\ Len(hints) <= MaxEndpoints /\ \A i, k \in DOMAIN hints : hints[i] = hints[k] => i = k
  /\ \A d \in DOMAIN dialing : dialing[d].st \in {"next", "dials", "linked", "failed"}
  /\ \A s \in DOMAIN socket :
       /\ socket[s].dialer \in {"connecting", "open", "gone"}
       /\ socket[s].acceptor \in {"none", "queued", "accepted", "pipe", "gone"}
  /\ server.st \in {"none", "opening", "listening", "failed"}

\* However the stream is cut, what is delivered are the frames that were written, whole and
\* in order; a dial that went on to its next hint or failed has no socket open, and has
\* tried every hint when it fails; an accepted pipe has an owner unless a stop function ran;
\* and a listener that is not stopped takes what comes unless its server failed or somebody
\* else's stop function ended it (lan_tcp.mjs:54-116, 199-228, 250-348).
LanIsSound ==
  /\ \A s \in DOMAIN socket :
       /\ Len(socket[s].delivered) <= 3
       /\ \A i \in DOMAIN socket[s].delivered : socket[s].delivered[i] = Body(i)
       /\ socket[s].dialer # "gone" =>
            \E d \in DOMAIN dialing : dialing[d].on = s /\ dialing[d].st \in {"dials", "linked"}
       /\ socket[s].acceptor = "pipe" => socket[s].owned \/ \E k \in DOMAIN listens : listens[k] = "stopped"
  /\ \A d \in DOMAIN dialing : dialing[d].st = "failed" => dialing[d].left = <<>>
  /\ ~stale => \A k \in DOMAIN listens : listens[k] = "held" => onInbound /\ server # NoServer

\* Dials over any hints have ended with a link or an error.
LanDialsEnded == \A d \in DOMAIN dialing : dialing[d].st \in {"linked", "failed"}
=============================================================================
