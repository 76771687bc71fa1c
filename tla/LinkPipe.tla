------------------------------- MODULE LinkPipe -------------------------------
(***************************************************************************)
(* The two ends of one link (link/pipe.mjs) over the relay provider        *)
(* (link/providers/nostr): the packet that opens it, the hello and auth of *)
(* both ends, a user's send, timers and close.  Relays lose, duplicate and *)
(* reorder packets, so what is under way to an end is a set.  Over TCP the *)
(* same pipe runs with packets in order: fewer behaviours.                 *)
(*                                                                         *)
(* A nonce is the number of the pipe that drew it: the dialler's pipe is   *)
(* 1, and every pipe the acceptor opens for the link has a later number.   *)
(***************************************************************************)
EXTENDS Integers, Sequences

CONSTANTS
  Dialer, Acceptor,  \* the two ends
  PendingMax,        \* packets kept for a link that is not open yet (PENDING_PACKETS_MAX)
  MaxPipes,          \* bound: the last number of a pipe
  MaxFaults          \* bound: packets lost or duplicated, writes that fail, closes from outside

ASSUME PipeEndsAssumption == Dialer # Acceptor
ASSUME PipeBoundsAssumption ==
  PendingMax \in Nat \ {0} /\ MaxPipes \in Nat \ {0, 1} /\ MaxFaults \in Nat

VARIABLES
  pipe,     \* each end's pipe
  wire,     \* the packets under way to each end
  opening,  \* the acceptor awaits refreshPayloadCap before it opens its pipe
  pending,  \* the packets the acceptor keeps until then (pendingByLinkId)
  signed,   \* history: the nonces each end has signed
  faults    \* what has gone wrong so far

pipeVars == <<pipe, wire, opening, pending, signed, faults>>

Ends == {Dialer, Acceptor}
Other(e) == IF e = Dialer THEN Acceptor ELSE Dialer

Packet(op, n) == [op |-> op, nonce |-> n]
Packets ==
  [op : {"hello", "auth"}, nonce : 1..MaxPipes] \cup [op : {"open", "close", "data"}, nonce : {0}]

\* nonce is localHello, heard remoteHello; verifying holds the outcomes of the signature
\* checks awaited; promise is what `ready` resolves to, held whether anybody has the handle
\* and sending one user's send.
NewPipe(n) ==
  [st |-> "open", id |-> n, nonce |-> 0, heard |-> 0, authSent |-> FALSE, signing |-> 0,
   pendingAuth |-> 0, verifying |-> {}, verified |-> FALSE, ready |-> FALSE,
   promise |-> "pending", timers |-> {}, held |-> TRUE, sending |-> "no"]

NoPipe == [NewPipe(0) EXCEPT !.st = "none"]

PipeRecord ==
  [st : {"none", "open", "closing", "down"}, id : 0..MaxPipes, nonce : 0..MaxPipes,
   heard : 0..MaxPipes, authSent : BOOLEAN, signing : 0..MaxPipes,
   pendingAuth : 0..MaxPipes, verifying : SUBSET BOOLEAN, verified : BOOLEAN,
   ready : BOOLEAN, promise : {"pending", "resolved", "rejected"},
   timers : SUBSET {"handshake", "run"}, held : BOOLEAN,
   sending : {"no", "waits", "sent", "refused"}]

InitPipe ==
  /\ pipe = [e \in Ends |-> NoPipe]
  /\ wire = [e \in Ends |-> {}]
  /\ opening = FALSE
  /\ pending = <<>>
  /\ signed = [e \in Ends |-> {}]
  /\ faults = 0

-----------------------------------------------------------------------------
(* What a packet does to the pipe it reaches, up to the first await. *)

\* close() without its closeTransport.
Closing(rec) ==
  IF rec.st = "open" THEN [rec EXCEPT !.st = "closing", !.timers = {}] ELSE rec

\* Mutant of verifyAuth: the nonce is taken from the hello of the end that signs.
verifyAuthOwnNonce(rec, n) == rec.nonce # 0

\* The signature covers the nonce this end sent in its own hello.
verifyAuth(rec, n) == rec.nonce # 0 /\ n = rec.nonce

\* Mutant of handleAuth: an auth that comes before the hello is dropped.
handleAuthDropsEarly(rec, n) ==
  IF rec.heard = 0
  THEN rec
  ELSE [rec EXCEPT !.verifying = @ \cup {verifyAuth(rec, n)}]

handleAuth(rec, n) ==
  IF rec.heard = 0
  THEN [rec EXCEPT !.pendingAuth = n]
  ELSE [rec EXCEPT !.verifying = @ \cup {verifyAuth(rec, n)}]

TakePendingAuth(rec) ==
  IF rec.pendingAuth = 0
  THEN rec
  ELSE handleAuth([rec EXCEPT !.pendingAuth = 0], rec.pendingAuth)

\* maybeSendAuth has its own await: an auth kept back is looked at after that.
handleHello(rec, n) ==
  IF rec.authSent
  THEN TakePendingAuth([rec EXCEPT !.heard = n])
  ELSE [rec EXCEPT !.heard = n, !.authSent = TRUE, !.signing = n]

applySessionPacket(rec, m) ==
  CASE m.op = "hello" -> handleHello(rec, m.nonce)
    [] m.op = "auth"  -> handleAuth(rec, m.nonce)
    [] m.op = "close" -> Closing(rec)
    [] OTHER          -> rec

\* Mutant of bufferPending: one packet too many is kept.
bufferPendingOffByOne(m) ==
  pending' = Append(IF Len(pending) > PendingMax THEN Tail(pending) ELSE pending, m)

bufferPending(m) ==
  pending' = Append(IF Len(pending) >= PendingMax THEN Tail(pending) ELSE pending, m)

\* Mutant of Started: the handshake has no deadline.
StartedUntimed(rec) == [rec EXCEPT !.nonce = rec.id]

\* The handshake timer is armed and the hello is on its way: startHandshake.
Started(rec) == [rec EXCEPT !.nonce = rec.id, !.timers = {"handshake"}]

-----------------------------------------------------------------------------
(* The provider: dial, and an open packet at the other end. *)

Dial ==
  /\ pipe[Dialer].st = "none"
  /\ pipe' = [pipe EXCEPT ![Dialer] = NewPipe(1)]
  /\ wire' = [wire EXCEPT ![Acceptor] = @ \cup {Packet("open", 0)}]
  /\ UNCHANGED <<opening, pending, signed, faults>>

\* The write of the open packet has settled.
StartHandshake ==
  /\ pipe[Dialer].st = "open"
  /\ pipe[Dialer].nonce = 0
  /\ pipe[Dialer].held
  /\ pipe' = [pipe EXCEPT ![Dialer] = Started(@)]
  /\ wire' = [wire EXCEPT ![Acceptor] = @ \cup {Packet("hello", 1)}]
  /\ UNCHANGED <<opening, pending, signed, faults>>

\* The write of the open packet fails: dial() throws and leaves its pipe in sessions
\* with no timer to end it.  Nobody holds the handle.
DialThrows ==
  /\ faults < MaxFaults
  /\ pipe[Dialer].st = "open"
  /\ pipe[Dialer].nonce = 0
  /\ pipe[Dialer].held
  /\ pipe' = [pipe EXCEPT ![Dialer].held = FALSE]
  /\ faults' = faults + 1
  /\ UNCHANGED <<wire, opening, pending, signed>>

NextNumber == pipe[Acceptor].id + (IF pipe[Acceptor].id = 0 THEN 2 ELSE 1)

\* deliverPacket of an open packet: nothing to do while the session is there.  One that
\* comes again after that opens another pipe (bound: once the last one is down, and up to
\* the number MaxPipes).
OpenArrives ==
  /\ Packet("open", 0) \in wire[Acceptor]
  /\ wire' = [wire EXCEPT ![Acceptor] = @ \ {Packet("open", 0)}]
  /\ opening' = (opening \/ (pipe[Acceptor].st \in {"none", "down"} /\ NextNumber <= MaxPipes))
  /\ UNCHANGED <<pipe, pending, signed, faults>>

\* A pipe that has taken packets one after the other.
Taken(rec, packets) ==
  LET after[i \in 0..Len(packets)] ==
        IF i = 0 THEN rec ELSE applySessionPacket(after[i - 1], packets[i])
  IN after[Len(packets)]

\* refreshPayloadCap has returned: the pipe starts its handshake and takes the packets
\* kept for it.
OpenPipe ==
  /\ opening
  /\ opening' = FALSE
  /\ pending' = <<>>
  /\ pipe' = [pipe EXCEPT
       ![Acceptor] = Taken(Started(NewPipe(NextNumber)), pending)]
  /\ wire' = [wire EXCEPT ![Dialer] = @ \cup {Packet("hello", NextNumber)}]
  /\ UNCHANGED <<signed, faults>>

\* A packet for a link that is not in sessions is kept for the pipe that may be opened;
\* the dialler never opens one under the same id, so what it keeps is not modelled.
Deliver(e, m) ==
  /\ m \in wire[e]
  /\ m.op # "open"
  /\ wire' = [wire EXCEPT ![e] = @ \ {m}]
  /\ \/ /\ pipe[e].st = "open"
        /\ pipe' = [pipe EXCEPT ![e] = applySessionPacket(@, m)]
        /\ UNCHANGED pending
     \/ /\ pipe[e].st # "open"
        /\ e = Acceptor
        /\ bufferPending(m)
        /\ UNCHANGED pipe
     \/ /\ pipe[e].st # "open"
        /\ e = Dialer
        /\ UNCHANGED <<pipe, pending>>
  /\ UNCHANGED <<opening, signed, faults>>

-----------------------------------------------------------------------------
(* The continuations of a pipe's awaits. *)

\* The auth is signed and written; the auth kept back comes next.
AuthSent(e) ==
  LET n == pipe[e].signing IN
  /\ n # 0
  /\ signed' = [signed EXCEPT ![e] = @ \cup {n}]
  /\ wire' = [wire EXCEPT ![Other(e)] = @ \cup {Packet("auth", n)}]
  /\ pipe' = [pipe EXCEPT ![e] = TakePendingAuth([@ EXCEPT !.signing = 0])]
  /\ UNCHANGED <<opening, pending, faults>>

\* The write fails: authSent stays and the auth kept back is not looked at again.
AuthSendFails(e) ==
  /\ faults < MaxFaults
  /\ pipe[e].signing # 0
  /\ pipe' = [pipe EXCEPT ![e].signing = 0]
  /\ faults' = faults + 1
  /\ UNCHANGED <<wire, opening, pending, signed>>

\* maybeFinishHandshake does not look whether close() has begun.
Finished(rec) ==
  IF rec.ready
  THEN [rec EXCEPT !.verified = TRUE]
  ELSE [rec EXCEPT !.verified = TRUE, !.ready = TRUE, !.timers = {"run"},
                   !.promise = IF @ = "pending" THEN "resolved" ELSE @]

AuthChecked(e, ok) ==
  /\ ok \in pipe[e].verifying
  /\ LET rec == [pipe[e] EXCEPT !.verifying = @ \ {ok}] IN
     pipe' = [pipe EXCEPT ![e] = IF ok THEN Finished(rec) ELSE Closing(rec)]
  /\ UNCHANGED <<wire, opening, pending, signed, faults>>

\* closeTransport has told the other end: `ready` is rejected unless it was reached.
CloseDone(e) ==
  /\ pipe[e].st = "closing"
  /\ wire' = [wire EXCEPT ![Other(e)] = @ \cup {Packet("close", 0)}]
  /\ pipe' = [pipe EXCEPT
       ![e] = [pipe[e] EXCEPT !.st = "down",
                              !.promise = IF pipe[e].ready THEN @ ELSE "rejected"]]
  /\ UNCHANGED <<opening, pending, signed, faults>>

\* A user calls send(); it awaits `ready`.
Send(e) ==
  /\ pipe[e].st # "none"
  /\ pipe[e].nonce # 0
  /\ pipe[e].sending = "no"
  /\ pipe' = [pipe EXCEPT ![e].sending = "waits"]
  /\ UNCHANGED <<wire, opening, pending, signed, faults>>

\* Mutant of SendSettles: a send() that awaits `ready` misses the close.
SendSettlesIfReady(e) ==
  /\ pipe[e].sending = "waits"
  /\ pipe[e].promise = "resolved"
  /\ pipe[e].st = "open"
  /\ pipe' = [pipe EXCEPT ![e].sending = "sent"]
  /\ wire' = [wire EXCEPT ![Other(e)] = @ \cup {Packet("data", 0)}]
  /\ UNCHANGED <<opening, pending, signed, faults>>

SendSettles(e) ==
  /\ pipe[e].sending = "waits"
  /\ pipe[e].promise # "pending"
  /\ \/ /\ pipe[e].promise = "resolved"
        /\ pipe[e].st = "open"
        /\ pipe' = [pipe EXCEPT ![e].sending = "sent"]
        /\ wire' = [wire EXCEPT ![Other(e)] = @ \cup {Packet("data", 0)}]
     \/ /\ pipe[e].promise = "rejected" \/ pipe[e].st # "open"
        /\ pipe' = [pipe EXCEPT ![e].sending = "refused"]
        /\ UNCHANGED wire
  /\ UNCHANGED <<opening, pending, signed, faults>>

-----------------------------------------------------------------------------
(* Timers and the world outside. *)

\* Nothing that concerns the link is still under way: packets and writes take far less
\* time than the timers below.
Quiet ==
  /\ \A e \in Ends :
       /\ wire[e] = {}
       /\ pipe[e].signing = 0
       /\ pipe[e].verifying = {}
       /\ pipe[e].st # "closing"
  /\ ~opening
  /\ pipe[Dialer].st = "open" => pipe[Dialer].nonce # 0 \/ ~pipe[Dialer].held

HandshakeTimeout(e) ==
  /\ "handshake" \in pipe[e].timers
  /\ Quiet
  /\ pipe' = [pipe EXCEPT ![e] = Closing(@)]
  /\ UNCHANGED <<wire, opening, pending, signed, faults>>

\* Mutant of IdleTimeout: the timer only runs until the handshake is over.
IdleTimeoutBeforeReady(e) ==
  /\ "run" \in pipe[e].timers
  /\ Quiet
  /\ ~pipe[e].ready
  /\ ~(pipe[Other(e)].st = "open" /\ pipe[Other(e)].ready)
  /\ pipe' = [pipe EXCEPT ![e] = Closing(@)]
  /\ UNCHANGED <<wire, opening, pending, signed, faults>>

\* No ping comes from an end that is not ready or no longer open.
IdleTimeout(e) ==
  /\ "run" \in pipe[e].timers
  /\ Quiet
  /\ ~(pipe[Other(e)].st = "open" /\ pipe[Other(e)].ready)
  /\ pipe' = [pipe EXCEPT ![e] = Closing(@)]
  /\ UNCHANGED <<wire, opening, pending, signed, faults>>

\* The registry, a user or the provider's stop function closes the link.
CloseLink(e) ==
  /\ faults < MaxFaults
  /\ pipe[e].st = "open"
  /\ pipe[e].nonce # 0
  /\ pipe' = [pipe EXCEPT ![e] = Closing(@)]
  /\ faults' = faults + 1
  /\ UNCHANGED <<wire, opening, pending, signed>>

Lose(e, m) ==
  /\ faults < MaxFaults
  /\ m \in wire[e]
  /\ wire' = [wire EXCEPT ![e] = @ \ {m}]
  /\ faults' = faults + 1
  /\ UNCHANGED <<pipe, opening, pending, signed>>

\* Another relay delivers a packet again.
Redeliver(e, n, m) ==
  /\ faults < MaxFaults
  /\ \/ m = Packet("open", 0) /\ e = Acceptor /\ pipe[Dialer].st # "none"
     \/ m = Packet("hello", n) /\ pipe[Other(e)].nonce = n
     \/ m = Packet("auth", n) /\ n \in signed[Other(e)]
  /\ n # 0
  /\ wire' = [wire EXCEPT ![e] = @ \cup {m}]
  /\ faults' = faults + 1
  /\ UNCHANGED <<pipe, opening, pending, signed>>

PipeContinues(e) ==
  \/ AuthSent(e)
  \/ \E ok \in BOOLEAN : AuthChecked(e, ok)
  \/ CloseDone(e)
  \/ SendSettles(e)

NextPipe ==
  \/ Dial \/ StartHandshake \/ DialThrows
  \/ OpenArrives \/ OpenPipe
  \/ \E e \in Ends :
       \/ \E m \in Packets : Deliver(e, m) \/ Lose(e, m)
       \/ \E m \in Packets, n \in 1..MaxPipes : Redeliver(e, n, m)
       \/ PipeContinues(e)
       \/ AuthSendFails(e)
       \/ Send(e)
       \/ HandshakeTimeout(e) \/ IdleTimeout(e)
       \/ CloseLink(e)

SpecPipe == InitPipe /\ [][NextPipe]_pipeVars

\* Writes settle, packets that are not lost arrive, awaited checks return and timers fire:
\* as long as any of these can happen one does.
FairnessPipe ==
  /\ WF_pipeVars(StartHandshake \/ OpenArrives \/ OpenPipe)
  /\ WF_pipeVars(\E e \in Ends : PipeContinues(e) \/ \E m \in Packets : Deliver(e, m))
  /\ WF_pipeVars(\E e \in Ends : HandshakeTimeout(e) \/ IdleTimeout(e))

FairSpecPipe == SpecPipe /\ FairnessPipe

-----------------------------------------------------------------------------
(* Correctness. *)

\* Every variable has its shape.
PipeTypeOK ==
  /\ pipe \in [Ends -> PipeRecord]
  /\ wire \in [Ends -> SUBSET Packets]
  /\ opening \in BOOLEAN
  /\ pending \in Seq(Packets)
  /\ Len(pending) <= PendingMax
  /\ signed \in [Ends -> SUBSET (1..MaxPipes)]
  /\ faults \in 0..MaxFaults

\* In whatever order and however often hello and auth arrive, an end is ready only when
\* the other has signed the nonce of this end's own pipe, never on an auth signed for an
\* earlier pipe of the same link.
ReadyIsAuthenticated ==
  \A e \in Ends : pipe[e].ready => pipe[e].nonce # 0 /\ pipe[e].nonce \in signed[Other(e)]

\* Without losses, failing writes and closes from outside no reordering of open, hello
\* and auth makes a handshake time out or an auth fail: an auth that comes early is kept.
ReorderingIsHarmless ==
  faults = 0 => \A e \in Ends : pipe[e].st \in {"none", "open"}

\* A handshake has begun and is not decided.
Shaking(e) == pipe[e].st = "open" /\ pipe[e].nonce # 0 /\ ~pipe[e].ready

\* One end is ready and the other has gone.
HalfOpen(e) == pipe[e].ready /\ pipe[e].st = "open" /\ pipe[Other(e)].st = "down"

\* What is begun on a pipe ends, whatever packets are lost: an end whose handshake has begun
\* becomes ready or closes, one end of a link notices that the other has gone although the
\* packet that says so can be lost, and send() settles, also when the pipe closes before it
\* is ever ready (pipe.mjs:170-190, 248-275, 368-375).
PipeSettles ==
  []<>(\A e \in Ends : ~Shaking(e) /\ ~HalfOpen(e) /\ pipe[e].sending # "waits")

=============================================================================
