------------------------------- MODULE BleGatt -------------------------------
(***************************************************************************)
(* Links over Bluetooth (link/providers/ble_gatt.mjs): a peripheral with   *)
(* one characteristic and at most one inbound session, and centrals that   *)
(* dial it.  Whoever is connected writes to the one characteristic, and    *)
(* what the peripheral notifies goes to all who subscribed, so that the    *)
(* pipes of both ends (link/pipe.mjs) see messages of others.  Signing is  *)
(* one step with what it answers; a dial's and a session's number are      *)
(* their nonces, and a dial's is its node's: that of the peripheral is 0.  *)
(***************************************************************************)
EXTENDS Naturals, Sequences

CONSTANTS
  GattDials,      \* calls of dialBleGatt, each of a node of its own
  MaxGattEvents   \* bound: sessions accepted, connections lost and stops, together

ASSUME GattAssumption ==
  GattDials \subseteq Nat \ {0} /\ MaxGattEvents \in Nat

VARIABLES
  central,       \* each dial: its pipe, and whether it is connected
  gattSession,   \* the pipes of the sessions that were accepted, and whose linkId they have
  activeInbound, sessionInbound, \* of the provider: a session, or 0 for null
  acceptInflight,
  takesInbound,  \* onInbound is set
  serving,       \* listening, and dataCharacteristic is set
  writes,        \* per dial the writes under way to the characteristic
  notifies,      \* per dial the notifications under way to it
  gattFaults,
  mixed        \* history: sessions and dials whose pipe got a message of another link

gattVars == <<central, gattSession, activeInbound, sessionInbound, acceptInflight, takesInbound,
              serving, writes, notifies, gattFaults, mixed>>

\* Of a hello, its nonce and its node.
NoHello == [by |-> 0, node |-> 0]

\* A pipe: the last hello it heard, an auth that came before one, whether an auth failed.
NewGattPipe(st) ==
  [st |-> st, heard |-> NoHello, authSent |-> FALSE, pendingAuth |-> <<>>, blamed |-> FALSE]
NewCentral == [pipe |-> NewGattPipe("new"), up |-> FALSE]

InitGatt ==
  /\ central = [d \in GattDials |-> NewCentral] /\ gattSession = <<>>
  /\ activeInbound = 0 /\ sessionInbound = 0 /\ acceptInflight = FALSE
  /\ takesInbound = TRUE /\ serving = TRUE
  /\ writes = [d \in GattDials |-> <<>>] /\ notifies = [d \in GattDials |-> <<>>]
  /\ gattFaults = 0 /\ mixed = [dials |-> {}, sessions |-> {}]

\* A message of an end of a link, which its dial names; an auth answers a hello (to).
Message(op, by, node, link, to) ==
  [op |-> op, by |-> by, node |-> node, link |-> link, to |-> to]

EventLeft == Len(gattSession) + gattFaults < MaxGattEvents

Pipes == {"opens", "shakes", "ready"}

ProviderUnchanged ==
  UNCHANGED <<gattSession, activeInbound, sessionInbound, acceptInflight, takesInbound, serving>>
DialsUnchanged == UNCHANGED <<central, gattFaults>>

-----------------------------------------------------------------------------
(* A pipe of either end: own is its nonce, link its binding. *)

\* Mutant of GattVerified: whatever link it is bound to.
GattVerifiedUnbound(pipe, own, link, auth) == auth.node = pipe.heard.node /\ auth.to = own
\* verifyAuth, with the last hello heard.
GattVerified(pipe, own, link, auth) == auth.node = pipe.heard.node /\ auth.to = own /\ auth.link = link

\* Mutant of AfterAuth: an auth is verified at once.
AfterAuthAtOnce(pipe, own, link, auth) ==
  IF GattVerified(pipe, own, link, auth) THEN [pipe EXCEPT !.st = "ready"]
  ELSE [pipe EXCEPT !.st = "closed", !.blamed = TRUE]

\* handleAuth
AfterAuth(pipe, own, link, auth) ==
  IF pipe.heard = NoHello THEN [pipe EXCEPT !.pendingAuth = <<auth>>]
  ELSE IF GattVerified(pipe, own, link, auth) THEN [pipe EXCEPT !.st = "ready"]
  ELSE [pipe EXCEPT !.st = "closed", !.blamed = TRUE]

\* A hello; the pipe's own auth goes out with the first.
AfterHello(pipe, own, link, hello) ==
  LET heard == [pipe EXCEPT !.heard = [by |-> hello.by, node |-> hello.node],
                            !.authSent = TRUE, !.pendingAuth = <<>>]
  IN IF pipe.pendingAuth = <<>> THEN heard ELSE AfterAuth(heard, own, link, pipe.pendingAuth[1])

\* handleControlMessage.  (link-open is none.)
After(pipe, own, link, m) ==
  CASE m.op = "hello" -> AfterHello(pipe, own, link, m)
    [] m.op = "auth" -> AfterAuth(pipe, own, link, m)
    [] OTHER -> pipe

Answers(pipe, own, node, link, m) ==
  IF m.op = "hello" /\ ~pipe.authSent THEN <<Message("auth", own, node, link, m.by)>> ELSE <<>>

-----------------------------------------------------------------------------
(* A dial, at the central. *)

\* The peripheral was found by its advert, connected and subscribed to; link-open is written.
dialBleGatt(d) ==
  /\ central[d].pipe.st = "new" /\ serving
  /\ central' = [central EXCEPT ![d] = [pipe |-> NewGattPipe("opens"), up |-> TRUE]]
  /\ writes' = [writes EXCEPT ![d] = <<Message("open", d, d, d, 0)>>]
  /\ UNCHANGED <<notifies, gattFaults, mixed>> /\ ProviderUnchanged

\* It is not found in time, or something on the way fails.
DialMisses(d) ==
  /\ central[d].pipe.st = "new"
  /\ central' = [central EXCEPT ![d].pipe.st = "closed"]
  /\ UNCHANGED <<writes, notifies, gattFaults, mixed>> /\ ProviderUnchanged

\* startHandshake, once the write of link-open was answered.
HelloGoes(d) ==
  /\ central[d].pipe.st = "opens" /\ central[d].up
  /\ \A i \in DOMAIN writes[d] : writes[d][i].op # "open"
  /\ central' = [central EXCEPT ![d].pipe.st = "shakes"]
  /\ writes' = [writes EXCEPT ![d] = Append(@, Message("hello", d, d, d, 0))]
  /\ UNCHANGED <<notifies, gattFaults, mixed>> /\ ProviderUnchanged

\* The pipe of the dial gets a notification; closed, it unsubscribes and disconnects.
NotifyComes(d) ==
  LET m == Head(notifies[d])
      pipe == central[d].pipe
      after == After(pipe, d, d, m)
      open == after.st # "closed"
  IN /\ notifies[d] # <<>>
     /\ central' = [central EXCEPT ![d] = [pipe |-> after, up |-> open]]
     /\ notifies' = [notifies EXCEPT ![d] = IF open THEN Tail(@) ELSE <<>>]
     /\ writes' = [writes EXCEPT ![d] = IF open THEN @ \o Answers(pipe, d, d, d, m) ELSE <<>>]
     /\ mixed' = IF m.link # d THEN [mixed EXCEPT !.dials = @ \cup {d}] ELSE mixed
     /\ UNCHANGED gattFaults /\ ProviderUnchanged

Disconnects(d) ==
  /\ central' = [central EXCEPT ![d].pipe.st = "closed", ![d].up = FALSE]
  /\ writes' = [writes EXCEPT ![d] = <<>>] /\ notifies' = [notifies EXCEPT ![d] = <<>>]
  /\ UNCHANGED <<gattFaults, mixed>> /\ ProviderUnchanged

\* The handshake's timer.  Sooner it is only the write of link-open that fails.
GattFails(d) == central[d].pipe.st = "shakes" \/ (central[d].pipe.st = "opens" /\ ~central[d].up)
DialEnds(d) == GattFails(d) /\ Disconnects(d)

\* close() of a link that dial returned; the peripheral does not notice.
DialCloses(d) == central[d].pipe.st = "ready" /\ Disconnects(d)

\* The connection breaks, which neither end listens for.
ConnectionLost(d) ==
  /\ EventLeft /\ central[d].up
  /\ gattFaults' = gattFaults + 1
  /\ central' = [central EXCEPT ![d].up = FALSE]
  /\ writes' = [writes EXCEPT ![d] = <<>>] /\ notifies' = [notifies EXCEPT ![d] = <<>>]
  /\ UNCHANGED mixed /\ ProviderUnchanged

-----------------------------------------------------------------------------
(* The peripheral. *)

Notified(ms) ==
  [d \in GattDials |-> IF serving /\ central[d].up THEN notifies[d] \o ms ELSE notifies[d]]

\* Mutant of Released: the accept stays under way.
ReleasedLinkOnly == activeInbound' = 0 /\ sessionInbound' = 0 /\ UNCHANGED acceptInflight
\* closeTransport of a session.
Released == activeInbound' = 0 /\ sessionInbound' = 0 /\ acceptInflight' = FALSE

\* acceptPeripheralWrite: a pipe that takes all writes from now on, and its hello.
acceptPeripheralWrite(m) ==
  LET s == Len(gattSession) + 1
  IN IF /\ m.op = "open" /\ activeInbound = 0 /\ ~acceptInflight /\ takesInbound
        /\ EventLeft
     THEN /\ gattSession' = Append(gattSession, [pipe |-> NewGattPipe("shakes"), link |-> m.link])
          /\ activeInbound' = s /\ sessionInbound' = s /\ acceptInflight' = TRUE
          /\ notifies' = Notified(<<Message("hello", s, 0, m.link, 0)>>)
          /\ UNCHANGED mixed
     ELSE UNCHANGED <<gattSession, activeInbound, sessionInbound, acceptInflight, notifies, mixed>>

\* The pipe of the session gets a write, whoever's.
SessionGets(s, m) ==
  LET session == gattSession[s]
      after == After(session.pipe, s, session.link, m)
  IN /\ gattSession' = [gattSession EXCEPT ![s].pipe = after]
     /\ notifies' = Notified(Answers(session.pipe, s, 0, session.link, m))
     /\ mixed' = IF m.link # session.link THEN [mixed EXCEPT !.sessions = @ \cup {s}] ELSE mixed
     /\ IF after.st = "closed" THEN Released
        ELSE UNCHANGED <<activeInbound, sessionInbound, acceptInflight>>

\* onWriteRequest
WriteComes(d) ==
  /\ writes[d] # <<>>
  /\ writes' = [writes EXCEPT ![d] = Tail(@)]
  /\ IF sessionInbound # 0 THEN SessionGets(sessionInbound, Head(writes[d]))
     ELSE acceptPeripheralWrite(Head(writes[d]))
  /\ UNCHANGED <<takesInbound, serving>> /\ DialsUnchanged

SessionOpen(s) == s \in DOMAIN gattSession /\ gattSession[s].pipe.st # "closed"

\* The handshake's timer, the idle timer, or the registry that closes it.
SessionEnds(s) ==
  /\ SessionOpen(s)
  /\ gattSession' = [gattSession EXCEPT ![s].pipe.st = "closed"]
  /\ Released
  /\ UNCHANGED <<takesInbound, serving, writes, notifies, mixed>> /\ DialsUnchanged

ListenUnchanged ==
  UNCHANGED <<gattSession, activeInbound, sessionInbound, acceptInflight, mixed>>

\* The stop function.  The session goes on, without a characteristic to notify by.
StopGatt ==
  /\ takesInbound /\ serving /\ EventLeft
  /\ takesInbound' = FALSE /\ serving' = FALSE /\ gattFaults' = gattFaults + 1
  /\ UNCHANGED <<central, writes, notifies>> /\ ListenUnchanged

ListenAgain ==
  /\ ~takesInbound
  /\ takesInbound' = TRUE
  /\ UNCHANGED <<central, serving, writes, notifies, gattFaults>> /\ ListenUnchanged

\* ensurePeripheral has set the services anew: connections to the old ones are of no use.
PeripheralServes ==
  /\ takesInbound /\ ~serving
  /\ serving' = TRUE
  /\ central' = [d \in GattDials |-> [central[d] EXCEPT !.up = FALSE]]
  /\ writes' = [d \in GattDials |-> <<>>] /\ notifies' = [d \in GattDials |-> <<>>]
  /\ UNCHANGED <<takesInbound, gattFaults>> /\ ListenUnchanged

NextGatt ==
  \/ \E d \in GattDials :
       \/ dialBleGatt(d) \/ DialMisses(d) \/ HelloGoes(d) \/ NotifyComes(d)
       \/ DialEnds(d) \/ DialCloses(d) \/ ConnectionLost(d) \/ WriteComes(d)
  \/ \E s \in DOMAIN gattSession : SessionEnds(s)
  \/ StopGatt \/ ListenAgain \/ PeripheralServes

\* Pipes have their timers: of the handshake, and for one that hears nothing.  (A session hears
\* whoever is connected.)
FairGatt ==
  /\ WF_gattVars(\E d \in GattDials : DialEnds(d) \/ HelloGoes(d) \/ WriteComes(d))
  /\ WF_gattVars(\E s \in DOMAIN gattSession :
       (gattSession[s].pipe.st = "shakes" \/ \A d \in GattDials : ~central[d].up) /\ SessionEnds(s))

SpecGatt == InitGatt /\ [][NextGatt]_gattVars /\ FairGatt

-----------------------------------------------------------------------------
(* Properties. *)

\* Types of the state.
GattTypeOK ==
  /\ \A d \in GattDials : central[d].pipe.st \in Pipes \cup {"new", "closed"}
  /\ \A s \in DOMAIN gattSession : gattSession[s].pipe.st \in {"shakes", "ready", "closed"}
  /\ {activeInbound, sessionInbound} \subseteq 0..Len(gattSession)

\* The characteristic belongs to the one session that is open, and is free once it has ended,
\* whichever end, timer or stray message ended it (ble_gatt.mjs:198-263).
OneSession ==
  /\ \A s \in DOMAIN gattSession : SessionOpen(s) <=> activeInbound = s
  /\ sessionInbound = activeInbound /\ (acceptInflight <=> activeInbound # 0)

\* Whatever an end heard of others, its link is ready only after the other end of that very
\* link agreed to it: the dial's link was accepted, and the dial sent its auth to the session
\* (ble_gatt.mjs:123-152, 223-263, pipe.mjs:190-238).
OwnLink ==
  /\ \A d \in GattDials : central[d].pipe.st = "ready" =>
       \E s \in DOMAIN gattSession : gattSession[s].link = d /\ gattSession[s].pipe.authSent
  /\ \A s \in DOMAIN gattSession : gattSession[s].pipe.st = "ready" =>
       central[gattSession[s].link].pipe.authSent

\* An auth fails only where a message of another link came between, at one of the two ends:
\* then it may end a link that was ready, too (pipe.mjs:190-238).
OnlyCrossedFail ==
  /\ \A d \in GattDials : central[d].pipe.blamed =>
       d \in mixed.dials \/ central[d].pipe.heard.by \in mixed.sessions
  /\ \A s \in DOMAIN gattSession : gattSession[s].pipe.blamed =>
       s \in mixed.sessions \/ gattSession[s].link \in mixed.dials

\* Centrals share the one characteristic of a peripheral (ble_gatt.mjs).
GattIsSound == OneSession /\ OwnLink /\ OnlyCrossedFail

\* No dial and no handshake is left under way, nor a session when nobody is connected.
GattDialsEnd ==
  /\ \A d \in GattDials : central[d].pipe.st \notin {"opens", "shakes"}
  /\ \A s \in DOMAIN gattSession : SessionOpen(s) =>
       gattSession[s].pipe.st = "ready" /\ \E d \in GattDials : central[d].up
=============================================================================
