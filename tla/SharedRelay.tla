----------------------------- MODULE SharedRelay -----------------------------
(***************************************************************************)
(* The shared WebSocket session of one nostr relay                         *)
(* (discovery/nostr/session.mjs): subscriptions and publishes of all       *)
(* callers use one socket, which is opened when there is work, opened      *)
(* again when it closes, and dropped when there is none.                   *)
(*                                                                         *)
(* The module keeps one session object per relay in sharedRelaySessions;   *)
(* an object that was deleted from there may still be connecting.  Timers  *)
(* and socket events wait for the microtasks queued before them.           *)
(***************************************************************************)
EXTENDS Naturals, FiniteSets

CONSTANTS
  Subs,         \* subscriptions
  Requests,     \* publishes
  MaxSessions,  \* bound: session objects made
  MaxFlaps,     \* bound: sockets that close and connections that fail, while the relay lives
  MayDie        \* the relay may become unreachable for good

ASSUME RelayBoundsAssumption ==
  MaxSessions \in Nat \ {0} /\ MaxFlaps \in Nat /\ MayDie \in BOOLEAN

VARIABLES
  session,     \* the session objects
  current,     \* the one in sharedRelaySessions, or 0
  request,     \* the publishes: where they are and whether a queue deadline is set
  subscribed,  \* the subscriptions their callers have and have not stopped
  flaps,       \* failures so far
  dead,        \* the relay is unreachable for good
  displaced    \* history: an object in the map was deleted on behalf of an older one

relayVars == <<session, current, request, subscribed, flaps, dead, displaced>>

Sessions == 1..MaxSessions

\* sock is session.ws; microtask and timer are the two ways start() is scheduled; heard is
\* what the relay was asked for (REQ) on this socket.
NewSession ==
  [microtask |-> FALSE, timer |-> FALSE, connecting |-> FALSE, idle |-> FALSE,
   sock |-> "none", subs |-> {}, heard |-> {}]

NewRequest == [st |-> "new", in |-> 0, deadline |-> FALSE]

InitRelay ==
  /\ session = [s \in {} |-> NewSession]
  /\ current = 0
  /\ request = [r \in Requests |-> NewRequest]
  /\ subscribed = {}
  /\ flaps = 0
  /\ dead = FALSE
  /\ displaced = FALSE

Queue(rq, st, s) == {r \in Requests : rq[r].st = st /\ rq[r].in = s}

\* The state of session s as se and of the requests as rq: is there work?
hasPendingWork(se, rq, s) ==
  se.subs # {} \/ Queue(rq, "pending", s) \cup Queue(rq, "inflight", s) # {}

\* No microtask is queued: a timer or an event of the network may come.
NoMicrotask == \A s \in DOMAIN session : ~session[s].microtask

\* sharedRelaySessions.delete(relayUrl), by session s.
Forget(s) ==
  /\ current' = 0
  /\ displaced' = (displaced \/ current \notin {0, s})

KeepCurrent == UNCHANGED <<current, displaced>>

\* Mutant of Drop: the socket is forgotten, not closed.
DropTimers(se) == [se EXCEPT !.timer = FALSE]

\* Socket, reconnect and idle timers of a session that goes.
Drop(se) ==
  [se EXCEPT !.timer = FALSE, !.sock = IF @ = "none" THEN @ ELSE "dropped"]

\* Mutant of ConnectLater: a connection that failed is not tried again.
ConnectNever(se) == se

\* scheduleSharedRelayConnect without delay, and with NOSTR_RECONNECT_DELAY_MS.
ConnectSoon(se) ==
  IF se.connecting \/ se.sock # "none" THEN se ELSE [se EXCEPT !.timer = FALSE, !.microtask = TRUE]
ConnectLater(se) ==
  IF se.connecting \/ se.sock # "none" THEN se ELSE [se EXCEPT !.timer = TRUE]

\* scheduleIdleDrop
IdleSoon(se) == IF se.subs = {} THEN [se EXCEPT !.idle = TRUE] ELSE se

\* flushPendingPublishes: what was queued is sent, and its deadline cleared.
Flushed(rq, s) ==
  [r \in Requests |-> IF r \in Queue(rq, "pending", s)
                      THEN [rq[r] EXCEPT !.st = "inflight", !.deadline = FALSE] ELSE rq[r]]

\* acquireSharedRelay: the current object, or a new one whose connection is scheduled.
AcquiredId == IF current = 0 THEN Cardinality(DOMAIN session) + 1 ELSE current
Acquired == IF current = 0 THEN ConnectSoon(NewSession) ELSE session[current]

SetSession(s, se) == session' = [t \in DOMAIN session \cup {s} |-> IF t = s THEN se ELSE session[t]]

-----------------------------------------------------------------------------
(* The callers. *)

\* subscribeNostrKind, registerSharedRelaySub
Subscribe(u) ==
  /\ u \notin subscribed
  /\ subscribed' = subscribed \cup {u}
  /\ AcquiredId \in Sessions
  /\ current' = AcquiredId
  /\ SetSession(AcquiredId, [Acquired EXCEPT !.subs = @ \cup {u}, !.idle = FALSE,
                             !.heard = IF Acquired.sock = "open" THEN @ \cup {u} ELSE @])
  /\ UNCHANGED <<request, flaps, dead, displaced>>

\* releaseSharedRelaySub: of the current object, which may not be the one subscribed at.
Unsubscribe(u) ==
  /\ u \in subscribed
  /\ subscribed' = subscribed \ {u}
  /\ IF current = 0
     THEN UNCHANGED session /\ KeepCurrent
     ELSE LET se == [session[current] EXCEPT !.subs = @ \ {u}, !.heard = @ \ {u}]
          IN IF hasPendingWork(se, request, current)
             THEN SetSession(current, se) /\ KeepCurrent
             ELSE SetSession(current, [Drop(se) EXCEPT !.idle = FALSE]) /\ Forget(current)
  /\ UNCHANGED <<request, flaps, dead>>

\* publishViaSharedRelay
Publish(r) ==
  /\ request[r].st = "new"
  /\ AcquiredId \in Sessions
  /\ current' = AcquiredId
  /\ LET rq == [request EXCEPT ![r] = [st |-> "pending", in |-> AcquiredId, deadline |-> TRUE]]
         se == [Acquired EXCEPT !.idle = FALSE]
     IN IF se.sock = "open"
        THEN SetSession(AcquiredId, se) /\ request' = Flushed(rq, AcquiredId)
        ELSE SetSession(AcquiredId, ConnectSoon(se)) /\ request' = rq
  /\ UNCHANGED <<subscribed, flaps, dead, displaced>>

\* dequeueQueuedPublish, then reject: a session without work left goes at once.
Dequeue(r) ==
  LET s == request[r].in
      rq == [request EXCEPT ![r] = [st |-> "failed", in |-> s, deadline |-> FALSE]]
  IN /\ request' = rq
     /\ IF hasPendingWork(session[s], rq, s)
        THEN UNCHANGED session /\ KeepCurrent
        ELSE SetSession(s, Drop(session[s])) /\ Forget(s)
     /\ UNCHANGED <<subscribed, flaps, dead>>

\* settleInflightPublish: the answer, its timeout, a send that throws or an abort.
Settle(r, st) ==
  LET s == request[r].in
      rq == [request EXCEPT ![r].st = st]
  IN /\ request' = rq
     /\ SetSession(s, IF hasPendingWork(session[s], rq, s) THEN session[s] ELSE IdleSoon(session[s]))
     /\ UNCHANGED <<current, subscribed, flaps, dead, displaced>>

\* The caller's signal aborts the publish, wherever it is.
Abort(r) ==
  \/ request[r].st = "pending" /\ Dequeue(r)
  \/ request[r].st = "inflight" /\ Settle(r, "failed")

-----------------------------------------------------------------------------
(* Timers and the relay. *)

\* start(), from the microtask or the timer (scheduleSharedRelayConnect).
ConnectStarts(s) ==
  LET se == [session[s] EXCEPT !.microtask = FALSE, !.timer = FALSE]
  IN /\ session[s].microtask \/ (session[s].timer /\ NoMicrotask)
     /\ IF current # s \/ se.connecting \/ se.sock # "none"
        THEN SetSession(s, se) /\ KeepCurrent
        ELSE IF hasPendingWork(se, request, s)
             THEN SetSession(s, [se EXCEPT !.connecting = TRUE]) /\ KeepCurrent
             ELSE SetSession(s, se) /\ Forget(s)
     /\ UNCHANGED <<request, subscribed, flaps, dead>>

\* attachSharedRelaySocket: every subscription is asked for again, what waits is sent.
SocketAttached(se) == [se EXCEPT !.sock = "open", !.heard = se.subs]

\* connectRelay has resolved.
Connected(s) ==
  LET se == [session[s] EXCEPT !.connecting = FALSE]
  IN /\ se # session[s]
     /\ NoMicrotask
     /\ ~dead
     /\ IF current # s \/ ~hasPendingWork(se, request, s)
        THEN /\ SetSession(s, se)
             /\ Forget(s)
             /\ UNCHANGED request
        ELSE /\ LET rq == Flushed(request, s)
                IN /\ request' = rq
                   /\ SetSession(s, IF hasPendingWork(se, rq, s) THEN SocketAttached(se) ELSE IdleSoon(SocketAttached(se)))
             /\ KeepCurrent
     /\ UNCHANGED <<subscribed, flaps, dead>>

\* Failures are bounded while the relay lives, and free when it is dead.
Fails == (flaps < MaxFlaps \/ dead) /\ flaps' = IF dead THEN flaps ELSE flaps + 1

\* connectRelay has rejected, or timed out.
ConnectFails(s) ==
  LET se == [session[s] EXCEPT !.connecting = FALSE]
  IN /\ se # session[s]
     /\ NoMicrotask
     /\ Fails
     /\ IF current # s
        THEN SetSession(s, se) /\ KeepCurrent
        ELSE IF hasPendingWork(se, request, s)
             THEN SetSession(s, ConnectLater(se)) /\ KeepCurrent
             ELSE SetSession(s, se) /\ Forget(s)
     /\ UNCHANGED <<request, subscribed, dead>>

\* The socket is closing: its readyState changes before its close event.
SocketCloses(s) ==
  /\ NoMicrotask
  /\ session[s].sock = "open"
  /\ Fails
  /\ SetSession(s, [session[s] EXCEPT !.sock = "closing"])
  /\ UNCHANGED <<current, request, subscribed, dead, displaced>>

\* What was not answered is queued again, without a deadline (session.mjs:345-350).
Requeued(rq, s) ==
  [r \in Requests |-> IF r \in Queue(rq, "inflight", s) THEN [rq[r] EXCEPT !.st = "pending"] ELSE rq[r]]

SocketClosed(s) ==
  /\ NoMicrotask
  /\ session[s].sock = "closing"
  /\ IF current # s
     THEN SetSession(s, [session[s] EXCEPT !.sock = "dropped"]) /\ KeepCurrent /\ UNCHANGED request
     ELSE LET rq == Requeued(request, s)
              se == [session[s] EXCEPT !.sock = "none", !.heard = {}]
          IN /\ request' = rq
             /\ IF hasPendingWork(se, rq, s)
                THEN SetSession(s, ConnectLater(se)) /\ KeepCurrent
                ELSE SetSession(s, se) /\ Forget(s)
  /\ UNCHANGED <<subscribed, flaps, dead>>

\* The relay answers OK, or 3 s pass without an answer.
Answered(r) ==
  /\ NoMicrotask
  /\ request[r].st = "inflight"
  /\ \/ session[request[r].in].sock = "open" /\ ~dead /\ Settle(r, "ok")
     \/ Settle(r, "failed")

\* NOSTR_QUEUED_PUBLISH_DEADLINE_MS after it was queued.
Deadline(r) ==
  /\ NoMicrotask
  /\ request[r].st = "pending" /\ request[r].deadline
  /\ Dequeue(r)

\* NOSTR_IDLE_DROP_MS after the last work.
IdleDrop(s) ==
  LET se == [session[s] EXCEPT !.idle = FALSE]
  IN /\ session[s].idle
     /\ NoMicrotask
     /\ IF current # s \/ hasPendingWork(se, request, s)
        THEN SetSession(s, se) /\ KeepCurrent
        ELSE SetSession(s, Drop(se)) /\ Forget(s)
     /\ UNCHANGED <<request, subscribed, flaps, dead>>

Dies ==
  /\ MayDie /\ ~dead
  /\ dead' = TRUE
  /\ session' = [s \in DOMAIN session |->
                  [session[s] EXCEPT !.sock = IF @ = "open" THEN "closing" ELSE @]]
  /\ UNCHANGED <<current, request, subscribed, flaps, displaced>>

NextRelay ==
  \/ \E u \in Subs : Subscribe(u) \/ Unsubscribe(u)
  \/ \E r \in Requests : Publish(r) \/ Abort(r) \/ Answered(r) \/ Deadline(r)
  \/ \E s \in DOMAIN session :
       ConnectStarts(s) \/ Connected(s) \/ ConnectFails(s) \/ SocketCloses(s) \/ SocketClosed(s) \/ IdleDrop(s)
  \/ Dies

\* Microtasks, timers and connection attempts end: the attempts have a timeout.
FairRelay ==
  /\ WF_relayVars(\E s \in DOMAIN session :
       ConnectStarts(s) \/ Connected(s) \/ ConnectFails(s) \/ SocketClosed(s) \/ IdleDrop(s))
  /\ WF_relayVars(\E r \in Requests : Answered(r) \/ Deadline(r))

SpecRelay == InitRelay /\ [][NextRelay]_relayVars /\ FairRelay

-----------------------------------------------------------------------------
(* Properties. *)

\* Types of the state.
RelayTypeOK ==
  /\ DOMAIN session \subseteq Sessions
  /\ \A s \in DOMAIN session :
       session[s] \in [microtask : BOOLEAN, timer : BOOLEAN, connecting : BOOLEAN, idle : BOOLEAN,
                       sock : {"none", "open", "closing", "dropped"}, subs : SUBSET Subs, heard : SUBSET Subs]
  /\ current \in DOMAIN session \cup {0}
  /\ request \in [Requests -> [st : {"new", "pending", "inflight", "ok", "failed"},
                               in : Sessions \cup {0}, deadline : BOOLEAN]]
  /\ subscribed \subseteq Subs
  /\ flaps \in 0..MaxFlaps /\ dead \in BOOLEAN /\ displaced \in BOOLEAN

\* As long as no session object was displaced: what any caller waits for is work of the
\* object in the map, and no other object holds an open socket (session.mjs:267-269, 288-299, 442-454).
OneSharedSocket ==
  ~displaced =>
    /\ \A r \in Requests : request[r].st \in {"pending", "inflight"} => request[r].in = current
    /\ subscribed = IF current = 0 THEN {} ELSE session[current].subs
    /\ \A s \in DOMAIN session : session[s].sock \in {"open", "closing"} => s = current

\* The subscriptions of an open socket have been asked for on it, after a reconnection too.
SubsReplayed == \A s \in DOMAIN session : session[s].sock = "open" => session[s].heard = session[s].subs

\* With work, the object in the map has a socket, connects, or will try again; without
\* work it goes away.
NeverStalls ==
  current # 0 =>
    LET se == session[current]
    IN se.sock # "none" \/ se.connecting \/ se.timer \/ se.microtask

\* The shared socket does all the work of a relay: one object has it, every subscription is
\* on its socket, and it does not stop while there is work (session.mjs:267-299, 345-361, 442-454).
SocketServes == OneSharedSocket /\ SubsReplayed /\ NeverStalls

\* The comment at session.mjs:246: while there is a live subscription or a publish waits, a
\* lost connection is made again.  The object with the work must still be the shared one.
WorkIsShared ==
  \A s \in DOMAIN session : session[s].subs # {} => s = current

\* The comment at session.mjs:541 and transports.md:54-58: the deadline of a publish is kept
\* over reconnections, so its wait is bounded, whatever the relay does.
PublishesSettle ==
  \A r \in Requests : request[r].st # "new" ~> request[r].st \in {"ok", "failed"}
=============================================================================
