----------------------------- MODULE LinkRegistry -----------------------------
(***************************************************************************)
(* One node's link registry (transport/link_registry.mjs), with the        *)
(* offer/answer accept path (transport/offer_answer.mjs), the close of a   *)
(* link (link/pipe.mjs) and a listener of linkUp and linkDown, the peer    *)
(* health tracker (transport/peer_health.mjs).  The other listener, the    *)
(* mesh keepalive with its explore marks, is MeshKeepalive.                *)
(*                                                                         *)
(* JavaScript runs to completion between two awaits, so an action is the   *)
(* code from one await of an attempt to its next one.                      *)
(***************************************************************************)
EXTENDS LinkPreference, FiniteSets, TLC

CONSTANTS
  Self,          \* this node's hash
  Peers,         \* the hashes of the nodes it links with
  Levels,        \* the levels of the registered providers, one provider each
  OfferLevel,    \* the level of the offer/answer provider, whose accept side runs here
  LateReady,     \* levels whose dial() may resolve after the handshake is over
  MaxActive,     \* the budget of active links (maxActive)
  BackoffSteps,  \* bound: failures count up to here, where the backoff exponent is capped
  Links,         \* bound: the links alive or referred to at one time
  Ops,           \* bound: the attempts (dials, accepts, inbound links) running at one time
  Callers,       \* bound: the callers of ensureLinkToNode waiting at one time
  None           \* no link, no attempt, no peer

ASSUME NodesAssumption ==
  /\ Self \in Nat
  /\ Peers \subseteq Nat \ {Self}

ASSUME ProvidersAssumption ==
  /\ Levels \subseteq Nat
  /\ OfferLevel \in Levels
  /\ LateReady \subseteq Levels

ASSUME BoundsAssumption ==
  /\ MaxActive \in Nat \ {0}
  /\ BackoffSteps \in Nat \ {0}
  /\ None \notin Peers \cup Links \cup Ops

VARIABLES
  link,          \* each link handle: its pipe's closed flag, peer, level and initiator
  links,         \* the canonical link of each peer (links)
  op,            \* each attempt: what it does, where it awaits and what it holds
  inflights,     \* the dial each peer's new callers join (inflights)
  listening,     \* signalListenReady has settled (whenSignalListening)
  entering,      \* the peer of each caller of ensureLinkToNode that waits for that
  caller,        \* the dial each caller of ensureLinkToNode waits for
  dialCooldown,  \* failures counted and whether the cooldown runs (dialCooldown)
  health,        \* the link whose listeners the health entry holds (cleanups): connected
  watched        \* links with the health tracker's own onDown listener attached

registryVars == <<links, health, watched>>
entryVars == <<listening, entering>>
dialVars == <<inflights, caller, dialCooldown, entryVars>>
vars == <<link, registryVars, op, dialVars>>

-----------------------------------------------------------------------------
(* State shapes. *)

\* A handle nothing refers to any more, or one not created yet.
NoLink == [st |-> "down", peer |-> None, level |-> 0, initiator |-> FALSE]

\* "open" is ready and not closed; "closing" is closed with its down event still
\* behind closeTransport; "down" has emitted its down event.
LinkRecord ==
  [st : {"open", "closing", "down"}, peer : Peers \cup {None},
   level : Levels \cup {0}, initiator : BOOLEAN]

IdleOp == [kind |-> "none", peer |-> None, pc |-> "idle", todo |-> {},
           link |-> None, wait |-> None]

OpRecord ==
  [kind : {"none", "dial", "accept", "inbound"}, peer : Peers \cup {None},
   pc : {"idle", "try", "evict", "connect", "settle", "reject", "replace"},
   todo : SUBSET Levels, link : Links \cup {None}, wait : Links \cup {None}]

NoCooldown == [failures |-> 0, cooling |-> FALSE]

Init ==
  /\ link = [l \in Links |-> NoLink]
  /\ links = [p \in Peers |-> None]
  /\ op = [o \in Ops |-> IdleOp]
  /\ inflights = [p \in Peers |-> None]
  /\ listening = FALSE
  /\ entering = [c \in Callers |-> None]
  /\ caller = [c \in Callers |-> None]
  /\ dialCooldown = [p \in Peers |-> NoCooldown]
  /\ health = [p \in Peers |-> None]
  /\ watched = {}

Linked == {p \in Peers : links[p] # None}

\* A handle to create a link with: closed, and referred to by nobody.
Unused(l) ==
  /\ link[l].st = "down"
  /\ l \notin watched
  /\ \A p \in Peers : links[p] # l /\ health[p] # l
  /\ \A o \in Ops : op[o].link # l /\ op[o].wait # l

\* An attempt goes to its idle slot; a dial also moves to the provider of next level.
NextProvider(rec) ==
  [rec EXCEPT !.pc = "try", !.link = None, !.wait = None,
              !.todo = {m \in @ : \E n \in @ : n > m}]

\* The provider to try: listLinkProviders sorts them by descending level.
Current(rec, lv) == lv \in rec.todo /\ \A m \in rec.todo : m <= lv

-----------------------------------------------------------------------------
(* The health tracker's listeners of linkUp and linkDown. *)

\* The tracker listens to the link and overwrites the cleanup of a link announced before.
LinkUp(p, l) ==
  /\ health' = [health EXCEPT ![p] = l]
  /\ watched' = IF link'[l].st = "down" THEN watched ELSE watched \cup {l}

\* The tracker drops the entry's current cleanup, whatever link it belongs to.
HealthDown(p, l) ==
  /\ health' = [health EXCEPT ![p] = None]
  /\ watched' = watched \ {health[p], l}

-----------------------------------------------------------------------------
(* The outcome of an attempt. *)

Released(o) == [c \in Callers |-> IF caller[c] = o THEN None ELSE caller[c]]

\* Mutant of noteDialFailure: the backoff exponent is not capped.
noteDialFailureUncapped(p) ==
  dialCooldown' =
    [dialCooldown EXCEPT ![p] = [failures |-> @.failures + 1, cooling |-> TRUE]]

noteDialFailure(p) ==
  dialCooldown' =
    [dialCooldown EXCEPT
       ![p] = [failures |-> IF @.failures < BackoffSteps THEN @.failures + 1 ELSE @.failures,
               cooling |-> TRUE]]

\* The dial's promise settles: its finally clears the peer's inflights entry and
\* every caller still waiting for it returns.
SettleDial(o, p) ==
  /\ op' = [op EXCEPT ![o] = IdleOp]
  /\ inflights' = [inflights EXCEPT ![p] = None]
  /\ caller' = Released(o)
  /\ UNCHANGED entryVars

\* registerResolvedLink has returned: a dial succeeds with the canonical link of the
\* peer and otherwise falls back to its next provider; nobody waits for an accept.
Resolve(o, rec, canonical) ==
  \/ /\ rec.kind # "dial"
     /\ op' = [op EXCEPT ![o] = IdleOp]
     /\ UNCHANGED dialVars
  \/ /\ rec.kind = "dial"
     /\ canonical # None
     /\ SettleDial(o, rec.peer)
     /\ dialCooldown' = [dialCooldown EXCEPT ![rec.peer] = NoCooldown]
  \/ /\ rec.kind = "dial"
     /\ canonical = None
     /\ op' = [op EXCEPT ![o] = NextProvider(rec)]
     /\ UNCHANGED dialVars

-----------------------------------------------------------------------------
(* registerResolvedLink, up to its first await. *)

\* The peer's canonical link is preferred: the candidate is closed.
RegisterLoser(o, rec, l, candidate) ==
  LET existing == links[candidate.peer] IN
  /\ existing # None
  /\ ~linkIsPreferred(Self, candidate.peer, candidate, link[existing])
  /\ UNCHANGED registryVars
  /\ \/ /\ candidate.st = "open"
        /\ link' = [link EXCEPT ![l] = [candidate EXCEPT !.st = "closing"]]
        /\ op' = [op EXCEPT ![o] = [rec EXCEPT !.pc = "reject", !.link = None, !.wait = l]]
        /\ UNCHANGED dialVars
     \/ /\ candidate.st # "open"
        /\ link' = [link EXCEPT ![l] = IF candidate.st = "down" THEN NoLink ELSE candidate]
        /\ Resolve(o, rec, existing)

\* Mutant of RegisterWinner: the link it replaces is not closed.
RegisterWinnerKeepsOld(o, rec, l, candidate) ==
  LET p == candidate.peer
      existing == links[p]
  IN
  /\ existing # None => linkIsPreferred(Self, p, candidate, link[existing])
  /\ links' = [links EXCEPT ![p] = l]
  /\ link' = [link EXCEPT ![l] = candidate]
  /\ LinkUp(p, l)
  /\ Resolve(o, rec, l)

\* The candidate becomes canonical.  The link it replaces is closed first; linkUp
\* follows at once only when there is no such link or its close has begun already.
RegisterWinner(o, rec, l, candidate) ==
  LET p == candidate.peer
      existing == links[p]
  IN
  /\ existing # None => linkIsPreferred(Self, p, candidate, link[existing])
  /\ links' = [links EXCEPT ![p] = l]
  /\ \/ /\ existing # None
        /\ link[existing].st = "open"
        /\ link' = [link EXCEPT ![l] = candidate, ![existing].st = "closing"]
        /\ op' = [op EXCEPT ![o] = [rec EXCEPT !.pc = "replace", !.link = l, !.wait = existing]]
        /\ UNCHANGED <<health, watched, dialVars>>
     \/ /\ existing # None => link[existing].st # "open"
        /\ link' = [link EXCEPT ![l] = candidate]
        /\ LinkUp(p, l)
        /\ Resolve(o, rec, l)

Register(o, rec, l, candidate) ==
  \/ RegisterLoser(o, rec, l, candidate)
  \/ RegisterWinner(o, rec, l, candidate)

-----------------------------------------------------------------------------
(* ensureDirectLinkToNode. *)

\* Every call awaits whenSignalListening first, under no timer of its own: before the
\* listeners of the link and discovery providers have answered, the caller waits.
EnsureEnters(c, p) ==
  /\ ~listening
  /\ caller[c] = None
  /\ entering[c] = None
  /\ entering' = [entering EXCEPT ![c] = p]
  /\ UNCHANGED <<link, registryVars, op, inflights, caller, dialCooldown, listening>>

\* ensureListening of every provider and listenNodeSignals have settled.  A reload, which
\* puts a new promise in the place of the settled one, is left out.
SignalsListen ==
  /\ ~listening
  /\ listening' = TRUE
  /\ UNCHANGED <<link, registryVars, op, inflights, caller, dialCooldown, entering>>

\* Past that await the call for p goes on, of a caller that waited or of a new one.
Asks(c, p) ==
  /\ listening
  /\ caller[c] = None
  /\ entering[c] \in {None, p}
  /\ entering' = [entering EXCEPT ![c] = None]
  /\ UNCHANGED listening

\* With a canonical link or a running cooldown the call returns at once; otherwise it
\* joins the dial in flight or starts one.
ReturnsAtOnce(c, p) ==
  /\ entering[c] = p
  /\ Asks(c, p)
  /\ links[p] # None \/ (inflights[p] = None /\ dialCooldown[p].cooling)
  /\ UNCHANGED <<link, registryVars, op, inflights, caller, dialCooldown>>

JoinDial(c, p) ==
  /\ Asks(c, p)
  /\ links[p] = None
  /\ inflights[p] # None
  /\ caller' = [caller EXCEPT ![c] = inflights[p]]
  /\ UNCHANGED <<link, registryVars, op, inflights, dialCooldown>>

StartDial(c, p, o) ==
  /\ Asks(c, p)
  /\ links[p] = None
  /\ inflights[p] = None
  /\ ~dialCooldown[p].cooling
  /\ op[o].pc = "idle"
  /\ dialCooldown' = [dialCooldown EXCEPT ![p] = NoCooldown]
  /\ op' = [op EXCEPT ![o] = [IdleOp EXCEPT !.kind = "dial", !.peer = p,
                                           !.pc = "try", !.todo = Levels]]
  /\ inflights' = [inflights EXCEPT ![p] = o]
  /\ caller' = [caller EXCEPT ![c] = o]
  /\ UNCHANGED <<link, registryVars>>

\* Mutant of DialDeadline: the entry stays, and newcomers join the dial that hangs.
DialDeadlineKeepsEntry(c) ==
  LET o == caller[c] IN
  /\ o # None
  /\ caller' = [caller EXCEPT ![c] = None]
  /\ noteDialFailure(op[o].peer)
  /\ UNCHANGED <<link, registryVars, op, inflights, entryVars>>

\* Mutant of DialDeadline: only the dial newcomers would join has a deadline.
DialDeadlineOfEntry(c) ==
  LET o == caller[c] IN
  /\ o # None
  /\ inflights[op[o].peer] = o
  /\ caller' = [caller EXCEPT ![c] = None]
  /\ inflights' = [inflights EXCEPT ![op[o].peer] = None]
  /\ noteDialFailure(op[o].peer)
  /\ UNCHANGED <<link, registryVars, op, entryVars>>

\* The caller's own deadline: it stops waiting, forgets the dial if newcomers would
\* still join it, and counts a failure.  The dial itself goes on.
DialDeadline(c) ==
  LET o == caller[c] IN
  /\ o # None
  /\ caller' = [caller EXCEPT ![c] = None]
  /\ inflights' = [inflights EXCEPT ![op[o].peer] = IF @ = o THEN None ELSE @]
  /\ noteDialFailure(op[o].peer)
  /\ UNCHANGED <<link, registryVars, op, entryVars>>

\* canReach or isAvailable says no, or one of them throws.
SkipProvider(o) ==
  /\ op[o].pc = "try"
  /\ op[o].kind = "dial"
  /\ op[o].todo # {}
  /\ op' = [op EXCEPT ![o] = NextProvider(op[o])]
  /\ UNCHANGED <<link, registryVars, dialVars>>

\* No provider is left.
DialExhausted(o) ==
  /\ op[o].pc = "try"
  /\ op[o].kind = "dial"
  /\ op[o].todo = {}
  /\ SettleDial(o, op[o].peer)
  /\ noteDialFailure(op[o].peer)
  /\ UNCHANGED <<link, registryVars>>

-----------------------------------------------------------------------------
(* trimToBudget, and the provider's dial or accept. *)

\* pickMeshEvictionVictim ranks by marks, pool and weights, which are not modelled here:
\* any canonical link may be the victim.  With room left, or a victim whose close() has begun
\* already and so returns at once, the attempt goes on to the provider; otherwise it waits.
TrimToBudget(o) ==
  /\ op[o].pc = "try"
  /\ op[o].todo # {}
  /\ UNCHANGED <<registryVars, dialVars>>
  /\ \/ /\ \/ Cardinality(Linked) < MaxActive
           \/ \E p \in Linked : link[links[p]].st # "open"
        /\ op' = [op EXCEPT ![o].pc = "connect"]
        /\ UNCHANGED link
     \/ /\ Cardinality(Linked) >= MaxActive
        /\ \E p \in Linked :
             /\ link[links[p]].st = "open"
             /\ link' = [link EXCEPT ![links[p]].st = "closing"]
             /\ op' = [op EXCEPT ![o] = [@ EXCEPT !.pc = "evict", !.wait = links[p]]]

\* Mutant of EvictionDone: the attempt goes on only once there is room.
EvictionDoneWithRoom(o) ==
  /\ op[o].pc = "evict"
  /\ link[op[o].wait].st = "down"
  /\ Cardinality(Linked) < MaxActive
  /\ op' = [op EXCEPT ![o] = [@ EXCEPT !.pc = "connect", !.wait = None]]
  /\ UNCHANGED <<link, registryVars, dialVars>>

EvictionDone(o) ==
  /\ op[o].pc = "evict"
  /\ link[op[o].wait].st = "down"
  /\ op' = [op EXCEPT ![o] = [@ EXCEPT !.pc = "connect", !.wait = None]]
  /\ UNCHANGED <<link, registryVars, dialVars>>

\* dial or accept gives null or throws, or the handshake fails (ready rejects).
ProviderFails(o) ==
  /\ op[o].pc = "connect"
  /\ op' = [op EXCEPT ![o] = IF @.kind = "dial" THEN NextProvider(@) ELSE IdleOp]
  /\ UNCHANGED <<link, registryVars, dialVars>>

NewLink(p, lv, initiator) ==
  [st |-> "open", peer |-> p, level |-> lv, initiator |-> initiator]

\* The handshake of the provider's link is over: the continuation of `await
\* link.ready` registers it.
LinkReady(o, l) ==
  /\ op[o].pc = "connect"
  /\ Unused(l)
  /\ \E lv \in Levels :
       /\ Current(op[o], lv)
       /\ Register(o, op[o], l, NewLink(op[o].peer, lv, op[o].kind = "dial"))

\* The same while dial() itself still awaits a write: nobody listens to the link yet.
LinkReadyEarly(o, l) ==
  /\ op[o].pc = "connect"
  /\ op[o].kind = "dial"
  /\ Unused(l)
  /\ \E lv \in LateReady :
       /\ Current(op[o], lv)
       /\ link' = [link EXCEPT ![l] = NewLink(op[o].peer, lv, TRUE)]
  /\ op' = [op EXCEPT ![o] = [@ EXCEPT !.pc = "settle", !.link = l]]
  /\ UNCHANGED <<registryVars, dialVars>>

\* dial() returns that link, whatever has become of it.
DialReturns(o) ==
  /\ op[o].pc = "settle"
  /\ Register(o, op[o], op[o].link, link[op[o].link])

\* dial() rejects although that handshake is over: the attempt knows of no link.
DialThrowsLate(o) ==
  LET l == op[o].link IN
  /\ op[o].pc = "settle"
  /\ op' = [op EXCEPT ![o] = NextProvider(@)]
  /\ link' = [link EXCEPT ![l] = IF @.st = "down" THEN NoLink ELSE @]
  /\ UNCHANGED <<registryVars, dialVars>>

\* An inbound offer with an unknown connId (handleSignalPacket).
AcceptOffer(o, p) ==
  /\ op[o].pc = "idle"
  /\ op' = [op EXCEPT ![o] = [IdleOp EXCEPT !.kind = "accept", !.peer = p,
                                           !.pc = "try", !.todo = {OfferLevel}]]
  /\ UNCHANGED <<link, registryVars, dialVars>>

\* A provider's listener hands over a link that is ready (onInboundLink): no budget.
InboundLink(o, p, lv, l) ==
  /\ op[o].pc = "idle"
  /\ Unused(l)
  /\ Register(o, [IdleOp EXCEPT !.kind = "inbound", !.peer = p], l, NewLink(p, lv, FALSE))

\* candidate.close has returned.
LoserClosed(o) ==
  /\ op[o].pc = "reject"
  /\ link[op[o].wait].st = "down"
  /\ Resolve(o, op[o], links[op[o].peer])
  /\ UNCHANGED <<link, registryVars>>

\* existing.close has returned: linkUp for the candidate, whatever happened meanwhile.
ReplacedClosed(o) ==
  LET p == op[o].peer IN
  /\ op[o].pc = "replace"
  /\ link[op[o].wait].st = "down"
  /\ UNCHANGED <<link, links>>
  /\ LinkUp(p, op[o].link)
  /\ Resolve(o, op[o], links[p])

-----------------------------------------------------------------------------
(* A link's own life, and what else clears a cooldown. *)

Owner(l) == {o \in Ops : op[o].pc = "settle" /\ op[o].link = l}

\* The remote end closes, the transport fails, the idle timer fires, or closeLink.
LinkCloses(l) ==
  /\ link[l].st = "open"
  /\ link' = [link EXCEPT ![l].st = "closing"]
  /\ UNCHANGED <<registryVars, op, dialVars>>

\* Mutant of LinkDown: the entry goes whichever link it names.
LinkDownOfAnyLink(l) ==
  LET p == link[l].peer IN
  /\ link[l].st = "closing"
  /\ link' = [link EXCEPT ![l] = IF Owner(l) = {} THEN NoLink ELSE [@ EXCEPT !.st = "down"]]
  /\ UNCHANGED <<op, dialVars>>
  /\ links' = [links EXCEPT ![p] = None]
  /\ HealthDown(p, l)

\* Mutant of LinkDown: the registry listens to a link only once linkUp has fired for it.
LinkDownWiredLate(l) ==
  LET p == link[l].peer IN
  /\ link[l].st = "closing"
  /\ link' = [link EXCEPT ![l] = IF Owner(l) = {} THEN NoLink ELSE [@ EXCEPT !.st = "down"]]
  /\ UNCHANGED <<op, dialVars>>
  /\ IF links[p] = l /\ l \in watched
     THEN /\ links' = [links EXCEPT ![p] = None]
          /\ HealthDown(p, l)
     ELSE UNCHANGED registryVars

\* closeTransport is over: the down listeners run.  The registry's removes the entry
\* only while this link is the canonical one, and only then fires linkDown.
LinkDown(l) ==
  LET p == link[l].peer IN
  /\ link[l].st = "closing"
  /\ link' = [link EXCEPT ![l] = IF Owner(l) = {} THEN NoLink ELSE [@ EXCEPT !.st = "down"]]
  /\ UNCHANGED <<op, dialVars>>
  /\ \/ /\ links[p] = l
        /\ links' = [links EXCEPT ![p] = None]
        /\ HealthDown(p, l)
     \/ /\ links[p] # l
        /\ l \in watched
        /\ HealthDown(p, l)
        /\ UNCHANGED links
     \/ /\ links[p] # l
        /\ l \notin watched
        /\ UNCHANGED registryVars

CooldownElapses(p) ==
  /\ dialCooldown[p].cooling
  /\ dialCooldown' = [dialCooldown EXCEPT ![p].cooling = FALSE]
  /\ UNCHANGED <<link, registryVars, op, inflights, caller, entryVars>>

\* A first-seen discovery clue or a watched advert of the peer.
PeerClue(p) ==
  /\ dialCooldown[p] # NoCooldown
  /\ dialCooldown' = [dialCooldown EXCEPT ![p] = NoCooldown]
  /\ UNCHANGED <<link, registryVars, op, inflights, caller, entryVars>>

-----------------------------------------------------------------------------

AttemptStep(o) ==
  \/ SkipProvider(o)
  \/ DialExhausted(o)
  \/ TrimToBudget(o)
  \/ EvictionDone(o)
  \/ ProviderFails(o)
  \/ \E l \in Links : LinkReady(o, l) \/ LinkReadyEarly(o, l)
  \/ DialReturns(o) \/ DialThrowsLate(o)
  \/ \E p \in Peers : AcceptOffer(o, p)
  \/ \E p \in Peers, lv \in Levels, l \in Links : InboundLink(o, p, lv, l)
  \/ LoserClosed(o)
  \/ ReplacedClosed(o)

\* The continuation behind that await, for peer p.
Proceeds(c, p) ==
  \/ ReturnsAtOnce(c, p)
  \/ JoinDial(c, p)
  \/ \E o \in Ops : StartDial(c, p, o)

CallerStep(c) ==
  \/ \E p \in Peers : EnsureEnters(c, p) \/ Proceeds(c, p)
  \/ DialDeadline(c)

Next ==
  \/ \E o \in Ops : AttemptStep(o)
  \/ \E c \in Callers : CallerStep(c)
  \/ \E l \in Links : LinkCloses(l) \/ LinkDown(l)
  \/ \E p \in Peers : CooldownElapses(p) \/ PeerClue(p)
  \/ SignalsListen

Spec == Init /\ [][Next]_vars

\* A close that has begun ends (closeTransport settles and its errors are swallowed),
\* the continuation behind an await that has settled runs, and a caller's timer fires.
\* Nothing is asked of a provider: its dial, or its listener, may hang for ever.
Fairness ==
  /\ \A l \in Links : WF_vars(LinkDown(l))
  /\ \A o \in Ops : WF_vars(EvictionDone(o) \/ LoserClosed(o) \/ ReplacedClosed(o))
  /\ \A c \in Callers : WF_vars(DialDeadline(c))
  /\ \A c \in Callers : WF_vars(\E p \in Peers : entering[c] = p /\ Proceeds(c, p))

FairSpec == Spec /\ Fairness

-----------------------------------------------------------------------------
(* Correctness. *)

\* Every variable has its shape.
TypeOK ==
  /\ link \in [Links -> LinkRecord]
  /\ links \in [Peers -> Links \cup {None}]
  /\ op \in [Ops -> OpRecord]
  /\ inflights \in [Peers -> Ops \cup {None}]
  /\ listening \in BOOLEAN
  /\ entering \in [Callers -> Peers \cup {None}]
  /\ caller \in [Callers -> Ops \cup {None}]
  /\ dialCooldown \in [Peers -> [failures : 0..BackoffSteps, cooling : BOOLEAN]]
  /\ health \in [Peers -> Links \cup {None}]
  /\ watched \subseteq Links

\* However attempts towards one peer interleave (own dials, accepted offers, inbound
\* links), registerResolvedLink leaves no link behind: a link that is open is the
\* canonical one of its peer.  The providers whose handshake can end before dial()
\* returns are excepted: what they leave behind is a hazard of its own.
NoOrphanLink ==
  \A l \in Links :
    link[l].st = "open" => \/ links[link[l].peer] = l
                           \/ link[l].level \in LateReady

\* getLink and listLinks hold no link whose down event is over: the event of the very
\* link that is canonical removes it, and no later registration brings it back.
NoDeadCanonical ==
  \A p \in Peers :
    links[p] # None => \/ link[links[p]].st # "down"
                      \/ link[links[p]].level \in LateReady

\* A stuck provider cannot poison later dials: the dial that newcomers to a peer would
\* join is one to that peer and still has a caller, whose deadline will drop it.
InflightHasWaiter ==
  \A p \in Peers :
    inflights[p] # None =>
      /\ op[inflights[p]].kind = "dial"
      /\ op[inflights[p]].peer = p
      /\ \E c \in Callers : caller[c] = inflights[p]

\* The inductive invariant behind the four above.  An attempt that runs has its peer, and
\* holds the link it is about to register or to announce.
AttemptsNamed ==
  \A o \in Ops :
    /\ op[o].pc = "idle" => op[o].kind = "none"
    /\ op[o].pc # "idle" => op[o].peer \in Peers
    /\ op[o].pc \in {"settle", "replace"} => op[o].link \in Links

\* A link is registered under its own peer.
LinksNamed ==
  /\ \A l \in Links : link[l].st # "down" => link[l].peer \in Peers
  /\ \A p \in Linked : link[links[p]].peer = p

\* A link whose dial() has not returned yet belongs to that attempt alone.
LateLinksHeld ==
  \A o \in Ops :
    op[o].pc = "settle" =>
      /\ op[o].kind = "dial"
      /\ link[op[o].link].peer = op[o].peer
      /\ link[op[o].link].level \in LateReady
      /\ \A p \in Peers : links[p] # op[o].link
      /\ \A n \in Ops \ {o} : op[n].pc = "settle" => op[n].link # op[o].link

IInv ==
  /\ TypeOK
  /\ AttemptsNamed
  /\ LinksNamed
  /\ LateLinksHeld
  /\ NoOrphanLink
  /\ NoDeadCanonical
  /\ InflightHasWaiter

\* The canonical link of each peer, as the registry's users see it.
Session(p) ==
  IF links[p] = None
  THEN [id |-> None, level |-> 0, initiator |-> FALSE, st |-> "none"]
  ELSE [id |-> links[p], level |-> link[links[p]].level,
        initiator |-> link[links[p]].initiator,
        st |-> IF link[links[p]].st = "open" THEN "alive" ELSE "dead"]

Abstract == INSTANCE PeerSession WITH session <- [p \in Peers |-> Session(p)]

\* The registry keeps that promise for every peer: neither a stale link's down event
\* nor a later, less preferred link takes away a session that is alive.
KeepsSessions == Abstract!Spec

\* ensureLinkToNode returns to every caller that waits for a dial, although the dial may
\* hang and the entry the caller joined it through may long be gone.
CallersReturn ==
  \A c \in Callers : caller[c] # None ~> caller[c] = None

\* A peer whose canonical link has been closed, by whomever, does not keep it: the entry
\* goes or a link that is open takes its place, and dials to the peer are possible again.
ClosedSessionsEnd ==
  \A p \in Peers :
    (links[p] # None /\ link[links[p]].st # "open")
      ~> (links[p] # None => link[links[p]].st = "open")

\* Every attempt that waits for a close goes on, also when the link it waits for is
\* being closed by someone else or has been replaced meanwhile.
ClosesAreAwaited ==
  \A o \in Ops : op[o].wait # None ~> op[o].wait = None

\* Whoever closes a link, and whoever waits for a close, the registry gets past it: the
\* peer is not blocked by the dead link nor an attempt by the close (pipe.mjs:369,
\* link_registry.mjs:161-190).
ClosesComplete == ClosedSessionsEnd /\ ClosesAreAwaited

-----------------------------------------------------------------------------
(* What the documentation says and the code does not do. *)

\* "Only the canonical link fires linkUp / linkDown": the link that linkUp announces
\* after the close of the one it replaced is still the canonical one.
OnlyCanonicalFires ==
  [][\A o \in Ops :
       op[o].pc = "replace" /\ op'[o].pc # "replace"
         => links[op[o].peer] = op[o].link]_vars

\* The health tracker "listens to onRtt and onDown of every active link": it listens to
\* a canonical link that is open, once linkUp has announced it.
ActiveLinksWatched ==
  \A p \in Linked :
    (link[links[p]].st = "open" /\ \A o \in Ops : op[o].link # links[p])
      => links[p] \in watched

\* "Nothing on the dial path may wait forever": a call of ensureLinkToNode that waits for
\* the listeners gets past that wait.
EnsureProceeds ==
  \A c \in Callers : entering[c] # None ~> listening

\* "Exponential cooldown": the failures counted against a peer are forgotten only when
\* a link to it is made or a clue of it is seen.
BackoffKept ==
  [][\A p \in Peers :
       dialCooldown'[p].failures < dialCooldown[p].failures
         => PeerClue(p) \/ links[p] # None \/ links'[p] # None]_vars

\* For TLC: handles, attempts and callers are alike.
Symmetry == Permutations(Links) \cup Permutations(Ops) \cup Permutations(Callers)

=============================================================================
