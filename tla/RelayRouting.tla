----------------------------- MODULE RelayRouting -----------------------------
(***************************************************************************)
(* Which relays a node uses (discovery/nostr/relays.mjs, selection.mjs):   *)
(* the working set and the set it listens at, the way to one peer, learnt  *)
(* from its adverts and from what worked, and the attempts of a publish    *)
(* directed to it; the rounds that look for more relays.                   *)
(***************************************************************************)
EXTENDS Integers, FiniteSets, SequencesExt

CONSTANTS
  PoolRelays,     \* relay URLs: numbers, the order they entered the pool in
  Pins,           \* the public and the manual ones
  Monitors,       \* those a discovery round asks (NIP66_BOOTSTRAP_RELAYS)
  HiddenRelays,   \* those at an address that is not public
  DeadNames,      \* those whose name has no address
  Rtt,            \* the round trip time that a relay shows, to us and to the peer
  PeerClaims,     \* the lists of listen relays that the peer's adverts may carry
  WorkingMax, ListenMax, RoundTarget, HistoryMax, FanoutMax, RoutingTries,
  BatchSize, MaxProbes,
  Directed,       \* publishes directed to the peer
  DiscoveryRounds,
  MaxPoolEvents   \* bound: probes, adverts and timeouts from elsewhere

\* The health of a relay never tried, and of one whose last attempt failed.
DefaultHealth == 3
Worst == 20

ASSUME RoutingAssumption ==
  /\ PoolRelays \subseteq Nat /\ IsFiniteSet(PoolRelays) /\ Pins \cup Monitors \cup HiddenRelays \cup DeadNames \subseteq PoolRelays
  /\ Rtt \in [PoolRelays -> Nat] /\ PeerClaims \subseteq Seq(PoolRelays)
  /\ \A r \in PoolRelays : 3 * Rtt[r] < Worst \* MAX_RTT_MS
  /\ {HistoryMax, FanoutMax} \subseteq Nat /\ HistoryMax + RoundTarget <= FanoutMax
  /\ {WorkingMax, ListenMax, RoundTarget, RoutingTries, BatchSize, MaxProbes} \subseteq Nat \ {0}
  /\ MaxPoolEvents \in Nat

VARIABLES
  entry,    \* the pool: what is known of a relay (new: never tried; old: its success is stale)
  listen, lastGood,  \* the route to the peer: what it claims, and what reached it
  trust,    \* how many providers configured a relay explicitly
  directed, \* each publish: its attempt, its targets and those of them it connects to
  round,    \* each discovery round: what it has still to probe, the batch under way, the count
  heardAt,  \* the relays where the node listens for signals
  poolEvents,
  tried, disturbed, reached, \* history: see the properties
  probedLate

routingVars == <<entry, listen, lastGood, trust, directed, round, heardAt, poolEvents,
                 tried, disturbed, reached, probedLate>>

Entry == [st : {"absent", "new", "good", "old", "bad"}, cooling : BOOLEAN, served : BOOLEAN]

NoDirected == [pc |-> "no", try |-> 0, urls |-> <<>>, valid |-> <<>>, ok |-> FALSE]
NoRound == [st |-> "no", pending |-> {}, batch |-> {}, count |-> 0, aborted |-> FALSE]

InitRouting ==
  /\ entry = [r \in PoolRelays |->
       [st |-> IF r \in Pins THEN "new" ELSE "absent", cooling |-> FALSE, served |-> FALSE]]
  /\ listen = <<>> /\ lastGood = <<>>
  /\ trust = [r \in PoolRelays |-> 0]
  /\ directed = [j \in Directed |-> NoDirected]
  /\ round = [d \in DiscoveryRounds |-> NoRound]
  /\ heardAt = {}
  /\ poolEvents = 0
  /\ tried = [j \in Directed |-> {}] /\ disturbed = [j \in Directed |-> FALSE]
  /\ reached = {} /\ probedLate = FALSE

-----------------------------------------------------------------------------
(* Sets of relays. *)

\* computeRelayHealth, the lower the better.  RelayBook has its exact form; here a relay that
\* failed last comes after all others.
RelayHealth ==
  [r \in PoolRelays |->
     CASE entry[r].st = "bad" -> Worst
       [] entry[r].st = "good" -> Rtt[r]
       [] entry[r].st = "old" -> 2 * Rtt[r]
       [] OTHER -> DefaultHealth]

\* A set of relays by a score, in the order of the pool where that is equal.
Nearer(score, a, b) == score[a] < score[b] \/ (score[a] = score[b] /\ a < b)
Ranked(set, score) ==
  [k \in 1..Cardinality(set) |->
     CHOOSE r \in set : Cardinality({q \in set : Nearer(score, q, r)}) = k - 1]

Firsts(urls, k) == SubSeq(urls, 1, IF Len(urls) < k THEN Len(urls) ELSE k)

\* The elements at some places, in their order.
Subsequence(urls, places) ==
  LET order == Ranked(places, [i \in Nat |-> 0])
  IN [k \in 1..Cardinality(places) |-> urls[order[k]]]

Kept(urls, set) == Subsequence(urls, {i \in DOMAIN urls : urls[i] \in set})
Distinct(urls) == Subsequence(urls, {i \in DOMAIN urls : \A k \in 1..(i - 1) : urls[k] # urls[i]})

Spare(k, used) == IF k > used THEN k - used ELSE 0

Eligible(r) == ~entry[r].cooling /\ entry[r].st \in {"new", "good"}

\* Mutant of Capped: the cap holds for pins too.
CappedAll(set, cap) == Firsts(Ranked(set, RelayHealth), cap)

\* The pins among them are kept whatever the cap.
Capped(set, cap) ==
  Ranked(set \cap Pins, RelayHealth)
    \o Firsts(Ranked(set \ Pins, RelayHealth), Spare(cap, Cardinality(set \cap Pins)))

getWorkingRelays == Capped({r \in PoolRelays : Eligible(r)}, WorkingMax)

\* A monitor is only listened at once it has accepted a publish.
getListenRelays ==
  Capped({r \in Range(getWorkingRelays) : r \in Pins \/ r \notin Monitors \/ entry[r].served}, ListenMax)

\* The relays that the peer claims: our health of them and its own together.
Claimed(claim) == Ranked(Range(claim), [r \in PoolRelays |-> RelayHealth[r] + Rtt[r]])

getReachPeerRelays == Claimed(listen)

expandFromHistory == Firsts(Distinct(lastGood \o getReachPeerRelays \o getWorkingRelays), HistoryMax)

\* weightedRandomSample: any of the working relays may be drawn.
Samples ==
  {Ranked(set, [r \in set |-> 0]) : set \in {s \in SUBSET Range(getWorkingRelays) :
     Cardinality(s) = Len(Firsts(getWorkingRelays, HistoryMax))}}

Nearest ==
  Firsts(IF listen # <<>> THEN getReachPeerRelays ELSE getWorkingRelays, RoundTarget)

\* The targets of an attempt; more than one choice where it draws at random.
handshakeTargets(try) ==
  IF try = 1 THEN {Firsts(Nearest, FanoutMax)}
  ELSE {Firsts(Distinct(wide), FanoutMax) : wide \in
          {base \o Nearest : base \in IF lastGood # <<>> THEN {expandFromHistory} ELSE Samples}}

\* resolveRelayConnectTarget: an address that is not public only for one configured here.
Trusted(r) == trust[r] > 0 \/ r \in Monitors \/ r \in Pins
Connectable(r) == r \notin DeadNames /\ (Trusted(r) \/ r \notin HiddenRelays)

-----------------------------------------------------------------------------
(* A publish to the peer: routePublishEvent. *)

\* The targets are chosen, and their names looked up.
Choose(j, try) ==
  \E urls \in handshakeTargets(try) :
    directed' = [directed EXCEPT ![j] =
      IF urls = <<>> THEN [NoDirected EXCEPT !.pc = "done"]
      ELSE [pc |-> "lookup", try |-> try, urls |-> urls,
            valid |-> Kept(urls, {r \in PoolRelays : Connectable(r)}), ok |-> FALSE]]

RouteBegins(j) ==
  /\ directed[j].pc = "no"
  /\ Choose(j, 1)
  /\ disturbed' = [disturbed EXCEPT ![j] = \E r \in Range(listen) : entry[r].st = "bad"]
  /\ UNCHANGED <<entry, listen, lastGood, trust, round, heardAt, poolEvents, tried,
                 reached, probedLate>>

\* The backoff is over.
RouteRetries(j) ==
  /\ directed[j].pc = "pause"
  /\ Choose(j, directed[j].try + 1)
  /\ UNCHANGED <<entry, listen, lastGood, trust, round, heardAt, poolEvents, tried,
                 disturbed, reached, probedLate>>

NamesResolved(j) ==
  LET p == directed[j]
  IN /\ p.pc = "lookup"
     /\ directed' = [directed EXCEPT ![j].pc = IF p.valid = <<>> THEN "done" ELSE "publish"]
     /\ tried' = [tried EXCEPT ![j] = @ \cup Range(p.valid)]
     /\ UNCHANGED <<entry, listen, lastGood, trust, round, heardAt, poolEvents,
                    disturbed, reached, probedLate>>

\* recordPublishResult, as far as the sets tell it apart.
Accepting(set) == [r \in PoolRelays |->
  IF r \in set THEN [st |-> "good", cooling |-> FALSE, served |-> TRUE] ELSE entry[r]]

\* Mutant of Refusing: a refusal is not counted against the relay.
RefusingUncounted(set) == entry

Refusing(set) == [r \in PoolRelays |->
  IF r \in set THEN [entry[r] EXCEPT !.st = "bad", !.cooling = TRUE] ELSE entry[r]]

\* Mutant of okRelays: the answers are matched with the targets before the lookup.
okRelaysUnfiltered(p, set) == Subsequence(p.urls, {i \in DOMAIN p.valid : p.valid[i] \in set})

okRelays(p, set) == Kept(p.valid, set)

\* All answers are there: the relays in set took the event.
RouteAnswered(j, set) ==
  LET p == directed[j]
  IN /\ p.pc = "publish"
     /\ set \subseteq Range(p.valid)
     /\ IF set # {}
        THEN /\ lastGood' = Firsts(Distinct(lastGood \o okRelays(p, set)), HistoryMax)
             /\ entry' = Accepting(Range(okRelays(p, set)))
             /\ directed' = [directed EXCEPT ![j] = [NoDirected EXCEPT !.pc = "done", !.ok = TRUE]]
             /\ reached' = reached \cup set
        ELSE /\ entry' = Refusing(Range(p.valid))
             /\ directed' = [directed EXCEPT ![j].pc = IF p.try >= RoutingTries THEN "done" ELSE "pause"]
             /\ UNCHANGED <<lastGood, reached>>
     /\ disturbed' = [k \in Directed |-> k # j \/ disturbed[k]]
     /\ UNCHANGED <<listen, trust, round, heardAt, poolEvents, tried, probedLate>>

-----------------------------------------------------------------------------
(* What else happens to the pool and to the route. *)

Elsewhere ==
  /\ poolEvents < MaxPoolEvents
  /\ poolEvents' = poolEvents + 1
  /\ UNCHANGED <<lastGood, directed, round, heardAt, tried, reached, probedLate>>

\* A probe from elsewhere ends, a success gets stale, or a cooldown runs out.
EntryChanges(r, st) ==
  /\ Elsewhere
  /\ \/ st = "good" /\ entry' = [entry EXCEPT ![r].st = "good"]
     \/ st = "bad" /\ entry' = [entry EXCEPT ![r].st = "bad"]
     \/ st = "old" /\ entry[r].st = "good" /\ entry' = [entry EXCEPT ![r].st = "old"]
     \/ st = "cool" /\ entry[r].cooling /\ entry' = [entry EXCEPT ![r].cooling = FALSE]
  /\ disturbed' = [k \in Directed |-> TRUE]
  /\ UNCHANGED <<listen, trust>>

\* setPeerRoute with an advert: the fields that it carries, and no others.
AdvertHeard(claim) ==
  /\ Elsewhere
  /\ listen' = claim
  /\ disturbed' = [k \in Directed |-> TRUE]
  /\ UNCHANGED <<entry, trust>>

\* registerProviderTrustedRelayUrls, and the function it returned.
ProviderTrusts(r, by) ==
  /\ Elsewhere
  /\ by = -1 => trust[r] > 0
  /\ trust' = [trust EXCEPT ![r] = @ + by]
  /\ disturbed' = [k \in Directed |-> TRUE]
  /\ UNCHANGED <<entry, listen>>

\* listenNodeSignals subscribes once, at the relays of that moment (resolveNostrRelayUrls with
\* nothing configured).
Subscribes ==
  /\ heardAt = {}
  /\ heardAt' = Range(getListenRelays)
  /\ UNCHANGED <<entry, listen, lastGood, trust, directed, round, poolEvents, tried,
                 disturbed, reached, probedLate>>

-----------------------------------------------------------------------------
(* Discovery rounds: startNostrRelayDiscovery, discoverNostrRelays. *)

RoundUnchanged ==
  UNCHANGED <<listen, lastGood, trust, directed, heardAt, poolEvents, tried, reached>>

\* The monitors have been asked, and the candidates' addresses looked up.  A round that was
\* stopped meanwhile still gets here.
Collected(d, candidates) ==
  /\ round[d].st = "asks"
  /\ candidates \subseteq {r \in PoolRelays : Connectable(r)}
  /\ round' = [round EXCEPT ![d].st = "probes", ![d].pending = candidates]
  /\ RoundUnchanged /\ UNCHANGED <<entry, disturbed, probedLate>>

RoundBegins(d) ==
  /\ round[d].st = "no"
  /\ \A k \in DiscoveryRounds : round[k].st \in {"asks", "probes"} => round[k].aborted
  /\ round' = [round EXCEPT ![d].st = "asks"]
  /\ RoundUnchanged /\ UNCHANGED <<entry, disturbed, probedLate>>

\* Mutant of MayProbe: a round that has begun goes through.
MayProbeOn(rd) == rd.pending # {} /\ rd.count < MaxProbes
MayProbe(rd) == rd.pending # {} /\ rd.count < MaxProbes /\ ~rd.aborted

BatchBegins(d) ==
  LET rd == round[d]
      left == IF MaxProbes - rd.count < BatchSize THEN MaxProbes - rd.count ELSE BatchSize
  IN /\ rd.st = "probes" /\ rd.batch = {} /\ MayProbe(rd)
     /\ \E batch \in SUBSET rd.pending :
          /\ Cardinality(batch) = (IF Cardinality(rd.pending) < left THEN Cardinality(rd.pending) ELSE left)
          /\ round' = [round EXCEPT ![d].batch = batch, ![d].pending = @ \ batch,
                                    ![d].count = @ + Cardinality(batch)]
     /\ probedLate' = (probedLate \/ rd.aborted)
     /\ RoundUnchanged /\ UNCHANGED <<entry, disturbed>>

\* The batch has settled: recordProbeSuccess and upsertRelay, or recordProbeFailure.
BatchSettles(d, good) ==
  /\ round[d].batch # {} /\ good \subseteq round[d].batch
  /\ entry' = [r \in PoolRelays |->
       IF r \in good THEN [entry[r] EXCEPT !.st = "good"]
       ELSE IF r \in round[d].batch THEN [entry[r] EXCEPT !.st = "bad"] ELSE entry[r]]
  /\ disturbed' = [k \in Directed |-> TRUE]
  /\ round' = [round EXCEPT ![d].batch = {}]
  /\ RoundUnchanged /\ UNCHANGED probedLate

RoundEnds(d) ==
  /\ round[d].st = "probes" /\ round[d].batch = {} /\ ~MayProbe(round[d])
  /\ round' = [round EXCEPT ![d].st = "over", ![d].pending = {}]
  /\ RoundUnchanged /\ UNCHANGED <<entry, disturbed, probedLate>>

\* The function that startNostrRelayDiscovery returned.
RoundStopped(d) ==
  /\ round[d].st \in {"asks", "probes"}
  /\ round' = [round EXCEPT ![d].aborted = TRUE]
  /\ RoundUnchanged /\ UNCHANGED <<entry, disturbed, probedLate>>

NextRouting ==
  \/ \E j \in Directed :
       \/ RouteBegins(j) \/ RouteRetries(j) \/ NamesResolved(j)
       \/ \E set \in SUBSET PoolRelays : RouteAnswered(j, set)
  \/ \E r \in PoolRelays :
       \/ \E st \in {"good", "bad", "old", "cool"} : EntryChanges(r, st)
       \/ \E by \in {-1, 1} : ProviderTrusts(r, by)
  \/ \E claim \in PeerClaims : AdvertHeard(claim)
  \/ Subscribes
  \/ \E d \in DiscoveryRounds :
       \/ \E set \in SUBSET PoolRelays : Collected(d, set) \/ BatchSettles(d, set)
       \/ RoundBegins(d) \/ BatchBegins(d) \/ RoundEnds(d) \/ RoundStopped(d)

\* Lookups and publishes have their timeouts, and so have the pauses.
FairRouting ==
  WF_routingVars(\E j \in Directed : RouteRetries(j) \/ NamesResolved(j)
    \/ \E set \in SUBSET PoolRelays : RouteAnswered(j, set))

SpecRouting == InitRouting /\ [][NextRouting]_routingVars /\ FairRouting

-----------------------------------------------------------------------------
(* Properties. *)

\* Types of the state.
RoutingTypeOK ==
  /\ entry \in [PoolRelays -> Entry]
  /\ Range(listen) \cup Range(lastGood) \cup heardAt \subseteq PoolRelays
  /\ trust \in [PoolRelays -> Nat]
  /\ \A j \in Directed :
       /\ directed[j].pc \in {"no", "lookup", "publish", "pause", "done"}
       /\ Range(directed[j].valid) \subseteq Range(directed[j].urls)
       /\ Len(directed[j].urls) <= FanoutMax
  /\ \A d \in DiscoveryRounds : round[d].count <= MaxProbes

\* What the route remembers did take an event for the peer, although names that have no
\* address drop out between the choice and the answers (selection.mjs:179-190).
RememberedServed == Range(lastGood) \subseteq reached

\* A publish gives up only after it has gone to every relay that the peer claims, where none
\* was down when it began, nothing else changed the pool or the claim meanwhile and as many
\* fit into the attempts: refusals push a relay behind the others (selection.mjs:38-55,
\* 124-151, 197).  Relays that are down share one health, so the peer's nearest of them is
\* tried again and again.
ClaimsTried ==
  \A j \in Directed :
    /\ directed[j].pc = "done" /\ ~directed[j].ok /\ directed[j].try = RoutingTries
    /\ ~disturbed[j] /\ listen # <<>> /\ Cardinality(Range(listen)) <= RoundTarget * RoutingTries
    /\ \A r \in Range(listen) : Connectable(r)
    => Range(listen) \subseteq tried[j]

\* After the stop no round begins to probe: only what is under way comes back
\* (relays.mjs:908-911, 1015-1036).
RoundsStop == ~probedLate

\* An advert names the relays of its own moment and not those subscribed to.  Still a pin that
\* worked then and works now is in both: the others, however healthy, never push it out
\* (relays.mjs:626-650).
PinsAreMet == \A r \in heardAt \cap Pins : Eligible(r) => r \in Range(getListenRelays)

\* Routes are learnt from what worked, publishes try all there is, and rounds end
\* (selection.mjs, relays.mjs:878-931).
RoutingIsSound == RememberedServed /\ ClaimsTried /\ RoundsStop /\ PinsAreMet

\* No publish to the peer is left without an answer.
RoutesEnd == \A j \in Directed : directed[j].pc \in {"no", "done"}
=============================================================================
