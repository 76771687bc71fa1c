---------------------------- MODULE NostrDiscovery ----------------------------
(***************************************************************************)
(* What one node asks its relays for (discovery/nostr/index.mjs): REQs for *)
(* the adverts of the network, of groups and of nodes, shared by watchers  *)
(* and held by list and connect; the REQ for signals to this node; REQs on *)
(* a peer's own relays.  A reload of the channels disposes the provider    *)
(* and creates another (transport/runtime_bootstrap.mjs).  And, apart from *)
(* these, publishEvent: one event to several relays at once, while the     *)
(* presence it is for may be stopped.                                      *)
(***************************************************************************)
EXTENDS Naturals, Sequences, FiniteSets

CONSTANTS
  AdvertKeys,         \* what adverts are watched by: the network, groups, nodes
  Watchers,     \* calls of watchNodeAdvert and watchGroupAdverts
  MaxConnects,  \* bound: calls of connectToNode
  MaxListens,   \* bound: calls of listenNodeSignals
  MaxProviders, \* bound: providers created one after the other
  Targets       \* the relays that an event is published to

ASSUME DiscoveryAssumption ==
  MaxConnects \in Nat /\ MaxListens \in Nat /\ MaxProviders \in Nat \ {0}

VARIABLES
  provider,    \* the provider registered now
  reqs,        \* every REQ made: provider, key, listeners, held, whether it is open
  advertSubs,  \* of the registered provider: key -> REQ
  nodeSignalSubs, extraSubs,  \* of the registered provider: the REQ for signals, others
  watch,       \* each watcher: its REQ while it watches
  connect, listen,  \* calls of connectToNode and listenNodeSignals
  strays       \* history: REQs that an older stop dropped from the table, or of a disposed provider

discoveryVars == <<provider, reqs, advertSubs, nodeSignalSubs, extraSubs, watch, connect, listen, strays>>

Connects == 1..MaxConnects
Listens == 1..MaxListens
NoReq == 0

InitDiscovery ==
  /\ provider = 1
  /\ reqs = <<>>
  /\ advertSubs = [k \in AdvertKeys |-> NoReq]
  /\ nodeSignalSubs = NoReq /\ extraSubs = {}
  /\ watch = [w \in Watchers |-> [st |-> "no", req |-> NoReq]]
  /\ connect = [c \in Connects |-> [st |-> "no", of |-> 0]]
  /\ listen = [l \in Listens |-> [st |-> "no", req |-> NoReq]]
  /\ strays = {}

NewReq(kind) == [of |-> provider, kind |-> kind, listeners |-> {}, held |-> FALSE, open |-> TRUE]

\* The REQ at key k, made if there is none; who becomes a listener, or it is held for good.
Subscribed(k, who) ==
  LET id == IF advertSubs[k] = NoReq THEN Len(reqs) + 1 ELSE advertSubs[k]
      entry == IF advertSubs[k] = NoReq THEN NewReq("advert") ELSE reqs[id]
      entered == [entry EXCEPT !.listeners = @ \cup who, !.held = @ \/ who = {}]
  IN /\ reqs' = [i \in DOMAIN reqs \cup {id} |-> IF i = id THEN entered ELSE reqs[i]]
     /\ advertSubs' = [advertSubs EXCEPT ![k] = id]

\* listVisibleNodeHashes, startPresence and startGroupPresence hold their REQ.
Hold(k) ==
  /\ Subscribed(k, {})
  /\ UNCHANGED <<provider, nodeSignalSubs, extraSubs, watch, connect, listen, strays>>

Watch(w, k) ==
  /\ watch[w].st = "no"
  /\ Subscribed(k, {w})
  /\ watch' = [watch EXCEPT ![w] = [st |-> "on", req |-> advertSubs'[k]]]
  /\ UNCHANGED <<provider, nodeSignalSubs, extraSubs, connect, listen, strays>>

\* Mutant of Unused: the last watcher to go takes the REQ with it.
UnusedUnwatched(entry) == entry.listeners = {}

Unused(entry) == entry.listeners = {} /\ ~entry.held

\* The remove function that a watch returned, and releaseAdvertEntryIfIdle.
Unwatch(w) ==
  LET id == watch[w].req
      entry == [reqs[id] EXCEPT !.listeners = @ \ {w}]
  IN /\ watch[w].st = "on"
     /\ watch' = [watch EXCEPT ![w].st = "off"]
     /\ reqs' = [reqs EXCEPT ![id] = [entry EXCEPT !.open = @ /\ ~Unused(entry)]]
     /\ advertSubs' = [k \in AdvertKeys |-> IF advertSubs[k] = id /\ Unused(entry) THEN NoReq ELSE advertSubs[k]]
     /\ UNCHANGED <<provider, nodeSignalSubs, extraSubs, connect, listen, strays>>

\* connectToNode: the node's adverts are held, and its own relays looked up.
ConnectToNode(c, k) ==
  /\ connect[c].st = "no"
  /\ Subscribed(k, {})
  /\ connect' = [connect EXCEPT ![c] = [st |-> "looks", of |-> provider]]
  /\ UNCHANGED <<provider, nodeSignalSubs, extraSubs, watch, listen, strays>>

\* ensurePeerRelaySubscriptions after its await: the provider may be disposed by now.
RelaysAllowed(c) ==
  /\ connect[c].st = "looks"
  /\ connect' = [connect EXCEPT ![c].st = "done"]
  /\ reqs' = Append(reqs, [NewReq("extra") EXCEPT !.of = connect[c].of])
  /\ IF connect[c].of = provider
     THEN extraSubs' = extraSubs \cup {Len(reqs) + 1} /\ UNCHANGED strays
     ELSE strays' = strays \cup {Len(reqs) + 1} /\ UNCHANGED extraSubs
  /\ UNCHANGED <<provider, advertSubs, nodeSignalSubs, watch, listen>>

NoneAllowed(c) ==
  /\ connect[c].st = "looks"
  /\ connect' = [connect EXCEPT ![c].st = "done"]
  /\ UNCHANGED <<provider, reqs, advertSubs, nodeSignalSubs, extraSubs, watch, listen, strays>>

Closed(ids) == [i \in DOMAIN reqs |-> IF i \in ids THEN [reqs[i] EXCEPT !.open = FALSE] ELSE reqs[i]]

\* Mutant of Replacing: a second listenNodeSignals leaves the first REQ.
ReplacingNothing == {}

\* The signal REQ that listenNodeSignals stops before it makes its own.
Replacing == {nodeSignalSubs} \ {NoReq}

ListenNodeSignals(l) ==
  /\ listen[l].st = "no"
  /\ reqs' = Append(Closed(Replacing), NewReq("signal"))
  /\ nodeSignalSubs' = Len(reqs) + 1
  /\ listen' = [listen EXCEPT ![l] = [st |-> "on", req |-> Len(reqs) + 1]]
  /\ UNCHANGED <<provider, advertSubs, extraSubs, watch, connect, strays>>

\* Its stop function closes its own REQ and deletes the entry of the node, whoever's it is.
StopListening(l) ==
  LET id == listen[l].req
      own == reqs[id].of = provider
  IN /\ listen[l].st = "on"
     /\ listen' = [listen EXCEPT ![l].st = "off"]
     /\ reqs' = Closed({id})
     /\ nodeSignalSubs' = IF own THEN NoReq ELSE nodeSignalSubs
     /\ strays' = strays \cup (IF own THEN {nodeSignalSubs} \ {NoReq, id} ELSE {})
     /\ UNCHANGED <<provider, advertSubs, extraSubs, watch, connect>>

\* dispose() of the provider, and another one in its place.
Reload ==
  /\ provider < MaxProviders
  /\ provider' = provider + 1
  /\ reqs' = Closed({advertSubs[k] : k \in AdvertKeys} \cup {nodeSignalSubs} \cup extraSubs)
  /\ advertSubs' = [k \in AdvertKeys |-> NoReq]
  /\ nodeSignalSubs' = NoReq /\ extraSubs' = {}
  /\ UNCHANGED <<watch, connect, listen, strays>>

NextDiscovery ==
  \/ \E k \in AdvertKeys : \/ Hold(k)
                     \/ \E w \in Watchers : Watch(w, k)
                     \/ \E c \in Connects : ConnectToNode(c, k)
  \/ \E w \in Watchers : Unwatch(w)
  \/ \E c \in Connects : RelaysAllowed(c) \/ NoneAllowed(c)
  \/ \E l \in Listens : ListenNodeSignals(l) \/ StopListening(l)
  \/ Reload

SpecDiscovery == InitDiscovery /\ [][NextDiscovery]_discoveryVars

-----------------------------------------------------------------------------
(* Properties. *)

\* Types of the state.
DiscoveryTypeOK ==
  /\ \A i \in DOMAIN reqs :
       reqs[i] \in [of : 1..MaxProviders, kind : {"advert", "signal", "extra"}, listeners : SUBSET Watchers,
                    held : BOOLEAN, open : BOOLEAN]
  /\ advertSubs \in [AdvertKeys -> 0..Len(reqs)] /\ nodeSignalSubs \in 0..Len(reqs)
  /\ extraSubs \subseteq DOMAIN reqs

\* A REQ that is open is one the registered provider knows of and disposes, whatever
\* watchers, listeners and reloads came before; not so for the strays: a REQ for signals
\* whose entry an older stop function deleted (index.mjs:569), and one made for a peer's
\* relays after the provider was disposed (index.mjs:415-419).
NothingLeftOpen ==
  \A i \in DOMAIN reqs \ strays :
    reqs[i].open => i \in {advertSubs[k] : k \in AdvertKeys} \cup {nodeSignalSubs} \cup extraSubs

\* What watches or holds is served: while a watcher of the registered provider has not been
\* stopped its key has an open REQ that calls it, and one that is held stays open when the
\* watchers go (index.mjs:305-360).
WatchersAreServed ==
  /\ \A w \in Watchers :
       watch[w].st = "on" /\ reqs[watch[w].req].of = provider =>
         reqs[watch[w].req].open /\ w \in reqs[watch[w].req].listeners
  /\ \A i \in DOMAIN reqs : reqs[i].held /\ reqs[i].of = provider => reqs[i].open
  /\ \A k \in AdvertKeys : advertSubs[k] # NoReq => reqs[advertSubs[k]].open

\* Both.
DiscoveryHolds == NothingLeftOpen /\ WatchersAreServed

-----------------------------------------------------------------------------
(* publishEvent. *)

VARIABLES
  attempt,      \* each relay's attempt
  publication,  \* the whole, and whether its signal is aborted
  recorded      \* what relay health was told of each relay

publishVars == <<attempt, publication, recorded>>

InitPublish ==
  /\ attempt = [r \in Targets |-> "waits"]
  /\ publication = [st |-> "no", aborted |-> FALSE]
  /\ recorded = [r \in Targets |-> "none"]

Settled(o) == o \in {"dropped", "ok", "no", "aborted"}

\* recordPublishOutcome: what comes after an abort is not held against the relay.
Record(r, ok) ==
  recorded' = IF publication.aborted THEN recorded
              ELSE [recorded EXCEPT ![r] = IF ok THEN "ok" ELSE "bad"]

PublishEvent ==
  /\ publication.st = "no"
  /\ publication' = [publication EXCEPT !.st = "resolving"]
  /\ UNCHANGED <<attempt, recorded>>

TargetResolved(r, found) ==
  /\ publication.st = "resolving" /\ attempt[r] = "waits"
  /\ attempt' = [attempt EXCEPT ![r] = IF found THEN "target" ELSE "dropped"]
  /\ IF found THEN UNCHANGED recorded ELSE Record(r, FALSE)
  /\ UNCHANGED publication

\* Once every relay is resolved, all that have a target are tried at the same time.
TargetsResolved ==
  /\ publication.st = "resolving"
  /\ \A r \in Targets : attempt[r] # "waits"
  /\ publication' = [publication EXCEPT
       !.st = IF \E r \in Targets : attempt[r] = "target" THEN "sending" ELSE "threw"]
  /\ UNCHANGED <<attempt, recorded>>

\* Mutant of Decides: the first attempt to settle decides.
DecidesFirst(at) == TRUE

\* Promise.any over the attempts: one that is accepted decides, or all have settled.
Decides(at) == \/ \E r \in Targets : at[r] = "ok"
               \/ \A r \in Targets : Settled(at[r])

AttemptSettles(r, outcome) ==
  /\ publication.st \in {"sending", "resolved", "threw"} /\ attempt[r] = "target"
  /\ outcome = "aborted" => publication.aborted
  /\ attempt' = [attempt EXCEPT ![r] = outcome]
  /\ IF outcome = "aborted" THEN UNCHANGED recorded ELSE Record(r, outcome = "ok")
  /\ publication' = IF publication.st = "sending" /\ Decides(attempt')
                    THEN [publication EXCEPT !.st = IF outcome = "ok" THEN "resolved" ELSE "threw"]
                    ELSE publication

\* The stop function of a presence.
StopPresence ==
  /\ publication.st # "no" /\ ~publication.aborted
  /\ publication' = [publication EXCEPT !.aborted = TRUE]
  /\ UNCHANGED <<attempt, recorded>>

NextPublish ==
  \/ PublishEvent \/ TargetsResolved \/ StopPresence
  \/ \E r \in Targets : \/ \E found \in BOOLEAN : TargetResolved(r, found)
                       \/ \E o \in {"ok", "no", "aborted"} : AttemptSettles(r, o)

SpecPublish == InitPublish /\ [][NextPublish]_publishVars

-----------------------------------------------------------------------------
(* Properties. *)

\* Types of the state.
PublishTypeOK ==
  /\ publication \in [st : {"no", "resolving", "sending", "resolved", "threw"}, aborted : BOOLEAN]
  /\ attempt \in [Targets -> {"waits", "target", "dropped", "ok", "no", "aborted"}]
  /\ recorded \in [Targets -> {"none", "ok", "bad"}]

\* A publication resolves if some relay accepted the event, throws only if all are through
\* and none did, and tells each relay's health what happened there, whichever came first
\* and unless it was stopped (index.mjs:214-262).
PublishTellsTruth ==
  /\ publication.st = "resolved" => \E r \in Targets : attempt[r] = "ok"
  /\ publication.st = "threw" => \A r \in Targets : Settled(attempt[r]) /\ attempt[r] # "ok"
  /\ publication.st \in {"sending", "resolving"} => \A r \in Targets : attempt[r] # "ok"
  /\ \A r \in Targets :
       /\ recorded[r] = "ok" => attempt[r] = "ok"
       /\ recorded[r] = "bad" => attempt[r] \in {"no", "dropped"}
       /\ ~publication.aborted /\ Settled(attempt[r]) => recorded[r] # "none"
=============================================================================
