------------------------------- MODULE PeerPools -------------------------------
(***************************************************************************)
(* The pools of known peers (node/network.mjs) and the choice of whom to   *)
(* dial from them (transport/peer_pool.mjs).  Every change is made to the  *)
(* cached table in place and then saved, which may fail; every list has a  *)
(* cap, and every source of hints its quota.                               *)
(***************************************************************************)
EXTENDS Naturals, Sequences, FiniteSets, SequencesExt

CONSTANTS
  Known,          \* nodes
  Self,           \* this one
  HintSources,    \* where hints come from
  Scores,         \* the reputation of each node
  MaxTrusted, MaxExplore, MaxHints, MaxHintsPerSource, \* caps of network.json
  MeshN, MeshK,   \* links to keep, and how many of them to trusted peers
  ExploreMaxPerSource, \* explore picks of one source
  TrustedSlots, ExploreSlots, \* slots of a group
  AnchorSets, Quarantines, \* whom a group may name as anchors, and who may be in quarantine
  MaxPoolCalls    \* bound: calls

ASSUME PoolsAssumption ==
  /\ IsFiniteSet(Known) /\ Self \in Known /\ Scores \in [Known -> Nat]
  /\ {MaxTrusted, MaxExplore, MaxHints, MaxHintsPerSource, ExploreMaxPerSource} \subseteq Nat \ {0}
  /\ MeshN \in Nat \ {0} /\ MeshK \in 0..MeshN /\ {TrustedSlots, ExploreSlots} \subseteq Nat
  /\ AnchorSets \cup Quarantines \subseteq SUBSET Known

VARIABLES
  net,   \* the cache: trusted and explore peers and hints, the newest last
  networkFile,    \* network.json
  denied,    \* nodes that are denied everywhere
  unsaved,   \* history: the last save failed
  poolCalls

poolVars == <<net, networkFile, denied, unsaved, poolCalls>>

NoNetwork == [trusted |-> <<>>, explore |-> <<>>, hints |-> <<>>]

InitPools ==
  /\ net = NoNetwork /\ networkFile = NoNetwork
  /\ denied = {} /\ unsaved = FALSE /\ poolCalls = 0

-----------------------------------------------------------------------------
(* The table. *)

Newest(n, list) == IF Len(list) > n THEN SubSeq(list, Len(list) - n + 1, Len(list)) ELSE list

\* What stands at some places of a list, in its order.
Picked(list, places) ==
  [j \in 1..Cardinality(places) |->
     list[CHOOSE i \in places : Cardinality({k \in places : k <= i}) = j]]

Less(list, ids) == Picked(list, {i \in DOMAIN list : list[i] \notin ids})
Added(list, id) == IF Contains(list, id) THEN list ELSE Append(list, id)

\* Added one after the other, of a list that has nobody twice.
AddedAll(list, ids) == list \o Less(ids, ToSet(list))

NewerOfSource(hints, i) == {k \in DOMAIN hints : k > i /\ hints[k].source = hints[i].source}

\* Mutant of capHintsBySource: the newest hints, whoever gave them.
capHintsOfAll(hints) == Newest(MaxHintsPerSource, hints)

\* The newest of each source, in their order.
capHintsBySource(hints) ==
  Picked(hints, {i \in DOMAIN hints : Cardinality(NewerOfSource(hints, i)) < MaxHintsPerSource})

Live(hints) == Picked(hints, {i \in DOMAIN hints : hints[i].live})

CleanNetwork(table) ==
  [trusted |-> Newest(MaxTrusted, table.trusted),
   explore |-> Newest(MaxExplore, table.explore),
   hints |-> Newest(MaxHints, capHintsBySource(Live(table.hints)))]

\* saveNetwork of a table changed in the cache; a write that throws leaves it there.
saveNetwork(table) ==
  /\ poolCalls < MaxPoolCalls /\ poolCalls' = poolCalls + 1
  /\ \/ net' = CleanNetwork(table) /\ networkFile' = net' /\ unsaved' = FALSE
     \/ net' = table /\ unsaved' = TRUE /\ UNCHANGED networkFile
  /\ UNCHANGED denied

\* A node has one hint of a kind, from the source that gave it last.
OtherHints(hints, id) == Picked(hints, {i \in DOMAIN hints : hints[i].node # id \/ hints[i].kind # "hint"})

Hinted(id, source) ==
  [net EXCEPT !.explore = Added(@, id),
    !.hints = Append(OtherHints(@, id),
                     [node |-> id, source |-> source, kind |-> "hint", live |-> TRUE])]

applyNetworkHint(id, source) == saveNetwork(Hinted(id, source))

\* One recovery hint for each trusted peer; their old ones stay, up to the source's quota.
widenExploreFromTrustedAnchors ==
  LET hinted == [i \in DOMAIN net.trusted |->
        [node |-> net.trusted[i], source |-> "recovery:trusted", kind |-> "recovery", live |-> TRUE]]
  IN saveNetwork([net EXCEPT !.explore = Newest(MaxExplore, AddedAll(@, net.trusted)),
                    !.hints = Newest(MaxHints, capHintsBySource(@ \o hinted))])

promoteExplorePeer(id) ==
  saveNetwork([net EXCEPT !.explore = Less(@, {id}), !.trusted = Added(@, id)])

replaceNetworkPeerPools(trusted, explore) ==
  saveNetwork([net EXCEPT !.trusted = trusted, !.explore = explore])

\* Time passes; what has expired is dropped at the next save.
HintsAge ==
  LET aged(hints) == [i \in DOMAIN hints |-> [hints[i] EXCEPT !.live = FALSE]] IN
  /\ \E h \in ToSet(net.hints) : h.live
  /\ poolCalls < MaxPoolCalls /\ poolCalls' = poolCalls + 1
  /\ net' = [net EXCEPT !.hints = aged(@)] /\ networkFile' = [networkFile EXCEPT !.hints = aged(@)]
  /\ UNCHANGED <<denied, unsaved>>

Deny(id) ==
  /\ poolCalls < MaxPoolCalls /\ poolCalls' = poolCalls + 1
  /\ denied' = IF id \in denied THEN denied \ {id} ELSE denied \cup {id}
  /\ UNCHANGED <<net, networkFile, unsaved>>

RestartNetwork ==
  /\ net' = networkFile /\ unsaved' = FALSE
  /\ UNCHANGED <<networkFile, denied, poolCalls>>

-----------------------------------------------------------------------------
(* The choice. *)

\* Sorted by reputation, equal ones as they came.
ByScore(list) ==
  LET before(i, k) == Scores[list[i]] > Scores[list[k]] \/ (Scores[list[i]] = Scores[list[k]] /\ i <= k)
      rank(i) == Cardinality({k \in DOMAIN list : before(k, i)})
  IN [j \in DOMAIN list |-> list[CHOOSE i \in DOMAIN list : rank(i) = j]]

Oldest(n, list) == SubSeq(list, 1, IF n < Len(list) THEN n ELSE Len(list))

\* loadPeerPoolView: a node's source is that of its oldest hint.
SourceOf(id) ==
  LET of == {i \in DOMAIN net.hints : net.hints[i].node = id}
  IN IF of = {} THEN "unknown" ELSE net.hints[CHOOSE i \in of : \A k \in of : i <= k].source

\* Those of the same source that the shuffle puts before it.
Ahead(pool, order, id) ==
  {x \in ToSet(pool) : SourceOf(x) = SourceOf(id) /\ order[x] < order[id]}

\* Mutant of Turn: the shuffle alone, whoever gave the hints.
TurnOfAny(pool, order, id) == Cardinality({x \in ToSet(pool) : order[x] < order[id]})

\* The round in which its source gives it.
Turn(pool, order, id) == Cardinality(Ahead(pool, order, id))

FirstOf(pool, id) == CHOOSE i \in DOMAIN pool :
  SourceOf(pool[i]) = SourceOf(id) /\ \A k \in DOMAIN pool : SourceOf(pool[k]) = SourceOf(id) => i <= k

\* selectExploreWithSourceQuota for the shuffle order: round after round, each source in
\* turn gives its next, up to its quota; without any hint the shuffle alone decides.
selectExploreWithSourceQuota(pool, order, k) ==
  LET turn(id) == Turn(pool, order, id)
      may == {id \in ToSet(pool) : turn(id) < ExploreMaxPerSource}
      sooner(x, id) == turn(x) < turn(id) \/ (turn(x) = turn(id) /\ FirstOf(pool, x) < FirstOf(pool, id))
  IN IF net.hints = <<>> THEN {id \in ToSet(pool) : Cardinality({x \in ToSet(pool) : order[x] < order[id]}) < k}
     ELSE {id \in may : Cardinality({x \in may : sooner(x, id)}) < k}

\* mergeTrustedWithAnchors: those trusted already, then the others, up to the slots.
mergeTrustedWithAnchors(existing, ranked, slots) ==
  LET anchored == Picked(existing, {i \in DOMAIN existing : Contains(ranked, existing[i])})
  IN Oldest(slots, anchored \o Less(ranked, ToSet(anchored)))

\* rebuildExploreAndTrusted and mergeNetworkPeerPools, for PEX hints and for a roster.
mergePexNodeHints(ids) ==
  LET explore == Newest(MaxExplore, Less(AddedAll(net.explore, SetToSeq(ids \ denied)), denied))
      ranked == ByScore(Less(AddedAll(net.trusted, explore), denied))
      trusted == mergeTrustedWithAnchors(net.trusted, ranked, TrustedSlots)
  IN saveNetwork([net EXCEPT !.trusted = AddedAll(@, trusted), !.explore = AddedAll(@, explore)])

Eligible(list, quarantined) == Less(list, {Self} \cup denied \cup quarantined)

\* selectMeshLinkTargets
MeshTargets(connected, quarantined, order) ==
  LET trusted == Eligible(net.trusted, quarantined)
      K == IF MeshK < Len(trusted) THEN MeshK ELSE Len(trusted)
      met == Cardinality(connected \cap ToSet(trusted))
      gap == IF K > met THEN K - met ELSE 0
      acquaintances == Oldest(gap, ByScore(Less(trusted, connected)))
      strangers == Cardinality(connected) - met
      quota == IF MeshN - K > strangers THEN MeshN - K - strangers ELSE 0
      used == Cardinality(connected) + Len(acquaintances)
      free == IF MeshN > used THEN MeshN - used ELSE 0
      pool == Less(Eligible(net.explore, quarantined), connected \cup ToSet(trusted))
  IN [trusted |-> ToSet(acquaintances), pool |-> ToSet(pool), need |-> IF quota < free THEN quota ELSE free,
      explore |-> selectExploreWithSourceQuota(pool, order, IF quota < free THEN quota ELSE free)]

\* selectLinkTargetsFromMembers
GroupTargets(members, anchors, quarantined, order) ==
  LET ranked == ByScore(Eligible(members, quarantined))
      forced == anchors \cap ToSet(ranked)
      trusted == mergeTrustedWithAnchors(net.trusted, Less(ranked, forced), TrustedSlots)
      rest == Less(ranked, forced \cup ToSet(trusted))
  IN forced \cup ToSet(trusted) \cup selectExploreWithSourceQuota(rest, order, ExploreSlots)

NextPools ==
  \/ \E id \in Known \ {Self} : Deny(id) \/ mergePexNodeHints({id, Self})
  \/ \E id \in ToSet(net.explore) : promoteExplorePeer(id) \/ replaceNetworkPeerPools(<<id>>, <<>>)
  \/ \E id \in Known, source \in HintSources : applyNetworkHint(id, source)
  \/ widenExploreFromTrustedAnchors \/ HintsAge \/ RestartNetwork

SpecPools == InitPools /\ [][NextPools]_poolVars

-----------------------------------------------------------------------------
(* Properties. *)

\* Types of the state; the lists hold nobody twice.
PoolsTypeOK ==
  /\ IsInjective(net.trusted) /\ IsInjective(net.explore)
  /\ ToSet(net.trusted) \cup ToSet(net.explore) \cup denied \subseteq Known

\* The ways a shuffle may order the others.
Orders == {f \in [Known -> 1..Cardinality(Known)] : f[Self] = 1 /\ Cardinality({f[id] : id \in Known}) = Cardinality(Known)}

\* Of what was chosen from a pool no source gave more than its quota, and none gave two
\* more than one that had another to give.
SharesAreFair(pool, chosen) ==
  LET given(source) == Cardinality({id \in chosen : SourceOf(id) = source})
      sources == {SourceOf(id) : id \in pool}
      more(source) == given(source) < ExploreMaxPerSource /\ \E id \in pool \ chosen : SourceOf(id) = source
  IN /\ chosen \subseteq pool
     /\ net.hints # <<>> => \A a \in sources :
          given(a) <= ExploreMaxPerSource /\ \A b \in sources : more(b) => given(a) <= given(b) + 1

\* Whatever is connected and however it is shuffled: nobody is dialed who is connected,
\* denied or this node; the trusted links reach K where there are as many trusted peers;
\* new explore targets stay within N links, and within N - K with those there are; and no
\* source of hints crowds out another (peer_pool.mjs:376-418, 95-123).
MeshTargetsFit ==
  \A connected \in SUBSET (Known \ {Self}), order \in Orders :
    LET t == MeshTargets(connected, {}, order)
        friends == ToSet(net.trusted) \ (denied \cup {Self})
        K == IF MeshK < Cardinality(friends) THEN MeshK ELSE Cardinality(friends)
    IN /\ (t.trusted \cup t.explore) \cap (connected \cup denied \cup {Self}) = {}
       /\ Cardinality((connected \cup t.trusted) \cap friends) >= K
       /\ t.explore # {} => /\ Cardinality(connected \cup t.trusted \cup t.explore) <= MeshN
                            /\ Cardinality(connected \ friends) + Cardinality(t.explore) <= MeshN - K
       /\ SharesAreFair(t.pool, t.explore)

\* A group dials every anchor it may dial, and beside them no more than its slots; a
\* trusted member is passed over only for others trusted before
\* (peer_pool.mjs:212-230, 78-85).
GroupTargetsFit ==
  LET members == SetToSeq(Known)
  IN \A anchors \in AnchorSets, quarantined \in Quarantines, order \in Orders :
       LET chosen == GroupTargets(members, anchors, quarantined, order)
           barred == denied \cup quarantined \cup {Self}
           loyal == (ToSet(net.trusted) \cap chosen) \ anchors
       IN /\ chosen \cap barred = {} /\ anchors \ barred \subseteq chosen
          /\ Cardinality(chosen \ anchors) <= TrustedSlots + ExploreSlots
          /\ ToSet(net.trusted) \subseteq chosen \cup barred \/ Cardinality(loyal) >= TrustedSlots

\* Unless the last save failed the file is the cache, within every cap and with no more
\* hints of a source than its quota; and one more hint of one source then takes no live
\* hint of another from another node while the table has room
\* (network.mjs:112-122, 94-106).
PoolsKeep ==
  LET quota(source) == Cardinality({i \in DOMAIN net.hints : net.hints[i].source = source})
  IN ~unsaved =>
       /\ Len(net.trusted) <= MaxTrusted /\ Len(net.explore) <= MaxExplore
       /\ \A h \in ToSet(net.hints) : quota(h.source) <= MaxHintsPerSource
       /\ \A h \in ToSet(net.hints), id \in Known, source \in HintSources :
            (h.live /\ h.source # source /\ h.node # id /\ Len(net.hints) < MaxHints)
              => Contains(CleanNetwork(Hinted(id, source)).hints, h)
       /\ net = networkFile
=============================================================================
