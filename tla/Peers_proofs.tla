----------------------------- MODULE Peers_proofs -----------------------------
(*****************************************************************************)
(* Proofs about how a node finds peers and keeps with them: the REQs and     *)
(* publications of discovery (NostrDiscovery), the pool of relays            *)
(* (RelayBook), groups (GroupLinkSet), the keepalive of the mesh             *)
(* (MeshKeepalive), the shutdown of a registry (RegistryShutdown), the       *)
(* scope that features are attached to (EnvelopeDispatch), what nodes think of *)
(* each other (Reputation), and whom to dial of those known (PeerPools).     *)
(*                                                                           *)
(* A pool is a list in which nobody is twice: what is chosen of it is        *)
(* bounded by the ranks of what could be chosen, and a rank is had by one    *)
(* of the list only.                                                         *)
(*****************************************************************************)
EXTENDS NostrDiscovery, RelayBook, GroupLinkSet, MeshKeepalive, RegistryShutdown, EnvelopeDispatch,
  Reputation, PeerPools, DataLemmas, FiniteSetTheorems

-----------------------------------------------------------------------------
(* The REQs of a provider. *)

\* What a REQ is.
Req == [of : 1..provider, kind : {"advert", "signal", "extra"}, listeners : SUBSET Watchers,
        held : BOOLEAN, open : BOOLEAN]

\* Shapes: ids are of REQs that were made.
DiscoveryShape ==
  /\ provider \in 1..MaxProviders
  /\ reqs \in Seq(Req)
  /\ advertSubs \in [AdvertKeys -> 0..Len(reqs)]
  /\ nodeSignalSubs \in 0..Len(reqs)
  /\ extraSubs \subseteq 1..Len(reqs)
  /\ strays \subseteq 1..Len(reqs)
  /\ watch \in [Watchers -> [st : {"no", "on", "off"}, req : 0..Len(reqs)]]
  /\ connect \in [Connects -> [st : {"no", "looks", "done"}, of : 0..provider]]
  /\ listen \in [Listens -> [st : {"no", "on", "off"}, req : 0..Len(reqs)]]
  /\ \A w \in Watchers : watch[w].st = "on" => watch[w].req # 0
  /\ \A c \in Connects : connect[c].st = "looks" => connect[c].of # 0
  /\ \A l \in Listens : listen[l].st = "on" => listen[l].req # 0

\* What is watched or held is an advert; what is listened to is a signal.
KindsFit ==
  /\ \A k \in AdvertKeys : advertSubs[k] # NoReq =>
       reqs[advertSubs[k]].kind = "advert" /\ reqs[advertSubs[k]].of = provider
  /\ nodeSignalSubs # NoReq => reqs[nodeSignalSubs].kind = "signal"
  /\ \A w \in Watchers : watch[w].st = "on" => reqs[watch[w].req].kind = "advert"
  /\ \A l \in Listens : listen[l].st = "on" => reqs[listen[l].req].kind = "signal"
  /\ \A i \in DOMAIN reqs : reqs[i].held => reqs[i].kind = "advert"

DiscoveryInv == DiscoveryShape /\ KindsFit /\ NothingLeftOpen /\ WatchersAreServed

\* A subscription changes or adds one REQ, of kind advert and open.
LEMMA SubscribedEffect ==
  ASSUME DiscoveryInv, NEW k \in AdvertKeys, NEW who \in SUBSET Watchers, Subscribed(k, who),
         provider' = provider
  PROVE  \E id \in 1..(Len(reqs) + 1) :
           /\ reqs' \in Seq(Req) /\ Len(reqs') >= Len(reqs) /\ id <= Len(reqs')
           /\ advertSubs' = [advertSubs EXCEPT ![k] = id]
           /\ reqs'[id].kind = "advert" /\ reqs'[id].of = provider /\ reqs'[id].open
           /\ who \subseteq reqs'[id].listeners
           /\ advertSubs[k] # NoReq => id = advertSubs[k]
           /\ id <= Len(reqs) => /\ id = advertSubs[k]
                                 /\ reqs[id].listeners \subseteq reqs'[id].listeners
           /\ \A i \in 1..Len(reqs') : i # id => i \in 1..Len(reqs) /\ reqs'[i] = reqs[i]
<1> DEFINE id == IF advertSubs[k] = NoReq THEN Len(reqs) + 1 ELSE advertSubs[k]
<1> DEFINE entry == IF advertSubs[k] = NoReq THEN NewReq("advert") ELSE reqs[id]
<1> DEFINE entered == [entry EXCEPT !.listeners = @ \cup who, !.held = @ \/ who = {}]
<1> DEFINE n == IF advertSubs[k] = NoReq THEN Len(reqs) + 1 ELSE Len(reqs)
<1> USE DEF DiscoveryInv, DiscoveryShape, NoReq
<1>1. /\ reqs' = [i \in DOMAIN reqs \cup {id} |-> IF i = id THEN entered ELSE reqs[i]]
      /\ advertSubs' = [advertSubs EXCEPT ![k] = id]
  BY DEF Subscribed
<1>2. /\ Len(reqs) \in Nat /\ DOMAIN reqs = 1..Len(reqs)
      /\ \A i \in 1..Len(reqs) : reqs[i] \in Req
  BY LenProperties
<1>3. /\ id \in 1..(Len(reqs) + 1) /\ n \in Nat /\ DOMAIN reqs \cup {id} = 1..n /\ id \in 1..n
      /\ n >= Len(reqs)
      /\ id <= Len(reqs) => id = advertSubs[k]
      /\ \A i \in 1..n : i # id => i \in 1..Len(reqs)
  BY <1>2
<1>4. entry \in Req /\ entry.kind = "advert" /\ entry.of = provider /\ entry.open
  <2>1. CASE advertSubs[k] = NoReq
    BY <2>1 DEF NewReq, Req
  <2>2. CASE advertSubs[k] # NoReq
    BY <2>2, <1>2 DEF KindsFit, WatchersAreServed
  <2> QED
    BY <2>1, <2>2
<1>5. /\ entered \in Req /\ entered.kind = "advert" /\ entered.of = provider /\ entered.open
      /\ who \subseteq entered.listeners /\ entry.listeners \subseteq entered.listeners
  <2> HIDE DEF entry
  <2> QED
    BY <1>4 DEF Req
<1>6. /\ id <= Len(reqs) => entry = reqs[id]
      /\ advertSubs[k] # NoReq => id = advertSubs[k]
  BY <1>2
<1> HIDE DEF id, entry, entered, n
<1>7. reqs' \in [1..n -> Req]
  BY <1>1, <1>2, <1>3, <1>5
<1>8. reqs' \in Seq(Req) /\ Len(reqs') = n
  BY <1>3, <1>7, FunctionIsSeq
<1>9. reqs'[id] = entered /\ \A i \in 1..n : i # id => reqs'[i] = reqs[i]
  BY <1>1, <1>3
<1>10. id <= Len(reqs) => reqs[id].listeners \subseteq reqs'[id].listeners
  BY <1>5, <1>6, <1>9
<1>11. /\ reqs' \in Seq(Req) /\ Len(reqs') >= Len(reqs) /\ id <= Len(reqs')
       /\ advertSubs' = [advertSubs EXCEPT ![k] = id]
       /\ reqs'[id].kind = "advert" /\ reqs'[id].of = provider /\ reqs'[id].open
       /\ who \subseteq reqs'[id].listeners
       /\ advertSubs[k] # NoReq => id = advertSubs[k]
       /\ id <= Len(reqs) => /\ id = advertSubs[k]
                             /\ reqs[id].listeners \subseteq reqs'[id].listeners
       /\ \A i \in 1..Len(reqs') : i # id => i \in 1..Len(reqs) /\ reqs'[i] = reqs[i]
  <2>1. \A i \in 1..Len(reqs') : i # id => i \in 1..Len(reqs) /\ reqs'[i] = reqs[i]
    BY <1>3, <1>8, <1>9
  <2>2. id <= Len(reqs) => id = advertSubs[k] /\ reqs[id].listeners \subseteq reqs'[id].listeners
    BY <1>3, <1>10
  <2>3. reqs' \in Seq(Req) /\ Len(reqs') >= Len(reqs) /\ id <= Len(reqs')
    BY <1>2, <1>3, <1>8
  <2> QED
    BY <1>1, <1>5, <1>6, <1>9, <2>1, <2>2, <2>3
<1> QED
  BY <1>3, <1>11, Zenon

\* And so it keeps the invariant, if the calls still name REQs of theirs.
LEMMA SubscribedKeeps ==
  ASSUME DiscoveryInv, NEW k \in AdvertKeys, NEW who \in SUBSET Watchers, Subscribed(k, who),
         provider' = provider, UNCHANGED <<nodeSignalSubs, extraSubs, strays, listen>>,
         connect' \in [Connects -> [st : {"no", "looks", "done"}, of : 0..provider]],
         \A c \in Connects : connect'[c].st = "looks" => connect'[c].of # 0,
         \/ watch' = watch
         \/ \E w \in who : watch' = [watch EXCEPT ![w] = [st |-> "on", req |-> advertSubs'[k]]]
  PROVE  DiscoveryInv'
<1>1. PICK id \in 1..(Len(reqs) + 1) :
           /\ reqs' \in Seq(Req) /\ Len(reqs') >= Len(reqs) /\ id <= Len(reqs')
           /\ advertSubs' = [advertSubs EXCEPT ![k] = id]
           /\ reqs'[id].kind = "advert" /\ reqs'[id].of = provider /\ reqs'[id].open
           /\ who \subseteq reqs'[id].listeners
           /\ advertSubs[k] # NoReq => id = advertSubs[k]
           /\ id <= Len(reqs) => /\ id = advertSubs[k]
                                 /\ reqs[id].listeners \subseteq reqs'[id].listeners
           /\ \A i \in 1..Len(reqs') : i # id => i \in 1..Len(reqs) /\ reqs'[i] = reqs[i]
  BY SubscribedEffect
<1>2. /\ Len(reqs) \in Nat /\ DOMAIN reqs = 1..Len(reqs) /\ Len(reqs') \in Nat
      /\ DOMAIN reqs' = 1..Len(reqs') /\ Req' = Req
  BY <1>1, LenProperties DEF DiscoveryInv, DiscoveryShape, Req
<1>3. advertSubs \in [AdvertKeys -> 0..Len(reqs)] /\ id # 0 /\ advertSubs'[k] = id
  BY <1>1, <1>2 DEF DiscoveryInv, DiscoveryShape
<1>4. ASSUME NEW w \in Watchers, watch'[w].st = "on"
      PROVE  \/ watch[w].st = "on" /\ watch'[w] = watch[w]
             \/ w \in who /\ watch'[w].req = id
  BY <1>3, <1>4 DEF DiscoveryInv, DiscoveryShape
<1>5. DiscoveryShape'
  <2>1. watch' \in [Watchers -> [st : {"no", "on", "off"}, req : 0..Len(reqs')]]
    <3>1. advertSubs'[k] \in 0..Len(reqs') /\ watch \in [Watchers -> [st : {"no", "on", "off"}, req : 0..Len(reqs')]]
      BY <1>1, <1>2, <1>3 DEF DiscoveryInv, DiscoveryShape
    <3>2. CASE watch' = watch
      BY <3>1, <3>2
    <3>3. ASSUME NEW w \in who, watch' = [watch EXCEPT ![w] = [st |-> "on", req |-> advertSubs'[k]]]
          PROVE  watch' \in [Watchers -> [st : {"no", "on", "off"}, req : 0..Len(reqs')]]
      BY <3>1, <3>3
    <3> QED
      BY <3>2, <3>3
  <2>2. advertSubs' \in [AdvertKeys -> 0..Len(reqs')]
    BY <1>1, <1>2, <1>3
  <2>3. \A w \in Watchers : watch'[w].st = "on" => watch'[w].req # 0
    BY <1>3, <1>4 DEF DiscoveryInv, DiscoveryShape
  <2>4. listen' \in [Listens -> [st : {"no", "on", "off"}, req : 0..Len(reqs')]]
    BY <1>1, <1>2 DEF DiscoveryInv, DiscoveryShape
  <2> QED
    BY <1>1, <1>2, <2>1, <2>2, <2>3, <2>4 DEF DiscoveryInv, DiscoveryShape
<1>6. KindsFit'
  <2> USE DEF DiscoveryInv, DiscoveryShape, KindsFit, NoReq
  <2>1. ASSUME NEW j \in AdvertKeys, advertSubs'[j] # NoReq
        PROVE  reqs'[advertSubs'[j]].kind = "advert" /\ reqs'[advertSubs'[j]].of = provider
    BY <2>1, <1>1, <1>2, <1>3
  <2>2. nodeSignalSubs # NoReq => reqs'[nodeSignalSubs].kind = "signal"
    <3>1. CASE nodeSignalSubs = id
      BY <3>1, <1>1, <1>2, <1>3
    <3>2. CASE nodeSignalSubs # id
      BY <3>2, <1>1, <1>2
    <3> QED
      BY <3>1, <3>2
  <2>3. ASSUME NEW w \in Watchers, watch'[w].st = "on"
        PROVE  reqs'[watch'[w].req].kind = "advert"
    BY <2>3, <1>1, <1>2, <1>4
  <2>4. ASSUME NEW l \in Listens, listen[l].st = "on"
        PROVE  reqs'[listen[l].req].kind = "signal"
    <3>1. listen[l].req \in 1..Len(reqs) /\ reqs[listen[l].req].kind = "signal"
      BY <2>4, <1>2
    <3>2. listen[l].req # id
      BY <3>1, <1>1, <1>2, <1>3
    <3> QED
      BY <3>1, <3>2, <1>1, <1>2
  <2>5. ASSUME NEW i \in 1..Len(reqs'), reqs'[i].held
        PROVE  reqs'[i].kind = "advert"
    <3>1. CASE i # id
      <4>1. i \in DOMAIN reqs /\ reqs'[i] = reqs[i]
        BY <3>1, <1>1, <1>2
      <4> QED
        BY <4>1, <2>5
    <3>2. CASE i = id
      BY <3>2, <1>1
    <3> QED
      BY <3>1, <3>2
  <2> QED
    BY <2>1, <2>2, <2>3, <2>4, <2>5, <1>2
<1>7. NothingLeftOpen'
  <2> SUFFICES ASSUME NEW i \in 1..Len(reqs'), i \notin strays', reqs'[i].open
               PROVE  i \in {advertSubs'[j] : j \in AdvertKeys} \cup {nodeSignalSubs'} \cup extraSubs'
    BY <1>2 DEF NothingLeftOpen
  <2>1. CASE i = id
    BY <2>1, <1>3
  <2>2. CASE i # id
    <3>1. i \in {advertSubs[j] : j \in AdvertKeys} \cup {nodeSignalSubs} \cup extraSubs
      BY <2>2, <1>1, <1>2 DEF DiscoveryInv, NothingLeftOpen
    <3>2. ASSUME NEW j \in AdvertKeys, i = advertSubs[j]
          PROVE  i = advertSubs'[j]
      BY <3>2, <2>2, <1>1, <1>2, <1>3 DEF DiscoveryInv, DiscoveryShape, NoReq
    <3> QED
      BY <3>1, <3>2
  <2> QED
    BY <2>1, <2>2
<1>8. WatchersAreServed'
  <2>1. ASSUME NEW w \in Watchers, watch'[w].st = "on", reqs'[watch'[w].req].of = provider
        PROVE  reqs'[watch'[w].req].open /\ w \in reqs'[watch'[w].req].listeners
    <3>1. CASE watch'[w].req = id
      <4>1. CASE w \in who
        BY <4>1, <3>1, <1>1
      <4>2. CASE watch[w].st = "on" /\ watch'[w] = watch[w]
        <5>1. watch[w].req = id /\ id \in 1..Len(reqs) /\ id = advertSubs[k]
          BY <4>2, <3>1, <1>1, <1>2 DEF DiscoveryInv, DiscoveryShape
        <5>2. reqs[id].of = provider
          BY <5>1, <1>3 DEF DiscoveryInv, KindsFit, NoReq
        <5>3. w \in reqs[id].listeners
          BY <5>1, <5>2, <4>2 DEF DiscoveryInv, WatchersAreServed
        <5> QED
          BY <5>1, <5>3, <3>1, <1>1
      <4> QED
        BY <4>1, <4>2, <1>4, <2>1
    <3>2. CASE watch'[w].req # id
      BY <3>2, <2>1, <1>1, <1>2, <1>4 DEF DiscoveryInv, DiscoveryShape, WatchersAreServed
    <3> QED
      BY <3>1, <3>2
  <2>2. ASSUME NEW i \in 1..Len(reqs'), reqs'[i].held, reqs'[i].of = provider
        PROVE  reqs'[i].open
    BY <2>2, <1>1, <1>2 DEF DiscoveryInv, WatchersAreServed
  <2>3. ASSUME NEW j \in AdvertKeys, advertSubs'[j] # NoReq
        PROVE  reqs'[advertSubs'[j]].open
    BY <2>3, <1>1, <1>2, <1>3 DEF DiscoveryInv, DiscoveryShape, WatchersAreServed, NoReq
  <2> QED
    BY <2>1, <2>2, <2>3, <1>2 DEF WatchersAreServed
<1> QED
  BY <1>5, <1>6, <1>7, <1>8 DEF DiscoveryInv
\* REQs that are closed keep everything else.
LEMMA ClosedEffect ==
  ASSUME DiscoveryInv, NEW ids
  PROVE  /\ Closed(ids) \in Seq(Req) /\ Len(Closed(ids)) = Len(reqs)
         /\ DOMAIN reqs = 1..Len(reqs) /\ DOMAIN Closed(ids) = 1..Len(reqs) /\ Len(reqs) \in Nat
         /\ \A i \in 1..Len(reqs) :
              /\ reqs[i] \in Req /\ Closed(ids)[i] \in Req
              /\ Closed(ids)[i].of = reqs[i].of /\ Closed(ids)[i].kind = reqs[i].kind
              /\ Closed(ids)[i].held = reqs[i].held /\ Closed(ids)[i].listeners = reqs[i].listeners
              /\ i \in ids => ~ Closed(ids)[i].open
              /\ i \notin ids => Closed(ids)[i] = reqs[i]
<1>1. Len(reqs) \in Nat /\ DOMAIN reqs = 1..Len(reqs) /\ \A i \in 1..Len(reqs) : reqs[i] \in Req
  BY LenProperties DEF DiscoveryInv, DiscoveryShape
<1> DEFINE shut(i) == [reqs[i] EXCEPT !.open = FALSE]
<1>2. ASSUME NEW i \in 1..Len(reqs)
      PROVE  /\ shut(i) \in Req /\ shut(i).of = reqs[i].of /\ shut(i).kind = reqs[i].kind
             /\ shut(i).held = reqs[i].held /\ shut(i).listeners = reqs[i].listeners /\ ~ shut(i).open
  <2>1. reqs[i] \in Req
    BY <1>1
  <2> QED
    BY <2>1 DEF Req
<1>3. Closed(ids) = [i \in 1..Len(reqs) |-> IF i \in ids THEN shut(i) ELSE reqs[i]]
  BY <1>1 DEF Closed
<1> HIDE DEF shut
<1>4. Closed(ids) \in [1..Len(reqs) -> Req]
  BY <1>1, <1>2, <1>3
<1>5. Closed(ids) \in Seq(Req) /\ Len(Closed(ids)) = Len(reqs)
  BY <1>1, <1>4, FunctionIsSeq
<1> QED
  BY <1>1, <1>2, <1>3, <1>4, <1>5

LEMMA UnwatchKeeps ==
  ASSUME DiscoveryInv, NEW w \in Watchers, Unwatch(w)
  PROVE  DiscoveryInv'
<1> DEFINE id == watch[w].req
<1> DEFINE entry == [reqs[id] EXCEPT !.listeners = @ \ {w}]
<1> DEFINE left == [entry EXCEPT !.open = @ /\ ~Unused(entry)]
<1> USE DEF DiscoveryInv
<1>1. /\ Len(reqs) \in Nat /\ DOMAIN reqs = 1..Len(reqs) /\ id \in 1..Len(reqs)
      /\ \A i \in 1..Len(reqs) : reqs[i] \in Req
  BY LenProperties DEF DiscoveryShape, Unwatch
<1>2. /\ watch[w].st = "on" /\ watch' = [watch EXCEPT ![w].st = "off"]
      /\ reqs' = [reqs EXCEPT ![id] = left]
      /\ advertSubs' = [k \in AdvertKeys |-> IF advertSubs[k] = id /\ Unused(entry) THEN NoReq ELSE advertSubs[k]]
      /\ UNCHANGED <<provider, nodeSignalSubs, extraSubs, connect, listen, strays>>
  BY DEF Unwatch
<1>3. /\ entry \in Req /\ entry.of = reqs[id].of /\ entry.kind = reqs[id].kind
      /\ entry.held = reqs[id].held /\ entry.open = reqs[id].open
      /\ entry.listeners = reqs[id].listeners \ {w}
  <2>1. reqs[id] \in Req
    BY <1>1
  <2> QED
    BY <2>1 DEF Req
<1>4. /\ left \in Req /\ left.of = reqs[id].of /\ left.kind = reqs[id].kind
      /\ left.held = reqs[id].held /\ left.listeners = reqs[id].listeners \ {w}
  <2> HIDE DEF entry
  <2> QED
    BY <1>3 DEF Req
<1>5. left.open = (reqs[id].open /\ ~Unused(entry))
  <2> HIDE DEF entry
  <2> DEFINE stays == entry.open /\ ~Unused(entry)
  <2>1. left = [entry EXCEPT !.open = stays]
    OBVIOUS
  <2>2. stays = (reqs[id].open /\ ~Unused(entry))
    BY <1>3, Zenon
  <2> HIDE DEF stays, left
  <2>3. left.open = stays
    BY <1>3, <2>1 DEF Req
  <2> QED
    BY <2>2, <2>3, Zenon
<1>6. Unused(entry) => ~reqs[id].held /\ reqs[id].listeners \subseteq {w}
  BY <1>3 DEF Unused
<1> HIDE DEF entry, left
<1>7. /\ reqs' \in Seq(Req) /\ Len(reqs') = Len(reqs) /\ DOMAIN reqs' = 1..Len(reqs) /\ Req' = Req
      /\ reqs'[id] = left /\ \A i \in 1..Len(reqs) : i # id => reqs'[i] = reqs[i]
  BY <1>1, <1>2, <1>4, ExceptSeq, LenProperties DEF DiscoveryShape, Req
<1> HIDE DEF id
<1>8. /\ watch' \in [Watchers -> [st : {"no", "on", "off"}, req : 0..Len(reqs)]]
      /\ \A v \in Watchers : watch'[v].st = "on" => v # w /\ watch'[v] = watch[v]
  BY <1>2 DEF DiscoveryShape
<1>9. \A k \in AdvertKeys : \/ advertSubs'[k] = advertSubs[k] /\ (advertSubs[k] = id => ~Unused(entry))
                            \/ advertSubs'[k] = NoReq /\ advertSubs[k] = id /\ Unused(entry)
  BY <1>2
<1>10. DiscoveryShape'
  <2>1. advertSubs' \in [AdvertKeys -> 0..Len(reqs')]
    BY <1>2, <1>7 DEF DiscoveryShape, NoReq
  <2> QED
    BY <1>2, <1>7, <1>8, <2>1 DEF DiscoveryShape
<1>11. \A i \in 1..Len(reqs) : /\ reqs'[i].of = reqs[i].of /\ reqs'[i].kind = reqs[i].kind
                               /\ reqs'[i].held = reqs[i].held
  BY <1>4, <1>7
<1>12. KindsFit'
  BY <1>1, <1>2, <1>7, <1>8, <1>9, <1>11 DEF KindsFit, DiscoveryShape, NoReq
<1>13. NothingLeftOpen'
  <2> SUFFICES ASSUME NEW i \in 1..Len(reqs), i \notin strays, reqs'[i].open
               PROVE  i \in {advertSubs'[j] : j \in AdvertKeys} \cup {nodeSignalSubs} \cup extraSubs
    BY <1>2, <1>7 DEF NothingLeftOpen
  <2>1. reqs[i].open /\ (i = id => ~Unused(entry))
    <3>1. CASE i = id
      BY <3>1, <1>5, <1>7
    <3> QED
      BY <3>1, <1>7
  <2>2. i \in {advertSubs[j] : j \in AdvertKeys} \cup {nodeSignalSubs} \cup extraSubs
    BY <1>1, <2>1 DEF NothingLeftOpen
  <2>3. ASSUME NEW j \in AdvertKeys, i = advertSubs[j]
        PROVE  i = advertSubs'[j]
    BY <2>1, <2>3, <1>9
  <2> QED
    BY <2>2, <2>3
<1>14. WatchersAreServed'
  <2>1. ASSUME NEW v \in Watchers, watch'[v].st = "on", reqs'[watch'[v].req].of = provider
        PROVE  reqs'[watch'[v].req].open /\ v \in reqs'[watch'[v].req].listeners
    <3>1. /\ v # w /\ watch'[v] = watch[v] /\ watch[v].req \in 1..Len(reqs)
          /\ reqs[watch[v].req].open /\ v \in reqs[watch[v].req].listeners
      <4>1. v # w /\ watch'[v] = watch[v] /\ watch[v].st = "on"
        BY <2>1, <1>8
      <4>2. watch[v].req \in 1..Len(reqs)
        BY <4>1, <1>1 DEF DiscoveryShape
      <4>3. reqs[watch[v].req].of = provider
        BY <4>1, <4>2, <2>1, <1>11
      <4> QED
        BY <4>1, <4>2, <4>3 DEF WatchersAreServed
    <3>2. CASE watch[v].req = id
      BY <3>1, <3>2, <1>4, <1>5, <1>6, <1>7
    <3>3. CASE watch[v].req # id
      BY <3>1, <3>3, <1>7
    <3> QED
      BY <3>2, <3>3
  <2>2. ASSUME NEW i \in 1..Len(reqs), reqs'[i].held, reqs'[i].of = provider
        PROVE  reqs'[i].open
    <3>1. reqs[i].open /\ reqs[i].held
      BY <2>2, <1>1, <1>11 DEF WatchersAreServed
    <3>2. CASE i = id
      BY <3>1, <3>2, <1>5, <1>6, <1>7
    <3> QED
      BY <3>1, <3>2, <1>7
  <2>3. ASSUME NEW k \in AdvertKeys, advertSubs'[k] # NoReq
        PROVE  reqs'[advertSubs'[k]].open
    <3>1. /\ advertSubs'[k] = advertSubs[k] /\ advertSubs[k] \in 1..Len(reqs)
          /\ reqs[advertSubs[k]].open /\ (advertSubs[k] = id => ~Unused(entry))
      BY <2>3, <1>1, <1>9 DEF WatchersAreServed, DiscoveryShape, NoReq
    <3>2. CASE advertSubs[k] = id
      BY <3>1, <3>2, <1>5, <1>7
    <3> QED
      BY <3>1, <3>2, <1>7
  <2> QED
    BY <1>2, <1>7, <2>1, <2>2, <2>3 DEF WatchersAreServed
<1> QED
  BY <1>10, <1>12, <1>13, <1>14
\* One more REQ after some were closed.
LEMMA OneMore ==
  ASSUME NEW q \in Seq(Req), NEW e \in Req
  PROVE  /\ Append(q, e) \in Seq(Req) /\ Len(Append(q, e)) = Len(q) + 1
         /\ DOMAIN Append(q, e) = 1..(Len(q) + 1) /\ Len(q) \in Nat
         /\ Append(q, e)[Len(q) + 1] = e
         /\ \A i \in 1..Len(q) : Append(q, e)[i] = q[i]
BY AppendProperties, LenProperties

LEMMA RelaysAllowedKeeps ==
  ASSUME DiscoveryInv, NEW c \in Connects, RelaysAllowed(c)
  PROVE  DiscoveryInv'
<1> USE DEF DiscoveryInv
<1> DEFINE e == [NewReq("extra") EXCEPT !.of = connect[c].of]
<1>1. /\ e \in Req /\ e.of = connect[c].of /\ e.kind = "extra" /\ ~e.held
  <2>1. connect[c].of \in 1..provider /\ provider \in 1..provider
    BY DEF RelaysAllowed, DiscoveryShape
  <2> DEFINE made == NewReq("extra")
  <2>2. made \in Req /\ made.kind = "extra" /\ ~made.held
    BY <2>1 DEF NewReq, Req
  <2>3. e = [made EXCEPT !.of = connect[c].of]
    OBVIOUS
  <2> HIDE DEF made, e
  <2> QED
    BY <2>1, <2>2, <2>3 DEF Req
<1>2. /\ connect' = [connect EXCEPT ![c].st = "done"] /\ reqs' = Append(reqs, e)
      /\ UNCHANGED <<provider, advertSubs, nodeSignalSubs, watch, listen>>
      /\ strays \subseteq strays' /\ extraSubs \subseteq extraSubs'
      /\ strays' \cup extraSubs' = strays \cup extraSubs \cup {Len(reqs) + 1}
      /\ strays' \subseteq strays \cup {Len(reqs) + 1} /\ extraSubs' \subseteq extraSubs \cup {Len(reqs) + 1}
  BY DEF RelaysAllowed
<1> HIDE DEF e
<1>3. /\ reqs' \in Seq(Req) /\ Len(reqs') = Len(reqs) + 1 /\ Req' = Req /\ Len(reqs) \in Nat
      /\ DOMAIN reqs = 1..Len(reqs) /\ DOMAIN reqs' = 1..(Len(reqs) + 1)
      /\ reqs'[Len(reqs) + 1] = e /\ \A i \in 1..Len(reqs) : reqs'[i] = reqs[i]
  BY <1>1, <1>2, OneMore, LenProperties DEF DiscoveryShape, Req
<1>4. connect' \in [Connects -> [st : {"no", "looks", "done"}, of : 0..provider]]
  BY <1>2 DEF DiscoveryShape
<1>5. \A d \in Connects : connect'[d].st = "looks" => connect'[d].of # 0
  BY <1>2 DEF DiscoveryShape
<1>6. /\ advertSubs \in [AdvertKeys -> 0..Len(reqs)] /\ nodeSignalSubs \in 0..Len(reqs)
      /\ watch \in [Watchers -> [st : {"no", "on", "off"}, req : 0..Len(reqs)]]
      /\ listen \in [Listens -> [st : {"no", "on", "off"}, req : 0..Len(reqs)]]
      /\ extraSubs \subseteq 1..Len(reqs) /\ strays \subseteq 1..Len(reqs)
  BY DEF DiscoveryShape
<1>7. DiscoveryShape'
  <2>1. 0..Len(reqs) \subseteq 0..(Len(reqs) + 1)
    BY <1>3
  <2>2. advertSubs' \in [AdvertKeys -> 0..Len(reqs')]
    BY <1>2, <1>3, <1>6, <2>1
  <2>3. watch' \in [Watchers -> [st : {"no", "on", "off"}, req : 0..Len(reqs')]]
    BY <1>2, <1>3, <1>6, <2>1
  <2>4. listen' \in [Listens -> [st : {"no", "on", "off"}, req : 0..Len(reqs')]]
    BY <1>2, <1>3, <1>6, <2>1
  <2>5. nodeSignalSubs' \in 0..Len(reqs') /\ extraSubs' \subseteq 1..Len(reqs') /\ strays' \subseteq 1..Len(reqs')
    BY <1>2, <1>3, <1>6
  <2> QED
    BY <1>2, <1>3, <1>4, <1>5, <2>2, <2>3, <2>4, <2>5 DEF DiscoveryShape
<1>8. KindsFit'
  <2>1. \A i \in 1..(Len(reqs) + 1) : reqs'[i].held => reqs'[i].kind = "advert"
    BY <1>1, <1>3 DEF KindsFit
  <2> QED
    BY <1>2, <1>3, <1>6, <2>1 DEF KindsFit, DiscoveryShape, NoReq
<1>9. NothingLeftOpen'
  BY <1>2, <1>3 DEF NothingLeftOpen
<1>10. WatchersAreServed'
  <2>1. \A i \in 1..(Len(reqs) + 1) : reqs'[i].held /\ reqs'[i].of = provider => reqs'[i].open
    BY <1>1, <1>3 DEF WatchersAreServed
  <2>2. ASSUME NEW w \in Watchers, watch[w].st = "on", reqs'[watch[w].req].of = provider
        PROVE  reqs'[watch[w].req].open /\ w \in reqs'[watch[w].req].listeners
    <3>1. watch[w].req \in 1..Len(reqs)
      BY <2>2, <1>3, <1>6 DEF DiscoveryShape
    <3> QED
      BY <2>2, <3>1, <1>3 DEF WatchersAreServed
  <2>3. ASSUME NEW k \in AdvertKeys, advertSubs[k] # NoReq
        PROVE  reqs'[advertSubs[k]].open
    BY <2>3, <1>3, <1>6 DEF WatchersAreServed, NoReq
  <2> QED
    BY <1>2, <1>3, <2>1, <2>2, <2>3 DEF WatchersAreServed
<1> QED
  BY <1>7, <1>8, <1>9, <1>10

LEMMA ListenKeeps ==
  ASSUME DiscoveryInv, NEW l \in Listens, ListenNodeSignals(l)
  PROVE  DiscoveryInv'
<1> USE DEF DiscoveryInv
<1> DEFINE e == NewReq("signal")
<1> DEFINE q == Closed(Replacing)
<1>1. e \in Req /\ e.kind = "signal" /\ ~e.held
  BY DEF DiscoveryShape, NewReq, Req
<1>2. /\ listen' = [listen EXCEPT ![l] = [st |-> "on", req |-> Len(reqs) + 1]]
      /\ reqs' = Append(q, e) /\ nodeSignalSubs' = Len(reqs) + 1
      /\ UNCHANGED <<provider, advertSubs, extraSubs, watch, connect, strays>>
  BY DEF ListenNodeSignals
<1>3. /\ q \in Seq(Req) /\ Len(q) = Len(reqs) /\ Len(reqs) \in Nat
      /\ DOMAIN reqs = 1..Len(reqs)
      /\ \A i \in 1..Len(reqs) :
           /\ q[i].of = reqs[i].of /\ q[i].kind = reqs[i].kind
           /\ q[i].held = reqs[i].held /\ q[i].listeners = reqs[i].listeners
           /\ i \in Replacing => ~ q[i].open
           /\ i \notin Replacing => q[i] = reqs[i]
  BY ClosedEffect
<1> HIDE DEF e, q
<1>4. /\ reqs' \in Seq(Req) /\ Len(reqs') = Len(reqs) + 1 /\ Req' = Req
      /\ DOMAIN reqs' = 1..(Len(reqs) + 1)
      /\ reqs'[Len(reqs) + 1] = e /\ \A i \in 1..Len(reqs) : reqs'[i] = q[i]
  BY <1>1, <1>2, <1>3, OneMore DEF Req
<1>5. \A i \in 1..Len(reqs) : i \in Replacing <=> i = nodeSignalSubs
  BY DEF Replacing, NoReq
<1>6. /\ advertSubs \in [AdvertKeys -> 0..Len(reqs)] /\ nodeSignalSubs \in 0..Len(reqs)
      /\ watch \in [Watchers -> [st : {"no", "on", "off"}, req : 0..Len(reqs)]]
      /\ listen \in [Listens -> [st : {"no", "on", "off"}, req : 0..Len(reqs)]]
      /\ extraSubs \subseteq 1..Len(reqs) /\ strays \subseteq 1..Len(reqs)
  BY DEF DiscoveryShape
<1>7. DiscoveryShape'
  <2>1. 0..Len(reqs) \subseteq 0..(Len(reqs) + 1)
    BY <1>3
  <2>2. advertSubs' \in [AdvertKeys -> 0..Len(reqs')]
    BY <1>2, <1>4, <1>6, <2>1
  <2>3. watch' \in [Watchers -> [st : {"no", "on", "off"}, req : 0..Len(reqs')]]
    BY <1>2, <1>4, <1>6, <2>1
  <2>4. listen' \in [Listens -> [st : {"no", "on", "off"}, req : 0..Len(reqs')]]
    <3>1. listen \in [Listens -> [st : {"no", "on", "off"}, req : 0..Len(reqs')]]
      BY <1>4, <1>6, <2>1
    <3>2. Len(reqs) + 1 \in 0..Len(reqs')
      BY <1>3, <1>4
    <3> QED
      BY <3>1, <3>2, <1>2
  <2>5. nodeSignalSubs' \in 0..Len(reqs') /\ extraSubs' \subseteq 1..Len(reqs') /\ strays' \subseteq 1..Len(reqs')
    BY <1>2, <1>3, <1>4, <1>6
  <2>6. \A m \in Listens : listen'[m].st = "on" => listen'[m].req # 0
    BY <1>2, <1>3, <1>6 DEF DiscoveryShape
  <2> QED
    BY <1>2, <1>4, <2>2, <2>3, <2>4, <2>5, <2>6 DEF DiscoveryShape
<1>8. KindsFit'
  <2>1. \A i \in 1..(Len(reqs) + 1) : reqs'[i].held => reqs'[i].kind = "advert"
    BY <1>1, <1>3, <1>4 DEF KindsFit
  <2>2. ASSUME NEW m \in Listens, listen'[m].st = "on"
        PROVE  reqs'[listen'[m].req].kind = "signal"
    <3>1. CASE m = l
      BY <3>1, <1>1, <1>2, <1>4, <1>6
    <3>2. CASE m # l
      <4>1. listen'[m] = listen[m] /\ listen[m].req \in 1..Len(reqs)
        BY <3>2, <2>2, <1>2, <1>6 DEF DiscoveryShape
      <4> QED
        BY <4>1, <2>2, <1>3, <1>4 DEF KindsFit
    <3> QED
      BY <3>1, <3>2
  <2>3. ASSUME NEW w \in Watchers, watch[w].st = "on"
        PROVE  reqs'[watch[w].req].kind = "advert"
    <3>1. watch[w].req \in 1..Len(reqs)
      BY <2>3, <1>3, <1>6 DEF DiscoveryShape
    <3> QED
      BY <2>3, <3>1, <1>3, <1>4 DEF KindsFit
  <2>4. \A k \in AdvertKeys : advertSubs[k] # NoReq =>
          reqs'[advertSubs[k]].kind = "advert" /\ reqs'[advertSubs[k]].of = provider
    <3> SUFFICES ASSUME NEW k \in AdvertKeys, advertSubs[k] # NoReq
                 PROVE  reqs'[advertSubs[k]].kind = "advert" /\ reqs'[advertSubs[k]].of = provider
      OBVIOUS
    <3>1. advertSubs[k] \in 1..Len(reqs)
      BY <1>3, <1>6 DEF NoReq
    <3>2. reqs[advertSubs[k]].kind = "advert" /\ reqs[advertSubs[k]].of = provider
      BY DEF KindsFit
    <3> QED
      BY <3>1, <3>2, <1>3, <1>4
  <2> QED
    BY <1>1, <1>2, <1>4, <2>1, <2>2, <2>3, <2>4 DEF KindsFit
<1>9. NothingLeftOpen'
  <2> SUFFICES ASSUME NEW i \in 1..(Len(reqs) + 1), i \notin strays, reqs'[i].open
               PROVE  i \in {advertSubs[j] : j \in AdvertKeys} \cup {Len(reqs) + 1} \cup extraSubs
    BY <1>2, <1>4 DEF NothingLeftOpen
  <2>1. CASE i \in 1..Len(reqs)
    <3>1. i # nodeSignalSubs /\ reqs[i].open
      BY <2>1, <1>3, <1>4, <1>5
    <3> QED
      BY <2>1, <3>1, <1>3 DEF NothingLeftOpen
  <2> QED
    BY <2>1, <1>3
<1>10. WatchersAreServed'
  <2>0. ASSUME NEW i \in 1..Len(reqs), reqs[i].kind = "advert"
        PROVE  reqs'[i] = reqs[i]
    BY <2>0, <1>3, <1>4, <1>5 DEF KindsFit, NoReq
  <2>1. \A i \in 1..(Len(reqs) + 1) : reqs'[i].held /\ reqs'[i].of = provider => reqs'[i].open
    BY <2>0, <1>1, <1>3, <1>4 DEF WatchersAreServed, KindsFit
  <2>2. ASSUME NEW w \in Watchers, watch[w].st = "on", reqs'[watch[w].req].of = provider
        PROVE  reqs'[watch[w].req].open /\ w \in reqs'[watch[w].req].listeners
    <3>1. watch[w].req \in 1..Len(reqs) /\ reqs[watch[w].req].kind = "advert"
      BY <2>2, <1>3, <1>6 DEF DiscoveryShape, KindsFit
    <3> QED
      BY <2>0, <2>2, <3>1 DEF WatchersAreServed
  <2>3. ASSUME NEW k \in AdvertKeys, advertSubs[k] # NoReq
        PROVE  reqs'[advertSubs[k]].open
    <3>1. advertSubs[k] \in 1..Len(reqs) /\ reqs[advertSubs[k]].kind = "advert"
      BY <2>3, <1>3, <1>6 DEF KindsFit, NoReq
    <3> QED
      BY <2>0, <2>3, <3>1 DEF WatchersAreServed
  <2> QED
    BY <1>2, <1>4, <2>1, <2>2, <2>3 DEF WatchersAreServed
<1> QED
  BY <1>7, <1>8, <1>9, <1>10
LEMMA StopListeningKeeps ==
  ASSUME DiscoveryInv, NEW l \in Listens, StopListening(l)
  PROVE  DiscoveryInv'
<1> USE DEF DiscoveryInv
<1> DEFINE id == listen[l].req
<1> DEFINE own == reqs[id].of = provider
<1> DEFINE q == Closed({id})
<1>1. /\ listen[l].st = "on" /\ listen' = [listen EXCEPT ![l].st = "off"]
      /\ reqs' = q /\ nodeSignalSubs' = IF own THEN NoReq ELSE nodeSignalSubs
      /\ strays' = strays \cup (IF own THEN {nodeSignalSubs} \ {NoReq, id} ELSE {})
      /\ UNCHANGED <<provider, advertSubs, extraSubs, watch, connect>>
  BY DEF StopListening
<1>2. /\ q \in Seq(Req) /\ Len(q) = Len(reqs) /\ Len(reqs) \in Nat
      /\ DOMAIN reqs = 1..Len(reqs) /\ DOMAIN q = 1..Len(reqs) /\ Req' = Req
      /\ \A i \in 1..Len(reqs) :
           /\ q[i].of = reqs[i].of /\ q[i].kind = reqs[i].kind
           /\ q[i].held = reqs[i].held /\ q[i].listeners = reqs[i].listeners
           /\ i = id => ~ q[i].open
           /\ i # id => q[i] = reqs[i]
  <2>1. /\ q \in Seq(Req) /\ Len(q) = Len(reqs) /\ Len(reqs) \in Nat
        /\ DOMAIN reqs = 1..Len(reqs) /\ DOMAIN q = 1..Len(reqs)
        /\ \A i \in 1..Len(reqs) :
             /\ q[i].of = reqs[i].of /\ q[i].kind = reqs[i].kind
             /\ q[i].held = reqs[i].held /\ q[i].listeners = reqs[i].listeners
             /\ i \in {id} => ~ q[i].open
             /\ i \notin {id} => q[i] = reqs[i]
    BY ClosedEffect
  <2> HIDE DEF q, id
  <2>2. Req' = Req
    BY <1>1 DEF Req
  <2> QED
    BY <2>1, <2>2
<1>3. id \in 1..Len(reqs) /\ reqs[id].kind = "signal"
  <2>1. listen[l].st = "on" /\ listen[l].req \in 1..Len(reqs)
    BY <1>1, LenProperties DEF DiscoveryShape
  <2> QED
    BY <2>1 DEF KindsFit
<1> HIDE DEF id, q, own
<1>4. /\ listen' \in [Listens -> [st : {"no", "on", "off"}, req : 0..Len(reqs)]]
      /\ \A m \in Listens : listen'[m].st = "on" => listen[m].st = "on" /\ listen'[m] = listen[m]
  BY <1>1 DEF DiscoveryShape
<1>5. /\ nodeSignalSubs' \in {NoReq, nodeSignalSubs}
      /\ strays \subseteq strays' /\ strays' \subseteq strays \cup ({nodeSignalSubs} \ {NoReq})
      /\ nodeSignalSubs \in strays' \cup {NoReq, id, nodeSignalSubs'}
  BY <1>1
<1>6. DiscoveryShape'
  BY <1>1, <1>2, <1>4, <1>5 DEF DiscoveryShape, NoReq
<1>7. KindsFit'
  <2>1. \A i \in 1..Len(reqs) : reqs'[i].kind = reqs[i].kind /\ reqs'[i].of = reqs[i].of /\ reqs'[i].held = reqs[i].held
    BY <1>1, <1>2
  <2>2. ASSUME NEW m \in Listens, listen'[m].st = "on"
        PROVE  reqs'[listen'[m].req].kind = "signal"
    <3>1. listen[m].st = "on" /\ listen'[m] = listen[m] /\ listen[m].req \in 1..Len(reqs)
      BY <2>2, <1>2, <1>4 DEF DiscoveryShape
    <3> QED
      BY <3>1, <2>1 DEF KindsFit
  <2>3. ASSUME NEW w \in Watchers, watch[w].st = "on"
        PROVE  reqs'[watch[w].req].kind = "advert"
    <3>1. watch[w].req \in 1..Len(reqs)
      BY <2>3, <1>2 DEF DiscoveryShape
    <3> QED
      BY <2>1, <2>3, <3>1 DEF KindsFit
  <2>4. ASSUME NEW k \in AdvertKeys, advertSubs[k] # NoReq
        PROVE  reqs'[advertSubs[k]].kind = "advert" /\ reqs'[advertSubs[k]].of = provider
    <3>1. advertSubs[k] \in 1..Len(reqs)
      BY <2>4, <1>2 DEF DiscoveryShape, NoReq
    <3> QED
      BY <2>1, <2>4, <3>1 DEF KindsFit
  <2>5. nodeSignalSubs' # NoReq => reqs'[nodeSignalSubs'].kind = "signal"
    BY <1>2, <1>5, <2>1 DEF KindsFit, DiscoveryShape, NoReq
  <2>6. \A i \in 1..Len(reqs) : reqs'[i].held => reqs'[i].kind = "advert"
    BY <2>1, <1>2 DEF KindsFit
  <2> QED
    BY <1>1, <1>2, <2>2, <2>3, <2>4, <2>5, <2>6 DEF KindsFit
<1>8. NothingLeftOpen'
  <2> SUFFICES ASSUME NEW i \in 1..Len(reqs), i \notin strays', reqs'[i].open
               PROVE  i \in {advertSubs[j] : j \in AdvertKeys} \cup {nodeSignalSubs'} \cup extraSubs
    BY <1>1, <1>2 DEF NothingLeftOpen
  <2>1. i # id /\ reqs[i].open /\ i \notin strays /\ i # NoReq
    BY <1>1, <1>2, <1>5 DEF NoReq
  <2>2. i \in {advertSubs[j] : j \in AdvertKeys} \cup {nodeSignalSubs} \cup extraSubs
    BY <1>2, <2>1 DEF NothingLeftOpen
  <2> QED
    BY <2>1, <2>2, <1>5
<1>9. WatchersAreServed'
  <2>0. ASSUME NEW i \in 1..Len(reqs), reqs[i].kind = "advert"
        PROVE  reqs'[i] = reqs[i]
    BY <2>0, <1>1, <1>2, <1>3
  <2>1. \A i \in 1..Len(reqs) : reqs'[i].held /\ reqs'[i].of = provider => reqs'[i].open
    BY <2>0, <1>1, <1>2 DEF WatchersAreServed, KindsFit
  <2>2. ASSUME NEW w \in Watchers, watch[w].st = "on", reqs'[watch[w].req].of = provider
        PROVE  reqs'[watch[w].req].open /\ w \in reqs'[watch[w].req].listeners
    <3>1. watch[w].req \in 1..Len(reqs) /\ reqs[watch[w].req].kind = "advert"
      BY <2>2, <1>2 DEF DiscoveryShape, KindsFit
    <3> QED
      BY <2>0, <2>2, <3>1 DEF WatchersAreServed
  <2>3. ASSUME NEW k \in AdvertKeys, advertSubs[k] # NoReq
        PROVE  reqs'[advertSubs[k]].open
    <3>1. advertSubs[k] \in 1..Len(reqs) /\ reqs[advertSubs[k]].kind = "advert"
      BY <2>3, <1>2 DEF KindsFit, NoReq, DiscoveryShape
    <3> QED
      BY <2>0, <2>3, <3>1 DEF WatchersAreServed
  <2> QED
    BY <1>1, <1>2, <2>1, <2>2, <2>3 DEF WatchersAreServed
<1> QED
  BY <1>6, <1>7, <1>8, <1>9

LEMMA ReloadKeeps ==
  ASSUME DiscoveryInv, Reload
  PROVE  DiscoveryInv'
<1> USE DEF DiscoveryInv
<1> DEFINE tables == {advertSubs[k] : k \in AdvertKeys} \cup {nodeSignalSubs} \cup extraSubs
<1> DEFINE q == Closed(tables)
<1>1. /\ provider < MaxProviders /\ provider' = provider + 1 /\ reqs' = q
      /\ advertSubs' = [k \in AdvertKeys |-> NoReq] /\ nodeSignalSubs' = NoReq /\ extraSubs' = {}
      /\ UNCHANGED <<watch, connect, listen, strays>>
  BY DEF Reload
<1>2. /\ q \in Seq(Req) /\ Len(q) = Len(reqs) /\ Len(reqs) \in Nat
      /\ DOMAIN reqs = 1..Len(reqs) /\ DOMAIN q = 1..Len(reqs)
      /\ \A i \in 1..Len(reqs) :
           /\ reqs[i] \in Req /\ q[i] \in Req
           /\ q[i].of = reqs[i].of /\ q[i].kind = reqs[i].kind
           /\ q[i].held = reqs[i].held /\ q[i].listeners = reqs[i].listeners
           /\ i \in tables => ~ q[i].open
           /\ i \notin tables => q[i] = reqs[i]
  BY ClosedEffect
<1> HIDE DEF q
<1>3. provider \in 1..MaxProviders /\ provider' \in 1..MaxProviders
  BY <1>1, DiscoveryAssumption DEF DiscoveryShape
<1>4. q \in Seq(Req')
  <2>1. \A r \in Req : r \in Req'
    BY <1>1, <1>3 DEF Req
  <2>2. q \in [1..Len(reqs) -> Req']
    <3>1. q = [i \in 1..Len(reqs) |-> q[i]]
      BY <1>2
    <3> QED
      BY <3>1, <2>1, <1>2
  <2> QED
    BY <2>2, <1>2, FunctionIsSeq
<1>5. \A i \in 1..Len(reqs) : reqs'[i].of # provider'
  <2>1. \A i \in 1..Len(reqs) : reqs[i].of \in 1..provider
    BY <1>2 DEF Req
  <2> QED
    BY <2>1, <1>1, <1>2, <1>3
<1>6. DiscoveryShape'
  <2>1. connect \in [Connects -> [st : {"no", "looks", "done"}, of : 0..provider']]
    BY <1>1, <1>3 DEF DiscoveryShape
  <2> QED
    BY <1>1, <1>2, <1>3, <1>4, <2>1 DEF DiscoveryShape, NoReq
<1>7. KindsFit'
  <2>1. /\ \A w \in Watchers : watch[w].st = "on" => watch[w].req \in 1..Len(reqs)
        /\ \A l \in Listens : listen[l].st = "on" => listen[l].req \in 1..Len(reqs)
    BY <1>2 DEF DiscoveryShape
  <2> QED
    BY <1>1, <1>2, <2>1 DEF KindsFit
<1>8. NothingLeftOpen'
  BY <1>1, <1>2 DEF NothingLeftOpen
<1>9. WatchersAreServed'
  <2>1. \A w \in Watchers : watch[w].st = "on" => watch[w].req \in 1..Len(reqs)
    BY <1>2 DEF DiscoveryShape
  <2> QED
    BY <1>1, <1>2, <1>5, <2>1 DEF WatchersAreServed
<1> QED
  BY <1>6, <1>7, <1>8, <1>9

\* The inductive invariant of discovery.
LEMMA DiscoveryInvariant == SpecDiscovery => []DiscoveryInv
<1>1. InitDiscovery => DiscoveryInv
  <2> SUFFICES ASSUME InitDiscovery PROVE DiscoveryInv
    OBVIOUS
  <2>1. reqs \in Seq(Req) /\ Len(reqs) = 0 /\ DOMAIN reqs = {}
    BY DEF InitDiscovery
  <2>2. DiscoveryShape
    BY <2>1, DiscoveryAssumption DEF InitDiscovery, DiscoveryShape, NoReq
  <2> QED
    BY <2>1, <2>2 DEF InitDiscovery, DiscoveryInv, KindsFit, NothingLeftOpen, WatchersAreServed
<1>2. DiscoveryInv /\ [NextDiscovery]_discoveryVars => DiscoveryInv'
  <2> SUFFICES ASSUME DiscoveryInv, [NextDiscovery]_discoveryVars PROVE DiscoveryInv'
    OBVIOUS
  <2>1. ASSUME NEW k \in AdvertKeys, Hold(k) PROVE DiscoveryInv'
    <3>1. Subscribed(k, {}) /\ UNCHANGED <<provider, nodeSignalSubs, extraSubs, watch, connect, listen, strays>>
      BY <2>1 DEF Hold
    <3> QED
      BY <3>1, SubscribedKeeps DEF DiscoveryInv, DiscoveryShape
  <2>2. ASSUME NEW k \in AdvertKeys, NEW w \in Watchers, Watch(w, k) PROVE DiscoveryInv'
    <3>1. /\ Subscribed(k, {w}) /\ UNCHANGED <<provider, nodeSignalSubs, extraSubs, connect, listen, strays>>
          /\ watch' = [watch EXCEPT ![w] = [st |-> "on", req |-> advertSubs'[k]]]
      BY <2>2 DEF Watch
    <3> QED
      BY <3>1, SubscribedKeeps DEF DiscoveryInv, DiscoveryShape
  <2>3. ASSUME NEW k \in AdvertKeys, NEW c \in Connects, ConnectToNode(c, k) PROVE DiscoveryInv'
    <3>1. /\ Subscribed(k, {}) /\ UNCHANGED <<provider, nodeSignalSubs, extraSubs, watch, listen, strays>>
          /\ connect' = [connect EXCEPT ![c] = [st |-> "looks", of |-> provider]]
      BY <2>3 DEF ConnectToNode
    <3>2. /\ connect' \in [Connects -> [st : {"no", "looks", "done"}, of : 0..provider]]
          /\ \A d \in Connects : connect'[d].st = "looks" => connect'[d].of # 0
      BY <3>1 DEF DiscoveryInv, DiscoveryShape
    <3> QED
      BY <3>1, <3>2, SubscribedKeeps
  <2>4. ASSUME NEW c \in Connects, NoneAllowed(c) PROVE DiscoveryInv'
    BY <2>4 DEF NoneAllowed, DiscoveryInv, DiscoveryShape, KindsFit, NothingLeftOpen, WatchersAreServed, Req
  <2>5. CASE UNCHANGED discoveryVars
    BY <2>5 DEF discoveryVars, DiscoveryInv, DiscoveryShape, KindsFit, NothingLeftOpen, WatchersAreServed, Req
  <2> QED
    BY <2>1, <2>2, <2>3, <2>4, <2>5, UnwatchKeeps, RelaysAllowedKeeps, ListenKeeps,
       StopListeningKeeps, ReloadKeeps DEF NextDiscovery
<1> QED
  BY <1>1, <1>2, PTL DEF SpecDiscovery

\* For any keys, watchers and bounds: what is open the provider knows, and what is watched
\* or held is served (discovery/nostr/index.mjs:305-570).
THEOREM DiscoverySound == SpecDiscovery => []DiscoveryHolds
<1>1. DiscoveryInv => DiscoveryHolds
  BY DEF DiscoveryInv, DiscoveryHolds
<1> QED
  BY <1>1, DiscoveryInvariant, PTL

-----------------------------------------------------------------------------
(* publishEvent. *)

\* Before it is sent no attempt is settled by a relay, and until it is resolved none is
\* accepted; what is recorded is what happened.
PublishInv ==
  /\ PublishTypeOK /\ PublishTellsTruth
  /\ publication.st = "no" => \A r \in Targets : attempt[r] = "waits"
  /\ publication.st = "resolving" => \A r \in Targets : attempt[r] \in {"waits", "target", "dropped"}
  /\ publication.st \notin {"no", "resolving"} => \A r \in Targets : attempt[r] # "waits"

\* The inductive invariant of publications.
LEMMA PublishInvariant == SpecPublish => []PublishInv
<1>1. InitPublish => PublishInv
  BY DEF InitPublish, PublishInv, PublishTypeOK, PublishTellsTruth, Settled
<1>2. PublishInv /\ [NextPublish]_publishVars => PublishInv'
  <2> SUFFICES ASSUME PublishInv, [NextPublish]_publishVars PROVE PublishInv'
    OBVIOUS
  <2> USE DEF PublishInv, PublishTypeOK, PublishTellsTruth, Settled
  <2>1. CASE PublishEvent
    BY <2>1 DEF PublishEvent
  <2>2. CASE TargetsResolved
    BY <2>2 DEF TargetsResolved
  <2>3. CASE StopPresence
    BY <2>3 DEF StopPresence
  <2>4. ASSUME NEW r \in Targets, NEW resolved \in BOOLEAN, TargetResolved(r, resolved)
        PROVE  PublishInv'
    BY <2>4 DEF TargetResolved, Record
  <2>5. ASSUME NEW r \in Targets, NEW o \in {"ok", "no", "aborted"}, AttemptSettles(r, o)
        PROVE  PublishInv'
    BY <2>5 DEF AttemptSettles, Record, Decides
  <2>6. CASE UNCHANGED publishVars
    BY <2>6 DEF publishVars
  <2> QED
    BY <2>1, <2>2, <2>3, <2>4, <2>5, <2>6 DEF NextPublish
<1> QED
  BY <1>1, <1>2, PTL DEF SpecPublish

\* For any relays: a publication resolves or throws as they answered, and their healths are
\* told the truth (index.mjs:214-262).
THEOREM PublishSound == SpecPublish => []PublishTellsTruth
<1>1. PublishInv => PublishTellsTruth
  BY DEF PublishInv
<1> QED
  BY <1>1, PublishInvariant, PTL

-----------------------------------------------------------------------------
(* The pool of relays. *)

\* An entry whose stamps of success and failure are none after its last probe.
Stamped(e) == e \in Entries /\ e.lastOk <= e.probe /\ e.lastBad <= e.probe

\* Entries; but where a round has overwritten the stamps, these are true.
GoodBook(book) ==
  /\ DOMAIN book \subseteq Relays
  /\ \A r \in DOMAIN book : book[r] \in Entries /\ (r \notin overwritten => Stamped(book[r]))

BookInv ==
  /\ now \in Nat /\ found \subseteq Relays /\ claimed \subseteq Relays
  /\ GoodBook(pool) /\ GoodBook(disk.pool)
  /\ latest \in [Relays -> {"none", "ok", "failed"}]
  /\ \A r \in Relays \ DOMAIN pool : latest[r] = "none"
  /\ dirty \in BOOLEAN /\ flushTimer \in BOOLEAN /\ lost \in BOOLEAN
  /\ PoolIsTrue

LEMMA FreshIsStamped == Fresh \in Entries /\ Stamped(Fresh) /\ Fresh.rtt = 0
BY DEF Fresh, Entries, Stamped

\* The entry of a relay, and what it may be changed to.
LEMMA EntryIsGood ==
  ASSUME BookInv, NEW r \in Relays
  PROVE  EntryOf(r) \in Entries /\ (r \notin overwritten => Stamped(EntryOf(r)))
BY FreshIsStamped DEF EntryOf, BookInv, GoodBook

LEMMA StampGrows ==
  ASSUME now \in Nat, NEW e \in Entries
  PROVE  Stamp(e) \in Nat /\ Stamp(e) > e.probe
BY DEF Stamp, Larger, Entries

LEMMA SucceededDecides ==
  ASSUME now \in Nat, NEW e \in Entries, NEW rtt \in Nat
  PROVE  /\ Succeeded(e, rtt) \in Entries
         /\ Stamped(e) => Stamped(Succeeded(e, rtt)) /\ ~Failed(Succeeded(e, rtt))
<1> DEFINE s == Stamp(e)
<1> DEFINE t == IF rtt = 0 THEN e.rtt ELSE rtt
<1> DEFINE f == [e EXCEPT !.ok = e.ok + 1, !.lastOk = s, !.probe = s, !.rtt = t]
<1>0. Succeeded(e, rtt) = f
  BY DEF Succeeded
<1>1. s \in Nat /\ s > e.probe /\ t \in Nat
  BY StampGrows DEF Entries
<1> HIDE DEF s, t
<1>2. f \in Entries /\ f.ok = e.ok + 1 /\ f.lastOk = s /\ f.probe = s /\ f.lastBad = e.lastBad /\ f.bad = e.bad
  <2> DEFINE n == e.ok + 1
  <2>1. n \in Nat
    BY DEF Entries
  <2> HIDE DEF n
  <2> DEFINE g == [e EXCEPT !.ok = n, !.lastOk = s, !.probe = s, !.rtt = t]
  <2>2. g \in Entries
    BY <1>1, <2>1 DEF Entries
  <2>3. g.ok = n /\ g.lastOk = s /\ g.probe = s /\ g.lastBad = e.lastBad /\ g.bad = e.bad
    BY DEF Entries
  <2>4. f = g
    BY DEF n
  <2> QED
    BY <2>2, <2>3, <2>4 DEF n
<1> HIDE DEF f
<1>3. Stamped(e) => Stamped(f) /\ ~Failed(f)
  BY <1>1, <1>2 DEF Stamped, Failed, Entries
<1> QED
  BY <1>0, <1>2, <1>3

LEMMA MissedDecides ==
  ASSUME now \in Nat, NEW e \in Entries
  PROVE  /\ Missed(e) \in Entries
         /\ Stamped(e) => Stamped(Missed(e)) /\ Failed(Missed(e))
<1> DEFINE s == Stamp(e)
<1> DEFINE f == [e EXCEPT !.bad = e.bad + 1, !.lastBad = s, !.probe = s, !.rtt = 0]
<1>0. Missed(e) = f
  BY DEF Missed
<1>1. s \in Nat /\ s > e.probe
  BY StampGrows
<1> HIDE DEF s
<1>2. f \in Entries /\ f.ok = e.ok /\ f.lastOk = e.lastOk /\ f.probe = s /\ f.lastBad = s /\ f.bad = e.bad + 1
  <2> DEFINE n == e.bad + 1
  <2>1. n \in Nat
    BY DEF Entries
  <2> HIDE DEF n
  <2> DEFINE g == [e EXCEPT !.bad = n, !.lastBad = s, !.probe = s, !.rtt = 0]
  <2>2. g \in Entries
    BY <1>1, <2>1 DEF Entries
  <2>3. g.ok = e.ok /\ g.lastOk = e.lastOk /\ g.probe = s /\ g.lastBad = s /\ g.bad = n
    BY DEF Entries
  <2>4. f = g
    BY DEF n
  <2> QED
    BY <2>2, <2>3, <2>4 DEF n
<1> HIDE DEF f
<1>3. Stamped(e) => Stamped(f) /\ Failed(f)
  BY <1>1, <1>2 DEF Stamped, Failed, Entries
<1> QED
  BY <1>0, <1>2, <1>3

\* Whatever is changed, a write is due.
LEMMA SavesSaves == Saves => SavedOrScheduled'
BY DEF Saves, SavedOrScheduled

\* An attempt decides what the entry counts as.
LEMMA AttemptKeeps ==
  ASSUME BookInv, NEW r \in Relays, NEW outcome \in {"ok", "failed"}, NEW e \in Entries,
         Attempted(r, outcome), pool' = Put(pool, r, e),
         r \notin overwritten => Stamped(e) /\ (Failed(e) <=> outcome = "failed"),
         found' \subseteq Relays
  PROVE  BookInv'
<1>1. /\ latest' = [latest EXCEPT ![r] = outcome] /\ Saves
      /\ UNCHANGED <<now, claimed, disk, overwritten, lost>>
  BY DEF Attempted
<1>2. DOMAIN pool' = DOMAIN pool \cup {r} /\ \A k \in DOMAIN pool' : pool'[k] = IF k = r THEN e ELSE pool[k]
  BY DEF Put
<1>3. GoodBook(pool)' /\ GoodBook(disk.pool)'
  BY <1>1, <1>2 DEF BookInv, GoodBook
<1>4. /\ latest' \in [Relays -> {"none", "ok", "failed"}]
      /\ \A k \in Relays : latest'[k] = IF k = r THEN outcome ELSE latest[k]
  BY <1>1 DEF BookInv
<1>5. LatestAttemptDecides'
  <2> SUFFICES ASSUME NEW k \in DOMAIN pool', k \notin overwritten, latest'[k] # "none"
               PROVE  Failed(pool'[k]) <=> latest'[k] = "failed"
    BY <1>1 DEF LatestAttemptDecides, Failed
  <2>1. k \in Relays
    BY <1>2 DEF BookInv, GoodBook
  <2>2. CASE k = r
    BY <2>2, <1>2, <1>4
  <2>3. CASE k # r
    <3>1. k \in DOMAIN pool /\ pool'[k] = pool[k] /\ latest'[k] = latest[k]
      BY <2>1, <2>3, <1>2, <1>4
    <3> QED
      BY <3>1 DEF BookInv, PoolIsTrue, LatestAttemptDecides
  <2> QED
    BY <2>2, <2>3
<1>6. PoolIsTrue'
  BY <1>1, <1>5, SavesSaves DEF PoolIsTrue
<1> QED
  BY <1>1, <1>2, <1>3, <1>4, <1>6 DEF BookInv, Saves

\* An entry that is added keeps its stamps, or is one that was overwritten.
LEMMA UpsertKeeps ==
  ASSUME BookInv, NEW r \in Relays, NEW e \in Entries, Upsert(r, e),
         overwritten \subseteq overwritten',
         r \notin overwritten' => Stamped(e) /\ (Failed(e) <=> Failed(EntryOf(r))),
         found' \subseteq Relays, claimed' \subseteq Relays, UNCHANGED <<now, disk, lost>>
  PROVE  BookInv'
<1> DEFINE book == Put(pool, r, e)
<1>1. PICK out \in Evictions(book) :
        /\ pool' = [k \in (DOMAIN pool \cup {r}) \ out |-> book[k]]
        /\ latest' = [k \in Relays |-> IF k \in out THEN "none" ELSE latest[k]]
  BY DEF Upsert
<1>2. Saves
  BY DEF Upsert
<1>3. /\ DOMAIN pool' = (DOMAIN pool \cup {r}) \ out
      /\ \A k \in DOMAIN pool' : pool'[k] = IF k = r THEN e ELSE pool[k]
  BY <1>1 DEF Put
<1>4. GoodBook(pool)' /\ GoodBook(disk.pool)'
  BY <1>3 DEF BookInv, GoodBook
<1>5. \A k \in Relays : latest'[k] = IF k \in out THEN "none" ELSE latest[k]
  BY <1>1
<1>6. LatestAttemptDecides'
  <2> SUFFICES ASSUME NEW k \in DOMAIN pool', k \notin overwritten', latest'[k] # "none"
               PROVE  Failed(pool'[k]) <=> latest'[k] = "failed"
    BY DEF LatestAttemptDecides, Failed
  <2>1. k \in Relays /\ k \notin out /\ latest'[k] = latest[k]
    BY <1>3, <1>5 DEF BookInv, GoodBook
  <2>2. k \in DOMAIN pool
    BY <2>1 DEF BookInv
  <2>3. Failed(pool[k]) <=> latest[k] = "failed"
    BY <2>1, <2>2 DEF BookInv, PoolIsTrue, LatestAttemptDecides
  <2>4. CASE k = r
    BY <2>1, <2>2, <2>3, <2>4, <1>3 DEF EntryOf
  <2>5. CASE k # r
    BY <2>1, <2>3, <2>5, <1>3
  <2> QED
    BY <2>4, <2>5
<1>7. PoolIsTrue'
  BY <1>2, <1>6, SavesSaves DEF PoolIsTrue
<1>8. \A k \in Relays \ DOMAIN pool' : latest'[k] = "none"
  BY <1>3, <1>5 DEF BookInv
<1>9. latest' \in [Relays -> {"none", "ok", "failed"}]
  BY <1>1 DEF BookInv
<1> QED
  BY <1>2, <1>4, <1>7, <1>8, <1>9 DEF BookInv, Saves

LEMMA LoadKeeps ==
  ASSUME BookInv, NEW crashed \in BOOLEAN, Load(crashed)
  PROVE  BookInv'
<1>1. /\ pool' = Seeded(disk.pool) /\ Saves
      /\ latest' = [r \in Relays |-> IF r \in DOMAIN disk.pool /\ r \in DOMAIN pool /\ disk.pool[r] = pool[r]
                                     THEN latest[r] ELSE "none"]
      /\ UNCHANGED <<now, disk, attempts, overwritten, lost>>
      /\ found' \subseteq found /\ claimed' \subseteq claimed
  BY DEF Load
<1>2. /\ DOMAIN pool' = DOMAIN disk.pool \cup Seeds
      /\ \A k \in DOMAIN pool' : pool'[k] = IF k \in DOMAIN disk.pool THEN disk.pool[k] ELSE Fresh
  BY <1>1 DEF Seeded
<1>3. GoodBook(pool)' /\ GoodBook(disk.pool)'
  BY <1>1, <1>2, FreshIsStamped, BookAssumption DEF BookInv, GoodBook
<1>4. LatestAttemptDecides'
  <2> SUFFICES ASSUME NEW k \in DOMAIN pool', k \notin overwritten, latest'[k] # "none"
               PROVE  Failed(pool'[k]) <=> latest'[k] = "failed"
    BY <1>1 DEF LatestAttemptDecides, Failed
  <2>1. k \in Relays
    BY <1>2, BookAssumption DEF BookInv, GoodBook
  <2>2. k \in DOMAIN disk.pool /\ k \in DOMAIN pool /\ disk.pool[k] = pool[k] /\ latest'[k] = latest[k]
    BY <2>1, <1>1
  <2> QED
    BY <2>2, <1>2 DEF BookInv, PoolIsTrue, LatestAttemptDecides
<1>5. PoolIsTrue'
  BY <1>1, <1>4, SavesSaves DEF PoolIsTrue
<1>6. /\ latest' \in [Relays -> {"none", "ok", "failed"}]
      /\ \A k \in Relays \ DOMAIN pool' : latest'[k] = "none"
  BY <1>1, <1>2 DEF BookInv
<1> QED
  BY <1>1, <1>3, <1>5, <1>6 DEF BookInv, Saves

\* The inductive invariant of the pool of relays.
LEMMA BookInvariant == SpecBook => []BookInv
<1>1. InitBook => BookInv
  <2> SUFFICES ASSUME InitBook PROVE BookInv
    OBVIOUS
  <2>1. DOMAIN <<>> = {} /\ DOMAIN pool = Seeds /\ \A r \in Seeds : pool[r] = Fresh
    BY DEF InitBook, Seeded
  <2>2. now \in Nat
    BY BookAssumption DEF InitBook
  <2>3. GoodBook(pool) /\ GoodBook(disk.pool)
    BY <2>1, FreshIsStamped, BookAssumption DEF InitBook, GoodBook
  <2>4. latest = [r \in Relays |-> "none"] /\ dirty = TRUE /\ flushTimer = TRUE /\ lost = FALSE
    BY DEF InitBook
  <2>5. PoolIsTrue
    BY <2>1, <2>4, BookAssumption DEF PoolIsTrue, LatestAttemptDecides, SavedOrScheduled
  <2> QED
    BY <2>2, <2>3, <2>4, <2>5 DEF InitBook, BookInv
<1>2. BookInv /\ [NextBook]_bookVars => BookInv'
  <2> SUFFICES ASSUME BookInv, [NextBook]_bookVars PROVE BookInv'
    OBVIOUS
  <2>0. now \in Nat
    BY DEF BookInv
  <2>1. ASSUME NEW r \in Relays, NEW rtt \in Rtts, NEW inRound \in BOOLEAN, ProbeSucceeds(r, rtt, inRound)
        PROVE  BookInv'
    <3>1. rtt \in Nat
      BY BookAssumption
    <3>2. /\ Attempted(r, "ok") /\ pool' = Put(pool, r, Succeeded(EntryOf(r), rtt))
          /\ found' \subseteq found \cup {r}
      BY <2>1 DEF ProbeSucceeds
    <3>3. found' \subseteq Relays
      BY <3>2 DEF BookInv
    <3> QED
      BY <2>0, <3>1, <3>2, <3>3, EntryIsGood, SucceededDecides, AttemptKeeps
  <2>2. ASSUME NEW r \in Relays, ProbeFails(r)
        PROVE  BookInv'
    <3>1. Attempted(r, "failed") /\ pool' = Put(pool, r, Missed(EntryOf(r))) /\ found' \subseteq Relays
      BY <2>2 DEF ProbeFails, BookInv
    <3> QED
      BY <2>0, <3>1, EntryIsGood, MissedDecides, AttemptKeeps
  <2>3. ASSUME NEW r \in Relays, NEW routed \in BOOLEAN, PublishAccepted(r, routed)
        PROVE  BookInv'
    <3> DEFINE e == EntryOf(r)
    <3> DEFINE f == [e EXCEPT !.pubOk = Larger(now, e.pubBad + 1)]
    <3>1. Attempted(r, "ok") /\ pool' = Put(pool, r, Succeeded(f, 0)) /\ found' \subseteq Relays
      BY <2>3 DEF PublishAccepted, BookInv
    <3>2. e \in Entries /\ (r \notin overwritten => Stamped(e))
      BY EntryIsGood
    <3> HIDE DEF e
    <3>3. f \in Entries /\ (Stamped(e) => Stamped(f))
      BY <2>0, <3>2 DEF Entries, Stamped, Larger
    <3> HIDE DEF f
    <3> QED
      BY <2>0, <3>1, <3>2, <3>3, SucceededDecides, AttemptKeeps
  <2>4. ASSUME NEW r \in Relays, PublishRefused(r)
        PROVE  BookInv'
    <3> DEFINE e == EntryOf(r)
    <3> DEFINE f == [e EXCEPT !.pubBad = Larger(now, e.pubOk + 1)]
    <3>1. Attempted(r, "failed") /\ pool' = Put(pool, r, Missed(f)) /\ found' \subseteq Relays
      BY <2>4 DEF PublishRefused, BookInv
    <3>2. e \in Entries /\ (r \notin overwritten => Stamped(e))
      BY EntryIsGood
    <3> HIDE DEF e
    <3>3. f \in Entries /\ (Stamped(e) => Stamped(f))
      BY <2>0, <3>2 DEF Entries, Stamped, Larger
    <3> HIDE DEF f
    <3> QED
      BY <2>0, <3>1, <3>2, <3>3, MissedDecides, AttemptKeeps
  <2>5. ASSUME NEW r \in Relays, NEW rtt \in Rtts, RoundAdds(r, rtt)
        PROVE  BookInv'
    <3> DEFINE e == EntryOf(r)
    <3> DEFINE f == [e EXCEPT !.rtt = rtt, !.lastOk = now, !.probe = now]
    <3>1. /\ Upsert(r, f) /\ found' = found \ {r} /\ overwritten' = overwritten \cup {r}
          /\ UNCHANGED <<now, claimed, lastGood, disk, attempts, lost>>
      BY <2>5 DEF RoundAdds
    <3>2. e \in Entries /\ rtt \in Nat
      BY EntryIsGood, BookAssumption
    <3> HIDE DEF e
    <3>3. f \in Entries
      BY <2>0, <3>2 DEF Entries
    <3> HIDE DEF f
    <3>4. found' \subseteq Relays /\ claimed' \subseteq Relays
      BY <3>1 DEF BookInv
    <3> QED
      BY <3>1, <3>3, <3>4, UpsertKeeps
  <2>6. ASSUME NEW r \in Relays, NEW rtt \in Rtts, AdvertAdds(r, rtt)
        PROVE  BookInv'
    <3> DEFINE e == EntryOf(r)
    <3> DEFINE f == [e EXCEPT !.rtt = rtt]
    <3>1. /\ Upsert(r, f) /\ claimed' = claimed \ {r}
          /\ UNCHANGED <<now, found, lastGood, disk, attempts, overwritten, lost>>
      BY <2>6 DEF AdvertAdds
    <3>2. e \in Entries /\ rtt \in Nat /\ (r \notin overwritten => Stamped(e))
      BY EntryIsGood, BookAssumption
    <3>3. f \in Entries /\ (Stamped(e) => Stamped(f)) /\ (Failed(f) <=> Failed(e))
      <4> HIDE DEF e
      <4> QED
        BY <2>0, <3>2 DEF Entries, Stamped, Failed
    <3> HIDE DEF f
    <3>4. found' \subseteq Relays /\ claimed' \subseteq Relays
      BY <3>1 DEF BookInv
    <3> QED
      BY <3>1, <3>2, <3>3, <3>4, UpsertKeeps
  <2>7. ASSUME NEW r \in Relays, AdvertNames(r)
        PROVE  BookInv'
    BY <2>7 DEF AdvertNames, BookInv, GoodBook, PoolIsTrue, LatestAttemptDecides, SavedOrScheduled
  <2>8. ASSUME NEW written \in BOOLEAN, Flush(written)
        PROVE  BookInv'
    <3>1. /\ flushTimer' = FALSE /\ dirty' = FALSE
          /\ IF written THEN disk' = [pool |-> pool, lastGood |-> lastGood] /\ lost' = FALSE
             ELSE lost' = (lost \/ dirty) /\ UNCHANGED disk
          /\ UNCHANGED <<now, pool, found, claimed, lastGood, attempts, latest, overwritten>>
      BY <2>8 DEF Flush
    <3>2. GoodBook(disk.pool)' /\ GoodBook(pool)'
      BY <3>1 DEF BookInv, GoodBook
    <3>3. SavedOrScheduled'
      BY <3>1 DEF BookInv, PoolIsTrue, SavedOrScheduled
    <3>4. LatestAttemptDecides'
      BY <3>1 DEF BookInv, PoolIsTrue, LatestAttemptDecides
    <3> QED
      BY <3>1, <3>2, <3>3, <3>4 DEF BookInv, PoolIsTrue
  <2>9. CASE TimePasses \/ UNCHANGED bookVars
    <3>1. now' \in Nat /\ UNCHANGED <<pool, found, claimed, lastGood, disk, dirty, flushTimer, latest, overwritten, lost>>
      BY <2>0, <2>9 DEF TimePasses, bookVars
    <3> QED
      BY <3>1 DEF BookInv, GoodBook, PoolIsTrue, LatestAttemptDecides, SavedOrScheduled
  <2> QED
    BY <2>1, <2>2, <2>3, <2>4, <2>5, <2>6, <2>7, <2>8, <2>9, LoadKeeps DEF NextBook
<1> QED
  BY <1>1, <1>2, PTL DEF SpecBook

\* For any relays, bounds and weights: an entry that no round stamped over is true to the
\* last attempt, and what is not in the file is to be written (relays.mjs:276-278, 335-359,
\* 534-577).
THEOREM BookSound == SpecBook => []PoolIsTrue
<1>1. BookInv => PoolIsTrue
  BY DEF BookInv
<1> QED
  BY <1>1, BookInvariant, PTL

-----------------------------------------------------------------------------
(* Groups. *)

\* Only the first start() was called.
FirstLife == \A n \in 2..MaxStarts : run[n] = "no"

GroupShape ==
  /\ active \in BOOLEAN /\ started \in BOOLEAN /\ raced \in BOOLEAN
  /\ run \in [Starts -> {"no", "runtime", "adverts", "presence", "scan", "done"}]
  /\ members \subseteq Others /\ up \subseteq Others
  /\ announced \subseteq Others /\ listening \subseteq Listeners
  /\ told \in [Listeners -> SUBSET Others]
  /\ held \subseteq Held /\ cleanups \subseteq Held
  /\ scanTimer \in Starts \cup {0}
  /\ started => active

\* Unless they raced: what is held has its cleanup, the timer is one of them, a start that is
\* under way was not left, and what was left holds nothing.
CleanupsAreKept ==
  ~raced =>
    /\ cleanups = held
    /\ scanTimer # 0 => <<"scan", scanTimer>> \in held
    /\ Underway => started
    /\ ~active => held = {} /\ ~interest /\ ~dialTimer

\* What every listener was told of last.
ListenersAreTold == \A l \in listening : told[l] = announced

\* In the first life: nothing is announced before links are heard of; then only what is
\* linked, and after the roster all that is.
JoinsAreHeardOf ==
  ~raced /\ FirstLife =>
    /\ run[1] \in {"no", "runtime"} => held = {} /\ announced = {} /\ ListenersAreTold
    /\ started => run[1] # "no"
    /\ started /\ run[1] # "runtime" =>
         <<"events", 1>> \in held /\ announced \subseteq members \cap up /\ ListenersAreTold
    /\ started /\ run[1] = "done" => members \cap up \subseteq announced

GroupInv == GroupShape /\ CleanupsAreKept /\ JoinsAreHeardOf

\* Those who listen are told of all that join, and of who leaves.
LEMMA JoinsTell ==
  ASSUME GroupShape, ListenersAreTold, listening' = listening, NEW ps \in SUBSET Others, Joins(ps)
  PROVE  ListenersAreTold' /\ announced' = announced \cup ps
<1>1. /\ announced' = announced \cup ps
      /\ told' = [l \in Listeners |-> IF l \in listening THEN told[l] \cup (ps \ announced) ELSE told[l]]
  BY DEF Joins
<1>2. ASSUME NEW l \in listening PROVE told'[l] = announced'
  <2>1. l \in Listeners /\ told[l] = announced
    BY DEF GroupShape, ListenersAreTold
  <2>2. told'[l] = announced \cup (ps \ announced)
    BY <1>1, <2>1
  <2> QED
    BY <1>1, <2>2
<1> QED
  BY <1>1, <1>2 DEF ListenersAreTold

LEMMA LeavesTell ==
  ASSUME GroupShape, ListenersAreTold, listening' = listening, NEW p \in Others, Leaves(p)
  PROVE  ListenersAreTold' /\ announced' = announced \ {p}
<1>1. /\ announced' = announced \ {p}
      /\ told' = [l \in Listeners |-> IF l \in listening /\ p \in announced THEN told[l] \ {p} ELSE told[l]]
  BY DEF Leaves
<1>2. ASSUME NEW l \in listening PROVE told'[l] = announced'
  <2>1. l \in Listeners /\ told[l] = announced
    BY DEF GroupShape, ListenersAreTold
  <2>2. told'[l] = IF p \in announced THEN announced \ {p} ELSE announced
    BY <1>1, <2>1
  <2> QED
    BY <1>1, <2>2
<1> QED
  BY <1>1, <1>2 DEF ListenersAreTold

LEMMA FirstIsAStart == 1 \in Starts /\ 0 \notin Starts /\ \A n \in Starts : n = 1 \/ n \in 2..MaxStarts
BY GroupAssumption DEF Starts

\* Joins and leaves keep the shapes.
LEMMA ToldKeepsShape ==
  ASSUME GroupShape, NEW ps \in SUBSET Others, NEW p \in Others, Joins(ps) \/ Leaves(p)
  PROVE  told' \in [Listeners -> SUBSET Others] /\ announced' \subseteq Others
BY DEF GroupShape, Joins, Leaves

\* The steps of a start().
LEMMA StartKeeps ==
  ASSUME GroupInv, NEW n \in Starts, Start(n)
  PROVE  GroupInv'
<1> USE DEF GroupInv
<1>1. /\ ~started /\ run[n] = "no" /\ \A m \in 1..(n - 1) : run[m] # "no"
      /\ started' = TRUE /\ active' = TRUE /\ run' = [run EXCEPT ![n] = "runtime"]
      /\ UNCHANGED <<members, up, announced, listening, told, held, cleanups, scanTimer,
                     autoconnect, dialTimer, interest, raced>>
  BY DEF Start
<1>2. GroupShape'
  BY <1>1 DEF GroupShape
<1>3. CleanupsAreKept'
  BY <1>1 DEF CleanupsAreKept
<1>4. JoinsAreHeardOf'
  <2> SUFFICES ASSUME ~raced, FirstLife'
               PROVE  /\ run'[1] = "runtime" /\ held = {} /\ announced = {} /\ ListenersAreTold'
    BY <1>1 DEF JoinsAreHeardOf
  <2>1. n = 1
    BY <1>1, FirstIsAStart DEF FirstLife, GroupShape
  <2>2. run[1] = "no" /\ run'[1] = "runtime" /\ FirstLife
    BY <1>1, <2>1, GroupAssumption DEF FirstLife, GroupShape, Starts
  <2> QED
    BY <1>1, <2>2 DEF JoinsAreHeardOf, ListenersAreTold
<1> QED
  BY <1>2, <1>3, <1>4

\* A start that goes on holds something, with its cleanup.
LEMMA HoldsEffect ==
  ASSUME GroupInv, NEW n \in Starts, NEW kind \in {"events", "adverts", "presence", "scan"},
         NEW pc \in {"adverts", "presence", "scan", "done"},
         Holds(n, kind, pc), run[n] \notin {"no", "done"}, UNCHANGED <<active, started, raced>>
  PROVE  /\ run' \in [Starts -> {"no", "runtime", "adverts", "presence", "scan", "done"}]
         /\ run'[n] = pc /\ \A m \in Starts \ {n} : run'[m] = run[m]
         /\ held' \subseteq Held /\ cleanups' \subseteq Held /\ held \subseteq held'
         /\ <<kind, n>> \in held'
         /\ ~raced => cleanups' = held' /\ started /\ active
         /\ FirstLife' => FirstLife /\ n = 1
<1>1. /\ held' = held \cup {<<kind, n>>} /\ cleanups' = cleanups \cup {<<kind, n>>}
      /\ run' = [run EXCEPT ![n] = pc]
  BY DEF Holds
<1>2. run \in [Starts -> {"no", "runtime", "adverts", "presence", "scan", "done"}]
  BY DEF GroupInv, GroupShape
<1>3. run'[n] = pc /\ \A m \in Starts \ {n} : run'[m] = run[m]
  BY <1>1, <1>2
<1>4. held' \subseteq Held /\ cleanups' \subseteq Held
  BY <1>1 DEF GroupInv, GroupShape, Held
<1>5. ~raced => cleanups' = held' /\ started /\ active
  BY <1>1 DEF GroupInv, GroupShape, CleanupsAreKept, Underway
<1>6. FirstLife' => FirstLife /\ n = 1
  BY <1>2, <1>3, FirstIsAStart DEF FirstLife, Starts
<1> QED
  BY <1>1, <1>2, <1>3, <1>4, <1>5, <1>6

LEMMA HoldingKeeps ==
  ASSUME GroupInv, NEW n \in Starts, RuntimeReady(n) \/ AdvertsWatched(n) \/ PresenceStarted(n)
  PROVE  GroupInv'
<1> USE DEF GroupInv
<1>1. PICK kind \in {"events", "adverts", "presence"}, pc \in {"adverts", "presence", "scan"} :
        /\ Holds(n, kind, pc) /\ run[n] \notin {"no", "done"}
        /\ run[n] = "runtime" => kind = "events"
        /\ UNCHANGED <<active, started, members, up, announced, listening, told, scanTimer,
                       autoconnect, dialTimer, raced>>
  BY DEF RuntimeReady, AdvertsWatched, PresenceStarted
<1>2. /\ run' \in [Starts -> {"no", "runtime", "adverts", "presence", "scan", "done"}]
      /\ run'[n] = pc /\ \A m \in Starts \ {n} : run'[m] = run[m]
      /\ held' \subseteq Held /\ cleanups' \subseteq Held /\ held \subseteq held'
      /\ <<kind, n>> \in held'
      /\ ~raced => cleanups' = held' /\ started /\ active
      /\ FirstLife' => FirstLife /\ n = 1
  BY <1>1, HoldsEffect
<1>3. GroupShape'
  BY <1>1, <1>2 DEF GroupShape
<1>4. CleanupsAreKept'
  BY <1>1, <1>2 DEF CleanupsAreKept
<1>5. JoinsAreHeardOf'
  <2> SUFFICES ASSUME ~raced, FirstLife'
               PROVE  <<"events", 1>> \in held' /\ announced \subseteq members \cap up /\ ListenersAreTold
    BY <1>1, <1>2 DEF JoinsAreHeardOf, ListenersAreTold
  <2>1. FirstLife /\ n = 1 /\ started
    BY <1>2
  <2> QED
    BY <1>1, <1>2, <2>1 DEF JoinsAreHeardOf
<1> QED
  BY <1>3, <1>4, <1>5

LEMMA ScannedKeeps ==
  ASSUME GroupInv, NEW n \in Starts, NEW ps \in SUBSET Others, Scanned(n, ps)
  PROVE  GroupInv'
<1> USE DEF GroupInv
<1> DEFINE known == (ps \cap up) \cup Roster(members \cup ps)
<1>1. /\ run[n] = "scan" /\ Holds(n, "scan", "done") /\ members' = members \cup ps /\ Joins(known)
      /\ scanTimer' = n /\ UNCHANGED <<active, started, up, listening, raced>>
  BY DEF Scanned
<1>2. known = (members \cup ps) \cap up /\ known \subseteq Others
  BY DEF Roster, GroupShape
<1> HIDE DEF known
<1>3. /\ run' \in [Starts -> {"no", "runtime", "adverts", "presence", "scan", "done"}]
      /\ run'[n] = "done" /\ \A m \in Starts \ {n} : run'[m] = run[m]
      /\ held' \subseteq Held /\ cleanups' \subseteq Held /\ held \subseteq held'
      /\ <<"scan", n>> \in held'
      /\ ~raced => cleanups' = held' /\ started /\ active
      /\ FirstLife' => FirstLife /\ n = 1
  BY <1>1, HoldsEffect
<1>4. GroupShape'
  <2>1. told' \in [Listeners -> SUBSET Others] /\ announced' \subseteq Others
    BY <1>1, <1>2, ToldKeepsShape DEF Joins, GroupShape
  <2>2. members' \subseteq Others
    BY <1>1 DEF GroupShape
  <2> QED
    BY <1>1, <1>3, <2>1, <2>2 DEF GroupShape
<1>5. CleanupsAreKept'
  BY <1>1, <1>3 DEF CleanupsAreKept
<1>6. JoinsAreHeardOf'
  <2> SUFFICES ASSUME ~raced, FirstLife'
               PROVE  <<"events", 1>> \in held' /\ announced' = members' \cap up /\ ListenersAreTold'
    BY <1>1, <1>3 DEF JoinsAreHeardOf
  <2>1. FirstLife /\ n = 1 /\ started
    BY <1>3
  <2>2. <<"events", 1>> \in held /\ announced \subseteq members \cap up /\ ListenersAreTold
    BY <1>1, <2>1 DEF JoinsAreHeardOf
  <2>3. ListenersAreTold' /\ announced' = announced \cup known
    BY <1>1, <1>2, <2>2, JoinsTell
  <2> QED
    BY <1>1, <1>2, <1>3, <2>2, <2>3
<1> QED
  BY <1>4, <1>5, <1>6

LEMMA LeaveKeeps ==
  ASSUME GroupInv, Leave
  PROVE  GroupInv'
<1> USE DEF GroupInv
<1>1. /\ active' = FALSE /\ started' = FALSE /\ ~dialTimer' /\ ~interest' /\ held' = Cleaned /\ cleanups' = {}
      /\ scanTimer' = IF \E n \in Starts : <<"scan", n>> \in cleanups THEN 0 ELSE scanTimer
      /\ raced' = (raced \/ Underway)
      /\ UNCHANGED <<run, members, up, announced, listening, told>>
  BY DEF Leave
<1>2. held' \subseteq held
  BY <1>1 DEF Cleaned
<1>3. GroupShape'
  BY <1>1, <1>2 DEF GroupShape
<1>4. ~raced' => ~raced /\ ~Underway
  BY <1>1
<1>5. CleanupsAreKept'
  <2> SUFFICES ASSUME ~raced, ~Underway
               PROVE  /\ held' = {} /\ scanTimer' = 0 /\ ~Underway'
    BY <1>1, <1>4 DEF CleanupsAreKept
  <2>1. held' = {}
    BY <1>1 DEF Cleaned, CleanupsAreKept
  <2>2. scanTimer' = 0
    BY <1>1 DEF CleanupsAreKept, GroupShape
  <2> QED
    BY <1>1, <2>1, <2>2 DEF Underway
<1>6. JoinsAreHeardOf'
  BY <1>1, <1>2, <1>4 DEF JoinsAreHeardOf, FirstLife, ListenersAreTold
<1> QED
  BY <1>3, <1>5, <1>6

LEMMA LinkUpKeeps ==
  ASSUME GroupInv, NEW p \in Others, LinkUp(p)
  PROVE  GroupInv'
<1> USE DEF GroupInv
<1>1. /\ up' = up \cup {p}
      /\ IF HearsOf("events") /\ p \in members THEN Joins({p}) ELSE UNCHANGED <<announced, told>>
      /\ UNCHANGED <<active, started, run, members, listening, held, cleanups, scanTimer,
                     autoconnect, dialTimer, interest, raced>>
  BY DEF LinkUp
<1>2. GroupShape'
  <2>1. told' \in [Listeners -> SUBSET Others] /\ announced' \subseteq Others
    BY <1>1, ToldKeepsShape DEF GroupShape
  <2> QED
    BY <1>1, <2>1 DEF GroupShape
<1>3. CleanupsAreKept'
  BY <1>1 DEF CleanupsAreKept, Underway
<1>4. JoinsAreHeardOf'
  <2> SUFFICES ASSUME ~raced, FirstLife
               PROVE  /\ run[1] \in {"no", "runtime"} => announced' = {} /\ ListenersAreTold'
                      /\ started /\ run[1] # "runtime" => announced' \subseteq members \cap up' /\ ListenersAreTold'
                      /\ started /\ run[1] = "done" => members \cap up' \subseteq announced'
    BY <1>1 DEF JoinsAreHeardOf, FirstLife
  <2>1. CASE run[1] \in {"no", "runtime"}
    <3>1. ~HearsOf("events")
      BY <2>1 DEF JoinsAreHeardOf, HearsOf
    <3> QED
      BY <2>1, <3>1, <1>1 DEF JoinsAreHeardOf, ListenersAreTold
  <2>2. CASE started /\ run[1] \notin {"no", "runtime"}
    <3>1. /\ HearsOf("events") /\ announced \subseteq members \cap up /\ ListenersAreTold
          /\ run[1] = "done" => members \cap up \subseteq announced
      BY <2>2, FirstIsAStart DEF JoinsAreHeardOf, HearsOf
    <3>2. CASE p \in members
      <4>1. ListenersAreTold' /\ announced' = announced \cup {p}
        BY <3>1, <3>2, <1>1, JoinsTell
      <4> QED
        BY <2>2, <3>1, <3>2, <4>1, <1>1
    <3>3. CASE p \notin members
      BY <2>2, <3>1, <3>3, <1>1 DEF ListenersAreTold
    <3> QED
      BY <3>2, <3>3
  <2> QED
    BY <2>1, <2>2 DEF JoinsAreHeardOf
<1> QED
  BY <1>2, <1>3, <1>4

LEMMA LinkDownKeeps ==
  ASSUME GroupInv, NEW p \in Others, LinkDown(p)
  PROVE  GroupInv'
<1> USE DEF GroupInv
<1>1. /\ up' = up \ {p}
      /\ IF HearsOf("events") /\ p \in members THEN Leaves(p) ELSE UNCHANGED <<announced, told>>
      /\ UNCHANGED <<active, started, run, members, listening, held, cleanups, scanTimer,
                     autoconnect, dialTimer, interest, raced>>
  BY DEF LinkDown
<1>2. GroupShape'
  <2>1. told' \in [Listeners -> SUBSET Others] /\ announced' \subseteq Others
    BY <1>1, ToldKeepsShape DEF GroupShape
  <2> QED
    BY <1>1, <2>1 DEF GroupShape
<1>3. CleanupsAreKept'
  BY <1>1 DEF CleanupsAreKept, Underway
<1>4. JoinsAreHeardOf'
  <2> SUFFICES ASSUME ~raced, FirstLife
               PROVE  /\ run[1] \in {"no", "runtime"} => announced' = {} /\ ListenersAreTold'
                      /\ started /\ run[1] # "runtime" => announced' \subseteq members \cap up' /\ ListenersAreTold'
                      /\ started /\ run[1] = "done" => members \cap up' \subseteq announced'
    BY <1>1 DEF JoinsAreHeardOf, FirstLife
  <2>1. CASE run[1] \in {"no", "runtime"}
    <3>1. ~HearsOf("events")
      BY <2>1 DEF JoinsAreHeardOf, HearsOf
    <3> QED
      BY <2>1, <3>1, <1>1 DEF JoinsAreHeardOf, ListenersAreTold
  <2>2. CASE started /\ run[1] \notin {"no", "runtime"}
    <3>1. /\ HearsOf("events") /\ announced \subseteq members \cap up /\ ListenersAreTold
          /\ run[1] = "done" => members \cap up \subseteq announced
      BY <2>2, FirstIsAStart DEF JoinsAreHeardOf, HearsOf
    <3>2. CASE p \in members
      <4>1. ListenersAreTold' /\ announced' = announced \ {p}
        BY <3>1, <3>2, <1>1, LeavesTell
      <4> QED
        BY <2>2, <3>1, <3>2, <4>1, <1>1
    <3>3. CASE p \notin members
      BY <2>2, <3>1, <3>3, <1>1 DEF ListenersAreTold
    <3> QED
      BY <3>2, <3>3
  <2> QED
    BY <2>1, <2>2 DEF JoinsAreHeardOf
<1> QED
  BY <1>2, <1>3, <1>4

LEMMA CandidateKeeps ==
  ASSUME GroupInv, NEW p \in Others, Candidate(p)
  PROVE  GroupInv'
<1> USE DEF GroupInv
<1>1. /\ HearsOf("events") \/ HearsOf("adverts") \/ HearsOf("scan")
      /\ members' = members \cup {p} /\ Joins({p} \cap up)
      /\ dialTimer' = (dialTimer \/ (autoconnect /\ active /\ ~({p} \subseteq members)))
      /\ UNCHANGED <<active, started, run, up, listening, held, cleanups, scanTimer, autoconnect, raced>>
  BY DEF Candidate, Candidates
<1>2. held # {}
  BY <1>1 DEF HearsOf
<1>3. GroupShape'
  <2>1. told' \in [Listeners -> SUBSET Others] /\ announced' \subseteq Others
    BY <1>1, ToldKeepsShape
  <2> QED
    BY <1>1, <2>1 DEF GroupShape
<1>4. CleanupsAreKept'
  BY <1>1, <1>2 DEF CleanupsAreKept, Underway
<1>5. JoinsAreHeardOf'
  <2> SUFFICES ASSUME ~raced, FirstLife
               PROVE  /\ run[1] \notin {"no", "runtime"}
                      /\ started => announced' \subseteq members' \cap up /\ ListenersAreTold'
                      /\ started /\ run[1] = "done" => members' \cap up \subseteq announced'
    BY <1>1 DEF JoinsAreHeardOf, FirstLife
  <2>1. run[1] \notin {"no", "runtime"}
    BY <1>2 DEF JoinsAreHeardOf
  <2>2. CASE started
    <3>1. /\ announced \subseteq members \cap up /\ ListenersAreTold
          /\ run[1] = "done" => members \cap up \subseteq announced
      BY <2>1, <2>2 DEF JoinsAreHeardOf
    <3>2. ListenersAreTold' /\ announced' = announced \cup ({p} \cap up)
      BY <3>1, <1>1, JoinsTell DEF GroupShape
    <3> QED
      BY <2>1, <3>1, <3>2, <1>1
  <2> QED
    BY <2>1, <2>2
<1> QED
  BY <1>3, <1>4, <1>5

LEMMA OnPeerJoinKeeps ==
  ASSUME GroupInv, NEW l \in Listeners, OnPeerJoin(l)
  PROVE  GroupInv'
<1> USE DEF GroupInv
<1> DEFINE known == announced \cup (members \cap up)
<1>1. /\ l \notin listening /\ listening' = listening \cup {l} /\ announced' = known
      /\ told' = [told EXCEPT ![l] = known]
      /\ raced' = (raced \/ (known # {} /\ ~HearsOf("events")) \/ (known # announced /\ listening # {}))
      /\ UNCHANGED <<active, started, run, members, up, held, cleanups, scanTimer,
                     autoconnect, dialTimer, interest>>
  BY DEF OnPeerJoin
<1> HIDE DEF known
<1>2. known \subseteq Others /\ (known = announced \cup (members \cap up))
  BY DEF known, GroupShape
<1>3. GroupShape'
  BY <1>1, <1>2 DEF GroupShape
<1>4. ~raced' => ~raced /\ (known # {} => HearsOf("events")) /\ (known = announced \/ listening = {})
  BY <1>1
<1>5. CleanupsAreKept'
  BY <1>1, <1>4 DEF CleanupsAreKept, Underway
<1>6. ASSUME ~raced', ListenersAreTold PROVE ListenersAreTold'
  <2> SUFFICES ASSUME NEW m \in listening' PROVE told'[m] = known
    BY <1>1 DEF ListenersAreTold
  <2>1. CASE m = l
    BY <2>1, <1>1 DEF GroupShape
  <2>2. CASE m # l
    <3>1. m \in listening /\ m \in Listeners /\ told'[m] = told[m]
      BY <2>2, <1>1 DEF GroupShape
    <3> QED
      BY <3>1, <1>4, <1>6 DEF ListenersAreTold
  <2> QED
    BY <2>1, <2>2
<1>7. JoinsAreHeardOf'
  <2> SUFFICES ASSUME ~raced', FirstLife
               PROVE  /\ run[1] \in {"no", "runtime"} => held = {} /\ announced' = {} /\ ListenersAreTold'
                      /\ started => run[1] # "no"
                      /\ started /\ run[1] # "runtime" =>
                           <<"events", 1>> \in held /\ announced' \subseteq members \cap up /\ ListenersAreTold'
                      /\ started /\ run[1] = "done" => members \cap up \subseteq announced'
    BY <1>1 DEF JoinsAreHeardOf, FirstLife
  <2>1. CASE run[1] \in {"no", "runtime"}
    <3>1. held = {} /\ ListenersAreTold /\ ~HearsOf("events") /\ (started => run[1] # "no")
      BY <2>1, <1>4 DEF JoinsAreHeardOf, HearsOf
    <3> QED
      BY <2>1, <3>1, <1>1, <1>4, <1>6
  <2>2. CASE started /\ run[1] \notin {"no", "runtime"}
    BY <2>2, <1>1, <1>2, <1>4, <1>6 DEF JoinsAreHeardOf
  <2> QED
    BY <2>1, <2>2, <1>4 DEF JoinsAreHeardOf
<1> QED
  BY <1>3, <1>5, <1>7

\* The inductive invariant of groups.
LEMMA GroupInvariant == SpecGroup => []GroupInv
<1>1. InitGroup => GroupInv
  BY GroupAssumption DEF InitGroup, GroupInv, GroupShape, CleanupsAreKept, JoinsAreHeardOf, ListenersAreTold,
     Underway, FirstLife, Starts
<1>2. GroupInv /\ [NextGroup]_groupVars => GroupInv'
  <2> SUFFICES ASSUME GroupInv, [NextGroup]_groupVars PROVE GroupInv'
    OBVIOUS
  <2>1. CASE startAutoconnect \/ stopAutoconnect \/ DialTimer \/ UNCHANGED groupVars
    BY <2>1 DEF startAutoconnect, stopAutoconnect, DialTimer, groupVars, GroupInv, GroupShape,
       CleanupsAreKept, JoinsAreHeardOf, ListenersAreTold, Underway, FirstLife
  <2> QED
    BY <2>1, StartKeeps, HoldingKeeps, ScannedKeeps, LeaveKeeps, LinkUpKeeps, LinkDownKeeps,
       CandidateKeeps, OnPeerJoinKeeps DEF NextGroup
<1> QED
  BY <1>1, <1>2, PTL DEF SpecGroup

\* For any members, listeners and number of starts: listeners are told of exactly the linked
\* members, and leave() leaves nothing behind (group_link_set.mjs:70-84, 237-246).
THEOREM GroupSound == SpecGroup => []GroupIsClean
<1>1. GroupInv => GroupIsClean
  <2> SUFFICES ASSUME GroupInv PROVE GroupIsClean
    OBVIOUS
  <2>1. JoinsFollowLinks
    BY DEF GroupInv, JoinsAreHeardOf, FirstLife, ListenersAreTold, JoinsFollowLinks
  <2>2. LeaveLeavesNothing
    BY FirstIsAStart DEF GroupInv, GroupShape, CleanupsAreKept, LeaveLeavesNothing
  <2> QED
    BY <2>1, <2>2 DEF GroupIsClean
<1> QED
  BY <1>1, GroupInvariant, PTL

-----------------------------------------------------------------------------
(* The keepalive of the mesh. *)

\* Stability is noted of a peer that has a link, and from little earlier than it had one: the
\* closes of a tick that has read the clock take no longer than CloseTime.  Without its timer
\* the mesh notes nothing.
MeshInv ==
  /\ timer \in BOOLEAN /\ cut \in BOOLEAN /\ clock \in Nat
  /\ linked \in [MeshPeers -> Int] /\ stableSince \in [MeshPeers -> Int]
  /\ \A p \in MeshPeers : linked[p] = -1 \/ (linked[p] \in Nat /\ linked[p] <= clock)
  /\ tick.pc \in {"evict", "closing", "closed"} =>
       tick.now \in Nat /\ tick.now <= clock /\ clock - tick.now <= CloseTime
  /\ ~cut => /\ ~timer => tick = NoTick /\ \A p \in MeshPeers : stableSince[p] = -1
             /\ \A p \in MeshPeers : stableSince[p] # -1 =>
                  linked[p] # -1 /\ linked[p] <= stableSince[p] + CloseTime

\* The tick has read the clock, or is over.
TickNow(rec) ==
  rec.pc \in {"evict", "closing", "closed"} =>
    rec.now \in Nat /\ rec.now <= clock /\ clock - rec.now <= CloseTime

\* What a step that keeps the links and may take marks away keeps.
LEMMA MarksGo ==
  ASSUME MeshInv, NEW ps, stableSince' = Without(stableSince, ps),
         UNCHANGED <<timer, linked, tick, clock, cut>>
  PROVE  MeshInv'
BY DEF MeshInv, Without

LEMMA MarkUpKeeps ==
  ASSUME MeshInv, NEW p \in MeshPeers, NEW byTrusted, MarkUp(p, byTrusted),
         UNCHANGED <<timer, linked, tick, clock, cut>>
  PROVE  MeshInv'
BY MarksGo DEF MarkUp

\* A tick that was not cut runs with the timer.
LEMMA TickHasTimer ==
  ASSUME MeshInv, ~cut, tick.pc # "idle"
  PROVE  timer
BY DEF MeshInv, NoTick

\* A tick goes on, with the timer, while marks may go.
LEMMA TickMoves ==
  ASSUME MeshInv, UNCHANGED <<timer, linked, clock, cut>>,
         stableSince' \in [MeshPeers -> Int],
         \A p \in MeshPeers : stableSince'[p] \in {-1, stableSince[p]},
         tick' = tick \/ (~cut => timer),
         TickNow(tick')
  PROVE  MeshInv'
<1>1. CASE tick' = tick
  BY <1>1 DEF MeshInv
<1>2. CASE ~cut => timer
  BY <1>2 DEF MeshInv, TickNow
<1> QED
  BY <1>1, <1>2

\* runTick begins a tick that has read nothing.
LEMMA RunTickIsEarly ==
  ASSUME MeshInv, runTick, UNCHANGED clock
  PROVE  TickNow(tick')
<1>1. CASE tick.pc = "idle"
  <2>1. tick'.pc = "scan"
    BY <1>1 DEF runTick, NoTick
  <2> QED
    BY <2>1 DEF TickNow
<1>2. CASE tick.pc # "idle"
  BY <1>2 DEF runTick, TickNow, MeshInv
<1> QED
  BY <1>1, <1>2

LEMMA VictimLeavesTick ==
  ASSUME MeshInv, NEW p \in MeshPeers, VictimLeaves(p), UNCHANGED clock
  PROVE  /\ TickNow(tick')
         /\ tick' = tick \/ (~cut => timer)
<1>1. CASE tick' = tick
  BY <1>1 DEF MeshInv, TickNow
<1>2. CASE tick.pc = "closing" /\ tick' = [tick EXCEPT !.pc = "closed"]
  <2>1. tick'.now = tick.now
    BY <1>2
  <2>2. ~cut => timer
    BY <1>2, TickHasTimer
  <2> QED
    BY <1>2, <2>1, <2>2 DEF MeshInv, TickNow
<1> QED
  BY <1>1, <1>2 DEF VictimLeaves

LEMMA MeshLinkDownKeeps ==
  ASSUME MeshInv, NEW p \in MeshPeers, linked' = [linked EXCEPT ![p] = -1], Unmark(p),
         UNCHANGED <<timer, clock, cut>>,
         tick' = tick \/ (~cut => timer),
         TickNow(tick')
  PROVE  MeshInv'
<1>1. \A q \in MeshPeers : linked'[q] = IF q = p THEN -1 ELSE linked[q]
  BY DEF MeshInv
<1>2. CASE timer
  <2>1. \A q \in MeshPeers : stableSince'[q] = IF q = p THEN -1 ELSE stableSince[q]
    BY <1>2 DEF Unmark, Without
  <2>2. stableSince' \in [MeshPeers -> Int] /\ linked' \in [MeshPeers -> Int]
    <3>1. stableSince' = Without(stableSince, {p})
      BY <1>2 DEF Unmark
    <3>2. Without(stableSince, {p}) \in [MeshPeers -> Int]
      BY DEF Without, MeshInv
    <3> QED
      BY <3>1, <3>2 DEF MeshInv
  <2> QED
    BY <1>1, <1>2, <2>1, <2>2 DEF MeshInv, TickNow
<1>3. CASE ~timer
  <2>1. stableSince' = stableSince /\ linked' \in [MeshPeers -> Int]
    BY <1>3 DEF Unmark, MeshInv
  <2> QED
    BY <1>1, <1>3, <2>1 DEF MeshInv, TickNow
<1> QED
  BY <1>2, <1>3

LEMMA TickEndsEarned ==
  ASSUME MeshInv, TickEnds, ~cut, NEW p \in trusted' \ trusted
  PROVE  Has(linked, p) /\ clock - linked[p] >= PromoteAfter - CloseTime
<1>1. /\ p \in MeshPeers /\ linked[p] # -1 /\ stableSince[p] # -1
      /\ tick.now - stableSince[p] >= PromoteAfter /\ tick.pc = "evict"
  BY DEF TickEnds, LinkedPeers, Has
<1>2. /\ tick.now \in Nat /\ tick.now <= clock /\ linked[p] \in Int /\ stableSince[p] \in Int
      /\ clock \in Int /\ linked[p] <= stableSince[p] + CloseTime
  BY <1>1 DEF MeshInv
<1>3. PromoteAfter \in Int /\ CloseTime \in Int
  BY MeshAssumption
<1> QED
  BY <1>1, <1>2, <1>3 DEF Has

LEMMA TickEndsKeeps ==
  ASSUME MeshInv, TickEnds
  PROVE  MeshInv'
<1>1. /\ tick.pc = "evict" /\ tick' = NoTick /\ UNCHANGED <<timer, linked, clock, cut>>
      /\ DOMAIN stableSince' = MeshPeers
      /\ \A p \in MeshPeers : \/ stableSince'[p] = -1
                              \/ linked[p] # -1 /\ stableSince'[p] \in {tick.now, stableSince[p]}
  BY DEF TickEnds, LinkedPeers, Has
<1>2. /\ tick.now \in Nat /\ tick.now <= clock /\ clock - tick.now <= CloseTime
      /\ ~(tick'.pc \in {"evict", "closing", "closed"})
  BY <1>1 DEF MeshInv, NoTick
<1>3. stableSince' = [p \in MeshPeers |-> stableSince'[p]]
  BY DEF TickEnds
<1>4. \A p \in MeshPeers : stableSince'[p] \in Int
  BY <1>1, <1>2 DEF MeshInv
<1>5. stableSince' \in [MeshPeers -> Int]
  BY <1>3, <1>4
<1>6. ~cut => timer
  BY <1>1, TickHasTimer
<1>7. ~cut => \A p \in MeshPeers : stableSince'[p] # -1 =>
        linked[p] # -1 /\ linked[p] <= stableSince'[p] + CloseTime
  <2> SUFFICES ASSUME ~cut, NEW p \in MeshPeers, stableSince'[p] # -1
               PROVE  linked[p] # -1 /\ linked[p] <= stableSince'[p] + CloseTime
    OBVIOUS
  <2>1. linked[p] # -1 /\ stableSince'[p] \in {tick.now, stableSince[p]}
    BY <1>1
  <2>2. linked[p] \in Nat /\ linked[p] <= clock /\ clock \in Nat /\ CloseTime \in Nat
    BY <2>1, MeshAssumption DEF MeshInv
  <2>3. CASE stableSince'[p] = tick.now
    BY <1>2, <2>1, <2>2, <2>3
  <2>4. CASE stableSince'[p] = stableSince[p]
    BY <2>1, <2>4 DEF MeshInv
  <2> QED
    BY <2>1, <2>3, <2>4
<1> QED
  BY <1>1, <1>2, <1>5, <1>6, <1>7 DEF MeshInv

LEMMA MeshInvariant ==
  ASSUME MeshInv, [NextMesh]_meshVars
  PROVE  MeshInv'
<1>1. CASE start
  <2>1. /\ ~timer /\ timer' = TRUE /\ runTick
        /\ UNCHANGED <<linked, stableSince, clock, cut>>
    BY <1>1 DEF start
  <2>2. TickNow(tick')
    BY <2>1, RunTickIsEarly
  <2> QED
    BY <2>1, <2>2 DEF MeshInv, TickNow
<1>2. CASE stop
  <2>1. /\ timer' = FALSE /\ stableSince' = [p \in MeshPeers |-> -1]
        /\ cut' = (cut \/ tick # NoTick) /\ UNCHANGED <<linked, tick, clock>>
    BY <1>2 DEF stop, Without, MeshInv
  <2>2. stableSince' \in [MeshPeers -> Int]
    BY <2>1
  <2>3. cut' \in BOOLEAN
    BY <2>1 DEF MeshInv
  <2>4. ~cut' => ~cut /\ tick = NoTick
    BY <2>1 DEF MeshInv
  <2> QED
    BY <2>1, <2>2, <2>3, <2>4 DEF MeshInv
<1>3. CASE ClockTicks
  <2>1. /\ clock' = clock + 1 /\ UNCHANGED <<timer, linked, stableSince, tick, cut>>
        /\ tick.pc \in {"evict", "closing", "closed"} => clock - tick.now < CloseTime
    BY <1>3 DEF ClockTicks
  <2>2. CloseTime \in Nat
    BY MeshAssumption
  <2>3. TickNow(tick)'
    BY <2>1, <2>2 DEF MeshInv, TickNow
  <2> QED
    BY <2>1, <2>3 DEF MeshInv, TickNow
<1>4. CASE TickStarts
  <2>1. timer /\ runTick /\ UNCHANGED <<timer, linked, stableSince, clock, cut>>
    BY <1>4 DEF TickStarts
  <2>2. TickNow(tick')
    BY <2>1, RunTickIsEarly
  <2> QED
    BY <2>1, <2>2, TickMoves DEF MeshInv
<1>5. CASE TickEvicted
  <2>1. /\ stableSince' = Without(stableSince, {tick.victim}) /\ tick.pc = "closed"
        /\ UNCHANGED <<timer, linked, clock, cut>>
        /\ tick' = [tick EXCEPT !.pc = "evict", !.victim = 0, !.need = @ - 1]
    BY <1>5 DEF TickEvicted
  <2>2. tick'.now = tick.now
    BY <2>1
  <2>3. ~cut => timer
    BY <2>1, TickHasTimer
  <2>4. stableSince' \in [MeshPeers -> Int] /\ \A p \in MeshPeers : stableSince'[p] \in {-1, stableSince[p]}
    BY <2>1 DEF MeshInv, Without
  <2>5. TickNow(tick')
    BY <2>1, <2>2 DEF MeshInv, TickNow
  <2> QED
    BY <2>1, <2>3, <2>4, <2>5, TickMoves
<1>6. ASSUME NEW p \in MeshPeers, LinkGoesUp(p) PROVE MeshInv'
  <2>1. /\ linked[p] = -1 /\ linked' = [linked EXCEPT ![p] = clock]
        /\ UNCHANGED <<timer, tick, clock, cut>>
    BY <1>6 DEF LinkGoesUp, LinkedPeers, Has
  <2>2. \/ stableSince' = stableSince
        \/ stableSince' = Without(stableSince, {p} \cap trusted)
    BY <1>6 DEF LinkGoesUp, LinkUpMarks, MarkUp
  <2>3. stableSince' \in [MeshPeers -> Int] /\ \A q \in MeshPeers : stableSince'[q] \in {-1, stableSince[q]}
    BY <2>2 DEF MeshInv, Without
  <2>4. linked' \in [MeshPeers -> Int] /\ \A q \in MeshPeers : linked'[q] = IF q = p THEN clock ELSE linked[q]
    BY <2>1 DEF MeshInv
  <2> QED
    BY <2>1, <2>3, <2>4 DEF MeshInv
<1>7. ASSUME NEW p \in MeshPeers, LinkGoesDown(p) PROVE MeshInv'
  <2>1. /\ linked' = [linked EXCEPT ![p] = -1] /\ Unmark(p) /\ VictimLeaves(p)
        /\ UNCHANGED <<timer, clock, cut>>
    BY <1>7 DEF LinkGoesDown
  <2> QED
    BY <2>1, VictimLeavesTick, MeshLinkDownKeeps
<1>8. ASSUME NEW p \in MeshPeers, TickEvicts(p) PROVE MeshInv'
  <2>1. /\ tick.pc = "evict" /\ tick' = [tick EXCEPT !.pc = "closing", !.victim = p]
        /\ UNCHANGED <<timer, linked, stableSince, clock, cut>>
    BY <1>8 DEF TickEvicts
  <2>2. tick'.now = tick.now
    BY <2>1
  <2>3. ~cut => timer
    BY <2>1, TickHasTimer
  <2>4. TickNow(tick')
    BY <2>1, <2>2 DEF MeshInv, TickNow
  <2> QED
    BY <2>1, <2>3, <2>4, TickMoves DEF MeshInv
<1>9. ASSUME NEW p \in MeshPeers, PoolTrusts(p) PROVE MeshInv'
  BY <1>9 DEF PoolTrusts, MeshInv
<1>10. ASSUME NEW d \in dials, TickDialEnds(d) PROVE MeshInv'
  <2>1. \/ d.peer \in MeshPeers /\ MarkUp(d.peer, IF d.trusted THEN {d.peer} ELSE {})
        \/ UNCHANGED stableSince
    BY <1>10 DEF TickDialEnds, LinkedPeers
  <2>2. UNCHANGED <<timer, linked, tick, clock, cut>>
    BY <1>10 DEF TickDialEnds
  <2>3. CASE UNCHANGED stableSince
    BY <2>2, <2>3 DEF MeshInv
  <2> QED
    BY <2>1, <2>2, <2>3, MarkUpKeeps
<1>11. ASSUME NEW ps \in SUBSET MeshPeers, TickReads(ps) PROVE MeshInv'
  <2>1. /\ tick.pc = "scan" /\ stableSince' = Without(stableSince, LinkedPeers \cap trusted)
        /\ UNCHANGED <<timer, linked, clock, cut>>
        /\ tick'.now = clock
    BY <1>11 DEF TickReads
  <2>2. ~cut => timer
    BY <2>1, TickHasTimer
  <2>3. stableSince' \in [MeshPeers -> Int] /\ \A p \in MeshPeers : stableSince'[p] \in {-1, stableSince[p]}
    BY <2>1 DEF MeshInv, Without
  <2>4. TickNow(tick')
    BY <2>1, MeshAssumption DEF MeshInv, TickNow
  <2> QED
    BY <2>1, <2>2, <2>3, <2>4, TickMoves
<1>12. ASSUME NEW p \in MeshPeers, LinkReplaced(p) PROVE MeshInv'
  <2>1. VictimLeaves(p) /\ UNCHANGED <<timer, linked, stableSince, clock, cut>>
    BY <1>12 DEF LinkReplaced
  <2> QED
    BY <2>1, VictimLeavesTick, TickMoves DEF MeshInv
<1>13. ASSUME NEW p \in MeshPeers, LinkAnnounced(p) PROVE MeshInv'
  <2>1. MarkUp(p, trusted) \/ UNCHANGED stableSince
    BY <1>13 DEF LinkAnnounced, LinkUpMarks
  <2>2. UNCHANGED <<timer, linked, tick, clock, cut>>
    BY <1>13 DEF LinkAnnounced
  <2>3. CASE UNCHANGED stableSince
    BY <2>2, <2>3 DEF MeshInv
  <2> QED
    BY <2>1, <2>2, <2>3, MarkUpKeeps
<1>14. CASE UNCHANGED meshVars
  BY <1>14 DEF meshVars, MeshInv
<1> QED
  BY <1>1, <1>2, <1>3, <1>4, <1>5, <1>6, <1>7, <1>8, <1>9, <1>10, <1>11, <1>12, <1>13, <1>14,
     TickEndsKeeps DEF NextMesh

\* For any peers, slots and clocks: a tick makes a peer trusted only when the peer has had a
\* link without a gap for the time that earns it, less what the closes of a tick take
\* (mesh_keepalive.mjs:144-160, 187-189).
THEOREM PromotionSound == SpecMesh => PromotionEarned
<1>1. InitMesh => MeshInv
  <2> SUFFICES ASSUME InitMesh PROVE MeshInv
    OBVIOUS
  <2>1. /\ linked = [p \in MeshPeers |-> -1] /\ stableSince = linked /\ tick = NoTick /\ clock = 0
        /\ timer = FALSE /\ cut = FALSE
    BY DEF InitMesh
  <2>2. linked \in [MeshPeers -> Int] /\ stableSince \in [MeshPeers -> Int]
    BY <2>1
  <2>3. tick.pc = "idle"
    BY <2>1 DEF NoTick
  <2> QED
    BY <2>1, <2>2, <2>3 DEF MeshInv
<1>2. ASSUME MeshInv, [NextMesh]_meshVars,
             NEW p \in trusted' \ trusted, ~cut, tick # NoTick, tick' = NoTick
      PROVE  Has(linked, p) /\ clock - linked[p] >= PromoteAfter - CloseTime
  <2>1. CASE TickEnds
    BY <1>2, <2>1, TickEndsEarned
  <2>2. CASE ~TickEnds
    <3>1. CASE \E q \in MeshPeers : PoolTrusts(q)
      BY <1>2, <3>1 DEF PoolTrusts
    <3>2. CASE ~(\E q \in MeshPeers : PoolTrusts(q))
      <4>1. trusted' = trusted
        BY <1>2, <2>2, <3>2, Zenon
        DEF NextMesh, meshVars, start, stop, ClockTicks, TickStarts, TickEvicted, LinkGoesUp,
            LinkReplaced, LinkAnnounced, LinkGoesDown, TickEvicts, TickDialEnds, TickReads
      <4> QED
        BY <1>2, <4>1
    <3> QED
      BY <3>1, <3>2
  <2> QED
    BY <2>1, <2>2
<1>3. MeshInv /\ [NextMesh]_meshVars =>
        [\A p \in trusted' \ trusted :
           ~cut /\ tick # NoTick /\ tick' = NoTick
             => Has(linked, p) /\ clock - linked[p] >= PromoteAfter - CloseTime]_meshVars
  BY <1>2
<1>4. MeshInv /\ [NextMesh]_meshVars => MeshInv'
  BY MeshInvariant
<1> QED
  BY <1>1, <1>3, <1>4, PTL DEF SpecMesh, PromotionEarned

-----------------------------------------------------------------------------
(* The shutdown of a registry. *)

ReadyLink == [peer : LinkPeers, st : {"ready", "open", "closing", "down"}]

\* Shapes.
ShutdownShape ==
  /\ ready \in Seq(ReadyLink)
  /\ entries \in Seq(0..Len(ready))
  /\ running \subseteq {"mesh", "health"}
  /\ ticking \in BOOLEAN
  /\ ensures \in [made : Nat, waiting : Nat]
  /\ shutdown \in [st : {"no", "tick", "boot", "loop", "waits", "done"}, at : Nat, on : Nat]

\* A peer has one entry, whose link is registered and not down.
EntriesAreApart ==
  /\ \A i, k \in Used : ready[entries[i]].peer = ready[entries[k]].peer => i = k
  /\ \A i \in Used : ready[entries[i]].st \in {"open", "closing"}

\* A link that is open has an entry or slipped; behind the loop it slipped.
OpenIsHeld ==
  /\ \A l \in DOMAIN ready : Open(l) => l \in slipped \/ \E i \in Used : entries[i] = l
  /\ shutdown.st \in {"loop", "waits"} =>
       \A i \in Used : i <= shutdown.at /\ Open(entries[i]) => entries[i] \in slipped
  /\ shutdown.st = "done" => \A l \in DOMAIN ready : Open(l) => l \in slipped

\* Unless an ensureRuntime came, nobody starts again what shutdown has stopped.
StoppedStays ==
  ~revived =>
    /\ shutdown.st # "no" => ensures.waiting = 0 /\ "mesh" \notin running
    /\ shutdown.st \in {"boot", "loop", "waits", "done"} => running = {} /\ ~ticking

ShutdownInv == ShutdownShape /\ EntriesAreApart /\ OpenIsHeld /\ StoppedStays

\* Closing a link.
LEMMA ClosingFacts ==
  ASSUME NEW links \in Seq(ReadyLink), NEW l \in DOMAIN links
  PROVE  /\ Closing(l, links) \in Seq(ReadyLink)
         /\ Len(Closing(l, links)) = Len(links)
         /\ Closing(l, links)[l].st \in {"closing", "down"}
         /\ links[l].st \in {"open", "closing"} => Closing(l, links)[l].st = "closing"
         /\ \A k \in DOMAIN links : Closing(l, links)[k].peer = links[k].peer
         /\ \A k \in DOMAIN links \ {l} : Closing(l, links)[k] = links[k]
<1> DEFINE closed == [links[l] EXCEPT !.st = IF @ \in {"ready", "open"} THEN "closing" ELSE @]
<1>1. l \in 1..Len(links) /\ DOMAIN links = 1..Len(links) /\ links[l] \in ReadyLink
  BY LenProperties
<1>2. /\ closed \in ReadyLink /\ closed.st \in {"closing", "down"}
      /\ closed.peer = links[l].peer
      /\ links[l].st \in {"open", "closing"} => closed.st = "closing"
  BY <1>1 DEF ReadyLink
<1> HIDE DEF closed
<1>3. Closing(l, links) = [links EXCEPT ![l] = closed]
  BY DEF Closing, closed
<1> QED
  BY <1>1, <1>2, <1>3, ExceptSeq

\* Every step keeps the shapes.
LEMMA ShutdownShapeStep ==
  ASSUME ShutdownShape, [NextShutdown]_shutdownVars
  PROVE  ShutdownShape'
<1> USE DEF ShutdownShape
<1>1. ASSUME NEW p \in LinkPeers, LinkIsReady(p)
      PROVE  ShutdownShape'
  <2>1. ready' \in Seq(ReadyLink) /\ Len(ready') = Len(ready) + 1
    BY <1>1 DEF LinkIsReady, ReadyLink
  <2>2. entries' \in Seq(0..Len(ready'))
    BY <1>1, <2>1 DEF LinkIsReady
  <2> QED
    BY <1>1, <2>1, <2>2 DEF LinkIsReady
<1>2. ASSUME NEW l \in DOMAIN ready, registerResolvedLink(l)
      PROVE  ShutdownShape'
  <2> DEFINE at == EntryAt(ready[l].peer)
  <2> DEFINE i == CHOOSE k \in at : TRUE
  <2> DEFINE opened == [ready EXCEPT ![l].st = "open"]
  <2> DEFINE open == [ready[l] EXCEPT !.st = "open"]
  <2>1. opened \in Seq(ReadyLink) /\ Len(opened) = Len(ready)
    <3>1. l \in 1..Len(ready) /\ ready[l] \in ReadyLink
      BY LenProperties
    <3>2. open \in ReadyLink
      BY <3>1 DEF ReadyLink
    <3>3. opened = [ready EXCEPT ![l] = open]
      OBVIOUS
    <3> QED
      BY <3>1, <3>2, <3>3, ExceptSeq
  <2>2. CASE at = {} /\ entries' = Append(entries, l) /\ ready' = opened
    BY <1>2, <2>1, <2>2 DEF registerResolvedLink
  <2>3. CASE at # {} /\ entries' = [entries EXCEPT ![i] = l] /\ ready' = Closing(entries[i], opened)
    <3>1. i \in DOMAIN entries /\ entries[i] \in 1..Len(ready)
      BY <2>3 DEF EntryAt, Used
    <3>2. ready' \in Seq(ReadyLink) /\ Len(ready') = Len(ready)
      <4> HIDE DEF opened
      <4>1. entries[i] \in DOMAIN opened
        BY <2>1, <3>1, LenProperties
      <4> QED
        BY <2>1, <2>3, <4>1, ClosingFacts
    <3>3. entries' \in Seq(0..Len(ready'))
      BY <2>3, <3>1, <3>2
    <3> QED
      BY <1>2, <3>2, <3>3 DEF registerResolvedLink
  <2>4. CASE ready' = Closing(l, ready) /\ entries' = entries
    BY <1>2, <2>4, ClosingFacts DEF registerResolvedLink
  <2> QED
    BY <1>2, <2>2, <2>3, <2>4 DEF registerResolvedLink
<1>3. ASSUME NEW l \in DOMAIN ready, LinkFails(l)
      PROVE  ShutdownShape'
  BY <1>3, ClosingFacts DEF LinkFails
<1>4. ASSUME NEW l \in DOMAIN ready, LinkIsDown(l)
      PROVE  ShutdownShape'
  <2>1. ready' \in Seq(ReadyLink) /\ Len(ready') = Len(ready)
    <3>1. l \in 1..Len(ready) /\ ready[l] \in ReadyLink
      BY LenProperties
    <3>2. [ready[l] EXCEPT !.st = "down"] \in ReadyLink
      BY <3>1 DEF ReadyLink
    <3>3. ready' = [ready EXCEPT ![l] = [ready[l] EXCEPT !.st = "down"]]
      BY <1>4 DEF LinkIsDown
    <3> QED
      BY <3>1, <3>2, <3>3, ExceptSeq
  <2>2. entries' \in Seq(0..Len(ready))
    <3>1. DOMAIN entries = 1..Len(entries) /\ Len(entries) \in Nat /\ Len(ready) \in Nat
          /\ \A i \in 1..Len(entries) : entries[i] \in 0..Len(ready)
      BY LenProperties
    <3>2. entries' \in [1..Len(entries) -> 0..Len(ready)]
      BY <1>4, <3>1 DEF LinkIsDown
    <3> QED
      BY <3>1, <3>2, FunctionIsSeq
  <2>3. UNCHANGED <<ensures, running, ticking, shutdown, revived>>
    BY <1>4 DEF LinkIsDown
  <2> QED
    BY <2>1, <2>2, <2>3
<1>5. CASE ensureRuntimeWithMesh \/ RuntimeEnsured \/ KeepaliveTick \/ KeepaliveTickEnds
  <2>1. UNCHANGED <<ready, entries, shutdown>>
    BY <1>5 DEF ensureRuntimeWithMesh, RuntimeEnsured, KeepaliveTick, KeepaliveTickEnds
  <2>2. ensures' \in [made : Nat, waiting : Nat]
    BY <1>5 DEF ensureRuntimeWithMesh, RuntimeEnsured, KeepaliveTick, KeepaliveTickEnds
  <2>3. running' \subseteq {"mesh", "health"} /\ ticking' \in BOOLEAN
    BY <1>5 DEF ensureRuntimeWithMesh, RuntimeEnsured, KeepaliveTick, KeepaliveTickEnds
  <2> QED
    BY <2>1, <2>2, <2>3
<1>6. CASE ShutdownBegins \/ HealthStops \/ BootstrapStops \/ CloseReturns \/ LinksCleared
  <2>1. UNCHANGED <<ready, ensures>> /\ entries' \in {entries, <<>>}
    BY <1>6 DEF ShutdownBegins, HealthStops, BootstrapStops, CloseReturns, LinksCleared
  <2>2. entries' \in Seq(0..Len(ready'))
    BY <2>1, EmptySeq
  <2>3. running' \subseteq {"mesh", "health"} /\ ticking' \in BOOLEAN
    BY <1>6 DEF ShutdownBegins, HealthStops, BootstrapStops, CloseReturns, LinksCleared
  <2>4. shutdown' \in [st : {"no", "tick", "boot", "loop", "waits", "done"}, at : Nat, on : Nat]
    BY <1>6 DEF ShutdownBegins, HealthStops, BootstrapStops, CloseReturns, LinksCleared
  <2> QED
    BY <2>1, <2>2, <2>3, <2>4
<1>7. CASE CloseNext
  <2>1. PICK i \in Unvisited :
          /\ ready' = Closing(entries[i], ready)
          /\ shutdown' = [st |-> IF Open(entries[i]) THEN "waits" ELSE "loop",
                          at |-> i, on |-> entries[i]]
    BY <1>7 DEF CloseNext
  <2>2. i \in Nat /\ entries[i] \in DOMAIN ready /\ entries[i] \in Nat
    BY DEF Unvisited, Used
  <2> QED
    BY <1>7, <2>1, <2>2, ClosingFacts DEF CloseNext
<1>8. CASE UNCHANGED shutdownVars
  BY <1>8 DEF shutdownVars
<1> QED
  BY <1>1, <1>2, <1>3, <1>4, <1>5, <1>6, <1>7, <1>8 DEF NextShutdown, ShutdownStep

\* Every step keeps what shutdown has stopped.
LEMMA StoppedStep ==
  ASSUME ShutdownShape, StoppedStays, [NextShutdown]_shutdownVars
  PROVE  StoppedStays'
<1> USE DEF ShutdownShape, StoppedStays
<1>1. ASSUME NEW p \in LinkPeers, LinkIsReady(p)
      PROVE  StoppedStays'
  BY <1>1 DEF LinkIsReady
<1>2. ASSUME NEW l \in DOMAIN ready,
             registerResolvedLink(l) \/ LinkFails(l) \/ LinkIsDown(l)
      PROVE  StoppedStays'
  <2>1. UNCHANGED <<ensures, running, ticking, shutdown, revived>>
    BY <1>2 DEF registerResolvedLink, LinkFails, LinkIsDown
  <2> QED
    BY <2>1
<1>3. CASE ensureRuntimeWithMesh
  BY <1>3 DEF ensureRuntimeWithMesh
<1>4. CASE RuntimeEnsured
  <2>1. ensures.waiting # 0 /\ revived' = revived /\ shutdown' = shutdown
    BY <1>4 DEF RuntimeEnsured
  <2>2. CASE shutdown.st = "no"
    BY <2>1, <2>2
  <2>3. CASE shutdown.st # "no"
    BY <2>1, <2>3
  <2> QED
    BY <2>2, <2>3
<1>5. CASE KeepaliveTick
  BY <1>5 DEF KeepaliveTick
<1>6. CASE KeepaliveTickEnds
  BY <1>6 DEF KeepaliveTickEnds
<1>7. CASE ShutdownBegins
  <2>1. revived' = (ensures.waiting > 0) /\ ensures' = ensures /\ ensures.waiting \in Nat
    BY <1>7 DEF ShutdownBegins
  <2>2. ~revived' => ensures'.waiting = 0
    <3>1. ~revived' => ~(ensures.waiting > 0)
      BY <2>1, Zenon
    <3> QED
      BY <2>1, <3>1
  <2>3. shutdown'.st = "tick" /\ running' = running \ {"mesh"}
    BY <1>7 DEF ShutdownBegins
  <2> QED
    BY <2>2, <2>3
<1>8. CASE HealthStops
  BY <1>8 DEF HealthStops
<1>9. CASE BootstrapStops \/ CloseReturns \/ LinksCleared \/ CloseNext
  <2>1. /\ UNCHANGED <<ensures, running, ticking, revived>>
        /\ shutdown.st \in {"boot", "loop", "waits", "done"}
    BY <1>9 DEF BootstrapStops, CloseReturns, LinksCleared, CloseNext
  <2> QED
    BY <2>1
<1>10. CASE UNCHANGED shutdownVars
  BY <1>10 DEF shutdownVars
<1> QED
  BY <1>1, <1>2, <1>3, <1>4, <1>5, <1>6, <1>7, <1>8, <1>9, <1>10 DEF NextShutdown, ShutdownStep

\* The shapes as functions.
LEMMA ShutdownDomains ==
  ASSUME ShutdownShape
  PROVE  /\ Len(ready) \in Nat /\ DOMAIN ready = 1..Len(ready)
         /\ \A l \in DOMAIN ready : ready[l] \in ReadyLink
         /\ Len(entries) \in Nat /\ DOMAIN entries = 1..Len(entries)
         /\ \A i \in DOMAIN entries : entries[i] \in 0..Len(ready)
         /\ \A i \in Used : i \in Nat \ {0} /\ i <= Len(entries) /\ entries[i] \in DOMAIN ready
BY LenProperties DEF ShutdownShape, Used

\* What a registration does to a link that is ready: it takes the first entry of its peer,
\* or the place of the link that has it, which closes, or it closes itself.
LEMMA RegisterEffect ==
  ASSUME ShutdownShape, EntriesAreApart, NEW l \in DOMAIN ready, registerResolvedLink(l)
  PROVE  /\ DOMAIN ready' = DOMAIN ready
         /\ \A k \in DOMAIN ready : ready'[k].peer = ready[k].peer
         /\ ready[l].st = "ready"
         /\ \/ \E i \in DOMAIN entries' :
                 /\ ready'[l].st = "open"
                 /\ DOMAIN entries' = DOMAIN entries \cup {i}
                 /\ entries'[i] = l
                 /\ \A k \in DOMAIN entries \ {i} : entries'[k] = entries[k]
                 /\ slipped' = IF LoopPassed(i) THEN slipped \cup {l} ELSE slipped
                 /\ \/ /\ i \notin Used
                       /\ EntryAt(ready[l].peer) = {}
                       /\ \A k \in DOMAIN ready \ {l} : ready'[k].st = ready[k].st
                    \/ /\ i \in Used
                       /\ ready[entries[i]].peer = ready[l].peer
                       /\ ready'[entries[i]].st = "closing"
                       /\ \A k \in DOMAIN ready \ {l, entries[i]} : ready'[k].st = ready[k].st
            \/ /\ UNCHANGED <<entries, slipped>>
               /\ ready'[l].st # "open"
               /\ \A k \in DOMAIN ready \ {l} : ready'[k].st = ready[k].st
<1> DEFINE at == EntryAt(ready[l].peer)
<1> DEFINE i == IF at = {} THEN Len(entries) + 1 ELSE CHOOSE k \in at : TRUE
<1> DEFINE opened == [ready EXCEPT ![l].st = "open"]
<1>1. ready \in Seq(ReadyLink) /\ l \in 1..Len(ready) /\ ready[l] \in ReadyLink
  BY ShutdownDomains DEF ShutdownShape
<1>2. /\ opened \in Seq(ReadyLink) /\ Len(opened) = Len(ready) /\ DOMAIN opened = DOMAIN ready
      /\ opened[l].st = "open" /\ opened[l].peer = ready[l].peer
      /\ \A k \in DOMAIN ready \ {l} : opened[k] = ready[k]
  <2> DEFINE open == [ready[l] EXCEPT !.st = "open"]
  <2>1. open \in ReadyLink /\ open.st = "open" /\ open.peer = ready[l].peer
    BY <1>1 DEF ReadyLink
  <2>2. opened = [ready EXCEPT ![l] = open]
    OBVIOUS
  <2> HIDE DEF open, opened
  <2> QED
    BY <1>1, <2>1, <2>2, ExceptSeq, LenProperties, ShutdownDomains
<1>3. ready[l].st = "ready"
  BY DEF registerResolvedLink
<1>4. CASE /\ at = {}
           /\ entries' = Append(entries, l)
           /\ ready' = opened
           /\ slipped' = IF LoopPassed(i) THEN slipped \cup {l} ELSE slipped
  <2> HIDE DEF opened
  <2>1. entries \in Seq(0..Len(ready)) /\ l \in 0..Len(ready) /\ i = Len(entries) + 1
    BY <1>1, <1>4 DEF ShutdownShape
  <2> HIDE DEF i
  <2>2. /\ DOMAIN entries' = DOMAIN entries \cup {i}
        /\ entries'[i] = l
        /\ \A k \in DOMAIN entries \ {i} : entries'[k] = entries[k]
        /\ i \notin Used
    BY <1>4, <2>1, AppendProperties, LenProperties DEF Used
  <2>3. \A k \in DOMAIN ready : ready'[k].peer = ready[k].peer
    BY <1>2, <1>4
  <2> QED
    BY <1>2, <1>3, <1>4, <2>2, <2>3
<1>5. CASE /\ at # {}
           /\ entries' = [entries EXCEPT ![i] = l]
           /\ ready' = Closing(entries[i], opened)
           /\ slipped' = IF LoopPassed(i) THEN slipped \cup {l} ELSE slipped
  <2> HIDE DEF opened
  <2>1. i \in at
    BY <1>5
  <2> HIDE DEF i
  <2>2. /\ i \in Used /\ i \in DOMAIN entries /\ entries[i] \in DOMAIN ready
        /\ ready[entries[i]].peer = ready[l].peer
        /\ ready[entries[i]].st \in {"open", "closing"}
    BY <2>1, ShutdownDomains DEF EntryAt, Used, EntriesAreApart
  <2>3. entries[i] # l /\ opened[entries[i]] = ready[entries[i]]
    BY <1>2, <1>3, <2>2
  <2>4. /\ DOMAIN ready' = DOMAIN ready
        /\ ready'[entries[i]].st = "closing"
        /\ \A k \in DOMAIN ready : ready'[k].peer = opened[k].peer
        /\ \A k \in DOMAIN ready \ {entries[i]} : ready'[k] = opened[k]
    BY <1>2, <1>5, <2>2, <2>3, ClosingFacts, LenProperties
  <2>5. /\ DOMAIN entries' = DOMAIN entries \cup {i}
        /\ entries'[i] = l
        /\ \A k \in DOMAIN entries \ {i} : entries'[k] = entries[k]
    BY <1>5, <2>2
  <2>6. \A k \in DOMAIN ready : ready'[k].peer = ready[k].peer
    BY <1>2, <2>4
  <2>7. /\ ready'[l].st = "open"
        /\ \A k \in DOMAIN ready \ {l, entries[i]} : ready'[k].st = ready[k].st
    BY <1>2, <2>3, <2>4
  <2> QED
    BY <1>3, <1>5, <2>2, <2>4, <2>5, <2>6, <2>7
<1>6. CASE ready' = Closing(l, ready) /\ UNCHANGED <<entries, slipped>>
  <2>1. /\ Len(ready') = Len(ready) /\ ready' \in Seq(ReadyLink)
        /\ ready'[l].st \in {"closing", "down"}
        /\ \A k \in DOMAIN ready : ready'[k].peer = ready[k].peer
        /\ \A k \in DOMAIN ready \ {l} : ready'[k] = ready[k]
    BY <1>1, <1>6, ClosingFacts
  <2>2. DOMAIN ready' = DOMAIN ready
    BY <1>1, <2>1, LenProperties
  <2> QED
    BY <1>3, <1>6, <2>1, <2>2
<1>7. \/ /\ entries' = IF at = {} THEN Append(entries, l) ELSE [entries EXCEPT ![i] = l]
         /\ ready' = IF at = {} THEN opened ELSE Closing(entries[i], opened)
         /\ slipped' = IF LoopPassed(i) THEN slipped \cup {l} ELSE slipped
      \/ ready' = Closing(l, ready) /\ UNCHANGED <<entries, slipped>>
  BY DEF registerResolvedLink
<1> HIDE DEF i, opened, at
<1>8. CASE at = {} /\ ~(ready' = Closing(l, ready) /\ UNCHANGED <<entries, slipped>>)
  <2>1. /\ entries' = Append(entries, l)
        /\ ready' = opened
        /\ slipped' = IF LoopPassed(i) THEN slipped \cup {l} ELSE slipped
    BY <1>7, <1>8
  <2> QED
    BY <1>4, <1>8, <2>1
<1>9. CASE at # {} /\ ~(ready' = Closing(l, ready) /\ UNCHANGED <<entries, slipped>>)
  <2>1. /\ entries' = [entries EXCEPT ![i] = l]
        /\ ready' = Closing(entries[i], opened)
        /\ slipped' = IF LoopPassed(i) THEN slipped \cup {l} ELSE slipped
    BY <1>7, <1>9
  <2> QED
    BY <1>5, <1>9, <2>1
<1> QED
  BY <1>6, <1>7, <1>8, <1>9

\* A registration keeps entries apart, and leaves no link open but where one is held.
LEMMA RegisterKeepsApart ==
  ASSUME ShutdownShape, EntriesAreApart, OpenIsHeld,
         NEW l \in DOMAIN ready, registerResolvedLink(l)
  PROVE  EntriesAreApart' /\ OpenIsHeld'
<1>1. /\ \A i \in Used : i \in DOMAIN entries /\ i \in Nat /\ entries[i] \in DOMAIN ready
      /\ DOMAIN ready \subseteq Nat \ {0}
      /\ DOMAIN entries \subseteq Nat
  BY ShutdownDomains DEF Used
<1>2. /\ DOMAIN ready' = DOMAIN ready
      /\ \A k \in DOMAIN ready : ready'[k].peer = ready[k].peer
      /\ ready[l].st = "ready"
  BY RegisterEffect
<1>3. shutdown' = shutdown
  BY DEF registerResolvedLink
<1>4. \A i \in Used : entries[i] # l
  BY <1>2 DEF EntriesAreApart
<1>5. ASSUME NEW i \in DOMAIN entries',
             ready'[l].st = "open",
             DOMAIN entries' = DOMAIN entries \cup {i},
             entries'[i] = l,
             \A k \in DOMAIN entries \ {i} : entries'[k] = entries[k],
             slipped' = IF LoopPassed(i) THEN slipped \cup {l} ELSE slipped,
             \/ /\ i \notin Used
                /\ EntryAt(ready[l].peer) = {}
                /\ \A k \in DOMAIN ready \ {l} : ready'[k].st = ready[k].st
             \/ /\ i \in Used
                /\ ready[entries[i]].peer = ready[l].peer
                /\ ready'[entries[i]].st = "closing"
                /\ \A k \in DOMAIN ready \ {l, entries[i]} : ready'[k].st = ready[k].st
      PROVE  EntriesAreApart' /\ OpenIsHeld'
  <2>1. Used' = Used \cup {i}
    BY <1>1, <1>5 DEF Used
  <2>2. \A k \in Used \ {i} : entries'[k] = entries[k] /\ entries[k] # l
    BY <1>1, <1>4, <1>5
  <2>3. \A k \in Used \ {i} : ready[entries[k]].peer # ready[l].peer
    BY <1>5 DEF EntryAt, EntriesAreApart
  <2>4. \A k \in Used \ {i} : ready'[entries[k]].st = ready[entries[k]].st
    BY <1>1, <1>4, <1>5, <2>3
  <2>5. EntriesAreApart'
    <3>1. \A k \in Used' : k # i => ready'[entries'[k]].peer # ready'[l].peer
      BY <1>1, <1>2, <2>1, <2>2, <2>3
    <3>2. \A j, k \in Used' : ready'[entries'[j]].peer = ready'[entries'[k]].peer => j = k
      BY <1>1, <1>2, <1>5, <2>1, <2>2, <3>1 DEF EntriesAreApart
    <3>3. \A k \in Used' : ready'[entries'[k]].st \in {"open", "closing"}
      BY <1>5, <2>1, <2>2, <2>4 DEF EntriesAreApart
    <3> QED
      BY <3>2, <3>3 DEF EntriesAreApart
  <2>6. slipped \subseteq slipped'
    BY <1>5
  <2>7. \A k \in DOMAIN ready \ {l} : ready'[k].st = "open" => ready[k].st = "open" /\ (i \in Used => k # entries[i])
    BY <1>5
  <2>8. \A k \in DOMAIN ready' : Open(k)' => k \in slipped' \/ \E j \in Used' : entries'[j] = k
    <3> SUFFICES ASSUME NEW k \in DOMAIN ready, ready'[k].st = "open", k \notin slipped'
                 PROVE  \E j \in Used' : entries'[j] = k
      BY <1>2 DEF Open
    <3>1. CASE k = l
      BY <1>5, <2>1, <3>1
    <3>2. CASE k # l
      <4>1. PICK j \in Used : entries[j] = k
        BY <2>6, <2>7, <3>2 DEF OpenIsHeld, Open
      <4>2. j # i
        BY <2>7, <3>2, <4>1
      <4> QED
        BY <2>1, <2>2, <4>1, <4>2
    <3> QED
      BY <3>1, <3>2
  <2>9. shutdown'.st \in {"loop", "waits"} =>
          \A k \in Used' : k <= shutdown'.at /\ Open(entries[k])' => entries'[k] \in slipped'
    <3> SUFFICES ASSUME shutdown.st \in {"loop", "waits"}, NEW k \in Used', k <= shutdown.at,
                        ready'[entries'[k]].st = "open"
                 PROVE  entries'[k] \in slipped'
      BY <1>3 DEF Open
    <3>1. CASE k = i
      BY <1>5, <3>1 DEF LoopPassed
    <3>2. CASE k # i
      BY <1>1, <2>1, <2>2, <2>4, <2>6, <3>2 DEF OpenIsHeld, Open
    <3> QED
      BY <3>1, <3>2
  <2>10. shutdown'.st = "done" => \A k \in DOMAIN ready' : Open(k)' => k \in slipped'
    BY <1>2, <1>3, <1>5, <2>6, <2>7 DEF OpenIsHeld, Open, LoopPassed
  <2> QED
    BY <2>5, <2>8, <2>9, <2>10 DEF OpenIsHeld
<1>6. ASSUME UNCHANGED <<entries, slipped>>,
             ready'[l].st # "open",
             \A k \in DOMAIN ready \ {l} : ready'[k].st = ready[k].st
      PROVE  EntriesAreApart' /\ OpenIsHeld'
  <2>1. Used' = Used /\ \A k \in Used : ready'[entries[k]].st = ready[entries[k]].st
    BY <1>1, <1>4, <1>6 DEF Used
  <2>2. EntriesAreApart'
    BY <1>1, <1>2, <1>6, <2>1 DEF EntriesAreApart
  <2>3. \A k \in DOMAIN ready : ready'[k].st = "open" => ready[k].st = "open"
    BY <1>6
  <2> QED
    BY <1>2, <1>3, <1>6, <2>1, <2>2, <2>3 DEF OpenIsHeld, Open
<1> QED
  BY <1>5, <1>6, RegisterEffect

\* Closing a link opens none, and keeps an entry's link registered.
LEMMA CloseKeepsHeld ==
  ASSUME ShutdownShape, EntriesAreApart, OpenIsHeld, NEW l \in DOMAIN ready,
         ready[l].st \in {"open", "closing"},
         ready' = Closing(l, ready), UNCHANGED <<entries, slipped>>
  PROVE  /\ EntriesAreApart'
         /\ Used' = Used
         /\ DOMAIN ready' = DOMAIN ready
         /\ ready'[l].st = "closing"
         /\ \A k \in DOMAIN ready : ready'[k].st = "open" => ready[k].st = "open"
         /\ \A k \in DOMAIN ready \ {l} : ready'[k] = ready[k]
<1>1. /\ Len(ready') = Len(ready) /\ ready' \in Seq(ReadyLink)
      /\ ready'[l].st = "closing"
      /\ \A k \in DOMAIN ready : ready'[k].peer = ready[k].peer
      /\ \A k \in DOMAIN ready \ {l} : ready'[k] = ready[k]
  BY ClosingFacts DEF ShutdownShape
<1>2. DOMAIN ready' = DOMAIN ready
  BY <1>1, LenProperties, ShutdownDomains
<1>3. Used' = Used
  BY DEF Used
<1>4. EntriesAreApart'
  BY <1>1, <1>3, ShutdownDomains DEF EntriesAreApart
<1> QED
  BY <1>1, <1>2, <1>3, <1>4

\* Every step keeps entries apart, and leaves no link open but where one is held.
LEMMA HeldStep ==
  ASSUME ShutdownShape, EntriesAreApart, OpenIsHeld, [NextShutdown]_shutdownVars
  PROVE  EntriesAreApart' /\ OpenIsHeld'
<1>0. /\ \A i \in Used : i \in Nat \ {0} /\ entries[i] \in DOMAIN ready
      /\ DOMAIN ready = 1..Len(ready) /\ Len(ready) \in Nat
  BY ShutdownDomains
<1>1. ASSUME NEW p \in LinkPeers, LinkIsReady(p)
      PROVE  EntriesAreApart' /\ OpenIsHeld'
  <2>1. /\ DOMAIN ready' = DOMAIN ready \cup {Len(ready) + 1}
        /\ ready'[Len(ready) + 1].st = "ready"
        /\ \A k \in DOMAIN ready : ready'[k] = ready[k]
    BY <1>1, AppendProperties, LenProperties DEF LinkIsReady, ShutdownShape, ReadyLink
  <2>2. UNCHANGED <<entries, shutdown, slipped>> /\ Used' = Used
    BY <1>1 DEF LinkIsReady, Used
  <2> QED
    BY <1>0, <2>1, <2>2 DEF EntriesAreApart, OpenIsHeld, Open
<1>2. ASSUME NEW l \in DOMAIN ready, registerResolvedLink(l)
      PROVE  EntriesAreApart' /\ OpenIsHeld'
  BY <1>2, RegisterKeepsApart
<1>3. ASSUME NEW l \in DOMAIN ready, LinkFails(l)
      PROVE  EntriesAreApart' /\ OpenIsHeld'
  <2>1. ready[l].st = "open" /\ ready' = Closing(l, ready) /\ UNCHANGED <<entries, slipped, shutdown>>
    BY <1>3 DEF LinkFails, Open
  <2>2. /\ EntriesAreApart'
        /\ Used' = Used
        /\ DOMAIN ready' = DOMAIN ready
        /\ \A k \in DOMAIN ready : ready'[k].st = "open" => ready[k].st = "open"
    BY <2>1, CloseKeepsHeld
  <2> QED
    BY <1>0, <2>1, <2>2 DEF OpenIsHeld, Open
<1>4. ASSUME NEW l \in DOMAIN ready, LinkIsDown(l)
      PROVE  EntriesAreApart' /\ OpenIsHeld'
  <2>1. /\ DOMAIN ready' = DOMAIN ready
        /\ ready[l].st = "closing" /\ ready'[l].st = "down"
        /\ \A k \in DOMAIN ready \ {l} : ready'[k] = ready[k]
        /\ \A k \in DOMAIN ready : ready'[k].peer = ready[k].peer
    BY <1>0, <1>4 DEF LinkIsDown, ReadyLink, ShutdownShape
  <2>2. /\ DOMAIN entries' = DOMAIN entries
        /\ \A i \in DOMAIN entries : entries'[i] = IF entries[i] = l THEN 0 ELSE entries[i]
        /\ UNCHANGED <<shutdown, slipped>>
    BY <1>4 DEF LinkIsDown, Forgets
  <2>3. /\ Used' = {i \in Used : entries[i] # l}
        /\ \A i \in Used' : entries'[i] = entries[i]
    BY <2>2 DEF Used
  <2>4. EntriesAreApart'
    BY <1>0, <2>1, <2>3 DEF EntriesAreApart
  <2>5. \A k \in DOMAIN ready : ready'[k].st = "open" => ready[k].st = "open" /\ k # l
    BY <2>1
  <2> QED
    BY <1>0, <2>1, <2>2, <2>3, <2>4, <2>5 DEF OpenIsHeld, Open
<1>5. CASE ensureRuntimeWithMesh \/ RuntimeEnsured \/ KeepaliveTick \/ KeepaliveTickEnds
  <2>1. UNCHANGED <<ready, entries, shutdown, slipped>>
    BY <1>5 DEF ensureRuntimeWithMesh, RuntimeEnsured, KeepaliveTick, KeepaliveTickEnds
  <2> QED
    BY <2>1 DEF EntriesAreApart, OpenIsHeld, Open, Used
<1>6. CASE ShutdownBegins \/ HealthStops \/ BootstrapStops
  <2>1. UNCHANGED <<ready, entries, slipped>>
    BY <1>6 DEF ShutdownBegins, HealthStops, BootstrapStops
  <2>2. shutdown'.st \in {"tick", "boot"} \/ shutdown' = [st |-> "loop", at |-> 0, on |-> 0]
    BY <1>6 DEF ShutdownBegins, HealthStops, BootstrapStops, ShutdownShape
  <2>3. Used' = Used
    BY <2>1 DEF Used
  <2>4. \A i \in Used : ~(i <= 0)
    BY <1>0
  <2> QED
    BY <2>1, <2>2, <2>3, <2>4 DEF EntriesAreApart, OpenIsHeld, Open
<1>7. CASE CloseNext
  <2>1. PICK i \in Unvisited :
          /\ shutdown.st = "loop" /\ \A k \in Unvisited : i <= k
          /\ ready' = Closing(entries[i], ready)
          /\ shutdown' = [st |-> IF Open(entries[i]) THEN "waits" ELSE "loop",
                          at |-> i, on |-> entries[i]]
          /\ UNCHANGED <<entries, slipped>>
    BY <1>7 DEF CloseNext
  <2>2. i \in Used /\ entries[i] \in DOMAIN ready /\ ready[entries[i]].st \in {"open", "closing"}
    BY <1>0 DEF Unvisited, EntriesAreApart
  <2>3. /\ EntriesAreApart'
        /\ Used' = Used
        /\ DOMAIN ready' = DOMAIN ready
        /\ ready'[entries[i]].st = "closing"
        /\ \A k \in DOMAIN ready : ready'[k].st = "open" => ready[k].st = "open"
    BY <2>1, <2>2, CloseKeepsHeld
  <2>4. shutdown'.st \in {"loop", "waits"} /\ shutdown'.at = i
    BY <2>1
  <2>5. ASSUME NEW k \in Used, k <= i PROVE k = i \/ k <= shutdown.at
    <3>1. k \in Int /\ i \in Int /\ shutdown.at \in Int
      BY <2>2 DEF Used, ShutdownShape
    <3>2. k > shutdown.at => k \in Unvisited
      BY DEF Unvisited
    <3>3. k > shutdown.at => i <= k
      BY <2>1, <3>2
    <3> QED
      BY <2>5, <3>1, <3>3
  <2>6. \A k \in Used : k <= i /\ ready'[entries[k]].st = "open" => entries[k] \in slipped
    BY <1>0, <2>1, <2>3, <2>5 DEF OpenIsHeld, Open
  <2> QED
    BY <2>1, <2>3, <2>4, <2>6 DEF OpenIsHeld, Open
<1>8. CASE CloseReturns
  <2>1. UNCHANGED <<ready, entries, slipped>>
    BY <1>8 DEF CloseReturns
  <2>2. shutdown.st = "waits" /\ shutdown'.st = "loop" /\ shutdown'.at = shutdown.at
    BY <1>8 DEF CloseReturns, ShutdownShape
  <2>3. Used' = Used
    BY <2>1 DEF Used
  <2> QED
    BY <2>1, <2>2, <2>3 DEF EntriesAreApart, OpenIsHeld, Open
<1>9. CASE LinksCleared
  <2>1. /\ shutdown.st = "loop" /\ Unvisited = {}
        /\ entries' = <<>> /\ UNCHANGED <<ready, slipped>>
        /\ shutdown'.st = "done"
    BY <1>9 DEF LinksCleared, ShutdownShape
  <2>2. \A i \in Used : i <= shutdown.at
    BY <1>0, <2>1 DEF Unvisited, ShutdownShape
  <2>3. \A k \in DOMAIN ready : ready[k].st = "open" => k \in slipped
    BY <2>1, <2>2 DEF OpenIsHeld, Open
  <2>4. Used' = {}
    BY <2>1 DEF Used
  <2> QED
    BY <2>1, <2>3, <2>4 DEF EntriesAreApart, OpenIsHeld, Open
<1>10. CASE UNCHANGED shutdownVars
  BY <1>10 DEF shutdownVars, EntriesAreApart, OpenIsHeld, Open, Used
<1> QED
  BY <1>1, <1>2, <1>3, <1>4, <1>5, <1>6, <1>7, <1>8, <1>9, <1>10 DEF NextShutdown, ShutdownStep

\* The inductive invariant of shutdowns.
LEMMA ShutdownInvariant == SpecShutdown => []ShutdownInv
<1>1. InitShutdown => ShutdownInv
  <2> SUFFICES ASSUME InitShutdown PROVE ShutdownInv
    OBVIOUS
  <2>1. ready = <<>> /\ entries = <<>> /\ DOMAIN ready = {} /\ DOMAIN entries = {}
    BY DEF InitShutdown
  <2>2. ShutdownShape
    BY <2>1, EmptySeq DEF InitShutdown, ShutdownShape
  <2>3. EntriesAreApart /\ OpenIsHeld
    BY <2>1 DEF InitShutdown, EntriesAreApart, OpenIsHeld, Used
  <2>4. StoppedStays
    BY DEF InitShutdown, StoppedStays
  <2> QED
    BY <2>2, <2>3, <2>4 DEF ShutdownInv
<1>2. ShutdownInv /\ [NextShutdown]_shutdownVars => ShutdownInv'
  BY ShutdownShapeStep, StoppedStep, HeldStep DEF ShutdownInv
<1> QED
  BY <1>1, <1>2, PTL DEF SpecShutdown

\* However links register, replace each other and close while a registry shuts down, none
\* stays open but one that took an entry behind the loop, and nothing that was stopped runs
\* unless ensureRuntime was called beside it.
THEOREM ShutdownSound == SpecShutdown => []ShutdownLeavesNothing
<1>1. ShutdownInv => ShutdownLeavesNothing
  BY DEF ShutdownInv, OpenIsHeld, StoppedStays, ShutdownLeavesNothing
<1> QED
  BY <1>1, ShutdownInvariant, PTL

-----------------------------------------------------------------------------
(* The node scope and the user room. *)

HeldUsers(di) == {d \in Disposers : di[d] = "held"}
RoomShare(rw) == IF rw = "held" THEN 1 ELSE 0

\* The count is of those who hold the feature, and whoever holds it is tracked; the maker of
\* the room decides about its wires.
ScopeInv ==
  /\ scope \in {"off", "on", "muted"}
  /\ feature \in [count : Nat, handlers : BOOLEAN]
  /\ feature.handlers <=> feature.count > 0
  /\ feature.handlers => scope # "off"
  /\ disposer \in [Disposers -> {"new", "held", "used", "stopped"}]
  /\ IsFiniteSet(HeldUsers(disposer)) /\ HeldUsers(disposer) \subseteq tracked
  /\ roomWires \in {"none", "held", "stopped"}
  /\ ~robbed => feature.count = Cardinality(HeldUsers(disposer)) + RoomShare(roomWires)
  /\ robbed \in BOOLEAN /\ stops \in Nat
  /\ stops = 0 => roomWires # "stopped"
  /\ room \in [st : {"none", "making", "there"}, attach : BOOLEAN]
  /\ caller \in [Callers -> [st : {"new", "makes", "joined", "done", "hasRoom", "threw"}, attach : BOOLEAN]]
  /\ \A c \in Callers : caller[c].st = "makes" =>
       room.st = "making" /\ caller[c].attach = room.attach
  /\ stops = 0 => \A c \in Callers : caller[c].st = "done" /\ caller[c].attach => roomWires = "held"

LEMMA ScopeInitInv == ASSUME InitScope PROVE ScopeInv
<1>1. HeldUsers(disposer) = {}
  BY DEF InitScope, HeldUsers
<1>2. disposer \in [Disposers -> {"new", "held", "used", "stopped"}]
  BY DEF InitScope
<1>3. caller = [c \in Callers |-> [st |-> "new", attach |-> FALSE]]
  BY DEF InitScope
<1>4. /\ feature \in [count : Nat, handlers : BOOLEAN] /\ feature.count = 0 /\ feature.handlers = FALSE
      /\ room \in [st : {"none", "making", "there"}, attach : BOOLEAN]
      /\ scope = "off" /\ roomWires = "none" /\ stops = 0 /\ robbed = FALSE
  BY DEF InitScope, NoFeature
<1>5. Cardinality({}) = 0 /\ IsFiniteSet({}) /\ RoomShare(roomWires) = 0
  BY <1>4, FS_EmptySet DEF RoomShare
<1>6. /\ caller \in [Callers -> [st : {"new", "makes", "joined", "done", "hasRoom", "threw"}, attach : BOOLEAN]]
      /\ \A c \in Callers : caller[c].st = "new"
  BY <1>3
<1>7. feature.count = Cardinality(HeldUsers(disposer)) + RoomShare(roomWires)
  BY <1>1, <1>4, <1>5
<1>8. (feature.handlers <=> feature.count > 0) /\ (feature.handlers => scope # "off")
  BY <1>4
<1>9. IsFiniteSet(HeldUsers(disposer)) /\ HeldUsers(disposer) \subseteq tracked
  BY <1>1, <1>5
<1>10. \A c \in Callers : caller[c].st # "makes" /\ caller[c].st # "done"
  BY <1>6
<1> QED
  BY <1>2, <1>4, <1>6, <1>7, <1>8, <1>9, <1>10 DEF ScopeInv

LEMMA AttachInv ==
  ASSUME ScopeInv, NEW d \in Disposers, attachNodeScopeFeature(d)
  PROVE  ScopeInv'
<1>1. /\ disposer[d] = "new" /\ disposer' = [disposer EXCEPT ![d] = "held"]
      /\ tracked' = tracked \cup {d} /\ scope' = EnsuredScope /\ feature' = Attached(feature)
      /\ UNCHANGED <<room, roomWires, caller, stops, robbed>>
  BY DEF attachNodeScopeFeature
<1>2. /\ disposer \in [Disposers -> {"new", "held", "used", "stopped"}]
      /\ IsFiniteSet(HeldUsers(disposer)) /\ HeldUsers(disposer) \subseteq tracked
      /\ feature.count \in Nat /\ scope \in {"off", "on", "muted"}
  BY DEF ScopeInv
<1>3. HeldUsers(disposer') = HeldUsers(disposer) \cup {d} /\ d \notin HeldUsers(disposer)
  BY <1>1, <1>2 DEF HeldUsers
<1>4. /\ IsFiniteSet(HeldUsers(disposer')) /\ HeldUsers(disposer') \subseteq tracked'
      /\ Cardinality(HeldUsers(disposer')) = Cardinality(HeldUsers(disposer)) + 1
      /\ Cardinality(HeldUsers(disposer)) \in Nat
  <2> DEFINE h == HeldUsers(disposer)
  <2> HIDE DEF h
  <2>1. IsFiniteSet(h) /\ d \notin h
    BY <1>2, <1>3 DEF h
  <2>2. IsFiniteSet(h \cup {d}) /\ Cardinality(h \cup {d}) = Cardinality(h) + 1
    BY <2>1, FS_AddElement
  <2>3. Cardinality(h) \in Nat
    BY <2>1, FS_CardinalityType
  <2> QED
    BY <1>1, <1>2, <1>3, <2>2, <2>3 DEF h
<1>5. disposer' \in [Disposers -> {"new", "held", "used", "stopped"}]
  BY <1>1, <1>2
<1>6. /\ feature' \in [count : Nat, handlers : BOOLEAN] /\ feature'.count = feature.count + 1
      /\ feature'.handlers = TRUE
  BY <1>1, <1>2 DEF Attached
<1>7. scope' \in {"on", "muted"}
  BY <1>1, <1>2 DEF EnsuredScope
<1>8. feature'.count > 0
  BY <1>2, <1>6
<1>9. RoomShare(roomWires) \in Nat
  BY DEF RoomShare
<1>10. ~robbed' => feature'.count = Cardinality(HeldUsers(disposer')) + RoomShare(roomWires')
  <2> DEFINE a == Cardinality(HeldUsers(disposer))
             b == RoomShare(roomWires)
  <2>1. ~robbed => feature.count = a + b
    BY DEF ScopeInv
  <2>2. a \in Nat /\ b \in Nat /\ Cardinality(HeldUsers(disposer')) = a + 1
    BY <1>4, <1>9
  <2>3. RoomShare(roomWires') = b /\ robbed' = robbed
    BY <1>1
  <2> HIDE DEF a, b
  <2>4. ~robbed => feature.count + 1 = (a + 1) + b
    BY <2>1, <2>2
  <2> QED
    BY <1>6, <2>2, <2>3, <2>4
<1> QED
  BY <1>1, <1>4, <1>5, <1>6, <1>7, <1>8, <1>10 DEF ScopeInv

LEMMA DisposeInv ==
  ASSUME ScopeInv, NEW d \in Disposers, Dispose(d)
  PROVE  ScopeInv'
<1>1. /\ disposer[d] \in {"held", "used", "stopped"} /\ disposer' = [disposer EXCEPT ![d] = "used"]
      /\ tracked' = tracked \ {d} /\ feature' = Detached(feature)
      /\ robbed' = (robbed \/ (disposer[d] # "held" /\ feature.count > 0))
      /\ UNCHANGED <<scope, room, roomWires, caller, stops>>
  BY DEF Dispose
<1>2. /\ disposer \in [Disposers -> {"new", "held", "used", "stopped"}]
      /\ IsFiniteSet(HeldUsers(disposer)) /\ HeldUsers(disposer) \subseteq tracked
      /\ feature \in [count : Nat, handlers : BOOLEAN] /\ feature.count \in Nat
      /\ (feature.handlers <=> feature.count > 0)
  BY DEF ScopeInv
<1>3. HeldUsers(disposer') = HeldUsers(disposer) \ {d}
  BY <1>1, <1>2 DEF HeldUsers
<1>4. /\ IsFiniteSet(HeldUsers(disposer')) /\ HeldUsers(disposer') \subseteq tracked'
      /\ Cardinality(HeldUsers(disposer')) = IF disposer[d] = "held" THEN Cardinality(HeldUsers(disposer)) - 1
                                             ELSE Cardinality(HeldUsers(disposer))
      /\ Cardinality(HeldUsers(disposer)) \in Nat
      /\ (disposer[d] = "held" => Cardinality(HeldUsers(disposer)) > 0)
  <2>1. d \in HeldUsers(disposer) <=> disposer[d] = "held"
    BY DEF HeldUsers
  <2>2. /\ IsFiniteSet(HeldUsers(disposer'))
        /\ Cardinality(HeldUsers(disposer')) = IF d \in HeldUsers(disposer) THEN Cardinality(HeldUsers(disposer)) - 1
                                               ELSE Cardinality(HeldUsers(disposer))
    BY <1>2, <1>3, FS_RemoveElement
  <2>3. Cardinality(HeldUsers(disposer)) \in Nat
    BY <1>2, FS_CardinalityType
  <2>4. Cardinality(HeldUsers(disposer')) \in Nat
    BY <2>2, FS_CardinalityType
  <2>5. HeldUsers(disposer') \subseteq tracked'
    BY <1>1, <1>2, <1>3
  <2> QED
    BY <2>1, <2>2, <2>3, <2>4, <2>5
<1>5. disposer' \in [Disposers -> {"new", "held", "used", "stopped"}] /\ robbed' \in BOOLEAN
  BY <1>1, <1>2 DEF ScopeInv
<1>6. /\ feature' \in [count : Nat, handlers : BOOLEAN]
      /\ feature'.count = IF feature.count = 0 THEN 0 ELSE feature.count - 1
      /\ (feature'.handlers <=> feature'.count > 0)
      /\ (feature'.handlers => feature.handlers)
  <2>1. CASE feature.count = 0
    <3>1. feature' = feature
      BY <1>1, <2>1 DEF Detached
    <3> QED
      BY <1>2, <2>1, <3>1
  <2>2. CASE feature.count = 1
    <3>1. feature' = NoFeature
      BY <1>1, <2>2 DEF Detached
    <3> QED
      BY <1>2, <2>2, <3>1 DEF NoFeature
  <2>3. CASE feature.count \notin {0, 1}
    <3> DEFINE k == feature.count - 1
    <3>1. feature' = [feature EXCEPT !.count = k]
      BY <1>1, <2>3 DEF Detached
    <3>2. k \in Nat /\ k > 0 /\ feature.count > 0
      BY <1>2, <2>3
    <3>3. feature' \in [count : Nat, handlers : BOOLEAN] /\ feature'.count = k /\ feature'.handlers = feature.handlers
      <4> HIDE DEF k
      <4> QED
        BY <1>2, <3>1, <3>2
    <3> QED
      BY <1>2, <2>3, <3>2, <3>3
  <2> QED
    BY <2>1, <2>2, <2>3
<1>7. RoomShare(roomWires) \in Nat
  BY DEF RoomShare
<1>8. ~robbed' => feature'.count = Cardinality(HeldUsers(disposer')) + RoomShare(roomWires')
  <2> SUFFICES ASSUME ~robbed' PROVE feature'.count = Cardinality(HeldUsers(disposer')) + RoomShare(roomWires')
    OBVIOUS
  <2>1. ~robbed /\ (disposer[d] = "held" \/ ~(feature.count > 0))
    BY <1>1
  <2>2. feature.count = Cardinality(HeldUsers(disposer)) + RoomShare(roomWires) /\ roomWires' = roomWires
    BY <1>1, <2>1 DEF ScopeInv
  <2> QED
    BY <1>2, <1>4, <1>6, <1>7, <2>1, <2>2
<1> QED
  BY <1>1, <1>4, <1>5, <1>6, <1>8 DEF ScopeInv

LEMMA StopScopeInv ==
  ASSUME ScopeInv, NEW keep \in BOOLEAN, stopNodeScopeRuntime(keep)
  PROVE  ScopeInv'
<1>1. /\ stops' = stops + 1 /\ feature' = NoFeature /\ tracked' = {}
      /\ disposer' = [d \in Disposers |-> IF d \in tracked THEN "stopped" ELSE disposer[d]]
      /\ roomWires' = IF roomWires = "held" THEN "stopped" ELSE roomWires
      /\ scope' = IF keep THEN scope ELSE "off"
      /\ UNCHANGED <<room, caller, robbed>>
  BY DEF stopNodeScopeRuntime
<1>2. /\ disposer \in [Disposers -> {"new", "held", "used", "stopped"}]
      /\ HeldUsers(disposer) \subseteq tracked /\ roomWires \in {"none", "held", "stopped"}
      /\ scope \in {"off", "on", "muted"} /\ stops \in Nat
  BY DEF ScopeInv
<1>3. HeldUsers(disposer') = {}
  BY <1>1, <1>2 DEF HeldUsers
<1>4. disposer' \in [Disposers -> {"new", "held", "used", "stopped"}]
  BY <1>1, <1>2
<1>5. /\ feature' \in [count : Nat, handlers : BOOLEAN] /\ feature'.count = 0 /\ feature'.handlers = FALSE
  BY <1>1 DEF NoFeature
<1>6. roomWires' \in {"none", "stopped"} /\ scope' \in {"off", "on", "muted"}
      /\ stops' \in Nat /\ stops' # 0
  BY <1>1, <1>2
<1>7. Cardinality({}) = 0 /\ IsFiniteSet({}) /\ RoomShare(roomWires') = 0
  BY <1>6, FS_EmptySet DEF RoomShare
<1>8. feature'.count = Cardinality(HeldUsers(disposer')) + RoomShare(roomWires')
  BY <1>3, <1>5, <1>7
<1>9. IsFiniteSet(HeldUsers(disposer')) /\ HeldUsers(disposer') \subseteq tracked'
  BY <1>3, <1>7
<1>10. UNCHANGED <<room, caller, robbed>> /\ roomWires' # "held"
  BY <1>1, <1>6
<1> QED
  BY <1>4, <1>5, <1>6, <1>8, <1>9, <1>10 DEF ScopeInv

\* What the room's wires do to the feature, the scope and the counts.
LEMMA WithWiresKeeps ==
  ASSUME ScopeInv, NEW attach \in BOOLEAN, NEW sc \in {scope, EnsuredScope}, WithWires(attach, sc),
         UNCHANGED <<disposer, stops, robbed>>
  PROVE  /\ scope' \in {"off", "on", "muted"}
         /\ feature' \in [count : Nat, handlers : BOOLEAN]
         /\ (feature'.handlers <=> feature'.count > 0)
         /\ (feature'.handlers => scope' # "off")
         /\ IsFiniteSet(HeldUsers(disposer')) /\ HeldUsers(disposer') \subseteq tracked'
         /\ roomWires' \in {"none", "held", "stopped"}
         /\ (~robbed' => feature'.count = Cardinality(HeldUsers(disposer')) + RoomShare(roomWires'))
         /\ (stops' = 0 => roomWires' # "stopped")
         /\ (roomWires = "held" => roomWires' = "held")
         /\ (attach /\ stops' = 0 => roomWires' = "held")
<1>1. /\ scope \in {"off", "on", "muted"} /\ EnsuredScope \in {"on", "muted"}
      /\ (scope # "off" => EnsuredScope # "off")
      /\ feature \in [count : Nat, handlers : BOOLEAN] /\ feature.count \in Nat
      /\ (feature.handlers <=> feature.count > 0)
      /\ roomWires \in {"none", "held", "stopped"} /\ (stops = 0 => roomWires # "stopped")
      /\ IsFiniteSet(HeldUsers(disposer)) /\ HeldUsers(disposer) \subseteq tracked
      /\ (feature.handlers => scope # "off")
      /\ (~robbed => feature.count = Cardinality(HeldUsers(disposer)) + RoomShare(roomWires))
  BY DEF ScopeInv, EnsuredScope
<1>2. disposer' = disposer /\ stops' = stops /\ robbed' = robbed
  OBVIOUS
<1>3. CASE attach /\ roomWires = "none"
  <2>1. feature' = Attached(feature) /\ roomWires' = "held" /\ tracked' = tracked \cup {"wires"}
        /\ scope' = EnsuredScope
    BY <1>3 DEF WithWires
  <2>2. /\ feature' \in [count : Nat, handlers : BOOLEAN] /\ feature'.count = feature.count + 1
        /\ feature'.handlers = TRUE
    BY <1>1, <2>1 DEF Attached
  <2>3. Cardinality(HeldUsers(disposer)) \in Nat
    BY <1>1, FS_CardinalityType
  <2>4. RoomShare(roomWires') = 1 /\ RoomShare(roomWires) = 0
    BY <1>3, <2>1 DEF RoomShare
  <2>5. ~robbed' => feature'.count = Cardinality(HeldUsers(disposer')) + RoomShare(roomWires')
    BY <1>1, <1>2, <2>2, <2>3, <2>4
  <2>6. feature'.count > 0 /\ HeldUsers(disposer') \subseteq tracked'
    BY <1>1, <1>2, <2>1, <2>2
  <2> QED
    BY <1>1, <1>2, <2>1, <2>2, <2>5, <2>6
<1>4. CASE ~(attach /\ roomWires = "none")
  <2>1. scope' = sc /\ UNCHANGED <<feature, roomWires, tracked>>
    BY <1>4 DEF WithWires
  <2> QED
    BY <1>1, <1>2, <1>4, <2>1
<1> QED
  BY <1>3, <1>4

LEMMA EnsureRoomInv ==
  ASSUME ScopeInv, NEW c \in Callers, NEW attach \in BOOLEAN, NEW named \in BOOLEAN,
         ensureUserRoom(c, attach, named)
  PROVE  ScopeInv'
<1> DEFINE sc == IF named THEN EnsuredScope ELSE scope
           CallerSet == [st : {"new", "makes", "joined", "done", "hasRoom", "threw"}, attach : BOOLEAN]
<1>1. caller[c].st = "new" /\ UNCHANGED <<disposer, stops, robbed>>
  BY DEF ensureUserRoom
<1>2. /\ room \in [st : {"none", "making", "there"}, attach : BOOLEAN]
      /\ caller \in [Callers -> CallerSet]
      /\ \A b \in Callers : caller[b].st = "makes" => room.st = "making" /\ caller[b].attach = room.attach
      /\ (stops = 0 => \A b \in Callers : caller[b].st = "done" /\ caller[b].attach => roomWires = "held")
      /\ scope \in {"off", "on", "muted"}
  BY DEF ScopeInv
<1>3. sc \in {scope, EnsuredScope} /\ sc \in {"off", "on", "muted"} /\ (scope # "off" => sc # "off")
  BY <1>2 DEF EnsuredScope
<1> HIDE DEF sc
<1>4. CASE room.st = "there"
  <2> DEFINE new == [st |-> "done", attach |-> attach]
  <2>1. WithWires(attach, sc) /\ caller' = [caller EXCEPT ![c] = new] /\ UNCHANGED room
    BY <1>4 DEF ensureUserRoom, sc
  <2>2. new \in CallerSet /\ new.st = "done" /\ new.attach = attach
    OBVIOUS
  <2> HIDE DEF new, CallerSet
  <2>3. caller' \in [Callers -> CallerSet] /\ \A b \in Callers : caller'[b] = IF b = c THEN new ELSE caller[b]
    BY <1>2, <2>1, <2>2
  <2>4. /\ scope' \in {"off", "on", "muted"}
        /\ feature' \in [count : Nat, handlers : BOOLEAN]
        /\ (feature'.handlers <=> feature'.count > 0)
        /\ (feature'.handlers => scope' # "off")
        /\ IsFiniteSet(HeldUsers(disposer')) /\ HeldUsers(disposer') \subseteq tracked'
        /\ roomWires' \in {"none", "held", "stopped"}
        /\ (~robbed' => feature'.count = Cardinality(HeldUsers(disposer')) + RoomShare(roomWires'))
        /\ (stops' = 0 => roomWires' # "stopped")
        /\ (roomWires = "held" => roomWires' = "held")
        /\ (attach /\ stops' = 0 => roomWires' = "held")
    BY <1>1, <1>3, <2>1, WithWiresKeeps
  <2>5. \A b \in Callers : caller'[b].st = "makes" => room'.st = "making" /\ caller'[b].attach = room'.attach
    BY <1>2, <2>1, <2>2, <2>3
  <2>6. stops' = 0 => \A b \in Callers : caller'[b].st = "done" /\ caller'[b].attach => roomWires' = "held"
    BY <1>1, <1>2, <2>2, <2>3, <2>4
  <2> QED
    BY <1>1, <1>2, <2>1, <2>3, <2>4, <2>5, <2>6 DEF ScopeInv, CallerSet
<1>5. ASSUME NEW new \in CallerSet, new.st \in {"joined", "makes"},
             caller' = [caller EXCEPT ![c] = new], scope' = sc,
             room' \in [st : {"none", "making", "there"}, attach : BOOLEAN],
             UNCHANGED <<feature, roomWires, tracked>>,
             new.st = "joined" => room' = room,
             new.st = "makes" => room.st # "making" /\ room'.st = "making" /\ room'.attach = new.attach
      PROVE  ScopeInv'
  <2> HIDE DEF CallerSet
  <2>1. caller' \in [Callers -> CallerSet] /\ \A b \in Callers : caller'[b] = IF b = c THEN new ELSE caller[b]
    BY <1>2, <1>5
  <2>2. \A b \in Callers : caller'[b].st = "makes" => room'.st = "making" /\ caller'[b].attach = room'.attach
    BY <1>2, <1>5, <2>1
  <2>3. stops' = 0 => \A b \in Callers : caller'[b].st = "done" /\ caller'[b].attach => roomWires' = "held"
    BY <1>1, <1>2, <1>5, <2>1
  <2> QED
    BY <1>1, <1>2, <1>3, <1>5, <2>1, <2>2, <2>3 DEF ScopeInv, CallerSet
<1>6. CASE room.st = "making"
  <2> DEFINE new == [st |-> "joined", attach |-> attach]
  <2>1. scope' = sc /\ caller' = [caller EXCEPT ![c] = new] /\ UNCHANGED <<room, feature, roomWires, tracked>>
    BY <1>6 DEF ensureUserRoom, sc
  <2>2. new \in CallerSet /\ new.st = "joined"
    OBVIOUS
  <2> HIDE DEF new, CallerSet
  <2> QED
    BY <1>2, <1>5, <2>1, <2>2
<1>7. CASE room.st \notin {"there", "making"}
  <2> DEFINE new == [st |-> "makes", attach |-> attach]
  <2>1. /\ scope' = sc /\ caller' = [caller EXCEPT ![c] = new]
        /\ room' = [st |-> "making", attach |-> attach] /\ UNCHANGED <<feature, roomWires, tracked>>
    BY <1>7 DEF ensureUserRoom, sc
  <2>2. new \in CallerSet /\ new.st = "makes" /\ new.attach = attach
    OBVIOUS
  <2>3. room' \in [st : {"none", "making", "there"}, attach : BOOLEAN] /\ room'.st = "making" /\ room'.attach = attach
    BY <2>1
  <2> HIDE DEF new, CallerSet
  <2> QED
    BY <1>5, <1>7, <2>1, <2>2, <2>3
<1> QED
  BY <1>4, <1>6, <1>7

LEMMA RoomMadeInv ==
  ASSUME ScopeInv, NEW ok \in BOOLEAN, RoomMade(ok)
  PROVE  ScopeInv'
<1> DEFINE CallerSet == [st : {"new", "makes", "joined", "done", "hasRoom", "threw"}, attach : BOOLEAN]
           next(c) == CASE caller[c].st = "makes" -> [caller[c] EXCEPT !.st = IF ok THEN "done" ELSE "threw"]
                        [] caller[c].st = "joined" -> [caller[c] EXCEPT !.st = IF ok THEN "hasRoom" ELSE "threw"]
                        [] OTHER -> caller[c]
<1>1. /\ room.st = "making" /\ UNCHANGED <<disposer, stops, robbed>>
      /\ IF ok THEN WithWires(room.attach, EnsuredScope) ELSE UNCHANGED <<scope, feature, roomWires, tracked>>
      /\ room' = [room EXCEPT !.st = IF ok THEN "there" ELSE "none"]
      /\ caller' = [c \in Callers |-> next(c)]
  BY DEF RoomMade
<1>2. /\ room \in [st : {"none", "making", "there"}, attach : BOOLEAN]
      /\ caller \in [Callers -> CallerSet]
      /\ \A b \in Callers : caller[b].st = "makes" => room.st = "making" /\ caller[b].attach = room.attach
      /\ (stops = 0 => \A b \in Callers : caller[b].st = "done" /\ caller[b].attach => roomWires = "held")
  BY DEF ScopeInv
<1>3. room' \in [st : {"none", "making", "there"}, attach : BOOLEAN]
  BY <1>1, <1>2
<1>4. ASSUME NEW c \in Callers
      PROVE  /\ next(c) \in CallerSet /\ next(c).st # "makes" /\ next(c).attach = caller[c].attach
             /\ (next(c).st = "done" => caller[c].st = "done" \/ (caller[c].st = "makes" /\ ok))
  <2>1. caller[c] \in CallerSet
    BY <1>2
  <2>2. CASE caller[c].st = "makes"
    <3> DEFINE n == next(c)
    <3>1. n = [caller[c] EXCEPT !.st = IF ok THEN "done" ELSE "threw"]
      BY <2>2
    <3> HIDE DEF n
    <3>2. n \in CallerSet /\ n.st # "makes" /\ n.attach = caller[c].attach /\ (n.st = "done" => ok)
      BY <2>1, <3>1
    <3> QED
      BY <2>2, <3>2 DEF n
  <2>3. CASE caller[c].st = "joined"
    <3> DEFINE n == next(c)
    <3>1. n = [caller[c] EXCEPT !.st = IF ok THEN "hasRoom" ELSE "threw"]
      BY <2>3
    <3> HIDE DEF n
    <3>2. n \in CallerSet /\ n.st \notin {"makes", "done"} /\ n.attach = caller[c].attach
      BY <2>1, <3>1
    <3> QED
      BY <3>2 DEF n
  <2>4. CASE caller[c].st \notin {"makes", "joined"}
    BY <2>1, <2>4
  <2> QED
    BY <2>2, <2>3, <2>4
<1> HIDE DEF next, CallerSet
<1>5. caller' \in [Callers -> CallerSet] /\ \A c \in Callers : caller'[c] = next(c)
  BY <1>1, <1>4
<1>6. \A b \in Callers : caller'[b].st # "makes"
  BY <1>4, <1>5
<1>7. CASE ok
  <2>1. WithWires(room.attach, EnsuredScope) /\ room.attach \in BOOLEAN
    BY <1>1, <1>2, <1>7
  <2>2. /\ scope' \in {"off", "on", "muted"}
        /\ feature' \in [count : Nat, handlers : BOOLEAN]
        /\ (feature'.handlers <=> feature'.count > 0)
        /\ (feature'.handlers => scope' # "off")
        /\ IsFiniteSet(HeldUsers(disposer')) /\ HeldUsers(disposer') \subseteq tracked'
        /\ roomWires' \in {"none", "held", "stopped"}
        /\ (~robbed' => feature'.count = Cardinality(HeldUsers(disposer')) + RoomShare(roomWires'))
        /\ (stops' = 0 => roomWires' # "stopped")
        /\ (roomWires = "held" => roomWires' = "held")
        /\ (room.attach /\ stops' = 0 => roomWires' = "held")
    BY <1>1, <2>1, WithWiresKeeps
  <2>3. stops' = 0 => \A b \in Callers : caller'[b].st = "done" /\ caller'[b].attach => roomWires' = "held"
    BY <1>1, <1>2, <1>4, <1>5, <2>2
  <2> QED
    BY <1>1, <1>3, <1>5, <1>6, <2>2, <2>3 DEF ScopeInv, CallerSet
<1>8. CASE ~ok
  <2>1. UNCHANGED <<scope, feature, roomWires, tracked>>
    BY <1>1, <1>8
  <2>2. stops' = 0 => \A b \in Callers : caller'[b].st = "done" /\ caller'[b].attach => roomWires' = "held"
    BY <1>1, <1>2, <1>4, <1>5, <1>8, <2>1
  <2> QED
    BY <1>1, <1>3, <1>5, <1>6, <2>1, <2>2 DEF ScopeInv, CallerSet
<1> QED
  BY <1>7, <1>8

LEMMA ScopeNextInv == ScopeInv /\ [NextScope]_scopeVars => ScopeInv'
<1> SUFFICES ASSUME ScopeInv, [NextScope]_scopeVars PROVE ScopeInv'
  OBVIOUS
<1>1. CASE ScopeCleanup
  BY <1>1 DEF ScopeCleanup, ScopeInv
<1>2. ASSUME NEW d \in Disposers, attachNodeScopeFeature(d) \/ Dispose(d) PROVE ScopeInv'
  BY <1>2, AttachInv, DisposeInv
<1>3. ASSUME NEW b \in BOOLEAN, stopNodeScopeRuntime(b) \/ RoomMade(b) PROVE ScopeInv'
  BY <1>3, StopScopeInv, RoomMadeInv
<1>4. ASSUME NEW c \in Callers, NEW attach \in BOOLEAN, NEW named \in BOOLEAN, ensureUserRoom(c, attach, named)
      PROVE  ScopeInv'
  BY <1>4, EnsureRoomInv
<1>5. CASE UNCHANGED scopeVars
  BY <1>5 DEF scopeVars, ScopeInv
<1> QED
  BY <1>1, <1>2, <1>3, <1>4, <1>5 DEF NextScope

\* The feature's handlers are on the wire exactly while somebody holds them, for any number of
\* users, calls and stops (features.mjs:40-55, 158-166, wire.mjs:104-143, user_room.mjs:93-145).
THEOREM ScopeSound == SpecScope => []FeaturesServe
<1>1. ScopeInv => FeaturesServe
  <2> SUFFICES ASSUME ScopeInv PROVE FeaturesServe
    OBVIOUS
  <2>1. /\ HoldersOf = HeldUsers(disposer) \cup (IF roomWires = "held" THEN {"wires"} ELSE {})
        /\ IsFiniteSet(HeldUsers(disposer)) /\ feature.count \in Nat
        /\ (feature.handlers <=> feature.count > 0)
    BY DEF HoldersOf, HeldUsers, ScopeInv
  <2>2. Cardinality(HeldUsers(disposer)) \in Nat
        /\ (Cardinality(HeldUsers(disposer)) = 0 <=> HeldUsers(disposer) = {})
    BY <2>1, FS_CardinalityType, FS_EmptySet
  <2>3. RoomShare(roomWires) \in Nat /\ (RoomShare(roomWires) = 0 <=> roomWires # "held")
    BY DEF RoomShare
  <2>4. HoldersOf = {} <=> HeldUsers(disposer) = {} /\ roomWires # "held"
    BY <2>1
  <2>5. ~robbed => (feature.count > 0 <=> HoldersOf # {})
    <3> SUFFICES ASSUME ~robbed PROVE feature.count > 0 <=> HoldersOf # {}
      OBVIOUS
    <3> DEFINE a == Cardinality(HeldUsers(disposer))
               b == RoomShare(roomWires)
    <3>1. feature.count = a + b /\ a \in Nat /\ b \in Nat
      BY <2>2, <2>3 DEF ScopeInv
    <3>2. HoldersOf = {} <=> a = 0 /\ b = 0
      BY <2>2, <2>3, <2>4
    <3> HIDE DEF a, b
    <3> QED
      BY <3>1, <3>2
  <2>6. roomWires = "held" /\ ~robbed => feature.handlers
    BY <2>1, <2>4, <2>5
  <2> QED
    BY <2>1, <2>5, <2>6 DEF FeaturesServe, ScopeInv
<1> QED
  BY <1>1, ScopeInitInv, ScopeNextInv, PTL DEF SpecScope

-----------------------------------------------------------------------------
(* What the invariants say of types. *)

\* REQs and subscriptions keep their shape.
LEMMA DiscoveryTyped == SpecDiscovery => []DiscoveryTypeOK
<1>1. DiscoveryInv => DiscoveryTypeOK
  <2> SUFFICES ASSUME DiscoveryInv PROVE DiscoveryTypeOK
    OBVIOUS
  <2>1. DiscoveryShape /\ DOMAIN reqs = 1..Len(reqs)
    BY DEF DiscoveryInv, DiscoveryShape
  <2>2. ASSUME NEW i \in DOMAIN reqs
        PROVE  reqs[i] \in [of : 1..MaxProviders, kind : {"advert", "signal", "extra"},
                            listeners : SUBSET Watchers, held : BOOLEAN, open : BOOLEAN]
    <3>1. reqs[i] \in Req /\ provider \in 1..MaxProviders
      BY <2>1 DEF DiscoveryShape
    <3>2. 1..provider \subseteq 1..MaxProviders
      BY <3>1, DiscoveryAssumption
    <3>3. \A S : 1..provider \subseteq S =>
            Req \subseteq [of : S, kind : {"advert", "signal", "extra"},
                          listeners : SUBSET Watchers, held : BOOLEAN, open : BOOLEAN]
      BY DEF Req
    <3> QED
      BY <3>1, <3>2, <3>3
  <2> QED
    BY <2>1, <2>2 DEF DiscoveryShape, DiscoveryTypeOK
<1> QED
  BY <1>1, DiscoveryInvariant, PTL

\* Publications and their attempts keep their shape.
LEMMA PublishTyped == SpecPublish => []PublishTypeOK
<1>1. PublishInv => PublishTypeOK
  BY DEF PublishInv
<1> QED
  BY <1>1, PublishInvariant, PTL

\* A list of good relays within its bound.
GoodList(urls) == urls \in Seq(Relays) /\ Len(urls) <= LastGoodMax

\* Seeds stay in the book, and good relays are few.
BookRest ==
  /\ Seeds \subseteq DOMAIN pool /\ overwritten \subseteq Relays
  /\ GoodList(lastGood) /\ GoodList(disk.lastGood)

LEMMA KeptIsGood ==
  ASSUME NEW urls, GoodList(urls), NEW r \in Relays
  PROVE  GoodList(Kept(urls, r))
<1> DEFINE new == IF r \in Range(urls) THEN urls ELSE Append(urls, r)
<1> DEFINE m == IF Len(urls) >= LastGoodMax THEN LastGoodMax
                ELSE Len(urls) + (IF r \in Range(urls) THEN 0 ELSE 1)
<1>1. urls \in Seq(Relays) /\ Len(urls) \in Nat /\ Len(urls) <= LastGoodMax /\ LastGoodMax \in Nat
  BY BookAssumption DEF GoodList
<1>2. new \in Seq(Relays) /\ Len(new) = Len(urls) + (IF r \in Range(urls) THEN 0 ELSE 1)
  <2>1. Append(urls, r) \in Seq(Relays) /\ Len(Append(urls, r)) = Len(urls) + 1
    BY <1>1
  <2> QED
    BY <1>1, <2>1
<1>3. m \in 0..Len(new) /\ m <= LastGoodMax
  BY <1>1, <1>2
<1> HIDE DEF new, m
<1>4. SubSeq(new, 1, m) \in Seq(Relays) /\ Len(SubSeq(new, 1, m)) = m
  BY <1>2, <1>3
<1>5. Kept(urls, r) = SubSeq(new, 1, m)
  BY DEF Kept, new, m
<1> QED
  BY <1>3, <1>4, <1>5 DEF GoodList

LEMMA UpsertSparesSeeds ==
  ASSUME NEW r \in Relays, NEW e, Upsert(r, e), Seeds \subseteq DOMAIN pool
  PROVE  Seeds \subseteq DOMAIN pool'
<1>1. PICK out \in Evictions(Put(pool, r, e)) :
        pool' = [k \in (DOMAIN pool \cup {r}) \ out |-> Put(pool, r, e)[k]]
  BY DEF Upsert
<1>2. out \cap Seeds = {}
  BY DEF Evictions
<1> QED
  BY <1>1, <1>2

LEMMA BookRestKept ==
  ASSUME BookRest, [NextBook]_bookVars
  PROVE  BookRest'
<1>1. ASSUME NEW r, NEW e PROVE DOMAIN Put(pool, r, e) = DOMAIN pool \cup {r}
  BY DEF Put
<1>2. ASSUME UNCHANGED <<overwritten, lastGood, disk>>, Seeds \subseteq DOMAIN pool' PROVE BookRest'
  BY <1>2 DEF BookRest, GoodList
<1>3. CASE UNCHANGED bookVars
  BY <1>2, <1>3 DEF bookVars, BookRest
<1>4. CASE TimePasses
  BY <1>2, <1>4 DEF TimePasses, BookRest
<1>5. ASSUME NEW r \in Relays, NEW rtt \in Rtts, NEW inRound \in BOOLEAN, ProbeSucceeds(r, rtt, inRound)
      PROVE  BookRest'
  BY <1>1, <1>2, <1>5 DEF ProbeSucceeds, Attempted, BookRest
<1>6. ASSUME NEW r \in Relays, ProbeFails(r) \/ PublishRefused(r) PROVE BookRest'
  <2>1. \E e : pool' = Put(pool, r, e)
    BY <1>6 DEF ProbeFails, PublishRefused
  <2>2. UNCHANGED <<overwritten, lastGood, disk>>
    BY <1>6 DEF ProbeFails, PublishRefused, Attempted
  <2>3. PICK e : pool' = Put(pool, r, e)
    BY <2>1
  <2>4. DOMAIN pool' = DOMAIN pool \cup {r}
    BY <1>1, <2>3
  <2>5. Seeds \subseteq DOMAIN pool'
    BY <2>4 DEF BookRest
  <2> QED
    BY <1>2, <2>2, <2>5
<1>7. ASSUME NEW r \in Relays, NEW routed \in BOOLEAN, PublishAccepted(r, routed) PROVE BookRest'
  <2>1. Seeds \subseteq DOMAIN pool' /\ UNCHANGED <<overwritten, disk>>
        /\ (lastGood' = Kept(lastGood, r) \/ lastGood' = lastGood)
    BY <1>1, <1>7 DEF PublishAccepted, Attempted, BookRest
  <2>2. GoodList(lastGood')
    BY <2>1, KeptIsGood DEF BookRest
  <2> QED
    BY <2>1, <2>2 DEF BookRest, GoodList
<1>8. ASSUME NEW r \in Relays, NEW rtt \in Rtts, RoundAdds(r, rtt) PROVE BookRest'
  <2>1. /\ \E e : Upsert(r, e)
        /\ overwritten' = overwritten \cup {r} /\ UNCHANGED <<lastGood, disk>>
    BY <1>8 DEF RoundAdds
  <2>2. Seeds \subseteq DOMAIN pool'
    BY <2>1, UpsertSparesSeeds DEF BookRest
  <2> QED
    BY <2>1, <2>2 DEF BookRest, GoodList
<1>9. ASSUME NEW r \in Relays, NEW rtt \in Rtts, AdvertAdds(r, rtt) PROVE BookRest'
  <2>1. (\E e : Upsert(r, e)) /\ UNCHANGED <<overwritten, lastGood, disk>>
    BY <1>9 DEF AdvertAdds
  <2> QED
    BY <1>2, <2>1, UpsertSparesSeeds DEF BookRest
<1>10. ASSUME NEW r \in Relays, AdvertNames(r) PROVE BookRest'
  BY <1>2, <1>10 DEF AdvertNames, BookRest
<1>11. ASSUME NEW written \in BOOLEAN, Flush(written) PROVE BookRest'
  <2>1. UNCHANGED <<pool, overwritten, lastGood>>
        /\ (disk' = [pool |-> pool, lastGood |-> lastGood] \/ disk' = disk)
    BY <1>11 DEF Flush
  <2> QED
    BY <2>1 DEF BookRest, GoodList
<1>12. ASSUME NEW crashed \in BOOLEAN, Load(crashed) PROVE BookRest'
  <2>1. pool' = Seeded(disk.pool) /\ lastGood' = disk.lastGood /\ UNCHANGED <<disk, overwritten>>
    BY <1>12 DEF Load
  <2>2. Seeds \subseteq DOMAIN pool'
    BY <2>1 DEF Seeded
  <2> QED
    BY <2>1, <2>2 DEF BookRest, GoodList
<1> QED
  BY <1>3, <1>4, <1>5, <1>6, <1>7, <1>8, <1>9, <1>10, <1>11, <1>12 DEF NextBook

\* The seeds are always in the book, and the list of good relays keeps its bound.
LEMMA BookTyped == SpecBook => []BookTypeOK
<1>1. InitBook => BookRest
  <2> SUFFICES ASSUME InitBook PROVE BookRest
    OBVIOUS
  <2>1. Seeds \subseteq DOMAIN pool /\ lastGood = <<>> /\ disk.lastGood = <<>> /\ overwritten = {}
    BY DEF InitBook, Seeded
  <2>2. <<>> \in Seq(Relays) /\ Len(<<>>) = 0 /\ 0 <= LastGoodMax
    BY BookAssumption
  <2> QED
    BY <2>1, <2>2 DEF BookRest, GoodList
<1>2. BookInv /\ BookRest => BookTypeOK
  BY DEF BookInv, BookRest, BookTypeOK, GoodBook, GoodList
<1> QED
  BY <1>1, <1>2, BookRestKept, BookInvariant, PTL DEF SpecBook

\* No more calls wait for the bootstrap than were made.
WaitsFit == ensures.waiting <= ensures.made

LEMMA WaitsFitKept ==
  ASSUME ShutdownInv, WaitsFit, [NextShutdown]_shutdownVars
  PROVE  WaitsFit'
<1>1. ensures \in [made : Nat, waiting : Nat] /\ ensures.made \in Nat /\ ensures.waiting \in Nat
  BY DEF ShutdownInv, ShutdownShape
<1>2. CASE ensures' = ensures
  BY <1>2 DEF WaitsFit
<1>3. CASE ensureRuntimeWithMesh
  <2>1. ensures'.made = ensures.made + 1 /\ ensures'.waiting = ensures.waiting + 1
    BY <1>3 DEF ensureRuntimeWithMesh
  <2> QED
    BY <1>1, <2>1 DEF WaitsFit
<1>4. CASE RuntimeEnsured
  <2>1. ensures' = [ensures EXCEPT !.waiting = ensures.waiting - 1]
    BY <1>4 DEF RuntimeEnsured
  <2>2. ensures'.made = ensures.made /\ ensures'.waiting = ensures.waiting - 1
    BY <1>1, <2>1
  <2> QED
    BY <1>1, <2>2 DEF WaitsFit
<1> QED
  BY <1>2, <1>3, <1>4 DEF NextShutdown, shutdownVars, LinkIsReady, registerResolvedLink, LinkFails,
     LinkIsDown, KeepaliveTick, KeepaliveTickEnds, ShutdownBegins, ShutdownStep, HealthStops,
     BootstrapStops, CloseNext, CloseReturns, LinksCleared

\* Entries are of links that were made, one for each peer.
LEMMA ShutdownTyped == SpecShutdown => []ShutdownTypeOK
<1>1. ShutdownInv /\ WaitsFit => ShutdownTypeOK
  <2> SUFFICES ASSUME ShutdownInv, WaitsFit PROVE ShutdownTypeOK
    OBVIOUS
  <2>1. ASSUME NEW p \in LinkPeers PROVE Cardinality(EntryAt(p)) <= 1
    <3>1. \A i, k \in EntryAt(p) : i = k
      BY DEF EntryAt, ShutdownInv, EntriesAreApart
    <3>2. CASE EntryAt(p) = {}
      BY <3>2, FS_EmptySet
    <3>3. CASE EntryAt(p) # {}
      <4>1. PICK i : EntryAt(p) = {i}
        BY <3>1, <3>3
      <4> QED
        BY <4>1, FS_Singleton
    <3> QED
      BY <3>2, <3>3
  <2>2. ensures.waiting \in 0..ensures.made
    BY DEF ShutdownInv, ShutdownShape, WaitsFit
  <2> QED
    BY <2>1, <2>2 DEF ShutdownInv, ShutdownShape, ShutdownTypeOK, ReadyLink
<1>2. InitShutdown => WaitsFit
  BY DEF InitShutdown, WaitsFit
<1> QED
  BY <1>1, <1>2, WaitsFitKept, ShutdownInvariant, PTL DEF SpecShutdown

-----------------------------------------------------------------------------
(* Types of groups. *)

\* Members only are announced; what is to be cleaned up is held.
GroupRest ==
  /\ announced \subseteq members /\ cleanups \subseteq held
  /\ autoconnect \in BOOLEAN /\ dialTimer \in BOOLEAN /\ interest \in BOOLEAN

LEMMA GroupRestKept ==
  ASSUME GroupRest, [NextGroup]_groupVars
  PROVE  GroupRest'
<1>1. CASE UNCHANGED groupVars
  BY <1>1 DEF groupVars, GroupRest
<1>2. ASSUME NEW n \in Starts, Start(n) PROVE GroupRest'
  BY <1>2 DEF Start, GroupRest
<1>3. ASSUME NEW n \in Starts, RuntimeReady(n) \/ AdvertsWatched(n) \/ PresenceStarted(n) PROVE GroupRest'
  <2>1. \E kind : held' = held \cup {<<kind, n>>} /\ cleanups' = cleanups \cup {<<kind, n>>}
    BY <1>3 DEF RuntimeReady, AdvertsWatched, PresenceStarted, Holds
  <2>2. cleanups' \subseteq held'
    BY <2>1 DEF GroupRest
  <2>3. UNCHANGED <<announced, members, autoconnect, dialTimer>> /\ (interest' = TRUE \/ interest' = interest)
    BY <1>3 DEF RuntimeReady, AdvertsWatched, PresenceStarted
  <2> QED
    BY <2>2, <2>3 DEF GroupRest
<1>4. ASSUME NEW n \in Starts, NEW ps \in SUBSET Others, Scanned(n, ps) PROVE GroupRest'
  <2>1. cleanups' \subseteq held'
    BY <1>4 DEF Scanned, Holds, GroupRest
  <2>2. announced' \subseteq members'
    BY <1>4 DEF Scanned, Joins, Roster, GroupRest
  <2>3. interest' \in BOOLEAN /\ autoconnect' \in BOOLEAN /\ dialTimer' \in BOOLEAN
    BY <1>4 DEF Scanned, GroupRest
  <2> QED
    BY <2>1, <2>2, <2>3 DEF GroupRest
<1>5. CASE Leave
  BY <1>5 DEF Leave, GroupRest
<1>6. CASE startAutoconnect \/ stopAutoconnect \/ DialTimer
  BY <1>6 DEF startAutoconnect, stopAutoconnect, DialTimer, GroupRest
<1>7. ASSUME NEW p \in Others, LinkUp(p) PROVE GroupRest'
  BY <1>7 DEF LinkUp, Joins, GroupRest
<1>8. ASSUME NEW p \in Others, LinkDown(p) PROVE GroupRest'
  BY <1>8 DEF LinkDown, Leaves, GroupRest
<1>9. ASSUME NEW p \in Others, Candidate(p) PROVE GroupRest'
  <2>1. announced' \subseteq members'
    BY <1>9 DEF Candidate, Candidates, Joins, GroupRest
  <2>2. interest' \in BOOLEAN /\ autoconnect' \in BOOLEAN /\ dialTimer' \in BOOLEAN
    BY <1>9 DEF Candidate, Candidates, GroupRest
  <2> QED
    BY <1>9, <2>1, <2>2 DEF Candidate, GroupRest
<1>10. ASSUME NEW l \in Listeners, OnPeerJoin(l) PROVE GroupRest'
  BY <1>10 DEF OnPeerJoin, GroupRest
<1> QED
  BY <1>1, <1>2, <1>3, <1>4, <1>5, <1>6, <1>7, <1>8, <1>9, <1>10 DEF NextGroup

\* Members only are announced, and what is to be cleaned up is held.
LEMMA GroupTyped == SpecGroup => []GroupTypeOK
<1>1. InitGroup => GroupRest
  BY DEF InitGroup, GroupRest
<1>2. GroupInv /\ GroupRest => GroupTypeOK
  BY DEF GroupInv, GroupShape, GroupRest, GroupTypeOK
<1> QED
  BY <1>1, <1>2, GroupRestKept, GroupInvariant, PTL DEF SpecGroup

-----------------------------------------------------------------------------
(* Types of the keepalive. *)

\* What a tick may be.
MeshTick == [pc : {"idle", "scan", "evict", "closing", "closed"}, trusted : SUBSET MeshPeers,
             now : 0..MaxClock, dial : SUBSET MeshPeers, victim : MeshPeers \cup {0},
             need : 0..(2 * Cardinality(MeshPeers))]

\* A victim is chosen only while somebody has to go.
Evicting(rec) == rec.pc \in {"closing", "closed"} => rec.need > 0

MeshRest == MeshTypeOK /\ Evicting(tick)

LEMMA MeshBounds == Cardinality(MeshPeers) \in Nat /\ MaxClock \in Nat /\ NoTick \in MeshTick
<1>1. Cardinality(MeshPeers) \in Nat /\ MaxClock \in Nat
  BY MeshAssumption, FS_CardinalityType
<1> QED
  BY <1>1 DEF NoTick, MeshTick

\* Stability is forgotten or noted at a time of the clock.
LEMMA WithoutTyped ==
  ASSUME stableSince \in [MeshPeers -> -1..MaxClock], NEW ps
  PROVE  Without(stableSince, ps) \in [MeshPeers -> -1..MaxClock]
BY MeshBounds DEF Without

LEMMA UnmarkTyped ==
  ASSUME MeshTypeOK, NEW p \in MeshPeers, Unmark(p)
  PROVE  explore' \subseteq MeshPeers /\ stableSince' \in [MeshPeers -> -1..MaxClock]
BY WithoutTyped DEF MeshTypeOK, Unmark

LEMMA MarkUpTyped ==
  ASSUME MeshTypeOK, NEW p \in MeshPeers, NEW byTrusted, MarkUp(p, byTrusted)
  PROVE  explore' \subseteq MeshPeers /\ stableSince' \in [MeshPeers -> -1..MaxClock]
BY WithoutTyped DEF MeshTypeOK, MarkUp, Marked

LEMMA RunTickTyped ==
  ASSUME MeshRest, runTick
  PROVE  tick' \in MeshTick /\ Evicting(tick')
<1>1. tick \in MeshTick
  BY DEF MeshRest, MeshTypeOK, MeshTick
<1>2. [NoTick EXCEPT !.pc = "scan"] \in MeshTick
  BY MeshBounds DEF NoTick, MeshTick
<1>3. [NoTick EXCEPT !.pc = "scan"].pc = "scan"
  BY DEF NoTick
<1> QED
  BY <1>1, <1>2, <1>3 DEF runTick, MeshRest, Evicting

LEMMA VictimLeavesTyped ==
  ASSUME MeshRest, NEW p \in MeshPeers, VictimLeaves(p)
  PROVE  tick' \in MeshTick /\ Evicting(tick')
<1>1. tick \in MeshTick
  BY DEF MeshRest, MeshTypeOK, MeshTick
<1>2. CASE tick' = [tick EXCEPT !.pc = "closed"] /\ tick.pc = "closing"
  BY <1>1, <1>2 DEF MeshRest, Evicting, MeshTick
<1> QED
  BY <1>1, <1>2 DEF VictimLeaves, MeshRest

LEMMA MeshRestKept ==
  ASSUME MeshRest, [NextMesh]_meshVars
  PROVE  MeshRest'
<1> USE DEF MeshTick
<1>1. /\ MeshTypeOK /\ Evicting(tick)
      /\ tick \in MeshTick /\ LinkedPeers \subseteq MeshPeers
  BY DEF MeshRest, MeshTypeOK, LinkedPeers
<1>2. Cardinality(MeshPeers) \in Nat /\ MaxClock \in Nat /\ NoTick \in MeshTick
  BY MeshBounds
<1> USE DEF MeshRest
<1>3. CASE UNCHANGED meshVars
  BY <1>1, <1>3 DEF meshVars, MeshTypeOK, Evicting
<1>4. CASE start
  <2>1. tick' \in MeshTick /\ Evicting(tick')
    BY <1>1, <1>4, RunTickTyped DEF start
  <2> QED
    BY <1>1, <1>4, <2>1 DEF start, MeshTypeOK
<1>5. CASE stop
  <2>1. stableSince' \in [MeshPeers -> -1..MaxClock]
    BY <1>1, <1>5, WithoutTyped DEF stop, MeshTypeOK
  <2>2. cut' \in BOOLEAN
    BY <1>1, <1>5 DEF stop, MeshTypeOK
  <2> QED
    BY <1>1, <1>5, <2>1, <2>2 DEF stop, MeshTypeOK, Evicting
<1>6. CASE ClockTicks
  BY <1>1, <1>2, <1>6 DEF ClockTicks, MeshTypeOK, Evicting
<1>7. CASE TickStarts
  <2>1. tick' \in MeshTick /\ Evicting(tick')
    BY <1>1, <1>7, RunTickTyped DEF TickStarts
  <2> QED
    BY <1>1, <1>7, <2>1 DEF TickStarts, MeshTypeOK
<1>8. CASE TickEvicted
  <2>1. tick.need \in 1..(2 * Cardinality(MeshPeers))
    BY <1>1, <1>2, <1>8 DEF TickEvicted, Evicting
  <2>2. tick' \in MeshTick /\ tick'.pc = "evict"
    <3>1. tick.need - 1 \in 0..(2 * Cardinality(MeshPeers))
      BY <1>2, <2>1
    <3>2. tick' = [tick EXCEPT !.pc = "evict", !.victim = 0, !.need = tick.need - 1]
      BY <1>8 DEF TickEvicted
    <3> QED
      BY <1>1, <3>1, <3>2
  <2>3. explore' \subseteq MeshPeers /\ stableSince' \in [MeshPeers -> -1..MaxClock]
    BY <1>1, <1>8, WithoutTyped DEF TickEvicted, MeshTypeOK
  <2> QED
    BY <1>1, <1>8, <2>2, <2>3 DEF TickEvicted, MeshTypeOK, Evicting
<1>9. CASE TickEnds
  <2>1. dials' \subseteq [peer : MeshPeers, trusted : BOOLEAN]
    <3>1. dials \subseteq [peer : MeshPeers, trusted : BOOLEAN] /\ tick.dial \subseteq MeshPeers
      BY <1>1, <1>2 DEF MeshTypeOK
    <3>2. \A p \in MeshPeers : [peer |-> p, trusted |-> p \in tick.trusted] \in [peer : MeshPeers, trusted : BOOLEAN]
      OBVIOUS
    <3>3. dials' = dials \cup {[peer |-> p, trusted |-> p \in tick.trusted] : p \in tick.dial}
      BY <1>9 DEF TickEnds
    <3> QED
      BY <3>1, <3>2, <3>3
  <2>4. trusted' \subseteq MeshPeers /\ explore' \subseteq MeshPeers
    BY <1>1, <1>9 DEF TickEnds, MeshTypeOK
  <2>2. stableSince' \in [MeshPeers -> -1..MaxClock]
    <3>1. tick.now \in -1..MaxClock /\ -1 \in -1..MaxClock /\ \A p \in MeshPeers : stableSince[p] \in -1..MaxClock
      BY <1>1, <1>2 DEF MeshTypeOK
    <3> QED
      BY <1>9, <3>1 DEF TickEnds
  <2>3. tick' = NoTick /\ NoTick.pc = "idle" /\ UNCHANGED <<timer, linked, announcing, clock, cut>>
    BY <1>9 DEF TickEnds, NoTick
  <2> QED
    BY <1>1, <1>2, <2>1, <2>2, <2>3, <2>4 DEF MeshTypeOK, Evicting
<1>10. ASSUME NEW p \in MeshPeers, LinkGoesUp(p) PROVE MeshRest'
  <2>1. explore' \subseteq MeshPeers /\ stableSince' \in [MeshPeers -> -1..MaxClock]
    BY <1>1, <1>10, MarkUpTyped DEF LinkGoesUp, LinkUpMarks, MeshTypeOK
  <2>2. linked' \in [MeshPeers -> -1..MaxClock]
    BY <1>1, <1>2, <1>10 DEF LinkGoesUp, MeshTypeOK
  <2> QED
    BY <1>1, <1>10, <2>1, <2>2 DEF LinkGoesUp, MeshTypeOK, Evicting
<1>11. ASSUME NEW p \in MeshPeers, LinkGoesDown(p) PROVE MeshRest'
  <2>1. explore' \subseteq MeshPeers /\ stableSince' \in [MeshPeers -> -1..MaxClock]
    BY <1>1, <1>11, UnmarkTyped DEF LinkGoesDown
  <2>2. linked' \in [MeshPeers -> -1..MaxClock]
    BY <1>1, <1>2, <1>11 DEF LinkGoesDown, MeshTypeOK
  <2>3. tick' \in MeshTick /\ Evicting(tick')
    BY <1>1, <1>11, VictimLeavesTyped DEF LinkGoesDown
  <2> QED
    BY <1>1, <1>11, <2>1, <2>2, <2>3 DEF LinkGoesDown, MeshTypeOK
<1>12. ASSUME NEW p \in MeshPeers, TickEvicts(p) PROVE MeshRest'
  <2>1. tick' \in MeshTick /\ tick'.need > 0
    BY <1>1, <1>12 DEF TickEvicts
  <2> QED
    BY <1>1, <1>12, <2>1 DEF TickEvicts, MeshTypeOK, Evicting
<1>13. ASSUME NEW p \in MeshPeers, PoolTrusts(p) PROVE MeshRest'
  BY <1>1, <1>13 DEF PoolTrusts, MeshTypeOK, Evicting
<1>14. ASSUME NEW d \in dials, TickDialEnds(d) PROVE MeshRest'
  <2>1. explore' \subseteq MeshPeers /\ stableSince' \in [MeshPeers -> -1..MaxClock]
    <3>1. d.peer \in MeshPeers
      BY <1>1 DEF MeshTypeOK
    <3> QED
      BY <1>1, <1>14, <3>1, MarkUpTyped DEF TickDialEnds, MeshTypeOK
  <2> QED
    BY <1>1, <1>14, <2>1 DEF TickDialEnds, MeshTypeOK, Evicting
<1>15. ASSUME NEW ps \in SUBSET MeshPeers, TickReads(ps) PROVE MeshRest'
  <2>1. explore' \subseteq MeshPeers /\ stableSince' \in [MeshPeers -> -1..MaxClock]
    BY <1>1, <1>15, WithoutTyped DEF TickReads, Marked, MeshTypeOK
  <2>2. /\ Cardinality(LinkedPeers) \in Nat /\ Cardinality(LinkedPeers) <= Cardinality(MeshPeers)
        /\ Cardinality(ps) \in Nat /\ Cardinality(ps) <= Cardinality(MeshPeers)
    BY <1>1, MeshAssumption, FS_Subset, FS_CardinalityType
  <2>4. RoomFor(ps) \in 0..(2 * Cardinality(MeshPeers))
    BY <1>2, <2>2, MeshAssumption DEF RoomFor
  <2>5. tick' = [pc |-> "evict", trusted |-> trusted, now |-> clock, dial |-> ps, victim |-> 0,
                 need |-> RoomFor(ps)]
    BY <1>15 DEF TickReads
  <2>6. tick' \in MeshTick /\ tick'.pc = "evict"
    BY <1>1, <2>4, <2>5 DEF MeshTypeOK
  <2> QED
    BY <1>1, <1>15, <2>1, <2>6 DEF TickReads, MeshTypeOK, Evicting
<1>16. ASSUME NEW p \in MeshPeers, LinkReplaced(p) PROVE MeshRest'
  <2>1. tick' \in MeshTick /\ Evicting(tick')
    BY <1>1, <1>16, VictimLeavesTyped DEF LinkReplaced
  <2> QED
    BY <1>1, <1>16, <2>1 DEF LinkReplaced, MeshTypeOK
<1>17. ASSUME NEW p \in MeshPeers, LinkAnnounced(p) PROVE MeshRest'
  <2>1. explore' \subseteq MeshPeers /\ stableSince' \in [MeshPeers -> -1..MaxClock]
    BY <1>1, <1>17, MarkUpTyped DEF LinkAnnounced, LinkUpMarks, MeshTypeOK
  <2> QED
    BY <1>1, <1>17, <2>1 DEF LinkAnnounced, MeshTypeOK, Evicting
<1> QED
  BY <1>3, <1>4, <1>5, <1>6, <1>7, <1>8, <1>9, <1>10, <1>11, <1>12, <1>13, <1>14, <1>15,
     <1>16, <1>17 DEF NextMesh

\* Marks, ticks and dials of the mesh keep their shape, and a tick evicts no more links
\* than there are peers to have and to dial.
THEOREM MeshTyped == SpecMesh => []MeshTypeOK
<1>1. InitMesh => MeshRest
  <2> SUFFICES ASSUME InitMesh PROVE MeshRest
    OBVIOUS
  <2>1. NoTick \in MeshTick /\ NoTick.pc = "idle" /\ MaxClock \in Nat
    BY MeshBounds DEF NoTick
  <2>2. linked \in [MeshPeers -> -1..MaxClock] /\ stableSince \in [MeshPeers -> -1..MaxClock] /\ clock \in 0..MaxClock
    BY <2>1 DEF InitMesh
  <2> QED
    BY <2>1, <2>2 DEF InitMesh, MeshRest, MeshTypeOK, MeshTick, Evicting
<1>2. MeshRest => MeshTypeOK
  BY DEF MeshRest
<1> QED
  BY <1>1, <1>2, MeshRestKept, PTL DEF SpecMesh

-----------------------------------------------------------------------------
(* Types of the scope. *)

\* Who counts for the feature: users whose dispose function is held, and the room's wires.
ScopeRest ==
  /\ feature.count <= Cardinality(HeldUsers(disposer)) + RoomShare(roomWires)
  /\ tracked = HoldersOf /\ stops <= MaxStops

\* Counting up or down by one.
LEMMA CountsOne ==
  ASSUME NEW f \in [count : Nat, handlers : BOOLEAN]
  PROVE  /\ Attached(f).count = f.count + 1
         /\ Detached(f).count = IF f.count = 0 THEN 0 ELSE f.count - 1
<1>1. f.count \in Nat
  OBVIOUS
<1>2. CASE f.count = 0
  BY <1>2 DEF Attached, Detached
<1>3. CASE f.count = 1
  BY <1>3 DEF Attached, Detached, NoFeature
<1>4. CASE f.count # 0 /\ f.count # 1
  <2>1. Detached(f) = [f EXCEPT !.count = f.count - 1]
    BY <1>4 DEF Detached
  <2> QED
    BY <1>1, <1>4, <2>1 DEF Attached
<1> QED
  BY <1>2, <1>3, <1>4

\* Holding or letting go of one dispose function.
LEMMA HeldOne ==
  ASSUME ScopeInv, NEW d \in Disposers, NEW st \in {"held", "used"},
         disposer' = [disposer EXCEPT ![d] = st], disposer[d] = "held" <=> st = "used"
  PROVE  /\ st = "held" => HeldUsers(disposer)' = HeldUsers(disposer) \cup {d}
                           /\ Cardinality(HeldUsers(disposer)') = Cardinality(HeldUsers(disposer)) + 1
         /\ st = "used" => HeldUsers(disposer)' = HeldUsers(disposer) \ {d}
                           /\ Cardinality(HeldUsers(disposer)') = Cardinality(HeldUsers(disposer)) - 1
<1>1. disposer \in [Disposers -> {"new", "held", "used", "stopped"}] /\ IsFiniteSet(HeldUsers(disposer))
  BY DEF ScopeInv
<1>2. CASE st = "held"
  <2>1. HeldUsers(disposer)' = HeldUsers(disposer) \cup {d} /\ d \notin HeldUsers(disposer)
    BY <1>1, <1>2 DEF HeldUsers
  <2> QED
    BY <1>1, <1>2, <2>1, FS_AddElement
<1>3. CASE st = "used"
  <2>1. HeldUsers(disposer)' = HeldUsers(disposer) \ {d} /\ d \in HeldUsers(disposer)
    BY <1>1, <1>3 DEF HeldUsers
  <2> QED
    BY <1>1, <1>3, <2>1, FS_RemoveElement
<1> QED
  BY <1>2, <1>3

LEMMA WithWiresRest ==
  ASSUME ScopeInv, ScopeRest, NEW attach, NEW sc, WithWires(attach, sc), UNCHANGED <<disposer, stops>>
  PROVE  ScopeRest'
<1>1. /\ feature \in [count : Nat, handlers : BOOLEAN] /\ roomWires \in {"none", "held", "stopped"}
      /\ Cardinality(HeldUsers(disposer)) \in Nat
  BY FS_CardinalityType DEF ScopeInv
<1>2. CASE attach /\ roomWires = "none"
  <2>1. feature' = Attached(feature) /\ roomWires' = "held" /\ tracked' = tracked \cup {"wires"}
    BY <1>2 DEF WithWires
  <2>2. RoomShare(roomWires) = 0 /\ RoomShare(roomWires') = 1
    BY <1>2, <2>1 DEF RoomShare
  <2>3. HeldUsers(disposer') = HeldUsers(disposer)
    BY DEF HeldUsers
  <2>4. feature'.count = feature.count + 1
    BY <1>1, <2>1, CountsOne
  <2>5. feature'.count <= Cardinality(HeldUsers(disposer')) + RoomShare(roomWires')
    BY <1>1, <2>2, <2>3, <2>4 DEF ScopeRest
  <2>6. tracked' = HoldersOf'
    BY <1>2, <2>1 DEF ScopeRest, HoldersOf
  <2> QED
    BY <2>5, <2>6 DEF ScopeRest
<1>3. CASE ~(attach /\ roomWires = "none")
  BY <1>3 DEF WithWires, ScopeRest, HoldersOf, HeldUsers, RoomShare
<1> QED
  BY <1>2, <1>3

LEMMA ScopeRestKept ==
  ASSUME ScopeInv, ScopeRest, [NextScope]_scopeVars
  PROVE  ScopeRest'
<1>1. /\ feature \in [count : Nat, handlers : BOOLEAN] /\ roomWires \in {"none", "held", "stopped"}
      /\ Cardinality(HeldUsers(disposer)) \in Nat /\ feature.count \in Nat
      /\ disposer \in [Disposers -> {"new", "held", "used", "stopped"}]
  BY FS_CardinalityType DEF ScopeInv
<1>2. RoomShare(roomWires) \in {0, 1}
  BY DEF RoomShare
<1>3. ASSUME UNCHANGED <<feature, disposer, tracked, roomWires, stops>> PROVE ScopeRest'
  BY <1>3 DEF ScopeRest, HoldersOf, HeldUsers, RoomShare
<1>4. CASE UNCHANGED scopeVars
  BY <1>3, <1>4 DEF scopeVars
<1>5. CASE ScopeCleanup
  BY <1>3, <1>5 DEF ScopeCleanup
<1>6. ASSUME NEW d \in Disposers, attachNodeScopeFeature(d) PROVE ScopeRest'
  <2>1. /\ disposer[d] = "new" /\ disposer' = [disposer EXCEPT ![d] = "held"]
        /\ tracked' = tracked \cup {d} /\ feature' = Attached(feature) /\ UNCHANGED <<roomWires, stops>>
    BY <1>6 DEF attachNodeScopeFeature
  <2>2. /\ HeldUsers(disposer)' = HeldUsers(disposer) \cup {d}
        /\ Cardinality(HeldUsers(disposer)') = Cardinality(HeldUsers(disposer)) + 1
    BY <2>1, HeldOne
  <2>3. feature'.count = feature.count + 1 /\ RoomShare(roomWires)' = RoomShare(roomWires)
    BY <1>1, <2>1, CountsOne
  <2>4. HoldersOf' = HoldersOf \cup {d}
    BY <2>1, <2>2 DEF HoldersOf, HeldUsers
  <2>5. feature'.count <= Cardinality(HeldUsers(disposer)') + RoomShare(roomWires)'
    BY <1>1, <1>2, <2>2, <2>3 DEF ScopeRest
  <2> QED
    BY <2>1, <2>4, <2>5 DEF ScopeRest
<1>7. ASSUME NEW d \in Disposers, Dispose(d) PROVE ScopeRest'
  <2>1. /\ feature' = Detached(feature) /\ tracked' = tracked \ {d}
        /\ disposer' = [disposer EXCEPT ![d] = "used"] /\ UNCHANGED <<roomWires, stops>>
    BY <1>7 DEF Dispose
  <2>2. feature'.count = IF feature.count = 0 THEN 0 ELSE feature.count - 1
    BY <1>1, <2>1, CountsOne
  <2>3. RoomShare(roomWires)' = RoomShare(roomWires)
    BY <2>1
  <2>4. HoldersOf' = HoldersOf \ {d}
    BY <1>1, <2>1, StopsAssumption DEF HoldersOf
  <2>5. CASE disposer[d] = "held"
    <3>1. Cardinality(HeldUsers(disposer)') = Cardinality(HeldUsers(disposer)) - 1 /\ d \in HeldUsers(disposer)
      BY <2>1, <2>5, HeldOne DEF HeldUsers
    <3>2. Cardinality(HeldUsers(disposer)) > 0
      BY <1>1, <3>1, FS_EmptySet DEF ScopeInv
    <3>3. feature'.count <= Cardinality(HeldUsers(disposer)') + RoomShare(roomWires)'
      BY <1>1, <1>2, <2>2, <2>3, <3>1, <3>2 DEF ScopeRest
    <3> QED
      BY <2>1, <2>4, <3>3 DEF ScopeRest
  <2>6. CASE disposer[d] # "held"
    <3>1. HeldUsers(disposer)' = HeldUsers(disposer)
      BY <1>1, <2>1, <2>6 DEF HeldUsers
    <3>2. feature'.count <= Cardinality(HeldUsers(disposer)') + RoomShare(roomWires)'
      BY <1>1, <1>2, <2>2, <2>3, <3>1 DEF ScopeRest
    <3> QED
      BY <2>1, <2>4, <3>2 DEF ScopeRest
  <2> QED
    BY <2>5, <2>6
<1>8. ASSUME NEW keep \in BOOLEAN, stopNodeScopeRuntime(keep) PROVE ScopeRest'
  <2>1. /\ stops < MaxStops /\ stops' = stops + 1 /\ feature' = NoFeature /\ tracked' = {}
        /\ disposer' = [d \in Disposers |-> IF d \in tracked THEN "stopped" ELSE disposer[d]]
        /\ roomWires' = IF roomWires = "held" THEN "stopped" ELSE roomWires
    BY <1>8 DEF stopNodeScopeRuntime
  <2>2. HeldUsers(disposer') = {}
    BY <2>1 DEF HeldUsers, ScopeRest, HoldersOf
  <2>3. roomWires' # "held" /\ feature'.count = 0
    BY <2>1 DEF NoFeature
  <2>4. HoldersOf' = {}
    BY <2>2, <2>3 DEF HoldersOf, HeldUsers
  <2>5. feature'.count <= Cardinality(HeldUsers(disposer')) + RoomShare(roomWires')
    BY <2>2, <2>3, FS_EmptySet DEF RoomShare
  <2>6. stops' <= MaxStops
    BY <2>1, StopsAssumption DEF ScopeInv
  <2> QED
    BY <2>1, <2>4, <2>5, <2>6 DEF ScopeRest
<1>9. ASSUME NEW ok \in BOOLEAN, RoomMade(ok) PROVE ScopeRest'
  <2>1. CASE ok
    BY <1>9, <2>1, WithWiresRest DEF RoomMade
  <2>2. CASE ~ok
    BY <1>3, <1>9, <2>2 DEF RoomMade
  <2> QED
    BY <2>1, <2>2
<1>10. ASSUME NEW c \in Callers, NEW attach \in BOOLEAN, NEW named \in BOOLEAN, ensureUserRoom(c, attach, named)
       PROVE  ScopeRest'
  <2>1. PICK sc : sc = IF named THEN EnsuredScope ELSE scope
    OBVIOUS
  <2>2. UNCHANGED <<disposer, stops>>
    BY <1>10 DEF ensureUserRoom
  <2>3. CASE room.st = "there"
    <3>1. WithWires(attach, sc)
      BY <1>10, <2>1, <2>3 DEF ensureUserRoom
    <3> QED
      BY <2>2, <3>1, WithWiresRest
  <2>4. CASE room.st # "there"
    <3>1. UNCHANGED <<feature, roomWires, tracked>>
      BY <1>10, <2>4 DEF ensureUserRoom
    <3> QED
      BY <1>3, <2>2, <3>1
  <2> QED
    BY <2>3, <2>4
<1> QED
  BY <1>4, <1>5, <1>6, <1>7, <1>8, <1>9, <1>10 DEF NextScope

\* Nobody's dispose function is forgotten while it is held, and the feature counts no more than
\* those who hold it.
LEMMA ScopeTyped == SpecScope => []ScopeTypeOK
<1>1. InitScope => ScopeRest
  <2> SUFFICES ASSUME InitScope PROVE ScopeRest
    OBVIOUS
  <2>1. HeldUsers(disposer) = {} /\ roomWires = "none" /\ feature.count = 0
    BY DEF InitScope, HeldUsers, NoFeature
  <2>2. HoldersOf = {}
    BY <2>1 DEF HoldersOf, HeldUsers
  <2>3. feature.count <= Cardinality(HeldUsers(disposer)) + RoomShare(roomWires)
    BY <2>1, FS_EmptySet DEF RoomShare
  <2> QED
    BY <2>2, <2>3, StopsAssumption DEF InitScope, ScopeRest
<1>2. InitScope => ScopeInv
  BY ScopeInitInv
<1>3. ScopeInv /\ ScopeRest => ScopeTypeOK
  <2> SUFFICES ASSUME ScopeInv, ScopeRest PROVE ScopeTypeOK
    OBVIOUS
  <2>1. HeldUsers(disposer) \subseteq Disposers
    BY DEF HeldUsers
  <2>2. /\ Cardinality(HeldUsers(disposer)) \in Nat /\ Cardinality(Disposers) \in Nat
        /\ Cardinality(HeldUsers(disposer)) <= Cardinality(Disposers)
    BY <2>1, StopsAssumption, FS_Subset, FS_CardinalityType
  <2>3. RoomShare(roomWires) \in {0, 1}
    BY DEF RoomShare
  <2>4. feature.count \in 0..(Cardinality(Disposers) + 1)
    BY <2>2, <2>3 DEF ScopeInv, ScopeRest
  <2>5. stops \in 0..MaxStops /\ room.st \in {"none", "making", "there"}
    BY StopsAssumption DEF ScopeInv, ScopeRest
  <2> QED
    BY <2>4, <2>5 DEF ScopeInv, ScopeRest, ScopeTypeOK
<1>4. ScopeInv /\ ScopeRest /\ [NextScope]_scopeVars => ScopeInv' /\ ScopeRest'
  BY ScopeNextInv, ScopeRestKept
<1> QED
  BY <1>1, <1>2, <1>3, <1>4, PTL DEF SpecScope

-----------------------------------------------------------------------------
(* Reputations. *)

RatedScores == MinScore..MaxScore \cup Imported

RatedRow == [known : BOOLEAN, score : RatedScores, streak : Nat, credit : Nat, bad : Nat, quarantined : BOOLEAN]

LEMMA ScoreBounds ==
  /\ MaxScore \in Nat \ {0} /\ MinScore \in Int /\ MinScore = -MaxScore
  /\ RatedScores \subseteq Int /\ NoScore \in Int /\ NoScore \notin RatedScores
  /\ RecidivismMax \in Nat /\ WantThreshold \in Nat \ {0} /\ CollusionMaxHop \in Nat /\ MaxCalls \in Nat
<1>1. /\ MaxScore \in Nat \ {0} /\ Imported \subseteq Int \ {NoScore}
      /\ RecidivismMax \in Nat /\ WantThreshold \in Nat \ {0} /\ CollusionMaxHop \in Nat /\ MaxCalls \in Nat
  BY ReputationAssumption
<1>2. MinScore \in Int /\ MinScore = -MaxScore /\ NoScore \in Int /\ NoScore > MaxScore
  BY <1>1 DEF MinScore, NoScore
<1> QED
  BY <1>1, <1>2 DEF RatedScores

LEMMA Clamps == ASSUME NEW x \in Int PROVE Clamp(x) \in RatedScores /\ Clamp(x) \in Int
<1>1. Clamp(x) \in MinScore..MaxScore
  BY ScoreBounds DEF Clamp, Least, Greatest
<1> QED
  BY <1>1, ScoreBounds DEF RatedScores

LEMMA RedeemedTyped ==
  ASSUME NEW row \in RatedRow, NEW gain \in Nat
  PROVE  Redeemed(row, gain) \in RatedRow /\ Redeemed(row, gain).score = row.score
<1>1. PICK credit : credit = row.credit + gain
  OBVIOUS
<1>2. PICK streak : streak = Least(row.streak, credit)
  OBVIOUS
<1>3. PICK bad : bad = Least(row.bad, credit - streak)
  OBVIOUS
<1>4. row.streak \in Nat /\ row.credit \in Nat /\ row.bad \in Nat
  BY DEF RatedRow
<1>5. credit \in Nat
  BY <1>1, <1>4
<1>6. streak \in Nat /\ row.streak - streak \in Nat /\ credit - streak \in Nat
  BY <1>2, <1>4, <1>5 DEF Least
<1>7. bad \in Nat /\ row.bad - bad \in Nat /\ credit - streak - bad \in Nat
  BY <1>3, <1>4, <1>5, <1>6 DEF Least
<1>8. PICK a, b, c : a = row.streak - streak /\ b = row.bad - bad /\ c = credit - streak - bad
  OBVIOUS
<1>9. Redeemed(row, gain) = [row EXCEPT !.streak = a, !.bad = b, !.credit = c]
  BY <1>1, <1>2, <1>3, <1>8 DEF Redeemed
<1>10. a \in Nat /\ b \in Nat /\ c \in Nat
  BY <1>6, <1>7, <1>8
<1> QED
  BY <1>9, <1>10 DEF RatedRow

LEMMA AdjustedTyped ==
  ASSUME NEW row \in RatedRow, NEW delta \in Int
  PROVE  Adjusted(row, delta) \in RatedRow
<1>1. PICK known : known = [row EXCEPT !.known = TRUE]
  OBVIOUS
<1>2. known \in RatedRow /\ known.streak = row.streak /\ known.score = row.score
  BY <1>1 DEF RatedRow
<1>3. row.score \in Int /\ row.streak \in Nat
  BY ScoreBounds DEF RatedRow
<1>4. CASE delta < 0
  <2>1. PICK k : k = Least(RecidivismMax, row.streak + 2)
    OBVIOUS
  <2>2. k \in Int
    BY <1>3, <2>1, ScoreBounds DEF Least
  <2>3. delta * k \in Int
    BY <2>2
  <2>4. PICK s, t : s = Clamp(known.score + delta * k) /\ t = known.streak + 1
    OBVIOUS
  <2>5. known.score + delta * k \in Int
    BY <1>2, <1>3, <2>3
  <2>6. s \in RatedScores /\ t \in Nat
    BY <1>2, <1>3, <2>4, <2>5, Clamps
  <2>7. Adjusted(row, delta) = [known EXCEPT !.streak = t, !.score = s]
    BY <1>1, <1>2, <1>4, <2>1, <2>4 DEF Adjusted
  <2> QED
    BY <1>2, <2>6, <2>7 DEF RatedRow
<1>5. CASE delta > 0
  <2>1. PICK red : red = Redeemed(known, delta)
    OBVIOUS
  <2>2. red \in RatedRow /\ red.score = row.score
    BY <1>2, <1>5, <2>1, RedeemedTyped
  <2>3. PICK s : s = Clamp(red.score + delta)
    OBVIOUS
  <2>4. s \in RatedScores
    BY <1>3, <2>2, <2>3, Clamps
  <2>5. Adjusted(row, delta) = [red EXCEPT !.score = s]
    BY <1>1, <1>5, <2>1, <2>3 DEF Adjusted
  <2> QED
    BY <2>2, <2>4, <2>5 DEF RatedRow
<1>6. CASE delta = 0
  <2>1. Adjusted(row, delta) = known
    BY <1>1, <1>6 DEF Adjusted
  <2> QED
    BY <1>2, <2>1
<1> QED
  BY <1>4, <1>5, <1>6

RowsTyped == byNodeHash \in [Rated -> RatedRow]

LEMMA PenaltyTyped ==
  ASSUME RowsTyped, NEW sender \in Rated, NEW verified \in BOOLEAN
  PROVE  SlashPenalty(sender, verified) \in Int
<1>1. byNodeHash[sender].score \in Int
  BY ScoreBounds DEF RowsTyped, RatedRow
<1>2. CASE verified \/ byNodeHash[sender].score <= 0
  BY <1>2 DEF SlashPenalty
<1>3. CASE ~verified /\ ~(byNodeHash[sender].score <= 0)
  <2> DEFINE Positive == {o \in Rated : byNodeHash[o].score > 0}
             best == {byNodeHash[n].score : n \in Positive}
  <2>1. best \subseteq Nat /\ \A s \in best : s > 0
    <3>1. \A o \in Positive : byNodeHash[o].score \in Int /\ byNodeHash[o].score > 0
      BY ScoreBounds DEF RowsTyped, RatedRow
    <3> QED
      BY <3>1
  <2>2. best # {}
    <3>1. sender \in Positive
      BY <1>1, <1>3
    <3> HIDE DEF Positive
    <3>2. byNodeHash[sender].score \in best
      BY <3>1
    <3> QED
      BY <3>2
  <2>3. IsFiniteSet(best)
    <3>1. IsFiniteSet(Positive)
      BY ReputationAssumption, FS_Subset
    <3> DEFINE f == [n \in Positive |-> byNodeHash[n].score]
    <3> HIDE DEF Positive
    <3>2. f \in [Positive -> best] /\ \A s \in best : \E n \in Positive : f[n] = s
      OBVIOUS
    <3>3. f \in Surjection(Positive, best)
      BY <3>2 DEF Surjection
    <3> HIDE DEF f, best
    <3> QED
      BY <3>1, <3>3, FS_Surjection
  <2>4. SlashPenalty(sender, verified) =
          byNodeHash[sender].score \div Clamp(CHOOSE s \in best : \A r \in best : r <= s)
    BY <1>3 DEF SlashPenalty
  <2> HIDE DEF best
  <2>5. \E s \in best : \A r \in best : r <= s
    BY <2>1, <2>2, <2>3, GreatestNatural
  <2>6. PICK top : top = CHOOSE s \in best : \A r \in best : r <= s
    OBVIOUS
  <2>7. top \in Nat /\ top > 0
    BY <2>1, <2>5, <2>6
  <2>8. Clamp(top) \in Nat /\ Clamp(top) > 0
    BY <2>7, ScoreBounds DEF Clamp, Least, Greatest
  <2>9. PICK c : c = Clamp(top)
    OBVIOUS
  <2>10. byNodeHash[sender].score \div c \in Int
    BY <1>1, <2>8, <2>9
  <2> QED
    BY <2>4, <2>6, <2>9, <2>10
<1> QED
  BY <1>2, <1>3

LEMMA BlamedTyped ==
  ASSUME NEW rows \in [Rated -> RatedRow], NEW nodes
  PROVE  Blamed(rows, nodes) \in [Rated -> RatedRow]
<1>1. ASSUME NEW n \in Rated PROVE Blamed(rows, nodes)[n] \in RatedRow
  <2>1. CASE n \notin nodes
    BY <2>1 DEF Blamed
  <2>2. CASE n \in nodes
    <3>1. PICK b : b = rows[n].bad + 1
      OBVIOUS
    <3>2. PICK row : row = [rows[n] EXCEPT !.bad = b]
      OBVIOUS
    <3>3. rows[n] \in RatedRow /\ b \in Nat
      BY <3>1 DEF RatedRow
    <3>4. row \in RatedRow /\ row.bad = b
      BY <3>2, <3>3 DEF RatedRow
    <3>5. Blamed(rows, nodes)[n] = Adjusted(row, -row.bad)
      BY <2>2, <3>1, <3>2 DEF Blamed
    <3>6. -row.bad \in Int
      BY <3>3, <3>4
    <3> QED
      BY <3>4, <3>5, <3>6, AdjustedTyped
  <2> QED
    BY <2>1, <2>2
<1>2. Blamed(rows, nodes) = [n \in Rated |-> Blamed(rows, nodes)[n]]
  BY DEF Blamed
<1> QED
  BY <1>1, <1>2

\* What collusion leaves of the rows are rows: its recursion has a solution in rows.
LEMMA DecayedTyped ==
  ASSUME RowsTyped, NEW target \in Rated
  PROVE  Decayed(target) \in [Rated -> RatedRow]
<1> DEFINE T == [Rated -> RatedRow]
           n == CollusionMaxHop
           Next(rows, i) == Blamed(rows, Upstream(target)[i])
           Solves(g, k) == g = [i \in 0..k |-> IF i = 0 THEN byNodeHash ELSE Next(g[i - 1], i)]
           Unsolved == {k \in 0..n : ~\E g : Solves(g, k)}
<1>1. Decayed(target) = (CHOOSE g : Solves(g, n))[n]
  BY DEF Decayed
<1>2. n \in Nat /\ byNodeHash \in T /\ \A rows \in T, i \in 1..n : Next(rows, i) \in T
  BY ScoreBounds, BlamedTyped DEF RowsTyped
<1> HIDE DEF n, Next, T
<1>3. Unsolved = {}
  <2> SUFFICES ASSUME Unsolved # {} PROVE FALSE
    OBVIOUS
  <2>1. PICK k \in Unsolved : \A m \in Unsolved : k <= m
    <3>1. Unsolved \subseteq Nat
      OBVIOUS
    <3> HIDE DEF Unsolved
    <3> QED
      BY <3>1, LeastNatural
  <2>2. k \in 0..n /\ ~\E g : Solves(g, k)
    BY <2>1
  <2>3. CASE k = 0
    <3> DEFINE g == [i \in 0..0 |-> byNodeHash]
    <3>1. g = [i \in 0..0 |-> IF i = 0 THEN byNodeHash ELSE Next(g[i - 1], i)]
      <4>1. \A i \in 0..0 : i = 0
        OBVIOUS
      <4> QED
        BY <4>1
    <3>2. Solves(g, k)
      BY <2>3, <3>1
    <3> QED
      BY <2>2, <3>2
  <2>4. CASE k # 0
    <3>1. k \in 1..n /\ k - 1 \in 0..n /\ ~(k <= k - 1)
      BY <1>2, <2>2, <2>4
    <3>2. k - 1 \notin Unsolved
      BY <2>1, <3>1
    <3>3. PICK g : Solves(g, k - 1)
      BY <3>1, <3>2
    <3> DEFINE h == [i \in 0..k |-> IF i = k THEN Next(g[k - 1], k) ELSE g[i]]
    <3>4. \A i \in 0..k : h[i] = IF i = k THEN Next(g[k - 1], k) ELSE g[i]
      OBVIOUS
    <3>5. \A i \in 0..(k - 1) : g[i] = IF i = 0 THEN byNodeHash ELSE Next(g[i - 1], i)
      BY <3>3
    <3>6. ASSUME NEW i \in 0..k
          PROVE  h[i] = IF i = 0 THEN byNodeHash ELSE Next(h[i - 1], i)
      <4>1. CASE i = k
        <5>1. k - 1 \in 0..k /\ k - 1 # k /\ k \in 0..k
          BY <2>2, <3>1
        <5>2. h[k] = Next(g[k - 1], k) /\ h[k - 1] = g[k - 1]
          BY <3>4, <5>1
        <5> HIDE DEF h
        <5> QED
          BY <2>4, <4>1, <5>2
      <4>2. CASE i # k
        <5>1. i \in 0..(k - 1) /\ (i # 0 => i - 1 \in 0..k /\ i - 1 # k)
          BY <2>2, <4>2
        <5>2. h[i] = g[i] /\ (i # 0 => h[i - 1] = g[i - 1])
          BY <3>4, <4>2, <5>1
        <5> HIDE DEF h
        <5> QED
          BY <3>5, <5>1, <5>2
      <4> QED
        BY <4>1, <4>2
    <3>7. h = [i \in 0..k |-> IF i = 0 THEN byNodeHash ELSE Next(h[i - 1], i)]
      <4> DEFINE u == [i \in 0..k |-> IF i = 0 THEN byNodeHash ELSE Next(h[i - 1], i)]
      <4>1. \A i \in 0..k : h[i] = u[i]
        BY <3>6
      <4>2. h = [i \in 0..k |-> h[i]] /\ u = [i \in 0..k |-> u[i]]
        OBVIOUS
      <4> HIDE DEF h, u
      <4>3. h = u
        BY <4>1, <4>2
      <4> QED
        BY <4>3 DEF u
    <3> QED
      BY <2>2, <3>7
  <2> QED
    BY <2>3, <2>4
<1>4. 0 \in 0..n /\ n \in 0..n
  BY <1>2
<1>5. PICK x : Solves(x, n) /\ x = CHOOSE y : Solves(y, n)
  <2>1. \E g : Solves(g, n)
    BY <1>3, <1>4
  <2> QED
    BY <2>1
<1>6. \A i \in 0..n : x[i] = IF i = 0 THEN byNodeHash ELSE Next(x[i - 1], i)
  BY <1>5
<1> DEFINE Bad == {k \in 0..n : x[k] \notin T}
<1>7. Bad = {}
  <2> SUFFICES ASSUME Bad # {} PROVE FALSE
    OBVIOUS
  <2>1. PICK k \in Bad : \A m \in Bad : k <= m
    <3>1. Bad \subseteq Nat
      OBVIOUS
    <3> HIDE DEF Bad
    <3> QED
      BY <3>1, LeastNatural
  <2>2. k # 0
    <3>1. x[0] = byNodeHash
      BY <1>4, <1>6
    <3> QED
      BY <1>2, <2>1, <3>1
  <2>3. k \in 1..n /\ k - 1 \in 0..n /\ ~(k <= k - 1)
    BY <1>2, <2>1, <2>2
  <2>4. x[k - 1] \in T
    BY <2>1, <2>3
  <2> QED
    BY <1>2, <1>6, <2>1, <2>2, <2>3, <2>4
<1>8. Decayed(target) = x[n]
  BY <1>1, <1>5
<1> QED
  BY <1>4, <1>7, <1>8 DEF T

-----------------------------------------------------------------------------
(* The calls that rate. *)

RatedCalls == [kind : Mutators \cup {"unlock"}, who : Rated, restore : RatedScores \cup {NoScore}]

\* The table, the windows and the queue keep their shape; a lock remembers a score, and
\* nothing else does.
TableTyped ==
  /\ RowsTyped
  /\ wantHits \in [Rated -> 0..(WantThreshold - 1)]
  /\ bumpSeen \subseteq Rated

LocksTyped ==
  /\ lockedMax \subseteq Rated /\ lockedPrev \in [Rated -> RatedScores \cup {NoScore}]
  /\ \A n \in Rated : lockedPrev[n] = NoScore <=> n \notin lockedMax

QueueTyped ==
  /\ mutations \in Seq(RatedCalls) /\ asked \in 0..MaxCalls /\ Len(mutations) <= asked

RepInv == TableTyped /\ LocksTyped /\ QueueTyped

LEMMA RepInit == InitReputation => RepInv
<1> SUFFICES ASSUME InitReputation PROVE RepInv
  OBVIOUS
<1>1. NoRow \in RatedRow
  BY ScoreBounds DEF NoRow, RatedRow, RatedScores
<1>2. TableTyped
  BY <1>1, ScoreBounds DEF InitReputation, TableTyped, RowsTyped
<1>3. Range(<<>>) = {} /\ Len(<<>>) = 0 /\ <<>> \in Seq(RatedCalls)
  <2>1. Range(<<>>) = {}
    BY DEF Range
  <2> QED
    BY <2>1
<1>4. LocksTyped
  BY DEF InitReputation, LocksTyped
<1>5. QueueTyped
  BY <1>3, ScoreBounds DEF InitReputation, QueueTyped
<1> QED
  BY <1>2, <1>4, <1>5 DEF RepInv

LEMMA MutateInv ==
  ASSUME RepInv, NEW n \in Rated, NEW kind \in Mutators, Mutate(kind, n)
  PROVE  RepInv'
<1> DEFINE c == [kind |-> kind, who |-> n, restore |-> NoScore]
<1>1. /\ asked < MaxCalls /\ asked' = asked + 1 /\ mutations' = Append(mutations, c)
      /\ UNCHANGED <<byNodeHash, wantHits, bumpSeen, lockedMax, lockedPrev>>
  BY DEF Mutate
<1>2. c \in RatedCalls /\ c.kind = kind /\ c.who = n /\ c.restore = NoScore
  BY DEF RatedCalls
<1>3. mutations \in Seq(RatedCalls)
  BY DEF RepInv, QueueTyped
<1> HIDE DEF c
<1>4. /\ mutations' \in Seq(RatedCalls) /\ Len(mutations') = Len(mutations) + 1 /\ Len(mutations) \in Nat
      /\ \A x : x \in Range(mutations') <=> x \in Range(mutations) \/ x = c
  BY <1>1, <1>2, <1>3, RangeAppends
<1>7. QueueTyped'
  <2>1. asked' \in 0..MaxCalls /\ Len(mutations') <= asked'
    BY <1>1, <1>4, ScoreBounds DEF RepInv, QueueTyped
  <2> QED
    BY <1>2, <1>4, <2>1 DEF RepInv, QueueTyped
<1> QED
  BY <1>1, <1>7 DEF RepInv, TableTyped, RowsTyped, LocksTyped

LEMMA UnlockInv ==
  ASSUME RepInv, NEW n \in Rated, Unlock(n)
  PROVE  RepInv'
<1> DEFINE c == [kind |-> "unlock", who |-> n, restore |-> lockedPrev[n]]
<1>1. /\ asked < MaxCalls /\ asked' = asked + 1 /\ mutations' = Append(mutations, c)
      /\ lockedMax' = lockedMax \ {n} /\ lockedPrev' = [lockedPrev EXCEPT ![n] = NoScore]
      /\ UNCHANGED <<byNodeHash, wantHits, bumpSeen>>
  BY DEF Unlock
<1>2. c \in RatedCalls /\ c.kind = "unlock" /\ c.who = n /\ c.restore = lockedPrev[n]
  BY DEF RatedCalls, RepInv, LocksTyped
<1>3. mutations \in Seq(RatedCalls)
  BY DEF RepInv, QueueTyped
<1> HIDE DEF c
<1>4. /\ mutations' \in Seq(RatedCalls) /\ Len(mutations') = Len(mutations) + 1 /\ Len(mutations) \in Nat
      /\ \A x : x \in Range(mutations') <=> x \in Range(mutations) \/ x = c
  BY <1>1, <1>2, <1>3, RangeAppends
<1>7. QueueTyped'
  <2>1. asked' \in 0..MaxCalls /\ Len(mutations') <= asked'
    BY <1>1, <1>4, ScoreBounds DEF RepInv, QueueTyped
  <2> QED
    BY <1>2, <1>4, <2>1 DEF RepInv, QueueTyped
<1>10. LocksTyped'
  BY <1>1 DEF RepInv, LocksTyped
<1> QED
  BY <1>1, <1>7, <1>10 DEF RepInv, TableTyped, RowsTyped

LEMMA WindowsInv ==
  ASSUME RepInv, WindowsPass
  PROVE  RepInv'
<1>1. 0 \in 0..(WantThreshold - 1)
  BY ScoreBounds
<1>2. wantHits' \in [Rated -> 0..(WantThreshold - 1)] /\ bumpSeen' \subseteq Rated
  BY <1>1 DEF WindowsPass
<1>3. UNCHANGED <<byNodeHash, lockedMax, lockedPrev, mutations, asked>>
  BY DEF WindowsPass
<1> QED
  BY <1>2, <1>3 DEF RepInv, TableTyped, RowsTyped, LocksTyped, QueueTyped

\* A lock taken when what it is for has no score to restore.
LEMMA LockTaken ==
  ASSUME LocksTyped, TableTyped, NEW n \in Rated, lockedMax' = lockedMax \cup {n},
         lockedPrev' = IF Remembers(n) THEN [lockedPrev EXCEPT ![n] = byNodeHash[n].score] ELSE lockedPrev
  PROVE  LocksTyped'
<1>1. byNodeHash[n].score \in RatedScores /\ byNodeHash[n].score # NoScore
  BY ScoreBounds DEF TableTyped, RowsTyped, RatedRow
<1>2. CASE n \in lockedMax
  BY <1>2 DEF Remembers, LocksTyped
<1>3. CASE n \notin lockedMax
  BY <1>1, <1>3 DEF Remembers, LocksTyped
<1> QED
  BY <1>2, <1>3

LEMMA CrashInv ==
  ASSUME RepInv, CrashReputation
  PROVE  RepInv'
<1>1. /\ mutations # <<>> /\ mutations' = <<>>
      /\ UNCHANGED <<byNodeHash, wantHits, bumpSeen, asked>>
  BY DEF CrashReputation
<1>2. PICK m : m = Head(mutations)
  OBVIOUS
<1>3. m \in RatedCalls /\ m \in Range(mutations) /\ Len(mutations) \in Nat
  BY <1>1, <1>2, RangeTails DEF RepInv, QueueTyped
<1>4. m.who \in Rated
  BY <1>3 DEF RatedCalls
<1>5. Range(<<>>) = {} /\ Len(<<>>) = 0 /\ <<>> \in Seq(RatedCalls)
  <2>1. Range(<<>>) = {}
    BY DEF Range
  <2> QED
    BY <2>1
<1>6. QueueTyped'
  <2>1. asked \in Nat
    BY DEF RepInv, QueueTyped
  <2> QED
    BY <1>1, <1>5, <2>1 DEF RepInv, QueueTyped
<1>8. LocksTyped'
  <2>1. CASE UNCHANGED <<lockedMax, lockedPrev>>
    BY <2>1 DEF RepInv, LocksTyped
  <2>2. CASE /\ lockedMax' = lockedMax \cup {m.who}
             /\ lockedPrev' = IF Remembers(m.who) THEN [lockedPrev EXCEPT ![m.who] = byNodeHash[m.who].score]
                              ELSE lockedPrev
    BY <1>4, <2>2, LockTaken DEF RepInv
  <2> QED
    BY <1>2, <2>1, <2>2 DEF CrashReputation
<1> QED
  BY <1>1, <1>6, <1>8 DEF RepInv, TableTyped, RowsTyped

-----------------------------------------------------------------------------
(* Rows that change. *)

\* Rows with what one row becomes.
LEMMA SetRowTyped ==
  ASSUME TableTyped, NEW n \in Rated, NEW row \in RatedRow, SetRow(n, row)
  PROVE  RowsTyped' /\ byNodeHash'[n] = row
BY DEF TableTyped, RowsTyped, SetRow

LEMMA RepRowTyped ==
  ASSUME NEW row \in RatedRow
  PROVE  /\ RepRow(row) \in RatedRow
         /\ \A anomaly \in BOOLEAN : Observed(row, anomaly) \in RatedRow
         /\ [RepRow(row) EXCEPT !.score = 0, !.streak = 0] \in RatedRow
<1>1. RepRow(row) \in RatedRow
  BY DEF RepRow, RatedRow
<1>2. PICK r : r = RepRow(row)
  OBVIOUS
<1>3. ASSUME NEW anomaly \in BOOLEAN PROVE Observed(row, anomaly) \in RatedRow
  <2>1. PICK b \in BOOLEAN : b = (r.quarantined \/ anomaly)
    OBVIOUS
  <2>2. Observed(row, anomaly) = [r EXCEPT !.quarantined = b]
    BY <1>2, <2>1 DEF Observed
  <2>3. r \in RatedRow
    BY <1>1, <1>2
  <2> QED
    BY <2>2, <2>3 DEF RatedRow
<1>4. 0 \in RatedScores
  BY ScoreBounds DEF RatedScores
<1>5. [r EXCEPT !.score = 0, !.streak = 0] \in RatedRow
  BY <1>1, <1>2, <1>4 DEF RatedRow
<1> QED
  BY <1>1, <1>2, <1>3, <1>5

\* What a mutation without locks does keeps the table.
LEMMA MutatesTable ==
  ASSUME TableTyped, NEW kind, NEW n \in Rated, NEW restore \in RatedScores \cup {NoScore}, Mutates(kind, n, restore)
  PROVE  TableTyped' /\ UNCHANGED <<lockedMax, lockedPrev>>
<1>1. byNodeHash[n] \in RatedRow /\ wantHits[n] \in 0..(WantThreshold - 1)
  BY DEF TableTyped, RowsTyped
<1>2. Adjusted(byNodeHash[n], -1) \in RatedRow /\ Adjusted(byNodeHash[n], 1) \in RatedRow
  BY <1>1, AdjustedTyped
<1>3. CASE /\ kind \in {"relay", "serve", "fail"}
           /\ SetRow(n, CASE kind = "fail" -> Adjusted(byNodeHash[n], -1)
                          [] kind = "relay" /\ n \in bumpSeen -> byNodeHash[n]
                          [] OTHER -> Adjusted(byNodeHash[n], 1))
           /\ bumpSeen' = IF kind = "relay" THEN bumpSeen \cup {n} ELSE bumpSeen
           /\ UNCHANGED <<wantHits, lockedMax, lockedPrev>>
  <2>1. PICK row : row = CASE kind = "fail" -> Adjusted(byNodeHash[n], -1)
                           [] kind = "relay" /\ n \in bumpSeen -> byNodeHash[n]
                           [] OTHER -> Adjusted(byNodeHash[n], 1)
    OBVIOUS
  <2>2. row \in RatedRow
    <3>1. CASE kind = "fail"
      BY <1>2, <2>1, <3>1
    <3>2. CASE kind # "fail" /\ kind = "relay" /\ n \in bumpSeen
      BY <1>1, <2>1, <3>2
    <3>3. CASE kind # "fail" /\ ~(kind = "relay" /\ n \in bumpSeen)
      BY <1>2, <2>1, <3>3
    <3> QED
      BY <3>1, <3>2, <3>3
  <2>3. SetRow(n, row)
    BY <1>3, <2>1
  <2>4. RowsTyped'
    BY <2>2, <2>3, SetRowTyped
  <2>5. bumpSeen' \subseteq Rated
    BY <1>3 DEF TableTyped
  <2> QED
    BY <1>3, <2>4, <2>5 DEF TableTyped
<1>4. CASE /\ kind = "want"
           /\ SetRow(n, IF wantHits[n] + 1 >= WantThreshold THEN Adjusted(byNodeHash[n], -1) ELSE byNodeHash[n])
           /\ wantHits' = [wantHits EXCEPT ![n] = (@ + 1) % WantThreshold]
           /\ UNCHANGED <<bumpSeen, lockedMax, lockedPrev>>
  <2>1. PICK row : row = IF wantHits[n] + 1 >= WantThreshold THEN Adjusted(byNodeHash[n], -1) ELSE byNodeHash[n]
    OBVIOUS
  <2>2. row \in RatedRow
    BY <1>1, <1>2, <2>1
  <2>3. RowsTyped'
    BY <1>4, <2>1, <2>2, SetRowTyped
  <2>4. PICK w : w = (wantHits[n] + 1) % WantThreshold
    OBVIOUS
  <2>5. w \in 0..(WantThreshold - 1)
    <3>1. PICK v, t : v = wantHits[n] + 1 /\ t = WantThreshold
      OBVIOUS
    <3>2. v \in Nat /\ t \in Nat /\ t > 0
      BY <1>1, <3>1, ScoreBounds
    <3>3. v % t \in 0..(t - 1)
      BY <3>2
    <3> QED
      BY <2>4, <3>1, <3>3
  <2>6. wantHits' \in [Rated -> 0..(WantThreshold - 1)]
    BY <1>4, <2>4, <2>5 DEF TableTyped
  <2> QED
    BY <1>4, <2>3, <2>6 DEF TableTyped
<1>5. CASE /\ kind \in {"rate", "observe"}
           /\ \E anomaly \in BOOLEAN :
                SetRow(n, Observed(IF kind = "rate" THEN Adjusted(byNodeHash[n], -1) ELSE byNodeHash[n], anomaly))
           /\ UNCHANGED <<wantHits, bumpSeen, lockedMax, lockedPrev>>
  <2>1. PICK row : row = IF kind = "rate" THEN Adjusted(byNodeHash[n], -1) ELSE byNodeHash[n]
    OBVIOUS
  <2>2. PICK anomaly \in BOOLEAN : SetRow(n, Observed(row, anomaly))
    BY <1>5, <2>1
  <2>3. row \in RatedRow
    BY <1>1, <1>2, <2>1
  <2>4. PICK seen : seen = Observed(row, anomaly)
    OBVIOUS
  <2>5. seen \in RatedRow
    BY <2>3, <2>4, RepRowTyped, Zenon
  <2>6. RowsTyped'
    BY <2>2, <2>4, <2>5, SetRowTyped
  <2> QED
    BY <1>5, <2>6 DEF TableTyped
<1>6. CASE /\ kind = "slash"
           /\ \E sender \in Rated, verified \in BOOLEAN :
                SetRow(n, Adjusted(byNodeHash[n], -SlashPenalty(sender, verified)))
           /\ UNCHANGED <<wantHits, bumpSeen, lockedMax, lockedPrev>>
  <2>1. PICK sender \in Rated, verified \in BOOLEAN :
          SetRow(n, Adjusted(byNodeHash[n], -SlashPenalty(sender, verified)))
    BY <1>6
  <2>2. SlashPenalty(sender, verified) \in Int
    BY PenaltyTyped DEF TableTyped
  <2>3. PICK d : d = -SlashPenalty(sender, verified)
    OBVIOUS
  <2>4. d \in Int
    BY <2>2, <2>3
  <2>5. SetRow(n, Adjusted(byNodeHash[n], d)) /\ Adjusted(byNodeHash[n], d) \in RatedRow
    BY <1>1, <2>1, <2>3, <2>4, AdjustedTyped
  <2>6. RowsTyped'
    BY <2>5, SetRowTyped
  <2> QED
    BY <1>6, <2>6 DEF TableTyped
<1>7. CASE /\ \/ kind = "collusion" /\ byNodeHash' = Decayed(n)
              \/ kind = "reset" /\ SetRow(n, [RepRow(byNodeHash[n]) EXCEPT !.score = 0, !.streak = 0])
              \/ /\ kind = "seed"
                 /\ \E introducer \in Rated :
                      SetRow(n, IF byNodeHash[n].known THEN byNodeHash[n]
                                ELSE [NoRow EXCEPT !.known = TRUE,
                                                   !.score = Clamp(byNodeHash[introducer].score \div 2)])
           /\ UNCHANGED <<wantHits, bumpSeen, lockedMax, lockedPrev>>
  <2>0. kind \in {"collusion", "reset", "seed"} /\ UNCHANGED <<wantHits, bumpSeen, lockedMax, lockedPrev>>
    BY <1>7, Zenon
  <2>1. CASE kind = "collusion"
    <3>1. byNodeHash' = Decayed(n)
      BY <1>7, <2>1, Zenon
    <3>2. RowsTyped'
      BY <3>1, DecayedTyped DEF RowsTyped, TableTyped
    <3> QED
      BY <2>0, <2>1, <3>2 DEF TableTyped
  <2>2. CASE kind = "reset"
    <3>1. SetRow(n, [RepRow(byNodeHash[n]) EXCEPT !.score = 0, !.streak = 0])
      BY <1>7, <2>2, Zenon
    <3>3. PICK row : row = [RepRow(byNodeHash[n]) EXCEPT !.score = 0, !.streak = 0]
      OBVIOUS
    <3>4. row \in RatedRow
      BY <1>1, <3>3, RepRowTyped, Zenon
    <3>2. RowsTyped'
      BY <3>1, <3>3, <3>4, SetRowTyped
    <3> QED
      BY <2>0, <2>2, <3>2 DEF TableTyped
  <2>3. CASE kind = "seed"
    <3>1. PICK introducer \in Rated :
            SetRow(n, IF byNodeHash[n].known THEN byNodeHash[n]
                      ELSE [NoRow EXCEPT !.known = TRUE, !.score = Clamp(byNodeHash[introducer].score \div 2)])
      BY <1>7, <2>3, Zenon
    <3>2. PICK h, s : h = byNodeHash[introducer].score \div 2 /\ s = Clamp(byNodeHash[introducer].score \div 2)
      OBVIOUS
    <3>3. byNodeHash[introducer].score \in Int
      BY ScoreBounds DEF TableTyped, RowsTyped, RatedRow
    <3>4. h \in Int
      BY <3>2, <3>3
    <3>5. s \in RatedScores
      BY <3>2, <3>4, Clamps
    <3>6. [NoRow EXCEPT !.known = TRUE, !.score = s] \in RatedRow
      BY <3>5 DEF NoRow, RatedRow
    <3>7. PICK row : row = IF byNodeHash[n].known THEN byNodeHash[n] ELSE [NoRow EXCEPT !.known = TRUE, !.score = s]
      OBVIOUS
    <3>8. row \in RatedRow
      BY <1>1, <3>6, <3>7
    <3>9. SetRow(n, row)
      BY <3>1, <3>2, <3>7
    <3>10. RowsTyped'
      BY <3>8, <3>9, SetRowTyped
    <3> QED
      BY <2>0, <2>3, <3>10 DEF TableTyped
  <2> QED
    BY <2>0, <2>1, <2>2, <2>3
<1>8. CASE /\ kind = "unlock"
           /\ SetRow(n, IF restore = NoScore THEN byNodeHash[n]
                        ELSE [byNodeHash[n] EXCEPT !.known = TRUE, !.score = restore])
           /\ UNCHANGED <<wantHits, bumpSeen, lockedMax, lockedPrev>>
  <2>1. PICK row : row = IF restore = NoScore THEN byNodeHash[n]
                         ELSE [byNodeHash[n] EXCEPT !.known = TRUE, !.score = restore]
    OBVIOUS
  <2>2. row \in RatedRow
    BY <1>1, <2>1 DEF RatedRow
  <2>3. RowsTyped' /\ byNodeHash'[n] = row
    BY <1>8, <2>1, <2>2, SetRowTyped
  <2> QED
    BY <1>8, <2>2, <2>3 DEF TableTyped
<1> QED
  BY <1>3, <1>4, <1>5, <1>6, <1>7, <1>8, Zenon DEF Mutates

\* A mutation that ends with the locks keeps the table and the locks, and takes a lock at most.
LEMMA LocksApplied ==
  ASSUME NEW rows \in [Rated -> RatedRow], NEW locks
  PROVE  WithLocks(rows, locks) \in [Rated -> RatedRow]
<1>1. MaxScore \in RatedScores
  BY ScoreBounds DEF RatedScores
<1>2. ASSUME NEW o \in Rated PROVE WithLocks(rows, locks)[o] \in RatedRow
  <2>1. PICK r : r = [rows[o] EXCEPT !.known = TRUE, !.score = MaxScore]
    OBVIOUS
  <2>2. rows[o] \in RatedRow
    OBVIOUS
  <2>3. r \in RatedRow
    BY <1>1, <2>1, <2>2 DEF RatedRow
  <2>4. WithLocks(rows, locks)[o] = IF o \in locks THEN r ELSE rows[o]
    BY <2>1, Zenon DEF WithLocks
  <2> QED
    BY <2>2, <2>3, <2>4
<1>3. WithLocks(rows, locks) = [o \in Rated |-> WithLocks(rows, locks)[o]]
  BY DEF WithLocks
<1> QED
  BY <1>2, <1>3

LEMMA MutatesLocks ==
  ASSUME TableTyped, LocksTyped, NEW kind, NEW n \in Rated, MutatesWithLocks(kind, n)
  PROVE  TableTyped' /\ LocksTyped'
<1>1. CASE /\ kind = "table"
           /\ \E s \in Imported :
                byNodeHash' = WithLocks([byNodeHash EXCEPT ![n] = [@ EXCEPT !.known = TRUE, !.score = s]], lockedMax)
           /\ UNCHANGED <<wantHits, bumpSeen, lockedMax, lockedPrev>>
  <2>1. PICK s \in Imported :
          byNodeHash' = WithLocks([byNodeHash EXCEPT ![n] = [@ EXCEPT !.known = TRUE, !.score = s]], lockedMax)
    BY <1>1, Zenon
  <2>2. [byNodeHash[n] EXCEPT !.known = TRUE, !.score = s] \in RatedRow
    BY DEF TableTyped, RowsTyped, RatedRow, RatedScores
  <2>3. PICK rows : rows = [byNodeHash EXCEPT ![n] = [@ EXCEPT !.known = TRUE, !.score = s]]
    OBVIOUS
  <2>4. rows \in [Rated -> RatedRow]
    BY <2>2, <2>3 DEF TableTyped, RowsTyped
  <2>5. RowsTyped'
    BY <2>1, <2>3, <2>4, LocksApplied DEF RowsTyped
  <2> QED
    BY <1>1, <2>5 DEF TableTyped, LocksTyped
<1>2. CASE /\ kind = "lock"
           /\ lockedMax' = lockedMax \cup {n}
           /\ lockedPrev' = IF Remembers(n) THEN [lockedPrev EXCEPT ![n] = byNodeHash[n].score] ELSE lockedPrev
           /\ byNodeHash' = WithLocks(byNodeHash, lockedMax')
           /\ UNCHANGED <<wantHits, bumpSeen>>
  <2>1. RowsTyped'
    BY <1>2, LocksApplied DEF RowsTyped, TableTyped
  <2>2. TableTyped'
    BY <1>2, <2>1 DEF TableTyped
  <2>3. LocksTyped'
    BY <1>2, LockTaken
  <2> QED
    BY <2>2, <2>3
<1> QED
  BY <1>1, <1>2, Zenon DEF MutatesWithLocks

LEMMA RunInv ==
  ASSUME RepInv, RunMutation
  PROVE  RepInv'
<1>1. PICK m : m = Head(mutations)
  OBVIOUS
<1>2. /\ mutations # <<>> /\ mutations' = Tail(mutations) /\ UNCHANGED asked
      /\ Mutates(m.kind, m.who, m.restore) \/ MutatesWithLocks(m.kind, m.who)
  BY <1>1 DEF RunMutation
<1>3. /\ mutations' \in Seq(RatedCalls) /\ Len(mutations') = Len(mutations) - 1 /\ Len(mutations) \in Nat \ {0}
      /\ Range(mutations') \subseteq Range(mutations) /\ m \in Range(mutations) /\ m \in RatedCalls
  BY <1>1, <1>2, RangeTails DEF RepInv, QueueTyped
<1>4. m.who \in Rated /\ m.restore \in RatedScores \cup {NoScore}
  BY <1>3 DEF RatedCalls
<1>5. TableTyped' /\ LocksTyped'
  <2>1. CASE Mutates(m.kind, m.who, m.restore)
    <3>1. TableTyped' /\ UNCHANGED <<lockedMax, lockedPrev>>
      BY <1>4, <2>1, MutatesTable DEF RepInv
    <3> QED
      BY <3>1 DEF RepInv, LocksTyped
  <2>2. CASE MutatesWithLocks(m.kind, m.who)
    BY <1>4, <2>2, MutatesLocks DEF RepInv
  <2> QED
    BY <1>2, <2>1, <2>2
<1>6. QueueTyped'
  <2>1. Len(mutations') <= asked'
    BY <1>2, <1>3 DEF RepInv, QueueTyped
  <2> QED
    BY <1>2, <1>3, <2>1 DEF RepInv, QueueTyped
<1> QED
  BY <1>5, <1>6 DEF RepInv

\* The inductive invariant of reputations.
LEMMA ReputationInvariant == SpecReputation => []RepInv
<1>1. RepInv /\ [NextReputation]_reputationVars => RepInv'
  <2> SUFFICES ASSUME RepInv, [NextReputation]_reputationVars PROVE RepInv'
    OBVIOUS
  <2>1. CASE UNCHANGED reputationVars
    BY <2>1 DEF reputationVars, RepInv, TableTyped, RowsTyped, LocksTyped, QueueTyped
  <2> QED
    BY <2>1, MutateInv, UnlockInv, RunInv, WindowsInv, CrashInv DEF NextReputation
<1> QED
  BY <1>1, RepInit, PTL DEF SpecReputation

\* The scores, streaks and credits of the table are in their bounds, and a lock is one that
\* remembers a score.
LEMMA ReputationTyped == SpecReputation => []ReputationTypeOK
<1>1. RepInv => ReputationTypeOK
  <2> SUFFICES ASSUME RepInv PROVE ReputationTypeOK
    OBVIOUS
  <2>1. ASSUME NEW n \in Rated
        PROVE  /\ byNodeHash[n].score \in MinScore..MaxScore \cup Imported
               /\ {byNodeHash[n].streak, byNodeHash[n].credit, byNodeHash[n].bad} \subseteq Nat
               /\ wantHits[n] \in 0..(WantThreshold - 1)
    <3>1. byNodeHash[n] \in RatedRow
      BY DEF RepInv, TableTyped, RowsTyped
    <3>2. byNodeHash[n].score \in RatedScores /\ byNodeHash[n].streak \in Nat /\ byNodeHash[n].credit \in Nat
          /\ byNodeHash[n].bad \in Nat
      BY <3>1 DEF RatedRow
    <3> QED
      BY <3>2 DEF RepInv, TableTyped, RatedScores
  <2>2. /\ \A n \in Rated : lockedPrev[n] = NoScore <=> n \notin lockedMax
        /\ bumpSeen \subseteq Rated /\ lockedMax \subseteq Rated
        /\ asked \in 0..MaxCalls /\ Len(mutations) <= asked
    BY DEF RepInv, TableTyped, LocksTyped, QueueTyped
  <2> QED
    BY <2>1, <2>2 DEF ReputationTypeOK
<1> QED
  BY <1>1, ReputationInvariant, PTL

-----------------------------------------------------------------------------
(* Ranks. *)

\* What stands below each element of a set in a strict total order.
StrictOrder(S, below) ==
  /\ below \in [S -> SUBSET S]
  /\ \A a \in S : a \notin below[a]
  /\ \A a, b \in S : a = b \/ a \in below[b] \/ b \in below[a]
  /\ \A a, b \in S : a \in below[b] => below[a] \subseteq below[b]

\* In a strict total order of a finite set how many stand below an element tells which it
\* is, and every number below that of the set occurs.
LEMMA RanksCount ==
  ASSUME NEW S, IsFiniteSet(S), NEW below, StrictOrder(S, below)
  PROVE  /\ Cardinality(S) \in Nat
         /\ \A a \in S : IsFiniteSet(below[a]) /\ Cardinality(below[a]) \in 0..(Cardinality(S) - 1)
         /\ \A a, b \in S : a \in below[b] => Cardinality(below[a]) < Cardinality(below[b])
         /\ \A a, b \in S : Cardinality(below[a]) = Cardinality(below[b]) => a = b
         /\ \A k \in 0..(Cardinality(S) - 1) : \E a \in S : Cardinality(below[a]) = k
<1> DEFINE n == Cardinality(S)
           Rank(r) == Cardinality(below[r])
<1>1. n \in Nat
  BY FS_CardinalityType
<1>2. /\ \A a \in S : below[a] \subseteq S /\ a \notin below[a]
      /\ \A a, b \in S : a = b \/ a \in below[b] \/ b \in below[a]
      /\ \A a, b \in S : a \in below[b] => below[a] \subseteq below[b]
  BY DEF StrictOrder
<1>3. ASSUME NEW r \in S PROVE IsFiniteSet(below[r]) /\ Rank(r) \in 0..(n - 1)
  <2>1. below[r] \in SUBSET (S \ {r})
    BY <1>2
  <2>2. IsFiniteSet(S \ {r}) /\ Cardinality(S \ {r}) = n - 1
    BY FS_RemoveElement
  <2> HIDE DEF n
  <2>3. IsFiniteSet(below[r]) /\ Cardinality(below[r]) <= n - 1
    BY <2>1, <2>2, FS_Subset
  <2>4. Cardinality(below[r]) \in Nat
    BY <2>3, FS_CardinalityType
  <2> QED
    BY <1>1, <2>3, <2>4
<1>4. ASSUME NEW a \in S, NEW b \in S, a \in below[b] PROVE Rank(a) < Rank(b)
  <2>1. below[a] \in SUBSET below[b] /\ a \in below[b] /\ a \notin below[a]
    BY <1>2, <1>4
  <2>2. IsFiniteSet(below[b]) /\ Rank(a) \in 0..(n - 1) /\ Rank(b) \in 0..(n - 1)
    BY <1>3
  <2> HIDE DEF n
  <2>3. Cardinality(below[a]) <= Cardinality(below[b]) /\ (Cardinality(below[b]) = Cardinality(below[a]) => below[b] = below[a])
    BY <2>1, <2>2, FS_Subset
  <2>4. Cardinality(below[b]) # Cardinality(below[a])
    BY <2>1, <2>3
  <2> QED
    BY <1>1, <2>2, <2>3, <2>4
<1>5. ASSUME NEW a \in S, NEW b \in S, Rank(a) = Rank(b) PROVE a = b
  <2>1. Rank(a) \in 0..(n - 1) /\ Rank(b) \in 0..(n - 1)
    BY <1>3
  <2>2. ~(Rank(a) < Rank(b)) /\ ~(Rank(b) < Rank(a))
    <3> HIDE DEF Rank, n
    <3> QED
      BY <1>1, <1>5, <2>1
  <2> QED
    BY <1>2, <1>4, <2>2
<1>6. ASSUME NEW k \in 0..(n - 1) PROVE \E r \in S : Rank(r) = k
  <2> DEFINE g == [r \in S |-> Rank(r) + 1]
  <2>a. n \in Nat /\ \A r \in S : Rank(r) \in 0..(n - 1)
    BY <1>1, <1>3
  <2>b. \A a, b \in S : Rank(a) = Rank(b) => a = b
    BY <1>5
  <2> HIDE DEF Rank, n
  <2>1. g \in [S -> 1..n]
    <3>1. \A r \in S : Rank(r) + 1 \in 1..n
      BY <2>a
    <3> QED
      BY <3>1
  <2>2. \A a, b \in S : g[a] = g[b] => a = b
    BY <2>a, <2>b
  <2>3. g \in Injection(S, 1..n)
    BY <2>1, <2>2 DEF Injection, IsInjective
  <2>4. IsFiniteSet(1..n) /\ Cardinality(1..n) = n
    BY <2>a, FS_Interval
  <2>5. g \in Surjection(S, 1..n)
    <3>1. Cardinality(S) = Cardinality(1..n)
      BY <2>4 DEF n
    <3> HIDE DEF g
    <3> QED
      BY <2>3, <2>4, <3>1, FS_Injection
  <2>6. k + 1 \in 1..n /\ k \in Int
    BY <2>a
  <2>7. PICK r \in S : g[r] = k + 1
    <3> HIDE DEF g
    <3> QED
      BY <2>5, <2>6 DEF Surjection
  <2>8. Rank(r) = k
    BY <2>6, <2>7, <2>a
  <2> QED
    BY <2>8
<1> QED
  BY <1>1, <1>3, <1>4, <1>5, <1>6

\* No more than k have fewer than k below them.
LEMMA RanksBound ==
  ASSUME NEW S, IsFiniteSet(S), NEW below, StrictOrder(S, below), NEW k \in Nat
  PROVE  /\ IsFiniteSet({a \in S : Cardinality(below[a]) < k})
         /\ Cardinality({a \in S : Cardinality(below[a]) < k}) <= k
<1> DEFINE T == {a \in S : Cardinality(below[a]) < k}
           g == [a \in T |-> Cardinality(below[a]) + 1]
<1>1. /\ Cardinality(S) \in Nat
      /\ \A a \in S : Cardinality(below[a]) \in 0..(Cardinality(S) - 1)
      /\ \A a, b \in S : Cardinality(below[a]) = Cardinality(below[b]) => a = b
  BY RanksCount
<1>2. \A a \in T : Cardinality(below[a]) \in Nat /\ Cardinality(below[a]) + 1 \in 1..k
  BY <1>1
<1>3. g \in [T -> 1..k]
  BY <1>2
<1>4. \A a, b \in T : g[a] = g[b] => a = b
  BY <1>1, <1>2
<1>5. IsFiniteSet(1..k) /\ Cardinality(1..k) = k
  BY FS_Interval
<1> HIDE DEF T, g
<1>6. g \in Injection(T, 1..k)
  BY <1>3, <1>4 DEF Injection, IsInjective
<1>7. IsFiniteSet(T) /\ Cardinality(T) <= Cardinality(1..k)
  BY <1>5, <1>6, FS_Injection
<1> QED
  BY <1>5, <1>7 DEF T

\* The list of a finite set by rank, each element at its place.
LEMMA RanksList ==
  ASSUME NEW S, IsFiniteSet(S), NEW below, StrictOrder(S, below), NEW f,
         f = [j \in 1..Cardinality(S) |-> f[j]],
         \A j \in 1..Cardinality(S) : f[j] = CHOOSE i \in S : Cardinality(below[i] \cup {i}) = j
  PROVE  /\ f \in [1..Cardinality(S) -> S]
         /\ \A i \in S : \E j \in 1..Cardinality(S) : f[j] = i
         /\ \A j, k \in 1..Cardinality(S) : j < k => f[j] \in below[f[k]]
<1> DEFINE n == Cardinality(S)
<1>1. /\ n \in Nat
      /\ \A a \in S : IsFiniteSet(below[a]) /\ Cardinality(below[a]) \in 0..(n - 1)
      /\ \A a, b \in S : a \in below[b] => Cardinality(below[a]) < Cardinality(below[b])
      /\ \A a, b \in S : Cardinality(below[a]) = Cardinality(below[b]) => a = b
      /\ \A k \in 0..(n - 1) : \E a \in S : Cardinality(below[a]) = k
  BY RanksCount
<1>2. \A i \in S : i \notin below[i]
  BY DEF StrictOrder
<1>3. ASSUME NEW i \in S PROVE Cardinality(below[i] \cup {i}) = Cardinality(below[i]) + 1
  BY <1>1, <1>2, FS_AddElement
<1> HIDE DEF n
<1>4. ASSUME NEW j \in 1..n PROVE f[j] \in S /\ Cardinality(below[f[j]]) = j - 1
  <2>1. j - 1 \in 0..(n - 1) /\ j \in Int
    BY <1>1
  <2>2. PICK a \in S : Cardinality(below[a]) = j - 1
    BY <1>1, <2>1
  <2>3. Cardinality(below[a] \cup {a}) = j
    BY <1>3, <2>1, <2>2
  <2>4. f[j] = CHOOSE i \in S : Cardinality(below[i] \cup {i}) = j
    BY DEF n
  <2>5. f[j] \in S /\ Cardinality(below[f[j]] \cup {f[j]}) = j
    BY <2>3, <2>4
  <2>6. Cardinality(below[f[j]]) + 1 = j /\ Cardinality(below[f[j]]) \in 0..(n - 1)
    BY <1>1, <1>3, <2>5
  <2> QED
    BY <1>1, <2>1, <2>5, <2>6
<1>5. f \in [1..n -> S]
  <2>1. f = [j \in 1..n |-> f[j]]
    BY DEF n
  <2> QED
    BY <1>4, <2>1
<1>6. ASSUME NEW i \in S PROVE \E j \in 1..n : f[j] = i
  <2>1. Cardinality(below[i]) \in 0..(n - 1)
    BY <1>1
  <2>2. PICK j : j = Cardinality(below[i]) + 1
    OBVIOUS
  <2>3. j \in 1..n /\ j - 1 = Cardinality(below[i])
    BY <1>1, <2>1, <2>2
  <2>4. f[j] \in S /\ Cardinality(below[f[j]]) = Cardinality(below[i])
    BY <1>4, <2>3
  <2> QED
    BY <1>1, <2>3, <2>4
<1>7. ASSUME NEW j \in 1..n, NEW k \in 1..n, j < k PROVE f[j] \in below[f[k]]
  <2>1. f[j] \in S /\ f[k] \in S /\ Cardinality(below[f[j]]) = j - 1 /\ Cardinality(below[f[k]]) = k - 1
    BY <1>4
  <2>2. ~(k - 1 < j - 1) /\ j - 1 # k - 1
    BY <1>7
  <2>3. f[k] \notin below[f[j]] /\ f[j] # f[k]
    BY <1>1, <2>1, <2>2
  <2> QED
    BY <2>1, <2>3 DEF StrictOrder
<1> QED
  BY <1>5, <1>6, <1>7 DEF n

-----------------------------------------------------------------------------
(* The lists. *)

RisingPlaces(places) ==
  [j \in 1..Cardinality(places) |-> CHOOSE i \in places : Cardinality({k \in places : k <= i}) = j]

\* What stands at some places of a list comes from places that rise.
LEMMA PickedIs ==
  ASSUME NEW W, NEW list \in Seq(W), NEW places \in SUBSET DOMAIN list
  PROVE  /\ IsFiniteSet(places) /\ Cardinality(places) \in Nat /\ Cardinality(places) <= Len(list)
         /\ Picked(list, places) \in Seq(W) /\ Len(Picked(list, places)) = Cardinality(places)
         /\ \E at \in [1..Cardinality(places) -> places] :
              /\ \A i \in places : \E j \in 1..Cardinality(places) : at[j] = i
              /\ \A j, k \in 1..Cardinality(places) : j < k => at[j] < at[k]
              /\ \A j \in 1..Cardinality(places) : Picked(list, places)[j] = list[at[j]]
<1> DEFINE n == Cardinality(places)
           below == [i \in places |-> {k \in places : k < i}]
           at == [j \in 1..Cardinality(places) |-> RisingPlaces(places)[j]]
<1>1. Len(list) \in Nat /\ DOMAIN list = 1..Len(list) /\ \A i \in 1..Len(list) : list[i] \in W
  OBVIOUS
<1>2. IsFiniteSet(1..Len(list)) /\ Cardinality(1..Len(list)) = Len(list)
  BY <1>1, FS_Interval
<1>3. IsFiniteSet(places) /\ n <= Len(list)
  BY <1>1, <1>2, FS_Subset
<1>4. n \in Nat
  BY <1>3, FS_CardinalityType
<1>5. places \subseteq 1..Len(list) /\ \A i \in places : i \in Int
  BY <1>1
<1>6. StrictOrder(places, below)
  <2>1. below \in [places -> SUBSET places]
    OBVIOUS
  <2>2. \A a \in places : a \notin below[a]
    BY <1>5
  <2>3. \A a, b \in places : a = b \/ a \in below[b] \/ b \in below[a]
    BY <1>5
  <2>4. \A a, b \in places : a \in below[b] => below[a] \subseteq below[b]
    BY <1>5
  <2> QED
    BY <2>1, <2>2, <2>3, <2>4 DEF StrictOrder
<1>7. ASSUME NEW i \in places PROVE below[i] \cup {i} = {k \in places : k <= i}
  BY <1>5
<1>8. ASSUME NEW j \in 1..n
      PROVE  at[j] = CHOOSE i \in places : Cardinality(below[i] \cup {i}) = j
  <2>1. \A i \in places : Cardinality(below[i] \cup {i}) = Cardinality({k \in places : k <= i})
    BY <1>7
  <2>2. at[j] = CHOOSE i \in places : Cardinality({k \in places : k <= i}) = j
    BY DEF RisingPlaces
  <2> HIDE DEF below, at
  <2> QED
    BY <2>1, <2>2
<1>9. at = [j \in 1..Cardinality(places) |-> at[j]]
  OBVIOUS
<1>10. Picked(list, places) = [j \in 1..n |-> list[at[j]]]
  BY DEF Picked, RisingPlaces
<1> HIDE DEF below, at
<1>11. /\ at \in [1..n -> places]
       /\ \A i \in places : \E j \in 1..n : at[j] = i
       /\ \A j, k \in 1..n : j < k => at[j] \in below[at[k]]
  BY <1>3, <1>6, <1>8, <1>9, RanksList
<1> HIDE DEF n
<1>12. ASSUME NEW j \in 1..n, NEW k \in 1..n, j < k PROVE at[j] < at[k]
  <2>1. at[j] \in below[at[k]] /\ at[k] \in places
    BY <1>11, <1>12
  <2> QED
    BY <2>1 DEF below
<1>13. \A j \in 1..n : list[at[j]] \in W
  BY <1>1, <1>5, <1>11
<1>14. Picked(list, places) \in [1..n -> W]
  BY <1>10, <1>13
<1>15. Picked(list, places) \in Seq(W) /\ Len(Picked(list, places)) = n
  BY <1>4, <1>14, FunctionIsSeq
<1>16. \A j \in 1..n : Picked(list, places)[j] = list[at[j]]
  BY <1>10
<1> QED
  BY <1>3, <1>4, <1>11, <1>12, <1>15, <1>16 DEF n

\* Lists in which nobody stands twice.
PoolRoster(list) == list \in Seq(Known) /\ IsInjective(list)

LEMMA RosterCounts ==
  ASSUME NEW list, PoolRoster(list)
  PROVE  /\ Len(list) \in Nat /\ DOMAIN list = 1..Len(list)
         /\ ToSet(list) \subseteq Known /\ IsFiniteSet(ToSet(list)) /\ Cardinality(ToSet(list)) = Len(list)
<1>1. /\ Len(list) \in Nat /\ DOMAIN list = 1..Len(list) /\ list \in [1..Len(list) -> Known]
      /\ \A i, k \in 1..Len(list) : list[i] = list[k] => i = k
  BY DEF PoolRoster, IsInjective
<1>2. ToSet(list) = {list[i] : i \in 1..Len(list)}
  BY <1>1 DEF ToSet
<1>3. ToSet(list) \subseteq Known
  BY <1>1, <1>2
<1>4. list \in Bijection(1..Len(list), ToSet(list))
  BY <1>1, <1>2 DEF Bijection, Injection, Surjection, IsInjective
<1>5. IsFiniteSet(1..Len(list)) /\ Cardinality(1..Len(list)) = Len(list)
  BY <1>1, FS_Interval
<1>6. ExistsBijection(1..Len(list), ToSet(list))
  BY <1>4 DEF ExistsBijection
<1> QED
  BY <1>1, <1>3, <1>5, <1>6, FS_Bijection

\* Picking keeps it so.
LEMMA PickedRoster ==
  ASSUME NEW list, PoolRoster(list), NEW places \in SUBSET DOMAIN list
  PROVE  /\ PoolRoster(Picked(list, places)) /\ Len(Picked(list, places)) <= Len(list)
         /\ ToSet(Picked(list, places)) = {list[i] : i \in places}
<1> DEFINE n == Cardinality(places)
           s == Picked(list, places)
<1>1. list \in Seq(Known) /\ \A i, k \in DOMAIN list : list[i] = list[k] => i = k
  BY DEF PoolRoster, IsInjective
<1>2. /\ n \in Nat /\ s \in Seq(Known) /\ Len(s) = n /\ n <= Len(list)
      /\ \E at \in [1..n -> places] :
              /\ \A i \in places : \E j \in 1..n : at[j] = i
              /\ \A j, k \in 1..n : j < k => at[j] < at[k]
              /\ \A j \in 1..n : s[j] = list[at[j]]
  BY <1>1, PickedIs
<1> HIDE DEF n, s
<1>3. PICK at \in [1..n -> places] :
              /\ \A i \in places : \E j \in 1..n : at[j] = i
              /\ \A j, k \in 1..n : j < k => at[j] < at[k]
              /\ \A j \in 1..n : s[j] = list[at[j]]
  BY <1>2
<1>4. DOMAIN s = 1..n /\ places \subseteq DOMAIN list /\ DOMAIN list = 1..Len(list) /\ Len(list) \in Nat
  BY <1>1, <1>2
<1>5. ASSUME NEW j \in 1..n, NEW k \in 1..n, s[j] = s[k] PROVE j = k
  <2>1. at[j] \in DOMAIN list /\ at[k] \in DOMAIN list /\ list[at[j]] = list[at[k]]
    BY <1>3, <1>4, <1>5
  <2>2. at[j] = at[k] /\ at[j] \in Int
    BY <1>1, <1>4, <2>1
  <2>3. ~(j < k) /\ ~(k < j)
    BY <1>3, <2>2
  <2> QED
    BY <1>2, <2>3
<1>6. IsInjective(s)
  BY <1>4, <1>5 DEF IsInjective
<1>7. ToSet(s) = {s[j] : j \in 1..n}
  BY <1>4 DEF ToSet
<1>8. \A j \in 1..n : s[j] \in {list[i] : i \in places}
  BY <1>3
<1>9. ASSUME NEW i \in places PROVE list[i] \in ToSet(s)
  <2>1. PICK j \in 1..n : at[j] = i
    BY <1>3
  <2> QED
    BY <1>3, <1>7, <2>1
<1>10. ToSet(s) = {list[i] : i \in places}
  BY <1>7, <1>8, <1>9
<1> QED
  BY <1>2, <1>6, <1>10 DEF s, PoolRoster

LEMMA LessRoster ==
  ASSUME NEW list, PoolRoster(list), NEW ids
  PROVE  /\ PoolRoster(Less(list, ids)) /\ ToSet(Less(list, ids)) = ToSet(list) \ ids
         /\ Len(Less(list, ids)) <= Len(list)
<1> DEFINE places == {i \in DOMAIN list : list[i] \notin ids}
<1>1. /\ PoolRoster(Picked(list, places)) /\ ToSet(Picked(list, places)) = {list[i] : i \in places}
      /\ Len(Picked(list, places)) <= Len(list)
  BY PickedRoster
<1>2. {list[i] : i \in places} = ToSet(list) \ ids
  BY DEF ToSet
<1> QED
  BY <1>1, <1>2 DEF Less

LEMMA JoinedRoster ==
  ASSUME NEW a, PoolRoster(a), NEW b, PoolRoster(b), ToSet(a) \cap ToSet(b) = {}
  PROVE  /\ PoolRoster(a \o b) /\ ToSet(a \o b) = ToSet(a) \cup ToSet(b) /\ Len(a \o b) = Len(a) + Len(b)
<1>1. /\ a \in Seq(Known) /\ b \in Seq(Known)
      /\ \A i, k \in DOMAIN a : a[i] = a[k] => i = k
      /\ \A i, k \in DOMAIN b : b[i] = b[k] => i = k
  BY DEF PoolRoster, IsInjective
<1>2. ToSet(a) = Range(a) /\ ToSet(b) = Range(b) /\ ToSet(a \o b) = Range(a \o b)
  BY DEF ToSet, Range
<1>3. ToSet(a \o b) = ToSet(a) \cup ToSet(b)
  BY <1>1, <1>2, RangesJoin
<1> DEFINE c == a \o b
<1>4. /\ c \in Seq(Known) /\ Len(c) = Len(a) + Len(b) /\ DOMAIN c = 1..(Len(a) + Len(b))
      /\ \A i \in 1..Len(c) : c[i] = IF i <= Len(a) THEN a[i] ELSE b[i - Len(a)]
      /\ Len(a) \in Nat /\ Len(b) \in Nat /\ DOMAIN a = 1..Len(a) /\ DOMAIN b = 1..Len(b)
  BY <1>1
<1> HIDE DEF c
<1>5. \A i \in DOMAIN a, k \in DOMAIN b : a[i] # b[k]
  BY DEF ToSet
<1>6. ASSUME NEW i \in DOMAIN c, NEW k \in DOMAIN c, c[i] = c[k] PROVE i = k
  <2>1. CASE i <= Len(a) /\ k <= Len(a)
    BY <1>1, <1>4, <1>6, <2>1
  <2>2. CASE i > Len(a) /\ k > Len(a)
    <3>1. i - Len(a) \in DOMAIN b /\ k - Len(a) \in DOMAIN b /\ b[i - Len(a)] = b[k - Len(a)]
      BY <1>4, <1>6, <2>2
    <3>2. i - Len(a) = k - Len(a)
      BY <1>1, <3>1
    <3> QED
      BY <1>4, <3>2
  <2>3. CASE i <= Len(a) /\ k > Len(a)
    <3>1. i \in DOMAIN a /\ k - Len(a) \in DOMAIN b /\ a[i] = b[k - Len(a)]
      BY <1>4, <1>6, <2>3
    <3> QED
      BY <1>5, <3>1
  <2>4. CASE i > Len(a) /\ k <= Len(a)
    <3>1. k \in DOMAIN a /\ i - Len(a) \in DOMAIN b /\ a[k] = b[i - Len(a)]
      BY <1>4, <1>6, <2>4
    <3> QED
      BY <1>5, <3>1
  <2> QED
    BY <1>4, <2>1, <2>2, <2>3, <2>4
<1>7. IsInjective(c)
  BY <1>6 DEF IsInjective
<1> QED
  BY <1>3, <1>4, <1>7 DEF c, PoolRoster

LEMMA AddedRoster ==
  ASSUME NEW list, PoolRoster(list), NEW id \in Known
  PROVE  PoolRoster(Added(list, id)) /\ ToSet(Added(list, id)) = ToSet(list) \cup {id}
<1>1. CASE Contains(list, id)
  <2>1. id \in ToSet(list)
    BY <1>1, RosterCounts DEF Contains, ToSet
  <2> QED
    BY <1>1, <2>1 DEF Added
<1>2. CASE ~Contains(list, id)
  <2> DEFINE one == <<id>>
  <2>1. id \notin ToSet(list)
    BY <1>2, RosterCounts DEF Contains, ToSet
  <2>2. one \in Seq(Known) /\ DOMAIN one = 1..1 /\ one[1] = id /\ Len(one) = 1
    OBVIOUS
  <2>3. Added(list, id) = list \o one
    BY <1>2 DEF Added, PoolRoster
  <2> HIDE DEF one
  <2>4. PoolRoster(one)
    BY <2>2 DEF PoolRoster, IsInjective
  <2>5. ToSet(one) = {id}
    BY <2>2 DEF ToSet
  <2>6. PoolRoster(list \o one) /\ ToSet(list \o one) = ToSet(list) \cup ToSet(one)
    BY <2>1, <2>4, <2>5, JoinedRoster
  <2> QED
    BY <2>3, <2>5, <2>6
<1> QED
  BY <1>1, <1>2

LEMMA AddedAllRoster ==
  ASSUME NEW list, PoolRoster(list), NEW ids, PoolRoster(ids)
  PROVE  PoolRoster(AddedAll(list, ids)) /\ ToSet(AddedAll(list, ids)) = ToSet(list) \cup ToSet(ids)
<1>1. PoolRoster(Less(ids, ToSet(list))) /\ ToSet(Less(ids, ToSet(list))) = ToSet(ids) \ ToSet(list)
  BY LessRoster
<1>2. ToSet(list) \cap ToSet(Less(ids, ToSet(list))) = {}
  BY <1>1
<1>3. /\ PoolRoster(list \o Less(ids, ToSet(list)))
      /\ ToSet(list \o Less(ids, ToSet(list))) = ToSet(list) \cup ToSet(Less(ids, ToSet(list)))
  BY <1>1, <1>2, JoinedRoster
<1> QED
  BY <1>1, <1>3 DEF AddedAll

-----------------------------------------------------------------------------
(* Bounds of the pools. *)

LEMMA PoolBounds ==
  /\ IsFiniteSet(Known) /\ Self \in Known /\ Scores \in [Known -> Nat]
  /\ MaxTrusted \in Nat \ {0} /\ MaxExplore \in Nat \ {0} /\ MaxHints \in Nat \ {0}
  /\ MaxHintsPerSource \in Nat \ {0} /\ ExploreMaxPerSource \in Nat \ {0} /\ MeshN \in Nat \ {0} /\ MeshK \in 0..MeshN
  /\ TrustedSlots \in Nat /\ ExploreSlots \in Nat
BY PoolsAssumption

\* The end of a list, and its beginning.
LEMMA NewestOf ==
  ASSUME NEW W, NEW list \in Seq(W), NEW n \in Nat
  PROVE  /\ Newest(n, list) \in Seq(W) /\ Len(Newest(n, list)) = IF Len(list) > n THEN n ELSE Len(list)
         /\ \E d \in Nat : /\ d + Len(Newest(n, list)) = Len(list)
                           /\ \A i \in 1..Len(Newest(n, list)) : Newest(n, list)[i] = list[i + d]
<1>0. Len(list) \in Nat
  OBVIOUS
<1>1. CASE Len(list) > n
  <2> DEFINE s == SubSeq(list, Len(list) - n + 1, Len(list))
  <2>1. Newest(n, list) = s
    BY <1>1 DEF Newest
  <2>2. s \in Seq(W) /\ Len(s) = n
    BY <1>0, <1>1
  <2>3. \A i \in 1..n : s[i] = list[i + (Len(list) - n)]
    BY <1>0, <1>1
  <2>4. Len(list) - n \in Nat /\ (Len(list) - n) + n = Len(list)
    BY <1>0, <1>1
  <2> HIDE DEF s
  <2> QED
    BY <1>1, <2>1, <2>2, <2>3, <2>4
<1>2. CASE ~(Len(list) > n)
  <2>1. Newest(n, list) = list
    BY <1>2 DEF Newest
  <2>2. \A i \in 1..Len(list) : list[i] = list[i + 0]
    BY <1>0
  <2>3. 0 \in Nat /\ 0 + Len(list) = Len(list)
    BY <1>0
  <2> QED
    BY <1>2, <2>1, <2>2, <2>3
<1> QED
  BY <1>1, <1>2

LEMMA NewestRoster ==
  ASSUME NEW list, PoolRoster(list), NEW n \in Nat
  PROVE  PoolRoster(Newest(n, list)) /\ ToSet(Newest(n, list)) \subseteq ToSet(list) /\ Len(Newest(n, list)) <= n
<1> DEFINE s == Newest(n, list)
<1>1. list \in Seq(Known) /\ \A i, k \in DOMAIN list : list[i] = list[k] => i = k
  BY DEF PoolRoster, IsInjective
<1>2. /\ s \in Seq(Known) /\ Len(s) = IF Len(list) > n THEN n ELSE Len(list)
      /\ \E d \in Nat : d + Len(s) = Len(list) /\ \A i \in 1..Len(s) : s[i] = list[i + d]
  BY <1>1, NewestOf
<1> HIDE DEF s
<1>3. PICK d \in Nat : d + Len(s) = Len(list) /\ \A i \in 1..Len(s) : s[i] = list[i + d]
  BY <1>2
<1>4. DOMAIN s = 1..Len(s) /\ Len(s) \in Nat /\ DOMAIN list = 1..Len(list) /\ Len(list) \in Nat
  BY <1>1, <1>2
<1>5. \A i \in 1..Len(s) : i + d \in DOMAIN list
  BY <1>3, <1>4
<1>6. ASSUME NEW i \in DOMAIN s, NEW k \in DOMAIN s, s[i] = s[k] PROVE i = k
  <2>1. i + d = k + d
    BY <1>1, <1>3, <1>4, <1>5, <1>6
  <2> QED
    BY <1>4, <2>1
<1>7. ToSet(s) \subseteq ToSet(list)
  BY <1>3, <1>4, <1>5 DEF ToSet
<1>8. Len(s) <= n
  <2>1. CASE Len(list) > n
    BY <1>2, <2>1
  <2>2. CASE ~(Len(list) > n)
    BY <1>2, <1>4, <2>2
  <2> QED
    BY <2>1, <2>2
<1> QED
  BY <1>2, <1>6, <1>7, <1>8 DEF s, PoolRoster, IsInjective

LEMMA OldestRoster ==
  ASSUME NEW list, PoolRoster(list), NEW n \in Nat
  PROVE  /\ PoolRoster(Oldest(n, list)) /\ ToSet(Oldest(n, list)) \subseteq ToSet(list)
         /\ Len(Oldest(n, list)) = IF n < Len(list) THEN n ELSE Len(list)
         /\ \A i \in 1..Len(Oldest(n, list)) : Oldest(n, list)[i] = list[i]
<1> DEFINE m == IF n < Len(list) THEN n ELSE Len(list)
           s == SubSeq(list, 1, m)
<1>1. list \in Seq(Known) /\ \A i, k \in DOMAIN list : list[i] = list[k] => i = k
  BY DEF PoolRoster, IsInjective
<1>2. Len(list) \in Nat /\ DOMAIN list = 1..Len(list)
  BY <1>1
<1>3. m \in Nat /\ m <= Len(list)
  BY <1>2
<1> HIDE DEF m
<1>4. s \in Seq(Known) /\ Len(s) = m /\ DOMAIN s = 1..m /\ \A i \in 1..m : s[i] = list[i]
  BY <1>1, <1>2, <1>3
<1>5. Oldest(n, list) = s
  BY DEF Oldest, m
<1> HIDE DEF s
<1>6. \A i \in 1..m : i \in DOMAIN list
  BY <1>2, <1>3
<1>7. IsInjective(s)
  BY <1>1, <1>4, <1>6 DEF IsInjective
<1>8. ToSet(s) \subseteq ToSet(list)
  BY <1>4, <1>6 DEF ToSet
<1> QED
  BY <1>4, <1>5, <1>7, <1>8 DEF PoolRoster, m

\* Who is rated higher, or as high and came before.
Better(list, k, i) == Scores[list[k]] > Scores[list[i]] \/ (Scores[list[k]] = Scores[list[i]] /\ k < i)

LEMMA ByScoreRoster ==
  ASSUME NEW list, PoolRoster(list)
  PROVE  PoolRoster(ByScore(list)) /\ ToSet(ByScore(list)) = ToSet(list) /\ Len(ByScore(list)) = Len(list)
<1> DEFINE D == DOMAIN list
           n == Len(list)
           below == [i \in D |-> {k \in D : Better(list, k, i)}]
           before(i, k) == Scores[list[i]] > Scores[list[k]] \/ (Scores[list[i]] = Scores[list[k]] /\ i <= k)
           Top(i) == {k \in D : before(k, i)}
           R == [j \in D |-> CHOOSE i \in D : Cardinality(Top(i)) = j]
           at == [j \in 1..n |-> R[j]]
<1>1. list \in Seq(Known) /\ \A i, k \in D : list[i] = list[k] => i = k
  BY DEF PoolRoster, IsInjective
<1>2. n \in Nat /\ D = 1..n /\ \A i \in D : Scores[list[i]] \in Nat
  BY <1>1, PoolBounds
<1>3. IsFiniteSet(D) /\ Cardinality(D) = n
  <2>1. n \in Nat /\ D = 1..n
    BY <1>2
  <2> HIDE DEF D, n
  <2>2. IsFiniteSet(1..n) /\ Cardinality(1..n) = n
    BY <2>1, FS_Interval
  <2> QED
    BY <2>1, <2>2
<1>4. ByScore(list) = [j \in 1..n |-> list[R[j]]]
  BY <1>2 DEF ByScore
<1>5. StrictOrder(D, below)
  <2>1. below \in [D -> SUBSET D]
    OBVIOUS
  <2>2. \A a \in D : a \notin below[a]
    BY <1>2 DEF Better
  <2>3. \A a, b \in D : a = b \/ a \in below[b] \/ b \in below[a]
    BY <1>2 DEF Better
  <2>4. \A a, b, c \in D : Better(list, a, b) /\ Better(list, c, a) => Better(list, c, b)
    BY <1>2 DEF Better
  <2>5. \A a, b \in D : a \in below[b] => below[a] \subseteq below[b]
    BY <2>4
  <2> QED
    BY <2>1, <2>2, <2>3, <2>5 DEF StrictOrder
<1>6. ASSUME NEW i \in D PROVE below[i] \cup {i} = Top(i)
  BY <1>2 DEF Better
<1>7. ASSUME NEW j \in 1..n
      PROVE  at[j] = CHOOSE i \in D : Cardinality(below[i] \cup {i}) = j
  <2>1. \A i \in D : Cardinality(below[i] \cup {i}) = Cardinality(Top(i))
    BY <1>6
  <2>2. at[j] = CHOOSE i \in D : Cardinality(Top(i)) = j
    BY <1>2
  <2> HIDE DEF below, at, Top, D
  <2> QED
    BY <2>1, <2>2
<1>9. at = [j \in 1..Cardinality(D) |-> at[j]]
  BY <1>3
<1>10. ByScore(list) = [j \in 1..n |-> list[at[j]]]
  BY <1>4
<1> HIDE DEF below, at, R, Top, D, n, before
<1>11. /\ at \in [1..n -> D]
       /\ \A i \in D : \E j \in 1..n : at[j] = i
       /\ \A j, k \in 1..n : j < k => at[j] \in below[at[k]]
  <2>1. \A j \in 1..Cardinality(D) : at[j] = CHOOSE i \in D : Cardinality(below[i] \cup {i}) = j
    BY <1>3, <1>7
  <2>2. /\ at \in [1..Cardinality(D) -> D]
        /\ \A i \in D : \E j \in 1..Cardinality(D) : at[j] = i
        /\ \A j, k \in 1..Cardinality(D) : j < k => at[j] \in below[at[k]]
    BY <1>3, <1>5, <2>1, <1>9, RanksList
  <2> QED
    BY <1>3, <2>2
<1>12. \A i \in D : i \notin below[i]
  BY <1>5 DEF StrictOrder
<1>13. ASSUME NEW j \in 1..n, NEW k \in 1..n, at[j] = at[k] PROVE j = k
  <2>1. at[j] \in D /\ ~(at[j] \in below[at[k]]) /\ ~(at[k] \in below[at[j]])
    BY <1>11, <1>12, <1>13
  <2>2. ~(j < k) /\ ~(k < j)
    BY <1>11, <2>1
  <2> QED
    BY <1>2, <2>2
<1> DEFINE s == ByScore(list)
<1>14. DOMAIN s = 1..n /\ \A j \in 1..n : s[j] = list[at[j]] /\ at[j] \in D
  BY <1>10, <1>11
<1>15. \A i \in D : list[i] \in Known
  BY <1>1 DEF D
<1>16. s \in [1..n -> Known]
  BY <1>10, <1>14, <1>15
<1> HIDE DEF s
<1>17. s \in Seq(Known) /\ Len(s) = n
  BY <1>2, <1>16, FunctionIsSeq
<1>18. IsInjective(s)
  BY <1>1, <1>13, <1>14 DEF IsInjective
<1>19. ToSet(s) = ToSet(list)
  <2>1. ToSet(list) = {list[i] : i \in D}
    BY DEF D, ToSet
  <2>2. ToSet(s) = {list[at[j]] : j \in 1..n}
    BY <1>14 DEF ToSet
  <2>3. \A i \in D : list[i] \in {list[at[j]] : j \in 1..n}
    BY <1>11
  <2>4. \A j \in 1..n : list[at[j]] \in {list[i] : i \in D}
    BY <1>14
  <2> QED
    BY <2>1, <2>2, <2>3, <2>4
<1> QED
  BY <1>17, <1>18, <1>19 DEF s, n, PoolRoster

\* Some nodes in a list.
LEMMA SetRoster ==
  ASSUME NEW S, S \subseteq Known
  PROVE  PoolRoster(SetToSeq(S)) /\ ToSet(SetToSeq(S)) = S
<1> DEFINE n == Cardinality(S)
<1>1. IsFiniteSet(S) /\ n \in Nat
  BY PoolBounds, FS_Subset, FS_CardinalityType
<1>2. IsFiniteSet(1..n) /\ Cardinality(1..n) = n
  BY <1>1, FS_Interval
<1>3. ExistsBijection(1..n, S)
  BY <1>1, FS_CardinalityType
<1>4. PICK g : g \in Bijection(1..n, S)
  BY <1>3 DEF ExistsBijection
<1>5. g \in [1..n -> S] /\ IsInjective(g)
  BY <1>4 DEF Bijection, Injection, IsInjective
<1>6. SetToSeq(S) = CHOOSE f \in [1..n -> S] : IsInjective(f)
  BY DEF SetToSeq
<1> DEFINE s == SetToSeq(S)
<1> HIDE DEF s, n
<1>7. s \in [1..n -> S] /\ IsInjective(s)
  BY <1>5, <1>6 DEF s
<1>8. s \in [1..n -> Known] /\ DOMAIN s = 1..n
  BY <1>7
<1>9. s \in Seq(Known)
  BY <1>1, <1>8, FunctionIsSeq
<1>10. s \in Injection(1..n, S)
  BY <1>7, <1>8 DEF Injection, IsInjective
<1>11. s \in Surjection(1..n, S)
  BY <1>1, <1>2, <1>10, FS_Injection DEF n
<1>12. ToSet(s) = S
  BY <1>8, <1>11 DEF ToSet, Surjection
<1> QED
  BY <1>7, <1>9, <1>12 DEF s, PoolRoster

-----------------------------------------------------------------------------
(* Rosters that are merged. *)

\* Those trusted already come first, and as many as there is room for.
LEMMA MergedRoster ==
  ASSUME NEW existing, PoolRoster(existing), NEW ranked, PoolRoster(ranked), NEW slots \in Nat
  PROVE  LET m == mergeTrustedWithAnchors(existing, ranked, slots) IN
         /\ PoolRoster(m) /\ ToSet(m) \subseteq ToSet(ranked) /\ Len(m) <= slots
         /\ \/ ToSet(existing) \cap ToSet(ranked) \subseteq ToSet(m)
            \/ Len(m) = slots /\ ToSet(m) \subseteq ToSet(existing)
<1> DEFINE places == {i \in DOMAIN existing : Contains(ranked, existing[i])}
           a == Picked(existing, places)
           b == Less(ranked, ToSet(a))
           w == a \o b
           m == mergeTrustedWithAnchors(existing, ranked, slots)
<1>1. PoolRoster(a) /\ ToSet(a) = {existing[i] : i \in places}
  BY PickedRoster
<1>2. ToSet(a) = ToSet(existing) \cap ToSet(ranked)
  <2>1. \A x : Contains(ranked, x) <=> x \in ToSet(ranked)
    BY RosterCounts DEF Contains, ToSet
  <2>2. ToSet(existing) = {existing[i] : i \in DOMAIN existing}
    BY DEF ToSet
  <2> HIDE DEF a
  <2> QED
    BY <1>1, <2>1, <2>2
<1>3. m = Oldest(slots, w)
  BY DEF mergeTrustedWithAnchors
<1> HIDE DEF places, a, m
<1>4. PoolRoster(b) /\ ToSet(b) = ToSet(ranked) \ ToSet(a)
  BY LessRoster
<1> HIDE DEF b
<1>5. PoolRoster(w) /\ ToSet(w) = ToSet(a) \cup ToSet(b) /\ Len(w) = Len(a) + Len(b)
  BY <1>1, <1>4, JoinedRoster
<1>6. /\ Len(a) \in Nat /\ DOMAIN a = 1..Len(a) /\ Len(b) \in Nat
      /\ \A i \in 1..Len(a) : w[i] = a[i]
  <2>1. a \in Seq(Known) /\ b \in Seq(Known)
    BY <1>1, <1>4 DEF PoolRoster
  <2> QED
    BY <2>1
<1> HIDE DEF w
<1>7. /\ PoolRoster(m) /\ ToSet(m) \subseteq ToSet(w) /\ Len(m) = IF slots < Len(w) THEN slots ELSE Len(w)
      /\ \A i \in 1..Len(m) : m[i] = w[i]
  BY <1>3, <1>5, OldestRoster
<1>8. ToSet(m) \subseteq ToSet(ranked)
  BY <1>2, <1>4, <1>5, <1>7
<1>9. Len(m) <= slots
  BY <1>5, <1>6, <1>7
<1>10. Len(m) \in Nat /\ ToSet(m) = {m[i] : i \in 1..Len(m)}
  BY <1>7, RosterCounts DEF ToSet
<1>11. CASE slots < Len(a)
  <2>1. Len(m) = slots
    BY <1>5, <1>6, <1>7, <1>11
  <2>2. \A i \in 1..Len(m) : m[i] = a[i] /\ i \in DOMAIN a
    BY <1>6, <1>7, <1>11, <2>1
  <2>3. ToSet(m) \subseteq ToSet(a)
    BY <1>10, <2>2 DEF ToSet
  <2> QED
    BY <1>2, <1>7, <1>8, <1>9, <2>1, <2>3 DEF m
<1>12. CASE ~(slots < Len(a))
  <2>1. Len(a) <= Len(m)
    BY <1>5, <1>6, <1>7, <1>12
  <2>2. \A i \in DOMAIN a : i \in 1..Len(m) /\ m[i] = a[i]
    BY <1>6, <1>7, <1>10, <2>1
  <2>3. ToSet(a) \subseteq ToSet(m)
    BY <1>10, <2>2 DEF ToSet
  <2> QED
    BY <1>2, <1>7, <1>8, <1>9, <2>3 DEF m
<1> QED
  BY <1>11, <1>12

-----------------------------------------------------------------------------
(* Hints. *)

PoolHint == [node : Known, source : HintSources \cup {"recovery:trusted"},
             kind : {"hint", "recovery"}, live : BOOLEAN]

\* The places of one source's hints.
GivenBy(hints, source) == {i \in DOMAIN hints : hints[i].source = source}

LEMMA GivenIsFinite ==
  ASSUME NEW W, NEW hints \in Seq(W), NEW source
  PROVE  IsFiniteSet(GivenBy(hints, source)) /\ Cardinality(GivenBy(hints, source)) \in Nat
<1>1. IsFiniteSet(1..Len(hints)) /\ DOMAIN hints = 1..Len(hints)
  BY FS_Interval
<1>2. GivenBy(hints, source) \in SUBSET (1..Len(hints))
  BY <1>1 DEF GivenBy
<1> QED
  BY <1>1, <1>2, FS_Subset, FS_CardinalityType

\* An injection between the hints of a source in two lists.
LEMMA FewerGiven ==
  ASSUME NEW S, NEW T, IsFiniteSet(T), NEW at \in [S -> T], \A i, k \in S : at[i] = at[k] => i = k
  PROVE  IsFiniteSet(S) /\ Cardinality(S) <= Cardinality(T)
<1>1. at \in Injection(S, T)
  BY DEF Injection, IsInjective
<1> QED
  BY <1>1, FS_Injection

LEMMA PickedHints ==
  ASSUME NEW W, NEW hints \in Seq(W), NEW places \in SUBSET DOMAIN hints
  PROVE  LET s == Picked(hints, places) IN
         /\ s \in Seq(W) /\ Len(s) <= Len(hints)
         /\ \A i \in places : \E j \in DOMAIN s : s[j] = hints[i]
         /\ \A source : /\ Cardinality(GivenBy(s, source)) <= Cardinality({i \in places : hints[i].source = source})
                        /\ Cardinality(GivenBy(s, source)) <= Cardinality(GivenBy(hints, source))
<1> DEFINE n == Cardinality(places)
           s == Picked(hints, places)
<1>1. /\ IsFiniteSet(places) /\ n \in Nat /\ s \in Seq(W) /\ Len(s) = n /\ n <= Len(hints)
      /\ \E at \in [1..n -> places] :
              /\ \A i \in places : \E j \in 1..n : at[j] = i
              /\ \A j, k \in 1..n : j < k => at[j] < at[k]
              /\ \A j \in 1..n : s[j] = hints[at[j]]
  BY PickedIs
<1> HIDE DEF n, s
<1>2. PICK at \in [1..n -> places] :
              /\ \A i \in places : \E j \in 1..n : at[j] = i
              /\ \A j, k \in 1..n : j < k => at[j] < at[k]
              /\ \A j \in 1..n : s[j] = hints[at[j]]
  BY <1>1
<1>3. DOMAIN s = 1..n /\ DOMAIN hints = 1..Len(hints) /\ Len(hints) \in Nat
  BY <1>1
<1>4. \A i \in places : \E j \in DOMAIN s : s[j] = hints[i]
  BY <1>2, <1>3
<1>5. ASSUME NEW source
      PROVE  /\ Cardinality(GivenBy(s, source)) <= Cardinality({i \in places : hints[i].source = source})
             /\ Cardinality(GivenBy(s, source)) <= Cardinality(GivenBy(hints, source))
  <2> DEFINE S == GivenBy(s, source)
             T == {i \in places : hints[i].source = source}
             U == GivenBy(hints, source)
             g == [j \in S |-> at[j]]
  <2>1. S \subseteq 1..n /\ \A j \in S : s[j].source = source
    BY <1>3 DEF GivenBy
  <2>2. \A j \in S : at[j] \in T
    BY <1>2, <2>1
  <2>3. \A j, k \in 1..n : at[j] = at[k] => j = k
    <3>1. \A j, k \in 1..n : at[j] = at[k] => ~(j < k) /\ ~(k < j)
      <4>1. \A j \in 1..n : at[j] \in Int
        BY <1>2, <1>3
      <4> QED
        BY <1>2, <4>1
    <3> QED
      BY <1>1, <3>1
  <2>4. T \subseteq U /\ T \in SUBSET places
    BY DEF GivenBy
  <2>5. IsFiniteSet(U) /\ Cardinality(U) \in Nat
    BY GivenIsFinite
  <2>6. IsFiniteSet(T) /\ Cardinality(T) <= Cardinality(U)
    BY <2>4, <2>5, FS_Subset
  <2> HIDE DEF S, T, U
  <2>7. g \in [S -> T] /\ \A j, k \in S : g[j] = g[k] => j = k
    BY <2>1, <2>2, <2>3
  <2> HIDE DEF g
  <2>8. IsFiniteSet(S) /\ Cardinality(S) <= Cardinality(T)
    BY <2>6, <2>7, FewerGiven
  <2>9. Cardinality(S) \in Nat /\ Cardinality(T) \in Nat
    BY <2>6, <2>8, FS_CardinalityType
  <2>10. Cardinality(S) <= Cardinality(U)
    BY <2>5, <2>6, <2>8, <2>9
  <2> QED
    BY <2>8, <2>10 DEF S, T, U
<1> QED
  BY <1>1, <1>4, <1>5 DEF s

LEMMA NewestHints ==
  ASSUME NEW W, NEW hints \in Seq(W), NEW n \in Nat
  PROVE  /\ Newest(n, hints) \in Seq(W) /\ Len(Newest(n, hints)) <= n
         /\ \A source : Cardinality(GivenBy(Newest(n, hints), source)) <= Cardinality(GivenBy(hints, source))
<1> DEFINE s == Newest(n, hints)
<1>1. /\ s \in Seq(W) /\ Len(s) = IF Len(hints) > n THEN n ELSE Len(hints)
      /\ \E d \in Nat : d + Len(s) = Len(hints) /\ \A i \in 1..Len(s) : s[i] = hints[i + d]
  BY NewestOf
<1> HIDE DEF s
<1>2. PICK d \in Nat : d + Len(s) = Len(hints) /\ \A i \in 1..Len(s) : s[i] = hints[i + d]
  BY <1>1
<1>3. DOMAIN s = 1..Len(s) /\ Len(s) \in Nat /\ DOMAIN hints = 1..Len(hints) /\ Len(hints) \in Nat
  BY <1>1
<1>4. Len(s) <= n
  <2>1. CASE Len(hints) > n
    BY <1>1, <2>1
  <2>2. CASE ~(Len(hints) > n)
    BY <1>1, <1>3, <2>2
  <2> QED
    BY <2>1, <2>2
<1>5. ASSUME NEW source PROVE Cardinality(GivenBy(s, source)) <= Cardinality(GivenBy(hints, source))
  <2> DEFINE S == GivenBy(s, source)
             U == GivenBy(hints, source)
             g == [j \in S |-> j + d]
  <2>1. S \subseteq 1..Len(s) /\ \A j \in S : s[j].source = source
    BY <1>3 DEF GivenBy
  <2>2. \A j \in S : j + d \in DOMAIN hints /\ hints[j + d].source = source
    BY <1>2, <1>3, <2>1
  <2>3. \A j \in S : j + d \in U
    BY <2>2 DEF GivenBy
  <2>5. IsFiniteSet(U)
    BY GivenIsFinite
  <2> HIDE DEF S, U
  <2>7. g \in [S -> U] /\ \A j, k \in S : g[j] = g[k] => j = k
    BY <1>3, <2>1, <2>3
  <2> HIDE DEF g
  <2> QED
    BY <2>5, <2>7, FewerGiven DEF S, U
<1> QED
  BY <1>1, <1>4, <1>5 DEF s

\* No source keeps more than its quota.
LEMMA CappedHints ==
  ASSUME NEW W, NEW hints \in Seq(W)
  PROVE  LET s == capHintsBySource(hints) IN
         /\ s \in Seq(W) /\ Len(s) <= Len(hints)
         /\ \A source : Cardinality(GivenBy(s, source)) <= MaxHintsPerSource
         /\ \A i \in DOMAIN hints : Cardinality(NewerOfSource(hints, i)) < MaxHintsPerSource
              => \E j \in DOMAIN s : s[j] = hints[i]
<1> DEFINE places == {i \in DOMAIN hints : Cardinality(NewerOfSource(hints, i)) < MaxHintsPerSource}
           s == capHintsBySource(hints)
<1>1. s = Picked(hints, places)
  BY DEF capHintsBySource
<1>2. /\ s \in Seq(W) /\ Len(s) <= Len(hints)
      /\ \A i \in places : \E j \in DOMAIN s : s[j] = hints[i]
      /\ \A source : Cardinality(GivenBy(s, source)) <= Cardinality({i \in places : hints[i].source = source})
  <2> HIDE DEF s
  <2>1. places \in SUBSET DOMAIN hints
    OBVIOUS
  <2> HIDE DEF places
  <2> QED
    BY <1>1, <2>1, PickedHints
<1>3. DOMAIN hints = 1..Len(hints) /\ Len(hints) \in Nat /\ MaxHintsPerSource \in Nat
  BY PoolBounds
<1>4. ASSUME NEW source PROVE Cardinality(GivenBy(s, source)) <= MaxHintsPerSource
  <2> DEFINE Q == GivenBy(hints, source)
             below == [i \in Q |-> NewerOfSource(hints, i)]
             T == {i \in places : hints[i].source = source}
             F == {i \in Q : Cardinality(below[i]) < MaxHintsPerSource}
  <2>1. IsFiniteSet(Q)
    BY GivenIsFinite
  <2>2. \A i \in Q : i \in Int /\ below[i] = {k \in Q : k > i}
    BY <1>3 DEF GivenBy, NewerOfSource
  <2>3. StrictOrder(Q, below)
    <3>1. below \in [Q -> SUBSET Q]
      BY <2>2
    <3> HIDE DEF Q, below
    <3> QED
      BY <2>2, <3>1 DEF StrictOrder
  <2>4. T = F
    BY DEF GivenBy
  <2> HIDE DEF Q, below, T
  <2>5. IsFiniteSet(F) /\ Cardinality(F) <= MaxHintsPerSource
    BY <1>3, <2>1, <2>3, RanksBound
  <2> HIDE DEF F
  <2>6. Cardinality(F) \in Nat
    BY <2>5, FS_CardinalityType
  <2>7. IsFiniteSet(GivenBy(s, source)) /\ Cardinality(GivenBy(s, source)) \in Nat
    BY <1>2, GivenIsFinite
  <2>8. Cardinality(GivenBy(s, source)) <= Cardinality(F)
    BY <1>2, <2>4 DEF T
  <2> QED
    BY <1>3, <2>5, <2>6, <2>7, <2>8
<1> QED
  BY <1>2, <1>4

-----------------------------------------------------------------------------
(* The tables. *)

PoolTables == [trusted : Seq(Known), explore : Seq(Known), hints : Seq(PoolHint)]

HintTableTyped(t) ==
  /\ t \in PoolTables
  /\ PoolRoster(t.trusted) /\ PoolRoster(t.explore) /\ t.hints \in Seq(PoolHint)

\* Within every cap.
TableFits(t) ==
  /\ Len(t.trusted) <= MaxTrusted /\ Len(t.explore) <= MaxExplore
  /\ \A source : Cardinality(GivenBy(t.hints, source)) <= MaxHintsPerSource

PoolsInv ==
  /\ HintTableTyped(net) /\ HintTableTyped(networkFile) /\ TableFits(networkFile)
  /\ denied \subseteq Known /\ (~unsaved => net = networkFile)

LEMMA CleanTables ==
  ASSUME NEW t, HintTableTyped(t)
  PROVE  HintTableTyped(CleanNetwork(t)) /\ TableFits(CleanNetwork(t))
<1> DEFINE a == Newest(MaxTrusted, t.trusted)
           b == Newest(MaxExplore, t.explore)
           live == Live(t.hints)
           cap == capHintsBySource(live)
           h == Newest(MaxHints, cap)
           c == CleanNetwork(t)
<1>1. MaxTrusted \in Nat /\ MaxExplore \in Nat /\ MaxHints \in Nat /\ MaxHintsPerSource \in Nat
  BY PoolBounds
<1>2. PoolRoster(t.trusted) /\ PoolRoster(t.explore) /\ t.hints \in Seq(PoolHint)
  BY DEF HintTableTyped
<1>3. PoolRoster(a) /\ Len(a) <= MaxTrusted
  BY <1>1, <1>2, NewestRoster
<1>4. PoolRoster(b) /\ Len(b) <= MaxExplore
  BY <1>1, <1>2, NewestRoster
<1>5. live \in Seq(PoolHint)
  <2> DEFINE places == {i \in DOMAIN t.hints : t.hints[i].live}
  <2>1. live = Picked(t.hints, places)
    BY DEF Live
  <2>2. places \in SUBSET DOMAIN t.hints
    OBVIOUS
  <2> HIDE DEF places, live
  <2> QED
    BY <1>2, <2>1, <2>2, PickedHints
<1> HIDE DEF live
<1>6. cap \in Seq(PoolHint) /\ \A source : Cardinality(GivenBy(cap, source)) <= MaxHintsPerSource
  BY <1>5, CappedHints
<1> HIDE DEF cap
<1>7. h \in Seq(PoolHint) /\ \A source : Cardinality(GivenBy(h, source)) <= Cardinality(GivenBy(cap, source))
  BY <1>1, <1>6, NewestHints
<1>8. c = [trusted |-> a, explore |-> b, hints |-> h]
  BY DEF CleanNetwork, live, cap
<1> HIDE DEF a, b, h, c
<1>9. c.trusted = a /\ c.explore = b /\ c.hints = h
  BY <1>8
<1>10. ASSUME NEW source PROVE Cardinality(GivenBy(h, source)) <= MaxHintsPerSource
  <2>1. Cardinality(GivenBy(h, source)) \in Nat /\ Cardinality(GivenBy(cap, source)) \in Nat
    BY <1>6, <1>7, GivenIsFinite
  <2> QED
    BY <1>1, <1>6, <1>7, <2>1
<1>11. HintTableTyped(c)
  BY <1>3, <1>4, <1>7, <1>8, <1>9 DEF HintTableTyped, PoolTables, PoolRoster
<1>12. TableFits(c)
  BY <1>3, <1>4, <1>9, <1>10 DEF TableFits
<1> QED
  BY <1>11, <1>12 DEF c

LEMMA SavesSafely ==
  ASSUME PoolsInv, NEW t, HintTableTyped(t), saveNetwork(t)
  PROVE  PoolsInv'
<1>1. HintTableTyped(CleanNetwork(t)) /\ TableFits(CleanNetwork(t))
  BY CleanTables
<1>2. denied' \subseteq Known
  BY DEF PoolsInv, saveNetwork
<1>3. CASE net' = CleanNetwork(t) /\ networkFile' = net' /\ unsaved' = FALSE
  <2>1. HintTableTyped(net') /\ HintTableTyped(networkFile') /\ TableFits(networkFile') /\ net' = networkFile'
    BY <1>1, <1>3
  <2> QED
    BY <1>2, <2>1 DEF PoolsInv, HintTableTyped, TableFits, PoolRoster, GivenBy
<1>4. CASE net' = t /\ unsaved' = TRUE /\ UNCHANGED networkFile
  <2>1. HintTableTyped(net') /\ HintTableTyped(networkFile') /\ TableFits(networkFile') /\ unsaved'
    BY <1>4 DEF PoolsInv
  <2> QED
    BY <1>2, <2>1 DEF PoolsInv, HintTableTyped, TableFits, PoolRoster, GivenBy
<1> QED
  BY <1>3, <1>4 DEF saveNetwork

\* A table of lists of the right kind.
LEMMA TableWith ==
  ASSUME NEW t \in PoolTables, PoolRoster(t.trusted), PoolRoster(t.explore)
  PROVE  HintTableTyped(t)
BY DEF HintTableTyped, PoolTables

LEMMA NetTyped ==
  ASSUME PoolsInv
  PROVE  /\ net \in PoolTables
         /\ PoolRoster(net.trusted) /\ PoolRoster(net.explore) /\ net.hints \in Seq(PoolHint)
BY DEF PoolsInv, HintTableTyped

LEMMA HintedTyped ==
  ASSUME PoolsInv, NEW id \in Known, NEW source \in HintSources
  PROVE  HintTableTyped(Hinted(id, source))
<1> DEFINE rest == OtherHints(net.hints, id)
           new == [node |-> id, source |-> source, kind |-> "hint", live |-> TRUE]
           b == Added(net.explore, id)
           h == Append(rest, new)
<1>1. /\ net \in PoolTables
      /\ PoolRoster(net.trusted) /\ PoolRoster(net.explore) /\ net.hints \in Seq(PoolHint)
  BY NetTyped
<1>2. rest \in Seq(PoolHint)
  <2> DEFINE places == {i \in DOMAIN net.hints : net.hints[i].node # id \/ net.hints[i].kind # "hint"}
  <2>1. rest = Picked(net.hints, places)
    BY DEF OtherHints
  <2>2. places \in SUBSET DOMAIN net.hints
    OBVIOUS
  <2> HIDE DEF places, rest
  <2> QED
    BY <1>1, <2>1, <2>2, PickedHints
<1>3. new \in PoolHint
  BY DEF PoolHint
<1>4. Hinted(id, source) = [net EXCEPT !.explore = b, !.hints = h]
  BY <1>1 DEF Hinted, PoolTables
<1>5. PoolRoster(b)
  BY <1>1, AddedRoster
<1> HIDE DEF b, rest, new
<1>6. h \in Seq(PoolHint)
  BY <1>2, <1>3
<1> HIDE DEF h
<1>7. PICK t : t = Hinted(id, source)
  OBVIOUS
<1>8. t \in PoolTables /\ t.trusted = net.trusted /\ t.explore = b
  BY <1>1, <1>4, <1>5, <1>6, <1>7 DEF PoolTables, PoolRoster
<1> QED
  BY <1>1, <1>5, <1>7, <1>8, TableWith

LEMMA HintsSafely ==
  ASSUME PoolsInv, NEW id \in Known, NEW source \in HintSources, applyNetworkHint(id, source)
  PROVE  PoolsInv'
BY HintedTyped, SavesSafely DEF applyNetworkHint

LEMMA WidensSafely ==
  ASSUME PoolsInv, widenExploreFromTrustedAnchors
  PROVE  PoolsInv'
<1> DEFINE hinted == [i \in DOMAIN net.trusted |->
                       [node |-> net.trusted[i], source |-> "recovery:trusted", kind |-> "recovery", live |-> TRUE]]
           all == net.hints \o hinted
           cap == capHintsBySource(all)
           h == Newest(MaxHints, cap)
           wide == AddedAll(net.explore, net.trusted)
           b == Newest(MaxExplore, wide)
           t == [net EXCEPT !.explore = b, !.hints = h]
<1>1. /\ net \in PoolTables
      /\ PoolRoster(net.trusted) /\ PoolRoster(net.explore) /\ net.hints \in Seq(PoolHint)
  BY NetTyped
<1>2. MaxExplore \in Nat /\ MaxHints \in Nat
  BY PoolBounds
<1>3. hinted \in Seq(PoolHint)
  <2>1. Len(net.trusted) \in Nat /\ DOMAIN net.trusted = 1..Len(net.trusted)
    BY <1>1, RosterCounts
  <2>2. \A i \in 1..Len(net.trusted) : net.trusted[i] \in Known
    BY <1>1 DEF PoolRoster
  <2>3. \A i \in 1..Len(net.trusted) :
          [node |-> net.trusted[i], source |-> "recovery:trusted", kind |-> "recovery", live |-> TRUE] \in PoolHint
    BY <2>2 DEF PoolHint
  <2>4. hinted \in [1..Len(net.trusted) -> PoolHint]
    BY <2>1, <2>3
  <2> HIDE DEF hinted
  <2> QED
    BY <2>1, <2>4, FunctionIsSeq
<1>4. saveNetwork(t)
  BY DEF widenExploreFromTrustedAnchors
<1> HIDE DEF hinted
<1>5. all \in Seq(PoolHint)
  BY <1>1, <1>3
<1> HIDE DEF all
<1>6. cap \in Seq(PoolHint)
  BY <1>5, CappedHints
<1> HIDE DEF cap
<1>7. h \in Seq(PoolHint)
  BY <1>2, <1>6, NewestHints
<1>8. PoolRoster(wide)
  BY <1>1, AddedAllRoster
<1> HIDE DEF wide
<1>9. PoolRoster(b)
  BY <1>2, <1>8, NewestRoster
<1> HIDE DEF h, b
<1>10. t \in PoolTables /\ t.trusted = net.trusted /\ t.explore = b
  BY <1>1, <1>7, <1>9 DEF PoolTables, PoolRoster
<1> HIDE DEF t
<1>11. HintTableTyped(t)
  BY <1>1, <1>9, <1>10, TableWith
<1> QED
  BY <1>4, <1>11, SavesSafely

LEMMA PromotesSafely ==
  ASSUME PoolsInv, NEW id \in Known, promoteExplorePeer(id)
  PROVE  PoolsInv'
<1> DEFINE a == Added(net.trusted, id)
           b == Less(net.explore, {id})
           t == [net EXCEPT !.explore = b, !.trusted = a]
<1>1. /\ net \in PoolTables
      /\ PoolRoster(net.trusted) /\ PoolRoster(net.explore) /\ net.hints \in Seq(PoolHint)
  BY NetTyped
<1>2. saveNetwork(t)
  BY DEF promoteExplorePeer
<1>3. PoolRoster(a)
  BY <1>1, AddedRoster
<1>4. PoolRoster(b)
  BY <1>1, LessRoster
<1> HIDE DEF a, b
<1>5. t \in PoolTables /\ t.trusted = a /\ t.explore = b
  BY <1>1, <1>3, <1>4 DEF PoolTables, PoolRoster
<1> HIDE DEF t
<1>6. HintTableTyped(t)
  BY <1>1, <1>3, <1>4, <1>5, TableWith
<1> QED
  BY <1>2, <1>6, SavesSafely

LEMMA ReplacesSafely ==
  ASSUME PoolsInv, NEW id \in Known, replaceNetworkPeerPools(<<id>>, <<>>)
  PROVE  PoolsInv'
<1> DEFINE t == [net EXCEPT !.trusted = <<id>>, !.explore = <<>>]
<1>1. /\ net \in PoolTables
      /\ net.hints \in Seq(PoolHint)
  BY NetTyped
<1>2. saveNetwork(t)
  BY DEF replaceNetworkPeerPools
<1>3. PoolRoster(<<id>>)
  BY DEF PoolRoster, IsInjective
<1>4. PoolRoster(<<>>)
  BY DEF PoolRoster, IsInjective
<1>5. t \in PoolTables /\ t.trusted = <<id>> /\ t.explore = <<>>
  BY <1>1, <1>3, <1>4 DEF PoolTables, PoolRoster
<1> HIDE DEF t
<1>6. HintTableTyped(t)
  BY <1>1, <1>3, <1>4, <1>5, TableWith
<1> QED
  BY <1>2, <1>6, SavesSafely

LEMMA MergesSafely ==
  ASSUME PoolsInv, NEW ids, ids \subseteq Known, mergePexNodeHints(ids)
  PROVE  PoolsInv'
<1> DEFINE heard == SetToSeq(ids \ denied)
           all == AddedAll(net.explore, heard)
           free == Less(all, denied)
           others == Newest(MaxExplore, free)
           known == AddedAll(net.trusted, others)
           may == Less(known, denied)
           ranked == ByScore(may)
           kept == mergeTrustedWithAnchors(net.trusted, ranked, TrustedSlots)
           a == AddedAll(net.trusted, kept)
           b == AddedAll(net.explore, others)
           t == [net EXCEPT !.trusted = a, !.explore = b]
<1>1. /\ net \in PoolTables
      /\ PoolRoster(net.trusted) /\ PoolRoster(net.explore) /\ net.hints \in Seq(PoolHint)
  BY NetTyped
<1>2. MaxExplore \in Nat /\ TrustedSlots \in Nat
  BY PoolBounds
<1>3. saveNetwork(t)
  BY DEF mergePexNodeHints
<1>4. PoolRoster(heard)
  BY SetRoster
<1> HIDE DEF heard
<1>5. PoolRoster(all)
  BY <1>1, <1>4, AddedAllRoster
<1> HIDE DEF all
<1>6. PoolRoster(free)
  BY <1>5, LessRoster
<1> HIDE DEF free
<1>7. PoolRoster(others)
  BY <1>2, <1>6, NewestRoster
<1> HIDE DEF others
<1>8. PoolRoster(known)
  BY <1>1, <1>7, AddedAllRoster
<1> HIDE DEF known
<1>9. PoolRoster(may)
  BY <1>8, LessRoster
<1> HIDE DEF may
<1>10. PoolRoster(ranked)
  BY <1>9, ByScoreRoster
<1> HIDE DEF ranked
<1>11. PoolRoster(kept)
  BY <1>1, <1>2, <1>10, MergedRoster
<1> HIDE DEF kept
<1>12. PoolRoster(a)
  BY <1>1, <1>11, AddedAllRoster
<1>13. PoolRoster(b)
  BY <1>1, <1>7, AddedAllRoster
<1> HIDE DEF a, b
<1>14. t \in PoolTables /\ t.trusted = a /\ t.explore = b
  BY <1>1, <1>12, <1>13 DEF PoolTables, PoolRoster
<1> HIDE DEF t
<1>15. HintTableTyped(t)
  BY <1>1, <1>12, <1>13, <1>14, TableWith
<1> QED
  BY <1>3, <1>15, SavesSafely

Aged(hints) == [i \in DOMAIN hints |-> [hints[i] EXCEPT !.live = FALSE]]

LEMMA TablesAge ==
  ASSUME NEW t, HintTableTyped(t)
  PROVE  /\ HintTableTyped([t EXCEPT !.hints = Aged(@)])
         /\ TableFits(t) => TableFits([t EXCEPT !.hints = Aged(@)])
<1> DEFINE h == t.hints
           g == Aged(h)
           u == [t EXCEPT !.hints = g]
<1>1. /\ t \in PoolTables
      /\ PoolRoster(t.trusted) /\ PoolRoster(t.explore) /\ t.hints \in Seq(PoolHint)
  BY DEF HintTableTyped
<1>2. u = [t EXCEPT !.hints = Aged(@)]
  BY <1>1 DEF PoolTables
<1> HIDE DEF h
<1>3. Len(h) \in Nat /\ DOMAIN h = 1..Len(h) /\ \A i \in 1..Len(h) : h[i] \in PoolHint
  BY <1>1 DEF h
<1>4. \A i \in 1..Len(h) : [h[i] EXCEPT !.live = FALSE] \in PoolHint /\ [h[i] EXCEPT !.live = FALSE].source = h[i].source
  BY <1>3 DEF PoolHint
<1>5. g \in [1..Len(h) -> PoolHint] /\ \A i \in 1..Len(h) : g[i].source = h[i].source
  BY <1>3, <1>4 DEF Aged
<1> HIDE DEF g
<1>6. g \in Seq(PoolHint)
  BY <1>3, <1>5, FunctionIsSeq
<1>7. \A source : GivenBy(g, source) = GivenBy(h, source)
  BY <1>3, <1>5 DEF GivenBy
<1>8. u \in PoolTables /\ u.trusted = t.trusted /\ u.explore = t.explore /\ u.hints = g
  BY <1>1, <1>6 DEF PoolTables
<1>9. HintTableTyped(u)
  BY <1>1, <1>8, TableWith
<1>10. TableFits(t) => TableFits(u)
  BY <1>7, <1>8 DEF TableFits, h
<1> QED
  BY <1>2, <1>9, <1>10

LEMMA HintsAgeSafely ==
  ASSUME PoolsInv, HintsAge
  PROVE  PoolsInv'
<1>1. /\ net' = [net EXCEPT !.hints = Aged(@)] /\ networkFile' = [networkFile EXCEPT !.hints = Aged(@)]
      /\ denied' = denied /\ unsaved' = unsaved
  BY DEF HintsAge, Aged
<1>2. HintTableTyped(net') /\ HintTableTyped(networkFile') /\ TableFits(networkFile')
  BY <1>1, TablesAge DEF PoolsInv
<1>3. ~unsaved' => net' = networkFile'
  BY <1>1 DEF PoolsInv
<1> QED
  BY <1>1, <1>2, <1>3 DEF PoolsInv, HintTableTyped, TableFits, PoolRoster, GivenBy

LEMMA PoolsInvariant == SpecPools => []PoolsInv
<1>1. InitPools => PoolsInv
  <2> SUFFICES ASSUME InitPools PROVE PoolsInv
    OBVIOUS
  <2>1. net = NoNetwork /\ networkFile = NoNetwork /\ denied = {}
    BY DEF InitPools
  <2>2. PoolRoster(<<>>) /\ <<>> \in Seq(PoolHint)
    BY DEF PoolRoster, IsInjective
  <2>3. HintTableTyped(NoNetwork)
    BY <2>2 DEF HintTableTyped, PoolTables, NoNetwork
  <2>4. ASSUME NEW source PROVE Cardinality(GivenBy(<<>>, source)) <= MaxHintsPerSource
    <3>1. GivenBy(<<>>, source) = {}
      BY DEF GivenBy
    <3>2. Cardinality({}) = 0
      BY FS_EmptySet
    <3>3. Cardinality(GivenBy(<<>>, source)) = 0
      BY <3>1, <3>2
    <3>4. MaxHintsPerSource \in Nat
      BY PoolBounds
    <3> QED
      BY <3>3, <3>4
  <2>5. Len(<<>>) = 0
    OBVIOUS
  <2>6. NoNetwork.trusted = <<>> /\ NoNetwork.explore = <<>> /\ NoNetwork.hints = <<>>
    BY DEF NoNetwork
  <2>7. TableFits(NoNetwork)
    BY <2>4, <2>5, <2>6, PoolBounds DEF TableFits
  <2> QED
    BY <2>1, <2>3, <2>7 DEF PoolsInv
<1>2. PoolsInv /\ [NextPools]_poolVars => PoolsInv'
  <2> SUFFICES ASSUME PoolsInv, [NextPools]_poolVars PROVE PoolsInv'
    OBVIOUS
  <2>1. PoolRoster(net.explore) /\ ToSet(net.explore) \subseteq Known
    BY NetTyped, RosterCounts
  <2>2. ASSUME NEW id \in Known \ {Self}, Deny(id) PROVE PoolsInv'
    <3>1. net' = net /\ networkFile' = networkFile /\ unsaved' = unsaved /\ denied' \subseteq Known
      BY <2>2 DEF Deny, PoolsInv
    <3> QED
      BY <3>1 DEF PoolsInv, HintTableTyped, TableFits, PoolRoster, GivenBy
  <2>3. ASSUME NEW id \in Known \ {Self}, mergePexNodeHints({id, Self}) PROVE PoolsInv'
    <3>1. {id, Self} \subseteq Known
      BY PoolBounds
    <3> QED
      BY <2>3, <3>1, MergesSafely
  <2>4. ASSUME NEW id \in ToSet(net.explore), promoteExplorePeer(id) PROVE PoolsInv'
    BY <2>1, <2>4, PromotesSafely
  <2>5. ASSUME NEW id \in ToSet(net.explore), replaceNetworkPeerPools(<<id>>, <<>>) PROVE PoolsInv'
    BY <2>1, <2>5, ReplacesSafely
  <2>6. ASSUME NEW id \in Known, NEW source \in HintSources, applyNetworkHint(id, source) PROVE PoolsInv'
    BY <2>6, HintsSafely
  <2>7. CASE RestartNetwork
    <3>1. net' = networkFile /\ networkFile' = networkFile /\ denied' = denied
      BY <2>7 DEF RestartNetwork
    <3> QED
      BY <3>1 DEF PoolsInv, HintTableTyped, TableFits, PoolRoster, GivenBy
  <2>8. CASE UNCHANGED poolVars
    <3>1. net' = net /\ networkFile' = networkFile /\ denied' = denied /\ unsaved' = unsaved
      BY <2>8 DEF poolVars
    <3> QED
      BY <3>1 DEF PoolsInv, HintTableTyped, TableFits, PoolRoster, GivenBy
  <2> QED
    BY <2>2, <2>3, <2>4, <2>5, <2>6, <2>7, <2>8, WidensSafely, HintsAgeSafely, Zenon DEF NextPools
<1> QED
  BY <1>1, <1>2, PTL DEF SpecPools

\* The pools hold nobody twice and nobody unknown.
LEMMA PoolsTyped == SpecPools => []PoolsTypeOK
<1>1. PoolsInv => PoolsTypeOK
  BY NetTyped, RosterCounts DEF PoolsInv, PoolsTypeOK, PoolRoster
<1> QED
  BY <1>1, PoolsInvariant, PTL

-----------------------------------------------------------------------------
(* Hints keep their places. *)

\* One more hint of one source leaves a live hint of another, of another node, in the table.
LEMMA HintStays ==
  ASSUME NEW hints \in Seq(PoolHint), NEW h \in ToSet(hints), NEW id \in Known, NEW source \in HintSources,
         Cardinality(GivenBy(hints, h.source)) <= MaxHintsPerSource, h.live, h.source # source,
         h.node # id, Len(hints) < MaxHints, NEW new \in PoolHint, new.source = source
  PROVE  h \in ToSet(Newest(MaxHints, capHintsBySource(Live(Append(OtherHints(hints, id), new)))))
<1> DEFINE places == {i \in DOMAIN hints : hints[i].node # id \/ hints[i].kind # "hint"}
           a == OtherHints(hints, id)
           b == Append(a, new)
           awake == {i \in DOMAIN b : b[i].live}
           c == Live(b)
           d == capHintsBySource(c)
           given(s) == Cardinality(GivenBy(s, h.source))
<1>1. Len(hints) \in Nat /\ MaxHints \in Nat /\ MaxHintsPerSource \in Nat /\ DOMAIN hints = 1..Len(hints)
  BY PoolBounds
<1>2. PICK i \in places : hints[i] = h
  BY DEF ToSet
<1>3. /\ a \in Seq(PoolHint) /\ Len(a) <= Len(hints) /\ \E j \in DOMAIN a : a[j] = h
      /\ Cardinality(GivenBy(a, h.source)) <= Cardinality(GivenBy(hints, h.source))
  <2>1. a = Picked(hints, places)
    BY DEF OtherHints
  <2>2. places \in SUBSET DOMAIN hints
    OBVIOUS
  <2> HIDE DEF places, a
  <2> QED
    BY <1>2, <2>1, <2>2, PickedHints
<1> HIDE DEF a, places
<1>4. b \in Seq(PoolHint) /\ Len(b) = Len(a) + 1 /\ \A j \in DOMAIN a : b[j] = a[j] /\ j \in DOMAIN b
  BY <1>3
<1>5. GivenBy(b, h.source) = GivenBy(a, h.source)
  <2>1. DOMAIN b = 1..(Len(a) + 1) /\ DOMAIN a = 1..Len(a) /\ Len(a) \in Nat /\ b[Len(a) + 1] = new
    BY <1>3
  <2> HIDE DEF b
  <2>2. \A j \in DOMAIN b : j \in DOMAIN a \/ j = Len(a) + 1
    BY <2>1
  <2>3. \A j \in DOMAIN b : b[j].source = h.source => j \in DOMAIN a /\ a[j].source = h.source
    BY <1>4, <2>1, <2>2
  <2>4. \A j \in DOMAIN a : a[j].source = h.source => j \in DOMAIN b /\ b[j].source = h.source
    BY <1>4
  <2> QED
    BY <2>3, <2>4 DEF GivenBy
<1>6. PICK j \in DOMAIN b : b[j] = h
  BY <1>3, <1>4
<1> HIDE DEF b
<1>7. /\ c \in Seq(PoolHint) /\ Len(c) <= Len(b) /\ \E k \in DOMAIN c : c[k] = h
      /\ Cardinality(GivenBy(c, h.source)) <= Cardinality(GivenBy(b, h.source))
  <2>1. c = Picked(b, awake)
    BY DEF Live
  <2>2. awake \in SUBSET DOMAIN b /\ j \in awake
    BY <1>6
  <2> HIDE DEF awake, c
  <2> QED
    BY <1>4, <1>6, <2>1, <2>2, PickedHints
<1> HIDE DEF c
<1>8. PICK k \in DOMAIN c : c[k] = h
  BY <1>7
<1>9. Cardinality(NewerOfSource(c, k)) < MaxHintsPerSource
  <2> DEFINE Q == GivenBy(c, h.source)
             N == NewerOfSource(c, k)
  <2>1. IsFiniteSet(Q) /\ Cardinality(Q) \in Nat
    BY <1>7, GivenIsFinite
  <2>2. k \in Q /\ N \in SUBSET (Q \ {k})
    <3>1. k \in Int /\ DOMAIN c = 1..Len(c)
      BY <1>7
    <3> QED
      BY <1>8, <3>1 DEF GivenBy, NewerOfSource
  <2> HIDE DEF Q, N
  <2>3. IsFiniteSet(Q \ {k}) /\ Cardinality(Q \ {k}) = Cardinality(Q) - 1
    BY <2>1, <2>2, FS_RemoveElement
  <2>4. IsFiniteSet(N) /\ Cardinality(N) <= Cardinality(Q) - 1
    BY <2>2, <2>3, FS_Subset
  <2>5. Cardinality(N) \in Nat
    BY <2>4, FS_CardinalityType
  <2>6. Cardinality(Q) <= MaxHintsPerSource
    <3>1. /\ Cardinality(GivenBy(a, h.source)) \in Nat /\ Cardinality(GivenBy(hints, h.source)) \in Nat
      BY <1>3, GivenIsFinite
    <3>2. Cardinality(Q) <= Cardinality(GivenBy(a, h.source))
      BY <1>5, <1>7 DEF Q
    <3> QED
      BY <1>1, <1>3, <2>1, <3>1, <3>2
  <2> QED
    BY <1>1, <2>1, <2>4, <2>5, <2>6 DEF N
<1>10. /\ d \in Seq(PoolHint) /\ Len(d) <= Len(c) /\ \E n \in DOMAIN d : d[n] = c[k]
  BY <1>7, <1>8, <1>9, CappedHints
<1> HIDE DEF d
<1>11. Newest(MaxHints, d) = d
  <2>1. Len(d) <= MaxHints
    <3>1. Len(a) \in Nat /\ Len(b) \in Nat /\ Len(c) \in Nat /\ Len(d) \in Nat
      BY <1>3, <1>4, <1>7, <1>10
    <3> QED
      BY <1>1, <1>3, <1>4, <1>7, <1>10, <3>1
  <2>2. Len(d) \in Nat
    BY <1>10
  <2> QED
    BY <1>1, <2>1, <2>2 DEF Newest
<1>12. h \in ToSet(d)
  BY <1>8, <1>10 DEF ToSet
<1> QED
  BY <1>11, <1>12 DEF d, c, b, a

LEMMA TablesKept == PoolsInv => PoolsKeep
<1> SUFFICES ASSUME PoolsInv, ~unsaved PROVE
      /\ Len(net.trusted) <= MaxTrusted /\ Len(net.explore) <= MaxExplore
      /\ \A h \in ToSet(net.hints) : Cardinality(GivenBy(net.hints, h.source)) <= MaxHintsPerSource
      /\ \A h \in ToSet(net.hints), id \in Known, source \in HintSources :
           (h.live /\ h.source # source /\ h.node # id /\ Len(net.hints) < MaxHints)
             => Contains(CleanNetwork(Hinted(id, source)).hints, h)
      /\ net = networkFile
  BY DEF PoolsKeep, GivenBy
<1>1. net = networkFile
  BY DEF PoolsInv
<1>2. TableFits(net)
  BY <1>1 DEF PoolsInv
<1>3. net \in PoolTables /\ net.hints \in Seq(PoolHint)
  BY NetTyped
<1>4. ASSUME NEW h \in ToSet(net.hints), NEW id \in Known, NEW source \in HintSources,
             h.live, h.source # source, h.node # id, Len(net.hints) < MaxHints
      PROVE  Contains(CleanNetwork(Hinted(id, source)).hints, h)
  <2> DEFINE new == [node |-> id, source |-> source, kind |-> "hint", live |-> TRUE]
             g == Append(OtherHints(net.hints, id), new)
             k == CleanNetwork(Hinted(id, source)).hints
  <2>1. new \in PoolHint /\ new.source = source
    BY DEF PoolHint
  <2>2. Hinted(id, source).hints = g
    BY <1>3 DEF Hinted, PoolTables
  <2>3. k = Newest(MaxHints, capHintsBySource(Live(g)))
    BY <2>2 DEF CleanNetwork
  <2> HIDE DEF new
  <2>4. Cardinality(GivenBy(net.hints, h.source)) <= MaxHintsPerSource
    BY <1>2 DEF TableFits
  <2>5. h \in ToSet(k)
    BY <1>3, <1>4, <2>1, <2>3, <2>4, HintStays
  <2>6. HintTableTyped(CleanNetwork(Hinted(id, source)))
    BY HintedTyped, CleanTables
  <2>7. k \in Seq(PoolHint)
    BY <2>6 DEF HintTableTyped
  <2> HIDE DEF k
  <2>8. DOMAIN k = 1..Len(k)
    BY <2>7
  <2>9. Contains(k, h)
    BY <2>5, <2>8 DEF ToSet, Contains
  <2> QED
    BY <2>9 DEF k
<1> QED
  BY <1>1, <1>2, <1>4 DEF TableFits

-----------------------------------------------------------------------------
(* The choice. *)

LEMMA OrdersAre ==
  ASSUME NEW order \in Orders
  PROVE  order \in [Known -> Nat] /\ \A a, b \in Known : order[a] = order[b] => a = b
<1> DEFINE T == {order[id] : id \in Known}
           n == Cardinality(Known)
<1>1. order \in [Known -> 1..n] /\ Cardinality(T) = n
  BY DEF Orders
<1>2. IsFiniteSet(Known)
  BY PoolBounds
<1>3. order \in Surjection(Known, T)
  BY <1>1 DEF Surjection
<1> HIDE DEF T
<1>4. order \in Injection(Known, T)
  BY <1>1, <1>2, <1>3, FS_SurjSameCardinalityImpliesInj
<1>5. order \in [Known -> Nat]
  BY <1>1
<1> QED
  BY <1>4, <1>5 DEF Injection, IsInjective

\* A shuffle of some nodes is a strict order of them.
LEMMA ShuffleOrders ==
  ASSUME NEW order \in [Known -> Nat], \A a, b \in Known : order[a] = order[b] => a = b,
         NEW S, S \subseteq Known, NEW below, below = [id \in S |-> {x \in S : order[x] < order[id]}]
  PROVE  StrictOrder(S, below)
<1>0. \A a \in S : order[a] \in Nat /\ below[a] = {x \in S : order[x] < order[a]}
  OBVIOUS
<1>1. below \in [S -> SUBSET S]
  OBVIOUS
<1>2. \A a \in S : a \notin below[a]
  BY <1>0
<1>3. \A a, b \in S : a = b \/ a \in below[b] \/ b \in below[a]
  <2> SUFFICES ASSUME NEW a \in S, NEW b \in S, a # b PROVE order[a] < order[b] \/ order[b] < order[a]
    BY <1>0
  <2>1. order[a] # order[b]
    OBVIOUS
  <2> QED
    BY <1>0, <2>1
<1>4. \A a, b \in S : a \in below[b] => below[a] \subseteq below[b]
  <2> SUFFICES ASSUME NEW a \in S, NEW b \in S, NEW x \in S, order[a] < order[b], order[x] < order[a]
               PROVE  order[x] < order[b]
    BY <1>0
  <2> QED
    BY <1>0
<1> QED
  BY <1>1, <1>2, <1>3, <1>4 DEF StrictOrder

\* Those of a pool that one source gave, and who is ahead of each of them.
OfSource(known, source) == {x \in ToSet(known) : SourceOf(x) = source}
AheadOf(known, order, source) == [id \in OfSource(known, source) |-> Ahead(known, order, id)]

LEMMA TurnsAre ==
  ASSUME NEW known, PoolRoster(known), NEW order \in [Known -> Nat],
         \A a, b \in Known : order[a] = order[b] => a = b, NEW source
  PROVE  /\ IsFiniteSet(OfSource(known, source))
         /\ StrictOrder(OfSource(known, source), AheadOf(known, order, source))
         /\ \A id \in OfSource(known, source) :
              /\ Turn(known, order, id) = Cardinality(AheadOf(known, order, source)[id])
              /\ Turn(known, order, id) \in Nat /\ IsFiniteSet(Ahead(known, order, id))
              /\ Ahead(known, order, id) \subseteq OfSource(known, source)
         /\ \A x, y \in OfSource(known, source) : x \in Ahead(known, order, y) => Turn(known, order, x) < Turn(known, order, y)
         /\ \A x, y \in OfSource(known, source) : Turn(known, order, x) = Turn(known, order, y) => x = y
<1> DEFINE S == OfSource(known, source)
           below == AheadOf(known, order, source)
<1>1. ToSet(known) \subseteq Known /\ IsFiniteSet(ToSet(known))
  BY RosterCounts
<1>2. IsFiniteSet(S) /\ S \subseteq Known
  <2>1. S \in SUBSET ToSet(known)
    BY DEF OfSource
  <2> HIDE DEF S
  <2> QED
    BY <1>1, <2>1, FS_Subset
<1>3. below = [id \in S |-> {x \in S : order[x] < order[id]}]
  BY DEF AheadOf, Ahead, OfSource
<1>4. \A id \in S : below[id] = Ahead(known, order, id) /\ Turn(known, order, id) = Cardinality(below[id])
  BY DEF AheadOf, Turn
<1> HIDE DEF S, below
<1>5. StrictOrder(S, below)
  BY <1>2, <1>3, ShuffleOrders
<1>6. /\ Cardinality(S) \in Nat
      /\ \A a \in S : IsFiniteSet(below[a]) /\ Cardinality(below[a]) \in 0..(Cardinality(S) - 1)
      /\ \A a, b \in S : a \in below[b] => Cardinality(below[a]) < Cardinality(below[b])
      /\ \A a, b \in S : Cardinality(below[a]) = Cardinality(below[b]) => a = b
  BY <1>2, <1>5, RanksCount
<1>7. \A id \in S : /\ Turn(known, order, id) = Cardinality(below[id]) /\ Turn(known, order, id) \in Nat
                    /\ IsFiniteSet(Ahead(known, order, id)) /\ Ahead(known, order, id) \subseteq S
  BY <1>4, <1>5, <1>6 DEF StrictOrder
<1>8. \A x, y \in S : x \in Ahead(known, order, y) => Turn(known, order, x) < Turn(known, order, y)
  BY <1>4, <1>6
<1>9. \A x, y \in S : Turn(known, order, x) = Turn(known, order, y) => x = y
  BY <1>4, <1>6
<1> QED
  BY <1>2, <1>5, <1>7, <1>8, <1>9 DEF S, below

LEMMA FirstsOf ==
  ASSUME NEW known, PoolRoster(known), NEW id \in ToSet(known)
  PROVE  FirstOf(known, id) \in Nat /\ SourceOf(known[FirstOf(known, id)]) = SourceOf(id)
<1> DEFINE S == {i \in DOMAIN known : SourceOf(known[i]) = SourceOf(id)}
           f == FirstOf(known, id)
<1>1. DOMAIN known = 1..Len(known) /\ Len(known) \in Nat
  BY RosterCounts
<1>2. PICK k \in DOMAIN known : known[k] = id
  BY DEF ToSet
<1>3. S \subseteq Nat /\ S # {}
  BY <1>1, <1>2
<1>4. PICK i \in S : \A j \in S : i <= j
  <2> HIDE DEF S
  <2> QED
    BY <1>3, LeastNatural
<1>5. f = CHOOSE j \in DOMAIN known :
            SourceOf(known[j]) = SourceOf(id) /\ \A m \in DOMAIN known : SourceOf(known[m]) = SourceOf(id) => j <= m
  BY DEF FirstOf
<1>6. i \in DOMAIN known /\ SourceOf(known[i]) = SourceOf(id)
      /\ \A m \in DOMAIN known : SourceOf(known[m]) = SourceOf(id) => i <= m
  BY <1>4
<1> HIDE DEF f, S
<1>7. f \in DOMAIN known /\ SourceOf(known[f]) = SourceOf(id)
  BY <1>5, <1>6
<1> QED
  BY <1>1, <1>7 DEF f

\* Who is given sooner than whom.
Sooner(known, order, x, id) ==
  \/ Turn(known, order, x) < Turn(known, order, id)
  \/ Turn(known, order, x) = Turn(known, order, id) /\ FirstOf(known, x) < FirstOf(known, id)

MayBeGiven(known, order) == {id \in ToSet(known) : Turn(known, order, id) < ExploreMaxPerSource}

SoonerThan(known, order) ==
  [id \in MayBeGiven(known, order) |-> {x \in MayBeGiven(known, order) : Sooner(known, order, x, id)}]

LEMMA RoundsOrder ==
  ASSUME NEW known, PoolRoster(known), NEW order \in [Known -> Nat],
         \A a, b \in Known : order[a] = order[b] => a = b
  PROVE  IsFiniteSet(MayBeGiven(known, order)) /\ StrictOrder(MayBeGiven(known, order), SoonerThan(known, order))
<1> DEFINE M == MayBeGiven(known, order)
           below == SoonerThan(known, order)
           turn(x) == Turn(known, order, x)
           first(x) == FirstOf(known, x)
<1>1. M \in SUBSET ToSet(known) /\ IsFiniteSet(ToSet(known))
  BY RosterCounts DEF MayBeGiven
<1>2. below \in [M -> SUBSET M] /\ \A a \in M : below[a] = {x \in M : Sooner(known, order, x, a)}
  BY DEF SoonerThan
<1> HIDE DEF M, below
<1>3. IsFiniteSet(M)
  BY <1>1, FS_Subset
<1>4. \A x \in M : x \in OfSource(known, SourceOf(x))
  BY <1>1 DEF OfSource
<1>5. \A x \in M : turn(x) \in Nat
  BY <1>4, TurnsAre
<1>6. \A x \in M : first(x) \in Nat /\ SourceOf(known[first(x)]) = SourceOf(x)
  BY <1>1, FirstsOf
<1>7. ASSUME NEW x \in M, NEW y \in M, turn(x) = turn(y), first(x) = first(y) PROVE x = y
  <2>1. SourceOf(x) = SourceOf(y)
    BY <1>6, <1>7
  <2>2. x \in OfSource(known, SourceOf(x)) /\ y \in OfSource(known, SourceOf(x))
    BY <1>4, <2>1
  <2> QED
    BY <1>7, <2>2, TurnsAre
<1>8. \A a, b \in M : Sooner(known, order, a, b) <=> turn(a) < turn(b) \/ (turn(a) = turn(b) /\ first(a) < first(b))
  BY DEF Sooner
<1> HIDE DEF turn, first
<1>9. \A a \in M : ~Sooner(known, order, a, a)
  BY <1>5, <1>6, <1>8
<1>10. \A a, b \in M : a = b \/ Sooner(known, order, a, b) \/ Sooner(known, order, b, a)
  BY <1>5, <1>6, <1>7, <1>8
<1>11. \A a, b, c \in M : Sooner(known, order, a, b) /\ Sooner(known, order, c, a) => Sooner(known, order, c, b)
  BY <1>5, <1>6, <1>8
<1>12. StrictOrder(M, below)
  <2>1. \A a \in M : a \notin below[a]
    BY <1>2, <1>9
  <2>2. \A a, b \in M : a = b \/ a \in below[b] \/ b \in below[a]
    BY <1>2, <1>10
  <2>3. \A a, b \in M : a \in below[b] => below[a] \subseteq below[b]
    BY <1>2, <1>11
  <2> QED
    BY <1>2, <2>1, <2>2, <2>3 DEF StrictOrder
<1> QED
  BY <1>3, <1>12 DEF M, below

\* The choice from a pool while there are hints: those with fewer than k sooner.
LEMMA SelectedByRounds ==
  ASSUME NEW known, NEW order, NEW k, net.hints # <<>>
  PROVE  selectExploreWithSourceQuota(known, order, k)
           = {id \in MayBeGiven(known, order) : Cardinality(SoonerThan(known, order)[id]) < k}
BY DEF selectExploreWithSourceQuota, MayBeGiven, SoonerThan, Sooner

LEMMA SelectsWithin ==
  ASSUME NEW known, PoolRoster(known), NEW order \in Orders, NEW k \in Nat
  PROVE  LET sel == selectExploreWithSourceQuota(known, order, k) IN
         sel \subseteq ToSet(known) /\ IsFiniteSet(sel) /\ Cardinality(sel) <= k
<1> DEFINE sel == selectExploreWithSourceQuota(known, order, k)
<1>1. order \in [Known -> Nat] /\ \A a, b \in Known : order[a] = order[b] => a = b
  BY OrdersAre
<1>2. CASE net.hints = <<>>
  <2> DEFINE S == ToSet(known)
             below == [id \in S |-> {x \in S : order[x] < order[id]}]
  <2>1. sel = {id \in S : Cardinality(below[id]) < k}
    BY <1>2 DEF selectExploreWithSourceQuota
  <2>2. S \subseteq Known /\ IsFiniteSet(S)
    BY RosterCounts
  <2> HIDE DEF S, sel
  <2>3. StrictOrder(S, below)
    BY <1>1, <2>2, ShuffleOrders
  <2> HIDE DEF below
  <2>4. IsFiniteSet({id \in S : Cardinality(below[id]) < k}) /\ Cardinality({id \in S : Cardinality(below[id]) < k}) <= k
    BY <2>2, <2>3, RanksBound
  <2>5. sel \subseteq S
    BY <2>1
  <2>6. IsFiniteSet(sel) /\ Cardinality(sel) <= k
    BY <2>1, <2>4
  <2> QED
    BY <2>5, <2>6 DEF S, sel
<1>3. CASE net.hints # <<>>
  <2> DEFINE M == MayBeGiven(known, order)
             below == SoonerThan(known, order)
  <2>1. sel = {id \in M : Cardinality(below[id]) < k}
    BY <1>3, SelectedByRounds
  <2>2. IsFiniteSet(M) /\ StrictOrder(M, below)
    BY <1>1, RoundsOrder
  <2>3. M \subseteq ToSet(known)
    BY DEF MayBeGiven
  <2> HIDE DEF M, sel, below
  <2>4. IsFiniteSet({id \in M : Cardinality(below[id]) < k}) /\ Cardinality({id \in M : Cardinality(below[id]) < k}) <= k
    BY <2>2, RanksBound
  <2>5. sel \subseteq ToSet(known)
    BY <2>1, <2>3
  <2>6. IsFiniteSet(sel) /\ Cardinality(sel) <= k
    BY <2>1, <2>4
  <2> QED
    BY <2>5, <2>6 DEF sel
<1> QED
  BY <1>2, <1>3

-----------------------------------------------------------------------------
(* Turns of sources. *)

GivenOf(chosen, source) == {id \in chosen : SourceOf(id) = source}

\* With few turns a source gives few.
LEMMA GivesFew ==
  ASSUME NEW known, PoolRoster(known), NEW order \in Orders, NEW source, NEW n \in Nat,
         NEW chosen, chosen \subseteq OfSource(known, source), \A id \in chosen : Turn(known, order, id) < n
  PROVE  IsFiniteSet(chosen) /\ Cardinality(chosen) \in Nat /\ Cardinality(chosen) <= n
<1> DEFINE S == OfSource(known, source)
           below == AheadOf(known, order, source)
           T == {id \in S : Cardinality(below[id]) < n}
<1>1. order \in [Known -> Nat] /\ \A a, b \in Known : order[a] = order[b] => a = b
  BY OrdersAre
<1>2. IsFiniteSet(S) /\ StrictOrder(S, below) /\ \A id \in S : Turn(known, order, id) = Cardinality(below[id])
  BY <1>1, TurnsAre
<1> HIDE DEF S, below
<1>3. IsFiniteSet(T) /\ Cardinality(T) <= n
  BY <1>2, RanksBound
<1>4. chosen \in SUBSET T
  BY <1>2 DEF S
<1> HIDE DEF T
<1>5. IsFiniteSet(chosen) /\ Cardinality(chosen) <= Cardinality(T)
  BY <1>3, <1>4, FS_Subset
<1>6. Cardinality(chosen) \in Nat /\ Cardinality(T) \in Nat
  BY <1>3, <1>5, FS_CardinalityType
<1> QED
  BY <1>3, <1>5, <1>6

\* A choice is fair among the sources.
LEMMA SelectsFairly ==
  ASSUME NEW known, PoolRoster(known), NEW order \in Orders, NEW k \in Nat
  PROVE  SharesAreFair(ToSet(known), selectExploreWithSourceQuota(known, order, k))
<1> DEFINE sel == selectExploreWithSourceQuota(known, order, k)
           P == ToSet(known)
           M == MayBeGiven(known, order)
           below == SoonerThan(known, order)
           turn(x) == Turn(known, order, x)
           given(source) == Cardinality(GivenOf(sel, source))
<1>0. ExploreMaxPerSource \in Nat
  BY PoolBounds
<1>1. sel \subseteq P /\ IsFiniteSet(sel) /\ Cardinality(sel) <= k
  BY SelectsWithin
<1> SUFFICES ASSUME net.hints # <<>>, NEW a
             PROVE  /\ given(a) <= ExploreMaxPerSource
                    /\ \A b : (given(b) < ExploreMaxPerSource /\ \E v \in P \ sel : SourceOf(v) = b)
                          => given(a) <= given(b) + 1
  <2>1. SharesAreFair(P, sel) <=>
          /\ sel \subseteq P
          /\ net.hints # <<>> => \A s \in {SourceOf(id) : id \in P} :
               given(s) <= ExploreMaxPerSource
               /\ \A r \in {SourceOf(id) : id \in P} :
                    (given(r) < ExploreMaxPerSource /\ \E id \in P \ sel : SourceOf(id) = r) => given(s) <= given(r) + 1
    BY DEF SharesAreFair, GivenOf
  <2> HIDE DEF sel, P, given
  <2> QED
    BY <1>1, <2>1 DEF sel, P
<1>3. order \in [Known -> Nat] /\ \A x, y \in Known : order[x] = order[y] => x = y
  BY OrdersAre
<1>4. sel = {id \in M : Cardinality(below[id]) < k}
  BY SelectedByRounds
<1>5. M \subseteq P /\ \A id \in M : turn(id) < ExploreMaxPerSource
  BY DEF MayBeGiven
<1>6. IsFiniteSet(M) /\ StrictOrder(M, below)
  BY <1>3, RoundsOrder
<1>7. ASSUME NEW source PROVE GivenOf(sel, source) \subseteq OfSource(known, source)
  BY <1>1 DEF GivenOf, OfSource
<1>8. given(a) <= ExploreMaxPerSource
  <2>1. \A id \in GivenOf(sel, a) : Turn(known, order, id) < ExploreMaxPerSource
    BY <1>4, <1>5 DEF GivenOf
  <2> QED
    BY <1>0, <1>7, <2>1, GivesFew
<1>9. ASSUME NEW b, given(b) < ExploreMaxPerSource, NEW v \in P \ sel, SourceOf(v) = b
      PROVE  given(a) <= given(b) + 1
  <2> DEFINE U == {x \in OfSource(known, b) : x \notin sel}
             R == {turn(x) : x \in U}
  <2>1. /\ IsFiniteSet(OfSource(known, b))
        /\ \A id \in OfSource(known, b) : turn(id) \in Nat /\ IsFiniteSet(Ahead(known, order, id)) /\ Ahead(known, order, id) \subseteq OfSource(known, b)
        /\ \A x, y \in OfSource(known, b) : x \in Ahead(known, order, y) => turn(x) < turn(y)
    BY <1>3, TurnsAre
  <2>2. v \in U
    BY <1>9 DEF OfSource
  <2>3. R \subseteq Nat /\ R # {}
    BY <2>1, <2>2
  <2>4. PICK t \in R : \A m \in R : t <= m
    <3> HIDE DEF R
    <3> QED
      BY <2>3, LeastNatural
  <2>5. PICK u \in U : turn(u) = t
    BY <2>4
  <2>6. u \in OfSource(known, b) /\ u \in P /\ u \notin sel /\ \A x \in U : turn(u) <= turn(x)
    BY <2>4, <2>5 DEF OfSource
  <2>7. Ahead(known, order, u) \subseteq GivenOf(sel, b)
    <3> SUFFICES ASSUME NEW x \in Ahead(known, order, u) PROVE x \in sel /\ SourceOf(x) = b
      BY DEF GivenOf
    <3>1. x \in OfSource(known, b) /\ turn(x) < turn(u) /\ turn(x) \in Nat /\ turn(u) \in Nat
      BY <2>1, <2>6
    <3>2. x \notin U
      BY <2>6, <3>1
    <3> QED
      BY <3>1, <3>2 DEF OfSource
  <2>8. given(b) \in Nat /\ IsFiniteSet(GivenOf(sel, b))
    <3>1. GivenOf(sel, b) \in SUBSET sel
      BY DEF GivenOf
    <3>2. IsFiniteSet(GivenOf(sel, b))
      BY <1>1, <3>1, FS_Subset
    <3> QED
      BY <3>2, FS_CardinalityType
  <2>9. turn(u) \in Nat /\ turn(u) <= given(b)
    <3>1. turn(u) = Cardinality(Ahead(known, order, u)) /\ turn(u) \in Nat
      BY <2>1, <2>6 DEF Turn
    <3>2. Cardinality(Ahead(known, order, u)) <= Cardinality(GivenOf(sel, b))
      BY <2>7, <2>8, FS_Subset
    <3> QED
      BY <3>1, <3>2
  <2>10. u \in M
    <3>1. turn(u) < ExploreMaxPerSource
      BY <1>0, <1>9, <2>8, <2>9
    <3> QED
      BY <2>6, <3>1 DEF MayBeGiven
  <2>11. ASSUME NEW x \in GivenOf(sel, a) PROVE Turn(known, order, x) < given(b) + 1
    <3>1. x \in M /\ Cardinality(below[x]) < k
      BY <1>4 DEF GivenOf
    <3>2. ~(Cardinality(below[u]) < k)
      BY <1>4, <2>6, <2>10
    <3>3. /\ Cardinality(below[x]) \in Nat /\ Cardinality(below[u]) \in Nat
          /\ u \in below[x] => Cardinality(below[u]) < Cardinality(below[x])
      <4>1. /\ Cardinality(M) \in Nat
            /\ \A y \in M : Cardinality(below[y]) \in 0..(Cardinality(M) - 1)
            /\ \A y, z \in M : y \in below[z] => Cardinality(below[y]) < Cardinality(below[z])
        BY <1>6, RanksCount
      <4> QED
        BY <2>10, <3>1, <4>1
    <3>4. u \notin below[x]
      BY <3>1, <3>2, <3>3
    <3>5. ~Sooner(known, order, u, x)
      BY <2>10, <3>1, <3>4 DEF SoonerThan
    <3>6. ~(turn(u) < turn(x))
      BY <3>5 DEF Sooner
    <3>7. x \in OfSource(known, a)
      BY <1>7
    <3>8. turn(x) \in Nat
      BY <1>3, <3>7, TurnsAre
    <3> QED
      BY <2>8, <2>9, <3>6, <3>8
  <2>12. given(b) + 1 \in Nat
    BY <2>8
  <2> HIDE DEF given
  <2>13. Cardinality(GivenOf(sel, a)) <= given(b) + 1
    BY <1>7, <2>11, <2>12, GivesFew
  <2> QED
    BY <2>13 DEF given
<1> QED
  BY <1>8, <1>9

\* The two parts of a set of nodes.
LEMMA PartsCount ==
  ASSUME NEW A, IsFiniteSet(A), NEW B
  PROVE  /\ IsFiniteSet(A \cap B) /\ IsFiniteSet(A \ B) /\ Cardinality(A \cap B) \in Nat /\ Cardinality(A \ B) \in Nat
         /\ Cardinality(A) \in Nat /\ Cardinality(A) = Cardinality(A \cap B) + Cardinality(A \ B)
<1>1. IsFiniteSet(A \cap B) /\ IsFiniteSet(A \ B) /\ Cardinality(A \ B) = Cardinality(A) - Cardinality(A \cap B)
  BY FS_Intersection, FS_Difference
<1>2. Cardinality(A \cap B) \in Nat /\ Cardinality(A) \in Nat /\ Cardinality(A \ B) \in Nat
  BY <1>1, FS_CardinalityType
<1> QED
  BY <1>1, <1>2

LEMMA DisjointCount ==
  ASSUME NEW A, IsFiniteSet(A), NEW B, IsFiniteSet(B), A \cap B = {}
  PROVE  IsFiniteSet(A \cup B) /\ Cardinality(A \cup B) = Cardinality(A) + Cardinality(B)
<1>1. IsFiniteSet(A \cup B) /\ Cardinality(A \cup B) = Cardinality(A) + Cardinality(B) - Cardinality(A \cap B)
  BY FS_Union
<1>2. Cardinality(A \cap B) = 0 /\ Cardinality(A) \in Nat /\ Cardinality(B) \in Nat
  BY FS_EmptySet, FS_CardinalityType
<1> QED
  BY <1>1, <1>2

-----------------------------------------------------------------------------
(* Targets. *)

LEMMA EligibleAre ==
  ASSUME NEW list, PoolRoster(list), NEW quarantined
  PROVE  /\ PoolRoster(Eligible(list, quarantined))
         /\ ToSet(Eligible(list, quarantined)) = ToSet(list) \ ({Self} \cup denied \cup quarantined)
BY LessRoster DEF Eligible

LEMMA MeshFits ==
  ASSUME PoolsInv, NEW connected, connected \subseteq Known \ {Self}, NEW order \in Orders
  PROVE  LET t == MeshTargets(connected, {}, order)
             friends == ToSet(net.trusted) \ (denied \cup {Self})
             K == IF MeshK < Cardinality(friends) THEN MeshK ELSE Cardinality(friends)
         IN /\ (t.trusted \cup t.explore) \cap (connected \cup denied \cup {Self}) = {}
            /\ Cardinality((connected \cup t.trusted) \cap friends) >= K
            /\ t.explore # {} => /\ Cardinality(connected \cup t.trusted \cup t.explore) <= MeshN
                                 /\ Cardinality(connected \ friends) + Cardinality(t.explore) <= MeshN - K
            /\ SharesAreFair(t.pool, t.explore)
<1> DEFINE friends == ToSet(net.trusted) \ (denied \cup {Self})
           kept == Eligible(net.trusted, {})
           K == IF MeshK < Len(kept) THEN MeshK ELSE Len(kept)
           met == Cardinality(connected \cap ToSet(kept))
           gap == IF K > met THEN K - met ELSE 0
           others == Less(kept, connected)
           ranked == ByScore(others)
           wanted == Oldest(gap, ranked)
           strangers == Cardinality(connected) - met
           quota == IF MeshN - K > strangers THEN MeshN - K - strangers ELSE 0
           used == Cardinality(connected) + Len(wanted)
           free == IF MeshN > used THEN MeshN - used ELSE 0
           open == Eligible(net.explore, {})
           known == Less(open, connected \cup ToSet(kept))
           need == IF quota < free THEN quota ELSE free
           given == selectExploreWithSourceQuota(known, order, need)
           t == MeshTargets(connected, {}, order)
<1>0. t = [trusted |-> ToSet(wanted), pool |-> ToSet(known), need |-> need, explore |-> given]
  BY DEF MeshTargets
<1>1. PoolRoster(net.trusted) /\ PoolRoster(net.explore)
  BY NetTyped
<1>2. PoolRoster(kept) /\ ToSet(kept) = friends
  <2>1. PoolRoster(kept) /\ ToSet(kept) = ToSet(net.trusted) \ ({Self} \cup denied \cup {})
    BY <1>1, EligibleAre
  <2>2. {Self} \cup denied \cup {} = denied \cup {Self}
    OBVIOUS
  <2> QED
    BY <2>1, <2>2
<1>3. IsFiniteSet(connected) /\ Cardinality(connected) \in Nat
  <2>1. connected \in SUBSET Known
    OBVIOUS
  <2> QED
    BY <2>1, PoolBounds, FS_Subset, FS_CardinalityType
<1>4. IsFiniteSet(friends) /\ Cardinality(friends) = Len(kept) /\ Len(kept) \in Nat
  BY <1>2, RosterCounts
<1>5. MeshN \in Nat /\ MeshK \in Nat /\ MeshK <= MeshN
  BY PoolBounds
<1> HIDE DEF t, kept, friends
<1>6. /\ IsFiniteSet(connected \cap friends) /\ IsFiniteSet(connected \ friends) /\ met \in Nat
      /\ Cardinality(connected \ friends) \in Nat /\ Cardinality(connected) = met + Cardinality(connected \ friends)
      /\ met = Cardinality(connected \cap friends)
  BY <1>2, <1>3, PartsCount
<1>7. /\ IsFiniteSet(friends \ connected) /\ Cardinality(friends) = met + Cardinality(friends \ connected)
      /\ Cardinality(friends \ connected) \in Nat
  <2>1. friends \cap connected = connected \cap friends
    OBVIOUS
  <2> QED
    BY <1>4, <1>6, <2>1, PartsCount
<1>8. strangers = Cardinality(connected \ friends)
  <2> HIDE DEF met
  <2> QED
    BY <1>3, <1>6
<1>9. PoolRoster(others) /\ ToSet(others) = friends \ connected
  BY <1>2, LessRoster
<1>10. Len(others) = Cardinality(friends) - met /\ Len(others) \in Nat
  <2>1. Cardinality(ToSet(others)) = Len(others) /\ Len(others) \in Nat
    BY <1>9, RosterCounts
  <2>2. Cardinality(friends) \in Nat
    BY <1>4
  <2> HIDE DEF met, others
  <2> QED
    BY <1>6, <1>7, <1>9, <2>1, <2>2
<1> HIDE DEF others, met
<1>11. PoolRoster(ranked) /\ ToSet(ranked) = friends \ connected /\ Len(ranked) = Len(others)
  BY <1>9, ByScoreRoster
<1> HIDE DEF ranked
<1>12. K \in Nat /\ K <= Len(kept) /\ K <= MeshN
  BY <1>4, <1>5
<1> HIDE DEF K
<1>13. gap \in Nat
  BY <1>6, <1>12
<1>14. /\ PoolRoster(wanted) /\ ToSet(wanted) \subseteq friends \ connected
       /\ Len(wanted) = IF gap < Cardinality(friends) - met THEN gap ELSE Cardinality(friends) - met
  <2> HIDE DEF gap
  <2>1. /\ PoolRoster(wanted) /\ ToSet(wanted) \subseteq ToSet(ranked)
        /\ Len(wanted) = IF gap < Len(ranked) THEN gap ELSE Len(ranked)
    BY <1>11, <1>13, OldestRoster
  <2> QED
    BY <1>10, <1>11, <2>1
<1> HIDE DEF wanted
<1>15. IsFiniteSet(ToSet(wanted)) /\ Cardinality(ToSet(wanted)) = Len(wanted) /\ Len(wanted) \in Nat
  BY <1>14, RosterCounts
<1>16. PoolRoster(open) /\ ToSet(open) = ToSet(net.explore) \ ({Self} \cup denied \cup {})
  BY <1>1, EligibleAre
<1> HIDE DEF open
<1>17. PoolRoster(known) /\ ToSet(known) = ToSet(open) \ (connected \cup friends)
  BY <1>2, <1>16, LessRoster
<1> HIDE DEF known
<1>18. quota \in Nat /\ free \in Nat /\ strangers \in Nat
  <2>1. strangers \in Nat
    BY <1>6, <1>8
  <2> HIDE DEF strangers
  <2>2. quota \in Nat
    BY <1>5, <1>12, <2>1
  <2>3. free \in Nat
    BY <1>3, <1>5, <1>15
  <2> QED
    BY <2>1, <2>2, <2>3
<1>19. used = met + strangers + Len(wanted)
  <2> HIDE DEF met
  <2> QED
    BY <1>3, <1>6, <1>15
<1>20. free = IF MeshN > met + strangers + Len(wanted) THEN MeshN - (met + strangers + Len(wanted)) ELSE 0
  BY <1>19
<1> HIDE DEF strangers, used
<1>20a. quota = IF MeshN - K > strangers THEN MeshN - K - strangers ELSE 0
  OBVIOUS
<1> HIDE DEF free, quota
<1>21. need \in Nat /\ need <= quota /\ need <= free
  BY <1>18
<1> HIDE DEF need
<1>22. given \subseteq ToSet(known) /\ IsFiniteSet(given) /\ Cardinality(given) <= need
  BY <1>17, <1>21, SelectsWithin
<1>23. SharesAreFair(ToSet(known), given)
  BY <1>17, <1>21, SelectsFairly
<1> HIDE DEF given
<1>24. Cardinality(given) \in Nat /\ Cardinality(given) <= quota /\ Cardinality(given) <= free
  <2>1. Cardinality(given) \in Nat
    BY <1>22, FS_CardinalityType
  <2> QED
    BY <1>18, <1>21, <1>22, <2>1
<1>25. /\ met + Len(wanted) >= K
       /\ Cardinality(given) > 0 => /\ met + strangers + Len(wanted) + Cardinality(given) <= MeshN
                                    /\ strangers + Cardinality(given) <= MeshN - K
  <2>1. gap = IF K > met THEN K - met ELSE 0
    OBVIOUS
  <2>2. Cardinality(friends) \in Nat /\ met <= Cardinality(friends) /\ K <= Cardinality(friends)
    BY <1>4, <1>6, <1>7, <1>12
  <2> HIDE DEF gap
  <2>3. met + Len(wanted) >= K
    BY <1>6, <1>12, <1>13, <1>14, <1>15, <2>1, <2>2
  <2>4. Cardinality(given) > 0 => strangers + Cardinality(given) <= MeshN - K
    BY <1>5, <1>12, <1>18, <1>20a, <1>24
  <2>5. Cardinality(given) > 0 => met + strangers + Len(wanted) + Cardinality(given) <= MeshN
    <3>1. PICK x : x = met + strangers + Len(wanted)
      OBVIOUS
    <3>2. x \in Nat
      BY <1>6, <1>15, <1>18, <3>1
    <3>3. free = IF MeshN > x THEN MeshN - x ELSE 0
      BY <1>20, <3>1
    <3>4. Cardinality(given) > 0 => x + Cardinality(given) <= MeshN
      BY <1>5, <1>18, <1>24, <3>2, <3>3
    <3> QED
      BY <3>1, <3>4
  <2> QED
    BY <2>3, <2>4, <2>5
<1>26. Cardinality((connected \cup ToSet(wanted)) \cap friends) >= K
  <2>1. (connected \cup ToSet(wanted)) \cap friends = (connected \cap friends) \cup ToSet(wanted)
    BY <1>14
  <2>2. (connected \cap friends) \cap ToSet(wanted) = {}
    BY <1>14
  <2>3. Cardinality((connected \cap friends) \cup ToSet(wanted)) = met + Len(wanted)
    BY <1>6, <1>15, <2>2, DisjointCount
  <2> QED
    BY <1>25, <2>1, <2>3
<1>27. (ToSet(wanted) \cup given) \cap (connected \cup denied \cup {Self}) = {}
  <2>1. friends \cap (denied \cup {Self}) = {}
    BY DEF friends
  <2> QED
    BY <1>14, <1>16, <1>17, <1>22, <2>1
<1>28. ASSUME given # {}
       PROVE  /\ Cardinality(connected \cup ToSet(wanted) \cup given) <= MeshN
              /\ Cardinality(connected \ friends) + Cardinality(given) <= MeshN - K
  <2>1. Cardinality(given) > 0
    <3>1. Cardinality(given) # 0
      BY <1>22, <1>28, FS_EmptySet
    <3> QED
      BY <1>24, <3>1
  <2>2. connected \cap ToSet(wanted) = {} /\ (connected \cup ToSet(wanted)) \cap given = {}
    BY <1>14, <1>17, <1>22
  <2>3. IsFiniteSet(connected \cup ToSet(wanted)) /\ Cardinality(connected \cup ToSet(wanted)) = Cardinality(connected) + Len(wanted)
    BY <1>3, <1>15, <2>2, DisjointCount
  <2>4. Cardinality((connected \cup ToSet(wanted)) \cup given) = Cardinality(connected \cup ToSet(wanted)) + Cardinality(given)
    BY <1>22, <2>2, <2>3, DisjointCount
  <2>5. Cardinality(connected) = met + strangers
    BY <1>6, <1>8
  <2>6. Cardinality((connected \cup ToSet(wanted)) \cup given) = met + strangers + Len(wanted) + Cardinality(given)
    BY <2>3, <2>4, <2>5
  <2> QED
    BY <1>8, <1>25, <2>1, <2>6
<1>29. t.trusted = ToSet(wanted) /\ t.explore = given /\ t.pool = ToSet(known)
  BY <1>0
<1>30. K = IF MeshK < Cardinality(friends) THEN MeshK ELSE Cardinality(friends)
  BY <1>4 DEF K
<1> QED
  BY <1>23, <1>26, <1>27, <1>28, <1>29, <1>30, Zenon DEF t, friends

LEMMA GroupFits ==
  ASSUME PoolsInv, NEW anchors, anchors \subseteq Known, NEW quarantined, NEW order \in Orders
  PROVE  LET chosen == GroupTargets(SetToSeq(Known), anchors, quarantined, order)
             barred == denied \cup quarantined \cup {Self}
             loyal == (ToSet(net.trusted) \cap chosen) \ anchors
         IN /\ chosen \cap barred = {} /\ anchors \ barred \subseteq chosen
            /\ Cardinality(chosen \ anchors) <= TrustedSlots + ExploreSlots
            /\ ToSet(net.trusted) \subseteq chosen \cup barred \/ Cardinality(loyal) >= TrustedSlots
<1> DEFINE group == SetToSeq(Known)
           may == Eligible(group, quarantined)
           ranked == ByScore(may)
           forced == anchors \cap ToSet(ranked)
           others == Less(ranked, forced)
           kept == mergeTrustedWithAnchors(net.trusted, others, TrustedSlots)
           rest == Less(ranked, forced \cup ToSet(kept))
           sel == selectExploreWithSourceQuota(rest, order, ExploreSlots)
           chosen == GroupTargets(SetToSeq(Known), anchors, quarantined, order)
           barred == denied \cup quarantined \cup {Self}
           loyal == (ToSet(net.trusted) \cap chosen) \ anchors
<1>0. chosen = forced \cup ToSet(kept) \cup sel
  BY DEF GroupTargets
<1> HIDE DEF chosen
<1>1. PoolRoster(net.trusted) /\ TrustedSlots \in Nat /\ ExploreSlots \in Nat /\ ToSet(net.trusted) \subseteq Known
  BY NetTyped, PoolBounds, RosterCounts
<1>2. PoolRoster(group) /\ ToSet(group) = Known
  BY SetRoster
<1> HIDE DEF group
<1>3. PoolRoster(may) /\ ToSet(may) = Known \ barred
  <2>1. PoolRoster(may) /\ ToSet(may) = ToSet(group) \ ({Self} \cup denied \cup quarantined)
    BY <1>2, EligibleAre
  <2>2. {Self} \cup denied \cup quarantined = barred
    OBVIOUS
  <2> QED
    BY <1>2, <2>1, <2>2
<1> HIDE DEF may
<1>4. PoolRoster(ranked) /\ ToSet(ranked) = Known \ barred
  BY <1>3, ByScoreRoster
<1> HIDE DEF ranked, barred
<1>5. PoolRoster(others) /\ ToSet(others) = (Known \ barred) \ forced
  BY <1>4, LessRoster
<1> HIDE DEF others
<1>6. /\ PoolRoster(kept) /\ ToSet(kept) \subseteq ToSet(others) /\ Len(kept) <= TrustedSlots
      /\ \/ ToSet(net.trusted) \cap ToSet(others) \subseteq ToSet(kept)
         \/ Len(kept) = TrustedSlots /\ ToSet(kept) \subseteq ToSet(net.trusted)
  BY <1>1, <1>5, MergedRoster
<1> HIDE DEF kept
<1>7. PoolRoster(rest) /\ ToSet(rest) = (Known \ barred) \ (forced \cup ToSet(kept))
  BY <1>4, LessRoster
<1> HIDE DEF rest
<1>8. sel \subseteq ToSet(rest) /\ IsFiniteSet(sel) /\ Cardinality(sel) <= ExploreSlots
  BY <1>1, <1>7, SelectsWithin
<1> HIDE DEF sel
<1>9. forced = anchors \ barred
  BY <1>4
<1> HIDE DEF forced
<1>10. chosen \cap barred = {} /\ anchors \ barred \subseteq chosen
  BY <1>0, <1>5, <1>6, <1>7, <1>8, <1>9
<1>11. IsFiniteSet(ToSet(kept)) /\ Cardinality(ToSet(kept)) = Len(kept) /\ Len(kept) \in Nat
  BY <1>6, RosterCounts
<1>12. Cardinality(chosen \ anchors) <= TrustedSlots + ExploreSlots
  <2> DEFINE all == ToSet(kept) \cup sel
  <2>1. (chosen \ anchors) \in SUBSET all
    BY <1>0, <1>9
  <2>2. IsFiniteSet(all) /\ Cardinality(all) = Len(kept) + Cardinality(sel)
    <3>1. ToSet(kept) \cap sel = {}
      BY <1>7, <1>8
    <3> QED
      BY <1>8, <1>11, <3>1, DisjointCount
  <2> HIDE DEF all
  <2>3. IsFiniteSet(chosen \ anchors) /\ Cardinality(chosen \ anchors) <= Cardinality(all)
    BY <2>1, <2>2, FS_Subset
  <2>4. Cardinality(sel) \in Nat /\ Cardinality(chosen \ anchors) \in Nat
    BY <1>8, <2>3, FS_CardinalityType
  <2> QED
    BY <1>1, <1>6, <1>8, <1>11, <2>2, <2>3, <2>4
<1>13. ToSet(net.trusted) \subseteq chosen \cup barred \/ Cardinality(loyal) >= TrustedSlots
  <2>1. CASE ToSet(net.trusted) \cap ToSet(others) \subseteq ToSet(kept)
    <3>1. ToSet(net.trusted) \subseteq chosen \cup barred
      BY <1>0, <1>1, <1>5, <1>9, <2>1
    <3> QED
      BY <3>1
  <2>2. CASE Len(kept) = TrustedSlots /\ ToSet(kept) \subseteq ToSet(net.trusted)
    <3>1. ToSet(kept) \in SUBSET loyal
      BY <1>0, <1>5, <1>6, <1>9, <2>2
    <3>2. IsFiniteSet(loyal)
      <4>1. IsFiniteSet(ToSet(net.trusted))
        BY <1>1, RosterCounts
      <4>2. loyal \in SUBSET ToSet(net.trusted)
        OBVIOUS
      <4> QED
        BY <4>1, <4>2, FS_Subset
    <3> HIDE DEF loyal
    <3>3. Cardinality(ToSet(kept)) <= Cardinality(loyal) /\ Cardinality(loyal) \in Nat
      BY <3>1, <3>2, FS_Subset, FS_CardinalityType
    <3> QED
      BY <1>1, <1>11, <2>2, <3>3
  <2> QED
    BY <1>6, <2>1, <2>2
<1> QED
  BY <1>10, <1>12, <1>13, Zenon DEF chosen, barred, loyal

\* For any nodes, caps and slots: nobody is dialed who must not be, the links reach their
\* numbers and no more, every source of hints has its share, and the table keeps within
\* its caps what was saved.
LEMMA PoolsFair == SpecPools => [](MeshTargetsFit /\ GroupTargetsFit /\ PoolsKeep)
<1>1. PoolsInv => MeshTargetsFit
  BY MeshFits, Zenon DEF MeshTargetsFit
<1>2. PoolsInv => GroupTargetsFit
  <2>1. \A anchors \in AnchorSets : anchors \subseteq Known
    BY PoolsAssumption
  <2> QED
    BY <2>1, GroupFits, Zenon DEF GroupTargetsFit
<1> QED
  BY <1>1, <1>2, TablesKept, PoolsInvariant, PTL
=============================================================================
