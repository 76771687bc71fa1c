---------------------------- MODULE MeshKeepalive ----------------------------
(***************************************************************************)
(* The keepalive of the mesh (transport/mesh_keepalive.mjs): a tick scans, *)
(* evicts links for room, dials, and promotes the explore peers whose link *)
(* was stable long enough.  Links go up and down and are replaced, and the *)
(* pool changes, while a tick awaits.  Peers are numbers: the order of     *)
(* their hashes.  Which peers the pool wants (selectMeshLinkTargets) is    *)
(* any choice.                                                             *)
(***************************************************************************)
EXTENDS Integers, FiniteSets

CONSTANTS
  MeshPeers,
  Slots,         \* links the pool allows (limits.N)
  PromoteAfter,  \* stability that earns a promotion (meshPromoteStableMs)
  Befriended,    \* bound: peers the pool may trust by other ways than the tick
  CloseTime,     \* bound: the time the closes of one tick take
  MaxClock,      \* bound: the clock
  MaxDials       \* bound: dials of ticks at one time

ASSUME MeshAssumption ==
  /\ MeshPeers \subseteq Nat /\ IsFiniteSet(MeshPeers) /\ Slots \in Nat /\ PromoteAfter \in Nat \ {0}
  /\ Befriended \subseteq MeshPeers
  /\ CloseTime \in Nat /\ MaxClock \in Nat /\ MaxDials \in Nat

VARIABLES
  timer,         \* start() was called and stop() was not
  linked,        \* since when each peer has a link without a gap, or -1
  announcing,    \* peers whose new link waits for the close of the one it replaced
  explore,       \* exploreLinks
  stableSince,   \* exploreStableSince, or -1
  trusted,       \* trustedPeers of the pool
  tick,          \* the tick under way: its await and what it read before it
  dials,         \* dials of ticks: the peer, and whether the tick saw it trusted
  clock,
  cut            \* history: stop() came while a tick was under way

meshVars == <<timer, linked, announcing, explore, stableSince, trusted, tick, dials, clock, cut>>

NoTick == [pc |-> "idle", trusted |-> {}, now |-> 0, dial |-> {}, victim |-> 0, need |-> 0]

InitMesh ==
  /\ timer = FALSE
  /\ linked = [p \in MeshPeers |-> -1]
  /\ announcing = {}
  /\ explore = {}
  /\ stableSince = [p \in MeshPeers |-> -1]
  /\ trusted = {}
  /\ tick = NoTick
  /\ dials = {}
  /\ clock = 0
  /\ cut = FALSE

Has(f, p) == f[p] # -1
LinkedPeers == {p \in MeshPeers : Has(linked, p)}

\* syncExploreMark of these peers, by the trusted peers given.
Marked(ps, byTrusted) == (explore \cup ps) \ (ps \cap byTrusted)
Without(since, ps) == [p \in MeshPeers |-> IF p \in ps THEN -1 ELSE since[p]]

\* runTick, from start, the timer or a link that went down: one tick at a time.
runTick == tick' = IF tick.pc = "idle" THEN [NoTick EXCEPT !.pc = "scan"] ELSE tick

start ==
  /\ ~timer
  /\ timer' = TRUE
  /\ runTick
  /\ UNCHANGED <<linked, announcing, explore, stableSince, trusted, dials, clock, cut>>

\* stop() forgets its marks; a tick under way goes on.
stop ==
  /\ timer
  /\ timer' = FALSE
  /\ explore' = {}
  /\ stableSince' = Without(stableSince, MeshPeers)
  /\ cut' = (cut \/ tick # NoTick)
  /\ UNCHANGED <<linked, announcing, trusted, tick, dials, clock>>

-----------------------------------------------------------------------------
(* Links and the pool. *)

MarkUp(p, byTrusted) ==
  /\ explore' = Marked({p}, byTrusted)
  /\ stableSince' = Without(stableSince, {p} \cap byTrusted)

\* onLinkUp marks the peer by the pool of this moment.
LinkUpMarks(p) ==
  IF timer THEN MarkUp(p, trusted) ELSE UNCHANGED <<explore, stableSince>>

LinkGoesUp(p) ==
  /\ p \notin LinkedPeers
  /\ linked' = [linked EXCEPT ![p] = clock]
  /\ LinkUpMarks(p)
  /\ UNCHANGED <<timer, announcing, trusted, tick, dials, clock, cut>>

\* The link whose close a tick awaits is no longer the peer's.
VictimLeaves(p) ==
  tick' = IF tick.pc = "closing" /\ tick.victim = p THEN [tick EXCEPT !.pc = "closed"] ELSE tick

\* A better link takes the place of the one that is up: linkUp follows the close of the
\* old one, whose down event nobody hears of (link_registry.mjs:161-164, 181-185).
LinkReplaced(p) ==
  /\ p \in LinkedPeers \ announcing
  /\ announcing' = announcing \cup {p}
  /\ VictimLeaves(p)
  /\ UNCHANGED <<timer, linked, explore, stableSince, trusted, dials, clock, cut>>

\* The old link is closed: linkUp, whatever became of the new one.
LinkAnnounced(p) ==
  /\ p \in announcing
  /\ announcing' = announcing \ {p}
  /\ LinkUpMarks(p)
  /\ UNCHANGED <<timer, linked, trusted, tick, dials, clock, cut>>

\* Mutant of Unmark: only the explore mark goes.
UnmarkExplore(p) ==
  /\ explore' = IF timer THEN explore \ {p} ELSE explore
  /\ UNCHANGED stableSince

\* onLinkDown: the marks go with the link.
Unmark(p) ==
  IF timer
  THEN explore' = explore \ {p} /\ stableSince' = Without(stableSince, {p})
  ELSE UNCHANGED <<explore, stableSince>>

LinkGoesDown(p) ==
  /\ p \in LinkedPeers
  /\ linked' = [linked EXCEPT ![p] = -1]
  /\ Unmark(p)
  /\ VictimLeaves(p)
  /\ UNCHANGED <<timer, announcing, trusted, dials, clock, cut>>

\* A dial of a tick has ended; with a link, the peer is marked by what that tick read.
TickDialEnds(d) ==
  /\ d \in dials
  /\ dials' = dials \ {d}
  /\ \/ d.peer \in LinkedPeers /\ MarkUp(d.peer, IF d.trusted THEN {d.peer} ELSE {})
     \/ UNCHANGED <<explore, stableSince>>
  /\ UNCHANGED <<timer, linked, announcing, trusted, tick, clock, cut>>

\* The pool trusts a peer by other ways than the tick.
PoolTrusts(p) ==
  /\ p \in Befriended \ trusted
  /\ trusted' = trusted \cup {p}
  /\ UNCHANGED <<timer, linked, announcing, explore, stableSince, tick, dials, clock, cut>>

\* The clock goes on while a tick closes links.
ClockTicks ==
  /\ clock < MaxClock
  /\ tick.pc \in {"evict", "closing", "closed"} => clock - tick.now < CloseTime
  /\ clock' = clock + 1
  /\ UNCHANGED <<timer, linked, announcing, explore, stableSince, trusted, tick, dials, cut>>

-----------------------------------------------------------------------------
(* The tick. *)

TickStarts ==
  /\ timer
  /\ tick.pc = "idle"
  /\ runTick
  /\ UNCHANGED <<timer, linked, announcing, explore, stableSince, trusted, dials, clock, cut>>

\* Mutant of RoomFor: the overflow is taken without a look at its sign.
RoomForSigned(ps) == Cardinality(LinkedPeers) + Cardinality(ps) - Slots

\* How many links must go for these dials.
RoomFor(ps) == IF Cardinality(LinkedPeers) + Cardinality(ps) > Slots
               THEN Cardinality(LinkedPeers) + Cardinality(ps) - Slots ELSE 0

\* discoveryListVisible has returned; pool, clock and links are read, the peers to dial chosen.
TickReads(ps) ==
  /\ tick.pc = "scan"
  /\ ps \cap LinkedPeers = {} /\ Cardinality(ps) <= Slots /\ Cardinality(dials) + Cardinality(ps) <= MaxDials
  /\ tick' = [pc |-> "evict", trusted |-> trusted, now |-> clock, dial |-> ps, victim |-> 0,
              need |-> RoomFor(ps)]
  /\ explore' = Marked(LinkedPeers, trusted)
  /\ stableSince' = Without(stableSince, LinkedPeers \cap trusted)
  /\ UNCHANGED <<timer, linked, announcing, trusted, dials, clock, cut>>

\* pickMeshEvictionVictim: the least hash of the explore links, or else of the others.
Victims ==
  LET marked == (LinkedPeers \cap explore) \ tick.trusted
      from == IF marked # {} THEN marked ELSE LinkedPeers
  IN {p \in from : \A q \in from : p <= q} \ tick.trusted

\* The close of the victim's link begins; that of a link which is closing already returns
\* at once, which is left out.
TickEvicts(p) ==
  /\ tick.pc = "evict" /\ tick.need > 0
  /\ p \in Victims
  /\ tick' = [tick EXCEPT !.pc = "closing", !.victim = p]
  /\ UNCHANGED <<timer, linked, announcing, explore, stableSince, trusted, dials, clock, cut>>

\* That close is over: whatever link the victim has by now, its marks go (:80).
TickEvicted ==
  /\ tick.pc = "closed"
  /\ explore' = explore \ {tick.victim}
  /\ stableSince' = Without(stableSince, {tick.victim})
  /\ tick' = [tick EXCEPT !.pc = "evict", !.victim = 0, !.need = @ - 1]
  /\ UNCHANGED <<timer, linked, announcing, trusted, dials, clock, cut>>

\* There is room, or nobody to evict: dial, promote who was stable, note who is new.
TickEnds ==
  LET held == (LinkedPeers \ tick.trusted) \cap explore
      earned == {p \in held : Has(stableSince, p) /\ tick.now - stableSince[p] >= PromoteAfter}
  IN /\ tick.pc = "evict" /\ (tick.need = 0 \/ Victims = {})
     /\ dials' = dials \cup {[peer |-> p, trusted |-> p \in tick.trusted] : p \in tick.dial}
     /\ trusted' = trusted \cup earned
     /\ explore' = explore \ earned
     /\ stableSince' = [p \in MeshPeers |->
          IF p \in earned \cup tick.trusted \/ p \notin LinkedPeers THEN -1
          ELSE IF p \in held /\ ~Has(stableSince, p) THEN tick.now ELSE stableSince[p]]
     /\ tick' = NoTick
     /\ UNCHANGED <<timer, linked, announcing, clock, cut>>

NextMesh ==
  \/ start \/ stop \/ ClockTicks \/ TickStarts \/ TickEvicted \/ TickEnds
  \/ \E p \in MeshPeers : \/ LinkGoesUp(p) \/ LinkReplaced(p) \/ LinkAnnounced(p) \/ LinkGoesDown(p)
                          \/ PoolTrusts(p) \/ TickEvicts(p)
  \/ \E d \in dials : TickDialEnds(d)
  \/ \E ps \in SUBSET MeshPeers : TickReads(ps)

SpecMesh == InitMesh /\ [][NextMesh]_meshVars

-----------------------------------------------------------------------------
(* Properties. *)

\* Types of the state.
MeshTypeOK ==
  /\ timer \in BOOLEAN
  /\ linked \in [MeshPeers -> -1..MaxClock] /\ stableSince \in [MeshPeers -> -1..MaxClock] /\ cut \in BOOLEAN
  /\ announcing \subseteq MeshPeers /\ explore \subseteq MeshPeers /\ trusted \subseteq MeshPeers
  /\ tick \in [pc : {"idle", "scan", "evict", "closing", "closed"}, trusted : SUBSET MeshPeers,
               now : 0..MaxClock, dial : SUBSET MeshPeers, victim : MeshPeers \cup {0},
               need : 0..(2 * Cardinality(MeshPeers))]
  /\ dials \subseteq [peer : MeshPeers, trusted : BOOLEAN]
  /\ clock \in 0..MaxClock

\* A tick makes a peer trusted only when the peer has had a link without a gap for the time
\* that earns it, less what the closes of a tick take after it read the clock: marks,
\* evictions, dials that end late and links before a gap do not count, a link that replaced
\* another does (mesh_keepalive.mjs:144-160, 187-189).  Unless stop() came while a tick was
\* under way: the tick's marks outlive it.
PromotionEarned ==
  [][\A p \in trusted' \ trusted :
       ~cut /\ tick # NoTick /\ tick' = NoTick
         => Has(linked, p) /\ clock - linked[p] >= PromoteAfter - CloseTime]_meshVars

\* "The active links of peers that are no acquaintances are noted as explore links, inbound
\* ones too" (mesh_keepalive.mjs:50): between two ticks, of every link that was announced.
ActiveLinksMarked ==
  timer /\ tick = NoTick /\ ~cut => LinkedPeers \ (trusted \cup announcing) \subseteq explore
=============================================================================
