--------------------------- MODULE RegistryShutdown ---------------------------
(***************************************************************************)
(* The end of a registry's run, and the next one                           *)
(* (transport/link_registry.mjs, ensureRuntimeWithMesh and shutdown):      *)
(* keepalive, health tracker and links are taken down one after the other  *)
(* while links still register, replace each other and close.  Dials and    *)
(* the choice between links are LinkRegistry.                              *)
(***************************************************************************)
EXTENDS Naturals, Sequences, FiniteSets

CONSTANTS
  LinkPeers,     \* peers
  MaxLinks,      \* bound: links that become ready
  MaxEnsures,    \* bound: calls of ensureRuntime
  MaxShutdowns   \* bound: calls of shutdown

ASSUME ShutdownBoundsAssumption == {MaxLinks, MaxEnsures, MaxShutdowns} \subseteq Nat \ {0}

VARIABLES
  ready,      \* the links so far: their peer and state
  entries,    \* the map links in the order of its keys; 0 where an entry was deleted
  ensures,    \* calls of ensureRuntime so far, and how many of them wait for the bootstrap
  running,    \* which of "mesh" and "health" run
  ticking,    \* a tick of the keepalive is in flight
  shutdown,   \* where shutdown is, the entry its loop is at and the link it waits for
  shutdowns,
  slipped,    \* history: links that took an entry behind the loop, or came after it
  revived     \* history: an ensureRuntime waited or came since the shutdown began

shutdownVars ==
  <<ready, entries, ensures, running, ticking, shutdown, shutdowns, slipped, revived>>

InitShutdown ==
  /\ ready = <<>> /\ entries = <<>>
  /\ ensures = [made |-> 0, waiting |-> 0]
  /\ running = {"health"}  \* the tracker starts with the registry
  /\ ticking = FALSE
  /\ shutdown = [st |-> "no", at |-> 0, on |-> 0] /\ shutdowns = 0
  /\ slipped = {} /\ revived = FALSE

Used == {i \in DOMAIN entries : entries[i] # 0}
EntryAt(p) == {i \in Used : ready[entries[i]].peer = p}
Open(l) == ready[l].st = "open"

\* close() of a link, again or for the first time.
Closing(l, links) == [links EXCEPT ![l].st = IF @ \in {"ready", "open"} THEN "closing" ELSE @]

LinkIsReady(p) ==
  /\ Len(ready) < MaxLinks
  /\ ready' = Append(ready, [peer |-> p, st |-> "ready"])
  /\ UNCHANGED <<entries, ensures, running, ticking, shutdown, shutdowns, slipped, revived>>

LoopPassed(i) == \/ shutdown.st = "done"
                 \/ shutdown.st \in {"loop", "waits"} /\ i <= shutdown.at

registerResolvedLink(l) ==
  LET at == EntryAt(ready[l].peer) IN
  /\ ready[l].st = "ready"
  /\ \/ \* nothing there, or the candidate is preferred
        LET i == IF at = {} THEN Len(entries) + 1 ELSE CHOOSE k \in at : TRUE IN
        /\ entries' = IF at = {} THEN Append(entries, l) ELSE [entries EXCEPT ![i] = l]
        /\ LET opened == [ready EXCEPT ![l].st = "open"] IN
           ready' = IF at = {} THEN opened ELSE Closing(entries[i], opened)
        /\ slipped' = IF LoopPassed(i) THEN slipped \cup {l} ELSE slipped
     \/ /\ at # {}
        /\ ready' = Closing(l, ready)
        /\ UNCHANGED <<entries, slipped>>
  /\ UNCHANGED <<ensures, running, ticking, shutdown, shutdowns, revived>>

LinkFails(l) ==
  /\ Open(l)
  /\ ready' = Closing(l, ready)
  /\ UNCHANGED <<entries, ensures, running, ticking, shutdown, shutdowns, slipped, revived>>

\* Mutant of Forgets: the down event forgets the peer, whichever link it has now.
ForgetsPeer(i, l) == entries[i] # 0 /\ ready[entries[i]].peer = ready[l].peer

Forgets(i, l) == entries[i] = l

LinkIsDown(l) ==
  /\ ready[l].st = "closing"
  /\ ready' = [ready EXCEPT ![l].st = "down"]
  /\ entries' = [i \in DOMAIN entries |-> IF Forgets(i, l) THEN 0 ELSE entries[i]]
  /\ UNCHANGED <<ensures, running, ticking, shutdown, shutdowns, slipped, revived>>

ensureRuntimeWithMesh ==
  /\ ensures.made < MaxEnsures
  /\ ensures' = [made |-> ensures.made + 1, waiting |-> ensures.waiting + 1]
  /\ revived' = TRUE
  /\ UNCHANGED <<ready, entries, running, ticking, shutdown, shutdowns, slipped>>

\* The bootstrap has started: health and keepalive start, and the keepalive ticks at once.
RuntimeEnsured ==
  /\ ensures.waiting > 0
  /\ ensures' = [ensures EXCEPT !.waiting = @ - 1]
  /\ running' = {"health", "mesh"}
  /\ ticking' = (ticking \/ "mesh" \notin running)
  /\ UNCHANGED <<ready, entries, shutdown, shutdowns, slipped, revived>>

KeepaliveTick ==
  /\ ~ticking /\ "mesh" \in running
  /\ ticking' = TRUE
  /\ UNCHANGED <<ready, entries, ensures, running, shutdown, shutdowns, slipped, revived>>

KeepaliveTickEnds ==
  /\ ticking
  /\ ticking' = FALSE
  /\ UNCHANGED <<ready, entries, ensures, running, shutdown, shutdowns, slipped, revived>>

\* stop() of the keepalive, up to the tick it waits for.
ShutdownBegins ==
  /\ shutdown.st \in {"no", "done"} /\ shutdowns < MaxShutdowns
  /\ shutdowns' = shutdowns + 1
  /\ shutdown' = [shutdown EXCEPT !.st = "tick"]
  /\ running' = running \ {"mesh"}
  /\ revived' = (ensures.waiting > 0)
  /\ UNCHANGED <<ready, entries, ensures, ticking, slipped>>

HealthStops ==
  /\ shutdown.st = "tick" /\ ~ticking
  /\ running' = running \ {"health"}
  /\ shutdown' = [shutdown EXCEPT !.st = "boot"]
  /\ UNCHANGED <<ready, entries, ensures, ticking, shutdowns, slipped, revived>>

\* The bootstrap and the overlay are down; the loop over the links begins.
BootstrapStops ==
  /\ shutdown.st = "boot"
  /\ shutdown' = [st |-> "loop", at |-> 0, on |-> 0]
  /\ UNCHANGED <<ready, entries, ensures, running, ticking, shutdowns, slipped, revived>>

Unvisited == {i \in Used : i > shutdown.at}

\* A map's iterator goes on to whatever entry comes next by then.
CloseNext ==
  \E i \in Unvisited :
    /\ shutdown.st = "loop" /\ \A k \in Unvisited : i <= k
    /\ ready' = Closing(entries[i], ready)
    /\ shutdown' = [st |-> IF Open(entries[i]) THEN "waits" ELSE "loop", at |-> i, on |-> entries[i]]
    /\ UNCHANGED <<entries, ensures, running, ticking, shutdowns, slipped, revived>>

CloseReturns ==
  /\ shutdown.st = "waits" /\ ready[shutdown.on].st = "down"
  /\ shutdown' = [shutdown EXCEPT !.st = "loop"]
  /\ UNCHANGED <<ready, entries, ensures, running, ticking, shutdowns, slipped, revived>>

\* links.clear() and the end of shutdown.
LinksCleared ==
  /\ shutdown.st = "loop" /\ Unvisited = {}
  /\ entries' = <<>>
  /\ shutdown' = [shutdown EXCEPT !.st = "done"]
  /\ UNCHANGED <<ready, ensures, running, ticking, shutdowns, slipped, revived>>

ShutdownStep == HealthStops \/ BootstrapStops \/ CloseNext \/ CloseReturns \/ LinksCleared

NextShutdown ==
  \/ \E p \in LinkPeers : LinkIsReady(p)
  \/ \E l \in DOMAIN ready : registerResolvedLink(l) \/ LinkFails(l) \/ LinkIsDown(l)
  \/ ensureRuntimeWithMesh \/ RuntimeEnsured \/ KeepaliveTick \/ KeepaliveTickEnds
  \/ ShutdownBegins \/ ShutdownStep

SpecShutdown == InitShutdown /\ [][NextShutdown]_shutdownVars

-----------------------------------------------------------------------------
(* Properties. *)

\* Types of the state; a peer has one entry.
ShutdownTypeOK ==
  /\ ready \in Seq([peer : LinkPeers, st : {"ready", "open", "closing", "down"}])
  /\ entries \in Seq(0..Len(ready)) /\ \A p \in LinkPeers : Cardinality(EntryAt(p)) <= 1
  /\ running \subseteq {"mesh", "health"} /\ ticking \in BOOLEAN
  /\ ensures.waiting \in 0..ensures.made

\* However links register, replace each other and close meanwhile, shutdown leaves no link
\* open but one that took an entry behind its loop, forgets none that is open before, and
\* leaves keepalive and health tracker off unless ensureRuntime was called beside it
\* (link_registry.mjs:460-464, 764-782).
ShutdownLeavesNothing ==
  /\ \A l \in DOMAIN ready : Open(l) => l \in slipped \/ \E i \in Used : entries[i] = l
  /\ shutdown.st = "done" =>
       /\ \A l \in DOMAIN ready : Open(l) => l \in slipped
       /\ ~revived => running = {} /\ ~ticking
=============================================================================
