------------------------------- MODULE Overlay -------------------------------
(***************************************************************************)
(* Routes over several hops (overlay/index.mjs): a request floods the      *)
(* nodes with the path it has taken, the target signs that path, and the   *)
(* answer goes back along it; a relay then follows the route.  Signatures  *)
(* are taken to be sound: what arrives is what its signer sent.            *)
(***************************************************************************)
EXTENDS Integers, Sequences, SequencesExt

CONSTANTS
  Hosts, Asker, Wanted,  \* the nodes, who looks for a route, and to whom
  Wires,                 \* the links: pairs of nodes, in both directions
  Discoveries,           \* request ids
  RouteTtl,              \* the hops a request may take
  MaxHops                \* longer paths are dropped

ASSUME OverlayAssumption ==
  Asker \in Hosts /\ Wanted \in Hosts \ {Asker} /\ Wires \subseteq Hosts \X Hosts
  /\ {RouteTtl, MaxHops} \subseteq Nat \ {0}

VARIABLES
  seenReqs,       \* the requests each node has handled
  pendingRoutes,  \* of each request: not made, waiting, found, timed out, or left by close()
  route,          \* the path each discoverRoute returned
  envelopes,      \* messages under way
  relayed,        \* the paths of relays that came to their end
  closedRouter

overlayVars == <<seenReqs, pendingRoutes, route, envelopes, relayed, closedRouter>>

InitOverlay ==
  /\ seenReqs = [n \in Hosts |-> {}]
  /\ pendingRoutes = [r \in Discoveries |-> "no"]
  /\ route = [r \in Discoveries |-> <<>>]
  /\ envelopes = {} /\ relayed = {}
  /\ closedRouter = FALSE

listLinks(n) == {m \in Hosts : <<n, m>> \in Wires}

Envelope(action, to, r, path, n) == [action |-> action, to |-> to, req |-> r, path |-> path, n |-> n]

\* discoverRoute: the timer is set, then every linked node is asked.
DiscoverRoute(r) ==
  /\ pendingRoutes[r] = "no" /\ ~closedRouter
  /\ pendingRoutes' = [pendingRoutes EXCEPT ![r] = "waiting"]
  /\ envelopes' = envelopes \cup
       {Envelope("route_req", m, r, <<Asker>>, RouteTtl) : m \in listLinks(Asker)}
  /\ UNCHANGED <<seenReqs, route, relayed, closedRouter>>

\* Mutant of Dropped: the ttl is looked at one hop too late.
DroppedLate(m) ==
  m.n + 1 = 0 \/ m.req \in seenReqs[m.to] \/ Contains(m.path, m.to) \/ Len(m.path) > MaxHops

Dropped(m) ==
  \/ m.n = 0
  \/ m.req \in seenReqs[m.to]
  \/ Contains(m.path, m.to)
  \/ Len(m.path) > MaxHops

\* The target answers the hop it was asked by, everybody else asks on.
RouteReq(m) ==
  LET n == m.to
      path == Append(m.path, n)
      next == {o \in listLinks(n) : ~Contains(m.path, o)}
      sent == IF n = Wanted
              THEN {Envelope("route_resp", Last(m.path), m.req, path, 0)}
              ELSE {Envelope("route_req", o, m.req, path, m.n - 1) : o \in next}
  IN /\ m \in envelopes /\ m.action = "route_req" /\ ~(n = Asker /\ closedRouter)
     /\ IF Dropped(m)
        THEN envelopes' = envelopes \ {m} /\ UNCHANGED seenReqs
        ELSE /\ envelopes' = (envelopes \ {m}) \cup sent
             /\ seenReqs' = [seenReqs EXCEPT ![n] = @ \cup {m.req}]
     /\ UNCHANGED <<pendingRoutes, route, relayed, closedRouter>>

\* The asker takes the first answer of its target, a node in between passes it back.
RouteResp(m) ==
  LET n == m.to
      at == CHOOSE i \in DOMAIN m.path : m.path[i] = n /\ \A j \in 1..(i - 1) : m.path[j] # n
      found == pendingRoutes[m.req] = "waiting" /\ Last(m.path) = Wanted
  IN /\ m \in envelopes /\ m.action = "route_resp" /\ ~(n = Asker /\ closedRouter)
     /\ IF n = Asker
        THEN /\ pendingRoutes' = IF found THEN [pendingRoutes EXCEPT ![m.req] = "found"] ELSE pendingRoutes
             /\ route' = IF found THEN [route EXCEPT ![m.req] = m.path] ELSE route
             /\ envelopes' = envelopes \ {m}
        ELSE /\ envelopes' = (envelopes \ {m}) \cup {[m EXCEPT !.to = m.path[at - 1]]}
             /\ UNCHANGED <<pendingRoutes, route>>
     /\ UNCHANGED <<seenReqs, relayed, closedRouter>>

RouteTimeout(r) ==
  /\ pendingRoutes[r] = "waiting"
  /\ pendingRoutes' = [pendingRoutes EXCEPT ![r] = "timeout"]
  /\ UNCHANGED <<seenReqs, route, envelopes, relayed, closedRouter>>

\* relay() along a route found; idx is the receiver's place in the path, from 1 here.
Relay(r) ==
  /\ route[r] # <<>>
  /\ envelopes' = envelopes \cup {Envelope("relay", route[r][2], r, route[r], 2)}
  /\ UNCHANGED <<seenReqs, pendingRoutes, route, relayed, closedRouter>>

RelayArrives(m) ==
  /\ m \in envelopes /\ m.action = "relay"
  /\ IF m.n = Len(m.path)
     THEN envelopes' = envelopes \ {m} /\ relayed' = relayed \cup {m.path}
     ELSE /\ envelopes' = (envelopes \ {m}) \cup {[m EXCEPT !.to = m.path[m.n + 1], !.n = @ + 1]}
          /\ UNCHANGED relayed
  /\ UNCHANGED <<seenReqs, pendingRoutes, route, closedRouter>>

\* A link is down, or a rate limit drops it; after close() the asker hears nothing.
LoseEnvelope(m) ==
  /\ m \in envelopes
  /\ envelopes' = envelopes \ {m}
  /\ UNCHANGED <<seenReqs, pendingRoutes, route, relayed, closedRouter>>

\* The asker's close(): the timers go, and nobody settles what still waits.
CloseRouter ==
  /\ ~closedRouter
  /\ closedRouter' = TRUE
  /\ pendingRoutes' = [r \in Discoveries |-> IF pendingRoutes[r] = "waiting" THEN "left" ELSE pendingRoutes[r]]
  /\ UNCHANGED <<seenReqs, route, envelopes, relayed>>

NextOverlay ==
  \/ \E r \in Discoveries : DiscoverRoute(r) \/ RouteTimeout(r) \/ Relay(r)
  \/ \E m \in envelopes : RouteReq(m) \/ RouteResp(m) \/ RelayArrives(m) \/ LoseEnvelope(m)
  \/ CloseRouter

SpecOverlay == InitOverlay /\ [][NextOverlay]_overlayVars

-----------------------------------------------------------------------------
(* Properties. *)

\* Types of the state.
OverlayTypeOK ==
  /\ seenReqs \in [Hosts -> SUBSET Discoveries]
  /\ pendingRoutes \in [Discoveries -> {"no", "waiting", "found", "timeout", "left"}]
  /\ \A r \in Discoveries : route[r] # <<>> <=> pendingRoutes[r] = "found"
  /\ \A m \in envelopes : m.to \in Hosts /\ m.n \in 0..(RouteTtl + MaxHops)
  /\ closedRouter \in BOOLEAN

\* A route found, and the path of every relay that reached its end, goes over links from the
\* asker to the target without meeting a node twice, in no more hops than the ttl
\* (overlay/index.mjs:118-146, 156-165).
RoutesAreSound ==
  \A path \in {route[r] : r \in Discoveries} \cup relayed : path # <<>> =>
    /\ path[1] = Asker /\ Last(path) = Wanted
    /\ IsInjective(path)
    /\ \A i \in 1..(Len(path) - 1) : <<path[i], path[i + 1]>> \in Wires
    /\ Len(path) <= RouteTtl + 1
=============================================================================
