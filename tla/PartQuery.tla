------------------------------ MODULE PartQuery ------------------------------
(***************************************************************************)
(* Queries that spread over several hops and whose answers flow back       *)
(* (federation/part_query/runtime.mjs, cache.mjs, wire/part/query.mjs):    *)
(* one node asks, each node asks its neighbours in turn while answers,     *)
(* and its own timer, may come at any moment.                              *)
(***************************************************************************)
EXTENDS Naturals, FiniteSets

CONSTANTS
  Nodes, Origin,
  Edges,    \* the links: pairs of nodes, in both directions
  Holders,  \* the nodes whose handler finds a row
  Queries,  \* request ids, all of the same question
  Ttl

ASSUME QueryAssumption ==
  Origin \in Nodes /\ Edges \subseteq Nodes \X Nodes /\ Holders \subseteq Nodes /\ Ttl \in Nat \ {0}

VARIABLES
  part,   \* what each node does about each request
  wires,  \* messages under way
  cached  \* the rows each node has cached for the question; none if there is no entry

queryVars == <<part, wires, cached>>

\* up: who asked; left: neighbours not asked yet; asked: those the request was sent to;
\* got: responders; ended: by the count of the answers, a fan-out that broke, or the timer.
Idle == [at |-> "no", ttl |-> 0, up |-> Origin, left |-> {}, asked |-> {}, got |-> {},
         rows |-> {}, ended |-> "no"]

Own(n) == {n} \cap Holders

\* An earlier request may have left an answer in any node's cache, whole or cut short by a timer.
InitQuery ==
  /\ part = [q \in Queries |-> [n \in Nodes |-> Idle]]
  /\ wires = {}
  /\ cached \in [Nodes -> SUBSET Holders]
  /\ \A n \in Nodes : cached[n] = {} \/ Own(n) \subseteq cached[n]

Neighbours(n, without) == {m \in Nodes \ without : <<n, m>> \in Edges}

Request(q, from, to, ttl) == [q |-> q, kind |-> "req", from |-> from, to |-> to, ttl |-> ttl, rows |-> {}]
Response(q, from, to, rows) == [q |-> q, kind |-> "res", from |-> from, to |-> to, ttl |-> 0, rows |-> rows]

Becomes(q, n, p) == part' = [part EXCEPT ![q][n] = p]

\* cache.set: no entry for an empty answer.
Caches(n, rows) == cached' = IF rows = {} THEN cached ELSE [cached EXCEPT ![n] = rows]

\* flushRelayPending, and the end of queryNetwork: what is there is cached, and sent to who asked.
Flushes(q, n, p, ended) ==
  /\ Becomes(q, n, [p EXCEPT !.at = "over", !.ended = ended])
  /\ Caches(n, p.rows)

Answers(q, n, p) == IF n = Origin THEN {} ELSE {Response(q, n, p.up, p.rows)}

-----------------------------------------------------------------------------
(* Asking. *)

\* queryNetwork; the timer is set before anybody is asked.
Ask(q) ==
  /\ part[q][Origin].at = "no"
  /\ IF cached[Origin] # {}
     THEN Becomes(q, Origin, [Idle EXCEPT !.at = "over", !.rows = cached[Origin]])
     ELSE Becomes(q, Origin, [Idle EXCEPT !.at = "asks", !.ttl = Ttl + 1, !.rows = Own(Origin),
                                          !.left = Neighbours(Origin, {Origin})])
  /\ UNCHANGED <<wires, cached>>

\* deliverQuery to m is over: the loop goes on to the end, whatever has come meanwhile.
Forward(q, n, m, sent) ==
  LET p == part[q][n]
  IN /\ m \in p.left
     /\ Becomes(q, n, [p EXCEPT !.left = @ \ {m}, !.asked = IF sent THEN @ \cup {m} ELSE @])
     /\ wires' = IF sent THEN wires \cup {Request(q, n, m, p.ttl - 1)} ELSE wires
     /\ UNCHANGED cached

\* All have been asked: only now the answers to expect are known.
FannedOut(q, n) ==
  LET p == part[q][n]
      whole == p.asked = {} \/ Cardinality(p.got) >= Cardinality(p.asked)
  IN /\ p.at = "asks" /\ p.left = {}
     /\ IF whole
        THEN Flushes(q, n, p, "count") /\ wires' = wires \cup Answers(q, n, p)
        ELSE Becomes(q, n, [p EXCEPT !.at = "waits"]) /\ UNCHANGED <<wires, cached>>

\* The selection of the neighbours or a delivery throws.  A relay answers at once with what it
\* has; the origin leaves it to its timer, for it will never know what to expect; after the
\* end the rest is not asked.
FanOutBreaks(q, n) ==
  LET p == [part[q][n] EXCEPT !.left = {}]
  IN IF p.at = "asks" /\ n # Origin
     THEN Flushes(q, n, p, "broken") /\ wires' = wires \cup Answers(q, n, p)
     ELSE /\ p.at = "asks" \/ (p.at = "over" /\ part[q][n].left # {})
          /\ Becomes(q, n, [p EXCEPT !.at = IF @ = "asks" THEN "broken" ELSE @])
          /\ UNCHANGED <<wires, cached>>

\* The hop's timer, or the origin's.
QueryTimeout(q, n) ==
  LET p == part[q][n]
  IN /\ p.at \in {"asks", "waits", "broken"}
     /\ Flushes(q, n, p, "timer")
     /\ wires' = wires \cup Answers(q, n, p)

-----------------------------------------------------------------------------
(* Messages. *)

\* part_query_req: a request known is dropped; the cache, a leaf or a relay answers.
RequestArrives(w) ==
  LET n == w.to
      p == [Idle EXCEPT !.up = w.from, !.ttl = w.ttl, !.rows = Own(n)]
  IN /\ w \in wires /\ w.kind = "req"
     /\ IF part[w.q][n].at # "no"
        THEN wires' = wires \ {w} /\ UNCHANGED <<part, cached>>
        ELSE IF cached[n] # {}
        THEN /\ Becomes(w.q, n, [p EXCEPT !.at = "over", !.rows = cached[n]])
             /\ wires' = (wires \ {w}) \cup {Response(w.q, n, w.from, cached[n])}
             /\ UNCHANGED cached
        ELSE IF w.ttl <= 1
        THEN /\ Becomes(w.q, n, [p EXCEPT !.at = "over"])
             /\ Caches(n, Own(n))
             /\ wires' = (wires \ {w}) \cup {Response(w.q, n, w.from, Own(n))}
        ELSE /\ Becomes(w.q, n, [p EXCEPT !.at = "asks",
                                          !.left = Neighbours(n, {n, Origin, w.from})])
             /\ wires' = wires \ {w}
             /\ UNCHANGED cached

\* Mutant of Expected: counted while the neighbours are being asked.
ExpectedSoFar(p) == Cardinality(p.asked)

\* pending.expected, 0 until the fan-out is over.
Expected(p) == IF p.at = "waits" THEN Cardinality(p.asked) ELSE 0

\* part_query_res: each responder counts once, and after the end none does.
ResponseArrives(w) ==
  LET n == w.to
      p == part[w.q][n]
      more == [p EXCEPT !.got = @ \cup {w.from}, !.rows = @ \cup w.rows]
  IN /\ w \in wires /\ w.kind = "res"
     /\ IF p.at \notin {"asks", "waits", "broken"} \/ w.from \in p.got
        THEN wires' = wires \ {w} /\ UNCHANGED <<part, cached>>
        ELSE IF Expected(p) > 0 /\ Cardinality(more.got) >= Expected(p)
        THEN /\ Flushes(w.q, n, more, "count")
             /\ wires' = (wires \ {w}) \cup Answers(w.q, n, more)
        ELSE /\ Becomes(w.q, n, more)
             /\ wires' = wires \ {w}
             /\ UNCHANGED cached

\* A link goes down, or a rate limit drops the request.
LoseMessage(w) ==
  /\ w \in wires
  /\ wires' = wires \ {w}
  /\ UNCHANGED <<part, cached>>

\* The cache's ttl is over.
CacheExpires(n) ==
  /\ cached[n] # {}
  /\ cached' = [cached EXCEPT ![n] = {}]
  /\ UNCHANGED <<part, wires>>

NextQuery ==
  \/ \E q \in Queries :
       \/ Ask(q)
       \/ \E n \in Nodes :
            \/ FannedOut(q, n) \/ FanOutBreaks(q, n) \/ QueryTimeout(q, n)
            \/ \E m \in Nodes, sent \in BOOLEAN : Forward(q, n, m, sent)
  \/ \E w \in wires : RequestArrives(w) \/ ResponseArrives(w) \/ LoseMessage(w)
  \/ \E n \in Nodes : CacheExpires(n)

SpecQuery == InitQuery /\ [][NextQuery]_queryVars

-----------------------------------------------------------------------------
(* Properties. *)

\* Types of the state.
QueryTypeOK ==
  /\ \A q \in Queries, n \in Nodes :
       /\ part[q][n].at \in {"no", "asks", "waits", "broken", "over"}
       /\ part[q][n].left \cup part[q][n].asked \cup part[q][n].got \subseteq Nodes
       /\ part[q][n].rows \subseteq Holders
  /\ \A w \in wires : w.from \in Nodes /\ w.to \in Nodes /\ w.rows \subseteq Holders
  /\ cached \in [Nodes -> SUBSET Holders]

\* A node that ends by the count of its answers has asked everybody, and has an answer of each
\* whom the request reached: no answer that comes during the fan-out ends it, nor one that
\* comes after the fan-out broke (runtime.mjs:432-447, 456-479, 556-571).  A relay whose fan-out
\* breaks, or whose timer fires, answers and caches what it has: FanOutBreaks, QueryTimeout.
EarlyAnswersAreWhole ==
  \A q \in Queries, n \in Nodes :
    LET p == part[q][n]
    IN p.ended = "count" => p.left = {} /\ p.asked \subseteq p.got
=============================================================================
