------------------------------- MODULE LinkGlare -------------------------------
(***************************************************************************)
(* Two nodes that dial each other at will.  Each runs its own registry     *)
(* (LinkRegistry describes one in full) and decides alone, in the order in *)
(* which its ends of the connections become ready, which connection is its *)
(* canonical link; the other node learns of a close only later.  Here a    *)
(* registration, the close of the link it replaces and the down event are  *)
(* one step.                                                               *)
(***************************************************************************)
EXTENDS LinkPreference, FiniteSets

CONSTANTS
  Nodes,        \* the two node hashes
  SharedLevels, \* the levels of the providers both nodes have registered
  Reach,        \* the levels each node reaches the other through (canReach, isAvailable)
  Conns,        \* bound: the connections that exist at one time
  Tasks,        \* bound: the dials that run at one time
  MaxFaults,    \* bound: closes that glare does not explain (transport loss, timeouts, closeLink)
  MaxExpiries,  \* bound: dials that outlive their callers' deadline
  NoOne

ASSUME PairAssumption ==
  /\ Nodes \subseteq Nat
  /\ \E a, b \in Nodes : a # b /\ Nodes = {a, b}

ASSUME ReachAssumption ==
  /\ SharedLevels \subseteq Nat
  /\ Reach \in [Nodes -> SUBSET SharedLevels]

ASSUME GlareAssumption ==
  /\ MaxFaults \in Nat
  /\ MaxExpiries \in Nat
  /\ NoOne \notin Nodes \cup Conns \cup Tasks

VARIABLES
  conn,       \* each connection: who dialled it, at which level, and its two ends
  canon,      \* each node's canonical link to the other (links)
  task,       \* each dial that runs: its node, the levels left, the connection it awaits
  inflight,   \* the dial a new caller at each node would join
  faults,     \* faults so far
  expiries    \* deadlines so far

glareVars == <<conn, canon, task, inflight, faults, expiries>>

Other(n) == CHOOSE m \in Nodes : m # n

NoConn == [dialer |-> NoOne, level |-> 0, end |-> [n \in Nodes |-> "closed"]]

IdleTask == [node |-> NoOne, todo |-> {}, conn |-> NoOne]

InitGlare ==
  /\ conn = [c \in Conns |-> NoConn]
  /\ canon = [n \in Nodes |-> NoOne]
  /\ task = [t \in Tasks |-> IdleTask]
  /\ inflight = [n \in Nodes |-> NoOne]
  /\ faults = 0
  /\ expiries = 0

\* How a node's registry sees a connection: its level, and whether it dialled it.
Seen(n, c) == [level |-> conn[c].level, initiator |-> conn[c].dialer = n]

\* A connection after node n has closed its end: gone once both ends are.
CloseEnd(rec, n) ==
  IF rec.end[Other(n)] = "closed" THEN NoConn ELSE [rec EXCEPT !.end[n] = "closed"]

Awaiting(n, c) == {t \in Tasks : task[t].node = n /\ task[t].conn = c}

-----------------------------------------------------------------------------
(* A dial at one node. *)

\* ensureDirectLinkToNode: no canonical link and no dial to join.
NodeDials(n, t) ==
  /\ canon[n] = NoOne
  /\ inflight[n] = NoOne
  /\ task[t] = IdleTask
  /\ task' = [task EXCEPT ![t] = [node |-> n, todo |-> Reach[n], conn |-> NoOne]]
  /\ inflight' = [inflight EXCEPT ![n] = t]
  /\ UNCHANGED <<conn, canon, faults, expiries>>

\* Mutant of OpenConn: the provider after the one chosen is used.
OpenConnOffByOne(t, c) ==
  LET n == task[t].node IN
  /\ n # NoOne
  /\ task[t].conn = NoOne
  /\ conn[c] = NoConn
  /\ \A u \in Tasks : task[u].conn # c
  /\ \E lv \in task[t].todo :
       /\ \A m \in task[t].todo : m <= lv
       /\ conn' = [conn EXCEPT ![c] = [dialer |-> n, level |-> lv + 1,
                                       end |-> [m \in Nodes |-> "pending"]]]
       /\ task' = [task EXCEPT ![t].todo = @ \ {lv}, ![t].conn = c]
  /\ UNCHANGED <<canon, inflight, faults, expiries>>

\* The next provider, by descending level, opens a connection; it does not look again
\* whether a link has been made meanwhile.
OpenConn(t, c) ==
  LET n == task[t].node IN
  /\ n # NoOne
  /\ task[t].conn = NoOne
  /\ conn[c] = NoConn
  /\ \A u \in Tasks : task[u].conn # c
  /\ \E lv \in task[t].todo :
       /\ \A m \in task[t].todo : m <= lv
       /\ conn' = [conn EXCEPT ![c] = [dialer |-> n, level |-> lv,
                                       end |-> [m \in Nodes |-> "pending"]]]
       /\ task' = [task EXCEPT ![t].todo = @ \ {lv}, ![t].conn = c]
  /\ UNCHANGED <<canon, inflight, faults, expiries>>

\* A dial whose providers are used up ends; its finally clears the node's entry.
DialFails(t) ==
  LET n == task[t].node IN
  /\ n # NoOne
  /\ task[t].conn = NoOne
  /\ task[t].todo = {}
  /\ task' = [task EXCEPT ![t] = IdleTask]
  /\ inflight' = [inflight EXCEPT ![n] = NoOne]
  /\ UNCHANGED <<conn, canon, faults, expiries>>

\* The deadline of a dial's callers passes: the dial goes on, but new callers start
\* another one.
DialExpires(n) ==
  /\ inflight[n] # NoOne
  /\ expiries < MaxExpiries
  /\ expiries' = expiries + 1
  /\ inflight' = [inflight EXCEPT ![n] = NoOne]
  /\ UNCHANGED <<conn, canon, task, faults>>

\* The tasks of node n that awaited c: with a link they end, without one they go on.
DialEnds(n, c) ==
  /\ task' = [t \in Tasks |-> IF t \in Awaiting(n, c) THEN IdleTask ELSE task[t]]
  /\ inflight' = IF Awaiting(n, c) = {} THEN inflight
                  ELSE [inflight EXCEPT ![n] = NoOne]

\* Mutant of DialFallsBack: ready does not reject when its connection goes.
DialHangs(n, c) == UNCHANGED <<task, inflight>>

DialFallsBack(n, c) ==
  /\ task' = [t \in Tasks |->
                IF t \in Awaiting(n, c) THEN [task[t] EXCEPT !.conn = NoOne] ELSE task[t]]
  /\ UNCHANGED inflight

-----------------------------------------------------------------------------
(* An end of a connection. *)

\* The handshake is over at n, which has no canonical link or prefers this one: the
\* link it replaces is closed at n.
BecomeCanonical(n, c) ==
  /\ conn[c].end[n] = "pending"
  /\ canon[n] # NoOne => linkIsPreferred(n, Other(n), Seen(n, c), Seen(n, canon[n]))
  /\ canon' = [canon EXCEPT ![n] = c]
  /\ conn' = [d \in Conns |->
                CASE d = c -> [conn[c] EXCEPT !.end[n] = "up"]
                  [] d = canon[n] -> CloseEnd(conn[d], n)
                  [] OTHER -> conn[d]]
  /\ DialEnds(n, c)
  /\ UNCHANGED <<faults, expiries>>

\* Mutant of LoseGlare: the link that lost is left open.
LoseGlareKeepsLink(n, c) ==
  /\ conn[c].end[n] = "pending"
  /\ canon[n] # NoOne
  /\ ~linkIsPreferred(n, Other(n), Seen(n, c), Seen(n, canon[n]))
  /\ conn' = [conn EXCEPT ![c].end[n] = "up"]
  /\ DialEnds(n, c)
  /\ UNCHANGED <<canon, faults, expiries>>

\* The handshake is over at n, which prefers its canonical link: n closes this one.
LoseGlare(n, c) ==
  /\ conn[c].end[n] = "pending"
  /\ canon[n] # NoOne
  /\ ~linkIsPreferred(n, Other(n), Seen(n, c), Seen(n, canon[n]))
  /\ conn' = [conn EXCEPT ![c] = CloseEnd(@, n)]
  /\ DialEnds(n, c)
  /\ UNCHANGED <<canon, faults, expiries>>

\* An end goes: pending, its ready rejects; canonical, the entry is removed.
EndCloses(n, c) ==
  /\ conn[c].end[n] # "closed"
  /\ conn' = [conn EXCEPT ![c] = CloseEnd(@, n)]
  /\ canon' = [canon EXCEPT ![n] = IF @ = c THEN NoOne ELSE @]
  /\ DialFallsBack(n, c)

\* The other node has closed its end, and n finds out.
NoticeClose(n, c) ==
  /\ conn[c].end[Other(n)] = "closed"
  /\ EndCloses(n, c)
  /\ UNCHANGED <<faults, expiries>>

\* Transport loss, handshake or idle timeout, eviction, closeLink.
Fault(n, c) ==
  /\ faults < MaxFaults
  /\ faults' = faults + 1
  /\ EndCloses(n, c)
  /\ UNCHANGED expiries

-----------------------------------------------------------------------------

EndStep(n, c) == BecomeCanonical(n, c) \/ LoseGlare(n, c) \/ NoticeClose(n, c)

NextGlare ==
  \/ \E n \in Nodes, t \in Tasks : NodeDials(n, t)
  \/ \E t \in Tasks, c \in Conns : OpenConn(t, c)
  \/ \E t \in Tasks : DialFails(t)
  \/ \E n \in Nodes : DialExpires(n)
  \/ \E n \in Nodes, c \in Conns : EndStep(n, c) \/ Fault(n, c)

SpecGlare == InitGlare /\ [][NextGlare]_glareVars

\* The keepalive dials a peer it has no link to again and again; a dial goes on to its
\* next provider; a handshake ends and a close is noticed (transport close or idle
\* timeout).
GlareFairness ==
  /\ \A n \in Nodes : WF_glareVars(\E t \in Tasks : NodeDials(n, t))
  /\ \A t \in Tasks : WF_glareVars(DialFails(t) \/ \E c \in Conns : OpenConn(t, c))
  /\ \A n \in Nodes, c \in Conns : WF_glareVars(EndStep(n, c))

FairGlare == SpecGlare /\ GlareFairness

-----------------------------------------------------------------------------
(* Correctness. *)

Ends == [Nodes -> {"pending", "up", "closed"}]

\* Every variable has its shape.
GlareTypeOK ==
  /\ conn \in [Conns -> [dialer : Nodes \cup {NoOne}, level : SharedLevels \cup {0},
                         end : Ends]]
  /\ canon \in [Nodes -> Conns \cup {NoOne}]
  /\ task \in [Tasks -> [node : Nodes \cup {NoOne}, todo : SUBSET SharedLevels,
                         conn : Conns \cup {NoOne}]]
  /\ inflight \in [Nodes -> Tasks \cup {NoOne}]
  /\ faults \in 0..MaxFaults
  /\ expiries \in 0..MaxExpiries

\* Nothing is under way: no handshake runs and no close is still to be noticed.
Quiet ==
  \A c \in Conns : conn[c] = NoConn \/ \A n \in Nodes : conn[c].end[n] = "up"

\* Whatever was dialled, lost and closed, when nothing is under way the two registries
\* hold the same connection or none, and no other connection is left open.
QuietAgreement ==
  Quiet => /\ \A m, n \in Nodes : canon[m] = canon[n]
           /\ \A c \in Conns : conn[c] = NoConn \/ \A n \in Nodes : canon[n] = c

\* A connection is closed at one end only for a better one, so glare alone never leaves
\* the nodes without a link: the node that closed it has a canonical link, which the
\* other node has not closed.
ClosedForSurvivor ==
  \A c \in Conns, n \in Nodes :
    (conn[c] # NoConn /\ conn[c].end[n] = "closed")
      => /\ canon[n] # NoOne
         /\ conn[canon[n]].end[Other(n)] # "closed"

\* It is so as long as no fault happens and no dial outlives its deadline.
GlareLeavesSurvivor == (faults = 0 /\ expiries = 0) => ClosedForSurvivor

\* Glare ends: once faults are over the two nodes end up with one and the same link, and
\* keep it, unless a dial has outlived its callers' deadline.
EventuallyLinked ==
  [](expiries = 0)
    => <>[](\E c \in Conns : \A n \in Nodes : canon[n] = c /\ conn[c].end[n] = "up")

-----------------------------------------------------------------------------
(* What a comment in the code says and the code does not do. *)

\* "At one level the link dialled by the smaller hash is kept; in glare both ends agree":
\* without a fault, no connection is closed unless a survivor is left.
BothEndsAgree == faults = 0 => ClosedForSurvivor

-----------------------------------------------------------------------------
(* For the model checker. *)

\* Both nodes reach each other through every provider.
MCReach == [n \in Nodes |-> SharedLevels]
=============================================================================
