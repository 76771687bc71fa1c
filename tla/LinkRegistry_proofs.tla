------------------------- MODULE LinkRegistry_proofs --------------------------
(***************************************************************************)
(* Proofs about LinkRegistry, for any peers, providers, bounds and budget. *)
(* The inductive invariant IInv falls into the attempts and their callers, *)
(* the links and their listeners, and the links an attempt still holds.    *)
(* From it follows that a registry keeps its sessions (it implements       *)
(* PeerSession).                                                           *)
(***************************************************************************)
EXTENDS LinkRegistry, LinkGlare, TLAPS

Attempts ==
  /\ op \in [Ops -> OpRecord]
  /\ inflights \in [Peers -> Ops \cup {None}]
  /\ caller \in [Callers -> Ops \cup {None}]
  /\ listening \in BOOLEAN
  /\ entering \in [Callers -> Peers \cup {None}]
  /\ dialCooldown \in [Peers -> [failures : 0..BackoffSteps, cooling : BOOLEAN]]
  /\ AttemptsNamed
  /\ InflightHasWaiter

Registry ==
  /\ link \in [Links -> LinkRecord]
  /\ links \in [Peers -> Links \cup {None}]
  /\ health \in [Peers -> Links \cup {None}]
  /\ watched \subseteq Links
  /\ LinksNamed
  /\ NoOrphanLink
  /\ NoDeadCanonical

LEMMA IInvParts == IInv <=> Attempts /\ Registry /\ LateLinksHeld
  BY DEF IInv, TypeOK, Attempts, Registry

LEMMA IInvPartsNext == IInv' <=> Attempts' /\ Registry' /\ LateLinksHeld'
  BY DEF IInv, TypeOK, Attempts, Registry

-----------------------------------------------------------------------------
(* Records. *)

\* The records an attempt goes through are attempt records.
LEMMA OpRecords ==
  ASSUME NEW r \in OpRecord
  PROVE  /\ NextProvider(r) \in OpRecord
         /\ NextProvider(r).kind = r.kind
         /\ NextProvider(r).peer = r.peer
         /\ NextProvider(r).pc = "try"
         /\ IdleOp \in OpRecord
         /\ IdleOp.kind = "none"
         /\ IdleOp.pc = "idle"
  BY DEF OpRecord, NextProvider, IdleOp

-----------------------------------------------------------------------------
(* Attempts and callers. *)

\* An attempt that begins or moves on disturbs neither its callers nor the others'.
LEMMA AttemptMoves ==
  ASSUME IInv, NEW o \in Ops, NEW rec \in OpRecord,
         op' = [op EXCEPT ![o] = rec],
         rec.peer \in Peers, rec.pc # "idle",
         op[o].kind = "dial" => rec.kind = "dial" /\ rec.peer = op[o].peer,
         rec.pc \in {"settle", "replace"} => rec.link \in Links,
         UNCHANGED dialVars
  PROVE  Attempts'
<1>1. op' \in [Ops -> OpRecord] /\ UNCHANGED <<inflights, caller, dialCooldown, listening, entering>>
  BY DEF IInv, TypeOK, dialVars, entryVars
<1>2. op'[o] = rec /\ \A n \in Ops \ {o} : op'[n] = op[n]
  BY DEF IInv, TypeOK
<1>3. AttemptsNamed'
  BY <1>2 DEF IInv, AttemptsNamed
<1>4. InflightHasWaiter'
  BY <1>1, <1>2 DEF IInv, TypeOK, InflightHasWaiter
<1> QED BY <1>1, <1>3, <1>4 DEF IInv, TypeOK, Attempts

\* An attempt nobody waits for may end.
LEMMA AttemptEnds ==
  ASSUME IInv, NEW o \in Ops, op[o].kind # "dial",
         op' = [op EXCEPT ![o] = IdleOp], UNCHANGED dialVars
  PROVE  Attempts'
<1>1. op' \in [Ops -> OpRecord] /\ UNCHANGED <<inflights, caller, dialCooldown, listening, entering>>
  BY DEF IInv, TypeOK, dialVars, entryVars, IdleOp, OpRecord
<1>2. op'[o] = IdleOp /\ \A n \in Ops \ {o} : op'[n] = op[n]
  BY DEF IInv, TypeOK
<1>3. AttemptsNamed'
  BY <1>2 DEF IInv, AttemptsNamed, IdleOp
<1>4. InflightHasWaiter'
  BY <1>1, <1>2 DEF IInv, TypeOK, InflightHasWaiter
<1> QED BY <1>1, <1>3, <1>4 DEF IInv, TypeOK, Attempts

\* A dial that settles takes its entry and its callers with it.
LEMMA DialSettles ==
  ASSUME IInv, NEW o \in Ops, op[o].kind = "dial", op[o].peer \in Peers,
         SettleDial(o, op[o].peer),
         dialCooldown' \in [Peers -> [failures : 0..BackoffSteps, cooling : BOOLEAN]]
  PROVE  Attempts'
<1>1. op' \in [Ops -> OpRecord]
  BY DEF IInv, TypeOK, SettleDial, IdleOp, OpRecord
<1>2. op'[o] = IdleOp /\ \A n \in Ops \ {o} : op'[n] = op[n]
  BY DEF IInv, TypeOK, SettleDial
<1>3. /\ inflights' \in [Peers -> Ops \cup {None}]
      /\ caller' \in [Callers -> Ops \cup {None}]
      /\ UNCHANGED <<listening, entering>>
  BY DEF IInv, TypeOK, SettleDial, Released, entryVars
<1>4. AttemptsNamed'
  BY <1>2 DEF IInv, AttemptsNamed, IdleOp
<1>5. ASSUME NEW p \in Peers, inflights'[p] # None
      PROVE  /\ op'[inflights'[p]].kind = "dial"
             /\ op'[inflights'[p]].peer = p
             /\ \E c \in Callers : caller'[c] = inflights'[p]
  <2>1. inflights'[p] = inflights[p] /\ p # op[o].peer
    BY <1>5 DEF IInv, TypeOK, SettleDial
  <2>2. inflights[p] \in Ops \ {o} /\ op[inflights[p]].kind = "dial" /\ op[inflights[p]].peer = p
    BY <1>5, <2>1 DEF IInv, TypeOK, InflightHasWaiter
  <2>3. PICK c \in Callers : caller[c] = inflights[p]
    BY <1>5, <2>1 DEF IInv, InflightHasWaiter
  <2>4. caller'[c] = inflights[p]
    BY <2>2, <2>3 DEF SettleDial, Released
  <2> QED BY <1>2, <2>1, <2>2, <2>4
<1>6. InflightHasWaiter'
  BY <1>5 DEF InflightHasWaiter
<1> QED BY <1>1, <1>3, <1>4, <1>6 DEF Attempts, IInv, TypeOK

\* The failures counted stay within their bound.
LEMMA FailureNoted ==
  ASSUME dialCooldown \in [Peers -> [failures : 0..BackoffSteps, cooling : BOOLEAN]],
         NEW p \in Peers, noteDialFailure(p)
  PROVE  dialCooldown' \in [Peers -> [failures : 0..BackoffSteps, cooling : BOOLEAN]]
<1> DEFINE Cooldown == [failures : 0..BackoffSteps, cooling : BOOLEAN]
           c == dialCooldown[p]
           n == IF c.failures < BackoffSteps THEN c.failures + 1 ELSE c.failures
<1>1. c \in Cooldown
  OBVIOUS
<1>2. n \in 0..BackoffSteps
  BY <1>1, BoundsAssumption
<1>3. [failures |-> n, cooling |-> TRUE] \in Cooldown
  BY <1>2
<1>4. dialCooldown' = [dialCooldown EXCEPT ![p] = [failures |-> n, cooling |-> TRUE]]
  BY DEF noteDialFailure
<1> QED BY <1>3, <1>4

\* However registerResolvedLink ends, the attempt ends, settles its callers or moves on.
LEMMA ResolveAttempts ==
  ASSUME IInv, NEW o \in Ops, NEW rec \in OpRecord, NEW canonical, Resolve(o, rec, canonical),
         rec.kind # "dial" => op[o].kind # "dial",
         rec.kind = "dial" => /\ op[o].kind = "dial"
                              /\ op[o].pc # "idle"
                              /\ op[o].peer = rec.peer
  PROVE  /\ Attempts'
         /\ op'[o].pc \notin {"settle", "replace"}
         /\ \A n \in Ops \ {o} : op'[n] = op[n]
<1>1. CASE rec.kind # "dial"
  <2>1. op' = [op EXCEPT ![o] = IdleOp] /\ UNCHANGED dialVars
    BY <1>1 DEF Resolve
  <2>2. Attempts'
    BY <1>1, <2>1, AttemptEnds
  <2> QED BY <2>1, <2>2 DEF IInv, TypeOK, IdleOp
<1>2. CASE rec.kind = "dial" /\ canonical # None
  <2>1. op[o].peer \in Peers /\ op[o].peer = rec.peer
    BY <1>2 DEF IInv, AttemptsNamed
  <2>2. /\ SettleDial(o, op[o].peer)
        /\ dialCooldown' = [dialCooldown EXCEPT ![op[o].peer] = NoCooldown]
    BY <1>2, <2>1 DEF Resolve
  <2>3. dialCooldown' \in [Peers -> [failures : 0..BackoffSteps, cooling : BOOLEAN]]
    <3>1. NoCooldown \in [failures : 0..BackoffSteps, cooling : BOOLEAN]
      BY BoundsAssumption DEF NoCooldown
    <3> QED BY <2>2, <3>1 DEF IInv, TypeOK
  <2>4. Attempts'
    BY <1>2, <2>1, <2>2, <2>3, DialSettles
  <2> QED BY <2>2, <2>4 DEF IInv, TypeOK, IdleOp, SettleDial
<1>3. CASE rec.kind = "dial" /\ canonical = None
  <2>1. op' = [op EXCEPT ![o] = NextProvider(rec)] /\ UNCHANGED dialVars
    BY <1>3 DEF Resolve
  <2>2. rec.peer \in Peers
    BY <1>3 DEF IInv, AttemptsNamed
  <2>3. Attempts'
    BY <1>3, <2>1, <2>2, OpRecords, AttemptMoves
  <2> QED BY <2>1, <2>3, OpRecords DEF IInv, TypeOK
<1> QED BY <1>1, <1>2, <1>3

-----------------------------------------------------------------------------
(* Links and listeners. *)

\* linkUp leaves the tracker's listeners well formed.
LEMMA LinkUpListeners ==
  ASSUME IInv, NEW p \in Peers, NEW l \in Links, LinkUp(p, l)
  PROVE  /\ health' \in [Peers -> Links \cup {None}]
         /\ watched' \subseteq Links
  BY DEF IInv, TypeOK, LinkUp

\* registerResolvedLink leaves no open link behind and takes up none that is over.
LEMMA RegisterWinnerRegistry ==
  ASSUME IInv, NEW o \in Ops, NEW rec \in OpRecord, NEW l \in Links,
         NEW candidate \in LinkRecord, candidate.peer \in Peers,
         candidate.st = "open" \/ candidate.level \in LateReady,
         \A p \in Peers : links[p] # l,
         link[l].st = "open" => candidate.st = "open",
         RegisterWinner(o, rec, l, candidate)
  PROVE  /\ Registry'
         /\ \A k \in Links \ {l} : /\ link'[k].peer = link[k].peer
                                   /\ link'[k].level = link[k].level
         /\ \A p \in Peers : links'[p] \in {links[p], l}
<1> DEFINE p == candidate.peer
           existing == links[p]
<1>1. links' = [links EXCEPT ![p] = l] /\ links' \in [Peers -> Links \cup {None}]
  BY DEF RegisterWinner, IInv, TypeOK
<1>2. existing # None => existing \in Links \ {l} /\ link[existing].peer = p
  BY DEF IInv, TypeOK, LinksNamed, Linked
<1>3. /\ link' \in [Links -> LinkRecord]
      /\ link'[l] = candidate
      /\ \A k \in Links \ {l, existing} : link'[k] = link[k]
      /\ existing # None => /\ link'[existing].st # "open"
                            /\ link'[existing].peer = link[existing].peer
                            /\ link'[existing].level = link[existing].level
  <2>1. CASE existing # None /\ link[existing].st = "open"
    <3>1. link' = [link EXCEPT ![l] = candidate, ![existing].st = "closing"]
      BY <2>1 DEF RegisterWinner
    <3>2. [link[existing] EXCEPT !.st = "closing"] \in LinkRecord
      BY <1>2, <2>1 DEF IInv, TypeOK, LinkRecord
    <3> QED BY <1>2, <2>1, <3>1, <3>2 DEF IInv, TypeOK, LinkRecord
  <2>2. CASE ~(existing # None /\ link[existing].st = "open")
    <3>1. link' = [link EXCEPT ![l] = candidate]
      BY <2>2 DEF RegisterWinner
    <3> QED BY <1>2, <2>2, <3>1 DEF IInv, TypeOK
  <2> QED BY <2>1, <2>2
<1>4. /\ health' \in [Peers -> Links \cup {None}]
      /\ watched' \subseteq Links
  <2>1. CASE existing # None /\ link[existing].st = "open"
    <3>1. UNCHANGED <<health, watched>>
      BY <2>1 DEF RegisterWinner
    <3> QED BY <3>1 DEF IInv, TypeOK
  <2>2. CASE ~(existing # None /\ link[existing].st = "open")
    <3>1. LinkUp(p, l)
      BY <2>2 DEF RegisterWinner
    <3> QED BY <3>1, LinkUpListeners
  <2> QED BY <2>1, <2>2
<1>5. \A q \in Peers \ {p} :
        /\ links'[q] = links[q]
        /\ links[q] # None => links[q] \in Links \ {l, existing}
  BY <1>1, <1>2 DEF IInv, TypeOK, LinksNamed, Linked
<1>6. links'[p] = l
  BY <1>1 DEF IInv, TypeOK
<1>7. LinksNamed'
  <2>1. ASSUME NEW k \in Links, link'[k].st # "down"
        PROVE  link'[k].peer \in Peers
    <3>1. CASE k \in Links \ {l, existing}
      BY <1>3, <2>1, <3>1 DEF IInv, LinksNamed
    <3> QED BY <1>2, <1>3, <2>1, <3>1, BoundsAssumption
  <2>2. ASSUME NEW q \in Peers, links'[q] # None
        PROVE  link'[links'[q]].peer = q
    <3>1. CASE q = p
      BY <1>3, <1>6, <3>1
    <3>2. CASE q # p
      BY <1>3, <1>5, <2>2, <3>2 DEF IInv, LinksNamed, Linked
    <3> QED BY <3>1, <3>2
  <2> QED BY <2>1, <2>2 DEF LinksNamed, Linked
<1>8. NoOrphanLink'
  <2> SUFFICES ASSUME NEW k \in Links, link'[k].st = "open"
               PROVE  links'[link'[k].peer] = k \/ link'[k].level \in LateReady
    BY DEF NoOrphanLink
  <2>1. CASE k = l
    BY <1>3, <1>6, <2>1
  <2>2. CASE k # l
    <3>1. k \in Links \ {l, existing} /\ link'[k] = link[k]
      BY <1>2, <1>3, <2>2, BoundsAssumption
    <3>2. link[k].peer \in Peers /\ (links[link[k].peer] = k \/ link[k].level \in LateReady)
      BY <3>1 DEF IInv, LinksNamed, NoOrphanLink
    <3> QED BY <1>5, <3>1, <3>2
  <2> QED BY <2>1, <2>2
<1>9. NoDeadCanonical'
  <2> SUFFICES ASSUME NEW q \in Peers, links'[q] # None
               PROVE  link'[links'[q]].st # "down" \/ link'[links'[q]].level \in LateReady
    BY DEF NoDeadCanonical
  <2>1. CASE q = p
    BY <1>3, <1>6, <2>1
  <2>2. CASE q # p
    BY <1>3, <1>5, <2>2 DEF IInv, NoDeadCanonical
  <2> QED BY <2>1, <2>2
<1>11. Registry'
  BY <1>1, <1>3, <1>4, <1>7, <1>8, <1>9 DEF Registry
<1>12. \A k \in Links \ {l} : link'[k].peer = link[k].peer /\ link'[k].level = link[k].level
  <2> TAKE k \in Links \ {l}
  <2>1. k = existing => existing # None
    BY BoundsAssumption
  <2> QED BY <1>3, <2>1
<1>13. \A q \in Peers : links'[q] \in {links[q], l}
  BY <1>5, <1>6
<1> QED BY <1>11, <1>12, <1>13

\* A candidate that loses is closed, unless it is over already.
LEMMA RegisterLoserRegistry ==
  ASSUME IInv, NEW o \in Ops, NEW rec \in OpRecord, NEW l \in Links,
         NEW candidate \in LinkRecord, candidate.peer \in Peers,
         \A p \in Peers : links[p] # l,
         RegisterLoser(o, rec, l, candidate)
  PROVE  /\ Registry'
         /\ \A k \in Links \ {l} : /\ link'[k].peer = link[k].peer
                                   /\ link'[k].level = link[k].level
         /\ \A p \in Peers : links'[p] \in {links[p], l}
<1>1. UNCHANGED <<links, health, watched>>
  BY DEF RegisterLoser, registryVars
<1>2. PICK r \in LinkRecord :
        /\ link' = [link EXCEPT ![l] = r]
        /\ r.st # "open"
        /\ r.st # "down" => r.peer \in Peers
  <2>1. CASE candidate.st = "open"
    <3>1. [candidate EXCEPT !.st = "closing"] \in LinkRecord
      BY DEF LinkRecord
    <3> QED BY <2>1, <3>1 DEF RegisterLoser, LinkRecord
  <2>2. CASE candidate.st # "open"
    <3>1. NoLink \in LinkRecord /\ NoLink.st = "down"
      BY DEF NoLink, LinkRecord
    <3> QED BY <2>2, <3>1 DEF RegisterLoser
  <2> QED BY <2>1, <2>2
<1>3. /\ link' \in [Links -> LinkRecord]
      /\ link'[l] = r
      /\ \A k \in Links \ {l} : link'[k] = link[k]
  BY <1>2 DEF IInv, TypeOK
<1>4. \A p \in Linked : links[p] \in Links \ {l}
  BY DEF Linked, IInv, TypeOK
<1>5. LinksNamed'
  BY <1>1, <1>2, <1>3, <1>4 DEF IInv, LinksNamed, Linked
<1>6. NoOrphanLink'
  BY <1>1, <1>2, <1>3 DEF IInv, NoOrphanLink
<1>7. NoDeadCanonical'
  BY <1>1, <1>3, <1>4 DEF IInv, NoDeadCanonical, Linked
<1>9. Registry'
  BY <1>1, <1>3, <1>5, <1>6, <1>7 DEF Registry, IInv, TypeOK
<1> QED BY <1>1, <1>3, <1>9

-----------------------------------------------------------------------------
(* Links held by a dial() that has not returned. *)

\* What one attempt does leaves the others the links they hold.
LEMMA LateLinksKept ==
  ASSUME IInv, NEW o \in Ops,
         op'[o].pc # "settle",
         \A n \in Ops \ {o} : op'[n] = op[n],
         \A n \in Ops \ {o} : op[n].pc = "settle" =>
           /\ link'[op[n].link].peer = link[op[n].link].peer
           /\ link'[op[n].link].level = link[op[n].link].level
           /\ \A p \in Peers : links'[p] # op[n].link
  PROVE  LateLinksHeld'
  BY DEF IInv, LateLinksHeld

\* Registering a link preserves the invariant: one that nobody refers to, or the one
\* that the attempt itself has held.
LEMMA RegisterIInv ==
  ASSUME IInv, NEW o \in Ops, NEW rec \in OpRecord, NEW l \in Links,
         NEW candidate \in LinkRecord, candidate.peer \in Peers,
         candidate.st = "open" \/ candidate.level \in LateReady,
         \A p \in Peers : links[p] # l,
         link[l].st = "open" => candidate.st = "open",
         \A n \in Ops \ {o} : op[n].pc = "settle" => op[n].link # l,
         rec.peer = candidate.peer,
         rec.kind # "dial" => op[o].kind # "dial",
         rec.kind = "dial" => /\ op[o].kind = "dial"
                              /\ op[o].pc # "idle"
                              /\ op[o].peer = rec.peer,
         Register(o, rec, l, candidate)
  PROVE  IInv'
<1>1. /\ Registry'
      /\ \A k \in Links \ {l} : /\ link'[k].peer = link[k].peer
                                /\ link'[k].level = link[k].level
      /\ \A p \in Peers : links'[p] \in {links[p], l}
  BY RegisterLoserRegistry, RegisterWinnerRegistry DEF Register
<1>2. /\ Attempts'
      /\ op'[o].pc # "settle"
      /\ \A n \in Ops \ {o} : op'[n] = op[n]
  <2>1. CASE \E canonical : Resolve(o, rec, canonical)
    BY <2>1, ResolveAttempts
  <2>2. CASE \E r \in OpRecord :
               /\ op' = [op EXCEPT ![o] = r] /\ UNCHANGED dialVars
               /\ r.kind = rec.kind /\ r.peer = rec.peer
               /\ r.pc \in {"reject", "replace"}
               /\ r.pc = "replace" => r.link = l
    <3>1. PICK r \in OpRecord :
               /\ op' = [op EXCEPT ![o] = r] /\ UNCHANGED dialVars
               /\ r.kind = rec.kind /\ r.peer = rec.peer
               /\ r.pc \in {"reject", "replace"}
               /\ r.pc = "replace" => r.link = l
      BY <2>2
    <3>2. Attempts'
      BY <3>1, AttemptMoves
    <3> QED BY <3>1, <3>2 DEF IInv, TypeOK
  <2>3. CASE op' = [op EXCEPT ![o] = [rec EXCEPT !.pc = "reject", !.link = None, !.wait = l]]
             /\ UNCHANGED dialVars
    <3>1. [rec EXCEPT !.pc = "reject", !.link = None, !.wait = l] \in OpRecord
      BY DEF OpRecord
    <3> QED BY <2>2, <2>3, <3>1 DEF OpRecord
  <2>4. CASE /\ op' = [op EXCEPT ![o] = [rec EXCEPT !.pc = "replace", !.link = l,
                                           !.wait = links[candidate.peer]]]
             /\ UNCHANGED dialVars
    <3>1. [rec EXCEPT !.pc = "replace", !.link = l, !.wait = links[candidate.peer]] \in OpRecord
      BY DEF OpRecord, IInv, TypeOK
    <3> QED BY <2>2, <2>4, <3>1 DEF OpRecord
  <2> QED BY <2>1, <2>3, <2>4 DEF Register, RegisterLoser, RegisterWinner, dialVars
<1>3. LateLinksHeld'
  <2> SUFFICES ASSUME NEW n \in Ops \ {o}, op[n].pc = "settle"
               PROVE  /\ link'[op[n].link].peer = link[op[n].link].peer
                      /\ link'[op[n].link].level = link[op[n].link].level
                      /\ \A p \in Peers : links'[p] # op[n].link
    BY <1>2, LateLinksKept
  <2>1. op[n].link \in Links \ {l} /\ \A p \in Peers : links[p] # op[n].link
    BY DEF IInv, AttemptsNamed, LateLinksHeld
  <2> QED BY <1>1, <2>1
<1> QED BY <1>1, <1>2, <1>3, IInvPartsNext

-----------------------------------------------------------------------------
(* The steps of callers. *)

LEMMA RegistryUnchanged ==
  ASSUME IInv, UNCHANGED <<link, registryVars>>
  PROVE  Registry'
  BY DEF IInv, TypeOK, Registry, registryVars, LinksNamed, NoOrphanLink, NoDeadCanonical,
         Linked

LEMMA LateLinksUnchanged ==
  ASSUME IInv, UNCHANGED <<link, links, op>>
  PROVE  LateLinksHeld'
  BY DEF IInv, LateLinksHeld

\* An attempt that moves on while no link changes.
LEMMA MoveIInv ==
  ASSUME IInv, NEW o \in Ops, NEW rec \in OpRecord,
         op' = [op EXCEPT ![o] = rec],
         rec.peer \in Peers, rec.pc \in {"try", "evict", "connect", "reject"},
         op[o].kind = "dial" => rec.kind = "dial" /\ rec.peer = op[o].peer,
         UNCHANGED <<link, registryVars, dialVars>>
  PROVE  IInv'
<1>1. Attempts'
  BY AttemptMoves
<1>2. Registry'
  BY RegistryUnchanged
<1>3. /\ op'[o].pc # "settle"
      /\ \A n \in Ops \ {o} : op'[n] = op[n]
      /\ UNCHANGED <<link, links>>
  BY DEF IInv, TypeOK, registryVars
<1>4. LateLinksHeld'
  BY <1>3, LateLinksKept DEF IInv, LateLinksHeld
<1> QED BY <1>1, <1>2, <1>4, IInvPartsNext

\* A caller that comes, or returns at once, and listeners that settle.
LEMMA EntryIInv ==
  ASSUME IInv, UNCHANGED <<link, registryVars, op, inflights, caller, dialCooldown>>,
         listening' \in BOOLEAN, entering' \in [Callers -> Peers \cup {None}]
  PROVE  IInv'
<1>1. UNCHANGED links
  BY DEF registryVars
<1>2. Attempts'
  BY DEF IInv, TypeOK, Attempts, AttemptsNamed, InflightHasWaiter
<1> QED BY <1>1, <1>2, RegistryUnchanged, LateLinksUnchanged, IInvPartsNext

LEMMA EnsureEntersIInv ==
  ASSUME IInv, NEW c \in Callers, NEW p \in Peers, EnsureEnters(c, p) \/ ReturnsAtOnce(c, p)
  PROVE  IInv'
<1>1. /\ UNCHANGED <<link, registryVars, op, inflights, caller, dialCooldown, listening>>
      /\ \E q \in {p, None} : entering' = [entering EXCEPT ![c] = q]
  BY DEF EnsureEnters, ReturnsAtOnce, Asks
<1>2. listening' \in BOOLEAN /\ entering' \in [Callers -> Peers \cup {None}]
  BY <1>1 DEF IInv, TypeOK
<1> QED BY <1>1, <1>2, EntryIInv

LEMMA SignalsListenIInv ==
  ASSUME IInv, SignalsListen
  PROVE  IInv'
<1>1. /\ UNCHANGED <<link, registryVars, op, inflights, caller, dialCooldown, entering>>
      /\ listening' = TRUE
  BY DEF SignalsListen
<1>2. listening' \in BOOLEAN /\ entering' \in [Callers -> Peers \cup {None}]
  BY <1>1 DEF IInv, TypeOK
<1> QED BY <1>1, <1>2, EntryIInv

LEMMA JoinDialIInv ==
  ASSUME IInv, NEW c \in Callers, NEW p \in Peers, JoinDial(c, p)
  PROVE  IInv'
<1>1. /\ UNCHANGED <<link, registryVars, links, op, inflights, dialCooldown, listening>>
      /\ caller[c] = None
      /\ caller' = [caller EXCEPT ![c] = inflights[p]]
      /\ entering' = [entering EXCEPT ![c] = None]
  BY DEF JoinDial, Asks, registryVars
<1>2. caller' \in [Callers -> Ops \cup {None}] /\ entering' \in [Callers -> Peers \cup {None}]
  BY <1>1 DEF IInv, TypeOK
<1>3. InflightHasWaiter'
  BY <1>1 DEF IInv, TypeOK, InflightHasWaiter
<1>4. Attempts'
  BY <1>1, <1>2, <1>3 DEF IInv, TypeOK, Attempts, AttemptsNamed
<1> QED BY <1>1, <1>4, RegistryUnchanged, LateLinksUnchanged, IInvPartsNext

LEMMA StartDialIInv ==
  ASSUME IInv, NEW c \in Callers, NEW p \in Peers, NEW o \in Ops, StartDial(c, p, o)
  PROVE  IInv'
<1> DEFINE rec == [IdleOp EXCEPT !.kind = "dial", !.peer = p, !.pc = "try", !.todo = Levels]
<1>1. rec \in OpRecord /\ rec.kind = "dial" /\ rec.peer = p /\ rec.pc = "try"
  BY DEF IdleOp, OpRecord
<1>2. /\ op' = [op EXCEPT ![o] = rec]
      /\ inflights' = [inflights EXCEPT ![p] = o]
      /\ caller' = [caller EXCEPT ![c] = o]
      /\ dialCooldown' = [dialCooldown EXCEPT ![p] = NoCooldown]
      /\ caller[c] = None
      /\ op[o].kind = "none"
      /\ entering' = [entering EXCEPT ![c] = None]
      /\ UNCHANGED <<link, registryVars, links, listening>>
  BY DEF StartDial, Asks, registryVars, IInv, AttemptsNamed
<1>3. NoCooldown \in [failures : 0..BackoffSteps, cooling : BOOLEAN]
  BY BoundsAssumption DEF NoCooldown
<1>4. /\ op' \in [Ops -> OpRecord]
      /\ inflights' \in [Peers -> Ops \cup {None}]
      /\ caller' \in [Callers -> Ops \cup {None}]
      /\ listening' \in BOOLEAN /\ entering' \in [Callers -> Peers \cup {None}]
      /\ dialCooldown' \in [Peers -> [failures : 0..BackoffSteps, cooling : BOOLEAN]]
  BY <1>1, <1>2, <1>3 DEF IInv, TypeOK
<1>5. op'[o] = rec /\ \A n \in Ops \ {o} : op'[n] = op[n]
  BY <1>2 DEF IInv, TypeOK
<1>6. AttemptsNamed'
  <2>1. rec.kind = "dial" /\ rec.peer \in Peers /\ rec.pc = "try"
    BY <1>1
  <2> HIDE DEF rec
  <2> QED BY <1>5, <2>1 DEF IInv, AttemptsNamed
<1>7. ASSUME NEW q \in Peers, inflights'[q] # None
      PROVE  /\ op'[inflights'[q]].kind = "dial"
             /\ op'[inflights'[q]].peer = q
             /\ \E d \in Callers : caller'[d] = inflights'[q]
  <2>1. CASE q = p
    BY <1>1, <1>2, <1>5, <2>1 DEF IInv, TypeOK
  <2>2. CASE q # p
    <3>1. inflights'[q] = inflights[q] /\ inflights[q] \in Ops
      BY <1>2, <1>7, <2>2 DEF IInv, TypeOK
    <3>2. /\ op[inflights[q]].kind = "dial"
          /\ op[inflights[q]].peer = q
          /\ \E d \in Callers : caller[d] = inflights[q]
      BY <1>7, <3>1 DEF IInv, InflightHasWaiter
    <3>3. inflights[q] # o
      BY <1>2, <3>2
    <3>4. PICK d \in Callers : caller[d] = inflights[q]
      BY <3>2
    <3>5. caller'[d] = inflights[q]
      BY <1>2, <1>7, <3>1, <3>4 DEF IInv, TypeOK
    <3> QED BY <1>5, <3>1, <3>2, <3>3, <3>5
  <2> QED BY <2>1, <2>2
<1>8. InflightHasWaiter'
  BY <1>7 DEF InflightHasWaiter
<1>9. LateLinksHeld'
  BY <1>1, <1>2, <1>5, LateLinksKept DEF IInv, LateLinksHeld
<1> QED BY <1>2, <1>4, <1>6, <1>8, <1>9, RegistryUnchanged, IInvPartsNext DEF Attempts

LEMMA DialDeadlineIInv ==
  ASSUME IInv, NEW c \in Callers, DialDeadline(c)
  PROVE  IInv'
<1> DEFINE o == caller[c]
           q == op[o].peer
<1>1. o \in Ops /\ o # None
  BY DEF DialDeadline, IInv, TypeOK
<1>2. /\ caller' = [caller EXCEPT ![c] = None]
      /\ inflights' = [inflights EXCEPT ![q] = IF @ = o THEN None ELSE @]
      /\ noteDialFailure(q)
      /\ UNCHANGED <<link, registryVars, links, op, listening, entering>>
  BY DEF DialDeadline, registryVars, entryVars
<1>3. caller' \in [Callers -> Ops \cup {None}] /\ inflights' \in [Peers -> Ops \cup {None}]
  BY <1>2 DEF IInv, TypeOK
<1>4. dialCooldown' \in [Peers -> [failures : 0..BackoffSteps, cooling : BOOLEAN]]
  <2>1. CASE q \in Peers
    BY <1>2, <2>1, FailureNoted DEF IInv, TypeOK
  <2>2. CASE q \notin Peers
    BY <1>2, <2>2 DEF IInv, TypeOK, noteDialFailure
  <2> QED BY <2>1, <2>2
<1>5. ASSUME NEW p \in Peers, inflights'[p] # None
      PROVE  /\ inflights'[p] = inflights[p]
             /\ \E d \in Callers : caller'[d] = inflights[p]
  <2>1. inflights'[p] = inflights[p] /\ (p = q => inflights[p] # o)
    BY <1>2, <1>5 DEF IInv, TypeOK
  <2>2. op[inflights[p]].peer = p /\ \E d \in Callers : caller[d] = inflights[p]
    BY <1>5, <2>1 DEF IInv, InflightHasWaiter
  <2>3. inflights[p] # o
    BY <2>1, <2>2
  <2> QED BY <1>2, <2>1, <2>2, <2>3 DEF IInv, TypeOK
<1>6. InflightHasWaiter'
  BY <1>2, <1>5 DEF IInv, InflightHasWaiter
<1>7. Attempts'
  BY <1>2, <1>3, <1>4, <1>6 DEF IInv, TypeOK, Attempts, AttemptsNamed
<1> QED BY <1>2, <1>7, RegistryUnchanged, LateLinksUnchanged, IInvPartsNext

-----------------------------------------------------------------------------
(* The steps of attempts. *)

\* A close that begins leaves the entries as they are.
LEMMA CloseRegistry ==
  ASSUME IInv, NEW l \in Links, link[l].st = "open",
         link' = [link EXCEPT ![l].st = "closing"], UNCHANGED registryVars
  PROVE  /\ Registry'
         /\ \A k \in Links : link'[k].peer = link[k].peer /\ link'[k].level = link[k].level
<1>1. UNCHANGED <<links, health, watched>>
  BY DEF registryVars
<1>2. [link[l] EXCEPT !.st = "closing"] \in LinkRecord
  BY DEF IInv, TypeOK, LinkRecord
<1>3. /\ link' \in [Links -> LinkRecord]
      /\ link'[l].st = "closing"
      /\ \A k \in Links \ {l} : link'[k] = link[k]
      /\ \A k \in Links : link'[k].peer = link[k].peer /\ link'[k].level = link[k].level
  BY <1>2 DEF IInv, TypeOK, LinkRecord
<1>4. LinksNamed'
  BY <1>1, <1>3 DEF IInv, TypeOK, LinksNamed, Linked
<1>5. NoOrphanLink'
  BY <1>1, <1>3 DEF IInv, NoOrphanLink
<1>6. NoDeadCanonical'
  BY <1>1, <1>3 DEF IInv, TypeOK, NoDeadCanonical
<1> QED BY <1>1, <1>3, <1>4, <1>5, <1>6 DEF Registry, IInv, TypeOK

LEMMA SkipProviderIInv ==
  ASSUME IInv, NEW o \in Ops, SkipProvider(o)
  PROVE  IInv'
<1>1. op[o] \in OpRecord /\ op[o].peer \in Peers
  BY DEF IInv, TypeOK, AttemptsNamed, SkipProvider
<1> QED BY <1>1, OpRecords, MoveIInv DEF SkipProvider

LEMMA DialExhaustedIInv ==
  ASSUME IInv, NEW o \in Ops, DialExhausted(o)
  PROVE  IInv'
<1>1. op[o].peer \in Peers /\ op[o].kind = "dial" /\ SettleDial(o, op[o].peer)
  BY DEF IInv, AttemptsNamed, DialExhausted
<1>2. dialCooldown' \in [Peers -> [failures : 0..BackoffSteps, cooling : BOOLEAN]]
  BY <1>1, FailureNoted DEF DialExhausted, IInv, TypeOK
<1>3. Attempts'
  BY <1>1, <1>2, DialSettles
<1>4. /\ op'[o].pc # "settle"
      /\ \A n \in Ops \ {o} : op'[n] = op[n]
      /\ UNCHANGED <<link, registryVars, links>>
  BY <1>1 DEF IInv, TypeOK, SettleDial, IdleOp, DialExhausted, registryVars
<1>5. LateLinksHeld'
  BY <1>4, LateLinksKept DEF IInv, LateLinksHeld
<1> QED BY <1>3, <1>4, <1>5, RegistryUnchanged, IInvPartsNext

LEMMA TrimToBudgetIInv ==
  ASSUME IInv, NEW o \in Ops, TrimToBudget(o)
  PROVE  IInv'
<1>1. op[o] \in OpRecord /\ op[o].peer \in Peers /\ UNCHANGED <<registryVars, dialVars, links>>
  BY DEF IInv, TypeOK, AttemptsNamed, TrimToBudget, registryVars
<1>2. CASE op' = [op EXCEPT ![o].pc = "connect"] /\ UNCHANGED link
  <2> DEFINE rec == [op[o] EXCEPT !.pc = "connect"]
  <2>1. rec \in OpRecord /\ rec.kind = op[o].kind /\ rec.peer = op[o].peer /\ rec.pc = "connect"
    BY <1>1 DEF OpRecord
  <2>2. op' = [op EXCEPT ![o] = rec]
    BY <1>2
  <2> HIDE DEF rec
  <2> QED BY <1>1, <1>2, <2>1, <2>2, MoveIInv
<1>3. CASE \E p \in Linked :
             /\ link[links[p]].st = "open"
             /\ link' = [link EXCEPT ![links[p]].st = "closing"]
             /\ op' = [op EXCEPT ![o] = [@ EXCEPT !.pc = "evict", !.wait = links[p]]]
  <2>1. PICK p \in Linked :
             /\ link[links[p]].st = "open"
             /\ link' = [link EXCEPT ![links[p]].st = "closing"]
             /\ op' = [op EXCEPT ![o] = [@ EXCEPT !.pc = "evict", !.wait = links[p]]]
    BY <1>3
  <2> DEFINE rec == [op[o] EXCEPT !.pc = "evict", !.wait = links[p]]
  <2>2. links[p] \in Links
    BY <2>1 DEF Linked, IInv, TypeOK
  <2>3. rec \in OpRecord /\ rec.kind = op[o].kind /\ rec.peer = op[o].peer /\ rec.pc = "evict"
    BY <1>1, <2>2 DEF OpRecord
  <2>4. op' = [op EXCEPT ![o] = rec]
    BY <2>1
  <2> HIDE DEF rec
  <2>5. Attempts'
    BY <1>1, <2>3, <2>4, AttemptMoves
  <2>6. /\ Registry'
        /\ \A k \in Links : link'[k].peer = link[k].peer /\ link'[k].level = link[k].level
    BY <1>1, <2>1, <2>2, CloseRegistry
  <2>7. op'[o].pc # "settle" /\ \A n \in Ops \ {o} : op'[n] = op[n]
    BY <2>3, <2>4 DEF IInv, TypeOK
  <2>8. LateLinksHeld'
    <3> SUFFICES ASSUME NEW n \in Ops \ {o}, op[n].pc = "settle"
                 PROVE  /\ link'[op[n].link].peer = link[op[n].link].peer
                        /\ link'[op[n].link].level = link[op[n].link].level
                        /\ \A q \in Peers : links'[q] # op[n].link
      BY <2>7, LateLinksKept
    <3>1. op[n].link \in Links /\ \A q \in Peers : links[q] # op[n].link
      BY DEF IInv, AttemptsNamed, LateLinksHeld
    <3> QED BY <1>1, <2>6, <3>1
  <2> QED BY <2>5, <2>6, <2>8, IInvPartsNext
<1> QED BY <1>2, <1>3 DEF TrimToBudget

LEMMA EvictionDoneIInv ==
  ASSUME IInv, NEW o \in Ops, EvictionDone(o)
  PROVE  IInv'
<1> DEFINE rec == [op[o] EXCEPT !.pc = "connect", !.wait = None]
<1>1. op[o] \in OpRecord /\ op[o].peer \in Peers
  BY DEF IInv, TypeOK, AttemptsNamed, EvictionDone
<1>2. rec \in OpRecord /\ rec.kind = op[o].kind /\ rec.peer = op[o].peer /\ rec.pc = "connect"
  BY <1>1 DEF OpRecord
<1>3. op' = [op EXCEPT ![o] = rec] /\ UNCHANGED <<link, registryVars, dialVars>>
  BY DEF EvictionDone
<1> HIDE DEF rec
<1> QED BY <1>1, <1>2, <1>3, MoveIInv

\* An attempt nobody waits for ends while no link changes.
LEMMA EndIInv ==
  ASSUME IInv, NEW o \in Ops, op[o].kind # "dial", op' = [op EXCEPT ![o] = IdleOp],
         UNCHANGED <<link, registryVars, dialVars>>
  PROVE  IInv'
<1>1. Attempts'
  BY AttemptEnds
<1>2. /\ op'[o].pc # "settle"
      /\ \A n \in Ops \ {o} : op'[n] = op[n]
      /\ UNCHANGED links
  BY DEF IInv, TypeOK, IdleOp, registryVars
<1>3. LateLinksHeld'
  BY <1>2, LateLinksKept DEF IInv, LateLinksHeld
<1> QED BY <1>1, <1>3, RegistryUnchanged, IInvPartsNext

LEMMA ProviderFailsIInv ==
  ASSUME IInv, NEW o \in Ops, ProviderFails(o)
  PROVE  IInv'
<1>1. op[o] \in OpRecord /\ op[o].peer \in Peers /\ UNCHANGED <<link, registryVars, dialVars>>
  BY DEF IInv, TypeOK, AttemptsNamed, ProviderFails
<1>2. CASE op[o].kind = "dial"
  <2>1. op' = [op EXCEPT ![o] = NextProvider(op[o])]
    BY <1>2 DEF ProviderFails
  <2> QED BY <1>1, <2>1, OpRecords, MoveIInv
<1>3. CASE op[o].kind # "dial"
  <2>1. op' = [op EXCEPT ![o] = IdleOp]
    BY <1>3 DEF ProviderFails
  <2> QED BY <1>1, <1>3, <2>1, EndIInv
<1> QED BY <1>2, <1>3

LEMMA AcceptOfferIInv ==
  ASSUME IInv, NEW o \in Ops, NEW p \in Peers, AcceptOffer(o, p)
  PROVE  IInv'
<1> DEFINE rec == [IdleOp EXCEPT !.kind = "accept", !.peer = p, !.pc = "try",
                                 !.todo = {OfferLevel}]
<1>1. rec \in OpRecord /\ rec.peer = p /\ rec.pc = "try"
  BY ProvidersAssumption DEF OpRecord, IdleOp
<1>2. /\ op' = [op EXCEPT ![o] = rec]
      /\ UNCHANGED <<link, registryVars, dialVars>>
      /\ op[o].kind = "none"
  BY DEF AcceptOffer, IInv, AttemptsNamed
<1> HIDE DEF rec
<1> QED BY <1>1, <1>2, MoveIInv

\* A link that nobody refers to is held by no attempt and canonical for no peer.
LEMMA UnusedLink ==
  ASSUME IInv, NEW l \in Links, Unused(l)
  PROVE  /\ \A p \in Peers : links[p] # l
         /\ \A n \in Ops : op[n].link # l
         /\ link[l].st = "down"
  BY DEF Unused

LEMMA LinkReadyIInv ==
  ASSUME IInv, NEW o \in Ops, NEW l \in Links, LinkReady(o, l)
  PROVE  IInv'
<1>1. PICK lv \in Levels :
        Register(o, op[o], l, NewLink(op[o].peer, lv, op[o].kind = "dial"))
  BY DEF LinkReady
<1> DEFINE candidate == NewLink(op[o].peer, lv, op[o].kind = "dial")
<1>2. op[o] \in OpRecord /\ op[o].peer \in Peers /\ op[o].pc # "idle" /\ Unused(l)
  BY DEF IInv, TypeOK, AttemptsNamed, LinkReady
<1>3. candidate \in LinkRecord /\ candidate.peer = op[o].peer /\ candidate.st = "open"
  BY <1>2 DEF NewLink, LinkRecord
<1> HIDE DEF candidate
<1> QED BY <1>1, <1>2, <1>3, UnusedLink, RegisterIInv DEF candidate

LEMMA InboundLinkIInv ==
  ASSUME IInv, NEW o \in Ops, NEW p \in Peers, NEW lv \in Levels, NEW l \in Links,
         InboundLink(o, p, lv, l)
  PROVE  IInv'
<1> DEFINE candidate == NewLink(p, lv, FALSE)
           rec == [IdleOp EXCEPT !.kind = "inbound", !.peer = p]
<1>1. candidate \in LinkRecord /\ candidate.peer = p /\ candidate.st = "open"
  BY DEF NewLink, LinkRecord
<1>2. rec \in OpRecord /\ rec.kind = "inbound" /\ rec.peer = p
  BY DEF IdleOp, OpRecord
<1>3. Register(o, rec, l, candidate) /\ Unused(l) /\ op[o].kind = "none"
  BY DEF InboundLink, IInv, AttemptsNamed
<1> HIDE DEF candidate, rec
<1> QED BY <1>1, <1>2, <1>3, UnusedLink, RegisterIInv

LEMMA DialReturnsIInv ==
  ASSUME IInv, NEW o \in Ops, DialReturns(o)
  PROVE  IInv'
<1> DEFINE l == op[o].link
<1>1. /\ op[o] \in OpRecord
      /\ op[o].pc = "settle"
      /\ l \in Links
      /\ link[l] \in LinkRecord
      /\ Register(o, op[o], l, link[l])
  BY DEF DialReturns, IInv, TypeOK, AttemptsNamed
<1>2. /\ link[l].level \in LateReady
      /\ link[l].peer = op[o].peer
      /\ op[o].kind = "dial"
      /\ op[o].peer \in Peers
      /\ \A p \in Peers : links[p] # l
      /\ \A n \in Ops \ {o} : op[n].pc = "settle" => op[n].link # l
  BY <1>1 DEF IInv, AttemptsNamed, LateLinksHeld
<1> QED BY <1>1, <1>2, RegisterIInv

LEMMA LinkReadyEarlyIInv ==
  ASSUME IInv, NEW o \in Ops, NEW l \in Links, LinkReadyEarly(o, l)
  PROVE  IInv'
<1>1. PICK lv \in LateReady : link' = [link EXCEPT ![l] = NewLink(op[o].peer, lv, TRUE)]
  BY DEF LinkReadyEarly
<1> DEFINE candidate == NewLink(op[o].peer, lv, TRUE)
           rec == [op[o] EXCEPT !.pc = "settle", !.link = l]
<1>2. /\ op[o] \in OpRecord /\ op[o].peer \in Peers /\ op[o].kind = "dial"
      /\ \A p \in Peers : links[p] # l
      /\ \A n \in Ops : op[n].link # l
      /\ link[l].st = "down"
      /\ op' = [op EXCEPT ![o] = rec]
      /\ UNCHANGED <<links, health, watched, dialVars>>
  BY UnusedLink DEF IInv, TypeOK, AttemptsNamed, LinkReadyEarly, registryVars
<1>3. /\ candidate \in LinkRecord /\ candidate.peer = op[o].peer
      /\ candidate.level = lv /\ candidate.st = "open"
  BY <1>2, ProvidersAssumption DEF NewLink, LinkRecord
<1>4. /\ rec \in OpRecord /\ rec.kind = "dial" /\ rec.peer = op[o].peer
      /\ rec.pc = "settle" /\ rec.link = l
  BY <1>2 DEF OpRecord
<1>5. link' = [link EXCEPT ![l] = candidate]
  BY <1>1
<1> HIDE DEF candidate, rec
<1>6. Attempts'
  BY <1>2, <1>4, AttemptMoves
<1>7. /\ link' \in [Links -> LinkRecord]
      /\ link'[l] = candidate
      /\ \A k \in Links \ {l} : link'[k] = link[k]
      /\ \A p \in Linked : links[p] \in Links \ {l}
  BY <1>2, <1>3, <1>5 DEF IInv, TypeOK, Linked
<1>8. Registry'
  <2>1. LinksNamed'
    BY <1>2, <1>3, <1>7 DEF IInv, LinksNamed, Linked
  <2>2. NoOrphanLink'
    BY <1>2, <1>3, <1>7 DEF IInv, NoOrphanLink
  <2>3. NoDeadCanonical'
    BY <1>2, <1>7 DEF IInv, NoDeadCanonical, Linked
  <2> QED BY <1>2, <1>7, <2>1, <2>2, <2>3 DEF Registry, IInv, TypeOK
<1>9. op'[o] = rec /\ \A n \in Ops \ {o} : op'[n] = op[n]
  BY <1>2 DEF IInv, TypeOK
<1>10. \A n \in Ops \ {o} : op[n].pc = "settle" => op[n].link \in Links \ {l}
  BY <1>2 DEF IInv, AttemptsNamed
<1>11. LateLinksHeld'
  BY <1>2, <1>3, <1>4, <1>7, <1>9, <1>10 DEF IInv, LateLinksHeld
<1> QED BY <1>6, <1>8, <1>11, IInvPartsNext

LEMMA DialThrowsLateIInv ==
  ASSUME IInv, NEW o \in Ops, DialThrowsLate(o)
  PROVE  IInv'
<1> DEFINE l == op[o].link
<1>1. /\ op[o] \in OpRecord /\ op[o].peer \in Peers /\ op[o].pc = "settle" /\ l \in Links
      /\ op' = [op EXCEPT ![o] = NextProvider(op[o])]
      /\ link' = [link EXCEPT ![l] = IF @.st = "down" THEN NoLink ELSE @]
      /\ UNCHANGED <<links, health, watched, dialVars>>
  BY DEF DialThrowsLate, IInv, TypeOK, AttemptsNamed, registryVars
<1>2. /\ \A p \in Peers : links[p] # l
      /\ \A n \in Ops \ {o} : op[n].pc = "settle" => op[n].link \in Links \ {l}
  BY <1>1 DEF IInv, AttemptsNamed, LateLinksHeld
<1>3. Attempts'
  BY <1>1, OpRecords, AttemptMoves
<1>4. NoLink \in LinkRecord /\ NoLink.st = "down"
  BY DEF NoLink, LinkRecord
<1>5. /\ link' \in [Links -> LinkRecord]
      /\ link'[l].st = link[l].st
      /\ link'[l].st # "down" => link'[l] = link[l]
      /\ \A k \in Links \ {l} : link'[k] = link[k]
      /\ \A p \in Linked : links[p] \in Links \ {l}
  BY <1>1, <1>2, <1>4 DEF IInv, TypeOK, Linked
<1>6. Registry'
  <2>1. LinksNamed'
    BY <1>1, <1>5 DEF IInv, LinksNamed, Linked
  <2>2. NoOrphanLink'
    BY <1>1, <1>5 DEF IInv, NoOrphanLink
  <2>3. NoDeadCanonical'
    BY <1>1, <1>5 DEF IInv, NoDeadCanonical, Linked
  <2> QED BY <1>1, <1>5, <2>1, <2>2, <2>3 DEF Registry, IInv, TypeOK
<1>7. op'[o].pc # "settle" /\ \A n \in Ops \ {o} : op'[n] = op[n]
  BY <1>1, OpRecords DEF IInv, TypeOK
<1>8. LateLinksHeld'
  <2> SUFFICES ASSUME NEW n \in Ops \ {o}, op[n].pc = "settle"
               PROVE  /\ link'[op[n].link].peer = link[op[n].link].peer
                      /\ link'[op[n].link].level = link[op[n].link].level
                      /\ \A p \in Peers : links'[p] # op[n].link
    BY <1>7, LateLinksKept
  <2> QED BY <1>1, <1>2, <1>5 DEF IInv, LateLinksHeld
<1> QED BY <1>3, <1>6, <1>8, IInvPartsNext

LEMMA LoserClosedIInv ==
  ASSUME IInv, NEW o \in Ops, LoserClosed(o)
  PROVE  IInv'
<1>1. /\ op[o] \in OpRecord /\ op[o].pc = "reject"
      /\ Resolve(o, op[o], links[op[o].peer])
      /\ UNCHANGED <<link, registryVars, links>>
  BY DEF IInv, TypeOK, LoserClosed, registryVars
<1>2. /\ Attempts'
      /\ op'[o].pc # "settle"
      /\ \A n \in Ops \ {o} : op'[n] = op[n]
  BY <1>1, ResolveAttempts
<1>3. LateLinksHeld'
  BY <1>1, <1>2, LateLinksKept DEF IInv, LateLinksHeld
<1> QED BY <1>1, <1>2, <1>3, RegistryUnchanged, IInvPartsNext

LEMMA ReplacedClosedIInv ==
  ASSUME IInv, NEW o \in Ops, ReplacedClosed(o)
  PROVE  IInv'
<1> DEFINE p == op[o].peer
<1>1. /\ op[o] \in OpRecord /\ op[o].pc = "replace" /\ p \in Peers /\ op[o].link \in Links
      /\ Resolve(o, op[o], links[p])
      /\ LinkUp(p, op[o].link)
      /\ UNCHANGED <<link, links>>
  BY DEF IInv, TypeOK, AttemptsNamed, ReplacedClosed
<1>2. /\ Attempts'
      /\ op'[o].pc # "settle"
      /\ \A n \in Ops \ {o} : op'[n] = op[n]
  BY <1>1, ResolveAttempts
<1>3. /\ health' \in [Peers -> Links \cup {None}]
      /\ watched' \subseteq Links
  BY <1>1, LinkUpListeners
<1>4. LinksNamed' /\ NoOrphanLink' /\ NoDeadCanonical'
  BY <1>1 DEF IInv, LinksNamed, NoOrphanLink, NoDeadCanonical, Linked
<1>6. Registry'
  BY <1>1, <1>3, <1>4 DEF Registry, IInv, TypeOK
<1>7. LateLinksHeld'
  BY <1>1, <1>2, LateLinksKept DEF IInv, LateLinksHeld
<1> QED BY <1>2, <1>6, <1>7, IInvPartsNext

-----------------------------------------------------------------------------
(* The steps of links and cooldowns. *)

LEMMA LinkClosesIInv ==
  ASSUME IInv, NEW l \in Links, LinkCloses(l)
  PROVE  IInv'
<1>1. /\ link[l].st = "open"
      /\ link' = [link EXCEPT ![l].st = "closing"]
      /\ UNCHANGED <<registryVars, links, op, inflights, caller, dialCooldown,
                    listening, entering>>
  BY DEF LinkCloses, registryVars, dialVars, entryVars
<1>2. /\ Registry'
      /\ \A k \in Links : link'[k].peer = link[k].peer /\ link'[k].level = link[k].level
  BY <1>1, CloseRegistry
<1>3. Attempts'
  BY <1>1 DEF IInv, TypeOK, Attempts, AttemptsNamed, InflightHasWaiter
<1>4. \A o \in Ops : op[o].pc = "settle" => op[o].link \in Links
  BY DEF IInv, AttemptsNamed
<1>5. LateLinksHeld'
  BY <1>1, <1>2, <1>4 DEF IInv, LateLinksHeld
<1> QED BY <1>2, <1>3, <1>5, IInvPartsNext

LEMMA LinkDownIInv ==
  ASSUME IInv, NEW l \in Links, LinkDown(l)
  PROVE  IInv'
<1> DEFINE p == link[l].peer
<1>1. /\ link[l].st = "closing"
      /\ link[l] \in LinkRecord
      /\ p \in Peers
      /\ link' = [link EXCEPT ![l] =
                    IF Owner(l) = {} THEN NoLink ELSE [@ EXCEPT !.st = "down"]]
      /\ UNCHANGED <<op, inflights, caller, dialCooldown, listening, entering>>
  BY DEF LinkDown, IInv, TypeOK, LinksNamed, dialVars, entryVars
<1>2. /\ NoLink \in LinkRecord /\ NoLink.st = "down"
      /\ [link[l] EXCEPT !.st = "down"] \in LinkRecord
      /\ [link[l] EXCEPT !.st = "down"].st = "down"
      /\ [link[l] EXCEPT !.st = "down"].peer = link[l].peer
      /\ [link[l] EXCEPT !.st = "down"].level = link[l].level
  BY <1>1 DEF NoLink, LinkRecord
<1>3. /\ link' \in [Links -> LinkRecord]
      /\ link'[l].st = "down"
      /\ Owner(l) # {} => link'[l].peer = link[l].peer /\ link'[l].level = link[l].level
      /\ \A k \in Links \ {l} : link'[k] = link[k]
  BY <1>1, <1>2 DEF IInv, TypeOK
<1>4. /\ links' = [links EXCEPT ![p] = IF @ = l THEN None ELSE @]
      /\ health' \in [Peers -> Links \cup {None}]
      /\ watched' \subseteq Links
  <2>1. CASE links[p] = l
    BY <1>1, <2>1 DEF LinkDown, HealthDown, IInv, TypeOK
  <2>2. CASE links[p] # l
    BY <1>1, <2>2 DEF LinkDown, HealthDown, IInv, TypeOK, registryVars
  <2> QED BY <2>1, <2>2
<1>5. /\ links' \in [Peers -> Links \cup {None}]
      /\ \A q \in Peers : links'[q] # None =>
           links'[q] = links[q] /\ links[q] \in Links \ {l}
  <2>1. \A q \in Peers \ {p} : links[q] # l
    BY BoundsAssumption DEF IInv, LinksNamed, Linked
  <2> QED BY <1>1, <1>4, <2>1 DEF IInv, TypeOK
<1>6. LinksNamed'
  BY <1>3, <1>5 DEF IInv, LinksNamed, Linked
<1>7. NoOrphanLink'
  <2> SUFFICES ASSUME NEW k \in Links, link'[k].st = "open"
               PROVE  links'[link'[k].peer] = k \/ link'[k].level \in LateReady
    BY DEF NoOrphanLink
  <2>1. k # l /\ link'[k] = link[k]
    BY <1>3
  <2>2. link[k].peer \in Peers /\ (links[link[k].peer] = k \/ link[k].level \in LateReady)
    BY <2>1 DEF IInv, LinksNamed, NoOrphanLink
  <2> QED BY <1>4, <2>1, <2>2 DEF IInv, TypeOK
<1>8. NoDeadCanonical'
  BY <1>3, <1>5 DEF IInv, NoDeadCanonical
<1>10. Registry'
  BY <1>3, <1>4, <1>5, <1>6, <1>7, <1>8 DEF Registry, IInv, TypeOK
<1>11. Attempts'
  BY <1>1 DEF IInv, TypeOK, Attempts, AttemptsNamed, InflightHasWaiter
<1>12. LateLinksHeld'
  <2> SUFFICES ASSUME NEW o \in Ops, op[o].pc = "settle"
               PROVE  /\ link'[op[o].link].peer = link[op[o].link].peer
                      /\ link'[op[o].link].level = link[op[o].link].level
                      /\ \A q \in Peers : links'[q] # op[o].link
    BY <1>1 DEF IInv, LateLinksHeld
  <2>1. /\ op[o].link \in Links
        /\ \A q \in Peers : links[q] # op[o].link
    BY DEF IInv, AttemptsNamed, LateLinksHeld
  <2>2. op[o].link = l => o \in Owner(l)
    BY DEF Owner
  <2>3. None # op[o].link
    BY <2>1, BoundsAssumption
  <2> QED BY <1>3, <1>5, <2>1, <2>2, <2>3
<1> QED BY <1>10, <1>11, <1>12, IInvPartsNext

LEMMA CooldownIInv ==
  ASSUME IInv, NEW p \in Peers, CooldownElapses(p) \/ PeerClue(p)
  PROVE  IInv'
<1>1. UNCHANGED <<link, registryVars, links, op, inflights, caller, listening, entering>>
  BY DEF CooldownElapses, PeerClue, registryVars, entryVars
<1>2. dialCooldown' \in [Peers -> [failures : 0..BackoffSteps, cooling : BOOLEAN]]
  <2>1. NoCooldown \in [failures : 0..BackoffSteps, cooling : BOOLEAN]
    BY BoundsAssumption DEF NoCooldown
  <2>2. [dialCooldown[p] EXCEPT !.cooling = FALSE]
          \in [failures : 0..BackoffSteps, cooling : BOOLEAN]
    BY DEF IInv, TypeOK
  <2> QED BY <2>1, <2>2 DEF CooldownElapses, PeerClue, IInv, TypeOK
<1>3. Attempts'
  BY <1>1, <1>2 DEF IInv, TypeOK, Attempts, AttemptsNamed, InflightHasWaiter
<1> QED BY <1>1, <1>3, RegistryUnchanged, LateLinksUnchanged, IInvPartsNext

LEMMA StutterIInv ==
  ASSUME IInv, UNCHANGED vars
  PROVE  IInv'
<1>1. UNCHANGED <<link, registryVars, links, op, inflights, caller, dialCooldown,
                  listening, entering>>
  BY DEF vars, registryVars, dialVars, entryVars
<1>2. Attempts'
  BY <1>1 DEF IInv, TypeOK, Attempts, AttemptsNamed, InflightHasWaiter
<1> QED BY <1>1, <1>2, RegistryUnchanged, LateLinksUnchanged, IInvPartsNext

-----------------------------------------------------------------------------
(* The theorems. *)

LEMMA InitIInv == Init => IInv
<1> SUFFICES ASSUME Init PROVE IInv
  OBVIOUS
<1>1. TypeOK
  <2>1. /\ NoLink \in LinkRecord
        /\ IdleOp \in OpRecord
        /\ NoCooldown \in [failures : 0..BackoffSteps, cooling : BOOLEAN]
    BY BoundsAssumption DEF NoLink, LinkRecord, IdleOp, OpRecord, NoCooldown
  <2> QED BY <2>1 DEF Init, TypeOK
<1>2. AttemptsNamed /\ LinksNamed /\ LateLinksHeld
  BY DEF Init, AttemptsNamed, LinksNamed, LateLinksHeld, NoLink, IdleOp, Linked
<1>3. NoOrphanLink /\ NoDeadCanonical /\ InflightHasWaiter
  BY DEF Init, NoOrphanLink, NoDeadCanonical, InflightHasWaiter, NoLink, Linked
<1> QED BY <1>1, <1>2, <1>3 DEF IInv

LEMMA NextIInv == IInv /\ [Next]_vars => IInv'
<1> SUFFICES ASSUME IInv, [Next]_vars PROVE IInv'
  OBVIOUS
<1>1. ASSUME NEW o \in Ops, AttemptStep(o)
      PROVE  IInv'
  <2>1. CASE SkipProvider(o) \/ DialExhausted(o) \/ TrimToBudget(o) \/ EvictionDone(o)
    BY <2>1, SkipProviderIInv, DialExhaustedIInv, TrimToBudgetIInv, EvictionDoneIInv
  <2>2. CASE ProviderFails(o) \/ DialReturns(o) \/ DialThrowsLate(o)
    BY <2>2, ProviderFailsIInv, DialReturnsIInv, DialThrowsLateIInv
  <2>3. CASE \E l \in Links : LinkReady(o, l) \/ LinkReadyEarly(o, l)
    BY <2>3, LinkReadyIInv, LinkReadyEarlyIInv
  <2>4. CASE \E p \in Peers : AcceptOffer(o, p)
    BY <2>4, AcceptOfferIInv
  <2>5. CASE \E p \in Peers, lv \in Levels, l \in Links : InboundLink(o, p, lv, l)
    BY <2>5, InboundLinkIInv
  <2>6. CASE LoserClosed(o) \/ ReplacedClosed(o)
    BY <2>6, LoserClosedIInv, ReplacedClosedIInv
  <2> QED BY <1>1, <2>1, <2>2, <2>3, <2>4, <2>5, <2>6 DEF AttemptStep
<1>2. ASSUME NEW c \in Callers, CallerStep(c)
      PROVE  IInv'
  BY <1>2, EnsureEntersIInv, JoinDialIInv, StartDialIInv, DialDeadlineIInv
  DEF CallerStep, Proceeds
<1>3. CASE \E l \in Links : LinkCloses(l) \/ LinkDown(l)
  BY <1>3, LinkClosesIInv, LinkDownIInv
<1>4. CASE \E p \in Peers : CooldownElapses(p) \/ PeerClue(p)
  BY <1>4, CooldownIInv
<1>5. CASE SignalsListen
  BY <1>5, SignalsListenIInv
<1>6. CASE UNCHANGED vars
  BY <1>6, StutterIInv
<1> QED BY <1>1, <1>2, <1>3, <1>4, <1>5, <1>6 DEF Next

\* The inductive invariant holds of every behaviour of a registry.
THEOREM Invariant == Spec => []IInv
<1>1. Init => IInv
  BY InitIInv
<1>2. IInv /\ [Next]_vars => IInv'
  BY NextIInv
<1> QED BY <1>1, <1>2, PTL DEF Spec

\* Every variable keeps its shape.
THEOREM TypeCorrect == Spec => []TypeOK
<1>1. IInv => TypeOK
  BY DEF IInv
<1> QED BY <1>1, Invariant, PTL

\* registerResolvedLink leaves no link behind: an open link is its peer's canonical one.
THEOREM NoOrphans == Spec => []NoOrphanLink
<1>1. IInv => NoOrphanLink
  BY DEF IInv
<1> QED BY <1>1, Invariant, PTL

\* No link whose down event is over is handed out as canonical.
THEOREM NoDeadLinks == Spec => []NoDeadCanonical
<1>1. IInv => NoDeadCanonical
  BY DEF IInv
<1> QED BY <1>1, Invariant, PTL

\* Newcomers never join a dial whose callers have all given up (awaitDialAttempt).
THEOREM NoPoisonedDial == Spec => []InflightHasWaiter
<1>1. IInv => InflightHasWaiter
  BY DEF IInv
<1> QED BY <1>1, Invariant, PTL

-----------------------------------------------------------------------------
(* A registry keeps its sessions. *)

Sessions == [p \in Peers |-> Session(p)]

LEMMA AbstractNext ==
  Abstract!Next <=>
    \E p \in Peers : Abstract!Establish(p) \/ Abstract!Die(p) \/ Abstract!Forget(p)
  BY DEF Abstract!Next

\* What a session shows of its link.
SameSession(p) ==
  /\ links'[p] = links[p]
  /\ links[p] # None =>
       /\ link'[links[p]].level = link[links[p]].level
       /\ link'[links[p]].initiator = link[links[p]].initiator
       /\ link'[links[p]].st = "open" <=> link[links[p]].st = "open"

LEMMA SessionSame ==
  ASSUME NEW p \in Peers, SameSession(p)
  PROVE  Session(p)' = Session(p)
  BY DEF SameSession, Session

LEMMA SessionsSame ==
  ASSUME \A p \in Peers : SameSession(p)
  PROVE  UNCHANGED Sessions
  BY SessionSame DEF Sessions

\* A link that is canonical for no peer may change as it likes.
LEMMA OtherLinkChanges ==
  ASSUME IInv, NEW l \in Links, \A p \in Peers : links[p] # l, UNCHANGED links,
         \A k \in Links \ {l} : link'[k] = link[k]
  PROVE  UNCHANGED Sessions
<1>1. \A p \in Peers : links[p] # None => links[p] \in Links \ {l}
  BY DEF IInv, TypeOK
<1> QED BY <1>1, SessionsSame DEF SameSession

LEMMA LinkClosesSession ==
  ASSUME IInv, NEW l \in Links, link[l].st = "open",
         link' = [link EXCEPT ![l].st = "closing"], UNCHANGED links
  PROVE  Abstract!Next \/ UNCHANGED Sessions
<1>1. /\ link'[l] = [link[l] EXCEPT !.st = "closing"]
      /\ \A k \in Links \ {l} : link'[k] = link[k]
  BY DEF IInv, TypeOK
<1>2. CASE \A p \in Peers : links[p] # l
  BY <1>1, <1>2, OtherLinkChanges
<1>3. CASE \E p \in Peers : links[p] = l
  <2>1. PICK p \in Peers : links[p] = l
    BY <1>3
  <2>2. l # None /\ \A q \in Peers \ {p} : links[q] # l
    BY <2>1, BoundsAssumption DEF IInv, LinksNamed, Linked
  <2>3. Session(p).st = "alive" /\ Session(p)' = [Session(p) EXCEPT !.st = "dead"]
    <3> DEFINE lv == link[l].level
               i == link[l].initiator
    <3>1. Session(p) = [id |-> l, level |-> lv, initiator |-> i, st |-> "alive"]
      BY <2>1, <2>2 DEF Session
    <3>2. link'[l].level = lv /\ link'[l].initiator = i /\ link'[l].st # "open"
      BY <1>1 DEF IInv, TypeOK, LinkRecord
    <3>3. Session(p)' = [id |-> l, level |-> lv, initiator |-> i, st |-> "dead"]
      BY <2>1, <2>2, <3>2 DEF Session
    <3> QED BY <3>1, <3>3
  <2>4. \A q \in Peers \ {p} : Session(q)' = Session(q)
    BY <1>1, <2>2 DEF Session, IInv, TypeOK
  <2>5. Abstract!Die(p)
    BY <2>3, <2>4 DEF Abstract!Die
  <2> QED BY <2>5, AbstractNext
<1> QED BY <1>2, <1>3

\* Registering a candidate gives its peer a session, or changes no session.
LEMMA WinnerEstablishes ==
  ASSUME IInv, NEW o, NEW rec, NEW l \in Links,
         NEW candidate \in LinkRecord, candidate.peer \in Peers, candidate.level \in Levels,
         \A q \in Peers : links[q] # l,
         RegisterWinner(o, rec, l, candidate)
  PROVE  Abstract!Next
<1> DEFINE p == candidate.peer
           existing == links[p]
           s == [id |-> l, level |-> candidate.level, initiator |-> candidate.initiator,
                 st |-> IF candidate.st = "open" THEN "alive" ELSE "dead"]
<1>1. l # None /\ existing # l
  BY BoundsAssumption
<1>2. links' = [links EXCEPT ![p] = l]
  BY DEF RegisterWinner
<1>3. existing # None => linkIsPreferred(Self, p, candidate, link[existing])
  BY DEF RegisterWinner
<1>4. link'[l] = candidate /\ \A k \in Links \ {l, existing} : link'[k] = link[k]
  <2>1. \/ /\ existing # None
           /\ link' = [link EXCEPT ![l] = candidate, ![existing].st = "closing"]
        \/ link' = [link EXCEPT ![l] = candidate]
    BY DEF RegisterWinner
  <2> HIDE DEF p, existing
  <2> QED BY <1>1, <2>1 DEF IInv, TypeOK
<1>5. Session(p)' = s
  <2>1. links'[p] = l
    BY <1>2 DEF IInv, TypeOK
  <2> QED BY <1>1, <1>4, <2>1 DEF Session
<1>6. \A q \in Peers \ {p} : Session(q)' = Session(q)
  <2>1. ASSUME NEW q \in Peers \ {p} PROVE SameSession(q)
    <3>1. links'[q] = links[q]
      BY <1>2 DEF IInv, TypeOK
    <3>2. links[q] # None => links[q] \in Links \ {l, existing}
      BY DEF IInv, TypeOK, LinksNamed, Linked
    <3> QED BY <1>4, <3>1, <3>2 DEF SameSession
  <2> QED BY <2>1, SessionSame
<1>7. s \in Abstract!Session
  BY DEF Abstract!Session, LinkRecord
<1>8. \A q \in Peers : Session(q).id # l
  BY <1>1 DEF Session
<1>9. Session(p).id # None => Abstract!linkIsPreferred(Self, p, s, Session(p))
  BY <1>3 DEF Session, linkIsPreferred, Abstract!linkIsPreferred
<1>10. Sessions' = [Sessions EXCEPT ![p] = s]
  BY <1>5, <1>6 DEF Sessions
<1>11. Sessions'[p] = s
  BY <1>5 DEF Sessions
<1>12. /\ Sessions[p] = Session(p)
       /\ \A q \in Peers : Sessions[q].id # s.id
  BY <1>8 DEF Sessions
<1>13. Abstract!Establish(p)
  <2> HIDE DEF p, s
  <2> QED BY <1>7, <1>9, <1>10, <1>11, <1>12 DEF Abstract!Establish, Sessions
<1> QED BY <1>13, AbstractNext

LEMMA LoserChangesNothing ==
  ASSUME IInv, NEW o, NEW rec, NEW l \in Links, NEW candidate,
         \A q \in Peers : links[q] # l,
         RegisterLoser(o, rec, l, candidate)
  PROVE  UNCHANGED Sessions
<1>1. UNCHANGED links
  BY DEF RegisterLoser, registryVars
<1>2. \A k \in Links \ {l} : link'[k] = link[k]
  BY DEF RegisterLoser, IInv, TypeOK
<1> QED BY <1>1, <1>2, OtherLinkChanges

LEMMA RegisterSessions ==
  ASSUME IInv, NEW o, NEW rec, NEW l \in Links,
         NEW candidate \in LinkRecord, candidate.peer \in Peers, candidate.level \in Levels,
         \A q \in Peers : links[q] # l,
         Register(o, rec, l, candidate)
  PROVE  Abstract!Next \/ UNCHANGED Sessions
  BY WinnerEstablishes, LoserChangesNothing DEF Register

\* A session is forgotten only by the down event of its own link.
LEMMA LinkDownForgets ==
  ASSUME IInv, NEW l \in Links, LinkDown(l)
  PROVE  Abstract!Next \/ UNCHANGED Sessions
<1>1. PICK p \in Peers : link[l].peer = p
  BY DEF LinkDown, IInv, LinksNamed
<1>2. \A k \in Links \ {l} : link'[k] = link[k]
  BY DEF LinkDown, IInv, TypeOK
<1>3. l # None
  BY BoundsAssumption
<1>4. CASE links[p] = l
  <2>1. links' = [links EXCEPT ![p] = None]
    BY <1>1, <1>4 DEF LinkDown
  <2>2. Session(p).st = "dead"
    BY <1>3, <1>4 DEF Session, LinkDown
  <2>3. Session(p)' = Abstract!NoSession
    <3>1. links'[p] = None
      BY <2>1 DEF IInv, TypeOK
    <3> QED BY <3>1 DEF Session, Abstract!NoSession
  <2>4. \A q \in Peers \ {p} : Session(q)' = Session(q)
    <3>1. ASSUME NEW q \in Peers \ {p} PROVE SameSession(q)
      <4>1. links'[q] = links[q] /\ links[q] # l
        BY <1>1, <1>3, <2>1 DEF IInv, TypeOK, LinksNamed, Linked
      <4> QED BY <1>2, <4>1 DEF SameSession, IInv, TypeOK
    <3> QED BY <3>1, SessionSame
  <2>5. Sessions' = [Sessions EXCEPT ![p] = Abstract!NoSession]
    BY <2>3, <2>4 DEF Sessions
  <2>6. Sessions[p].st = "dead"
    BY <2>2 DEF Sessions
  <2>7. Abstract!Forget(p)
    <3>1. Sessions = [q \in Peers |-> Session(q)]
      BY DEF Sessions
    <3> QED BY <2>5, <2>6, <3>1 DEF Abstract!Forget, Sessions
  <2> QED BY <2>7, AbstractNext
<1>5. CASE links[p] # l
  <2>1. UNCHANGED links
    BY <1>1, <1>5 DEF LinkDown, registryVars
  <2>2. \A q \in Peers : links[q] # l
    BY <1>1, <1>3, <1>5 DEF IInv, LinksNamed, Linked
  <2> QED BY <1>2, <2>1, <2>2, OtherLinkChanges
<1> QED BY <1>4, <1>5

\* Each way an attempt gets hold of a link.
LEMMA AttemptSessions ==
  ASSUME IInv, NEW o \in Ops, AttemptStep(o)
  PROVE  Abstract!Next \/ UNCHANGED Sessions
<1>1. CASE UNCHANGED <<link, links>>
  BY <1>1, SessionsSame DEF SameSession
<1>2. CASE SkipProvider(o) \/ DialExhausted(o) \/ EvictionDone(o) \/ ProviderFails(o)
           \/ LoserClosed(o) \/ ReplacedClosed(o) \/ \E p \in Peers : AcceptOffer(o, p)
  <2>1. UNCHANGED <<link, links>>
    BY <1>2 DEF SkipProvider, DialExhausted, EvictionDone, ProviderFails, LoserClosed,
                ReplacedClosed, AcceptOffer, registryVars
  <2> QED BY <1>1, <2>1
<1>3. CASE TrimToBudget(o)
  <2>1. UNCHANGED links
    BY <1>3 DEF TrimToBudget, registryVars
  <2>2. CASE UNCHANGED link
    BY <1>1, <2>1, <2>2
  <2>3. CASE \E p \in Peers : /\ links[p] # None
                              /\ link[links[p]].st = "open"
                              /\ link' = [link EXCEPT ![links[p]].st = "closing"]
    <3>1. PICK l \in Links : link[l].st = "open" /\ link' = [link EXCEPT ![l].st = "closing"]
      BY <2>3 DEF IInv, TypeOK
    <3> QED BY <2>1, <3>1, LinkClosesSession
  <2> QED BY <1>3, <2>2, <2>3 DEF TrimToBudget, Linked
<1>4. CASE \E l \in Links : LinkReady(o, l)
  <2>1. PICK l \in Links : LinkReady(o, l)
    BY <1>4
  <2>2. PICK lv \in Levels :
          Register(o, op[o], l, NewLink(op[o].peer, lv, op[o].kind = "dial"))
    BY <2>1 DEF LinkReady
  <2> DEFINE candidate == NewLink(op[o].peer, lv, op[o].kind = "dial")
  <2>3. candidate \in LinkRecord /\ candidate.peer \in Peers /\ candidate.level \in Levels
    BY <2>1 DEF LinkReady, IInv, AttemptsNamed, NewLink, LinkRecord
  <2>4. \A p \in Peers : links[p] # l
    BY <2>1, UnusedLink DEF LinkReady
  <2> QED BY <2>2, <2>3, <2>4, RegisterSessions
<1>5. CASE \E l \in Links : LinkReadyEarly(o, l)
  <2>1. PICK l \in Links : LinkReadyEarly(o, l)
    BY <1>5
  <2>2. \A p \in Peers : links[p] # l
    BY <2>1, UnusedLink DEF LinkReadyEarly
  <2>3. UNCHANGED links /\ \A k \in Links \ {l} : link'[k] = link[k]
    BY <2>1 DEF LinkReadyEarly, registryVars, IInv, TypeOK
  <2> QED BY <2>2, <2>3, OtherLinkChanges
<1>6. CASE DialReturns(o)
  <2> DEFINE l == op[o].link
  <2>1. /\ l \in Links
        /\ link[l] \in LinkRecord
        /\ link[l].peer \in Peers
        /\ link[l].level \in Levels
        /\ \A p \in Peers : links[p] # l
    BY <1>6, ProvidersAssumption DEF DialReturns, IInv, TypeOK, AttemptsNamed, LateLinksHeld
  <2> QED BY <1>6, <2>1, RegisterSessions DEF DialReturns
<1>7. CASE DialThrowsLate(o)
  <2>1. PICK l \in Links : l = op[o].link /\ \A p \in Peers : links[p] # l
    BY <1>7 DEF DialThrowsLate, IInv, AttemptsNamed, LateLinksHeld
  <2>2. UNCHANGED links /\ \A k \in Links \ {l} : link'[k] = link[k]
    BY <1>7, <2>1 DEF DialThrowsLate, registryVars, IInv, TypeOK
  <2> QED BY <2>1, <2>2, OtherLinkChanges
<1>8. CASE \E p \in Peers, lv \in Levels, l \in Links : InboundLink(o, p, lv, l)
  <2>1. PICK p \in Peers, lv \in Levels, l \in Links : InboundLink(o, p, lv, l)
    BY <1>8
  <2> DEFINE candidate == NewLink(p, lv, FALSE)
  <2>2. candidate \in LinkRecord /\ candidate.peer \in Peers /\ candidate.level \in Levels
    BY DEF NewLink, LinkRecord
  <2>3. \A q \in Peers : links[q] # l
    BY <2>1, UnusedLink DEF InboundLink
  <2> QED BY <2>1, <2>2, <2>3, RegisterSessions DEF InboundLink
<1> QED BY <1>2, <1>3, <1>4, <1>5, <1>6, <1>7, <1>8 DEF AttemptStep

LEMMA NextSessions == IInv /\ [Next]_vars => Abstract!Next \/ UNCHANGED Sessions
<1> SUFFICES ASSUME IInv, [Next]_vars PROVE Abstract!Next \/ UNCHANGED Sessions
  OBVIOUS
<1>1. CASE \E o \in Ops : AttemptStep(o)
  BY <1>1, AttemptSessions
<1>2. CASE \/ \E c \in Callers : CallerStep(c)
           \/ \E p \in Peers : CooldownElapses(p) \/ PeerClue(p)
           \/ SignalsListen
           \/ UNCHANGED vars
  <2>1. UNCHANGED <<link, links>>
    BY <1>2 DEF CallerStep, Proceeds, EnsureEnters, ReturnsAtOnce, JoinDial, StartDial,
                DialDeadline, CooldownElapses, PeerClue, SignalsListen, vars, registryVars
  <2> QED BY <2>1, SessionsSame DEF SameSession
<1>3. CASE \E l \in Links : LinkCloses(l) \/ LinkDown(l)
  <2>1. ASSUME NEW l \in Links, LinkCloses(l)
        PROVE  Abstract!Next \/ UNCHANGED Sessions
    BY <2>1, LinkClosesSession DEF LinkCloses, registryVars
  <2> QED BY <1>3, <2>1, LinkDownForgets
<1> QED BY <1>1, <1>2, <1>3 DEF Next

LEMMA InitSessions == Init => Abstract!Init
  BY DEF Init, Abstract!Init, Session, Abstract!NoSession

\* A registry implements PeerSession: whatever dials, accepts and closes interleave
\* (registerResolvedLink, wireLink), the session of a peer that is alive gives way only to a
\* preferred link, and a session is forgotten only once it has died.
THEOREM SessionsKept == Spec => KeepsSessions
<1>1. Init => Abstract!Init
  BY InitSessions
<1>2. IInv /\ [Next]_vars => [Abstract!Next]_Sessions
  BY NextSessions
<1> QED BY <1>1, <1>2, Invariant, PTL DEF Spec, KeepsSessions, Abstract!Spec, Sessions

-----------------------------------------------------------------------------
(* Two registries in glare. *)

ConnSet == [dialer : Nodes \cup {NoOne}, level : SharedLevels \cup {0}, end : Ends]

TaskSet == [node : Nodes \cup {NoOne}, todo : SUBSET SharedLevels, conn : Conns \cup {NoOne}]

Open(n, c) == conn[c].end[n] # "closed"

Dials(n) == \E t \in Tasks : task[t].node = n

-----------------------------------------------------------------------------
(* The inductive invariant, part by part. *)

\* A connection that exists was dialled by a node and is open at an end.
ConnsAreWhole ==
  \A c \in Conns : conn[c] # NoConn => /\ conn[c].dialer \in Nodes
                                       /\ \E n \in Nodes : Open(n, c)

\* An end is up as long as its node's registry holds the connection, and no longer.
UpIsCanonical ==
  \A n \in Nodes, c \in Conns : conn[c].end[n] = "up" <=> canon[n] = c

\* Nothing but glare has happened so far.
Calm == faults = 0 /\ expiries = 0

\* A node runs the dial a new caller would join, and no other.
OneDial == \A t \in Tasks, n \in Nodes : task[t].node = n <=> inflight[n] = t

\* A dial awaits a connection of its node whose handshake runs there.
AwaitsOwn ==
  \A t \in Tasks, c \in Conns :
    task[t].conn = c => /\ conn[c].dialer = task[t].node
                        /\ task[t].node \in Nodes
                        /\ conn[c].end[task[t].node] = "pending"

\* A connection whose handshake runs at the node that dialled it is awaited by a dial.
PendingIsAwaited ==
  \A c \in Conns, n \in Nodes :
    conn[c].dialer = n /\ conn[c].end[n] = "pending"
      => \E t \in Tasks : task[t].node = n /\ task[t].conn = c

\* A node that holds a link it dialled itself dials no more.
OwnLinkEndsDial ==
  \A n \in Nodes, c \in Conns : canon[n] = c /\ conn[c].dialer = n => ~Dials(n)

CalmDials == OneDial /\ AwaitsOwn /\ PendingIsAwaited /\ OwnLinkEndsDial

\* The order in which both nodes prefer connections that they dialled one each.
Above(d, c) ==
  \/ conn[d].level > conn[c].level
  \/ conn[d].level = conn[c].level /\ conn[d].dialer < conn[c].dialer

\* Node n, which closed its end of c, does not dial and holds a link above c, dialled
\* from the other side than c was, which the other node has not closed.
Survivor(n, c) ==
  /\ canon[n] # NoOne
  /\ Open(Other(n), canon[n])
  /\ conn[canon[n]].dialer # conn[c].dialer
  /\ Above(canon[n], c)
  /\ ~Dials(n)

HalfClosedHasSurvivor ==
  \A c \in Conns, n \in Nodes : conn[c] # NoConn /\ ~Open(n, c) => Survivor(n, c)

GlareIInv ==
  /\ GlareTypeOK
  /\ ConnsAreWhole
  /\ UpIsCanonical
  /\ Calm => CalmDials /\ HalfClosedHasSurvivor

-----------------------------------------------------------------------------
(* Shapes. *)

\* There are two nodes, and each is the other's other.
LEMMA TwoNodes ==
  ASSUME NEW n \in Nodes
  PROVE  /\ Other(n) \in Nodes
         /\ Other(n) # n
         /\ Nodes = {n, Other(n)}
         /\ Other(Other(n)) = n
         /\ n \in Nat /\ Other(n) \in Nat
         /\ n # NoOne
<1>1. PICK a \in Nodes, b \in Nodes : a # b /\ Nodes = {a, b}
  BY PairAssumption
<1>2. \E m \in Nodes : m # n
  BY <1>1
<1>3. Other(n) \in Nodes /\ Other(n) # n
  BY <1>2 DEF Other
<1>4. Nodes = {n, Other(n)}
  BY <1>1, <1>3
<1>5. \E m \in Nodes : m # Other(n)
  BY <1>3
<1>6. Other(Other(n)) \in Nodes /\ Other(Other(n)) # Other(n)
  BY <1>5 DEF Other
<1>7. Other(Other(n)) = n
  BY <1>4, <1>6
<1>8. n \in Nat /\ Other(n) \in Nat /\ n # NoOne
  BY <1>3, PairAssumption, GlareAssumption
<1> QED
  BY <1>3, <1>4, <1>7, <1>8

\* No connection has no dialler and no open end.
LEMMA NoConnFacts ==
  /\ NoConn \in ConnSet
  /\ NoConn.dialer = NoOne
  /\ \A n \in Nodes : NoConn.end[n] = "closed"
BY DEF NoConn, ConnSet, Ends

\* A dial that does not run has no node and awaits nothing.
LEMMA IdleTaskFacts ==
  IdleTask \in TaskSet /\ IdleTask.node = NoOne /\ IdleTask.conn = NoOne
BY DEF IdleTask, TaskSet

\* Closing an end closes that end, leaves the other as it was, and removes a connection
\* whose other end is closed.
LEMMA CloseEndFacts ==
  ASSUME NEW rec \in ConnSet, NEW n \in Nodes
  PROVE  /\ CloseEnd(rec, n) \in ConnSet
         /\ CloseEnd(rec, n).end[n] = "closed"
         /\ rec.end[Other(n)] = "closed" => CloseEnd(rec, n) = NoConn
         /\ rec.end[Other(n)] # "closed"
              => /\ CloseEnd(rec, n).end[Other(n)] = rec.end[Other(n)]
                 /\ CloseEnd(rec, n).dialer = rec.dialer
                 /\ CloseEnd(rec, n).level = rec.level
BY TwoNodes, NoConnFacts DEF CloseEnd, ConnSet, Ends

\* Every step keeps the shape of the variables.
LEMMA TypeStep ==
  ASSUME GlareTypeOK, [NextGlare]_glareVars
  PROVE  GlareTypeOK'
<1> USE DEF GlareTypeOK
<1>1. ASSUME NEW n \in Nodes, NEW t \in Tasks, NodeDials(n, t)
      PROVE  GlareTypeOK'
  BY <1>1, ReachAssumption DEF NodeDials
<1>2. ASSUME NEW t \in Tasks, NEW c \in Conns, OpenConn(t, c)
      PROVE  GlareTypeOK'
  BY <1>2, ReachAssumption DEF OpenConn, Ends
<1>3. ASSUME NEW t \in Tasks, DialFails(t)
      PROVE  GlareTypeOK'
  BY <1>3, IdleTaskFacts DEF DialFails, TaskSet
<1>4. ASSUME NEW n \in Nodes, DialExpires(n)
      PROVE  GlareTypeOK'
  BY <1>4, GlareAssumption DEF DialExpires
<1>5. ASSUME NEW n \in Nodes, NEW c \in Conns, DialEnds(n, c)
      PROVE  /\ task' \in [Tasks -> TaskSet]
             /\ inflight' \in [Nodes -> Tasks \cup {NoOne}]
  BY <1>5, IdleTaskFacts DEF DialEnds, TaskSet
<1>6. ASSUME NEW n \in Nodes, NEW c \in Conns, DialFallsBack(n, c)
      PROVE  /\ task' \in [Tasks -> TaskSet]
             /\ inflight' \in [Nodes -> Tasks \cup {NoOne}]
  BY <1>6 DEF DialFallsBack, TaskSet
<1>7. ASSUME NEW n \in Nodes, NEW c \in Conns, BecomeCanonical(n, c)
      PROVE  GlareTypeOK'
  <2>1. [conn[c] EXCEPT !.end[n] = "up"] \in ConnSet
    BY DEF ConnSet, Ends
  <2>2. \A d \in Conns : CloseEnd(conn[d], n) \in ConnSet
    BY CloseEndFacts DEF ConnSet
  <2>3. conn' \in [Conns -> ConnSet]
    <3>1. \A d \in Conns : conn[d] \in ConnSet
      BY DEF ConnSet
    <3> QED
      BY <1>7, <2>1, <2>2, <3>1 DEF BecomeCanonical
  <2> QED
    BY <1>5, <1>7, <2>3 DEF BecomeCanonical, ConnSet, TaskSet
<1>8. ASSUME NEW n \in Nodes, NEW c \in Conns, LoseGlare(n, c)
      PROVE  GlareTypeOK'
  BY <1>5, <1>8, CloseEndFacts DEF LoseGlare, ConnSet, TaskSet
<1>9. ASSUME NEW n \in Nodes, NEW c \in Conns, NoticeClose(n, c)
      PROVE  GlareTypeOK'
  BY <1>6, <1>9, CloseEndFacts DEF NoticeClose, EndCloses, ConnSet, TaskSet
<1>10. ASSUME NEW n \in Nodes, NEW c \in Conns, Fault(n, c)
       PROVE  GlareTypeOK'
  BY <1>6, <1>10, CloseEndFacts, GlareAssumption DEF Fault, EndCloses, ConnSet, TaskSet
<1>11. CASE UNCHANGED glareVars
  BY <1>11 DEF glareVars
<1> QED
  BY <1>1, <1>2, <1>3, <1>4, <1>7, <1>8, <1>9, <1>10, <1>11 DEF NextGlare, EndStep

-----------------------------------------------------------------------------
(* Connections and canonical links, faults included. *)

\* What a registration changes: the new link is up, the one it replaces is closed at
\* this node, and no other connection is touched.
LEMMA BecomeCanonicalEffect ==
  ASSUME GlareTypeOK, UpIsCanonical, NEW n \in Nodes, NEW c \in Conns, BecomeCanonical(n, c)
  PROVE  /\ conn'[c] \in ConnSet
         /\ conn'[c].dialer = conn[c].dialer
         /\ conn'[c].level = conn[c].level
         /\ conn'[c].end[n] = "up"
         /\ conn'[c].end[Other(n)] = conn[c].end[Other(n)]
         /\ canon[n] # c
         /\ canon[n] # NoOne => conn'[canon[n]] = CloseEnd(conn[canon[n]], n)
         /\ \A d \in Conns \ {c, canon[n]} : conn'[d] = conn[d]
         /\ canon'[n] = c
         /\ canon'[Other(n)] = canon[Other(n)]
<1>1. Other(n) \in Nodes /\ Other(n) # n
  BY TwoNodes
<1>2. conn[c] \in ConnSet /\ canon[n] \in Conns \cup {NoOne}
  BY DEF GlareTypeOK, ConnSet
<1>3. canon[n] # c
  BY DEF BecomeCanonical, UpIsCanonical
<1>4. conn'[c] = [conn[c] EXCEPT !.end[n] = "up"]
  <2> DEFINE up == [conn[c] EXCEPT !.end[n] = "up"]
  <2>1. conn' = [d \in Conns |-> CASE d = c -> up
                                   [] d = canon[n] -> CloseEnd(conn[d], n)
                                   [] OTHER -> conn[d]]
    BY DEF BecomeCanonical
  <2> HIDE DEF up
  <2>2. conn'[c] = up
    BY <1>3, <2>1
  <2> QED
    BY <2>2 DEF up
<1>5. canon[n] # NoOne => conn'[canon[n]] = CloseEnd(conn[canon[n]], n)
  BY <1>2, <1>3 DEF BecomeCanonical
<1>6. \A d \in Conns \ {c, canon[n]} : conn'[d] = conn[d]
  BY DEF BecomeCanonical
<1>7. canon' = [canon EXCEPT ![n] = c]
  BY DEF BecomeCanonical
<1>8. canon'[n] = c /\ canon'[Other(n)] = canon[Other(n)]
  BY <1>1, <1>7 DEF GlareTypeOK
<1>9. /\ conn'[c] \in ConnSet
      /\ conn'[c].dialer = conn[c].dialer
      /\ conn'[c].level = conn[c].level
      /\ conn'[c].end[n] = "up"
      /\ conn'[c].end[Other(n)] = conn[c].end[Other(n)]
  BY <1>1, <1>2, <1>4 DEF ConnSet, Ends
<1> QED
  BY <1>3, <1>5, <1>6, <1>8, <1>9

\* What closing an end changes.
LEMMA CloseEffect ==
  ASSUME GlareTypeOK, NEW n \in Nodes, NEW c \in Conns,
         conn' = [conn EXCEPT ![c] = CloseEnd(@, n)]
  PROVE  /\ conn'[c] = CloseEnd(conn[c], n)
         /\ \A d \in Conns \ {c} : conn'[d] = conn[d]
BY DEF GlareTypeOK

\* Every step, faults included, keeps connections whole and an end up exactly as long
\* as it is canonical.
LEMMA WholeStep ==
  ASSUME GlareTypeOK, ConnsAreWhole, UpIsCanonical, [NextGlare]_glareVars
  PROVE  ConnsAreWhole' /\ UpIsCanonical'
<1> USE DEF ConnsAreWhole, UpIsCanonical, Open
<1>0. conn \in [Conns -> ConnSet] /\ canon \in [Nodes -> Conns \cup {NoOne}]
  BY DEF GlareTypeOK, ConnSet
<1>1. ASSUME NEW n \in Nodes, NEW t \in Tasks, NodeDials(n, t)
      PROVE  ConnsAreWhole' /\ UpIsCanonical'
  BY <1>1 DEF NodeDials
<1>2. ASSUME NEW t \in Tasks, NEW c \in Conns, OpenConn(t, c)
      PROVE  ConnsAreWhole' /\ UpIsCanonical'
  <2>1. PICK lv \in task[t].todo :
          conn' = [conn EXCEPT ![c] = [dialer |-> task[t].node, level |-> lv,
                                       end |-> [m \in Nodes |-> "pending"]]]
    BY <1>2 DEF OpenConn
  <2>2. task[t].node \in Nodes
    BY <1>2 DEF OpenConn, GlareTypeOK
  <2>3. conn'[c].dialer = task[t].node /\ \A m \in Nodes : conn'[c].end[m] = "pending"
    BY <1>0, <2>1
  <2>4. \A d \in Conns \ {c} : conn'[d] = conn[d]
    BY <1>0, <2>1
  <2>5. canon' = canon /\ \A m \in Nodes : canon[m] # c
    BY <1>2, NoConnFacts DEF OpenConn
  <2> QED
    BY <1>0, <2>2, <2>3, <2>4, <2>5
<1>3. ASSUME NEW t \in Tasks, DialFails(t)
      PROVE  ConnsAreWhole' /\ UpIsCanonical'
  BY <1>3 DEF DialFails
<1>4. ASSUME NEW n \in Nodes, DialExpires(n)
      PROVE  ConnsAreWhole' /\ UpIsCanonical'
  BY <1>4 DEF DialExpires
<1>5. ASSUME NEW n \in Nodes, NEW c \in Conns
      PROVE  /\ CloseEnd(conn[c], n) # NoConn
                  => /\ CloseEnd(conn[c], n).dialer \in Nodes
                     /\ \E m \in Nodes : CloseEnd(conn[c], n).end[m] # "closed"
             /\ CloseEnd(conn[c], n).end[n] = "closed"
             /\ CloseEnd(conn[c], n).end[Other(n)] = conn[c].end[Other(n)]
  <2>1. conn[c] \in ConnSet /\ Other(n) \in Nodes
    BY <1>0, TwoNodes
  <2>2. CASE conn[c].end[Other(n)] = "closed"
    BY <2>1, <2>2, CloseEndFacts, NoConnFacts
  <2>3. CASE conn[c].end[Other(n)] # "closed"
    <3>1. conn[c] # NoConn
      BY <2>1, <2>3, NoConnFacts
    <3>2. conn[c].dialer \in Nodes
      BY <3>1
    <3> QED
      BY <2>1, <2>3, <3>2, CloseEndFacts
  <2> QED
    BY <2>2, <2>3
<1>6. ASSUME NEW n \in Nodes, NEW c \in Conns, BecomeCanonical(n, c)
      PROVE  ConnsAreWhole' /\ UpIsCanonical'
  <2>1. Other(n) \in Nodes /\ Other(n) # n /\ Nodes = {n, Other(n)}
    BY TwoNodes
  <2>2. conn[c] # NoConn
    BY <1>6, NoConnFacts DEF BecomeCanonical
  <2>3. conn'[c].dialer \in Nodes /\ conn'[c].end[n] = "up"
    BY <1>6, <2>2, BecomeCanonicalEffect
  <2>4. canon[n] \in Conns \cup {NoOne} /\ canon[n] # c
    BY <1>0, <1>6, BecomeCanonicalEffect
  <2>5. canon[n] \in Conns => conn'[canon[n]] = CloseEnd(conn[canon[n]], n)
    BY <1>6, BecomeCanonicalEffect, GlareAssumption
  <2>6. \A d \in Conns \ {c, canon[n]} : conn'[d] = conn[d]
    BY <1>6, BecomeCanonicalEffect
  <2>7. ConnsAreWhole'
    BY <1>5, <2>3, <2>4, <2>5, <2>6
  <2>8. canon'[n] = c
    BY <1>6, BecomeCanonicalEffect
  <2>9. \A d \in Conns : conn'[d].end[n] = "up" <=> canon'[n] = d
    BY <1>5, <2>3, <2>4, <2>5, <2>6, <2>8
  <2>10. conn'[c].end[Other(n)] = conn[c].end[Other(n)]
    BY <1>6, BecomeCanonicalEffect
  <2>11. \A d \in Conns : conn'[d].end[Other(n)] = conn[d].end[Other(n)]
    BY <1>5, <2>4, <2>5, <2>6, <2>10
  <2> QED
    BY <1>6, <2>1, <2>7, <2>9, <2>11, BecomeCanonicalEffect
<1>7. ASSUME NEW n \in Nodes, NEW c \in Conns, LoseGlare(n, c)
      PROVE  ConnsAreWhole' /\ UpIsCanonical'
  <2>1. conn' = [conn EXCEPT ![c] = CloseEnd(@, n)] /\ canon' = canon /\ canon[n] # c
    BY <1>7 DEF LoseGlare
  <2> QED
    BY <1>0, <1>5, <2>1, TwoNodes, CloseEffect
<1>8. ASSUME NEW n \in Nodes, NEW c \in Conns, EndCloses(n, c)
      PROVE  ConnsAreWhole' /\ UpIsCanonical'
  <2>1. conn' = [conn EXCEPT ![c] = CloseEnd(@, n)]
    BY <1>8 DEF EndCloses
  <2>2. canon' = [canon EXCEPT ![n] = IF @ = c THEN NoOne ELSE @]
    BY <1>8 DEF EndCloses
  <2>3. ConnsAreWhole'
    BY <1>5, <2>1, CloseEffect
  <2>4. NoOne \notin Conns
    BY GlareAssumption
  <2>5. \A d \in Conns : conn'[d].end[n] = "up" <=> canon'[n] = d
    BY <1>0, <1>5, <2>1, <2>2, <2>4, CloseEffect
  <2>6. \A d \in Conns : conn'[d].end[Other(n)] = conn[d].end[Other(n)]
    BY <1>5, <2>1, CloseEffect
  <2>7. canon'[Other(n)] = canon[Other(n)]
    BY <1>0, <2>2, TwoNodes
  <2> QED
    BY <2>3, <2>5, <2>6, <2>7, TwoNodes
<1>9. CASE UNCHANGED glareVars
  BY <1>9 DEF glareVars
<1> QED
  BY <1>1, <1>2, <1>3, <1>4, <1>6, <1>7, <1>8, <1>9 DEF NextGlare, EndStep, NoticeClose, Fault

\* A step of node n's end of c: n's other pending ends and the other node's ends stay as
\* they are, and so do the diallers and levels of what stays open.
EndMoved(n, c) ==
  /\ \A d \in Conns : conn'[d].end[Other(n)] = conn[d].end[Other(n)]
  /\ \A d \in Conns :
       conn'[d].end[n] # "closed" \/ conn[d].end[Other(n)] # "closed"
         => conn'[d].dialer = conn[d].dialer /\ conn'[d].level = conn[d].level
  /\ \A d \in Conns :
       conn'[d].end[n] = "pending" <=> conn[d].end[n] = "pending" /\ d # c
  /\ canon'[Other(n)] = canon[Other(n)]

\* The steps of an end are moves of that end.
LEMMA EndMoves ==
  ASSUME GlareTypeOK, UpIsCanonical, NEW n \in Nodes, NEW c \in Conns,
         BecomeCanonical(n, c) \/ LoseGlare(n, c) \/ EndCloses(n, c)
  PROVE  EndMoved(n, c)
<1>0. /\ conn \in [Conns -> ConnSet]
      /\ canon \in [Nodes -> Conns \cup {NoOne}]
      /\ Other(n) \in Nodes /\ Other(n) # n
  BY TwoNodes DEF GlareTypeOK, ConnSet
<1>1. ASSUME NEW d \in Conns
      PROVE  /\ CloseEnd(conn[d], n).end[n] = "closed"
             /\ CloseEnd(conn[d], n).end[Other(n)] = conn[d].end[Other(n)]
             /\ conn[d].end[Other(n)] # "closed"
                  => /\ CloseEnd(conn[d], n).dialer = conn[d].dialer
                     /\ CloseEnd(conn[d], n).level = conn[d].level
  <2>1. conn[d] \in ConnSet
    BY <1>0
  <2> QED
    BY <1>0, <2>1, CloseEndFacts, NoConnFacts
<1>2. CASE BecomeCanonical(n, c)
  <2>1. /\ conn'[c].dialer = conn[c].dialer
        /\ conn'[c].level = conn[c].level
        /\ conn'[c].end[n] = "up"
        /\ conn'[c].end[Other(n)] = conn[c].end[Other(n)]
        /\ \A d \in Conns \ {c, canon[n]} : conn'[d] = conn[d]
        /\ canon'[Other(n)] = canon[Other(n)]
    BY <1>2, BecomeCanonicalEffect
  <2>2. ASSUME canon[n] \in Conns
        PROVE  /\ canon[n] # c
               /\ conn[canon[n]].end[n] = "up"
               /\ conn'[canon[n]] = CloseEnd(conn[canon[n]], n)
    BY <1>2, <2>2, BecomeCanonicalEffect, GlareAssumption DEF UpIsCanonical
  <2> QED
    BY <1>0, <1>1, <2>1, <2>2 DEF EndMoved
<1>3. CASE LoseGlare(n, c) \/ EndCloses(n, c)
  <2>1. conn' = [conn EXCEPT ![c] = CloseEnd(@, n)]
    BY <1>3 DEF LoseGlare, EndCloses
  <2>2. conn'[c] = CloseEnd(conn[c], n) /\ \A d \in Conns \ {c} : conn'[d] = conn[d]
    BY <2>1, CloseEffect
  <2>3. canon'[Other(n)] = canon[Other(n)]
    BY <1>0, <1>3 DEF LoseGlare, EndCloses
  <2> QED
    BY <1>1, <2>2, <2>3 DEF EndMoved
<1> QED
  BY <1>2, <1>3

-----------------------------------------------------------------------------
(* Dials, as long as nothing but glare happens. *)

\* Of the connections a node dialled, at most one is open at that node.
LEMMA OneOwnOpen ==
  ASSUME GlareTypeOK, UpIsCanonical, CalmDials,
         NEW n \in Nodes, NEW c \in Conns, NEW d \in Conns,
         conn[c].dialer = n, conn[d].dialer = n, Open(n, c), Open(n, d)
  PROVE  c = d
<1>1. conn[c].end[n] \in {"pending", "up"} /\ conn[d].end[n] \in {"pending", "up"}
  BY DEF GlareTypeOK, Ends, Open
<1>2. CASE conn[c].end[n] = "up" \/ conn[d].end[n] = "up"
  BY <1>1, <1>2 DEF UpIsCanonical, CalmDials, OwnLinkEndsDial, PendingIsAwaited, Dials
<1>3. CASE conn[c].end[n] = "pending" /\ conn[d].end[n] = "pending"
  <2>1. PICK t \in Tasks : task[t].node = n /\ task[t].conn = c
    BY <1>3 DEF CalmDials, PendingIsAwaited
  <2>2. PICK u \in Tasks : task[u].node = n /\ task[u].conn = d
    BY <1>3 DEF CalmDials, PendingIsAwaited
  <2>3. t = u
    BY <2>1, <2>2 DEF CalmDials, OneDial
  <2> QED
    BY <2>1, <2>2, <2>3
<1> QED
  BY <1>1, <1>2, <1>3

\* A handshake that ends at the node that dialled ends that node's one dial, and no
\* dial otherwise.
LEMMA DialEndsEffect ==
  ASSUME GlareTypeOK, CalmDials, NEW n \in Nodes, NEW c \in Conns,
         conn[c].end[n] = "pending", DialEnds(n, c)
  PROVE  /\ conn[c].dialer = n
              => /\ \A t \in Tasks : task[t].node = n => task'[t] = IdleTask
                 /\ inflight'[n] = NoOne
         /\ conn[c].dialer # n => task' = task /\ inflight' = inflight
         /\ \A t \in Tasks : task[t].node # n => task'[t] = task[t]
         /\ inflight'[Other(n)] = inflight[Other(n)]
<1>0. Other(n) \in Nodes /\ Other(n) # n
  BY TwoNodes
<1>1. CASE conn[c].dialer = n
  <2>1. PICK t \in Tasks : task[t].node = n /\ task[t].conn = c
    BY <1>1 DEF CalmDials, PendingIsAwaited
  <2>2. \A u \in Tasks : task[u].node = n => u = t
    BY <2>1 DEF CalmDials, OneDial
  <2>3. Awaiting(n, c) = {t}
    BY <2>1, <2>2 DEF Awaiting
  <2>4. \A u \in Tasks : task'[u] = IF u = t THEN IdleTask ELSE task[u]
    BY <2>3 DEF DialEnds
  <2>5. inflight' = [inflight EXCEPT ![n] = NoOne]
    BY <2>3 DEF DialEnds
  <2>6. inflight'[n] = NoOne /\ inflight'[Other(n)] = inflight[Other(n)]
    BY <1>0, <2>5 DEF GlareTypeOK
  <2> QED
    BY <1>1, <2>1, <2>2, <2>4, <2>6
<1>2. CASE conn[c].dialer # n
  <2>1. Awaiting(n, c) = {}
    BY <1>2 DEF Awaiting, CalmDials, AwaitsOwn
  <2>2. task' = [t \in Tasks |-> task[t]] /\ inflight' = inflight
    BY <2>1 DEF DialEnds
  <2>3. task' = task
    BY <2>2 DEF GlareTypeOK
  <2> QED
    BY <1>2, <2>2, <2>3
<1> QED
  BY <1>1, <1>2

\* The end of a handshake keeps the facts about dials.
LEMMA DialsEndStep ==
  ASSUME GlareTypeOK, UpIsCanonical, CalmDials, NEW n \in Nodes, NEW c \in Conns,
         BecomeCanonical(n, c) \/ LoseGlare(n, c)
  PROVE  CalmDials'
<1>0. Other(n) \in Nodes /\ Other(n) # n /\ Nodes = {n, Other(n)} /\ n # NoOne
  BY TwoNodes
<1>1. EndMoved(n, c)
  BY EndMoves
<1>2. conn[c].end[n] = "pending" /\ DialEnds(n, c)
  BY DEF BecomeCanonical, LoseGlare
<1>3. /\ conn[c].dialer = n
           => /\ \A t \in Tasks : task[t].node = n => task'[t] = IdleTask
              /\ inflight'[n] = NoOne
      /\ conn[c].dialer # n => task' = task /\ inflight' = inflight
      /\ \A t \in Tasks : task[t].node # n => task'[t] = task[t]
      /\ inflight'[Other(n)] = inflight[Other(n)]
  BY <1>2, DialEndsEffect
<1>4. canon'[n] \in {c, canon[n]} /\ canon[n] # c
  BY DEF BecomeCanonical, LoseGlare, GlareTypeOK, UpIsCanonical
<1>5. OneDial'
  <2>1. \A t \in Tasks : inflight[n] = t => task[t].node = n
    BY DEF CalmDials, OneDial
  <2>2. \A t \in Tasks : task'[t].node = n <=> inflight'[n] = t
    BY <1>3, <2>1, IdleTaskFacts, GlareAssumption, <1>0 DEF CalmDials, OneDial
  <2>3. \A t \in Tasks : task'[t].node = Other(n) <=> inflight'[Other(n)] = t
    BY <1>0, <1>3, IdleTaskFacts, TwoNodes DEF CalmDials, OneDial
  <2> QED
    BY <1>0, <2>2, <2>3 DEF OneDial
<1>6. AwaitsOwn'
  <2> SUFFICES ASSUME NEW t \in Tasks, NEW d \in Conns, task'[t].conn = d
               PROVE  /\ conn'[d].dialer = task'[t].node
                      /\ task'[t].node \in Nodes
                      /\ conn'[d].end[task'[t].node] = "pending"
    BY DEF AwaitsOwn
  <2>1. task'[t] # IdleTask
    BY IdleTaskFacts, GlareAssumption
  <2>2. task'[t] = task[t]
    BY <1>3, <2>1
  <2>3. /\ conn[d].dialer = task[t].node
        /\ task[t].node \in Nodes
        /\ conn[d].end[task[t].node] = "pending"
    BY <2>2 DEF CalmDials, AwaitsOwn
  <2>4. CASE task[t].node = n
    <3>1. d # c
      BY <1>3, <2>1, <2>2, <2>3, <2>4
    <3> QED
      BY <1>1, <2>2, <2>3, <2>4, <3>1 DEF EndMoved
  <2>5. CASE task[t].node = Other(n)
    BY <1>1, <2>2, <2>3, <2>5 DEF EndMoved
  <2> QED
    BY <1>0, <2>3, <2>4, <2>5
<1>7. PendingIsAwaited'
  <2> SUFFICES ASSUME NEW d \in Conns, NEW m \in Nodes,
                      conn'[d].dialer = m, conn'[d].end[m] = "pending"
               PROVE  \E t \in Tasks : task'[t].node = m /\ task'[t].conn = d
    BY DEF PendingIsAwaited
  <2>1. conn[d].dialer = m /\ conn[d].end[m] = "pending" /\ (m = n => d # c)
    BY <1>0, <1>1 DEF EndMoved
  <2>2. PICK t \in Tasks : task[t].node = m /\ task[t].conn = d
    BY <2>1 DEF CalmDials, PendingIsAwaited
  <2>3. m = n => conn[c].dialer # n
    BY <1>2, <2>1, OneOwnOpen DEF Open
  <2>4. task'[t] = task[t]
    BY <1>3, <2>2, <2>3
  <2> QED
    BY <2>2, <2>4
<1>8. OwnLinkEndsDial'
  <2> SUFFICES ASSUME NEW m \in Nodes, NEW d \in Conns,
                      canon'[m] = d, conn'[d].dialer = m, NEW t \in Tasks
               PROVE  task'[t].node # m
    BY DEF OwnLinkEndsDial, Dials
  <2>1. task'[t] = IdleTask \/ task'[t] = task[t]
    BY <1>3
  <2>2. CASE m = n /\ conn[c].dialer = n
    <3>1. CASE task[t].node = n
      <4>1. task'[t] = IdleTask
        BY <1>3, <2>2, <3>1
      <4> QED
        BY <1>0, <2>2, <4>1, IdleTaskFacts
    <3>2. CASE task[t].node # n
      BY <1>3, <2>2, <3>2
    <3> QED
      BY <3>1, <3>2
  <2>3. CASE m = n /\ conn[c].dialer # n
    <3>1. conn'[c].dialer = n => canon'[n] # c
      <4>1. canon'[n] = c => BecomeCanonical(n, c)
        BY <1>4 DEF LoseGlare, UpIsCanonical
      <4> QED
        BY <2>3, <4>1, BecomeCanonicalEffect
    <3>2. d = canon[n]
      BY <1>4, <2>3, <3>1
    <3>3. conn'[d] = conn[d]
      BY <1>4, <2>3, <3>2, CloseEffect DEF BecomeCanonical, LoseGlare, GlareTypeOK
    <3> QED
      BY <1>0, <2>1, <2>3, <3>2, <3>3, IdleTaskFacts DEF CalmDials, OwnLinkEndsDial, Dials
  <2>4. CASE m = Other(n)
    <3>1. canon[m] = d /\ conn[d].end[m] = "up"
      BY <1>0, <1>1, <2>4 DEF EndMoved, UpIsCanonical
    <3>2. conn[d].dialer = m
      BY <1>1, <2>4, <3>1 DEF EndMoved
    <3>3. task[t].node # m /\ m # NoOne
      BY <3>1, <3>2, TwoNodes DEF CalmDials, OwnLinkEndsDial, Dials
    <3> QED
      BY <2>1, <3>3, IdleTaskFacts
  <2> QED
    BY <1>0, <2>2, <2>3, <2>4
<1> QED
  BY <1>5, <1>6, <1>7, <1>8 DEF CalmDials

\* An end that goes keeps the facts about dials: the dial that awaited it goes on to
\* its next provider.
LEMMA DialFallsBackStep ==
  ASSUME GlareTypeOK, UpIsCanonical, CalmDials, NEW n \in Nodes, NEW c \in Conns,
         EndCloses(n, c)
  PROVE  CalmDials'
<1>0. Other(n) \in Nodes /\ Other(n) # n /\ Nodes = {n, Other(n)}
  BY TwoNodes
<1>1. EndMoved(n, c)
  BY EndMoves
<1>2. inflight' = inflight
  BY DEF EndCloses, DialFallsBack
<1>3. \A t \in Tasks :
        /\ task'[t].node = task[t].node
        /\ IF task[t].node = n /\ task[t].conn = c
           THEN task'[t].conn = NoOne
           ELSE task'[t].conn = task[t].conn
  BY DEF EndCloses, DialFallsBack, Awaiting, GlareTypeOK
<1>4. canon'[n] \in {canon[n], NoOne} /\ canon'[n] # c
  BY GlareAssumption DEF EndCloses, GlareTypeOK
<1>5. OneDial'
  BY <1>2, <1>3 DEF CalmDials, OneDial
<1>6. AwaitsOwn'
  <2> SUFFICES ASSUME NEW t \in Tasks, NEW d \in Conns, task'[t].conn = d
               PROVE  /\ conn'[d].dialer = task'[t].node
                      /\ task'[t].node \in Nodes
                      /\ conn'[d].end[task'[t].node] = "pending"
    BY DEF AwaitsOwn
  <2>1. task[t].conn = d /\ (task[t].node = n => d # c)
    BY <1>3, GlareAssumption
  <2>2. /\ conn[d].dialer = task[t].node
        /\ task[t].node \in Nodes
        /\ conn[d].end[task[t].node] = "pending"
    BY <2>1 DEF CalmDials, AwaitsOwn
  <2> QED
    BY <1>0, <1>1, <1>3, <2>1, <2>2 DEF EndMoved
<1>7. PendingIsAwaited'
  <2> SUFFICES ASSUME NEW d \in Conns, NEW m \in Nodes,
                      conn'[d].dialer = m, conn'[d].end[m] = "pending"
               PROVE  \E t \in Tasks : task'[t].node = m /\ task'[t].conn = d
    BY DEF PendingIsAwaited
  <2>1. conn[d].dialer = m /\ conn[d].end[m] = "pending" /\ (m = n => d # c)
    BY <1>0, <1>1 DEF EndMoved
  <2>2. PICK t \in Tasks : task[t].node = m /\ task[t].conn = d
    BY <2>1 DEF CalmDials, PendingIsAwaited
  <2> QED
    BY <1>3, <2>1, <2>2
<1>8. OwnLinkEndsDial'
  <2> SUFFICES ASSUME NEW m \in Nodes, NEW d \in Conns,
                      canon'[m] = d, conn'[d].dialer = m, NEW t \in Tasks
               PROVE  task'[t].node # m
    BY DEF OwnLinkEndsDial, Dials
  <2>1. canon[m] = d
    BY <1>0, <1>1, <1>4, GlareAssumption DEF EndMoved
  <2>2. conn[d].dialer = m
    <3>1. conn[d].end[m] = "up"
      BY <2>1 DEF UpIsCanonical
    <3>2. CASE m = n
      BY <1>4, <2>1, <3>2, CloseEffect DEF EndCloses
    <3>3. CASE m = Other(n)
      BY <1>1, <3>1, <3>3 DEF EndMoved
    <3> QED
      BY <1>0, <3>2, <3>3
  <2> QED
    BY <1>3, <2>1, <2>2 DEF CalmDials, OwnLinkEndsDial, Dials
<1> QED
  BY <1>5, <1>6, <1>7, <1>8 DEF CalmDials

\* A step into a state where nothing but glare has happened is neither a fault nor an
\* expired deadline.
LEMMA CalmStep ==
  ASSUME GlareTypeOK, [NextGlare]_glareVars, Calm'
  PROVE  /\ Calm
         /\ \A n \in Nodes : ~DialExpires(n)
         /\ \A n \in Nodes, c \in Conns : ~Fault(n, c)
<1>1. /\ faults' = faults \/ faults' = faults + 1
      /\ expiries' = expiries \/ expiries' = expiries + 1
  BY DEF NextGlare, glareVars, EndStep, NodeDials, OpenConn, DialFails, DialExpires,
         BecomeCanonical, LoseGlare, NoticeClose, Fault
<1>2. faults \in Nat /\ expiries \in Nat
  BY GlareAssumption DEF GlareTypeOK
<1> QED
  BY <1>1, <1>2 DEF Calm, DialExpires, Fault

\* Every step that is neither a fault nor an expired deadline keeps the facts about
\* dials.
LEMMA CalmDialsStep ==
  ASSUME GlareTypeOK, UpIsCanonical, Calm => CalmDials, [NextGlare]_glareVars, Calm'
  PROVE  CalmDials'
<1>0. Calm /\ CalmDials
  BY CalmStep
<1>1. ASSUME NEW n \in Nodes, NEW t \in Tasks, NodeDials(n, t)
      PROVE  CalmDials'
  <2>1. /\ task'[t].node = n /\ task'[t].conn = NoOne
        /\ task[t].node = NoOne /\ task[t].conn = NoOne
        /\ \A u \in Tasks \ {t} : task'[u] = task[u]
    BY <1>1, IdleTaskFacts DEF NodeDials, GlareTypeOK
  <2>2. /\ inflight[n] = NoOne /\ inflight'[n] = t
        /\ \A m \in Nodes \ {n} : inflight'[m] = inflight[m]
    BY <1>1 DEF NodeDials, GlareTypeOK
  <2>3. canon[n] = NoOne /\ UNCHANGED <<conn, canon>>
    BY <1>1 DEF NodeDials
  <2>4. OneDial'
    BY <1>0, <2>1, <2>2, GlareAssumption DEF CalmDials, OneDial
  <2>5. AwaitsOwn'
    BY <1>0, <2>1, <2>3, GlareAssumption DEF CalmDials, AwaitsOwn
  <2>6. PendingIsAwaited'
    BY <1>0, <2>1, <2>3, GlareAssumption DEF CalmDials, PendingIsAwaited
  <2>7. OwnLinkEndsDial'
    BY <1>0, <2>1, <2>3, GlareAssumption DEF CalmDials, OwnLinkEndsDial, Dials
  <2> QED
    BY <2>4, <2>5, <2>6, <2>7 DEF CalmDials
<1>2. ASSUME NEW t \in Tasks, NEW c \in Conns, OpenConn(t, c)
      PROVE  CalmDials'
  <2>1. PICK lv \in task[t].todo :
          /\ conn' = [conn EXCEPT ![c] = [dialer |-> task[t].node, level |-> lv,
                                          end |-> [m \in Nodes |-> "pending"]]]
          /\ task' = [task EXCEPT ![t].todo = @ \ {lv}, ![t].conn = c]
    BY <1>2 DEF OpenConn
  <2>2. task[t].node \in Nodes /\ task[t].conn = NoOne
    BY <1>2 DEF OpenConn, GlareTypeOK
  <2>3. /\ conn'[c].dialer = task[t].node /\ \A m \in Nodes : conn'[c].end[m] = "pending"
        /\ \A d \in Conns \ {c} : conn'[d] = conn[d]
    BY <2>1 DEF GlareTypeOK
  <2>4. /\ task'[t].node = task[t].node /\ task'[t].conn = c
        /\ \A u \in Tasks \ {t} : task'[u] = task[u]
    BY <2>1 DEF GlareTypeOK
  <2>5. /\ canon' = canon /\ inflight' = inflight
        /\ \A m \in Nodes : canon[m] # c
        /\ \A u \in Tasks : task[u].conn # c
    BY <1>2, NoConnFacts DEF OpenConn, UpIsCanonical
  <2>6. OneDial'
    BY <1>0, <2>4, <2>5 DEF CalmDials, OneDial
  <2>7. AwaitsOwn'
    BY <1>0, <2>2, <2>3, <2>4, <2>5 DEF CalmDials, AwaitsOwn
  <2>8. PendingIsAwaited'
    BY <1>0, <2>2, <2>3, <2>4, GlareAssumption DEF CalmDials, PendingIsAwaited
  <2>9. OwnLinkEndsDial'
    BY <1>0, <2>3, <2>4, <2>5 DEF CalmDials, OwnLinkEndsDial, Dials
  <2> QED
    BY <2>6, <2>7, <2>8, <2>9 DEF CalmDials
<1>3. ASSUME NEW t \in Tasks, DialFails(t)
      PROVE  CalmDials'
  <2>1. /\ task'[t] = IdleTask /\ \A u \in Tasks \ {t} : task'[u] = task[u]
        /\ task[t].node \in Nodes /\ task[t].conn = NoOne
    BY <1>3 DEF DialFails, GlareTypeOK
  <2>2. /\ inflight'[task[t].node] = NoOne
        /\ \A m \in Nodes \ {task[t].node} : inflight'[m] = inflight[m]
    BY <1>3, <2>1 DEF DialFails, GlareTypeOK
  <2>3. UNCHANGED <<conn, canon>>
    BY <1>3 DEF DialFails
  <2>4. OneDial'
    BY <1>0, <2>1, <2>2, IdleTaskFacts, GlareAssumption DEF CalmDials, OneDial
  <2>5. AwaitsOwn'
    BY <1>0, <2>1, <2>3, IdleTaskFacts, GlareAssumption DEF CalmDials, AwaitsOwn
  <2>6. PendingIsAwaited'
    BY <1>0, <2>1, <2>3, GlareAssumption DEF CalmDials, PendingIsAwaited
  <2>7. OwnLinkEndsDial'
    BY <1>0, <2>1, <2>3, IdleTaskFacts, GlareAssumption
       DEF CalmDials, OwnLinkEndsDial, Dials
  <2> QED
    BY <2>4, <2>5, <2>6, <2>7 DEF CalmDials
<1>5. ASSUME NEW n \in Nodes, NEW c \in Conns, EndStep(n, c)
      PROVE  CalmDials'
  BY <1>0, <1>5, DialsEndStep, DialFallsBackStep DEF EndStep, NoticeClose
<1>7. CASE UNCHANGED glareVars
  BY <1>0, <1>7
     DEF glareVars, CalmDials, OneDial, AwaitsOwn, PendingIsAwaited, OwnLinkEndsDial, Dials
<1> QED
  BY <1>1, <1>2, <1>3, <1>5, <1>7, CalmStep DEF NextGlare

-----------------------------------------------------------------------------
(* Survivors. *)

\* linkIsPreferred orders two connections, dialled one by each node, alike at both
\* nodes.
LEMMA PreferenceIsRank ==
  ASSUME GlareTypeOK, NEW n \in Nodes, NEW c \in Conns, NEW d \in Conns,
         conn[c].dialer \in Nodes, conn[d].dialer \in Nodes,
         conn[c].dialer # conn[d].dialer
  PROVE  /\ linkIsPreferred(n, Other(n), Seen(n, c), Seen(n, d)) <=> Above(c, d)
         /\ Above(c, d) <=> ~Above(d, c)
<1>1. conn[c] \in ConnSet /\ conn[d] \in ConnSet
  BY DEF GlareTypeOK, ConnSet
<1>2. conn[c].level \in SharedLevels \cup {0} /\ conn[d].level \in SharedLevels \cup {0}
  BY <1>1 DEF ConnSet
<1>3. conn[c].level \in Nat /\ conn[d].level \in Nat
  <2>1. \A x \in SharedLevels \cup {0} : x \in Nat
    BY ReachAssumption
  <2> QED
    BY <1>2, <2>1
<1>4. Nodes = {n, Other(n)} /\ n # Other(n) /\ n \in Nat /\ Other(n) \in Nat
  BY TwoNodes
<1>5. /\ Seen(n, c).level = conn[c].level /\ Seen(n, d).level = conn[d].level
      /\ Seen(n, c).initiator <=> conn[c].dialer = n
  BY DEF Seen
<1>6. linkIsPreferred(n, Other(n), Seen(n, c), Seen(n, d))
        <=> \/ conn[c].level > conn[d].level
            \/ /\ conn[c].level = conn[d].level
               /\ IF conn[c].dialer = n THEN n < Other(n) ELSE Other(n) < n
  BY <1>5 DEF linkIsPreferred
<1>7. \/ conn[c].dialer = n /\ conn[d].dialer = Other(n)
      \/ conn[c].dialer = Other(n) /\ conn[d].dialer = n
  BY <1>4
<1> QED
  BY <1>3, <1>4, <1>6, <1>7 DEF Above

\* A survivor stays one as long as its link, the two connections' diallers and levels
\* and the node's silence last.
LEMMA SurvivorKept ==
  ASSUME NEW n \in Nodes, NEW c \in Conns, Survivor(n, c),
         canon'[n] = canon[n],
         conn'[canon[n]].end[Other(n)] # "closed",
         conn'[canon[n]].dialer = conn[canon[n]].dialer,
         conn'[canon[n]].level = conn[canon[n]].level,
         conn'[c].dialer = conn[c].dialer,
         conn'[c].level = conn[c].level,
         \A t \in Tasks : task'[t].node # n
  PROVE  Survivor(n, c)'
BY DEF Survivor, Open, Above, Dials

\* A registration closes the link it replaces only for a better one, which the other
\* node has not closed.
LEMMA SurvivorBecome ==
  ASSUME GlareTypeOK, ConnsAreWhole, UpIsCanonical, CalmDials, HalfClosedHasSurvivor,
         NEW n \in Nodes, NEW c \in Conns, BecomeCanonical(n, c)
  PROVE  HalfClosedHasSurvivor'
<1> DEFINE m == Other(n)
<1> DEFINE d == canon[n]
<1>0. m \in Nodes /\ m # n /\ Nodes = {n, m} /\ Other(m) = n /\ m # NoOne /\ n # NoOne
  BY TwoNodes
<1> HIDE DEF m
<1>1. EndMoved(n, c)
  BY EndMoves
<1>2. conn[c].end[n] = "pending" /\ DialEnds(n, c)
  BY DEF BecomeCanonical
<1>3. conn[c] # NoConn /\ conn[c].dialer \in Nodes
  BY <1>2, NoConnFacts DEF ConnsAreWhole
<1>4. \A g \in Conns : conn[g].end[m] \in {"pending", "up", "closed"}
  BY <1>0 DEF GlareTypeOK, Ends
<1>5. \A g \in Conns : canon[m] = g <=> conn[g].end[m] = "up"
  BY <1>0 DEF UpIsCanonical
<1>6. \A g \in Conns : conn[g] # NoConn /\ ~Open(n, g) => Open(m, g)
  BY <1>0 DEF ConnsAreWhole
<1>7. \A g \in Conns : conn[g] # NoConn /\ ~Open(m, g) => Open(n, g)
  BY <1>0 DEF ConnsAreWhole
<1>8. ASSUME NEW g \in Conns, conn[g].dialer = m, conn[g].end[m] = "pending"
      PROVE  Dials(m)
  BY <1>0, <1>8 DEF CalmDials, PendingIsAwaited, Dials
<1>9. conn[c].dialer = n => Dials(n)
  BY <1>2 DEF CalmDials, PendingIsAwaited, Dials
<1>10. ASSUME d # NoOne, Open(m, d)
       PROVE  /\ Open(m, c)
              /\ conn[c].dialer # conn[d].dialer
              /\ Above(c, d)
              /\ \A e \in Conns : conn[e] # NoConn => Open(n, e)
  <2>1. d \in Conns /\ conn[d].end[n] = "up" /\ d # c
    BY <1>2, <1>10 DEF GlareTypeOK, UpIsCanonical
  <2>2. conn[d] # NoConn /\ conn[d].dialer \in Nodes /\ Open(n, d) /\ Open(n, c)
    BY <1>2, <2>1, NoConnFacts DEF ConnsAreWhole, Open
  <2>3. linkIsPreferred(n, Other(n), Seen(n, c), Seen(n, d))
    BY <1>10 DEF BecomeCanonical
  <2>4. ASSUME ~Open(m, c)
        PROVE  FALSE
    <3> DEFINE f == canon[m]
    <3>1. /\ f \in Conns
          /\ Open(n, f)
          /\ conn[f].dialer # conn[c].dialer
          /\ Above(f, c)
          /\ ~Dials(m)
      BY <1>0, <1>3, <2>4 DEF HalfClosedHasSurvivor, Survivor, GlareTypeOK
    <3>2. conn[f].end[m] = "up" /\ Open(m, f) /\ conn[f].dialer \in Nodes
      BY <1>5, <3>1, NoConnFacts, <1>0 DEF Open, ConnsAreWhole
    <3> HIDE DEF f
    <3>3. f # d
      BY <1>3, <2>1, <2>2, <2>3, <3>1, PreferenceIsRank
    <3>4. conn[d].dialer # n
      BY <2>1, <2>2, <3>1, <3>2, <3>3, <1>0, <1>3, OneOwnOpen
    <3>5. conn[d].dialer # m
      <4>1. conn[d].end[m] = "pending"
        BY <1>4, <1>5, <1>10, <2>1, <3>1, <3>2, <3>3 DEF Open, f
      <4> QED
        BY <1>8, <2>1, <3>1, <4>1
    <3> QED
      BY <1>0, <2>2, <3>4, <3>5
  <2>5. conn[c].dialer # conn[d].dialer
    BY <1>0, <1>3, <1>10, <2>1, <2>2, <2>4, OneOwnOpen
  <2>6. Above(c, d)
    BY <1>3, <2>1, <2>2, <2>3, <2>5, PreferenceIsRank
  <2>7. ASSUME NEW e \in Conns, conn[e] # NoConn, ~Open(n, e)
        PROVE  FALSE
    <3>1. conn[d].dialer # conn[e].dialer /\ ~Dials(n)
      BY <2>7 DEF HalfClosedHasSurvivor, Survivor
    <3>2. conn[c].dialer = m
      BY <1>0, <1>3, <1>9, <3>1
    <3>3. conn[e].dialer = m
      BY <1>0, <2>2, <2>5, <2>7, <3>1, <3>2 DEF ConnsAreWhole
    <3>4. e = c
      BY <1>0, <1>6, <2>4, <2>7, <3>2, <3>3, OneOwnOpen
    <3> QED
      BY <2>2, <2>7, <3>4
  <2> QED
    BY <2>4, <2>5, <2>6, <2>7
<1>11. /\ conn[c].dialer = n => \A t \in Tasks : task[t].node = n => task'[t] = IdleTask
       /\ conn[c].dialer # n => task' = task
       /\ \A t \in Tasks : task[t].node # n => task'[t] = task[t]
  BY <1>2, DialEndsEffect
<1>12. /\ conn'[c].dialer = conn[c].dialer
       /\ conn'[c].level = conn[c].level
       /\ conn'[c].end[n] = "up"
       /\ conn'[c].end[m] = conn[c].end[m]
       /\ d # c
       /\ d # NoOne => conn'[d] = CloseEnd(conn[d], n)
       /\ \A g \in Conns \ {c, d} : conn'[g] = conn[g]
       /\ canon'[n] = c
       /\ canon'[m] = canon[m]
  BY BecomeCanonicalEffect DEF m
<1>13. d \in Conns \cup {NoOne}
  BY DEF GlareTypeOK
<1>14. ASSUME NEW g \in Conns, conn'[g] # NoConn, conn'[g].end[n] = "closed"
       PROVE  Survivor(n, g)'
  <2>1. g # c
    BY <1>12, <1>14
  <2>2. g = d
    <3>1. ASSUME g # d
          PROVE  FALSE
      <4>1. conn'[g] = conn[g]
        BY <1>12, <2>1, <3>1
      <4>2. Survivor(n, g)
        BY <1>14, <4>1 DEF HalfClosedHasSurvivor, Open
      <4> QED
        BY <1>10, <1>14, <4>1, <4>2 DEF Survivor, Open, m
    <3> QED
      BY <3>1
  <2>3. d # NoOne /\ d \in Conns /\ conn[d] \in ConnSet
    BY <2>2, GlareAssumption DEF GlareTypeOK, ConnSet
  <2>4. conn[d].end[m] # "closed"
    BY <1>12, <1>14, <2>2, <2>3, CloseEndFacts DEF m
  <2>5. Open(m, c) /\ conn[c].dialer # conn[d].dialer /\ Above(c, d)
    BY <1>10, <2>3, <2>4 DEF Open
  <2>6. conn'[d].dialer = conn[d].dialer /\ conn'[d].level = conn[d].level
    BY <1>12, <2>3, <2>4, CloseEndFacts DEF m
  <2>7. \A t \in Tasks : task'[t].node # n
    <3>1. CASE conn[c].dialer = n
      BY <1>0, <1>11, <3>1, IdleTaskFacts
    <3>2. CASE conn[c].dialer # n
      <4>1. conn[d].dialer = n
        BY <1>0, <1>3, <2>3, <2>4, <2>5, <3>2, NoConnFacts DEF ConnsAreWhole
      <4> QED
        BY <1>11, <2>3, <3>2, <4>1 DEF CalmDials, OwnLinkEndsDial, Dials
    <3> QED
      BY <3>1, <3>2
  <2> QED
    BY <1>12, <2>2, <2>5, <2>6, <2>7, GlareAssumption DEF Survivor, Open, Above, Dials, m
<1>15. ASSUME NEW g \in Conns, conn'[g] # NoConn, conn'[g].end[m] = "closed"
       PROVE  Survivor(m, g)'
  <2>1. conn[g].end[m] = "closed"
    BY <1>1, <1>15 DEF EndMoved, m
  <2>2. g # d
    <3>1. g = d => conn'[d] = NoConn
      <4>1. g = d => d # NoOne /\ conn[d] \in ConnSet
        BY GlareAssumption DEF GlareTypeOK, ConnSet
      <4> QED
        BY <1>12, <2>1, <4>1, CloseEndFacts DEF m
    <3> QED
      BY <1>15, <3>1
  <2>3. conn[g] # NoConn /\ conn'[g].dialer = conn[g].dialer /\ conn'[g].level = conn[g].level
    BY <1>3, <1>12, <1>15, <2>2
  <2> DEFINE h == canon[m]
  <2>4. Survivor(m, g)
    BY <1>0, <2>1, <2>3 DEF HalfClosedHasSurvivor, Open
  <2>5. /\ h \in Conns /\ Open(n, h)
        /\ conn[h].dialer # conn[g].dialer
        /\ ~Dials(m)
    BY <1>0, <2>4 DEF Survivor, GlareTypeOK
  <2>6. conn[h].end[m] = "up" /\ Open(m, h) /\ conn[h].dialer \in Nodes
    BY <1>0, <1>5, <2>5, NoConnFacts DEF Open, ConnsAreWhole
  <2>7. h # d
    <3>1. ASSUME h = d
          PROVE  FALSE
      <4>1. d # NoOne /\ Open(m, d)
        BY <2>5, <2>6, <3>1, GlareAssumption
      <4>2. Open(m, c) /\ conn[c].dialer # conn[d].dialer
        BY <1>10, <4>1
      <4>3. conn[c].end[m] = "pending"
        BY <1>4, <1>5, <1>12, <3>1, <4>2 DEF Open
      <4>4. conn[c].dialer = n
        BY <1>0, <1>3, <1>8, <2>5, <4>3
      <4>5. conn[g].dialer = n
        BY <1>0, <2>3, <2>5, <2>6, <3>1, <4>2, <4>4 DEF ConnsAreWhole
      <4>6. Open(n, g) /\ Open(n, c)
        BY <1>2, <1>7, <2>1, <2>3 DEF Open
      <4>7. g = c
        BY <4>4, <4>5, <4>6, OneOwnOpen
      <4> QED
        BY <2>1, <4>2, <4>7 DEF Open
    <3> QED
      BY <3>1
  <2>8. conn'[h].end[n] # "closed"
    BY <1>12, <2>5, <2>7 DEF Open
  <2>9. conn'[h].dialer = conn[h].dialer /\ conn'[h].level = conn[h].level
    BY <1>12, <2>5, <2>7
  <2>10. \A t \in Tasks : task'[t].node # m
    BY <1>0, <1>11, <2>5, IdleTaskFacts DEF Dials
  <2> QED
    BY <1>0, <1>12, <2>3, <2>4, <2>8, <2>9, <2>10, SurvivorKept
<1> QED
  BY <1>0, <1>14, <1>15 DEF HalfClosedHasSurvivor, Open

\* A connection that loses to the canonical link leaves a survivor which the other node
\* has not closed.
LEMMA SurvivorLose ==
  ASSUME GlareTypeOK, ConnsAreWhole, UpIsCanonical, CalmDials, HalfClosedHasSurvivor,
         NEW n \in Nodes, NEW c \in Conns, LoseGlare(n, c)
  PROVE  HalfClosedHasSurvivor'
<1> DEFINE m == Other(n)
<1> DEFINE d == canon[n]
<1>0. m \in Nodes /\ m # n /\ Nodes = {n, m} /\ Other(m) = n /\ m # NoOne /\ n # NoOne
  BY TwoNodes
<1> HIDE DEF m
<1>1. EndMoved(n, c)
  BY EndMoves
<1>2. conn[c].end[n] = "pending" /\ DialEnds(n, c) /\ canon' = canon
  BY DEF LoseGlare
<1>3. conn[c] # NoConn /\ conn[c].dialer \in Nodes
  BY <1>2, NoConnFacts DEF ConnsAreWhole
<1>4. \A g \in Conns : conn[g].end[m] \in {"pending", "up", "closed"}
  BY <1>0 DEF GlareTypeOK, Ends
<1>5. \A g \in Conns : canon[m] = g <=> conn[g].end[m] = "up"
  BY <1>0 DEF UpIsCanonical
<1>6. \A g \in Conns : conn[g] # NoConn /\ ~Open(m, g) => Open(n, g)
  BY <1>0 DEF ConnsAreWhole
<1>7. ASSUME NEW g \in Conns, conn[g].dialer = m, conn[g].end[m] = "pending"
      PROVE  Dials(m)
  BY <1>0, <1>7 DEF CalmDials, PendingIsAwaited, Dials
<1>8. /\ d \in Conns /\ conn[d].end[n] = "up" /\ d # c
      /\ conn[d] # NoConn /\ conn[d].dialer \in Nodes /\ Open(n, d) /\ Open(n, c)
  <2>1. d \in Conns /\ conn[d].end[n] = "up" /\ d # c
    BY <1>2 DEF LoseGlare, GlareTypeOK, UpIsCanonical
  <2> QED
    BY <1>2, <2>1, NoConnFacts DEF ConnsAreWhole, Open
<1>9. ~linkIsPreferred(n, Other(n), Seen(n, c), Seen(n, d))
  BY DEF LoseGlare
<1>10. ASSUME Open(m, c), ~Open(m, d)
       PROVE  FALSE
  <2> DEFINE f == canon[m]
  <2>1. /\ f \in Conns
        /\ Open(n, f)
        /\ conn[f].dialer # conn[d].dialer
        /\ Above(f, d)
        /\ ~Dials(m)
    BY <1>0, <1>8, <1>10 DEF HalfClosedHasSurvivor, Survivor, GlareTypeOK
  <2>2. conn[f].end[m] = "up" /\ Open(m, f) /\ conn[f].dialer \in Nodes
    BY <1>0, <1>5, <2>1, NoConnFacts DEF Open, ConnsAreWhole
  <2> HIDE DEF f
  <2>3. f # c
    BY <1>3, <1>8, <1>9, <2>1, PreferenceIsRank
  <2>4. conn[c].end[m] = "pending"
    BY <1>4, <1>5, <1>10, <2>1, <2>2, <2>3 DEF Open, f
  <2>5. conn[c].dialer = n
    BY <1>0, <1>3, <1>7, <2>1, <2>4
  <2>6. conn[d].dialer = m
    BY <1>0, <1>8, <2>5, OneOwnOpen
  <2>7. conn[f].dialer = n
    BY <1>0, <2>1, <2>2, <2>6
  <2> QED
    BY <1>8, <2>1, <2>3, <2>5, <2>7, OneOwnOpen
<1>11. ASSUME Open(m, c)
       PROVE  /\ Open(m, d)
              /\ conn[d].dialer # conn[c].dialer
              /\ Above(d, c)
  <2>1. Open(m, d)
    BY <1>10, <1>11
  <2>2. conn[d].dialer # conn[c].dialer
    BY <1>0, <1>3, <1>8, <1>11, <2>1, OneOwnOpen
  <2> QED
    BY <1>3, <1>8, <1>9, <2>1, <2>2, PreferenceIsRank
<1>12. /\ conn[c].dialer = n => \A t \in Tasks : task[t].node = n => task'[t] = IdleTask
       /\ conn[c].dialer # n => task' = task
       /\ \A t \in Tasks : task[t].node # n => task'[t] = task[t]
  BY <1>2, DialEndsEffect
<1>13. /\ conn'[c] = CloseEnd(conn[c], n)
       /\ \A g \in Conns \ {c} : conn'[g] = conn[g]
  BY CloseEffect DEF LoseGlare
<1>14. /\ conn[c].end[m] = "closed" => conn'[c] = NoConn
       /\ conn[c].end[m] # "closed"
            => conn'[c].dialer = conn[c].dialer /\ conn'[c].level = conn[c].level
  <2>1. conn[c] \in ConnSet
    BY DEF GlareTypeOK, ConnSet
  <2> QED
    BY <1>13, <2>1, CloseEndFacts DEF m
<1>15. ASSUME NEW g \in Conns, conn'[g] # NoConn, conn'[g].end[n] = "closed"
       PROVE  Survivor(n, g)'
  <2>1. CASE g = c
    <3>1. Open(m, c)
      BY <1>14, <1>15, <2>1 DEF Open
    <3>2. Open(m, d) /\ conn[d].dialer # conn[c].dialer /\ Above(d, c)
      BY <1>11, <3>1
    <3>3. \A t \in Tasks : task'[t].node # n
      <4>1. CASE conn[c].dialer = n
        BY <1>0, <1>12, <4>1, IdleTaskFacts
      <4>2. CASE conn[c].dialer # n
        <5>1. conn[d].dialer = n
          BY <1>0, <1>3, <1>8, <3>2, <4>2
        <5> QED
          BY <1>8, <1>12, <4>2, <5>1 DEF CalmDials, OwnLinkEndsDial, Dials
      <4> QED
        BY <4>1, <4>2
    <3>4. conn'[d] = conn[d] /\ d # NoOne
      BY <1>8, <1>13, GlareAssumption
    <3> QED
      BY <1>2, <1>14, <2>1, <3>1, <3>2, <3>3, <3>4 DEF Survivor, Open, Above, Dials, m
  <2>2. CASE g # c
    <3>1. conn'[g] = conn[g] /\ Survivor(n, g)
      BY <1>13, <1>15, <2>2 DEF HalfClosedHasSurvivor, Open
    <3>2. \A t \in Tasks : task'[t].node # n
      BY <1>0, <1>12, <3>1, IdleTaskFacts DEF Survivor, Dials
    <3>3. conn'[d] = conn[d]
      BY <1>8, <1>13
    <3> QED
      BY <1>2, <3>1, <3>2, <3>3, SurvivorKept DEF Survivor, Open
  <2> QED
    BY <2>1, <2>2
<1>16. ASSUME NEW g \in Conns, conn'[g] # NoConn, conn'[g].end[m] = "closed"
       PROVE  Survivor(m, g)'
  <2>1. conn[g].end[m] = "closed"
    BY <1>1, <1>16 DEF EndMoved, m
  <2>2. g # c
    BY <1>14, <1>16, <2>1
  <2>3. conn'[g] = conn[g] /\ Survivor(m, g)
    BY <1>0, <1>13, <1>16, <2>1, <2>2 DEF HalfClosedHasSurvivor, Open
  <2> DEFINE h == canon[m]
  <2>4. /\ h \in Conns /\ Open(n, h)
        /\ conn[h].dialer # conn[g].dialer
        /\ ~Dials(m)
    BY <1>0, <2>3 DEF Survivor, GlareTypeOK
  <2>5. h # c
    <3>1. ASSUME h = c
          PROVE  FALSE
      <4>1. conn[c].end[m] = "up" /\ Open(m, c)
        BY <1>5, <3>1 DEF Open
      <4>2. Open(m, d) /\ conn[d].dialer # conn[c].dialer
        BY <1>11, <4>1
      <4>3. conn[d].end[m] = "pending"
        BY <1>4, <1>5, <1>8, <3>1, <4>2 DEF Open
      <4>4. conn[d].dialer = n
        BY <1>0, <1>7, <1>8, <2>4, <4>3
      <4>5. conn[g].dialer = n
        BY <1>0, <1>3, <1>16, <2>3, <2>4, <3>1, <4>2, <4>4 DEF ConnsAreWhole
      <4>6. Open(n, g)
        BY <1>6, <1>16, <2>1, <2>3 DEF Open
      <4>7. g = d
        BY <1>8, <4>4, <4>5, <4>6, OneOwnOpen
      <4> QED
        BY <2>1, <4>2, <4>7 DEF Open
    <3> QED
      BY <3>1
  <2>6. conn'[h] = conn[h]
    BY <1>13, <2>4, <2>5
  <2>7. \A t \in Tasks : task'[t].node # m
    BY <1>0, <1>12, <2>4, IdleTaskFacts DEF Dials
  <2> QED
    BY <1>0, <1>2, <2>3, <2>4, <2>6, <2>7, SurvivorKept DEF Open
<1> QED
  BY <1>0, <1>15, <1>16 DEF HalfClosedHasSurvivor, Open

\* A close that is noticed takes no survivor away.
LEMMA SurvivorNotice ==
  ASSUME GlareTypeOK, UpIsCanonical, HalfClosedHasSurvivor,
         NEW n \in Nodes, NEW c \in Conns, NoticeClose(n, c)
  PROVE  HalfClosedHasSurvivor'
<1>0. Other(n) \in Nodes /\ Nodes = {n, Other(n)} /\ Other(n) # n /\ Other(Other(n)) = n
  BY TwoNodes
<1>1. conn[c].end[Other(n)] = "closed" /\ EndCloses(n, c)
  BY DEF NoticeClose
<1>2. conn'[c] = NoConn /\ \A g \in Conns \ {c} : conn'[g] = conn[g]
  BY <1>1, CloseEffect DEF EndCloses, CloseEnd
<1>3. /\ canon'[n] = IF canon[n] = c THEN NoOne ELSE canon[n]
      /\ canon'[Other(n)] = canon[Other(n)]
  BY <1>0, <1>1 DEF EndCloses, GlareTypeOK
<1>4. \A t \in Tasks : task'[t].node = task[t].node
  BY <1>1 DEF EndCloses, DialFallsBack, GlareTypeOK
<1> SUFFICES ASSUME NEW g \in Conns, NEW k \in Nodes, conn'[g] # NoConn,
                    conn'[g].end[k] = "closed"
             PROVE  Survivor(k, g)'
  BY DEF HalfClosedHasSurvivor, Open
<1>5. g # c /\ conn'[g] = conn[g]
  BY <1>2
<1>6. Survivor(k, g)
  BY <1>5 DEF HalfClosedHasSurvivor, Open
<1>7. canon[k] \in Conns /\ canon[k] # c
  <2>1. CASE k = n
    BY <1>1, <1>6, <2>1 DEF Survivor, Open, GlareTypeOK
  <2>2. CASE k = Other(n)
    BY <1>0, <1>1, <1>6, <2>2 DEF Survivor, UpIsCanonical, GlareTypeOK
  <2> QED
    BY <1>0, <2>1, <2>2
<1>8. canon'[k] = canon[k] /\ conn'[canon[k]] = conn[canon[k]]
  BY <1>0, <1>2, <1>3, <1>7
<1> QED
  BY <1>4, <1>5, <1>6, <1>8, SurvivorKept DEF Survivor, Open, Dials

\* Every step that is neither a fault nor an expired deadline keeps a survivor beside
\* each half-closed connection.
LEMMA SurvivorStep ==
  ASSUME GlareTypeOK, ConnsAreWhole, UpIsCanonical,
         Calm => CalmDials /\ HalfClosedHasSurvivor, [NextGlare]_glareVars, Calm'
  PROVE  HalfClosedHasSurvivor'
<1>0. Calm /\ CalmDials /\ HalfClosedHasSurvivor
  BY CalmStep
<1>1. ASSUME NEW n \in Nodes, NEW t \in Tasks, NodeDials(n, t)
      PROVE  HalfClosedHasSurvivor'
  <2>1. canon[n] = NoOne /\ UNCHANGED <<conn, canon>>
    BY <1>1 DEF NodeDials
  <2>2. \A u \in Tasks : task'[u].node # n => task'[u] = task[u]
    BY <1>1 DEF NodeDials, GlareTypeOK
  <2> QED
    BY <1>0, <2>1, <2>2 DEF HalfClosedHasSurvivor, Survivor, Open, Above, Dials
<1>2. ASSUME NEW t \in Tasks, NEW c \in Conns, OpenConn(t, c)
      PROVE  HalfClosedHasSurvivor'
  <2>1. PICK lv \in task[t].todo :
          /\ conn' = [conn EXCEPT ![c] = [dialer |-> task[t].node, level |-> lv,
                                          end |-> [m \in Nodes |-> "pending"]]]
          /\ task' = [task EXCEPT ![t].todo = @ \ {lv}, ![t].conn = c]
    BY <1>2 DEF OpenConn
  <2>2. /\ \A m \in Nodes : conn'[c].end[m] = "pending"
        /\ \A d \in Conns \ {c} : conn'[d] = conn[d]
    BY <2>1 DEF GlareTypeOK
  <2>3. \A u \in Tasks : task'[u].node = task[u].node
    BY <2>1 DEF GlareTypeOK
  <2>4. canon' = canon /\ \A m \in Nodes : canon[m] # c
    BY <1>2, NoConnFacts DEF OpenConn, UpIsCanonical
  <2> SUFFICES ASSUME NEW g \in Conns, NEW k \in Nodes, conn'[g] # NoConn,
                      conn'[g].end[k] = "closed"
               PROVE  Survivor(k, g)'
    BY DEF HalfClosedHasSurvivor, Open
  <2>5. conn'[g] = conn[g] /\ Survivor(k, g)
    BY <1>0, <2>2 DEF HalfClosedHasSurvivor, Open
  <2>6. canon[k] \in Conns /\ conn'[canon[k]] = conn[canon[k]]
    BY <2>2, <2>4, <2>5 DEF Survivor, GlareTypeOK
  <2> QED
    BY <2>3, <2>4, <2>5, <2>6, SurvivorKept DEF Survivor, Open, Dials
<1>3. ASSUME NEW t \in Tasks, DialFails(t)
      PROVE  HalfClosedHasSurvivor'
  <2>1. UNCHANGED <<conn, canon>> /\ \A u \in Tasks : task'[u].node \in {NoOne, task[u].node}
    BY <1>3, IdleTaskFacts DEF DialFails, GlareTypeOK
  <2> QED
    BY <1>0, <2>1, GlareAssumption DEF HalfClosedHasSurvivor, Survivor, Open, Above, Dials
<1>4. ASSUME NEW n \in Nodes, NEW c \in Conns, EndStep(n, c)
      PROVE  HalfClosedHasSurvivor'
  BY <1>0, <1>4, SurvivorBecome, SurvivorLose, SurvivorNotice DEF EndStep
<1>5. CASE UNCHANGED glareVars
  BY <1>0, <1>5 DEF glareVars, HalfClosedHasSurvivor, Survivor, Open, Above, Dials
<1> QED
  BY <1>1, <1>2, <1>3, <1>4, <1>5, CalmStep DEF NextGlare

-----------------------------------------------------------------------------
(* Theorems. *)

\* The variables of two nodes that dial each other keep their shape.
THEOREM GlareTyped == SpecGlare => []GlareTypeOK
<1>1. InitGlare => GlareTypeOK
  BY NoConnFacts, IdleTaskFacts, GlareAssumption DEF InitGlare, GlareTypeOK, ConnSet, TaskSet
<1>2. GlareTypeOK /\ [NextGlare]_glareVars => GlareTypeOK'
  BY TypeStep
<1> QED
  BY <1>1, <1>2, PTL DEF SpecGlare

\* The inductive invariant holds in every state.
THEOREM GlareInvariant == SpecGlare => []GlareIInv
<1>1. ASSUME InitGlare PROVE GlareIInv
  <2>1. GlareTypeOK
    BY <1>1, NoConnFacts, IdleTaskFacts, GlareAssumption DEF InitGlare, GlareTypeOK, ConnSet, TaskSet
  <2>2. ConnsAreWhole /\ UpIsCanonical /\ HalfClosedHasSurvivor
    BY <1>1, NoConnFacts, GlareAssumption
       DEF InitGlare, ConnsAreWhole, UpIsCanonical, HalfClosedHasSurvivor
  <2>3. CalmDials
    BY <1>1, NoConnFacts, IdleTaskFacts, GlareAssumption
       DEF InitGlare, CalmDials, OneDial, AwaitsOwn, PendingIsAwaited, OwnLinkEndsDial
  <2> QED
    BY <2>1, <2>2, <2>3 DEF GlareIInv
<1>2. GlareIInv /\ [NextGlare]_glareVars => GlareIInv'
  BY TypeStep, WholeStep, CalmDialsStep, SurvivorStep, CalmStep DEF GlareIInv
<1> QED
  BY <1>1, <1>2, PTL DEF SpecGlare

\* Whatever was dialled, lost, evicted or timed out, when nothing is under way the two
\* registries hold the same connection or none, and none is left open besides it.
THEOREM GlareAgreement == SpecGlare => []QuietAgreement
<1>1. GlareIInv => QuietAgreement
  <2> SUFFICES ASSUME GlareIInv, Quiet
               PROVE  /\ \A m, n \in Nodes : canon[m] = canon[n]
                      /\ \A c \in Conns : conn[c] = NoConn \/ \A n \in Nodes : canon[n] = c
    BY DEF QuietAgreement
  <2>1. ASSUME NEW n \in Nodes, NEW m \in Nodes, canon[n] \in Conns
        PROVE  canon[m] = canon[n]
    <3>1. conn[canon[n]].end[n] = "up"
      BY <2>1 DEF GlareIInv, UpIsCanonical
    <3>2. conn[canon[n]].end[m] = "up"
      BY <2>1, <3>1, NoConnFacts DEF Quiet
    <3> QED
      BY <2>1, <3>2 DEF GlareIInv, UpIsCanonical
  <2>2. \A n \in Nodes : canon[n] \in Conns \cup {NoOne}
    BY DEF GlareIInv, GlareTypeOK
  <2>3. \A m, n \in Nodes : canon[m] = canon[n]
    BY <2>1, <2>2
  <2>4. \A c \in Conns : conn[c] = NoConn \/ \A n \in Nodes : canon[n] = c
    BY DEF Quiet, GlareIInv, UpIsCanonical
  <2> QED
    BY <2>3, <2>4
<1> QED
  BY <1>1, GlareInvariant, PTL

\* As long as no fault happens and no dial outlives its deadline, a node closes its end
\* of a connection only while it holds another that the other node has not closed:
\* glare between two registries never leaves the nodes without a link.
THEOREM GlareSurvivor == SpecGlare => []GlareLeavesSurvivor
<1>1. GlareIInv => GlareLeavesSurvivor
  BY DEF GlareIInv, GlareLeavesSurvivor, ClosedForSurvivor, Calm, HalfClosedHasSurvivor,
         Survivor, Open
<1> QED
  BY <1>1, GlareInvariant, PTL

=============================================================================
