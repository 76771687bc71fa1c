---------------------------- MODULE ReputationPull ----------------------------
(***************************************************************************)
(* One node pulls the reputations of another (node/reputation_sync.mjs):   *)
(* requests and answers over the node scope, a timer for each pull that    *)
(* runs from before the request is sent, and the wire whose handlers stay  *)
(* while somebody holds them.  Messages may be lost and delayed.           *)
(***************************************************************************)
EXTENDS Naturals, FiniteSets

CONSTANTS
  Pulls,      \* calls of pullReputationFromNode
  Donor, Stranger, \* who is asked, and somebody else who answers
  MaxTables   \* bound: how often the donor's table or its allowlist changes

ASSUME PullAssumption == MaxTables \in Nat \ {0}

VARIABLES
  trustSyncDonors, allowlisted, \* the donor is one here; this node is on its allowlist
  table,      \* version of the donor's table
  holders,    \* attachments of the wire, by pulls and by the application
  appHolds,   \* the application's is among them
  pull,       \* each call: "none", "sends", "sent", "waits", "done", "failed"
  pendingPulls, \* the pulls with an entry and a running timer
  outcome,    \* what the promise of each came to: "open", "rejected" or an answer
  inTransit,  \* requests and answers
  unhandled   \* pulls whose promise was rejected while nobody awaited it

pullVars == <<trustSyncDonors, allowlisted, table, holders, appHolds, pull, pendingPulls, outcome,
              inTransit, unhandled>>
configVars == <<trustSyncDonors, allowlisted, table>>

NotYet == [st |-> "open"]
Rejected == [st |-> "rejected"]

InitPull ==
  /\ trustSyncDonors = TRUE /\ allowlisted = TRUE /\ table = 1
  /\ holders = 0 /\ appHolds = FALSE
  /\ pull = [p \in Pulls |-> "none"] /\ pendingPulls = {} /\ outcome = [p \in Pulls |-> NotYet]
  /\ inTransit = {} /\ unhandled = {}

-----------------------------------------------------------------------------
(* The node that pulls. *)

\* Up to the send: the wire is attached for good.
pullReputationFromNode(p) ==
  /\ pull[p] = "none" /\ trustSyncDonors
  /\ holders' = holders + 1
  /\ pendingPulls' = pendingPulls \cup {p}
  /\ pull' = [pull EXCEPT ![p] = "sends"]
  /\ UNCHANGED <<configVars, appHolds, outcome, inTransit, unhandled>>

\* The request goes out before the send is known to have gone well.
RequestGoes(p) ==
  /\ pull[p] = "sends"
  /\ inTransit' = inTransit \cup {[kind |-> "req", id |-> p]}
  /\ pull' = [pull EXCEPT ![p] = "sent"]
  /\ UNCHANGED <<configVars, holders, appHolds, pendingPulls, outcome, unhandled>>

\* The call returns what its promise has come to, or goes on waiting.
SendDone(p) ==
  /\ pull[p] = "sent"
  /\ pull' = [pull EXCEPT ![p] = IF outcome[p] = NotYet THEN "waits"
                                 ELSE IF outcome[p] = Rejected THEN "failed" ELSE "done"]
  /\ UNCHANGED <<configVars, holders, appHolds, pendingPulls, outcome, inTransit, unhandled>>

\* Mutant of LeftBySend: a pull whose send failed keeps its timer.
AllLeft(p) == pendingPulls

\* A send that failed clears the timer and the entry.
LeftBySend(p) == pendingPulls \ {p}

SendFailed(p) ==
  /\ pull[p] \in {"sends", "sent"}
  /\ pull' = [pull EXCEPT ![p] = "failed"]
  /\ pendingPulls' = LeftBySend(p)
  /\ UNCHANGED <<configVars, holders, appHolds, outcome, inTransit, unhandled>>


TimedOut == Rejected

PullTimer(p) ==
  /\ p \in pendingPulls
  /\ pendingPulls' = pendingPulls \ {p}
  /\ outcome' = [outcome EXCEPT ![p] = TimedOut]
  /\ pull' = [pull EXCEPT ![p] = IF @ = "waits" /\ TimedOut = Rejected THEN "failed" ELSE @]
  /\ unhandled' = IF pull[p] = "waits" THEN unhandled ELSE unhandled \cup {p}
  /\ UNCHANGED <<configVars, holders, appHolds, inTransit>>

\* Mutant of IsDonors: any peer may answer.
IsAnyones(m) == TRUE

IsDonors(m) == m.from = Donor

\* rep_sync_res, while the handlers are attached.
rep_sync_res(m) ==
  /\ m \in inTransit /\ m.kind = "res"
  /\ inTransit' = inTransit \ {m}
  /\ IF holders > 0 /\ m.id \in pendingPulls /\ IsDonors(m)
     THEN /\ pendingPulls' = pendingPulls \ {m.id}
          /\ outcome' = [outcome EXCEPT ![m.id] = [st |-> "answered", from |-> m.from, table |-> m.table]]
          /\ pull' = [pull EXCEPT ![m.id] = IF @ = "waits" THEN "done" ELSE @]
     ELSE UNCHANGED <<pendingPulls, outcome, pull>>
  /\ UNCHANGED <<configVars, holders, appHolds, unhandled>>

attachReputationSyncWire ==
  /\ ~appHolds
  /\ appHolds' = TRUE /\ holders' = holders + 1
  /\ UNCHANGED <<configVars, pull, pendingPulls, outcome, inTransit, unhandled>>

\* The application's dispose function, once.
DisposeSyncWire ==
  /\ appHolds
  /\ appHolds' = FALSE /\ holders' = holders - 1
  /\ UNCHANGED <<configVars, pull, pendingPulls, outcome, inTransit, unhandled>>

detachReputationSyncWire ==
  /\ holders > 0
  /\ holders' = 0 /\ appHolds' = FALSE
  /\ UNCHANGED <<configVars, pull, pendingPulls, outcome, inTransit, unhandled>>

-----------------------------------------------------------------------------
(* The donor, somebody else, and the settings of both. *)

\* rep_sync_req at the donor: a table goes only to those on the allowlist.
rep_sync_req(m) ==
  /\ m \in inTransit /\ m.kind = "req"
  /\ inTransit' = (inTransit \ {m}) \cup
       (IF allowlisted THEN {[kind |-> "res", id |-> m.id, from |-> Donor, table |-> table]} ELSE {})
  /\ UNCHANGED <<configVars, holders, appHolds, pull, pendingPulls, outcome, unhandled>>

StrangerAnswers(p) ==
  /\ p \in pendingPulls
  /\ inTransit' = inTransit \cup {[kind |-> "res", id |-> p, from |-> Stranger, table |-> 0]}
  /\ UNCHANGED <<configVars, holders, appHolds, pull, pendingPulls, outcome, unhandled>>

DonorChanges ==
  /\ table < MaxTables
  /\ table' = table + 1
  /\ trustSyncDonors' \in BOOLEAN /\ allowlisted' \in BOOLEAN
  /\ UNCHANGED <<holders, appHolds, pull, pendingPulls, outcome, inTransit, unhandled>>

NextPull ==
  \/ \E p \in Pulls : \/ pullReputationFromNode(p) \/ RequestGoes(p) \/ SendDone(p) \/ SendFailed(p)
                      \/ PullTimer(p) \/ StrangerAnswers(p)
  \/ \E m \in inTransit : rep_sync_req(m) \/ rep_sync_res(m)
  \/ attachReputationSyncWire \/ DisposeSyncWire \/ detachReputationSyncWire \/ DonorChanges

\* A send ends, well or not, and the timer fires.
FairPull ==
  \A p \in Pulls : /\ WF_pullVars(RequestGoes(p) \/ SendDone(p) \/ SendFailed(p))
                   /\ WF_pullVars(PullTimer(p))

SpecPull == InitPull /\ [][NextPull]_pullVars /\ FairPull

-----------------------------------------------------------------------------
(* Properties. *)

PullTypeOK ==
  /\ {trustSyncDonors, allowlisted, appHolds} \subseteq BOOLEAN /\ table \in 1..MaxTables
  /\ pull \in [Pulls -> {"none", "sends", "sent", "waits", "done", "failed"}]
  /\ pendingPulls \subseteq Pulls /\ unhandled \subseteq Pulls /\ holders \in Nat
  /\ \A p \in Pulls : outcome[p].st \in {"open", "rejected", "answered"}

\* A pull ends with a table of the donor's only, one that waits has its timer, and one that
\* has ended leaves none (reputation_sync.mjs:239-247, 272-300).
PullsAreSound ==
  \A p \in Pulls :
    /\ pull[p] = "done" => outcome[p].st = "answered" /\ outcome[p].from = Donor
    /\ pull[p] = "waits" => p \in pendingPulls
    /\ pull[p] \in {"done", "failed"} => p \notin pendingPulls

\* All pulls have ended, whether or not the donor answered (reputation_sync.mjs:272-300).
PullsEnded == \A p \in Pulls : pull[p] \in {"none", "done", "failed"}
=============================================================================
