----------------------------- MODULE MailboxRelay -----------------------------
(***************************************************************************)
(* Mail between nodes (mailbox/deliver_or_store.mjs, mailbox/wire.mjs): a  *)
(* record is stored with its hop, sent straight to the recipient's node    *)
(* and relayed to some peers; a node asks its peers for its mail, they     *)
(* give what they have, and what the consumers took is deleted.  The store *)
(* and its file are in Timeline; here a call of the store is one step.     *)
(***************************************************************************)
EXTENDS Naturals, FiniteSets

CONSTANTS
  MailNodes,    \* nodes, all linked with each other
  Author, Addressee,
  Mails,        \* records the author publishes to the addressee
  MaxHop,       \* rows of this hop are not stored
  FanoutTrusted, FanoutNormal, WantFanout,
  MaxWants,     \* bound: requests of the addressee
  MaxExpiries   \* bound: rows that expire or are pruned

ASSUME MailAssumption ==
  /\ IsFiniteSet(MailNodes) /\ {Author, Addressee} \subseteq MailNodes
  /\ {MaxHop, FanoutTrusted, FanoutNormal, WantFanout} \subseteq Nat \ {0}
  /\ MaxWants \in Nat /\ MaxExpiries \in Nat

VARIABLES
  stored,    \* of each node: rows; via is history: the nodes a row came over
  ingest,    \* of each node: puts whose hop is resolved and which are not stored yet
  post,      \* messages under way; lost ones stay for ever
  taken,     \* of each node: what its consumers took and it has not deleted yet
  handed,    \* history: rows the consumers of the addressee got
  wants, expiries

mailVars == <<stored, ingest, post, taken, handed, wants, expiries>>

InitMail ==
  /\ stored = [n \in MailNodes |-> {}]
  /\ ingest = [n \in MailNodes |-> {}]
  /\ post = {}
  /\ taken = [n \in MailNodes |-> {}]
  /\ handed = {}
  /\ wants = 0 /\ expiries = 0

mailboxTierFromHop(hop) == CASE hop = 0 -> "trusted" [] hop = 1 -> "normal" [] OTHER -> "quarantine"

Fanout(hop) == CASE mailboxTierFromHop(hop) = "trusted" -> FanoutTrusted
                 [] mailboxTierFromHop(hop) = "normal" -> FanoutNormal
                 [] OTHER -> 0  \* allowMailboxRelayForTier

isDeliverableMailboxRecord(row) == mailboxTierFromHop(row.hop) # "quarantine"

RowsOf(n, m) == {row \in stored[n] : row.mail = m}

MailPut(row, to) == [op |-> "put", row |-> row, to |-> to]

\* deliverOrStoreMailboxPut, from storing the row to relaying it; direct are the nodes the
\* record is sent straight to, stored or not.
deliverOrStore(n, row, direct) ==
  LET new == RowsOf(n, row.mail) = {} IN
  /\ stored' = IF new THEN [stored EXCEPT ![n] = @ \cup {row}] ELSE stored
  /\ \E some \in SUBSET (MailNodes \ {n}) :
       /\ Cardinality(some) <= IF new THEN Fanout(row.hop) ELSE 0
       /\ post' = post \cup {MailPut(row, p) : p \in some \cup direct}

publishMailboxRecord(m, direct) ==
  /\ RowsOf(Author, m) = {} /\ \A msg \in post : msg.op = "put" => msg.row.mail # m
  /\ direct \subseteq {Addressee}
  /\ deliverOrStore(Author, [mail |-> m, hop |-> 0, via |-> 0], direct)
  /\ UNCHANGED <<ingest, taken, handed, wants, expiries>>

\* Mutant of relayHopAfterWireIngress: a put is stored with the hop it comes with, or 1.
relayHopAsClaimed(hop, existing) == IF hop = 0 THEN 1 ELSE hop

\* One more than the hop on the wire and than that of a row stored already.
relayHopAfterWireIngress(hop, existing) ==
  LET known == {row.hop : row \in existing}
  IN CHOOSE h \in {hop + 1} \cup {k + 1 : k \in known} : \A k \in known \cup {hop} : h >= k + 1

\* ingestMailboxPut up to the hop, which is read outside the store's mutex.
ingestMailboxPut(n, msg) ==
  LET hop == relayHopAfterWireIngress(msg.row.hop, RowsOf(n, msg.row.mail)) IN
  /\ msg \in post /\ msg.op = "put" /\ msg.to = n
  /\ post' = post \ {msg}
  /\ ingest' = IF hop >= MaxHop THEN ingest
               ELSE [ingest EXCEPT ![n] = @ \cup {[mail |-> msg.row.mail, hop |-> hop, via |-> msg.row.via + 1]}]
  /\ UNCHANGED <<stored, taken, handed, wants, expiries>>

storeIngested(n, row) ==
  /\ row \in ingest[n]
  /\ ingest' = [ingest EXCEPT ![n] = @ \ {row}]
  /\ deliverOrStore(n, row, {})
  /\ UNCHANGED <<taken, handed, wants, expiries>>

\* The addressee names the rows it holds itself.
requestMailboxFromNetwork(peers) ==
  /\ wants < MaxWants
  /\ peers \subseteq MailNodes \ {Addressee} /\ peers # {} /\ Cardinality(peers) <= WantFanout
  /\ wants' = wants + 1
  /\ post' = post \cup {[op |-> "want", ids |-> {row.mail : row \in stored[Addressee]}, to |-> p] : p \in peers}
  /\ UNCHANGED <<stored, ingest, taken, handed, expiries>>

\* Mutant of Given: quarantined rows are given, too.
GivenAll(n, ids) == {row \in stored[n] : ids = {} \/ row.mail \in ids}

\* Named rows, or all if none is named.
Given(n, ids) == {row \in stored[n] : (ids = {} \/ row.mail \in ids) /\ isDeliverableMailboxRecord(row)}

respondMailboxWant(n, msg) ==
  LET rows == Given(n, msg.ids) IN
  /\ msg \in post /\ msg.op = "want" /\ msg.to = n
  /\ post' = (post \ {msg})
       \cup (IF rows = {} THEN {} ELSE {[op |-> "give", rows |-> rows, to |-> Addressee]})
  /\ UNCHANGED <<stored, ingest, taken, handed, wants, expiries>>

\* The consumers take some of the records; what they took is deleted in a second step.
ingestMailboxGive(msg, some) ==
  /\ msg \in post /\ msg.op = "give" /\ some \subseteq msg.rows
  /\ post' = post \ {msg}
  /\ handed' = handed \cup some
  /\ taken' = [taken EXCEPT ![Addressee] = @ \cup {row.mail : row \in some}]
  /\ UNCHANGED <<stored, ingest, wants, expiries>>

deleteMailboxRecords(n) ==
  /\ taken[n] # {}
  /\ stored' = [stored EXCEPT ![n] = {row \in @ : row.mail \notin taken[n]}]
  /\ taken' = [taken EXCEPT ![n] = {}]
  /\ UNCHANGED <<ingest, post, handed, wants, expiries>>

\* A row expires, or makes room for others.
RowExpires(n, row) ==
  /\ row \in stored[n] /\ expiries < MaxExpiries
  /\ expiries' = expiries + 1
  /\ stored' = [stored EXCEPT ![n] = @ \ {row}]
  /\ UNCHANGED <<ingest, post, taken, handed, wants>>

NextMail ==
  \/ \E m \in Mails, direct \in SUBSET {Addressee} : publishMailboxRecord(m, direct)
  \/ \E n \in MailNodes :
       \/ \E msg \in post : ingestMailboxPut(n, msg) \/ respondMailboxWant(n, msg)
       \/ \E row \in ingest[n] : storeIngested(n, row)
       \/ \E row \in stored[n] : RowExpires(n, row)
       \/ deleteMailboxRecords(n)
  \/ \E peers \in SUBSET MailNodes : requestMailboxFromNetwork(peers)
  \/ \E msg \in {g \in post : g.op = "give"} : \E some \in SUBSET msg.rows : ingestMailboxGive(msg, some)

SpecMail == InitMail /\ [][NextMail]_mailVars

-----------------------------------------------------------------------------
(* Properties. *)

\* Types of the state; of one record a node stores one row.
MailTypeOK ==
  /\ \A n \in MailNodes :
       /\ \A row \in stored[n] \cup ingest[n] : row.mail \in Mails /\ row.hop \in 0..(MaxHop - 1)
       /\ \A m \in Mails : Cardinality(RowsOf(n, m)) <= 1
       /\ taken[n] \subseteq Mails
  /\ wants \in 0..MaxWants /\ expiries \in 0..MaxExpiries

\* A hop never understates how far a record has come, however puts, expiries and deletes
\* interleave; so what has come over more than one node is not relayed on, and no consumer
\* ever gets it (deliver_or_store.mjs:36-46, 85-86, 153-156, store.mjs:61-97).
MailStaysNear ==
  /\ \A n \in MailNodes : \A row \in stored[n] \cup ingest[n] : row.hop >= row.via
  /\ \A msg \in post : msg.op = "put" => msg.row.via <= 1
  /\ \A row \in handed : row.via <= 1
=============================================================================
