------------------------------ MODULE RelayBook ------------------------------
(***************************************************************************)
(* What a node remembers of its Nostr relays (discovery/nostr/relays.mjs): *)
(* the pool with its statistics, its size cap, the throttled file, and the *)
(* relays that last reached one peer (discovery/nostr/selection.mjs).      *)
(* Probes, publishes, discovery rounds and adverts end in any order.       *)
(***************************************************************************)
EXTENDS Naturals, FiniteSets, SequencesExt

CONSTANTS
  Relays,      \* the relay URLs
  Seeds,       \* those of them that are public defaults: pinned
  PoolCap, LastGoodMax,
  Rtts, DefaultRtt, MaxRtt,
  FailureWeight, StaleAfter,
  MaxTicks,    \* bound: milliseconds that pass
  MaxAttempts  \* bound: probes and publishes that end

ASSUME BookAssumption ==
  /\ Seeds \subseteq Relays
  /\ {PoolCap, LastGoodMax, DefaultRtt, MaxRtt, FailureWeight, StaleAfter} \subseteq Nat \ {0}
  /\ Rtts \subseteq 1..MaxRtt /\ MaxTicks \in Nat /\ MaxAttempts \in Nat

VARIABLES
  now,
  pool,      \* the entries, by URL
  found,     \* relays a discovery round has probed, that it adds when its batch is over
  claimed,   \* relays of an advert whose address is being looked up
  lastGood,  \* lastGoodNostrRelays of a peer
  disk,      \* what the file holds
  dirty, flushTimer,
  attempts,
  latest,      \* history: how the last attempt at a relay ended, where the pool knows of it
  overwritten, \* history: relays a discovery round stamped after the probe it had made
  lost         \* history: a write has failed since the last that succeeded

bookVars == <<now, pool, found, claimed, lastGood, disk, dirty, flushTimer, attempts, latest,
              overwritten, lost>>

\* rtt 0 is null; the other times are 0 when never.
Fresh == [rtt |-> 0, ok |-> 0, bad |-> 0, lastOk |-> 0, lastBad |-> 0, probe |-> 0,
          pubOk |-> 0, pubBad |-> 0]

Larger(a, b) == IF a >= b THEN a ELSE b

\* Write r's entry e.
Put(book, r, e) == [k \in DOMAIN book \cup {r} |-> IF k = r THEN e ELSE book[k]]

\* ensureEntry: no cap here.
EntryOf(r) == IF r \in DOMAIN pool THEN pool[r] ELSE Fresh

Seeded(book) == [r \in DOMAIN book \cup Seeds |-> IF r \in DOMAIN book THEN book[r] ELSE Fresh]

InitBook ==
  /\ now = StaleAfter + 1
  /\ pool = Seeded(<<>>)
  /\ found = {} /\ claimed = {}
  /\ lastGood = <<>>
  /\ disk = [pool |-> <<>>, lastGood |-> <<>>]
  /\ dirty = TRUE /\ flushTimer = TRUE
  /\ attempts = 0
  /\ latest = [r \in Relays |-> "none"]
  /\ overwritten = {} /\ lost = FALSE

\* latestAttemptFailed, in an entry that has failed at all.
Failed(e) == e.bad > 0 /\ (e.ok = 0 \/ e.lastBad >= e.lastOk)

\* computeRelayHealth: the lower the better.  The quotient is kept exact by the factor 12
\* for up to four attempts.
Health(e) ==
  LET total == e.ok + e.bad
      rtt == IF Failed(e) THEN MaxRtt ELSE IF e.rtt = 0 THEN DefaultRtt ELSE e.rtt
      rate == IF Failed(e) THEN 12 ELSE IF total = 0 THEN 0 ELSE (12 * e.bad) \div total
      stale == IF now - e.probe > StaleAfter THEN 2 ELSE 1
  IN rtt * (12 + rate * FailureWeight) * stale

\* recordProbeSuccess and recordProbeFailure: stamps grow even within a millisecond.
Stamp(e) == Larger(now, e.probe + 1)
\* Mutant of Succeeded: the success is stamped with the clock alone.
SucceededNow(e, rtt) ==
  [e EXCEPT !.ok = @ + 1, !.lastOk = now, !.probe = now, !.rtt = IF rtt = 0 THEN @ ELSE rtt]
Succeeded(e, rtt) ==
  [e EXCEPT !.ok = @ + 1, !.lastOk = Stamp(e), !.probe = Stamp(e),
            !.rtt = IF rtt = 0 THEN @ ELSE rtt]
Missed(e) ==
  [e EXCEPT !.bad = @ + 1, !.lastBad = Stamp(e), !.probe = Stamp(e), !.rtt = 0]

\* enforcePoolCap: of the entries sorted by health, from the first on.
Evictions(book) ==
  LET free == DOMAIN book \ Seeds
      surplus == IF Cardinality(DOMAIN book) > PoolCap THEN Cardinality(DOMAIN book) - PoolCap ELSE 0
      count == IF surplus > Cardinality(free) THEN Cardinality(free) ELSE surplus
  IN {out \in SUBSET free :
        Cardinality(out) = count /\ \A r \in out, k \in free \ out : Health(book[r]) <= Health(book[k])}

\* Mutant of Saves: no timer is set.
SavesUntimed == dirty' = TRUE /\ UNCHANGED flushTimer

\* markDirty: the timer of a write is set unless one is.
Saves == dirty' = TRUE /\ flushTimer' = TRUE

\* upsertRelay: entry e for r, after which the pool is cut to its cap.
Upsert(r, e) ==
  /\ \E out \in Evictions(Put(pool, r, e)) :
       /\ pool' = [k \in (DOMAIN pool \cup {r}) \ out |-> Put(pool, r, e)[k]]
       /\ latest' = [k \in Relays |-> IF k \in out THEN "none" ELSE latest[k]]
  /\ Saves

-----------------------------------------------------------------------------
(* Attempts. *)

TimePasses ==
  /\ now < StaleAfter + 1 + MaxTicks
  /\ now' = now + 1
  /\ UNCHANGED <<pool, found, claimed, lastGood, disk, dirty, flushTimer, attempts, latest,
                 overwritten, lost>>

Attempted(r, outcome) ==
  /\ attempts < MaxAttempts
  /\ attempts' = attempts + 1
  /\ latest' = [latest EXCEPT ![r] = outcome]
  /\ Saves
  /\ UNCHANGED <<now, claimed, disk, overwritten, lost>>

\* probeRelay, in a discovery round or after an advert.
ProbeSucceeds(r, rtt, inRound) ==
  /\ Attempted(r, "ok")
  /\ pool' = Put(pool, r, Succeeded(EntryOf(r), rtt))
  /\ found' = IF inRound THEN found \cup {r} ELSE found
  /\ UNCHANGED lastGood

ProbeFails(r) ==
  /\ Attempted(r, "failed")
  /\ pool' = Put(pool, r, Missed(EntryOf(r)))
  /\ UNCHANGED <<found, lastGood>>

\* recordPeerRouteLastGood: the first LastGoodMax of old and new.
Kept(urls, r) == SubSeq(IF r \in Range(urls) THEN urls ELSE Append(urls, r), 1,
                        IF Len(urls) >= LastGoodMax THEN LastGoodMax
                        ELSE Len(urls) + (IF r \in Range(urls) THEN 0 ELSE 1))

\* A publish through r is accepted: recordPublishResult, and for a routed one the route.
PublishAccepted(r, routed) ==
  LET e == EntryOf(r)
  IN /\ Attempted(r, "ok")
     /\ pool' = Put(pool, r, Succeeded([e EXCEPT !.pubOk = Larger(now, e.pubBad + 1)], 0))
     /\ lastGood' = IF routed THEN Kept(lastGood, r) ELSE lastGood
     /\ UNCHANGED found

PublishRefused(r) ==
  LET e == EntryOf(r)
  IN /\ Attempted(r, "failed")
     /\ pool' = Put(pool, r, Missed([e EXCEPT !.pubBad = Larger(now, e.pubOk + 1)]))
     /\ UNCHANGED <<found, lastGood>>

-----------------------------------------------------------------------------
(* Discovery and adverts add entries. *)

\* The batch of a discovery round is over: what it found is stamped now, whatever came since.
RoundAdds(r, rtt) ==
  LET e == EntryOf(r)
  IN /\ r \in found
     /\ found' = found \ {r}
     /\ Upsert(r, [e EXCEPT !.rtt = rtt, !.lastOk = now, !.probe = now])
     /\ overwritten' = overwritten \cup {r}
     /\ UNCHANGED <<now, claimed, lastGood, disk, attempts, lost>>

\* capturePeerRelayFields: r is looked at before its address is looked up, and added after.
AdvertNames(r) ==
  /\ r \notin DOMAIN pool
  /\ claimed' = claimed \cup {r}
  /\ UNCHANGED <<now, pool, found, lastGood, disk, dirty, flushTimer, attempts, latest,
                 overwritten, lost>>

AdvertAdds(r, rtt) ==
  /\ r \in claimed
  /\ claimed' = claimed \ {r}
  /\ Upsert(r, [EntryOf(r) EXCEPT !.rtt = rtt])
  /\ UNCHANGED <<now, found, lastGood, disk, attempts, overwritten, lost>>

-----------------------------------------------------------------------------
(* The file. *)

\* The two seconds are over: flushRelayState clears dirty first, and ignores a failure.
Flush(written) ==
  /\ flushTimer
  /\ flushTimer' = FALSE /\ dirty' = FALSE
  /\ IF written
     THEN disk' = [pool |-> pool, lastGood |-> lastGood] /\ lost' = FALSE
     ELSE lost' = (lost \/ dirty) /\ UNCHANGED disk
  /\ UNCHANGED <<now, pool, found, claimed, lastGood, attempts, latest, overwritten>>

\* ensureRuntime after a shutdown loads the file again, and a crash forgets what was under way.
Load(crashed) ==
  /\ pool' = Seeded(disk.pool)
  /\ lastGood' = disk.lastGood
  /\ latest' = [r \in Relays |->
       IF r \in DOMAIN disk.pool /\ r \in DOMAIN pool /\ disk.pool[r] = pool[r]
       THEN latest[r] ELSE "none"]
  /\ found' = IF crashed THEN {} ELSE found
  /\ claimed' = IF crashed THEN {} ELSE claimed
  /\ Saves
  /\ UNCHANGED <<now, disk, attempts, overwritten, lost>>

NextBook ==
  \/ TimePasses
  \/ \E r \in Relays :
       \/ \E rtt \in Rtts, inRound \in BOOLEAN : ProbeSucceeds(r, rtt, inRound)
       \/ ProbeFails(r)
       \/ \E routed \in BOOLEAN : PublishAccepted(r, routed)
       \/ PublishRefused(r)
       \/ \E rtt \in Rtts : RoundAdds(r, rtt) \/ AdvertAdds(r, rtt)
       \/ AdvertNames(r)
  \/ \E written \in BOOLEAN : Flush(written)
  \/ \E crashed \in BOOLEAN : Load(crashed)

SpecBook == InitBook /\ [][NextBook]_bookVars

-----------------------------------------------------------------------------
(* Properties. *)

Entries == [rtt : Nat, ok : Nat, bad : Nat, lastOk : Nat, lastBad : Nat, probe : Nat,
            pubOk : Nat, pubBad : Nat]

\* Types of the state; the seeds are always there, and the peer's list keeps its bound.
BookTypeOK ==
  /\ DOMAIN pool \subseteq Relays /\ Seeds \subseteq DOMAIN pool
  /\ \A r \in DOMAIN pool : pool[r] \in Entries
  /\ found \subseteq Relays /\ claimed \subseteq Relays
  /\ Len(lastGood) <= LastGoodMax
  /\ latest \in [Relays -> {"none", "ok", "failed"}]
  /\ overwritten \subseteq Relays

\* However attempts fall in one millisecond, an entry counts as failed exactly when the last
\* attempt at its relay failed (relays.mjs:276-278, 534-577), but where a discovery
\* round stamped an older probe over it (relays.mjs:917-926).
LatestAttemptDecides ==
  \A r \in DOMAIN pool \ overwritten :
    latest[r] # "none" => (Failed(pool[r]) <=> latest[r] = "failed")

\* What the file does not hold is about to be written, unless a write has failed
\* (relays.mjs:335-359).
SavedOrScheduled == [pool |-> pool, lastGood |-> lastGood] # disk /\ ~lost => dirty /\ flushTimer

\* The book is true to the last attempt at each relay, and the file follows the book
\* (relays.mjs:276-278, 335-359, 534-577).
PoolIsTrue == LatestAttemptDecides /\ SavedOrScheduled

\* What relays.mjs:515 and its test say: the cap evicts the worst of the entries that are
\* not pinned.
WorstEvicted ==
  [][\A r \in Relays, rtt \in Rtts : RoundAdds(r, rtt) \/ AdvertAdds(r, rtt) =>
       \A out \in DOMAIN pool \ DOMAIN pool', k \in DOMAIN pool' \ (Seeds \cup {r}) :
         Health(pool[k]) <= Health(pool[out])]_bookVars

\* What selection.mjs:160 says: the relays that reached the peer last are kept.
LatestGoodKept ==
  [][\A r \in Relays : PublishAccepted(r, TRUE) => r \in Range(lastGood')]_bookVars
=============================================================================
