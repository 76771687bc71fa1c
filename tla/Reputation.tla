------------------------------ MODULE Reputation ------------------------------
(***************************************************************************)
(* The reputation table (node/reputation_store.mjs) and its locks          *)
(* (node/reputation_sync.mjs): every change is a mutation behind one       *)
(* mutex, saved when it is done; unlocking changes the list of locks when  *)
(* it is called and the scores when its turn comes.  Scores are integers,  *)
(* in units of the tunables.                                               *)
(***************************************************************************)
EXTENDS Integers, SequencesExt

CONSTANTS
  Rated,              \* the nodes the table is about
  Invites,            \* who invited whom: pairs of nodes
  MaxScore,           \* REP_MAX; REP_MIN is its opposite
  Imported,           \* the scores an imported table may hold
  RecidivismMax,      \* the largest factor of a repeated offence
  WantThreshold,      \* unknown wants that make an offence
  CollusionMaxHop,
  MaxCalls            \* bound: mutations asked for

\* No score: none a table may hold.
NoScore == MaxScore + 1000

ASSUME ReputationAssumption ==
  /\ IsFiniteSet(Rated) /\ MaxScore \in Nat \ {0}
  /\ Imported \subseteq Int \ {NoScore} /\ Invites \subseteq Rated \X Rated
  /\ {RecidivismMax, WantThreshold} \subseteq Nat \ {0} /\ {CollusionMaxHop, MaxCalls} \subseteq Nat

VARIABLES
  byNodeHash,  \* the row of each node
  wantHits,    \* unknown wants in the window, of each node
  bumpSeen,    \* the nodes whose relaying was rewarded lately
  lockedMax,   \* the list of locks
  lockedPrev,  \* the score each lock remembers; NoScore without one
  mutations,   \* the mutex: the mutations asked for, the holder first
  asked,       \* mutations so far
  prior        \* history: the last score of each node that no lock had set

reputationVars == <<byNodeHash, wantHits, bumpSeen, lockedMax, lockedPrev, mutations, asked, prior>>

MinScore == -MaxScore
NoRow == [known |-> FALSE, score |-> 0, streak |-> 0, credit |-> 0, bad |-> 0, quarantined |-> FALSE]

InitReputation ==
  /\ byNodeHash = [n \in Rated |-> NoRow]
  /\ wantHits = [n \in Rated |-> 0] /\ bumpSeen = {}
  /\ lockedMax = {} /\ lockedPrev = [n \in Rated |-> NoScore]
  /\ mutations = <<>> /\ asked = 0
  /\ prior = [n \in Rated |-> 0]

Least(a, b) == IF a < b THEN a ELSE b
Greatest(a, b) == IF a < b THEN b ELSE a
Clamp(x) == Least(MaxScore, Greatest(MinScore, x))

-----------------------------------------------------------------------------
(* reputation/engine.mjs, on the row of one node. *)

\* repRow: a copy with the fields it lists; the invitees and the credit are not among them.
RepRow(row) == [row EXCEPT !.known = TRUE, !.credit = 0, !.bad = 0]

\* applyRedemptionFromGain, with one unit of credit for a level of either kind.
Redeemed(row, gain) ==
  LET credit == row.credit + gain
      streak == Least(row.streak, credit)
      bad == Least(row.bad, credit - streak)
  IN [row EXCEPT !.streak = @ - streak, !.bad = @ - bad, !.credit = credit - streak - bad]

\* adjustNodeReputation
Adjusted(row, delta) ==
  LET known == [row EXCEPT !.known = TRUE]
      offence == [known EXCEPT !.streak = @ + 1,
                               !.score = Clamp(@ + delta * Least(RecidivismMax, row.streak + 2))]
  IN CASE delta < 0 -> offence
       [] delta > 0 -> [Redeemed(known, delta) EXCEPT !.score = Clamp(@ + delta)]
       [] OTHER -> known

\* observeBehaviorSample, and the quarantine of an anomaly.
Observed(row, anomaly) == [RepRow(row) EXCEPT !.quarantined = @ \/ anomaly]

\* computeRepMaxEff and subjectiveSlashPenalty of a claim of strength 1.
SlashPenalty(sender, verified) ==
  LET best == {byNodeHash[n].score : n \in {o \in Rated : byNodeHash[o].score > 0}}
      top == Clamp(CHOOSE s \in best : \A r \in best : r <= s)
  IN IF verified THEN 1
     ELSE IF byNodeHash[sender].score <= 0 THEN 0
     ELSE byNodeHash[sender].score \div top

\* applyDecayCollusionAfterSlash: who invited the target, who invited those, and so on.
Upstream(target) ==
  LET up[hop \in 0..CollusionMaxHop] ==
        IF hop = 0 THEN {target} ELSE {edge[1] : edge \in {e \in Invites : e[2] \in up[hop - 1]}}
  IN up

Blamed(rows, nodes) ==
  [n \in Rated |->
     IF n \notin nodes THEN rows[n]
     ELSE LET row == [rows[n] EXCEPT !.bad = @ + 1] IN Adjusted(row, -row.bad)]

Decayed(target) ==
  LET rows[hop \in 0..CollusionMaxHop] ==
        IF hop = 0 THEN byNodeHash ELSE Blamed(rows[hop - 1], Upstream(target)[hop])
  IN rows[CollusionMaxHop]

-----------------------------------------------------------------------------
(* Mutations. *)

Mutators == {"relay", "serve", "fail", "want", "rate", "observe", "slash", "collusion", "reset",
           "seed", "table", "lock"}

\* mutateReputation: behind those that came before.
Mutate(kind, n) ==
  /\ asked < MaxCalls
  /\ asked' = asked + 1
  /\ mutations' = Append(mutations, [kind |-> kind, who |-> n, restore |-> NoScore])
  /\ UNCHANGED <<byNodeHash, wantHits, bumpSeen, lockedMax, lockedPrev, prior>>

\* unlockReputationMax: the lock and what it remembers go at once, the score comes back later.
Unlock(n) ==
  /\ asked < MaxCalls
  /\ asked' = asked + 1
  /\ lockedMax' = lockedMax \ {n}
  /\ lockedPrev' = [lockedPrev EXCEPT ![n] = NoScore]
  /\ mutations' = Append(mutations, [kind |-> "unlock", who |-> n, restore |-> lockedPrev[n]])
  /\ UNCHANGED <<byNodeHash, wantHits, bumpSeen, prior>>

SetRow(n, row) == byNodeHash' = [byNodeHash EXCEPT ![n] = row]

\* What the first of the queue does to the rows, to the windows, and to the locks.
Mutates(kind, n, restore) ==
  \/ /\ kind \in {"relay", "serve", "fail"}
     /\ SetRow(n, CASE kind = "fail" -> Adjusted(byNodeHash[n], -1)
                    [] kind = "relay" /\ n \in bumpSeen -> byNodeHash[n]
                    [] OTHER -> Adjusted(byNodeHash[n], 1))
     /\ bumpSeen' = IF kind = "relay" THEN bumpSeen \cup {n} ELSE bumpSeen
     /\ UNCHANGED <<wantHits, lockedMax, lockedPrev>>
  \/ /\ kind = "want"
     /\ SetRow(n, IF wantHits[n] + 1 >= WantThreshold THEN Adjusted(byNodeHash[n], -1) ELSE byNodeHash[n])
     /\ wantHits' = [wantHits EXCEPT ![n] = (@ + 1) % WantThreshold]
     /\ UNCHANGED <<bumpSeen, lockedMax, lockedPrev>>
  \/ /\ kind \in {"rate", "observe"}
     /\ \E anomaly \in BOOLEAN :
          SetRow(n, Observed(IF kind = "rate" THEN Adjusted(byNodeHash[n], -1) ELSE byNodeHash[n], anomaly))
     /\ UNCHANGED <<wantHits, bumpSeen, lockedMax, lockedPrev>>
  \/ /\ kind = "slash"
     /\ \E sender \in Rated, verified \in BOOLEAN :
          SetRow(n, Adjusted(byNodeHash[n], -SlashPenalty(sender, verified)))
     /\ UNCHANGED <<wantHits, bumpSeen, lockedMax, lockedPrev>>
  \/ /\ \/ kind = "collusion" /\ byNodeHash' = Decayed(n)
        \/ kind = "reset" /\ SetRow(n, [RepRow(byNodeHash[n]) EXCEPT !.score = 0, !.streak = 0])
        \/ /\ kind = "seed"
           /\ \E introducer \in Rated :
                SetRow(n, IF byNodeHash[n].known THEN byNodeHash[n]
                          ELSE [NoRow EXCEPT !.known = TRUE,
                                             !.score = Clamp(byNodeHash[introducer].score \div 2)])
     /\ UNCHANGED <<wantHits, bumpSeen, lockedMax, lockedPrev>>
  \/ /\ kind = "unlock"
     /\ SetRow(n, IF restore = NoScore THEN byNodeHash[n]
                  ELSE [byNodeHash[n] EXCEPT !.known = TRUE, !.score = restore])
     /\ UNCHANGED <<wantHits, bumpSeen, lockedMax, lockedPrev>>

\* lockReputationMax remembers the score the first time only.
Remembers(n) == n \notin lockedMax

\* applyLocksToReputation
WithLocks(rows, locks) ==
  [o \in Rated |-> IF o \in locks THEN [rows[o] EXCEPT !.known = TRUE, !.score = MaxScore] ELSE rows[o]]

\* setReputationTable, which does not clamp, and lockReputationMax: both end with the locks.
MutatesWithLocks(kind, n) ==
  \/ /\ kind = "table"
     /\ \E s \in Imported :
          byNodeHash' = WithLocks([byNodeHash EXCEPT ![n] = [@ EXCEPT !.known = TRUE, !.score = s]], lockedMax)
     /\ UNCHANGED <<wantHits, bumpSeen, lockedMax, lockedPrev>>
  \/ /\ kind = "lock"
     /\ lockedMax' = lockedMax \cup {n}
     /\ lockedPrev' = IF Remembers(n) THEN [lockedPrev EXCEPT ![n] = byNodeHash[n].score] ELSE lockedPrev
     /\ byNodeHash' = WithLocks(byNodeHash, lockedMax')
     /\ UNCHANGED <<wantHits, bumpSeen>>

\* The nodes whose scores the queue is to restore.
Unlocking(q) == {q[i].who : i \in {j \in DOMAIN q : q[j].restore # NoScore}}

\* The holder of the mutex mutates the table and saves it, without an await in between.
RunMutation ==
  /\ mutations # <<>>
  /\ LET m == Head(mutations)
     IN Mutates(m.kind, m.who, m.restore) \/ MutatesWithLocks(m.kind, m.who)
  /\ mutations' = Tail(mutations)
  /\ prior' = [n \in Rated |-> IF n \in lockedMax' \/ n \in Unlocking(mutations')
                              THEN prior[n] ELSE byNodeHash'[n].score]
  /\ UNCHANGED asked

\* The windows are over, for what they still count.
WindowsPass ==
  /\ wantHits # [n \in Rated |-> 0] \/ bumpSeen # {}
  /\ wantHits' = [n \in Rated |-> 0] /\ bumpSeen' = {}
  /\ UNCHANGED <<byNodeHash, lockedMax, lockedPrev, mutations, asked, prior>>

\* The process ends: what waits is lost, and a lock may be saved without its score.
CrashReputation ==
  /\ mutations # <<>>
  /\ mutations' = <<>>
  /\ LET m == Head(mutations)
     IN \/ UNCHANGED <<lockedMax, lockedPrev>>
        \/ /\ m.kind = "lock"
           /\ lockedMax' = lockedMax \cup {m.who}
           /\ lockedPrev' = IF Remembers(m.who)
                            THEN [lockedPrev EXCEPT ![m.who] = byNodeHash[m.who].score]
                            ELSE lockedPrev
  /\ UNCHANGED <<byNodeHash, wantHits, bumpSeen, asked, prior>>

NextReputation ==
  \/ \E n \in Rated : Unlock(n) \/ \E kind \in Mutators : Mutate(kind, n)
  \/ RunMutation
  \/ WindowsPass
  \/ CrashReputation

SpecReputation == InitReputation /\ [][NextReputation]_reputationVars

-----------------------------------------------------------------------------
(* Properties. *)

\* Types of the state.
ReputationTypeOK ==
  /\ \A n \in Rated :
       /\ byNodeHash[n].score \in MinScore..MaxScore \cup Imported
       /\ {byNodeHash[n].streak, byNodeHash[n].credit, byNodeHash[n].bad} \subseteq Nat
       /\ wantHits[n] \in 0..(WantThreshold - 1)
       /\ lockedPrev[n] = NoScore <=> n \notin lockedMax
  /\ bumpSeen \subseteq Rated /\ lockedMax \subseteq Rated
  /\ asked \in 0..MaxCalls /\ Len(mutations) <= asked

\* "unlock restores the pre-lock score" (docs/infra.md:12, reputation_sync.mjs:114): once an
\* unlock has had its turn the node has the last score that no lock had set.
UnlockRestores ==
  [][\A n \in Rated :
       RunMutation /\ Head(mutations).kind = "unlock" /\ Head(mutations).who = n
       => byNodeHash'[n].score = prior[n]]_reputationVars
=============================================================================
