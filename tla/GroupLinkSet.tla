---------------------------- MODULE GroupLinkSet ----------------------------
(***************************************************************************)
(* The links of one group (transport/group_link_set.mjs): which members    *)
(* are announced to the application as joined, what start() subscribes to  *)
(* between its awaits, and what leave() takes down again.  Links come and  *)
(* go by LinkRegistry; allowNode is true of the peers here.                *)
(***************************************************************************)
EXTENDS Naturals, FiniteSets

CONSTANTS
  Others,          \* the other nodes
  InitialMembers,  \* the members the set is made with
  Listeners,       \* listeners of joins and leaves
  MaxStarts        \* bound: calls of start() that run

ASSUME GroupAssumption == InitialMembers \subseteq Others /\ MaxStarts \in Nat \ {0}

VARIABLES
  active, started,
  run,        \* each start(): the await it stands at
  members,
  up,         \* the peers the registry has a link to
  announced,  \* announcedPeers
  listening,  \* the listeners added
  told,       \* the peers each listener was told of last as joined
  held,       \* subscriptions, presences and scan timers alive, by the start that made them
  cleanups,   \* the cleanup functions registered
  scanTimer,  \* the start whose scan timer the variable scanTimer holds, or 0
  autoconnect, dialTimer,
  interest,   \* the registry holds the scope's interest
  raced       \* history: leave() came while a start() was under way, or a new listener was
              \* told of links whose end nobody hears of, or that others were not told of

groupVars == <<active, started, run, members, up, announced, listening, told, held, cleanups,
               scanTimer, autoconnect, dialTimer, interest, raced>>

Starts == 1..MaxStarts
Held == {"events", "adverts", "presence", "scan"} \X Starts

InitGroup ==
  /\ active = TRUE /\ started = FALSE
  /\ run = [n \in Starts |-> "no"]
  /\ members = InitialMembers
  /\ up = {} /\ announced = {}
  /\ listening = {}
  /\ told = [l \in Listeners |-> {}]
  /\ held = {} /\ cleanups = {}
  /\ scanTimer = 0
  /\ autoconnect = FALSE /\ dialTimer = FALSE
  /\ interest = FALSE
  /\ raced = FALSE

Underway == \E n \in Starts : run[n] \notin {"no", "done"}

\* notePeerJoin and notePeerLeave: told once, until the other comes.
Joins(ps) ==
  /\ announced' = announced \cup ps
  /\ told' = [l \in Listeners |-> IF l \in listening THEN told[l] \cup (ps \ announced) ELSE told[l]]

Leaves(p) ==
  /\ announced' = announced \ {p}
  /\ told' = [l \in Listeners |-> IF l \in listening /\ p \in announced THEN told[l] \ {p} ELSE told[l]]

\* notePeerCandidate of each of these: new ones become members, and a dial is scheduled.
Candidates(ps) ==
  /\ members' = members \cup ps
  /\ Joins(ps \cap up)
  /\ interest' = (interest \/ ~(ps \subseteq members))
  /\ dialTimer' = (dialTimer \/ (autoconnect /\ active /\ ~(ps \subseteq members)))

-----------------------------------------------------------------------------
(* start and leave. *)

Start(n) ==
  /\ ~started
  /\ run[n] = "no" /\ \A m \in 1..(n - 1) : run[m] # "no"
  /\ started' = TRUE /\ active' = TRUE
  /\ run' = [run EXCEPT ![n] = "runtime"]
  /\ UNCHANGED <<members, up, announced, listening, told, held, cleanups, scanTimer,
                 autoconnect, dialTimer, interest, raced>>

\* Mutant of Holds: the presence's stop function is not registered.
HoldsUncleaned(n, kind, pc) ==
  /\ held' = held \cup {<<kind, n>>}
  /\ cleanups' = cleanups \cup ({<<kind, n>>} \ {<<"presence", n>>})
  /\ run' = [run EXCEPT ![n] = pc]

\* The await at which start n stands is over: it holds kind, and goes on to pc, whatever
\* happened in between.
Holds(n, kind, pc) ==
  /\ held' = held \cup {<<kind, n>>}
  /\ cleanups' = cleanups \cup {<<kind, n>>}
  /\ run' = [run EXCEPT ![n] = pc]

\* ensureRuntime has returned: the interest, the scope's envelopes, link up and link down.
RuntimeReady(n) ==
  /\ run[n] = "runtime"
  /\ interest' = TRUE
  /\ Holds(n, "events", "adverts")
  /\ UNCHANGED <<active, started, members, up, announced, listening, told, scanTimer,
                 autoconnect, dialTimer, raced>>

AdvertsWatched(n) ==
  /\ run[n] = "adverts"
  /\ Holds(n, "adverts", "presence")
  /\ UNCHANGED <<active, started, members, up, announced, listening, told, scanTimer,
                 autoconnect, dialTimer, interest, raced>>

PresenceStarted(n) ==
  /\ run[n] = "presence"
  /\ Holds(n, "presence", "scan")
  /\ UNCHANGED <<active, started, members, up, announced, listening, told, scanTimer,
                 autoconnect, dialTimer, interest, raced>>

\* Mutant of Roster: only what was found by the scan joins.
NoRoster(ps) == {}

\* The roster at the end of start(): links that were there before it are joined now.
Roster(ps) == ps \cap up

\* The first scan has returned ps; the timer of the next is set, dialling begins, and the
\* members linked already are announced.
Scanned(n, ps) ==
  /\ run[n] = "scan"
  /\ Holds(n, "scan", "done")
  /\ members' = members \cup ps
  /\ Joins((ps \cap up) \cup Roster(members \cup ps))
  /\ interest' = (interest \/ ~(ps \subseteq members))
  /\ scanTimer' = n
  /\ autoconnect' = TRUE
  /\ dialTimer' = (dialTimer \/ (autoconnect /\ active /\ ~(ps \subseteq members)))
  /\ UNCHANGED <<active, started, up, listening, raced>>

\* The cleanup of a scan clears the timer that scanTimer holds, whosever it is.
Cleaned ==
  held \ (cleanups \cup IF \E n \in Starts : <<"scan", n>> \in cleanups
                        THEN {<<"scan", scanTimer>>} ELSE {})

Leave ==
  /\ active \/ started
  /\ active' = FALSE /\ started' = FALSE
  /\ autoconnect' = FALSE /\ dialTimer' = FALSE
  /\ interest' = FALSE
  /\ held' = Cleaned
  /\ cleanups' = {}
  /\ scanTimer' = IF \E n \in Starts : <<"scan", n>> \in cleanups THEN 0 ELSE scanTimer
  /\ raced' = (raced \/ Underway)
  /\ UNCHANGED <<run, members, up, announced, listening, told>>

\* startAutoconnect, by its caller or by a start() that finds the set started.
startAutoconnect ==
  /\ autoconnect' = TRUE
  /\ UNCHANGED <<active, started, run, members, up, announced, listening, told, held,
                 cleanups, scanTimer, dialTimer, interest, raced>>

stopAutoconnect ==
  /\ autoconnect' = FALSE /\ dialTimer' = FALSE
  /\ UNCHANGED <<active, started, run, members, up, announced, listening, told, held,
                 cleanups, scanTimer, interest, raced>>

-----------------------------------------------------------------------------
(* What the group hears of. *)

HearsOf(kind) == \E n \in Starts : <<kind, n>> \in held

\* A link goes up: onLinkUp tells of members only.
LinkUp(p) ==
  /\ p \notin up
  /\ up' = up \cup {p}
  /\ IF HearsOf("events") /\ p \in members THEN Joins({p}) ELSE UNCHANGED <<announced, told>>
  /\ UNCHANGED <<active, started, run, members, listening, held, cleanups, scanTimer,
                 autoconnect, dialTimer, interest, raced>>

LinkDown(p) ==
  /\ p \in up
  /\ up' = up \ {p}
  /\ IF HearsOf("events") /\ p \in members THEN Leaves(p) ELSE UNCHANGED <<announced, told>>
  /\ UNCHANGED <<active, started, run, members, listening, held, cleanups, scanTimer,
                 autoconnect, dialTimer, interest, raced>>

\* An envelope or a verified advert of p, or a later scan that sees p.
Candidate(p) ==
  /\ \/ HearsOf("events") /\ p \in up
     \/ HearsOf("adverts") \/ HearsOf("scan")
  /\ Candidates({p})
  /\ UNCHANGED <<active, started, run, up, listening, held, cleanups, scanTimer, autoconnect,
                 raced>>

\* 200 ms after a candidate: the dials are LinkRegistry's.
DialTimer ==
  /\ dialTimer
  /\ dialTimer' = FALSE
  /\ UNCHANGED <<active, started, run, members, up, announced, listening, told, held,
                 cleanups, scanTimer, autoconnect, interest, raced>>

\* onPeerJoin: the roster counts as announced from here on, and the new listener hears all.
OnPeerJoin(l) ==
  LET known == announced \cup (members \cap up)
  IN /\ l \notin listening
     /\ listening' = listening \cup {l}
     /\ announced' = known
     /\ told' = [told EXCEPT ![l] = known]
     /\ raced' = (raced \/ (known # {} /\ ~HearsOf("events")) \/ (known # announced /\ listening # {}))
     /\ UNCHANGED <<active, started, run, members, up, held, cleanups, scanTimer,
                    autoconnect, dialTimer, interest>>

NextGroup ==
  \/ \E n \in Starts :
       \/ Start(n) \/ RuntimeReady(n) \/ AdvertsWatched(n) \/ PresenceStarted(n)
       \/ \E ps \in SUBSET Others : Scanned(n, ps)
  \/ Leave \/ startAutoconnect \/ stopAutoconnect \/ DialTimer
  \/ \E p \in Others : LinkUp(p) \/ LinkDown(p) \/ Candidate(p)
  \/ \E l \in Listeners : OnPeerJoin(l)

SpecGroup == InitGroup /\ [][NextGroup]_groupVars

-----------------------------------------------------------------------------
(* Properties. *)

\* Types of the state.
GroupTypeOK ==
  /\ active \in BOOLEAN /\ started \in BOOLEAN /\ autoconnect \in BOOLEAN
  /\ dialTimer \in BOOLEAN /\ interest \in BOOLEAN /\ raced \in BOOLEAN
  /\ run \in [Starts -> {"no", "runtime", "adverts", "presence", "scan", "done"}]
  /\ members \subseteq Others /\ up \subseteq Others /\ announced \subseteq members
  /\ listening \subseteq Listeners
  /\ told \in [Listeners -> SUBSET Others]
  /\ held \subseteq Held /\ cleanups \subseteq held
  /\ scanTimer \in Starts \cup {0}

\* In the life of the first start, once it is through, and unless onPeerJoin announced what
\* it should not have (see raced): the announced peers are the members with a link, and
\* every listener has been told of exactly those (group_link_set.mjs:70-84, 224, 304-309).
JoinsFollowLinks ==
  run[1] = "done" /\ started /\ ~raced /\ (\A n \in 2..MaxStarts : run[n] = "no") =>
    /\ announced = members \cap up
    /\ \A l \in listening : told[l] = announced

\* Unless a start() was under way, leave() leaves no subscription, presence, timer or
\* interest behind, and nothing brings one back (group_link_set.mjs:237-246).
LeaveLeavesNothing == ~active /\ ~raced => held = {} /\ ~interest /\ ~dialTimer /\ scanTimer = 0

\* A group tells its listeners of exactly the members it is linked with while it runs, and
\* nothing of it runs on once it was left (group_link_set.mjs:70-84, 237-246).
GroupIsClean == JoinsFollowLinks /\ LeaveLeavesNothing
=============================================================================
