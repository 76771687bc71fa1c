---------------------------- MODULE CensusMonitor ----------------------------
(***************************************************************************)
(* The population monitor (discovery/nostr/census_monitor.mjs): sockets to *)
(* relays that reconnect, census events whose verification is awaited and  *)
(* may end in any order, rounds that discover more relays, and a stop that *)
(* may come while any of these is under way.  A time stamp is a natural    *)
(* number; expired are those below the floor, which rises.                 *)
(***************************************************************************)
EXTENDS Naturals, FiniteSets

CONSTANTS
  MonitorRelays, \* relays that may be listened to
  Configured,    \* those to start with
  Voters,        \* nodes whose census events come
  MaxStamp,      \* bound: time stamps are 1..MaxStamp
  MaxMonitored, MaxVerifying, \* relays, and verifications of one relay at a time
  MaxDrops       \* bound: connections that break

ASSUME CensusAssumption == Configured \subseteq MonitorRelays /\ MaxStamp \in Nat

VARIABLES
  stopped,
  sessions,     \* the relays with a session
  ws,           \* the socket of each: "none", "connecting", "open"
  reconnectTimer, \* the relays whose reconnection is scheduled
  events,       \* per relay and node the time stamp of its event, 0 for none
  verifying,    \* events under verification: relay, node, stamp
  refreshDebounce, \* a refresh is scheduled
  discovering,  \* a round of discovery is under way
  floor, drops,
  newest,       \* history: the newest event verified per relay and node
  shownLate     \* history: onUpdate was called after stop

censusVars == <<stopped, sessions, ws, reconnectTimer, events, verifying, refreshDebounce,
                discovering, floor, drops, newest, shownLate>>

Nothing == [r \in MonitorRelays |-> [n \in Voters |-> 0]]

\* createPopulationMonitor
InitCensus ==
  /\ stopped = FALSE /\ sessions = Configured
  /\ ws = [r \in MonitorRelays |-> IF r \in Configured THEN "connecting" ELSE "none"]
  /\ reconnectTimer = {} /\ events = Nothing /\ verifying = {}
  /\ refreshDebounce = FALSE /\ discovering = TRUE /\ floor = 1 /\ drops = 0
  /\ newest = Nothing /\ shownLate = FALSE

-----------------------------------------------------------------------------
(* Sockets. *)

MonitorOpens(r) ==
  /\ ws[r] = "connecting"
  /\ ws' = [ws EXCEPT ![r] = "open"]
  /\ UNCHANGED <<stopped, sessions, reconnectTimer, events, verifying, refreshDebounce, discovering,
                 floor, drops, newest, shownLate>>

\* Closed by the relay, by an error or by the timer of the connection; scheduleReconnect.
MonitorCloses(r) ==
  /\ ws[r] # "none" /\ drops < MaxDrops
  /\ drops' = drops + 1
  /\ ws' = [ws EXCEPT ![r] = "none"]
  /\ reconnectTimer' = reconnectTimer \cup {r}
  /\ UNCHANGED <<stopped, sessions, events, verifying, refreshDebounce, discovering, floor, newest,
                 shownLate>>

\* connectSession by the timer.  The constructor of the socket may throw: nobody catches that
\* there, and the session stays with neither a socket nor a timer.
ReconnectDue(r) ==
  /\ r \in reconnectTimer
  /\ reconnectTimer' = reconnectTimer \ {r}
  /\ \/ ws' = [ws EXCEPT ![r] = "connecting"]
     \/ UNCHANGED ws
  /\ UNCHANGED <<stopped, sessions, events, verifying, refreshDebounce, discovering, floor, drops,
                 newest, shownLate>>

-----------------------------------------------------------------------------
(* Events. *)

\* handleRelayMessage: with too many under verification it is dropped.
CensusComes(r, n, at) ==
  /\ ws[r] = "open"
  /\ Cardinality({v \in verifying : v.relay = r}) < MaxVerifying
  /\ verifying' = verifying \cup {[relay |-> r, node |-> n, at |-> at]}
  /\ UNCHANGED <<stopped, sessions, ws, reconnectTimer, events, refreshDebounce, discovering, floor,
                 drops, newest, shownLate>>

\* Mutant of Supersedes: the last to be verified stays.
LastSupersedes(at, existing) == TRUE

\* An event that is older than the one kept does not replace it.
Supersedes(at, existing) == at >= existing

\* Mutant of MayRefresh: a stop does not count.
AlwaysRefresh == TRUE

MayRefresh == ~stopped

\* The relay's session may be gone: what it keeps is not looked at any more.
Verified(v) ==
  /\ v \in verifying
  /\ verifying' = verifying \ {v}
  /\ IF Supersedes(v.at, events[v.relay][v.node])
     THEN /\ events' = [events EXCEPT ![v.relay][v.node] = IF stopped THEN @ ELSE v.at]
          /\ refreshDebounce' = (refreshDebounce \/ MayRefresh)
     ELSE UNCHANGED <<events, refreshDebounce>>
  /\ newest' = [newest EXCEPT ![v.relay][v.node] = IF v.at > @ /\ ~stopped THEN v.at ELSE @]
  /\ UNCHANGED <<stopped, sessions, ws, reconnectTimer, discovering, floor, drops, shownLate>>

NotVerified(v) ==
  /\ v \in verifying
  /\ verifying' = verifying \ {v}
  /\ UNCHANGED <<stopped, sessions, ws, reconnectTimer, events, refreshDebounce, discovering, floor,
                 drops, newest, shownLate>>

TimePasses ==
  /\ floor <= MaxStamp
  /\ floor' = floor + 1
  /\ UNCHANGED <<stopped, sessions, ws, reconnectTimer, events, verifying, refreshDebounce,
                 discovering, drops, newest, shownLate>>

\* refresh: expired events are thrown out and the largest estimate is shown.
refresh ==
  /\ events' = [r \in MonitorRelays |-> [n \in Voters |->
                  IF events[r][n] < floor THEN 0 ELSE events[r][n]]]
  /\ shownLate' = (shownLate \/ stopped)
  /\ UNCHANGED <<stopped, sessions, ws, reconnectTimer, verifying, discovering, floor, drops, newest>>

DebounceEnds == refreshDebounce /\ refreshDebounce' = FALSE /\ refresh
RefreshDue == ~stopped /\ UNCHANGED refreshDebounce /\ refresh

-----------------------------------------------------------------------------
(* Discovery and stop. *)

DiscoveryDue ==
  /\ ~stopped /\ ~discovering
  /\ discovering' = TRUE
  /\ UNCHANGED <<stopped, sessions, ws, reconnectTimer, events, verifying, refreshDebounce, floor,
                 drops, newest, shownLate>>

\* Mutant of Admitted: a round that began before the stop goes on.
AdmittedLate(found) == IF Cardinality(sessions \cup found) <= MaxMonitored THEN found \ sessions ELSE {}

\* The candidates that get a session, in the order in which they were found, up to the cap.
Admitted(found) ==
  IF ~stopped /\ Cardinality(sessions \cup found) <= MaxMonitored THEN found \ sessions ELSE {}

\* runDiscovery; which of the candidates come first is not said, so found is what fits.  A
\* constructor that throws ends the round: the candidate it threw for, the last one with a
\* session, has no socket.
DiscoveryEnds(found) ==
  /\ discovering
  /\ discovering' = FALSE
  /\ sessions' = sessions \cup Admitted(found)
  /\ \E thrown \in {{}} \cup {{r} : r \in Admitted(found)} :
       ws' = [r \in MonitorRelays |->
                IF r \in Admitted(found) \ thrown /\ ~stopped THEN "connecting" ELSE ws[r]]
  /\ UNCHANGED <<stopped, reconnectTimer, events, verifying, refreshDebounce, floor, drops, newest,
                 shownLate>>

StopMonitor ==
  /\ ~stopped
  /\ stopped' = TRUE /\ sessions' = {} /\ reconnectTimer' = {} /\ refreshDebounce' = FALSE
  /\ ws' = [r \in MonitorRelays |-> "none"]
  /\ events' = Nothing /\ newest' = Nothing
  /\ UNCHANGED <<verifying, discovering, floor, drops, shownLate>>

NextCensus ==
  \/ \E r \in MonitorRelays : MonitorOpens(r) \/ MonitorCloses(r) \/ ReconnectDue(r)
  \/ \E r \in MonitorRelays, n \in Voters, at \in 1..MaxStamp : CensusComes(r, n, at)
  \/ \E v \in verifying : Verified(v) \/ NotVerified(v)
  \/ TimePasses \/ DebounceEnds \/ RefreshDue \/ DiscoveryDue \/ StopMonitor
  \/ \E found \in SUBSET MonitorRelays : DiscoveryEnds(found)

SpecCensus == InitCensus /\ [][NextCensus]_censusVars

-----------------------------------------------------------------------------
(* Properties. *)

CensusTypeOK ==
  /\ {stopped, refreshDebounce, discovering, shownLate} \subseteq BOOLEAN
  /\ sessions \subseteq MonitorRelays /\ reconnectTimer \subseteq MonitorRelays
  /\ ws \in [MonitorRelays -> {"none", "connecting", "open"}]
  /\ events \in [MonitorRelays -> [Voters -> 0..MaxStamp]]
  /\ verifying \subseteq [relay : MonitorRelays, node : Voters, at : 1..MaxStamp]

\* The event kept of a node is the newest that was verified, whatever the order in which the
\* verifications end, unless that one has expired; only a session has a socket or a reconnection
\* that is due, and never both; and what was under way when the monitor stopped neither makes a
\* session nor reports (census_monitor.mjs:140-241, 266-295, 368-385).  That a session keeps
\* one of the two is not so: see ReconnectDue and DiscoveryEnds.
CensusIsSound ==
  /\ \A r \in sessions, n \in Voters :
       events[r][n] # 0 => events[r][n] = newest[r][n] \/ newest[r][n] < floor
  /\ \A r \in MonitorRelays : ws[r] # "none" => r \in sessions \ reconnectTimer
  /\ reconnectTimer \subseteq sessions
  /\ stopped => sessions = {} /\ ~shownLate
=============================================================================
