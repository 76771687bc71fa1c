---------------------------- MODULE LocalPresence ----------------------------
(***************************************************************************)
(* Presence without relays: the multicast beacons of a local network, and  *)
(* the adverts and scans of Bluetooth.  The two share no state.            *)
(***************************************************************************)
EXTENDS Naturals, Sequences, FiniteSets

(***************************************************************************)
(* Presence in a local network (discovery/lan.mjs): beacons go out over    *)
(* one multicast socket that is made and bound when first needed, shared   *)
(* by whoever started presence, and closed with the last of them.  Scans   *)
(* bind it too without holding it.  A presence has one beacon under way at *)
(* a time.                                                                 *)
(***************************************************************************)

CONSTANTS
  Presences,     \* calls of startPresence
  Scans,         \* calls of listVisibleNodeHashes
  MaxUdpSockets, MaxBindFaults \* bounds: sockets made, binds that fail

ASSUME PresencesAssumption == IsFiniteSet(Presences)

VARIABLES
  presence,    \* each presence: "none", "on", "stopped"
  intervals,   \* presences whose interval runs
  beaconTimer, \* the presences whose interval the variable holds: one at most
  refs,        \* how many hold the socket
  udp,         \* the sockets so far: "made", "sends" (bound by a send), "bound", "closed"
  udpCurrent,  \* the socket in use, 0 for none
  bound,       \* it is taken to be bound
  bindPromise, \* the socket whose bind the promise is, 0 for no promise
  beacon,      \* what each presence's beacon awaits: "none", "advert", "bind", "lost"
  scan,        \* each scan: "none", "bind", "done", "lost"
  bindFaults,
  overlapped,  \* history: a presence started while another was on
  caught       \* history: the socket was given up while a beacon or a scan was under way

lanPresenceVars ==
  <<presence, intervals, beaconTimer, refs, udp, udpCurrent, bound, bindPromise, beacon, scan,
    bindFaults, overlapped, caught>>
socketVars == <<udp, udpCurrent, bound, bindPromise>>

InitLanPresence ==
  /\ presence = [p \in Presences |-> "none"] /\ intervals = {} /\ beaconTimer = {}
  /\ refs = 0 /\ udp = <<>> /\ udpCurrent = 0 /\ bound = FALSE /\ bindPromise = 0
  /\ beacon = [p \in Presences |-> "none"] /\ scan = [s \in Scans |-> "none"]
  /\ bindFaults = 0 /\ overlapped = FALSE /\ caught = FALSE

Waiting == \E p \in Presences : beacon[p] = "bind"
UnderWay ==
  (\E p \in Presences : beacon[p] \in {"advert", "bind"}) \/ (\E s \in Scans : scan[s] = "bind")

-----------------------------------------------------------------------------
(* The socket. *)

\* ensureBound up to its await: one promise for all who come meanwhile.
ensureBound ==
  IF bound \/ bindPromise # 0 THEN UNCHANGED socketVars
  ELSE /\ udpCurrent = 0 => Len(udp) < MaxUdpSockets
       /\ udp' = IF udpCurrent = 0 THEN Append(udp, "made") ELSE udp
       /\ udpCurrent' = IF udpCurrent = 0 THEN Len(udp) + 1 ELSE udpCurrent
       /\ bindPromise' = udpCurrent'
       /\ UNCHANGED bound

\* All who wait for the bind go on, and are done.
WaitersGoOn(answer) ==
  /\ beacon' = [p \in Presences |-> IF beacon[p] = "bind" THEN answer ELSE beacon[p]]
  /\ scan' = [s \in Scans |-> IF scan[s] = "bind"
                              THEN IF answer = "lost" THEN "lost" ELSE "done" ELSE scan[s]]

\* Mutant of Unneeded: the socket stays although nobody holds it.
NeverUnneeded == FALSE

\* Mutant of Unneeded: it is closed under the only one that holds it.
UnneededByOne == refs <= 1

\* Nobody holds the socket that has just been bound.
Unneeded == refs = 0

BindCalls ==
  /\ bindPromise # 0 /\ udp[bindPromise] = "made" /\ ~Unneeded
  /\ udp' = [udp EXCEPT ![bindPromise] = "bound"]
  /\ bound' = TRUE
  /\ WaitersGoOn("none")
  /\ UNCHANGED <<presence, intervals, beaconTimer, refs, udpCurrent, bindPromise, bindFaults,
                 overlapped, caught>>

\* It is closed again; a beacon that waited makes a socket anew, bound by its send to any port.
BindIsUnneeded ==
  /\ bindPromise # 0 /\ udp[bindPromise] = "made" /\ Unneeded
  /\ Waiting => Len(udp) < MaxUdpSockets
  /\ LET closed == [udp EXCEPT ![bindPromise] = "closed"] IN
     /\ udp' = IF Waiting THEN Append(closed, "sends") ELSE closed
     /\ udpCurrent' = IF Waiting THEN Len(udp) + 1 ELSE 0
  /\ bound' = FALSE /\ bindPromise' = 0
  /\ WaitersGoOn("none")
  /\ UNCHANGED <<presence, intervals, beaconTimer, refs, bindFaults, overlapped, caught>>

\* An error, or a socket that a send has bound already.
BindFails ==
  /\ bindPromise # 0 /\ ~bound
  /\ \/ udp[bindPromise] = "made" /\ bindFaults < MaxBindFaults /\ bindFaults' = bindFaults + 1
     \/ udp[bindPromise] = "sends" /\ UNCHANGED bindFaults
  /\ bindPromise' = 0
  /\ WaitersGoOn("none")
  /\ UNCHANGED <<presence, intervals, beaconTimer, refs, udp, udpCurrent, bound, overlapped, caught>>

-----------------------------------------------------------------------------
(* Presence. *)

startPresence(p) ==
  /\ presence[p] = "none"
  /\ overlapped' = (overlapped \/ \E q \in Presences : presence[q] = "on")
  /\ presence' = [presence EXCEPT ![p] = "on"]
  /\ refs' = refs + 1
  /\ ensureBound
  /\ beacon' = [beacon EXCEPT ![p] = "advert"]
  /\ intervals' = intervals \cup {p} /\ beaconTimer' = {p}
  /\ UNCHANGED <<scan, bindFaults, caught>>

IntervalFires(p) ==
  /\ p \in intervals /\ beacon[p] = "none"
  /\ beacon' = [beacon EXCEPT ![p] = "advert"]
  /\ UNCHANGED <<presence, intervals, beaconTimer, refs, socketVars, scan, bindFaults, overlapped,
                 caught>>

\* There is nothing to say yet.
NoAdvert(p) ==
  /\ beacon[p] = "advert"
  /\ beacon' = [beacon EXCEPT ![p] = "none"]
  /\ UNCHANGED <<presence, intervals, beaconTimer, refs, socketVars, scan, bindFaults, overlapped,
                 caught>>

\* multicastBeacon: over a bound socket the beacon goes out at once.
AdvertComes(p) ==
  /\ beacon[p] = "advert"
  /\ ensureBound
  /\ beacon' = [beacon EXCEPT ![p] = IF bound THEN "none" ELSE "bind"]
  /\ UNCHANGED <<presence, intervals, beaconTimer, refs, scan, bindFaults, overlapped, caught>>

\* Mutant of StillBound: a released socket is still taken to be bound.
KeepsBound == bound

\* What release leaves of bound when it has closed the socket.
StillBound == FALSE

\* Mutant of TimersStopped: the interval goes on.
NoTimerStopped == {}

\* The interval that a stop clears is whichever the variable holds.
TimersStopped == beaconTimer

\* A bind under way never calls back once its socket is closed.
StopPresence(p) ==
  /\ presence[p] = "on"
  /\ presence' = [presence EXCEPT ![p] = "stopped"]
  /\ intervals' = intervals \ TimersStopped /\ beaconTimer' = {}
  /\ refs' = refs - 1
  /\ IF refs > 1 \/ udpCurrent = 0 THEN UNCHANGED <<socketVars, beacon, scan>>
     ELSE /\ udp' = [udp EXCEPT ![udpCurrent] = "closed"]
          /\ udpCurrent' = 0 /\ bindPromise' = 0 /\ bound' = StillBound
          /\ WaitersGoOn("lost")
  /\ caught' = (caught \/ UnderWay)
  /\ UNCHANGED <<bindFaults, overlapped>>

listVisibleNodeHashes(s) ==
  /\ scan[s] = "none"
  /\ ensureBound
  /\ scan' = [scan EXCEPT ![s] = IF bound THEN "done" ELSE "bind"]
  /\ UNCHANGED <<presence, intervals, beaconTimer, refs, beacon, bindFaults, overlapped, caught>>

NextLanPresence ==
  \/ BindCalls \/ BindIsUnneeded \/ BindFails
  \/ \E p \in Presences : startPresence(p) \/ IntervalFires(p) \/ NoAdvert(p) \/ AdvertComes(p)
                          \/ StopPresence(p)
  \/ \E s \in Scans : listVisibleNodeHashes(s)

\* Binds call back, intervals fire, and an advert comes from time to time.
FairLanPresence ==
  /\ WF_lanPresenceVars(BindCalls \/ BindFails \/ BindIsUnneeded)
  /\ \A p \in Presences : /\ WF_lanPresenceVars(IntervalFires(p))
                          /\ SF_lanPresenceVars(AdvertComes(p))

SpecLanPresence == InitLanPresence /\ [][NextLanPresence]_lanPresenceVars /\ FairLanPresence

-----------------------------------------------------------------------------
(* Properties. *)

LanPresenceTypeOK ==
  /\ presence \in [Presences -> {"none", "on", "stopped"}]
  /\ beaconTimer \subseteq Presences /\ intervals \subseteq Presences
  /\ refs \in Nat /\ udpCurrent \in 0..Len(udp) /\ bindPromise \in 0..Len(udp)
  /\ udp \in Seq({"made", "sends", "bound", "closed"}) /\ bound \in BOOLEAN
  /\ beacon \in [Presences -> {"none", "advert", "bind", "lost"}]
  /\ scan \in [Scans -> {"none", "bind", "done", "lost"}]

\* However binds, releases, beacons and scans cross, no socket is open but the one in use: one
\* that is bound has a presence to hold it, and one taken to be bound hears.  Unless presences
\* overlapped or one was stopped while a beacon or scan was under way, no interval runs and no
\* send leaves a socket open once nobody holds or waits for one (lan.mjs:123-229, 257-283).
LanIsTidy ==
  /\ bound => udpCurrent # 0 /\ udp[udpCurrent] = "bound"
  /\ \A i \in 1..Len(udp) : /\ i # udpCurrent => udp[i] = "closed"
                            /\ udp[i] = "bound" => refs > 0
  /\ refs = 0 /\ ~UnderWay /\ ~overlapped /\ ~caught =>
       intervals = {} /\ \A i \in 1..Len(udp) : udp[i] \in {"made", "closed"}

\* A presence that stays on gets to hear beacons, if it started alone and none was caught
\* under way (lan.mjs:130-174, 257-283).
LanIsHeard == []<>(bound \/ caught \/ overlapped \/ \A p \in Presences : presence[p] # "on")

-----------------------------------------------------------------------------
(***************************************************************************)
(* Discovery over Bluetooth (discovery/bt/index.mjs), where the node both  *)
(* advertises and scans: presences and listeners for signals make the      *)
(* radio advertise, scans inspect the peripheral they find and signals are *)
(* written to it.  The radio answers in the order in which it is called.   *)
(* Advertising and scanning share no state.                                *)
(***************************************************************************)

CONSTANTS
  BtPresences, BtListeners, \* calls of startPresence, numbered as they come, and listenNodeSignals
  Seekers,                  \* calls of listVisibleNodeHashes and sendNodeSignal
  MaxRadioFaults, MaxSightings \* bounds: what fails, how often the peripheral is seen

ASSUME RadioAssumption == IsFiniteSet(Seekers) /\ BtPresences \cap BtListeners = {}

VARIABLES
  onAir,         \* each presence: "none", "starting", "on", "stopped"
  ear,           \* each listener: "none", "starting", "on", "failed", "stopped"
  localPresence, \* localNodeHash is set: the advert names the node
  heardKey,      \* signalListeners has an entry for the node
  bleno,         \* the peripheral's runtime is kept
  refreshes,     \* refreshes under way: whose, of its call or stop, and what they await
  radioCalls,    \* calls the radio has not answered yet, each a refresh
  advertisingStarted, radio, \* what the code believes, and what the radio does
  radioFaults,
  overtaken,     \* history: a presence was stopped while a refresh was under way
  scanningStarted, discovers, \* and the listeners for what a scan finds
  seeker,        \* each: "none", "lists"/"sends" (start the scan), "finds", "writes", "done", "failed"
  sightings, fresh, inspections \* how often it was seen; inspected lately; inspections since

airVars == <<onAir, ear, localPresence, heardKey, bleno, refreshes,
             radioCalls, advertisingStarted, radio, radioFaults, overtaken>>
scanVars == <<scanningStarted, discovers, seeker, sightings, fresh, inspections>>

InitAir ==
  /\ onAir = [p \in BtPresences |-> "none"] /\ ear = [l \in BtListeners |-> "none"]
  /\ localPresence = FALSE /\ heardKey = FALSE
  /\ bleno = FALSE /\ refreshes = {} /\ radioCalls = <<>>
  /\ advertisingStarted = FALSE /\ radio = FALSE /\ radioFaults = 0 /\ overtaken = FALSE

InitScan ==
  /\ scanningStarted = FALSE /\ discovers = 0 /\ seeker = [s \in Seekers |-> "none"]
  /\ sightings = 0 /\ fresh = FALSE /\ inspections = 0

-----------------------------------------------------------------------------
(* refreshAdvertising *)

Begun(who, of, at) == [who |-> who, of |-> of, at |-> at]

\* What the radio is called for, if it does not do what is wanted already.
Step(wanted) ==
  IF wanted = advertisingStarted THEN "ended" ELSE IF wanted THEN "starts" ELSE "stops"

\* A runtime that is kept is there at once.
Onward(wanted) == IF bleno THEN Step(wanted) ELSE "runtime"

Goes(r, at) ==
  /\ refreshes' = (refreshes \ {r}) \cup (IF at = "ended" THEN {} ELSE {[r EXCEPT !.at = at]})
  /\ radioCalls' = IF at \in {"starts", "stops"} THEN Append(radioCalls, [r EXCEPT !.at = at])
                   ELSE radioCalls

\* Who started with the refresh r goes on when it has ended; a listener's call fails with it.
CallerGoesOn(r, ended, well) ==
  /\ onAir' = [p \in BtPresences |->
                IF ended /\ r.who = p /\ onAir[p] = "starting" THEN "on" ELSE onAir[p]]
  /\ ear' = [l \in BtListeners |-> IF ended /\ r.who = l /\ ear[l] = "starting"
                                   THEN IF well THEN "on" ELSE "failed" ELSE ear[l]]

\* Adverts and listeners are what is to be advertised.
RuntimeReady(r) ==
  /\ r \in refreshes /\ r.at = "runtime"
  /\ bleno' = TRUE
  /\ LET at == Step(localPresence \/ heardKey) IN Goes(r, at) /\ CallerGoesOn(r, at = "ended", TRUE)
  /\ UNCHANGED <<localPresence, heardKey, advertisingStarted, radio, radioFaults, overtaken>>

\* No radio, or not powered on in time.
RuntimeFails(r) ==
  /\ r \in refreshes /\ r.at \in {"runtime", "ears"} /\ ~bleno /\ radioFaults < MaxRadioFaults
  /\ radioFaults' = radioFaults + 1
  /\ Goes(r, "ended") /\ CallerGoesOn(r, TRUE, FALSE)
  /\ UNCHANGED <<localPresence, heardKey, bleno, advertisingStarted, radio, overtaken>>

\* Mutant of AfterStop: the radio is believed to go on.
BelievedOn == advertisingStarted

\* What is believed once a stop is answered, well or not.
AfterStop == FALSE

RadioAnswers(well) ==
  /\ radioCalls # <<>>
  /\ ~well => radioFaults < MaxRadioFaults
  /\ radioFaults' = radioFaults + (IF well THEN 0 ELSE 1)
  /\ LET r == Head(radioCalls) starts == r.at = "starts" IN
     /\ radio' = IF well THEN starts ELSE radio
     /\ advertisingStarted' = IF ~starts THEN AfterStop ELSE advertisingStarted \/ well
     /\ refreshes' = refreshes \ {r} /\ CallerGoesOn(r, TRUE, well \/ ~starts)
  /\ radioCalls' = Tail(radioCalls)
  /\ UNCHANGED <<localPresence, heardKey, bleno, overtaken>>

-----------------------------------------------------------------------------
(* Presences and listeners. *)

StartOnAir(p) ==
  /\ onAir[p] = "none" /\ \A q \in BtPresences : q < p => onAir[q] # "none"
  /\ onAir' = [onAir EXCEPT ![p] = "starting"]
  /\ refreshes' = refreshes \cup {Begun(p, "call", "beacon")}
  /\ UNCHANGED <<ear, localPresence, heardKey, bleno, radioCalls,
                 advertisingStarted, radio, radioFaults, overtaken>>

RefreshTimer(p) ==
  /\ onAir[p] = "on" /\ \A r \in refreshes : r.who # p
  /\ refreshes' = refreshes \cup {Begun(p, "call", "beacon")}
  /\ UNCHANGED <<onAir, ear, localPresence, heardKey, bleno, radioCalls,
                 advertisingStarted, radio, radioFaults, overtaken>>

\* getBeacon answers, with an advert or with none.
BeaconAnswers(r, has) ==
  /\ r \in refreshes /\ r.at = "beacon"
  /\ localPresence' = (localPresence \/ has)
  /\ LET at == IF has THEN Onward(TRUE) ELSE "ended" IN
     Goes(r, at) /\ CallerGoesOn(r, at = "ended", TRUE)
  /\ UNCHANGED <<heardKey, bleno, advertisingStarted, radio, radioFaults, overtaken>>

\* Mutant of Withdrawn: the advert stays.
NotWithdrawn == localPresence

\* What a stop leaves of the advert: presences share one, under the node's hash.
Withdrawn == FALSE

StopOnAir(p) ==
  /\ onAir[p] = "on"
  /\ onAir' = [onAir EXCEPT ![p] = "stopped"]
  /\ localPresence' = Withdrawn
  /\ Goes(Begun(p, "stop", "runtime"), Onward(Withdrawn \/ heardKey))
  /\ overtaken' = (overtaken \/ refreshes # {})
  /\ UNCHANGED <<ear, heardKey, bleno, advertisingStarted, radio, radioFaults>>

\* Up to the runtime, if it is not kept.
listenNodeSignals(l) ==
  /\ ear[l] = "none"
  /\ LET r == Begun(l, "call", "ears") at == IF bleno THEN Step(TRUE) ELSE "ears" IN
     /\ Goes(r, at)
     /\ ear' = [ear EXCEPT ![l] = IF at = "ended" THEN "on" ELSE "starting"]
  /\ heardKey' = (heardKey \/ bleno)
  /\ UNCHANGED <<onAir, localPresence, bleno, advertisingStarted, radio, radioFaults, overtaken>>

EarsReady(r) ==
  /\ r \in refreshes /\ r.at = "ears"
  /\ bleno' = TRUE /\ heardKey' = TRUE
  /\ Goes(r, Step(TRUE)) /\ CallerGoesOn(r, Step(TRUE) = "ended", TRUE)
  /\ UNCHANGED <<localPresence, advertisingStarted, radio, radioFaults, overtaken>>

\* The entry stays, although it may be empty.
StopListening(l) ==
  /\ ear[l] = "on"
  /\ ear' = [ear EXCEPT ![l] = "stopped"]
  /\ Goes(Begun(l, "stop", "runtime"), Onward(TRUE))
  /\ UNCHANGED <<onAir, localPresence, heardKey, bleno, advertisingStarted, radio, radioFaults,
                 overtaken>>

-----------------------------------------------------------------------------
(* Scanning. *)

\* listVisibleNodeHashes and sendNodeSignal: several may begin to start the scan at once.
Seek(s, scanning, then) ==
  /\ seeker[s] = "none"
  /\ seeker' = [seeker EXCEPT ![s] = IF scanningStarted THEN then ELSE scanning]
  /\ UNCHANGED <<scanningStarted, discovers, sightings, fresh, inspections>>

Lists(s) == Seek(s, "lists", "done")
Sends(s) == Seek(s, "sends", "finds")

\* ensureScanRuntime: a listener is added by each, before the scan is known to have started.
ScanAnswers(s, well) ==
  /\ seeker[s] \in {"lists", "sends"}
  /\ discovers' = discovers + 1 /\ scanningStarted' = (scanningStarted \/ well)
  /\ seeker' = [seeker EXCEPT ![s] =
                 IF @ = "lists" THEN "done" ELSE IF well THEN "finds" ELSE "failed"]
  /\ UNCHANGED <<sightings, fresh, inspections>>

\* Mutant of InspectionsBegun: the peripheral is marked once it is connected, so that every
\* listener inspects it.
OnePerListener == IF fresh THEN 0 ELSE discovers

\* The peripheral is marked before anything is awaited.
InspectionsBegun == IF fresh THEN 0 ELSE 1

\* It is seen: inspected, and found by who waits for it.
Sighted ==
  /\ discovers > 0 /\ sightings < MaxSightings
  /\ sightings' = sightings + 1
  /\ inspections' = inspections + InspectionsBegun
  /\ fresh' = TRUE
  /\ seeker' = [s \in Seekers |-> IF seeker[s] = "finds" THEN "writes" ELSE seeker[s]]
  /\ UNCHANGED <<scanningStarted, discovers>>

FindsCached(s) ==
  /\ seeker[s] = "finds" /\ sightings > 0
  /\ seeker' = [seeker EXCEPT ![s] = "writes"]
  /\ UNCHANGED <<scanningStarted, discovers, sightings, fresh, inspections>>

FindDeadline(s) ==
  /\ seeker[s] = "finds"
  /\ seeker' = [seeker EXCEPT ![s] = "failed"]
  /\ UNCHANGED <<scanningStarted, discovers, sightings, fresh, inspections>>

Written(s) ==
  /\ seeker[s] = "writes"
  /\ \E well \in {"done", "failed"} : seeker' = [seeker EXCEPT ![s] = well]
  /\ UNCHANGED <<scanningStarted, discovers, sightings, fresh, inspections>>

\* PERIPHERAL_RESCAN_MS has passed.
RescanDue ==
  /\ fresh
  /\ fresh' = FALSE /\ inspections' = 0
  /\ UNCHANGED <<scanningStarted, discovers, seeker, sightings>>

NextAir ==
  \/ \E r \in refreshes : RuntimeReady(r) \/ RuntimeFails(r) \/ EarsReady(r)
  \/ \E r \in refreshes, has \in BOOLEAN : BeaconAnswers(r, has)
  \/ \E well \in BOOLEAN : RadioAnswers(well)
  \/ \E p \in BtPresences : StartOnAir(p) \/ RefreshTimer(p) \/ StopOnAir(p)
  \/ \E l \in BtListeners : listenNodeSignals(l) \/ StopListening(l)

NextScan ==
  \/ \E s \in Seekers : Lists(s) \/ Sends(s) \/ FindsCached(s) \/ FindDeadline(s) \/ Written(s)
  \/ \E s \in Seekers, well \in BOOLEAN : ScanAnswers(s, well)
  \/ Sighted \/ RescanDue

\* What a seeker waits for ends: the scan starts or not, a deadline passes, a write returns.
FairScan ==
  \A s \in Seekers : WF_scanVars(ScanAnswers(s, TRUE) \/ FindDeadline(s) \/ Written(s))

SpecAir == InitAir /\ [][NextAir]_airVars
SpecScan == InitScan /\ [][NextScan]_scanVars /\ FairScan

-----------------------------------------------------------------------------
(* Properties. *)

AirTypeOK ==
  /\ onAir \in [BtPresences -> {"none", "starting", "on", "stopped"}]
  /\ ear \in [BtListeners -> {"none", "starting", "on", "failed", "stopped"}]
  /\ Len(radioCalls) <= Cardinality(refreshes)
  /\ {localPresence, heardKey, bleno, advertisingStarted, radio} \subseteq BOOLEAN

ScanTypeOK ==
  /\ {scanningStarted, fresh} \subseteq BOOLEAN
  /\ seeker \in [Seekers -> {"none", "lists", "sends", "finds", "writes", "done", "failed"}]
  /\ inspections \in Nat /\ discovers \in 0..Cardinality(Seekers)

\* Unless a stop overtook a refresh, the advert is withdrawn with the last presence, and the
\* radio falls silent if nobody ever listened and it did not fail.  Whatever was started while
\* something else was being stopped, once all refreshes have ended a radio that did not fail
\* does what it is believed to do, so that the next refresh calls it if it must
\* (bt/index.mjs:205-221, 365-386).
AdvertFollows ==
  /\ (\A p \in BtPresences : onAir[p] \in {"none", "stopped"}) /\ ~overtaken =>
       /\ ~localPresence
       /\ refreshes = {} /\ ~heardKey /\ radioFaults = 0 => ~radio
  /\ refreshes = {} /\ radioFaults = 0 => radio = advertisingStarted

\* However many listeners a scan has, a peripheral is inspected once in a while
\* (bt/index.mjs:227-262).
InspectedOnce == inspections <= 1

\* Scans and signals have ended (bt/index.mjs:270-350).
SeekersEnded == \A s \in Seekers : seeker[s] \in {"none", "done", "failed"}
=============================================================================
