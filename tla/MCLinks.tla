------------------------------- MODULE MCLinks -------------------------------
(***************************************************************************)
(* One run for the modules about connections, presence and what a node is  *)
(* told, which share no state: a behaviour is one of the chosen component, *)
(* and the others stay as they start.                                      *)
(***************************************************************************)
EXTENDS LinkPipe, SharedRelay, RuntimeBootstrap, WebRtcLink, LanTcp, LocalPresence, NodeLists,
  CensusMonitor, ReputationPull, RelayRouting, PublicFiles, BleGatt

\* Both ends have a ladder of two rungs.
MCLadderTop == [e \in RtcEnds |-> 1]

\* The frames of a dialer that bursts out link-open, hello and auth.
MCFrameBytes == <<2, 1, 2>>

\* An envelope pinned to the control channel, whatever its priority, and an urgent one that
\* the size decides about.
MCActions == {[priority |-> 5, pinned |-> TRUE], [priority |-> 0, pinned |-> FALSE]}

\* A node denied everywhere and one denied in a group, and an entity.
MCEntries == {[scope |-> "node", value |-> 1, group |-> "*"], [scope |-> "node", value |-> 1, group |-> "g"],
              [scope |-> "entity", value |-> 1, group |-> "*"]}

\* Two entities of one person.
MCPersonOf == [a \in Authors |-> 1]

\* The third relay is the nearest.
MCRtt == [r \in PoolRelays |-> (r % 3) + 1]

\* The second relay is at an address that is not public.
MCPeerClaims == {<<1, 3>>, <<3, 2>>}

\* The second content has the part of the first, and one more.
MCPartsOf == [p \in Publications |-> 1..p]

VARIABLE component

linksVars ==
  <<component, pipeVars, relayVars, bootVars, rtcVars, sessionVars, lanVars, channelVars,
    lanPresenceVars, airVars, scanVars, denyVars, personalVars, censusVars, pullVars,
    routingVars, fileVars, streamVars, gattVars>>

InitLinks ==
  /\ component \in {"pipe", "relay", "boot", "rtc", "sessions", "lan", "channels",
                    "lanpresence", "air", "scan", "deny", "personal", "census", "pull",
                    "routing", "files", "streams", "gatt"}
  /\ InitPipe /\ InitRelay /\ InitBoot /\ InitRtc /\ InitSessions /\ InitLan
  /\ InitChannels /\ InitLanPresence /\ InitAir /\ InitScan /\ InitDeny /\ InitPersonal
  /\ InitCensus /\ InitPull /\ InitRouting /\ InitFiles /\ InitStreams /\ InitGatt

NextLinks ==
  /\ UNCHANGED component
  /\ \/ component = "pipe" /\ NextPipe
     \/ component = "relay" /\ NextRelay
     \/ component = "boot" /\ NextBoot
     \/ component = "rtc" /\ NextRtc
     \/ component = "sessions" /\ NextSessions
     \/ component = "lan" /\ NextLan
     \/ component = "channels" /\ NextChannels
     \/ component = "lanpresence" /\ NextLanPresence
     \/ component = "air" /\ NextAir
     \/ component = "scan" /\ NextScan
     \/ component = "deny" /\ NextDeny
     \/ component = "personal" /\ NextPersonal
     \/ component = "census" /\ NextCensus
     \/ component = "pull" /\ NextPull
     \/ component = "routing" /\ NextRouting
     \/ component = "files" /\ NextFiles
     \/ component = "streams" /\ NextStreams
     \/ component = "gatt" /\ NextGatt
  /\ component # "pipe" => UNCHANGED pipeVars
  /\ component # "relay" => UNCHANGED relayVars
  /\ component # "boot" => UNCHANGED bootVars
  /\ component # "rtc" => UNCHANGED rtcVars
  /\ component # "sessions" => UNCHANGED sessionVars
  /\ component # "lan" => UNCHANGED lanVars
  /\ component # "channels" => UNCHANGED channelVars
  /\ component # "lanpresence" => UNCHANGED lanPresenceVars
  /\ component # "air" => UNCHANGED airVars
  /\ component # "scan" => UNCHANGED scanVars
  /\ component # "deny" => UNCHANGED denyVars
  /\ component # "personal" => UNCHANGED personalVars
  /\ component # "census" => UNCHANGED censusVars
  /\ component # "pull" => UNCHANGED pullVars
  /\ component # "routing" => UNCHANGED routingVars
  /\ component # "files" => UNCHANGED fileVars
  /\ component # "streams" => UNCHANGED streamVars
  /\ component # "gatt" => UNCHANGED gattVars

\* The fairness of each module; where another component was chosen its initial state
\* enables none of these actions.
SpecLinks ==
  /\ InitLinks /\ [][NextLinks]_linksVars
  /\ FairnessPipe /\ FairRelay /\ FairBoot /\ FairRtc /\ FairLan /\ FairLanPresence
  /\ FairScan /\ FairPull /\ FairRouting /\ FairFiles /\ FairGatt

LinksTypeOK ==
  /\ component = "pipe" => PipeTypeOK
  /\ component = "relay" => RelayTypeOK
  /\ component = "boot" => BootTypeOK
  /\ component = "rtc" => RtcTypeOK
  /\ component = "sessions" => SessionsTypeOK
  /\ component = "lan" => LanTypeOK
  /\ component = "channels" => ChannelsTypeOK
  /\ component = "lanpresence" => LanPresenceTypeOK
  /\ component = "air" => AirTypeOK
  /\ component = "scan" => ScanTypeOK
  /\ component = "deny" => DenyTypeOK
  /\ component = "personal" => PersonalTypeOK
  /\ component = "census" => CensusTypeOK
  /\ component = "pull" => PullTypeOK
  /\ component = "routing" => RoutingTypeOK
  /\ component = "files" => FilesTypeOK
  /\ component = "streams" => StreamsTypeOK
  /\ component = "gatt" => GattTypeOK

-----------------------------------------------------------------------------
(* Properties of components that are checked together. *)

\* What goes over a socket or a data channel arrives whole and in order, and never waits for
\* an event that does not come; what goes over relays takes the routes that worked, and
\* tries all there are (lan_tcp.mjs:54-348, channel_mux.mjs:115-205, selection.mjs,
\* relays.mjs:626-713, 878-1036); links by Bluetooth are with whom they say, though all share one
\* characteristic (ble_gatt.mjs:70-302); and a file that is cut while it arrives is the file that was
\* sent, a prefix of which is all a reader gets of it (assemble_stream.mjs:25-181).
TransportsCarry == LanIsSound /\ QueuesNeverStall /\ RoutingIsSound /\ GattIsSound /\ StreamsAreWhole

\* What calls the node is attached once, and can be ended: discovery's listeners until the
\* first shutdown, the multicast socket and its timers, the Bluetooth advert, and the
\* inspection of what a scan finds (runtime_bootstrap.mjs:230-360, lan.mjs:123-283,
\* bt/index.mjs:205-386).
ListenersAreHeld == HeldListeners /\ LanIsTidy /\ AdvertFollows /\ InspectedOnce

\* Signals reach the session they are for, and an answer the rung it was asked on
\* (offer_answer.mjs:25-166, webrtc.mjs:255-640).
HandshakesAreClean == LadderIsClean /\ SignalsAreHeard

\* What a node keeps about others is what it was told: whom it denies or hides, the
\* reputations it pulled, and the census (denylist.mjs, personal_block.mjs,
\* reputation_sync.mjs:239-300, census_monitor.mjs).
ReportsHold == DenyHolds /\ PersonalListsHold /\ PullsAreSound /\ CensusIsSound

=============================================================================
