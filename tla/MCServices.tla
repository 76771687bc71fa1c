----------------------------- MODULE MCServices ------------------------------
(***************************************************************************)
(* One run for the modules of services that share no state: a behaviour    *)
(* is one of the chosen component, and the others stay as they start.      *)
(***************************************************************************)
EXTENDS GroupLinkSet, MeshKeepalive, FrameReassembly, RelayBook, Timeline, PartQuery,
  Overlay, FetchTable, Reputation, ChunkStore, MailboxRelay, NostrDiscovery,
  RegistryShutdown, EnvelopeDispatch, PeerPools

\* A triangle: answers come back over two ways of different length.
MCEdges == {<<1, 2>>, <<2, 1>>, <<1, 3>>, <<3, 1>>, <<2, 3>>, <<3, 2>>}

\* Two ways of different length lead to the one neighbour of the target.
MCWires == MCEdges \cup {<<3, 4>>, <<4, 3>>}

MCInvites == {<<1, 2>>}

\* One node is better reputed than the others.
MCScores == [id \in Known |-> IF id = 2 THEN 2 ELSE 1]

VARIABLE component

servicesVars ==
  <<component, groupVars, meshVars, frameVars, bookVars, timelineVars, jsonlVars,
    queryVars, overlayVars, fetchVars, reputationVars, chunkVars, mailVars, discoveryVars, publishVars,
    shutdownVars, dispatchVars, scopeVars, poolVars>>

InitServices ==
  /\ component \in {"group", "mesh", "frames", "book", "timeline", "jsonl", "query",
                    "overlay", "fetch", "reputation", "chunks", "mail", "discovery", "publish",
                    "shutdown", "dispatch", "scope", "pools"}
  /\ InitGroup /\ InitMesh /\ InitFrames /\ InitBook /\ InitTimeline /\ InitJsonl
  /\ InitQuery /\ InitOverlay /\ InitFetch /\ InitReputation /\ InitChunks /\ InitMail
  /\ InitDiscovery /\ InitPublish /\ InitShutdown /\ InitDispatch /\ InitScope /\ InitPools
  /\ component # "query" => \A n \in Nodes : cached[n] = {}

NextServices ==
  /\ UNCHANGED component
  /\ \/ component = "group" /\ NextGroup
     \/ component = "mesh" /\ NextMesh
     \/ component = "frames" /\ NextFrames
     \/ component = "book" /\ NextBook
     \/ component = "timeline" /\ NextTimeline
     \/ component = "jsonl" /\ NextJsonl
     \/ component = "query" /\ NextQuery
     \/ component = "overlay" /\ NextOverlay
     \/ component = "fetch" /\ NextFetch
     \/ component = "reputation" /\ NextReputation
     \/ component = "chunks" /\ NextChunks
     \/ component = "mail" /\ NextMail
     \/ component = "discovery" /\ NextDiscovery
     \/ component = "publish" /\ NextPublish
     \/ component = "shutdown" /\ NextShutdown
     \/ component = "dispatch" /\ NextDispatch
     \/ component = "scope" /\ NextScope
     \/ component = "pools" /\ NextPools
  /\ component # "group" => UNCHANGED groupVars
  /\ component # "mesh" => UNCHANGED meshVars
  /\ component # "frames" => UNCHANGED frameVars
  /\ component # "book" => UNCHANGED bookVars
  /\ component # "timeline" => UNCHANGED timelineVars
  /\ component # "jsonl" => UNCHANGED jsonlVars
  /\ component # "query" => UNCHANGED queryVars
  /\ component # "overlay" => UNCHANGED overlayVars
  /\ component # "fetch" => UNCHANGED fetchVars
  /\ component # "reputation" => UNCHANGED reputationVars
  /\ component # "chunks" => UNCHANGED chunkVars
  /\ component # "mail" => UNCHANGED mailVars
  /\ component # "discovery" => UNCHANGED discoveryVars
  /\ component # "publish" => UNCHANGED publishVars
  /\ component # "shutdown" => UNCHANGED shutdownVars
  /\ component # "dispatch" => UNCHANGED dispatchVars
  /\ component # "scope" => UNCHANGED scopeVars
  /\ component # "pools" => UNCHANGED poolVars

SpecServices == InitServices /\ [][NextServices]_servicesVars

ServicesTypeOK ==
  /\ component = "group" => GroupTypeOK
  /\ component = "mesh" => MeshTypeOK
  /\ component = "frames" => FramesTypeOK
  /\ component = "book" => BookTypeOK
  /\ component = "timeline" => TimelineTypeOK
  /\ component = "jsonl" => JsonlTypeOK
  /\ component = "query" => QueryTypeOK
  /\ component = "overlay" => OverlayTypeOK
  /\ component = "fetch" => FetchTypeOK
  /\ component = "reputation" => ReputationTypeOK
  /\ component = "chunks" => ChunksTypeOK
  /\ component = "mail" => MailTypeOK
  /\ component = "discovery" => DiscoveryTypeOK
  /\ component = "publish" => PublishTypeOK
  /\ component = "shutdown" => ShutdownTypeOK
  /\ component = "dispatch" => DispatchTypeOK
  /\ component = "scope" => ScopeTypeOK
  /\ component = "pools" => PoolsTypeOK

-----------------------------------------------------------------------------
(* Properties of components that are checked together. *)

\* Whom to dial, in the mesh and in a group, and what is kept of who is known
\* (node/network.mjs, transport/peer_pool.mjs).
PoolsAreFair == component = "pools" => MeshTargetsFit /\ GroupTargetsFit /\ PoolsKeep

\* Discovery listens for all who ask, and tells publishers what the relays said
\* (discovery/nostr/index.mjs:228-261, 305-570).
DiscoveryServes == DiscoveryHolds /\ PublishTellsTruth

\* What is answered over several nodes is sound: routes are paths without loops, and early
\* answers leave nobody out (overlay/index.mjs, part_query/runtime.mjs).
AnswersAreSound == RoutesAreSound /\ EarlyAnswersAreWhole

\* What is shared by a key or an id is done once: one fetch per key, one delivery per
\* message (inflight_table.mjs, frame.mjs).
DoneOnce == OneFetchPerKey /\ DeliveredOnce

\* The log of a timeline stays: its order is topological, and rows whose write returned are
\* in the file (dag_order_cache.mjs, dag/storage.mjs).
LogStays == OrderIsTopological /\ ReturnedRowsStay

\* Envelopes reach listeners only past their authorizers, over handlers that are attached
\* while anybody holds them (link_registry.mjs:548-580, features.mjs:40-166).
ScopesServe == EnvelopesAreVetted /\ FeaturesServe
=============================================================================
