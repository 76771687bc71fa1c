--------------------------- MODULE Services_proofs ---------------------------
(***************************************************************************)
(* Proofs about the services over links together: the run which checks     *)
(* them together checks each of them, so that what holds of a component,   *)
(* as Peers_proofs and Traffic_proofs prove, holds in it.                  *)
(***************************************************************************)
EXTENDS MCServices, Peers_proofs, Traffic_proofs

\* Every behaviour of the services is one of each component.
LEMMA ServicesAreComponents ==
  SpecServices => /\ SpecGroup /\ SpecMesh /\ SpecFrames /\ SpecBook /\ SpecTimeline
                  /\ SpecJsonl /\ SpecQuery /\ SpecOverlay /\ SpecFetch /\ SpecReputation
                  /\ SpecChunks /\ SpecMail /\ SpecDiscovery /\ SpecPublish /\ SpecShutdown
                  /\ SpecDispatch /\ SpecScope /\ SpecPools
<1>1. InitServices => /\ InitGroup /\ InitMesh /\ InitFrames /\ InitBook /\ InitTimeline
                      /\ InitJsonl /\ InitQuery /\ InitOverlay /\ InitFetch /\ InitReputation
                      /\ InitChunks /\ InitMail /\ InitDiscovery /\ InitPublish /\ InitShutdown
                      /\ InitDispatch /\ InitScope /\ InitPools
  BY Zenon DEF InitServices
<1>2. [NextServices]_servicesVars => [NextGroup]_groupVars
  BY Zenon DEF NextServices, servicesVars
<1>3. [NextServices]_servicesVars => [NextMesh]_meshVars
  BY Zenon DEF NextServices, servicesVars
<1>4. [NextServices]_servicesVars => [NextFrames]_frameVars
  BY Zenon DEF NextServices, servicesVars
<1>5. [NextServices]_servicesVars => [NextBook]_bookVars
  BY Zenon DEF NextServices, servicesVars
<1>6. [NextServices]_servicesVars => [NextTimeline]_timelineVars
  BY Zenon DEF NextServices, servicesVars
<1>7. [NextServices]_servicesVars => [NextJsonl]_jsonlVars
  BY Zenon DEF NextServices, servicesVars
<1>8. [NextServices]_servicesVars => [NextQuery]_queryVars
  BY Zenon DEF NextServices, servicesVars
<1>9. [NextServices]_servicesVars => [NextOverlay]_overlayVars
  BY Zenon DEF NextServices, servicesVars
<1>10. [NextServices]_servicesVars => [NextFetch]_fetchVars
  BY Zenon DEF NextServices, servicesVars
<1>11. [NextServices]_servicesVars => [NextReputation]_reputationVars
  BY Zenon DEF NextServices, servicesVars
<1>12. [NextServices]_servicesVars => [NextChunks]_chunkVars
  BY Zenon DEF NextServices, servicesVars
<1>13. [NextServices]_servicesVars => [NextMail]_mailVars
  BY Zenon DEF NextServices, servicesVars
<1>14. [NextServices]_servicesVars => [NextDiscovery]_discoveryVars
  BY Zenon DEF NextServices, servicesVars
<1>15. [NextServices]_servicesVars => [NextPublish]_publishVars
  BY Zenon DEF NextServices, servicesVars
<1>16. [NextServices]_servicesVars => [NextShutdown]_shutdownVars
  BY Zenon DEF NextServices, servicesVars
<1>17. [NextServices]_servicesVars => [NextDispatch]_dispatchVars
  BY Zenon DEF NextServices, servicesVars
<1>18. [NextServices]_servicesVars => [NextScope]_scopeVars
  BY Zenon DEF NextServices, servicesVars
<1>19. [NextServices]_servicesVars => [NextPools]_poolVars
  BY Zenon DEF NextServices, servicesVars
<1> QED
  BY <1>1, <1>2, <1>3, <1>4, <1>5, <1>6, <1>7, <1>8, <1>9, <1>10, <1>11, <1>12,
     <1>13, <1>14, <1>15, <1>16, <1>17, <1>18, <1>19, PTL
  DEF SpecServices, SpecGroup, SpecMesh, SpecFrames, SpecBook, SpecTimeline, SpecJsonl,
      SpecQuery, SpecOverlay, SpecFetch, SpecReputation, SpecChunks, SpecMail,
      SpecDiscovery, SpecPublish, SpecShutdown, SpecDispatch, SpecScope, SpecPools

\* What is shared by a key or an id is done once (inflight_table.mjs, frame.mjs).
THEOREM ServicesDoOnce == SpecServices => []DoneOnce
<1>1. OneFetchPerKey /\ DeliveredOnce => DoneOnce
  BY DEF DoneOnce
<1> QED
  BY <1>1, ServicesAreComponents, FetchSound, FramesSound, PTL

\* Discovery listens for all who ask, and tells publishers what the relays said
\* (discovery/nostr/index.mjs:228-261, 305-570).
THEOREM ServicesDiscover == SpecServices => []DiscoveryServes
<1>1. DiscoveryHolds /\ PublishTellsTruth => DiscoveryServes
  BY DEF DiscoveryServes
<1> QED
  BY <1>1, ServicesAreComponents, DiscoverySound, PublishSound, PTL

\* What is answered over several nodes is sound: routes are walks without loops, and early
\* answers leave nobody out (overlay/index.mjs, part_query/runtime.mjs).
THEOREM ServicesAnswer == SpecServices => []AnswersAreSound
<1>1. RoutesAreSound /\ EarlyAnswersAreWhole => AnswersAreSound
  BY DEF AnswersAreSound
<1> QED
  BY <1>1, ServicesAreComponents, OverlaySound, QuerySound, PTL

\* Envelopes reach listeners only past their authorizers, over handlers that are attached
\* while anybody holds them (link_registry.mjs:548-580, features.mjs:40-166).
THEOREM ServicesVet == SpecServices => []ScopesServe
<1>1. EnvelopesAreVetted /\ FeaturesServe => ScopesServe
  BY DEF ScopesServe
<1> QED
  BY <1>1, ServicesAreComponents, DispatchSound, ScopeSound, PTL

\* Logs keep what was returned as written, in an order that has parents first
\* (dag/storage.mjs:216-284, federation/dag_order_cache.mjs:21-71).
THEOREM ServicesLog == SpecServices => []LogStays
<1>1. OrderIsTopological /\ ReturnedRowsStay => LogStays
  BY DEF LogStays
<1> QED
  BY <1>1, ServicesAreComponents, OrderSound, RowsStay, PTL

\* Whom to dial, in the mesh and in a group, is chosen fairly of those known, and what is kept
\* of who is known stays within its bounds (transport/peer_pool.mjs, node/network.mjs).
THEOREM ServicesPool == SpecServices => []PoolsAreFair
<1>1. MeshTargetsFit /\ GroupTargetsFit /\ PoolsKeep => PoolsAreFair
  BY DEF PoolsAreFair
<1> QED
  BY <1>1, ServicesAreComponents, PoolsFair, PTL

\* The variables of the chosen component keep their shape, as all others do.
THEOREM ServicesTyped == SpecServices => []ServicesTypeOK
<1>1. /\ GroupTypeOK /\ MeshTypeOK /\ FramesTypeOK /\ BookTypeOK /\ TimelineTypeOK
      /\ JsonlTypeOK /\ QueryTypeOK /\ OverlayTypeOK /\ FetchTypeOK /\ ReputationTypeOK
      /\ ChunksTypeOK /\ MailTypeOK /\ DiscoveryTypeOK /\ PublishTypeOK /\ ShutdownTypeOK
      /\ DispatchTypeOK /\ ScopeTypeOK /\ PoolsTypeOK
      => ServicesTypeOK
  BY Zenon DEF ServicesTypeOK
<1> QED
  BY <1>1, ServicesAreComponents, GroupTyped, MeshTyped, FramesTyped, BookTyped, TimelineTyped,
     JsonlTyped, QueryTyped, OverlayTyped, FetchTyped, ReputationTyped,
     ChunksTyped, MailTyped, DiscoveryTyped, PublishTyped, ShutdownTyped,
     DispatchFormed, ScopeTyped, PoolsTyped, PTL
=============================================================================
