--------------------------- MODULE EnvelopeDispatch ---------------------------
(***************************************************************************)
(* Envelopes on their way to the listeners of a scope                      *)
(* (transport/link_registry.mjs, dispatchEnvelope): every authorizer whose *)
(* prefix fits is asked, then every listener is called, each awaited while *)
(* others register and unregister.  Authorizers registered before the      *)
(* registry exists wait in a list.  One scope, which all prefixes fit.     *)
(***************************************************************************)
EXTENDS Naturals, Sequences, FiniteSets

CONSTANTS
  ScopePrefixes,         \* prefixes of the scope
  MaxAuthorizers,   \* bound: authorizers registered
  MaxListeners,     \* bound: listeners subscribed
  MaxEnvelopes      \* bound: envelopes that arrive

ASSUME DispatchBoundsAssumption == {MaxAuthorizers, MaxListeners, MaxEnvelopes} \subseteq Nat

VARIABLES
  created,      \* the registry exists
  authorizer,   \* the authorizers so far: prefix, and whether its owner has unregistered it
  pendingScopeAuthorizers, \* those that wait for it, in the order of their numbers
  scopeAuthorizers, \* the map in the order of its keys; 0 where an entry was deleted
  subscription, \* the listeners so far: "on" or "off"
  scopeListeners,
  envelope,     \* the envelopes so far: what is awaited, the place in the map, who approved, who got it
  usurped       \* history: authorizers removed by the unregister function of another

dispatchVars == <<created, authorizer, pendingScopeAuthorizers, scopeAuthorizers,
                  subscription, scopeListeners, envelope, usurped>>

InitDispatch ==
  /\ created = FALSE
  /\ authorizer = <<>> /\ pendingScopeAuthorizers = {} /\ scopeAuthorizers = <<>>
  /\ subscription = <<>> /\ scopeListeners = <<>>
  /\ envelope = <<>>
  /\ usurped = {}

Listed(map) == {map[i] : i \in DOMAIN map} \ {0}
After(map, at) == {i \in DOMAIN map : i > at /\ map[i] # 0}
\* authorizer' has the one being registered, too.
AtPrefix(map, p) == {i \in DOMAIN map : map[i] # 0 /\ authorizer'[map[i]].prefix = p}

\* Map.set: in the place of the same key, or at the end.
SetIn(map, a) ==
  LET same == AtPrefix(map, authorizer'[a].prefix)
  IN IF same = {} THEN Append(map, a) ELSE [map EXCEPT ![CHOOSE i \in same : TRUE] = a]

\* Those that waited, one after the other.
PutAll(map, as) ==
  LET f[i \in 0..Len(authorizer)] ==
        IF i = 0 THEN map ELSE IF i \in as THEN SetIn(f[i - 1], i) ELSE f[i - 1]
  IN f[Len(authorizer)]

\* Mutant of Deleted: later entries move up, as in an array.
DeletedBySplice(map, gone) == SelectSeq(map, LAMBDA x : x \notin gone)

\* Deleting from a map or a set moves nothing that an iterator has yet to come to.
Deleted(map, gone) == [i \in DOMAIN map |-> IF map[i] \in gone THEN 0 ELSE map[i]]

registerScopeAuthorizer(p) ==
  LET a == Len(authorizer) + 1 IN
  /\ Len(authorizer) < MaxAuthorizers
  /\ authorizer' = Append(authorizer, [prefix |-> p, held |-> TRUE])
  /\ IF created
     THEN /\ scopeAuthorizers' = SetIn(scopeAuthorizers, a)
          /\ UNCHANGED pendingScopeAuthorizers
     ELSE /\ pendingScopeAuthorizers' = pendingScopeAuthorizers \cup {a}
          /\ UNCHANGED scopeAuthorizers
  /\ UNCHANGED <<created, subscription, scopeListeners, envelope, usurped>>

\* The function that registration returned, once or again: it deletes by prefix.
unregister(a) ==
  /\ authorizer' = [authorizer EXCEPT ![a].held = FALSE]
  /\ LET gone == {scopeAuthorizers[i] : i \in AtPrefix(scopeAuthorizers, authorizer[a].prefix)} IN
     /\ scopeAuthorizers' = Deleted(scopeAuthorizers, gone)
     /\ usurped' = usurped \cup (gone \ {a})
  /\ pendingScopeAuthorizers' = pendingScopeAuthorizers \ {a}
  /\ UNCHANGED <<created, subscription, scopeListeners, envelope>>

getLinkRegistry ==
  /\ ~created
  /\ created' = TRUE
  /\ UNCHANGED authorizer
  /\ scopeAuthorizers' = PutAll(scopeAuthorizers, pendingScopeAuthorizers)
  /\ pendingScopeAuthorizers' = {}
  /\ UNCHANGED <<subscription, scopeListeners, envelope, usurped>>

subscribeScope ==
  /\ created /\ Len(subscription) < MaxListeners
  /\ subscription' = Append(subscription, "on")
  /\ scopeListeners' = Append(scopeListeners, Len(subscription) + 1)
  /\ UNCHANGED <<created, authorizer, pendingScopeAuthorizers, scopeAuthorizers, envelope, usurped>>

unsubscribe(l) ==
  /\ subscription[l] = "on"
  /\ subscription' = [subscription EXCEPT ![l] = "off"]
  /\ scopeListeners' = Deleted(scopeListeners, {l})
  /\ UNCHANGED <<created, authorizer, pendingScopeAuthorizers, scopeAuthorizers, envelope, usurped>>

\* asks and tells are history: the authorizers and listeners there when it arrived.
dispatchEnvelope ==
  /\ created /\ Len(envelope) < MaxEnvelopes
  /\ envelope' = Append(envelope,
       [st |-> "asks", at |-> 0, awaited |-> 0, approved |-> {}, got |-> {},
        asks |-> Listed(scopeAuthorizers), tells |-> Listed(scopeListeners)])
  /\ UNCHANGED <<created, authorizer, pendingScopeAuthorizers, scopeAuthorizers, subscription,
                 scopeListeners, usurped>>

\* The next entry of the map is called and awaited, or the loop is over.
Calls(e, map, next) ==
  LET rest == After(map, envelope[e].at) IN
  IF rest = {} THEN envelope' = [envelope EXCEPT ![e].st = next, ![e].at = 0]
  ELSE \E i \in rest :
         /\ \A k \in rest : i <= k
         /\ envelope' = [envelope EXCEPT ![e].at = i, ![e].awaited = map[i],
              ![e].got = IF envelope[e].st = "tells" THEN @ \cup {map[i]} ELSE @]

Dispatches(e) ==
  /\ envelope[e].awaited = 0
  /\ \/ envelope[e].st = "asks" /\ Calls(e, scopeAuthorizers, "tells")
     \/ envelope[e].st = "tells" /\ Calls(e, scopeListeners, "done")
  /\ UNCHANGED <<created, authorizer, pendingScopeAuthorizers, scopeAuthorizers, subscription,
                 scopeListeners, usurped>>

\* An authorizer that refuses, and either that throws, end it.
EntryAnswers(e, ok) ==
  /\ envelope[e].awaited # 0
  /\ envelope' = [envelope EXCEPT ![e].awaited = 0,
       ![e].st = IF ok THEN @ ELSE IF @ = "asks" THEN "refused" ELSE "threw",
       ![e].approved = IF ok /\ envelope[e].st = "asks" THEN @ \cup {envelope[e].awaited} ELSE @]
  /\ UNCHANGED <<created, authorizer, pendingScopeAuthorizers, scopeAuthorizers, subscription,
                 scopeListeners, usurped>>

NextDispatch ==
  \/ \E p \in ScopePrefixes : registerScopeAuthorizer(p)
  \/ \E a \in DOMAIN authorizer : unregister(a)
  \/ getLinkRegistry \/ subscribeScope \/ dispatchEnvelope
  \/ \E l \in DOMAIN subscription : unsubscribe(l)
  \/ \E e \in DOMAIN envelope : Dispatches(e) \/ \E ok \in BOOLEAN : EntryAnswers(e, ok)

SpecDispatch == InitDispatch /\ [][NextDispatch]_dispatchVars

-----------------------------------------------------------------------------
(* Properties. *)

\* Types of the state; an authorizer waits or is in force, not both.
DispatchTypeOK ==
  /\ Listed(scopeAuthorizers) \subseteq DOMAIN authorizer
  /\ Listed(scopeListeners) = {l \in DOMAIN subscription : subscription[l] = "on"}
  /\ pendingScopeAuthorizers \cap Listed(scopeAuthorizers) = {}
  /\ created => pendingScopeAuthorizers = {}

\* The newest authorizer of its prefix that its owner holds, if no other removed it.
InForce(a) ==
  /\ authorizer[a].held /\ a \notin usurped
  /\ \A b \in DOMAIN authorizer : b > a => authorizer[b].prefix # authorizer[a].prefix

\* However authorizers and listeners come and go between the awaits, no listener is told
\* before every authorizer that stayed since the envelope came has approved it, each
\* listener that stayed is told if none refuses or throws, and an authorizer held by its
\* owner is in force, registered before the registry or after (link_registry.mjs:548-580,
\* 803-879).
EnvelopesAreVetted ==
  /\ \A e \in DOMAIN envelope :
       /\ envelope[e].got # {} =>
            envelope[e].asks \cap Listed(scopeAuthorizers) \subseteq envelope[e].approved
       /\ envelope[e].st = "done" => envelope[e].tells \cap Listed(scopeListeners) \subseteq envelope[e].got
       /\ envelope[e].st = "refused" => envelope[e].got = {}
  /\ created => \A a \in DOMAIN authorizer : InForce(a) => a \in Listed(scopeAuthorizers)

-----------------------------------------------------------------------------
(***************************************************************************)
(* The node scope and the user room on it (transport/node_scope/wire.mjs,  *)
(* features.mjs, transport/user_room.mjs): features attach their handlers  *)
(* to one wire and are counted, the room attaches them once more for its   *)
(* callers, and everything may be stopped and begun again.  One feature    *)
(* stands for each of the presets.                                         *)
(***************************************************************************)

CONSTANTS
  Disposers,   \* attachments of the feature by its users, and their dispose functions
  Callers,     \* calls of ensureUserRoom
  MaxStops     \* bound: stops of the node scope

\* The room's dispose function, "wires", is no user's.
ASSUME StopsAssumption == MaxStops \in Nat /\ IsFiniteSet(Disposers) /\ "wires" \notin Disposers

VARIABLES
  scope,      \* "off", "on", or "muted": nodeScopeSubscribeCleanup was called and is still set
  feature,    \* the entry of the feature, its count, and whether its handlers are on the wire
  disposer,   \* the users' dispose functions
  tracked,    \* nodeScopeFeatureDisposers
  room,       \* the user room: none, being made (with which wires) or there
  roomWires,      \* userRoomDefaultWiresDispose: "none", or what became of what it would dispose
  caller,     \* each caller of ensureUserRoom
  stops,
  robbed      \* history: a dispose function has counted down somebody else's attachment

scopeVars == <<scope, feature, disposer, tracked, room, roomWires, caller, stops, robbed>>

NoFeature == [count |-> 0, handlers |-> FALSE]

InitScope ==
  /\ scope = "off"
  /\ feature = NoFeature
  /\ disposer = [d \in Disposers |-> "new"]
  /\ tracked = {}
  /\ room = [st |-> "none", attach |-> FALSE]
  /\ roomWires = "none"
  /\ caller = [c \in Callers |-> [st |-> "new", attach |-> FALSE]]
  /\ stops = 0
  /\ robbed = FALSE

\* ensureNodeScope: what is set is returned as it is.
EnsuredScope == IF scope = "off" THEN "on" ELSE scope

\* The function that ensureNodeScope returns.
ScopeCleanup ==
  /\ scope = "on"
  /\ scope' = "muted"
  /\ UNCHANGED <<feature, disposer, tracked, room, roomWires, caller, stops, robbed>>

\* attachFeatureRefCounted: the first attachment puts the handlers on the wire.
Attached(f) == [count |-> f.count + 1, handlers |-> TRUE]

\* Mutant of Detached: every dispose takes the handlers off.
DetachedAtOnce(f) == IF f.count = 0 THEN f ELSE [count |-> f.count - 1, handlers |-> FALSE]

\* The last one takes them off; without an entry nothing happens.
Detached(f) == CASE f.count = 0 -> f
                 [] f.count = 1 -> NoFeature
                 [] OTHER -> [f EXCEPT !.count = @ - 1]

\* Each preset of the room counts like a user; "wires" names its dispose function.
attachNodeScopeFeature(d) ==
  /\ disposer[d] = "new"
  /\ disposer' = [disposer EXCEPT ![d] = "held"]
  /\ tracked' = tracked \cup {d}
  /\ scope' = EnsuredScope
  /\ feature' = Attached(feature)
  /\ UNCHANGED <<room, roomWires, caller, stops, robbed>>

\* Users call dispose once, late or again.
Dispose(d) ==
  /\ disposer[d] \in {"held", "used", "stopped"}
  /\ robbed' = (robbed \/ (disposer[d] # "held" /\ feature.count > 0))
  /\ feature' = Detached(feature)
  /\ tracked' = tracked \ {d}
  /\ disposer' = [disposer EXCEPT ![d] = "used"]
  /\ UNCHANGED <<scope, room, roomWires, caller, stops>>

\* stopNodeScopeRuntime: whatever the counts are, no entry is left.
stopNodeScopeRuntime(keepSubscribe) ==
  /\ stops < MaxStops
  /\ stops' = stops + 1
  /\ feature' = NoFeature
  /\ tracked' = {}
  /\ disposer' = [d \in Disposers |-> IF d \in tracked THEN "stopped" ELSE disposer[d]]
  /\ roomWires' = IF roomWires = "held" THEN "stopped" ELSE roomWires
  /\ scope' = IF keepSubscribe THEN scope ELSE "off"
  /\ UNCHANGED <<room, caller, robbed>>

\* attachNodeScopeDefaultFeatures, unless the room has had it before.
WithWires(attach, sc) ==
  IF attach /\ roomWires = "none"
  THEN /\ feature' = Attached(feature) /\ roomWires' = "held" /\ tracked' = tracked \cup {"wires"}
       /\ scope' = EnsuredScope
  ELSE scope' = sc /\ UNCHANGED <<feature, roomWires, tracked>>

\* ensureUserRoom, up to its first await; a call that names the user ensures the scope first.
ensureUserRoom(c, attach, named) ==
  LET sc == IF named THEN EnsuredScope ELSE scope IN
  /\ caller[c].st = "new"
  /\ CASE room.st = "there" ->
            /\ WithWires(attach, sc)
            /\ caller' = [caller EXCEPT ![c] = [st |-> "done", attach |-> attach]]
            /\ UNCHANGED room
       [] room.st = "making" ->
            /\ scope' = sc
            /\ caller' = [caller EXCEPT ![c] = [st |-> "joined", attach |-> attach]]
            /\ UNCHANGED <<room, feature, roomWires, tracked>>
       [] OTHER ->
            /\ scope' = sc
            /\ room' = [st |-> "making", attach |-> attach]
            /\ caller' = [caller EXCEPT ![c] = [st |-> "makes", attach |-> attach]]
            /\ UNCHANGED <<feature, roomWires, tracked>>
  /\ UNCHANGED <<disposer, stops, robbed>>

\* The runtime is up, or it threw: the callers that joined fare alike.
RoomMade(ok) ==
  /\ room.st = "making"
  /\ IF ok THEN WithWires(room.attach, EnsuredScope) ELSE UNCHANGED <<scope, feature, roomWires, tracked>>
  /\ room' = [room EXCEPT !.st = IF ok THEN "there" ELSE "none"]
  /\ caller' = [c \in Callers |->
       CASE caller[c].st = "makes" -> [caller[c] EXCEPT !.st = IF ok THEN "done" ELSE "threw"]
         [] caller[c].st = "joined" -> [caller[c] EXCEPT !.st = IF ok THEN "hasRoom" ELSE "threw"]
         [] OTHER -> caller[c]]
  /\ UNCHANGED <<disposer, stops, robbed>>

NextScope ==
  \/ ScopeCleanup
  \/ \E d \in Disposers : attachNodeScopeFeature(d) \/ Dispose(d)
  \/ \E b \in BOOLEAN : stopNodeScopeRuntime(b) \/ RoomMade(b)
  \/ \E c \in Callers, attach, named \in BOOLEAN : ensureUserRoom(c, attach, named)

SpecScope == InitScope /\ [][NextScope]_scopeVars

-----------------------------------------------------------------------------
(* Properties. *)

HoldersOf == {d \in Disposers : disposer[d] = "held"} \cup (IF roomWires = "held" THEN {"wires"} ELSE {})

\* Types of the state; nobody's dispose function is forgotten while it is held.
ScopeTypeOK ==
  /\ feature.count \in 0..(Cardinality(Disposers) + 1) /\ scope \in {"off", "on", "muted"}
  /\ tracked = HoldersOf
  /\ room.st \in {"none", "making", "there"} /\ stops \in 0..MaxStops

\* However attachments, disposals, stops and the room interleave, the feature's handlers are
\* on the wire of a scope that is set exactly while somebody holds them, unless a dispose
\* function was used again or after a stop; and before the first stop a caller who asked the room for its wires
\* and did not join another's call has them (features.mjs:40-55, 158-166, wire.mjs:104-143,
\* user_room.mjs:93-145).
FeaturesServe ==
  /\ ~robbed => (feature.handlers <=> HoldersOf # {})
  /\ feature.handlers => scope # "off"
  /\ stops = 0 /\ (\E c \in Callers : caller[c].st = "done" /\ caller[c].attach) =>
       /\ roomWires = "held" /\ (~robbed => feature.handlers)
=============================================================================
