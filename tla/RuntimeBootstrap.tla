--------------------------- MODULE RuntimeBootstrap ---------------------------
(***************************************************************************)
(* Start, reload and shutdown of a node's runtime                          *)
(* (transport/runtime_bootstrap.mjs): the listeners a start or a reload    *)
(* opens one await after the other, and the generation counter by which a  *)
(* shutdown tells them that they are late.  The discovery providers        *)
(* (discovery/index.mjs) appear by the listeners they give out; one link   *)
(* provider stands for all that have ensureListening.                      *)
(***************************************************************************)
EXTENDS Naturals, FiniteSets

CONSTANTS
  Handles,         \* bound: the listeners running at one time
  NoHandle,        \* no stop function is stored
  MaxGeneration,   \* bound: shutdowns
  MaxReloads       \* bound: changes of the signaling settings

ASSUME HandlesAssumption == NoHandle \notin Handles
ASSUME GenerationsAssumption == MaxGeneration \in Nat /\ MaxReloads \in Nat

VARIABLES
  runtimeStarted,
  generation,
  warm,         \* runtimeWarm of each generation: the await it stands at
  warmPromise,  \* the generation whose warm-up reload and shutdown wait for, if any
  reload,       \* the n-th reload: its await, the warm-up it awaits, the generation and
                \* the channels it read
  inflight,     \* reloadInflight: the reload that later calls only wait for, or 0
  closing,      \* shutdown() awaits the race of the warm-up and 500 ms
  stop,         \* the stop functions: stopLinkListeners, stopSignalListener, stopPresence
  running,      \* the listeners that run, whoever knows them
  enabled,      \* the channels are enabled in the settings
  providers     \* discovery providers are registered

bootVars == <<runtimeStarted, generation, warm, warmPromise, reload, inflight, closing,
              stop, running, enabled, providers>>

Kinds == {"link", "signal", "presence"}
Awaits == {"none", "link", "signal", "presence"}
Generations == 0..MaxGeneration
Reloads == 1..MaxReloads
NoReload == [pc |-> "none", after |-> {}, gen |-> 0, on |-> FALSE]

InitBoot ==
  /\ runtimeStarted = FALSE
  /\ generation = 0
  /\ warm = [g \in Generations |-> "none"]
  /\ warmPromise = {}
  /\ reload = [n \in Reloads |-> NoReload]
  /\ inflight = 0
  /\ closing = FALSE
  /\ stop = [k \in Kinds |-> NoHandle]
  /\ running = [k \in Kinds |-> {}]
  /\ enabled = TRUE
  /\ providers = FALSE

Live(g) == runtimeStarted /\ generation = g

\* At most one handle, which no running listener has: which of them does not matter.
FreeHandle ==
  LET free == Handles \ UNION {running[k] : k \in Kinds}
  IN IF free = {} THEN {} ELSE {CHOOSE h \in free : TRUE}

\* The listener of kind k opens, and its stop function replaces the one stored.
Open(k) ==
  \E h \in FreeHandle :
    /\ running' = [running EXCEPT ![k] = @ \cup {h}]
    /\ stop' = [stop EXCEPT ![k] = h]

\* The stop functions of these kinds are called and forgotten.
Stopped(ks) ==
  /\ running' = [k \in Kinds |-> IF k \in ks THEN running[k] \ {stop[k]} ELSE running[k]]
  /\ stop' = [k \in Kinds |-> IF k \in ks THEN NoHandle ELSE stop[k]]

\* startProviderListening of a provider that is not listened to yet: ensureListening gives
\* a listener, or throws.
ListensOrNot ==
  \/ /\ stop["link"] = NoHandle
     /\ Open("link")
  \/ UNCHANGED <<running, stop>>

-----------------------------------------------------------------------------
(* ensureRuntime and warmListenAndDiscovery. *)

\* All of it runs without an await: the warm-up goes on by itself.  With the channels
\* disabled there is no provider to listen with and it ends at once.
ensureRuntime ==
  /\ ~runtimeStarted
  /\ runtimeStarted' = TRUE
  /\ warm' = [warm EXCEPT ![generation] = IF enabled THEN "link" ELSE "none"]
  /\ warmPromise' = {generation}
  /\ providers' = enabled
  /\ UNCHANGED <<generation, reload, inflight, closing, stop, running, enabled>>

WarmListens(g) ==
  /\ warm[g] = "link"
  /\ warm' = [warm EXCEPT ![g] = IF Live(g) /\ providers THEN "signal" ELSE "none"]
  /\ ListensOrNot
  /\ UNCHANGED <<runtimeStarted, generation, warmPromise, reload, inflight, closing,
                 enabled, providers>>

\* listenNodeSignals has returned: its stop function is stored without another look at
\* the generation.  Only what comes next looks.
WarmSignals(g) ==
  /\ warm[g] = "signal"
  /\ Open("signal")
  /\ warm' = [warm EXCEPT ![g] = IF Live(g) /\ providers THEN "presence" ELSE "none"]
  /\ UNCHANGED <<runtimeStarted, generation, warmPromise, reload, inflight, closing,
                 enabled, providers>>

WarmPresence(g) ==
  /\ warm[g] = "presence"
  /\ Open("presence")
  /\ warm' = [warm EXCEPT ![g] = "none"]
  /\ UNCHANGED <<runtimeStarted, generation, warmPromise, reload, inflight, closing,
                 enabled, providers>>

-----------------------------------------------------------------------------
(* reloadDiscoveryRelays. *)

\* The settings change and signaling-changed comes: with a reload in flight the call only
\* waits for that one, whatever settings it has read.
SettingsChange(n) ==
  /\ runtimeStarted
  /\ reload[n].pc = "none"
  /\ enabled' = ~enabled
  /\ IF inflight = 0
     THEN /\ inflight' = n
          /\ reload' = [reload EXCEPT ![n] = [NoReload EXCEPT !.pc = "wait", !.after = warmPromise]]
     ELSE UNCHANGED <<inflight, reload>>
  /\ UNCHANGED <<runtimeStarted, generation, warm, warmPromise, closing, stop, running,
                 providers>>

\* Reload n is over, and reloadInflight is forgotten, whosever it is.
ReloadOver(n) ==
  /\ reload' = [reload EXCEPT ![n] = [NoReload EXCEPT !.pc = "over"]]
  /\ inflight' = 0

\* The awaited warm-up is over.  Disabled channels lose their providers and the listeners
\* of these.
ReloadBegins(n) ==
  /\ reload[n].pc = "wait"
  /\ IF runtimeStarted
     THEN /\ Stopped(IF enabled THEN {"signal", "presence"} ELSE Kinds)
          /\ providers' = enabled
          /\ reload' = [reload EXCEPT
               ![n] = [@ EXCEPT !.pc = "link", !.gen = generation, !.on = enabled]]
          /\ UNCHANGED inflight
     ELSE /\ ReloadOver(n)
          /\ UNCHANGED <<running, stop, providers>>
  /\ UNCHANGED <<runtimeStarted, generation, warm, warmPromise, closing, enabled>>

ReloadStarts(n) ==
  /\ \A g \in reload[n].after : warm[g] = "none"
  /\ ReloadBegins(n)

\* startEnabledProviderListening has returned.  Without discovery providers there is
\* nothing to listen to, but the presence is started all the same.
ReloadListens(n) ==
  /\ reload[n].pc = "link"
  /\ IF reload[n].on THEN ListensOrNot ELSE UNCHANGED <<running, stop>>
  /\ IF Live(reload[n].gen)
     THEN /\ reload' = [reload EXCEPT ![n].pc = IF providers THEN "signal" ELSE "presence"]
          /\ UNCHANGED inflight
     ELSE ReloadOver(n)
  /\ UNCHANGED <<runtimeStarted, generation, warm, warmPromise, closing, enabled,
                 providers>>

ReloadSignals(n) ==
  /\ reload[n].pc = "signal"
  /\ Open("signal")
  /\ IF Live(reload[n].gen)
     THEN reload' = [reload EXCEPT ![n].pc = "presence"] /\ UNCHANGED inflight
     ELSE ReloadOver(n)
  /\ UNCHANGED <<runtimeStarted, generation, warm, warmPromise, closing, enabled,
                 providers>>

ReloadPresence(n) ==
  /\ reload[n].pc = "presence"
  /\ Open("presence")
  /\ ReloadOver(n)
  /\ UNCHANGED <<runtimeStarted, generation, warm, warmPromise, closing, enabled,
                 providers>>

-----------------------------------------------------------------------------
(* shutdown. *)

Shutdown ==
  /\ runtimeStarted
  /\ ~closing
  /\ generation < MaxGeneration
  /\ runtimeStarted' = FALSE
  /\ generation' = generation + 1
  /\ closing' = TRUE
  /\ Stopped({"signal", "presence"})
  /\ UNCHANGED <<warm, warmPromise, reload, inflight, enabled, providers>>

\* Link listeners stop, the providers are unregistered and the promises dropped: a reload
\* in flight goes on forgotten.
ShutdownStops ==
  /\ closing
  /\ closing' = FALSE
  /\ Stopped({"link"})
  /\ providers' = FALSE
  /\ warmPromise' = {}
  /\ inflight' = 0
  /\ UNCHANGED <<runtimeStarted, generation, warm, reload, enabled>>

\* Mutant of ShutdownEnds: the warm-up is awaited however long it takes.
ShutdownAwaitsWarm == ShutdownStops /\ \A g \in warmPromise : warm[g] = "none"

\* The warm-up is over, or 500 ms are.
ShutdownEnds == ShutdownStops

NextBoot ==
  \/ ensureRuntime
  \/ \E g \in Generations :
       WarmListens(g) \/ WarmSignals(g) \/ WarmPresence(g)
  \/ \E n \in Reloads :
       \/ SettingsChange(n) \/ ReloadStarts(n) \/ ReloadListens(n)
       \/ ReloadSignals(n) \/ ReloadPresence(n)
  \/ Shutdown \/ ShutdownEnds

\* Only shutdown's own timer is sure to fire: a provider's start may hang.
FairBoot == WF_bootVars(ShutdownEnds)

SpecBoot == InitBoot /\ [][NextBoot]_bootVars /\ FairBoot

-----------------------------------------------------------------------------
(* Properties. *)

\* Types of the state.
BootTypeOK ==
  /\ runtimeStarted \in BOOLEAN /\ closing \in BOOLEAN
  /\ enabled \in BOOLEAN /\ providers \in BOOLEAN
  /\ generation \in Generations
  /\ warm \in [Generations -> Awaits]
  /\ warmPromise \subseteq Generations
  /\ reload \in [Reloads -> [pc : Awaits \cup {"wait", "over"},
                             after : SUBSET Generations, gen : Generations, on : BOOLEAN]]
  /\ inflight \in Reloads \cup {0}
  /\ stop \in [Kinds -> Handles \cup {NoHandle}]
  /\ running \in [Kinds -> SUBSET Handles]

\* Until the first shutdown the warm-up and the reloads never open two listeners of a kind:
\* whatever runs is the one whose stop function is kept, so that the next reload or shutdown
\* ends it (the waits at runtime_bootstrap.mjs:347-350).
HeldListeners == generation = 0 => \A k \in Kinds : running[k] \subseteq {stop[k]}

\* A shutdown has returned, and no warm-up or reload is under way any more.
RuntimeOver ==
  /\ ~runtimeStarted /\ ~closing
  /\ \A g \in Generations : warm[g] = "none"
  /\ \A n \in Reloads : reload[n].pc \in {"none", "over"}

\* "a generation counter invalidates late side effects" (docs/runtime.md:92): when a runtime
\* is over, nothing its warm-up or its reloads opened hears signals or shows presence.
LateEffectsInvalid == RuntimeOver => running["signal"] = {} /\ running["presence"] = {}

\* No shutdown is under way for ever: it ends even when a provider's listen or presence
\* never returns (runtime_bootstrap.mjs:481-484).
ShutdownReturned == ~closing
=============================================================================
