----------------------------- MODULE Links_proofs -----------------------------
(*****************************************************************************)
(* What the theorems about the components of MCLinks say of them together,   *)
(* and the proofs about four small components: the runtime that attaches     *)
(* what calls the node (RuntimeBootstrap), the lists of a node               *)
(* (NodeLists), the census (CensusMonitor) and pulls of reputations          *)
(* (ReputationPull).                                                         *)
(*                                                                           *)
(* Every behaviour of MCLinks is one of each component, the steps of the     *)
(* others being stutters.                                                    *)
(*****************************************************************************)
EXTENDS MCLinks, Pipes_proofs, Transports_proofs

-----------------------------------------------------------------------------
(* The runtime that attaches what calls the node. *)

\* What an opener that stands at this await is still to open does not run yet.
ToCome(at) ==
  /\ at \in {"link", "signal"} => running["signal"] = {}
  /\ at \in {"link", "signal", "presence"} => running["presence"] = {}

\* A reload under way is the one in flight, and begins after the warm-up.
ReloadFits(n) ==
  reload[n].pc \notin {"none", "over"} =>
    /\ n = inflight
    /\ reload[n].pc = "wait" => reload[n].after = {0}
    /\ reload[n].pc # "wait" => reload[n].gen = 0 /\ warm[0] = "none" /\ ToCome(reload[n].pc)

\* One opener at a time, where no shutdown has been.
OneOpener ==
  /\ \A k \in Kinds : running[k] \subseteq {stop[k]}
  /\ ~closing /\ \A g \in Generations : g # 0 => warm[g] = "none"
  /\ runtimeStarted => warmPromise = {0} /\ ToCome(warm[0])
  /\ \A n \in Reloads : ReloadFits(n)
  /\ ~runtimeStarted => /\ running["signal"] = {} /\ running["presence"] = {}
                        /\ warm[0] = "none" /\ \A n \in Reloads : reload[n].pc = "none"

BootInv == BootTypeOK /\ (generation = 0 => OneOpener)

ReloadRecord ==
  [pc : Awaits \cup {"wait", "over"}, after : SUBSET Generations, gen : Generations, on : BOOLEAN]

\* What a step makes of a reload is one.
LEMMA ReloadShape ==
  ASSUME BootTypeOK, NEW n \in Reloads
  PROVE  /\ [NoReload EXCEPT !.pc = "over"] \in ReloadRecord
         /\ [NoReload EXCEPT !.pc = "wait", !.after = warmPromise] \in ReloadRecord
         /\ [reload[n] EXCEPT !.pc = "link", !.gen = generation, !.on = enabled] \in ReloadRecord
         /\ \A pc \in {"signal", "presence"} : [reload[n] EXCEPT !.pc = pc] \in ReloadRecord
         /\ \A r \in ReloadRecord : [reload EXCEPT ![n] = r] \in [Reloads -> ReloadRecord]
<1>1. 0 \in Generations
  BY GenerationsAssumption DEF Generations
<1> QED
  BY <1>1 DEF BootTypeOK, ReloadRecord, NoReload, Awaits

LEMMA BootInit == InitBoot => BootInv
<1> USE HandlesAssumption, GenerationsAssumption
<1>0. NoReload \in ReloadRecord /\ 0 \in Generations
  BY DEF NoReload, ReloadRecord, Generations, Awaits
<1>1. InitBoot => BootTypeOK
  <2> SUFFICES ASSUME InitBoot PROVE BootTypeOK
    OBVIOUS
  <2>1. reload \in [Reloads -> ReloadRecord]
    BY <1>0 DEF InitBoot
  <2>2. warm \in [Generations -> Awaits] /\ stop \in [Kinds -> Handles \cup {NoHandle}]
        /\ running \in [Kinds -> SUBSET Handles]
    BY DEF InitBoot, Awaits
  <2> QED
    BY <1>0, <2>1, <2>2 DEF InitBoot, BootTypeOK, ReloadRecord
<1>2. InitBoot => OneOpener
  BY DEF InitBoot, OneOpener, ReloadFits, NoReload, Kinds, Generations
<1> QED
  BY <1>1, <1>2 DEF BootInv

\* A listener that opens has a handle, and only its kind changes.
LEMMA OpenTells ==
  ASSUME NEW k \in Kinds, Open(k), BootTypeOK
  PROVE  /\ running' \in [Kinds -> SUBSET Handles] /\ stop' \in [Kinds -> Handles \cup {NoHandle}]
         /\ \E h \in Handles : stop'[k] = h /\ running'[k] = running[k] \cup {h}
         /\ \A j \in Kinds \ {k} : stop'[j] = stop[j] /\ running'[j] = running[j]
<1>1. FreeHandle \subseteq Handles
  BY DEF FreeHandle
<1>2. PICK h \in Handles : running' = [running EXCEPT ![k] = @ \cup {h}] /\ stop' = [stop EXCEPT ![k] = h]
  BY <1>1 DEF Open
<1> QED
  BY <1>2 DEF BootTypeOK

LEMMA StoppedTells ==
  ASSUME NEW ks, Stopped(ks), BootTypeOK
  PROVE  /\ running' \in [Kinds -> SUBSET Handles] /\ stop' \in [Kinds -> Handles \cup {NoHandle}]
         /\ \A k \in Kinds : running'[k] = IF k \in ks THEN running[k] \ {stop[k]} ELSE running[k]
         /\ \A k \in Kinds : stop'[k] = IF k \in ks THEN NoHandle ELSE stop[k]
BY DEF Stopped, BootTypeOK

LEMMA ListensTells ==
  ASSUME ListensOrNot, BootTypeOK
  PROVE  /\ running' \in [Kinds -> SUBSET Handles] /\ stop' \in [Kinds -> Handles \cup {NoHandle}]
         /\ \A j \in {"signal", "presence"} : stop'[j] = stop[j] /\ running'[j] = running[j]
         /\ (\A k \in Kinds : running[k] \subseteq {stop[k]}) => \A k \in Kinds : running'[k] \subseteq {stop'[k]}
<1> USE DEF Kinds
<1>1. CASE UNCHANGED <<running, stop>>
  BY <1>1 DEF BootTypeOK
<1>2. CASE stop["link"] = NoHandle /\ Open("link")
  <2>1. running["link"] \subseteq Handles
    BY DEF BootTypeOK
  <2>2. running["link"] \subseteq {NoHandle} => running["link"] = {}
    BY <2>1, HandlesAssumption
  <2> QED
    BY <1>2, <2>2, OpenTells
<1> QED
  BY <1>1, <1>2 DEF ListensOrNot

\* Types hold after every step.
LEMMA BootKeepsTypes ==
  ASSUME BootTypeOK, [NextBoot]_bootVars PROVE BootTypeOK'
<1> USE GenerationsAssumption
<1>1. CASE ensureRuntime
  <2>1. warm' \in [Generations -> Awaits] /\ warmPromise' \subseteq Generations
    BY <1>1 DEF ensureRuntime, BootTypeOK, Awaits
  <2> QED
    BY <1>1, <2>1 DEF ensureRuntime, BootTypeOK
<1>2. ASSUME NEW g \in Generations, WarmListens(g) PROVE BootTypeOK'
  <2>1. warm' \in [Generations -> Awaits]
    BY <1>2 DEF WarmListens, BootTypeOK, Awaits
  <2>2. ListensOrNot
    BY <1>2 DEF WarmListens
  <2> QED
    BY <1>2, <2>1, <2>2, ListensTells DEF WarmListens, BootTypeOK
<1>3. ASSUME NEW g \in Generations, WarmSignals(g) \/ WarmPresence(g) PROVE BootTypeOK'
  <2>1. warm' \in [Generations -> Awaits]
    BY <1>3 DEF WarmSignals, WarmPresence, BootTypeOK, Awaits
  <2>2. \E k \in Kinds : Open(k)
    BY <1>3 DEF WarmSignals, WarmPresence, Kinds
  <2>3. running' \in [Kinds -> SUBSET Handles] /\ stop' \in [Kinds -> Handles \cup {NoHandle}]
    BY <2>2, OpenTells
  <2>4. UNCHANGED <<runtimeStarted, generation, warmPromise, reload, inflight, closing, enabled, providers>>
    BY <1>3 DEF WarmSignals, WarmPresence
  <2> QED
    BY <2>1, <2>3, <2>4 DEF BootTypeOK
<1>4. ASSUME NEW n \in Reloads, SettingsChange(n) PROVE BootTypeOK'
  <2>1. reload' \in [Reloads -> ReloadRecord]
    <3>1. (\E r \in ReloadRecord : reload' = [reload EXCEPT ![n] = r]) \/ reload' = reload
      BY <1>4, ReloadShape DEF SettingsChange
    <3> QED
      <4>1. reload \in [Reloads -> ReloadRecord]
        BY DEF BootTypeOK, ReloadRecord
      <4> QED
        BY <3>1, <4>1, ReloadShape
  <2> QED
    BY <1>4, <2>1 DEF SettingsChange, BootTypeOK, ReloadRecord
<1>5. ASSUME NEW n \in Reloads, ReloadStarts(n) PROVE BootTypeOK'
  <2>0. \E ks : Stopped(ks) \/ UNCHANGED <<running, stop>>
    BY <1>5 DEF ReloadStarts, ReloadBegins
  <2>1. running' \in [Kinds -> SUBSET Handles] /\ stop' \in [Kinds -> Handles \cup {NoHandle}]
    BY <2>0, StoppedTells DEF BootTypeOK
  <2>2. reload' \in [Reloads -> ReloadRecord]
    <3>1. \E r \in ReloadRecord : reload' = [reload EXCEPT ![n] = r]
      BY <1>5, ReloadShape DEF ReloadStarts, ReloadBegins, ReloadOver
    <3>2. PICK r \in ReloadRecord : reload' = [reload EXCEPT ![n] = r]
      BY <3>1
    <3> QED
      BY <3>2, ReloadShape
  <2> QED
    BY <1>5, <2>1, <2>2 DEF ReloadStarts, ReloadBegins, ReloadOver, BootTypeOK, ReloadRecord
<1>6. ASSUME NEW n \in Reloads, ReloadListens(n) \/ ReloadSignals(n) \/ ReloadPresence(n) PROVE BootTypeOK'
  <2>0. ListensOrNot \/ UNCHANGED <<running, stop>> \/ \E k \in Kinds : Open(k)
    BY <1>6 DEF ReloadListens, ReloadSignals, ReloadPresence, Kinds
  <2>1. running' \in [Kinds -> SUBSET Handles] /\ stop' \in [Kinds -> Handles \cup {NoHandle}]
    BY <2>0, ListensTells, OpenTells DEF BootTypeOK
  <2>2. reload' \in [Reloads -> ReloadRecord]
    <3>1. \E r \in ReloadRecord : reload' = [reload EXCEPT ![n] = r]
      <4>1. CASE ReloadListens(n)
        BY <4>1, ReloadShape DEF ReloadListens, ReloadOver
      <4>2. CASE ReloadSignals(n)
        BY <4>2, ReloadShape DEF ReloadSignals, ReloadOver
      <4>3. CASE ReloadPresence(n)
        BY <4>3, ReloadShape DEF ReloadPresence, ReloadOver
      <4> QED
        BY <1>6, <4>1, <4>2, <4>3
    <3>2. PICK r \in ReloadRecord : reload' = [reload EXCEPT ![n] = r]
      BY <3>1
    <3> QED
      BY <3>2, ReloadShape
  <2>3. inflight' \in Reloads \cup {0}
    BY <1>6 DEF ReloadListens, ReloadSignals, ReloadPresence, ReloadOver, BootTypeOK
  <2>4. UNCHANGED <<runtimeStarted, generation, warm, warmPromise, closing, enabled, providers>>
    BY <1>6 DEF ReloadListens, ReloadSignals, ReloadPresence
  <2> QED
    BY <2>1, <2>2, <2>3, <2>4 DEF BootTypeOK, ReloadRecord
<1>7. CASE Shutdown
  <2>1. generation' \in Generations
    BY <1>7 DEF Shutdown, BootTypeOK, Generations
  <2>2. Stopped({"signal", "presence"})
    BY <1>7 DEF Shutdown
  <2> QED
    BY <1>7, <2>1, <2>2, StoppedTells DEF Shutdown, BootTypeOK
<1>8. CASE ShutdownEnds
  <2>2. Stopped({"link"})
    BY <1>8 DEF ShutdownEnds, ShutdownStops
  <2> QED
    BY <1>8, <2>2, StoppedTells DEF ShutdownEnds, ShutdownStops, BootTypeOK
<1>9. CASE UNCHANGED bootVars
  BY <1>9 DEF bootVars, BootTypeOK
<1> QED
  BY <1>1, <1>2, <1>3, <1>4, <1>5, <1>6, <1>7, <1>8, <1>9 DEF NextBoot

\* Nor does a step before the first shutdown open a second listener.
LEMMA BootKeepsOneOpener ==
  ASSUME BootTypeOK, OneOpener, [NextBoot]_bootVars, generation = 0, generation' = 0
  PROVE  OneOpener'
<1>0. BootTypeOK'
  BY BootKeepsTypes
<1> USE GenerationsAssumption DEF Kinds
<1>t. /\ running["signal"] \subseteq Handles /\ running["presence"] \subseteq Handles
      /\ 0 \in Generations
  BY DEF BootTypeOK
<1>1. CASE ensureRuntime
  <2>1. ~closing /\ \A n \in Reloads : reload[n].pc = "none"
    BY <1>1 DEF ensureRuntime, OneOpener
  <2>2. UNCHANGED <<running, stop, reload, closing>> /\ ~runtimeStarted /\ runtimeStarted' /\ warmPromise' = {0}
    BY <1>1 DEF ensureRuntime
  <2>3. \A g \in Generations : g # 0 => warm'[g] = "none"
    BY <1>1 DEF ensureRuntime, OneOpener
  <2>4. ToCome(warm[0])'
    BY <2>2 DEF OneOpener, ToCome
  <2>5. \A n \in Reloads : ReloadFits(n)'
    BY <2>1, <2>2 DEF ReloadFits
  <2> QED
    BY <2>1, <2>2, <2>3, <2>4, <2>5 DEF OneOpener
<1>2. ASSUME NEW g \in Generations, WarmListens(g) PROVE OneOpener'
  <2>1. ListensOrNot /\ warm[g] = "link"
    BY <1>2 DEF WarmListens
  <2>2. g = 0 /\ runtimeStarted
    BY <2>1 DEF OneOpener
  <2>3. UNCHANGED <<runtimeStarted, warmPromise, reload, inflight, closing>>
    BY <1>2 DEF WarmListens
  <2>4. \A j \in Generations : warm'[j] = IF j = g THEN IF Live(g) /\ providers THEN "signal" ELSE "none" ELSE warm[j]
    BY <1>2 DEF WarmListens, BootTypeOK
  <2>5. ToCome(warm[0])'
    <3>0. ToCome(warm[0])
      BY <2>2 DEF OneOpener
    <3>1. UNCHANGED <<running["signal"], running["presence"]>>
      BY <2>1, ListensTells
    <3> QED
      BY <2>1, <2>2, <2>4, <1>t, <3>0, <3>1 DEF ToCome
  <2>6. UNCHANGED <<running["signal"], running["presence"]>> /\ \A k \in Kinds : running'[k] \subseteq {stop'[k]}
    BY <2>1, ListensTells DEF OneOpener
  <2>7. \A j \in Generations : j # 0 => warm'[j] = "none"
    BY <2>2, <2>4 DEF OneOpener
  <2>8. \A n \in Reloads : ReloadFits(n)'
    <3>1. \A n \in Reloads : ReloadFits(n) /\ reload[n].pc \in {"none", "over", "wait"}
      BY <2>1, <2>2 DEF OneOpener, ReloadFits
    <3> QED
      BY <2>3, <3>1 DEF ReloadFits
  <2> QED
    BY <2>2, <2>3, <2>5, <2>6, <2>7, <2>8 DEF OneOpener
<1>3. ASSUME NEW g \in Generations, WarmSignals(g) \/ WarmPresence(g) PROVE OneOpener'
  <2> DEFINE k == IF warm[g] = "signal" THEN "signal" ELSE "presence"
  <2>1. Open(k) /\ k \in {"signal", "presence"} /\ warm[g] = k
    BY <1>3 DEF WarmSignals, WarmPresence
  <2>2. runtimeStarted /\ g = 0
    BY <2>1 DEF OneOpener
  <2>3. UNCHANGED <<runtimeStarted, warmPromise, reload, inflight, closing>>
    BY <1>3 DEF WarmSignals, WarmPresence
  <2>4. /\ warm'[0] = "none" \/ (k = "signal" /\ warm'[0] = "presence")
        /\ \A j \in Generations : j # 0 => warm'[j] = "none"
    <3>1. PICK w : warm' = [warm EXCEPT ![0] = w] /\ (w = "none" \/ (k = "signal" /\ w = "presence"))
      <4>1. CASE WarmSignals(g)
        BY <2>1, <2>2, <4>1 DEF WarmSignals
      <4>2. CASE WarmPresence(g)
        BY <2>1, <2>2, <4>2 DEF WarmPresence
      <4> QED
        BY <1>3, <4>1, <4>2
    <3> QED
      BY <1>t, <3>1 DEF BootTypeOK, OneOpener
  <2>5. running[k] = {} /\ (k = "signal" => running["presence"] = {})
    BY <2>1, <2>2 DEF OneOpener, ToCome
  <2>6. /\ \E h \in Handles : stop'[k] = h /\ running'[k] = running[k] \cup {h}
        /\ \A j \in Kinds \ {k} : stop'[j] = stop[j] /\ running'[j] = running[j]
    BY <2>1, OpenTells
  <2> HIDE DEF k
  <2>7. \A j \in Kinds : running'[j] \subseteq {stop'[j]}
    BY <2>1, <2>2, <2>5, <2>6 DEF OneOpener
  <2>8. \A n \in Reloads : ReloadFits(n)'
    <3>1. \A n \in Reloads : ReloadFits(n) /\ reload[n].pc \in {"none", "over", "wait"}
      BY <2>1, <2>2 DEF OneOpener, ReloadFits
    <3> QED
      BY <2>3, <3>1 DEF ReloadFits
  <2>9. ToCome(warm[0])'
    BY <2>1, <2>4, <2>5, <2>6 DEF ToCome
  <2> QED
    BY <2>2, <2>3, <2>4, <2>7, <2>8, <2>9 DEF OneOpener
<1>4. ASSUME NEW n \in Reloads, SettingsChange(n) PROVE OneOpener'
  <2>1. UNCHANGED <<runtimeStarted, warm, warmPromise, closing, stop, running>> /\ runtimeStarted
    BY <1>4 DEF SettingsChange
  <2>2. CASE inflight = 0
    <3>1. /\ \A m \in Reloads : m # n => reload'[m] = reload[m]
          /\ reload'[n].pc = "wait" /\ reload'[n].after = warmPromise /\ inflight' = n
      <4> DEFINE r == [NoReload EXCEPT !.pc = "wait", !.after = warmPromise]
      <4>1. reload' = [reload EXCEPT ![n] = r] /\ inflight' = n
        BY <1>4, <2>2 DEF SettingsChange
      <4>2. r.pc = "wait" /\ r.after = warmPromise
        BY DEF NoReload
      <4> HIDE DEF r
      <4> QED
        BY <4>1, <4>2 DEF BootTypeOK
    <3>2. \A m \in Reloads : reload[m].pc \in {"none", "over"}
      BY <2>1, <2>2 DEF OneOpener, ReloadFits, Reloads
    <3> QED
      BY <2>1, <3>1, <3>2 DEF OneOpener, ReloadFits, ToCome
  <2>3. CASE inflight # 0
    BY <1>4, <2>1, <2>3 DEF SettingsChange, OneOpener, ReloadFits, ToCome
  <2> QED
    BY <2>2, <2>3
<1>5. ASSUME NEW n \in Reloads, ReloadStarts(n) PROVE OneOpener'
  <2>1. UNCHANGED <<runtimeStarted, warm, warmPromise, closing>> /\ reload[n].pc = "wait" /\ runtimeStarted
    BY <1>5 DEF ReloadStarts, ReloadBegins, OneOpener
  <2>2. \A m \in Reloads : m # n => reload'[m] = reload[m]
    BY <1>5 DEF ReloadStarts, ReloadBegins, ReloadOver, BootTypeOK
  <2>3. n = inflight /\ warm[0] = "none" /\ \A m \in Reloads \ {n} : reload[m].pc \in {"none", "over"}
    BY <1>5, <2>1 DEF ReloadStarts, OneOpener, ReloadFits
  <2>4. inflight' = n /\ reload'[n].gen = 0 /\ reload'[n].pc = "link"
    <3> DEFINE r == [reload[n] EXCEPT !.pc = "link", !.gen = generation, !.on = enabled]
    <3>1. reload' = [reload EXCEPT ![n] = r] /\ inflight' = inflight
      BY <1>5, <2>1 DEF ReloadStarts, ReloadBegins
    <3>2. r.pc = "link" /\ r.gen = 0
      BY DEF BootTypeOK
    <3> HIDE DEF r
    <3> QED
      BY <2>3, <3>1, <3>2 DEF BootTypeOK
  <2>5. PICK ks : Stopped(ks) /\ {"signal", "presence"} \subseteq ks
    BY <1>5, <2>1 DEF ReloadStarts, ReloadBegins
  <2>6. /\ \A k \in Kinds : running'[k] \subseteq {stop'[k]}
        /\ running'["signal"] = {} /\ running'["presence"] = {}
    BY <2>5, StoppedTells DEF OneOpener
  <2> QED
    BY <2>1, <2>2, <2>3, <2>4, <2>6 DEF OneOpener, ReloadFits, ToCome
<1>6. ASSUME NEW n \in Reloads, ReloadListens(n) PROVE OneOpener'
  <2>1. UNCHANGED <<runtimeStarted, warm, warmPromise, closing>> /\ reload[n].pc = "link" /\ runtimeStarted
    BY <1>6 DEF ReloadListens, OneOpener
  <2>2. ListensOrNot \/ UNCHANGED <<running, stop>>
    BY <1>6 DEF ReloadListens
  <2>3. UNCHANGED <<running["signal"], running["presence"]>> /\ \A k \in Kinds : running'[k] \subseteq {stop'[k]}
    BY <2>2, ListensTells DEF OneOpener
  <2>4. \A m \in Reloads : m # n => reload'[m] = reload[m]
    BY <1>6 DEF ReloadListens, ReloadOver, BootTypeOK
  <2>5. n = inflight /\ reload[n].gen = 0 /\ warm[0] = "none" /\ ToCome("link")
        /\ \A m \in Reloads \ {n} : reload[m].pc \in {"none", "over"}
    BY <2>1 DEF OneOpener, ReloadFits
  <2>6. inflight' = n /\ reload'[n].pc \in {"signal", "presence"} /\ reload'[n].gen = 0
    BY <1>6, <2>1, <2>5 DEF ReloadListens, BootTypeOK, Live
  <2> QED
    BY <2>1, <2>3, <2>4, <2>5, <2>6 DEF OneOpener, ReloadFits, ToCome
<1>7. ASSUME NEW n \in Reloads, ReloadSignals(n) \/ ReloadPresence(n) PROVE OneOpener'
  <2> DEFINE k == reload[n].pc
  <2>1. UNCHANGED <<runtimeStarted, warm, warmPromise, closing>>
        /\ k \in {"signal", "presence"} /\ Open(k)
    BY <1>7 DEF ReloadSignals, ReloadPresence
  <2>2. runtimeStarted
    BY <2>1 DEF OneOpener
  <2>3. /\ n = inflight /\ reload[n].gen = 0 /\ warm[0] = "none" /\ ToCome(k)
        /\ \A m \in Reloads \ {n} : reload[m].pc \in {"none", "over"}
    BY <2>1 DEF OneOpener, ReloadFits
  <2>4. \A m \in Reloads : m # n => reload'[m] = reload[m]
    BY <1>7 DEF ReloadSignals, ReloadPresence, ReloadOver, BootTypeOK
  <2>5. \/ reload'[n].pc = "over"
        \/ k = "signal" /\ reload'[n].pc = "presence" /\ inflight' = n /\ reload'[n].gen = 0
    BY <1>7, <2>1, <2>2, <2>3 DEF ReloadSignals, ReloadPresence, ReloadOver, BootTypeOK, Live, NoReload
  <2>6. /\ \E h \in Handles : stop'[k] = h /\ running'[k] = running[k] \cup {h}
        /\ \A j \in Kinds \ {k} : stop'[j] = stop[j] /\ running'[j] = running[j]
    BY <2>1, OpenTells
  <2> HIDE DEF k
  <2>7. \A j \in Kinds : running'[j] \subseteq {stop'[j]}
    BY <2>1, <2>2, <2>3, <2>6 DEF OneOpener, ToCome
  <2> QED
    BY <2>1, <2>2, <2>3, <2>4, <2>5, <2>6, <2>7 DEF OneOpener, ReloadFits, ToCome
<1>8. ~Shutdown /\ ~ShutdownEnds
  BY DEF Shutdown, ShutdownEnds, ShutdownStops, OneOpener
<1>9. CASE UNCHANGED bootVars
  BY <1>9 DEF bootVars, OneOpener, ReloadFits, ToCome
<1> QED
  BY <1>1, <1>2, <1>3, <1>4, <1>5, <1>6, <1>7, <1>8, <1>9 DEF NextBoot

\* For any generations, reloads and listeners: until the first shutdown whatever runs is the
\* one whose stop function is kept (runtime_bootstrap.mjs:230-360).
LEMMA BootSound == SpecBoot => [](BootTypeOK /\ HeldListeners)
<1>1. BootInv /\ [NextBoot]_bootVars => BootInv'
  <2> SUFFICES ASSUME BootInv, [NextBoot]_bootVars PROVE BootInv'
    OBVIOUS
  <2>1. generation' = generation \/ Shutdown
    BY DEF NextBoot, bootVars, ensureRuntime, WarmListens, WarmSignals, WarmPresence, SettingsChange,
           ReloadStarts, ReloadBegins, ReloadListens, ReloadSignals, ReloadPresence,
           ShutdownEnds, ShutdownStops
  <2>2. Shutdown => generation' # 0
    BY GenerationsAssumption DEF Shutdown, BootInv, BootTypeOK, Generations
  <2> QED
    BY <2>1, <2>2, BootKeepsTypes, BootKeepsOneOpener DEF BootInv
<1>2. BootInv => BootTypeOK /\ HeldListeners
  BY DEF BootInv, OneOpener, HeldListeners
<1> QED
  BY <1>1, <1>2, BootInit, PTL DEF SpecBoot

-----------------------------------------------------------------------------
(* The denylist. *)

\* What the index has is what is on disk, unless a write failed; and what was confirmed
\* denied is on disk.
DenyInv ==
  /\ DenyTypeOK
  /\ Keys = denyFile
  /\ unsaved = 0 => Index = denyFile /\ denied \subseteq denyFile

LEMMA DenyBounds == MaxUnsaved \in Nat /\ MaxDenyCalls \in Nat
  BY EntriesAssumption

LEMMA RemovesOne ==
  ASSUME NEW e \in Entries, NEW d \in Entries, Removes(e, d)
  PROVE  d = e
  BY EntriesAssumption DEF Removes

\* For any entries: what a lookup says is what is on disk, and whoever was confirmed denied is
\* turned away (denylist.mjs:62-156, 197-270).
LEMMA DenySound == SpecDeny => [](DenyTypeOK /\ DenyHolds)
<1>1. InitDeny => DenyInv
  <2> SUFFICES ASSUME InitDeny PROVE DenyInv
    OBVIOUS
  <2>1. Keys = {} /\ Index = {}
    BY DEF InitDeny, Keys, Index
  <2>2. DenyTypeOK
    <3>1. unsaved \in 0..MaxUnsaved /\ denyCalls \in 0..MaxDenyCalls
      BY DenyBounds DEF InitDeny
    <3> QED
      BY <3>1 DEF InitDeny, DenyTypeOK
  <2> QED
    BY <2>1, <2>2 DEF InitDeny, DenyInv
<1>2. DenyInv /\ [NextDeny]_denyVars => DenyInv'
  <2> SUFFICES ASSUME DenyInv, [NextDeny]_denyVars PROVE DenyInv'
    OBVIOUS
  <2> USE DenyBounds
  <2>1. ASSUME NEW e \in Entries, addDenylistEntry(e) PROVE DenyInv'
    BY <2>1 DEF DenyInv, DenyTypeOK, Keys, Index, addDenylistEntry, saveDenylist, SaveFails
  <2>2. ASSUME NEW e \in Entries, removeGroupBlockedPeer(e) PROVE DenyInv'
    <3>1. \A d \in Entries : Removes(e, d) => d = e
      BY RemovesOne
    <3> QED
      BY <2>2, <3>1 DEF DenyInv, DenyTypeOK, Keys, Index, removeGroupBlockedPeer, saveDenylist, SaveFails
  <2>3. CASE DenyRestart
    BY <2>3 DEF DenyInv, DenyTypeOK, Keys, Index, DenyRestart
  <2>4. CASE UNCHANGED denyVars
    BY <2>4 DEF DenyInv, DenyTypeOK, Keys, Index, denyVars
  <2> QED
    BY <2>1, <2>2, <2>3, <2>4 DEF NextDeny
<1>3. DenyInv => DenyTypeOK /\ DenyHolds
  <2> SUFFICES ASSUME DenyInv, unsaved = 0, NEW e \in denied
               PROVE  isSubjectBlocked(e.scope, e.value, e.group)
    BY DEF DenyInv, DenyHolds
  <2>1. e \in Keys /\ e = [scope |-> e.scope, value |-> e.value, group |-> e.group]
    BY EntriesAssumption DEF DenyInv, DenyTypeOK
  <2> QED
    BY <2>1 DEF isSubjectBlocked
<1> QED
  BY <1>1, <1>2, <1>3, PTL DEF SpecDeny

-----------------------------------------------------------------------------
(* The personal lists. *)

Targets == UNION {EntriesFor(a) : a \in Authors}

\* A call: what it does, and what it will write.
EditShape ==
  [st : {"none"}]
    \cup [st : {"reads"}, list : PersonalLists, author : Authors, hide : BOOLEAN]
    \cup [st : {"writes"}, list : PersonalLists, author : Authors, hide : BOOLEAN,
          next : SUBSET Targets]

\* A list that two calls never wrote at once has the entities confirmed hidden, and none that was
\* shown again; what a call is about to write was made of what is there.
ListTells(n) ==
  /\ \A o, q \in Edits :
       edit[o].st # "none" /\ edit[o].list = n /\ edit[q].st # "none" /\ edit[q].list = n => o = q
  /\ \A o \in Edits : edit[o].st = "writes" /\ edit[o].list = n =>
       edit[o].next = NewList(listFile[n], edit[o].author, edit[o].hide)
  /\ \A a \in hidden[n] : <<"entity", a>> \in listFile[n]
  /\ \A a \in shown[n] : EntriesFor(a) \cap listFile[n] = {}

PersonalInv ==
  /\ PersonalTypeOK
  /\ edit \in [Edits -> EditShape]
  /\ \A n \in PersonalLists \ crossed : ListTells(n)

LEMMA NewListFits ==
  ASSUME NEW list \in SUBSET Targets, NEW a \in Authors, NEW hide \in BOOLEAN
  PROVE  NewList(list, a, hide) \in SUBSET Targets
<1>1. EntriesFor(a) \subseteq Targets
  BY DEF Targets
<1> QED
  BY <1>1 DEF NewList

\* What the list has when the write has ended.
LEMMA WrittenTells ==
  ASSUME NEW list, NEW a \in Authors, NEW hid \in SUBSET Authors, NEW seen \in SUBSET Authors,
         \A b \in hid : <<"entity", b>> \in list,
         \A b \in seen : EntriesFor(b) \cap list = {}
  PROVE  /\ \A b \in hid \cup {a} : <<"entity", b>> \in NewList(list, a, TRUE)
         /\ \A b \in seen \ SamePerson(a) : EntriesFor(b) \cap NewList(list, a, TRUE) = {}
         /\ \A b \in hid \ {a} : <<"entity", b>> \in NewList(list, a, FALSE)
         /\ \A b \in seen \cup {a} : EntriesFor(b) \cap NewList(list, a, FALSE) = {}
<1>1. ASSUME NEW b \in Authors
      PROVE  /\ <<"entity", b>> \in EntriesFor(a) <=> b = a
             /\ b \notin SamePerson(a) => EntriesFor(b) \cap EntriesFor(a) = {}
             /\ <<"entity", b>> \in EntriesFor(b)
  BY DEF EntriesFor, SamePerson
<1> QED
  BY <1>1 DEF NewList

\* For any calls: whoever was confirmed hidden is filtered, whoever was shown again is not
\* (personal_block.mjs:22-150, 242-253).
LEMMA PersonalSound == SpecPersonal => [](PersonalTypeOK /\ PersonalListsHold)
<1>1. InitPersonal => PersonalInv
  <2> SUFFICES ASSUME InitPersonal PROVE PersonalInv
    OBVIOUS
  <2>1. NoEdit \in EditShape /\ NoEdit.st = "none"
    BY DEF NoEdit, EditShape
  <2>2. PersonalTypeOK
    BY DEF InitPersonal, PersonalTypeOK
  <2>3. edit \in [Edits -> EditShape] /\ \A o \in Edits : edit[o].st = "none"
    BY <2>1 DEF InitPersonal
  <2>4. \A n \in PersonalLists : hidden[n] = {} /\ shown[n] = {}
    BY DEF InitPersonal
  <2> QED
    BY <2>2, <2>3, <2>4 DEF PersonalInv, ListTells
<1>2. PersonalInv /\ [NextPersonal]_personalVars => PersonalInv'
  <2> SUFFICES ASSUME PersonalInv, [NextPersonal]_personalVars PROVE PersonalInv'
    OBVIOUS
  <2>0. /\ edit \in [Edits -> EditShape] /\ listFile \in [PersonalLists -> SUBSET Targets]
        /\ hidden \in [PersonalLists -> SUBSET Authors] /\ shown \in [PersonalLists -> SUBSET Authors]
        /\ crossed \subseteq PersonalLists
    BY DEF PersonalInv, PersonalTypeOK, Targets
  <2>1. ASSUME NEW o \in Edits, NEW n \in PersonalLists, NEW a \in Authors, NEW hide \in BOOLEAN,
               setPersonal(o, n, a, hide)
        PROVE  PersonalInv'
    <3> DEFINE e == [st |-> "reads", list |-> n, author |-> a, hide |-> hide]
    <3>1. e \in EditShape /\ e.st = "reads" /\ e.list = n
      BY DEF EditShape
    <3>2. edit' = [edit EXCEPT ![o] = e] /\ UNCHANGED <<listFile, hidden, shown>> /\ crossed \subseteq crossed'
          /\ crossed' \subseteq crossed \cup {n}
          /\ (n \notin crossed' => \A q \in Edits : ~(edit[q].st \in {"reads", "writes"} /\ edit[q].list = n))
      BY <2>1 DEF setPersonal
    <3> HIDE DEF e
    <3>3. edit' \in [Edits -> EditShape] /\ \A q \in Edits : edit'[q] = IF q = o THEN e ELSE edit[q]
      BY <2>0, <3>1, <3>2
    <3>4. \A q \in Edits : edit[q].st \in {"none", "reads", "writes"}
      BY <2>0 DEF EditShape
    <3>5. ASSUME NEW m \in PersonalLists \ crossed' PROVE ListTells(m)'
      <4>1. ListTells(m)
        BY <3>2 DEF PersonalInv
      <4>2. \A q \in Edits : edit[q].st # "none" /\ edit[q].list = n => n # m
        BY <3>2, <3>4
      <4>3. \A q, p \in Edits :
               edit'[p].st # "none" /\ edit'[p].list = m /\ edit'[q].st # "none" /\ edit'[q].list = m
                 => p = q
        BY <4>1, <4>2, <3>1, <3>3 DEF ListTells
      <4>4. \A q \in Edits : edit'[q].st = "writes" => edit'[q] = edit[q]
        BY <3>1, <3>3
      <4> QED
        BY <4>1, <4>3, <4>4, <3>2 DEF ListTells
    <3> QED
      BY <2>0, <3>2, <3>3, <3>5 DEF PersonalInv, PersonalTypeOK, Targets
  <2>2. ASSUME NEW o \in Edits, ListRead(o) PROVE PersonalInv'
    <3> DEFINE x == edit[o]
               e == [st |-> "writes", list |-> x.list, author |-> x.author, hide |-> x.hide,
                     next |-> NewList(listFile[x.list], x.author, x.hide)]
    <3>0. x.st = "reads" /\ x.list \in PersonalLists /\ x.author \in Authors /\ x.hide \in BOOLEAN
      BY <2>0, <2>2 DEF EditShape, ListRead
    <3>1. e \in EditShape /\ e.st = "writes" /\ e.list = x.list /\ e.author = x.author /\ e.hide = x.hide
          /\ e.next = NewList(listFile[x.list], x.author, x.hide)
      BY <2>0, <3>0, NewListFits DEF EditShape
    <3>2. edit' = [edit EXCEPT ![o] = e] /\ UNCHANGED <<listFile, hidden, shown, crossed>>
      BY <2>2 DEF ListRead
    <3> HIDE DEF e
    <3>3. edit' \in [Edits -> EditShape] /\ \A q \in Edits : edit'[q] = IF q = o THEN e ELSE edit[q]
      BY <2>0, <3>1, <3>2
    <3>5. ASSUME NEW m \in PersonalLists \ crossed PROVE ListTells(m)'
      <4>1. ListTells(m)
        BY DEF PersonalInv
      <4>2. \A q \in Edits : edit'[q].st # "none" => edit[q].st # "none" /\ edit'[q].list = edit[q].list
        BY <3>0, <3>1, <3>3
      <4>3. \A q \in Edits : edit'[q].st = "writes" /\ edit'[q].list = m =>
              edit'[q].next = NewList(listFile[m], edit'[q].author, edit'[q].hide)
        BY <4>1, <3>1, <3>3 DEF ListTells
      <4> HIDE DEF x
      <4> QED
        BY <4>1, <4>2, <4>3, <3>2 DEF ListTells
    <3> QED
      BY <2>0, <3>2, <3>3, <3>5 DEF PersonalInv, PersonalTypeOK, Targets
  <2>3. ASSUME NEW o \in Edits, edit' = [edit EXCEPT ![o] = NoEdit], edit[o].st \in {"reads", "writes"}
        PROVE  /\ edit' \in [Edits -> EditShape]
               /\ \A q \in Edits : edit'[q] = IF q = o THEN NoEdit ELSE edit[q]
    <3>1. NoEdit \in EditShape
      BY DEF NoEdit, EditShape
    <3> QED
      BY <2>0, <2>3, <3>1
  <2>4. ASSUME NEW o \in Edits, EditFails(o) PROVE PersonalInv'
    <3>1. edit' = [edit EXCEPT ![o] = NoEdit] /\ UNCHANGED <<listFile, hidden, shown, crossed>>
      BY <2>4 DEF EditFails
    <3>2. /\ edit' \in [Edits -> EditShape]
          /\ \A q \in Edits : edit'[q] = IF q = o THEN NoEdit ELSE edit[q]
      BY <2>3, <2>4, <3>1 DEF EditFails
    <3>3. NoEdit.st = "none"
      BY DEF NoEdit
    <3>5. ASSUME NEW m \in PersonalLists \ crossed PROVE ListTells(m)'
      <4>1. ListTells(m)
        BY DEF PersonalInv
      <4> QED
        BY <4>1, <3>1, <3>2, <3>3 DEF ListTells
    <3> QED
      BY <2>0, <3>1, <3>2, <3>5 DEF PersonalInv, PersonalTypeOK, Targets
  <2>5. ASSUME NEW o \in Edits, ListWritten(o) PROVE PersonalInv'
    <3> DEFINE x == edit[o]
               n == x.list
               a == x.author
    <3>0. x.st = "writes" /\ n \in PersonalLists /\ a \in Authors /\ x.hide \in BOOLEAN /\ x.next \in SUBSET Targets
      BY <2>0, <2>5 DEF EditShape, ListWritten
    <3>1. /\ listFile' = [listFile EXCEPT ![n] = x.next]
          /\ hidden' = [hidden EXCEPT ![n] = IF x.hide THEN @ \cup {a} ELSE @ \ {a}]
          /\ shown' = [shown EXCEPT ![n] = IF x.hide THEN @ \ SamePerson(a) ELSE @ \cup {a}]
          /\ edit' = [edit EXCEPT ![o] = NoEdit] /\ UNCHANGED crossed
      BY <2>5 DEF ListWritten
    <3>2. /\ edit' \in [Edits -> EditShape]
          /\ \A q \in Edits : edit'[q] = IF q = o THEN NoEdit ELSE edit[q]
      BY <2>3, <3>0, <3>1
    <3>3. NoEdit.st = "none"
      BY DEF NoEdit
    <3>4. /\ listFile' \in [PersonalLists -> SUBSET Targets]
          /\ hidden' \in [PersonalLists -> SUBSET Authors] /\ shown' \in [PersonalLists -> SUBSET Authors]
          /\ \A m \in PersonalLists \ {n} : listFile'[m] = listFile[m] /\ hidden'[m] = hidden[m] /\ shown'[m] = shown[m]
          /\ listFile'[n] = x.next
          /\ hidden'[n] = IF x.hide THEN hidden[n] \cup {a} ELSE hidden[n] \ {a}
          /\ shown'[n] = IF x.hide THEN shown[n] \ SamePerson(a) ELSE shown[n] \cup {a}
      <4> HIDE DEF n, a
      <4> QED
        BY <2>0, <3>0, <3>1
    <3>5. ASSUME NEW m \in PersonalLists \ crossed PROVE ListTells(m)'
      <4>1. ListTells(m)
        BY DEF PersonalInv
      <4>2. CASE m = n
        <5>1. x.next = NewList(listFile[n], a, x.hide)
          BY <3>0, <4>1, <4>2 DEF ListTells
        <5>2. /\ \A b \in hidden'[n] : <<"entity", b>> \in listFile'[n]
              /\ \A b \in shown'[n] : EntriesFor(b) \cap listFile'[n] = {}
          <6>1. hidden[n] \in SUBSET Authors /\ shown[n] \in SUBSET Authors
            BY <2>0, <3>0
          <6>2. /\ \A b \in hidden[n] : <<"entity", b>> \in listFile[n]
                /\ \A b \in shown[n] : EntriesFor(b) \cap listFile[n] = {}
            BY <4>1, <4>2 DEF ListTells
          <6> DEFINE list == listFile[n]
          <6>3. /\ \A b \in hidden[n] : <<"entity", b>> \in list
                /\ \A b \in shown[n] : EntriesFor(b) \cap list = {}
            BY <6>2
          <6> HIDE DEF list, n, a
          <6>4. /\ \A b \in hidden[n] \cup {a} : <<"entity", b>> \in NewList(list, a, TRUE)
                /\ \A b \in shown[n] \ SamePerson(a) : EntriesFor(b) \cap NewList(list, a, TRUE) = {}
                /\ \A b \in hidden[n] \ {a} : <<"entity", b>> \in NewList(list, a, FALSE)
                /\ \A b \in shown[n] \cup {a} : EntriesFor(b) \cap NewList(list, a, FALSE) = {}
            BY <3>0, <6>1, <6>3, WrittenTells
          <6>5. CASE x.hide = TRUE
            <7>1. listFile'[n] = NewList(list, a, TRUE)
              BY <3>4, <5>1, <6>5 DEF list
            <7> HIDE DEF x
            <7> QED
              BY <3>4, <6>4, <6>5, <7>1
          <6>6. CASE x.hide = FALSE
            <7>1. listFile'[n] = NewList(list, a, FALSE)
              BY <3>4, <5>1, <6>6 DEF list
            <7> HIDE DEF x
            <7> QED
              BY <3>4, <6>4, <6>6, <7>1
          <6> QED
            BY <3>0, <6>5, <6>6
        <5>3. \A q \in Edits : q # o => ~(edit[q].st # "none" /\ edit[q].list = n)
          BY <3>0, <4>1, <4>2 DEF ListTells
        <5>4. \A q \in Edits : ~(edit'[q].st # "none" /\ edit'[q].list = m)
          BY <5>3, <3>2, <3>3, <4>2
        <5>5. \A q \in Edits : ~(edit'[q].st = "writes" /\ edit'[q].list = m)
          BY <5>4
        <5> HIDE DEF n, x, a
        <5> QED
          BY <5>2, <5>4, <5>5, <4>2 DEF ListTells
      <4>3. CASE m # n
        <5>1. listFile'[m] = listFile[m] /\ hidden'[m] = hidden[m] /\ shown'[m] = shown[m]
          BY <3>4, <4>3
        <5>2. \A q \in Edits : edit'[q].st # "none" => edit'[q] = edit[q]
          BY <3>2, <3>3
        <5>3. \A q \in Edits : edit'[q].st = "writes" => edit'[q] = edit[q]
          BY <5>2, <3>2, <3>3
        <5> HIDE DEF n, x, a
        <5> QED
          BY <4>1, <5>1, <5>2, <5>3 DEF ListTells
      <4> QED
        BY <4>2, <4>3
    <3> QED
      BY <2>0, <3>1, <3>2, <3>4, <3>5 DEF PersonalInv, PersonalTypeOK, Targets
  <2>6. CASE UNCHANGED personalVars
    BY <2>6 DEF personalVars, PersonalInv, PersonalTypeOK, ListTells
  <2> QED
    BY <2>1, <2>2, <2>4, <2>5, <2>6 DEF NextPersonal
<1>3. PersonalInv => PersonalTypeOK /\ PersonalListsHold
  <2> SUFFICES ASSUME PersonalInv, NEW n \in PersonalLists \ crossed
               PROVE  /\ \A a \in hidden[n] : FilteredBy(n, a)
                      /\ \A a \in shown[n] : ~FilteredBy(n, a)
    BY DEF PersonalInv, PersonalListsHold
  <2>1. ListTells(n)
    BY DEF PersonalInv
  <2> QED
    BY <2>1 DEF ListTells, FilteredBy, EntriesFor
<1> QED
  BY <1>1, <1>2, <1>3, PTL DEF SpecPersonal

-----------------------------------------------------------------------------
(* The census. *)

\* An event that is not the newest verified is older, and the newest has expired.
EventsAreNew ==
  \A r \in MonitorRelays, n \in Voters :
    /\ events[r][n] <= newest[r][n]
    /\ events[r][n] = newest[r][n] \/ newest[r][n] < floor

\* Only a session has a socket or a timer, and never both; none is left after a stop.
SessionsConnect ==
  /\ \A r \in MonitorRelays : ws[r] # "none" => r \in sessions \ reconnectTimer
  /\ reconnectTimer \subseteq sessions
  /\ stopped => sessions = {} /\ ~refreshDebounce
  /\ ~shownLate

CensusInv ==
  /\ CensusTypeOK
  /\ floor \in Nat
  /\ newest \in [MonitorRelays -> [Voters -> 0..MaxStamp]]
  /\ EventsAreNew
  /\ SessionsConnect

LEMMA NothingFits == Nothing \in [MonitorRelays -> [Voters -> 0..MaxStamp]]
  BY CensusAssumption DEF Nothing

LEMMA CensusInit == ASSUME InitCensus PROVE CensusInv
<1>0. 0 \in 0..MaxStamp /\ Configured \subseteq MonitorRelays
  BY CensusAssumption
<1>1. CensusTypeOK
  BY <1>0, NothingFits DEF InitCensus, CensusTypeOK
<1>2. EventsAreNew
  BY DEF InitCensus, EventsAreNew, Nothing
<1>3. SessionsConnect
  BY <1>0 DEF InitCensus, SessionsConnect
<1> QED
  BY <1>1, <1>2, <1>3, NothingFits DEF InitCensus, CensusInv

\* A verified event takes its place.
LEMMA VerifiedKeeps == ASSUME CensusInv, NEW v \in verifying, Verified(v) PROVE CensusInv'
<1> DEFINE r == v.relay
           n == v.node
           at == v.at
<1>0. /\ r \in MonitorRelays /\ n \in Voters /\ at \in 1..MaxStamp
      /\ events \in [MonitorRelays -> [Voters -> 0..MaxStamp]]
      /\ newest \in [MonitorRelays -> [Voters -> 0..MaxStamp]]
      /\ stopped \in BOOLEAN /\ floor \in Nat /\ MaxStamp \in Nat
  BY CensusAssumption DEF CensusInv, CensusTypeOK
<1>1. /\ verifying' = verifying \ {v}
      /\ IF at >= events[r][n]
         THEN /\ events' = [events EXCEPT ![r][n] = IF stopped THEN @ ELSE at]
              /\ refreshDebounce' = (refreshDebounce \/ ~stopped)
         ELSE UNCHANGED <<events, refreshDebounce>>
      /\ newest' = [newest EXCEPT ![r][n] = IF at > @ /\ ~stopped THEN at ELSE @]
      /\ UNCHANGED <<stopped, sessions, ws, reconnectTimer, discovering, floor, drops, shownLate>>
  BY DEF Verified, Supersedes, MayRefresh
<1> HIDE DEF r, n, at
<1> DEFINE e == IF at >= events[r][n] /\ ~stopped THEN at ELSE events[r][n]
           w == IF at > newest[r][n] /\ ~stopped THEN at ELSE newest[r][n]
<1>2. e \in 0..MaxStamp /\ w \in 0..MaxStamp /\ events[r][n] \in 0..MaxStamp /\ newest[r][n] \in 0..MaxStamp
  BY <1>0
<1>3. /\ events' \in [MonitorRelays -> [Voters -> 0..MaxStamp]]
      /\ newest' \in [MonitorRelays -> [Voters -> 0..MaxStamp]]
      /\ \A q \in MonitorRelays, k \in Voters :
           /\ events'[q][k] = IF q = r /\ k = n THEN e ELSE events[q][k]
           /\ newest'[q][k] = IF q = r /\ k = n THEN w ELSE newest[q][k]
  <2>1. newest' = [newest EXCEPT ![r] = [newest[r] EXCEPT ![n] = w]]
    BY <1>0, <1>1
  <2>2. events' = [events EXCEPT ![r] = [events[r] EXCEPT ![n] = e]]
    BY <1>0, <1>1
  <2> HIDE DEF e, w
  <2> QED
    BY <1>0, <1>2, <2>1, <2>2
<1>4. EventsAreNew'
  <2> SUFFICES ASSUME NEW q \in MonitorRelays, NEW k \in Voters
               PROVE  /\ events'[q][k] <= newest'[q][k]
                      /\ events'[q][k] = newest'[q][k] \/ newest'[q][k] < floor
    BY <1>1 DEF EventsAreNew
  <2>1. /\ events[q][k] <= newest[q][k]
        /\ events[q][k] = newest[q][k] \/ newest[q][k] < floor
    BY DEF CensusInv, EventsAreNew
  <2>2. CASE q = r /\ k = n
    <3>1. events'[q][k] = e /\ newest'[q][k] = w
      BY <1>3, <2>2
    <3>2. /\ events[r][n] <= newest[r][n]
          /\ events[r][n] = newest[r][n] \/ newest[r][n] < floor
      BY <2>1, <2>2
    <3> DEFINE old == events[r][n]
               new == newest[r][n]
    <3>3. old \in Nat /\ new \in Nat /\ at \in Nat /\ floor \in Nat /\ old <= new /\ (old = new \/ new < floor)
      BY <1>0, <1>2, <3>2
    <3> HIDE DEF old, new
    <3>4. CASE stopped
      <4>1. e = old /\ w = new
        BY <3>4 DEF old, new
      <4> QED
        BY <3>1, <3>3, <4>1
    <3>5. CASE ~stopped
      <4>1. e = (IF at >= old THEN at ELSE old) /\ w = (IF at > new THEN at ELSE new)
        BY <3>5 DEF old, new
      <4> QED
        BY <3>1, <3>3, <4>1
    <3> QED
      BY <3>4, <3>5
  <2>3. CASE ~(q = r /\ k = n)
    BY <1>3, <2>1, <2>3
  <2> QED
    BY <2>2, <2>3
<1>5. SessionsConnect'
  BY <1>1 DEF CensusInv, SessionsConnect, CensusTypeOK
<1>6. CensusTypeOK'
  <2>1. refreshDebounce' \in BOOLEAN
    BY <1>1 DEF CensusInv, CensusTypeOK
  <2> QED
    BY <1>1, <1>3, <2>1 DEF CensusInv, CensusTypeOK
<1> QED
  BY <1>0, <1>1, <1>3, <1>4, <1>5, <1>6 DEF CensusInv

LEMMA RefreshKeeps ==
  ASSUME CensusInv, refresh, stopped => refreshDebounce, refreshDebounce' \in BOOLEAN
  PROVE  CensusInv'
<1>0. ~stopped
  BY DEF CensusInv, SessionsConnect
<1>1. /\ events \in [MonitorRelays -> [Voters -> 0..MaxStamp]]
      /\ newest \in [MonitorRelays -> [Voters -> 0..MaxStamp]] /\ floor \in Nat
      /\ 0 \in 0..MaxStamp
  BY CensusAssumption DEF CensusInv, CensusTypeOK
<1>2. /\ events' \in [MonitorRelays -> [Voters -> 0..MaxStamp]]
      /\ \A q \in MonitorRelays, k \in Voters :
           events'[q][k] = IF events[q][k] < floor THEN 0 ELSE events[q][k]
  BY <1>1 DEF refresh
<1>3. EventsAreNew'
  <2> SUFFICES ASSUME NEW q \in MonitorRelays, NEW k \in Voters
               PROVE  /\ events'[q][k] <= newest[q][k]
                      /\ events'[q][k] = newest[q][k] \/ newest[q][k] < floor
    BY DEF EventsAreNew, refresh
  <2>1. /\ events[q][k] <= newest[q][k]
        /\ events[q][k] = newest[q][k] \/ newest[q][k] < floor
        /\ events[q][k] \in Nat /\ newest[q][k] \in Nat
    BY <1>1 DEF CensusInv, EventsAreNew
  <2> QED
    BY <1>1, <1>2, <2>1
<1>4. SessionsConnect' /\ CensusTypeOK'
  BY <1>0, <1>2 DEF CensusInv, SessionsConnect, CensusTypeOK, refresh
<1> QED
  BY <1>1, <1>2, <1>3, <1>4 DEF CensusInv, refresh

\* The event kept of a node is the newest that was verified, only a session has a socket or a
\* reconnection that is due, never both, and a stop ends it all, for any relays and nodes
\* (census_monitor.mjs:140-241, 266-295, 368-385).
LEMMA CensusSound == SpecCensus => [](CensusTypeOK /\ CensusIsSound)
<1>1. CensusInv /\ [NextCensus]_censusVars => CensusInv'
  <2> SUFFICES ASSUME CensusInv, [NextCensus]_censusVars PROVE CensusInv'
    OBVIOUS
  <2> USE DEF CensusInv, CensusTypeOK, EventsAreNew, SessionsConnect
  <2>1. ASSUME NEW r \in MonitorRelays, MonitorOpens(r) PROVE CensusInv'
    BY <2>1 DEF MonitorOpens
  <2>2. ASSUME NEW r \in MonitorRelays, MonitorCloses(r) PROVE CensusInv'
    BY <2>2 DEF MonitorCloses
  <2>3. ASSUME NEW r \in MonitorRelays, ReconnectDue(r) PROVE CensusInv'
    <3>1. ws[r] = "none"
      BY <2>3 DEF ReconnectDue
    <3>2. /\ ws' \in [MonitorRelays -> {"none", "connecting", "open"}]
          /\ \A q \in MonitorRelays : ws'[q] # "none" => ws[q] # "none" \/ q = r
      BY <2>3 DEF ReconnectDue
    <3> QED
      BY <2>3, <3>1, <3>2 DEF ReconnectDue
  <2>4. ASSUME NEW r \in MonitorRelays, NEW n \in Voters, NEW at \in 1..MaxStamp, CensusComes(r, n, at)
        PROVE  CensusInv'
    BY <2>4 DEF CensusComes
  <2>5. ASSUME NEW v \in verifying, NotVerified(v) PROVE CensusInv'
    BY <2>5 DEF NotVerified
  <2>6. CASE TimePasses
    <3>1. floor' \in Nat /\ floor < floor' /\ floor \in Nat
      BY <2>6 DEF TimePasses
    <3>2. \A r \in MonitorRelays, n \in Voters : newest[r][n] \in Nat
      OBVIOUS
    <3>3. \A r \in MonitorRelays, n \in Voters : newest[r][n] < floor => newest[r][n] < floor'
      BY <3>1, <3>2
    <3> QED
      BY <2>6, <3>1, <3>3 DEF TimePasses
  <2>7. CASE DebounceEnds \/ RefreshDue
    <3> USE DEF DebounceEnds, RefreshDue
    <3> QED
      BY <2>7, RefreshKeeps
  <2>8. CASE DiscoveryDue
    BY <2>8 DEF DiscoveryDue
  <2>9. CASE StopMonitor
    <3>1. events' \in [MonitorRelays -> [Voters -> 0..MaxStamp]] /\ newest' = events'
      BY <2>9, NothingFits DEF StopMonitor
    <3>2. EventsAreNew'
      BY <3>1, CensusAssumption
    <3>3. SessionsConnect'
      BY <2>9 DEF StopMonitor
    <3> QED
      BY <2>9, <3>1, <3>2, <3>3 DEF StopMonitor
  <2>10. ASSUME NEW found \in SUBSET MonitorRelays, DiscoveryEnds(found) PROVE CensusInv'
    <3> DEFINE A == Admitted(found)
    <3>1. A \subseteq MonitorRelays \ sessions /\ (stopped => A = {})
      BY DEF Admitted
    <3>2. /\ discovering' = FALSE /\ sessions' = sessions \cup A
          /\ UNCHANGED <<stopped, reconnectTimer, events, verifying, refreshDebounce, floor, drops, newest, shownLate>>
      BY <2>10 DEF DiscoveryEnds
    <3>3. /\ ws' \in [MonitorRelays -> {"none", "connecting", "open"}]
          /\ \A q \in MonitorRelays : ws'[q] # "none" => ws[q] # "none" \/ q \in A
      BY <2>10 DEF DiscoveryEnds
    <3> HIDE DEF A
    <3> QED
      BY <3>1, <3>2, <3>3
  <2>11. CASE UNCHANGED censusVars
    BY <2>11 DEF censusVars
  <2> QED
    BY <2>1, <2>2, <2>3, <2>4, <2>5, <2>6, <2>7, <2>8, <2>9, <2>10, <2>11, VerifiedKeeps DEF NextCensus
<1>2. CensusInv => CensusTypeOK /\ CensusIsSound
  BY DEF CensusInv, CensusIsSound, EventsAreNew, SessionsConnect, CensusTypeOK
<1> QED
  BY <1>1, <1>2, CensusInit, PTL DEF SpecCensus

-----------------------------------------------------------------------------
(* Pulls of reputations. *)

\* A pull that waits has its timer, its promise says how it ended, and only the donor's answers
\* reach it.
PullFits(at, out, timed) ==
  /\ at = "none" => ~timed /\ out = NotYet
  /\ out.st # "open" => ~timed
  /\ out = NotYet \/ out = Rejected \/ (out.st = "answered" /\ out.from = Donor)
  /\ at \in {"sends", "sent"} => timed \/ out # NotYet

PullInv ==
  /\ PullTypeOK /\ outcome = [p \in Pulls |-> outcome[p]]
  /\ \A p \in Pulls : PullFits(pull[p], outcome[p], p \in pendingPulls)
  /\ \A m \in inTransit : m.id \in Pulls
  /\ appHolds => holders > 0
  /\ PullsAreSound

LEMMA PullInit == ASSUME InitPull PROVE PullInv
<1>1. table \in 1..MaxTables /\ \A p \in Pulls : outcome[p] = NotYet /\ outcome[p].st = "open" /\ pull[p] = "none"
  BY PullAssumption DEF InitPull, NotYet
<1>2. PullTypeOK
  BY <1>1 DEF InitPull, PullTypeOK
<1> QED
  BY <1>1, <1>2 DEF InitPull, PullInv, PullsAreSound, PullFits

\* For any calls: a pull ends with the donor's table only, one that waits has its timer and one
\* that has ended leaves none (reputation_sync.mjs:239-247, 272-300).
LEMMA PullSound == SpecPull => [](PullTypeOK /\ PullsAreSound)
<1>1. PullInv /\ [NextPull]_pullVars => PullInv'
  <2> SUFFICES ASSUME PullInv, [NextPull]_pullVars PROVE PullInv'
    OBVIOUS
  <2> USE DEF PullInv, PullFits, PullTypeOK, PullsAreSound, configVars
  <2>1. ASSUME NEW p \in Pulls, pullReputationFromNode(p) PROVE PullInv'
    <3>0. NotYet.st = "open"
      BY DEF NotYet
    <3>1. holders + 1 \in Nat /\ holders + 1 > 0
      OBVIOUS
    <3> QED
      BY <2>1, <3>0, <3>1 DEF pullReputationFromNode
  <2>2. ASSUME NEW p \in Pulls, RequestGoes(p) PROVE PullInv'
    BY <2>2 DEF RequestGoes
  <2>3. ASSUME NEW p \in Pulls, SendDone(p) PROVE PullInv'
    <3>1. Rejected # NotYet /\ Rejected.st = "rejected" /\ NotYet.st = "open"
      BY DEF NotYet, Rejected
    <3> QED
      BY <2>3, <3>1 DEF SendDone
  <2>4. ASSUME NEW p \in Pulls, SendFailed(p) PROVE PullInv'
    BY <2>4 DEF SendFailed, LeftBySend
  <2>5. ASSUME NEW p \in Pulls, PullTimer(p) PROVE PullInv'
    <3>1. Rejected # NotYet /\ Rejected.st = "rejected"
      BY DEF NotYet, Rejected
    <3> QED
      BY <2>5, <3>1 DEF PullTimer, TimedOut
  <2>6. ASSUME NEW p \in Pulls, StrangerAnswers(p) PROVE PullInv'
    <3>1. \A m \in inTransit' : m.id \in Pulls
      BY <2>6 DEF StrangerAnswers
    <3> QED
      BY <2>6, <3>1 DEF StrangerAnswers
  <2>7. ASSUME NEW m \in inTransit, rep_sync_req(m) PROVE PullInv'
    <3>1. \A k \in inTransit' : k.id \in Pulls
      BY <2>7 DEF rep_sync_req
    <3> QED
      BY <2>7, <3>1 DEF rep_sync_req
  <2>8. ASSUME NEW m \in inTransit, rep_sync_res(m) PROVE PullInv'
    <3> DEFINE answered == [st |-> "answered", from |-> m.from, table |-> m.table]
    <3>0. answered # NotYet /\ answered.st = "answered" /\ answered.from = m.from
      BY DEF NotYet
    <3>1. CASE holders > 0 /\ m.id \in pendingPulls /\ IsDonors(m)
      <4>1. /\ pendingPulls' = pendingPulls \ {m.id} /\ outcome' = [outcome EXCEPT ![m.id] = answered]
            /\ pull' = [pull EXCEPT ![m.id] = IF @ = "waits" THEN "done" ELSE @]
            /\ inTransit' = inTransit \ {m} /\ UNCHANGED <<configVars, holders, appHolds, unhandled>>
            /\ m.from = Donor
        BY <2>8, <3>1 DEF rep_sync_res, IsDonors
      <4> HIDE DEF answered
      <4>2. m.id \in Pulls /\ pull[m.id] \in {"sends", "sent", "waits"}
        BY <3>1
      <4>3. \A p \in Pulls :
              /\ outcome'[p] = IF p = m.id THEN answered ELSE outcome[p]
              /\ pull'[p] = IF p = m.id /\ pull[p] = "waits" THEN "done" ELSE pull[p]
              /\ p \in pendingPulls' <=> p \in pendingPulls /\ p # m.id
        BY <4>1
      <4>4. PullTypeOK'
        BY <3>0, <4>1, <4>3
      <4> QED
        BY <3>0, <4>1, <4>2, <4>3, <4>4
    <3>2. CASE ~(holders > 0 /\ m.id \in pendingPulls /\ IsDonors(m))
      BY <2>8, <3>2 DEF rep_sync_res
    <3> QED
      BY <3>1, <3>2
  <2>9. CASE attachReputationSyncWire \/ DisposeSyncWire \/ detachReputationSyncWire \/ DonorChanges
    <3>0. holders \in Nat /\ (appHolds => holders > 0)
      OBVIOUS
    <3>00. holders + 1 \in Nat /\ holders + 1 > 0
      BY <3>0
    <3>1. CASE attachReputationSyncWire
      BY <3>00, <2>9, <3>0, <3>1 DEF attachReputationSyncWire
    <3>2. CASE DisposeSyncWire
      <4>1. holders - 1 \in Nat
        BY <3>2, <3>0 DEF DisposeSyncWire
      <4>2. holders' \in Nat /\ appHolds' = FALSE
        BY <4>1, <3>2 DEF DisposeSyncWire
      <4>3. UNCHANGED <<configVars, pull, pendingPulls, outcome, inTransit, unhandled>>
        BY <3>2 DEF DisposeSyncWire
      <4> QED
        BY <4>2, <4>3
    <3>3. CASE detachReputationSyncWire
      BY <2>9, <3>0, <3>3 DEF detachReputationSyncWire
    <3>4. CASE DonorChanges
      BY <2>9, <3>4, PullAssumption DEF DonorChanges
    <3> QED
      BY <2>9, <3>1, <3>2, <3>3, <3>4
  <2>10. CASE UNCHANGED pullVars
    BY <2>10 DEF pullVars
  <2> QED
    BY <2>1, <2>2, <2>3, <2>4, <2>5, <2>6, <2>7, <2>8, <2>9, <2>10 DEF NextPull
<1> QED
  BY <1>1, PullInit, PTL DEF SpecPull, PullInv

-----------------------------------------------------------------------------
(* The links together. *)

\* Every behaviour of the links is one of each component.
LEMMA LinksAreComponents ==
  SpecLinks => /\ SpecPipe /\ SpecRelay /\ SpecBoot /\ SpecRtc /\ SpecSessions
               /\ SpecLan /\ SpecChannels /\ SpecLanPresence /\ SpecAir /\ SpecScan
               /\ SpecDeny /\ SpecPersonal /\ SpecCensus /\ SpecPull /\ SpecRouting
               /\ SpecFiles /\ SpecStreams /\ SpecGatt
<1>1. InitLinks => /\ InitPipe /\ InitRelay /\ InitBoot /\ InitRtc /\ InitSessions
                   /\ InitLan /\ InitChannels /\ InitLanPresence /\ InitAir /\ InitScan
                   /\ InitDeny /\ InitPersonal /\ InitCensus /\ InitPull /\ InitRouting
                   /\ InitFiles /\ InitStreams /\ InitGatt
  BY Zenon DEF InitLinks
<1>2. [NextLinks]_linksVars => [NextPipe]_pipeVars
  BY Zenon DEF NextLinks, linksVars
<1>3. [NextLinks]_linksVars => [NextRelay]_relayVars
  BY Zenon DEF NextLinks, linksVars
<1>4. [NextLinks]_linksVars => [NextBoot]_bootVars
  BY Zenon DEF NextLinks, linksVars
<1>5. [NextLinks]_linksVars => [NextRtc]_rtcVars
  BY Zenon DEF NextLinks, linksVars
<1>6. [NextLinks]_linksVars => [NextSessions]_sessionVars
  BY Zenon DEF NextLinks, linksVars
<1>7. [NextLinks]_linksVars => [NextLan]_lanVars
  BY Zenon DEF NextLinks, linksVars
<1>8. [NextLinks]_linksVars => [NextChannels]_channelVars
  BY Zenon DEF NextLinks, linksVars
<1>9. [NextLinks]_linksVars => [NextLanPresence]_lanPresenceVars
  BY Zenon DEF NextLinks, linksVars
<1>10. [NextLinks]_linksVars => [NextAir]_airVars
  BY Zenon DEF NextLinks, linksVars
<1>11. [NextLinks]_linksVars => [NextScan]_scanVars
  BY Zenon DEF NextLinks, linksVars
<1>12. [NextLinks]_linksVars => [NextDeny]_denyVars
  BY Zenon DEF NextLinks, linksVars
<1>13. [NextLinks]_linksVars => [NextPersonal]_personalVars
  BY Zenon DEF NextLinks, linksVars
<1>14. [NextLinks]_linksVars => [NextCensus]_censusVars
  BY Zenon DEF NextLinks, linksVars
<1>15. [NextLinks]_linksVars => [NextPull]_pullVars
  BY Zenon DEF NextLinks, linksVars
<1>16. [NextLinks]_linksVars => [NextRouting]_routingVars
  BY Zenon DEF NextLinks, linksVars
<1>17. [NextLinks]_linksVars => [NextFiles]_fileVars
  BY Zenon DEF NextLinks, linksVars
<1>18. [NextLinks]_linksVars => [NextStreams]_streamVars
  BY Zenon DEF NextLinks, linksVars
<1>19. [NextLinks]_linksVars => [NextGatt]_gattVars
  BY Zenon DEF NextLinks, linksVars
<1> QED
  BY <1>1, <1>2, <1>3, <1>4, <1>5, <1>6, <1>7, <1>8, <1>9, <1>10, <1>11, <1>12,
     <1>13, <1>14, <1>15, <1>16, <1>17, <1>18, <1>19, PTL
  DEF SpecLinks, SpecPipe, SpecRelay, SpecBoot, SpecRtc, SpecSessions, SpecLan, SpecChannels,
      SpecLanPresence, SpecAir, SpecScan, SpecDeny, SpecPersonal, SpecCensus, SpecPull,
      SpecRouting, SpecFiles, SpecStreams, SpecGatt

\* Until the first shutdown no listener of discovery runs that nothing can stop; at all times
\* the multicast socket in use is the only one open, and what is believed of the Bluetooth
\* radio is so once it is at rest (runtime_bootstrap.mjs:230-360, lan.mjs:123-283,
\* bt/index.mjs:205-386).
THEOREM LinksListen == SpecLinks => []ListenersAreHeld
<1>1. HeldListeners /\ LanIsTidy /\ AdvertFollows /\ InspectedOnce => ListenersAreHeld
  BY DEF ListenersAreHeld
<1> QED
  BY <1>1, LinksAreComponents, BootSound, LanPresenceSound, AirSound, ScanSound, PTL

\* Signals reach the session they are for, and an answer the rung it was asked on
\* (offer_answer.mjs:25-166, webrtc.mjs:255-640).
THEOREM LinksShakeHands == SpecLinks => []HandshakesAreClean
<1>1. LadderIsClean /\ SignalsAreHeard => HandshakesAreClean
  BY DEF HandshakesAreClean
<1> QED
  BY <1>1, LinksAreComponents, RtcSound, SessionsSound, PTL

\* What a node keeps about others is what it was told (denylist.mjs, personal_block.mjs,
\* reputation_sync.mjs:239-300, census_monitor.mjs).
THEOREM LinksReport == SpecLinks => []ReportsHold
<1>1. DenyHolds /\ PersonalListsHold /\ PullsAreSound /\ CensusIsSound => ReportsHold
  BY DEF ReportsHold
<1> QED
  BY <1>1, LinksAreComponents, DenySound, PersonalSound, PullSound, CensusSound, PTL

\* What goes over a socket, a data channel, relays or Bluetooth arrives whole, in order and
\* from whom it says, and a file that is cut on its way is put together again (lan_tcp.mjs:54-348,
\* channel_mux.mjs:115-205, selection.mjs, ble_gatt.mjs:70-302, assemble_stream.mjs:25-181).
THEOREM LinksCarry == SpecLinks => []TransportsCarry
<1>1. LanIsSound /\ QueuesNeverStall /\ RoutingIsSound /\ GattIsSound /\ StreamsAreWhole => TransportsCarry
  BY DEF TransportsCarry
<1> QED
  BY <1>1, LinksAreComponents, LanSound, ChannelsSound, RoutingSound, GattSound, StreamsSound, PTL

\* The variables of the chosen component keep their shape, as all others do.
THEOREM LinksTyped == SpecLinks => []LinksTypeOK
<1>1. /\ PipeTypeOK /\ RelayTypeOK /\ BootTypeOK /\ RtcTypeOK /\ SessionsTypeOK /\ LanTypeOK
      /\ ChannelsTypeOK /\ LanPresenceTypeOK /\ AirTypeOK /\ ScanTypeOK /\ DenyTypeOK
      /\ PersonalTypeOK /\ CensusTypeOK /\ PullTypeOK /\ RoutingTypeOK /\ FilesTypeOK
      /\ StreamsTypeOK /\ GattTypeOK
      => LinksTypeOK
  BY Zenon DEF LinksTypeOK
<1> QED
  BY <1>1, LinksAreComponents, PipeTyped, RelayTyped, BootSound, RtcSound, SessionsSound, LanSound,
     ChannelsSound, LanPresenceSound, AirSound, ScanSound, DenySound, PersonalSound, CensusSound,
     PullSound, RoutingSound, FilesTyped, StreamsSound, GattSound, PTL
=============================================================================
