------------------------------- MODULE Timeline -------------------------------
(***************************************************************************)
(* One append-only timeline on several nodes: appending with a hybrid      *)
(* logical clock, receiving rows of others, pruning after a checkpoint,    *)
(* and the order of the events with its cache on disk (timeline/,          *)
(* core/hlc.mjs, dag/index.mjs, federation/dag_order_cache.mjs).  What     *)
(* rows arrive, and when the order is asked for, is the application's.     *)
(***************************************************************************)
EXTENDS Naturals, FiniteSets, SequencesExt

CONSTANTS
  Writers,    \* the nodes: numbers, as their hashes are compared
  Readers,    \* those whose application asks for the order, or prunes
  MaxEvents,  \* bound: events
  MaxWall     \* bound: clocks

ASSUME TimelineAssumption == Readers \subseteq Writers /\ Writers \subseteq Nat /\ MaxEvents \in Nat /\ MaxWall \in Nat \ {0}

VARIABLES
  event,  \* the events made so far, by id
  file,   \* events.jsonl of each node
  wall,   \* its clock
  cache   \* its events.order.json (late is history: a parent has been merged into an order
          \* that had its child)

timelineVars == <<event, file, wall, cache>>

Ids == 1..MaxEvents
NoCache == [order |-> <<>>, tips |-> {}, count |-> 0, late |-> FALSE]

InitTimeline ==
  /\ event = <<>>
  /\ file = [n \in Writers |-> <<>>]
  /\ wall = [n \in Writers |-> 1]
  /\ cache = [n \in Writers |-> NoCache]

Rows(n) == Range(file[n])

\* computeDagTipIdsFromEvents
Tips(S) == {e \in S : \A f \in S : e \notin event[f].prev}

\* compareIds of the canonical order.
Before(a, b) ==
  LET e == event[a]
      f == event[b]
  IN \/ e.wall < f.wall
     \/ e.wall = f.wall /\ e.logical < f.logical
     \/ e.wall = f.wall /\ e.logical = f.logical /\ e.node < f.node
     \/ e.wall = f.wall /\ e.logical = f.logical /\ e.node = f.node /\ a < b

\* topologicalCanonicalOrder: of the events whose parents here are out, the first.
Canonical(S) ==
  LET Ready(out) == {e \in S \ out : event[e].prev \cap S \subseteq out}
      First(ready) == CHOOSE e \in ready : \A f \in ready \ {e} : Before(e, f)
      prefix[k \in 0..Cardinality(S)] ==
        IF k = 0 THEN <<>>
        ELSE Append(prefix[k - 1], First(Ready(Range(prefix[k - 1]))))
  IN prefix[Cardinality(S)]

\* mergeTopologicalOrder: insertAt starts at the end, so that new events go there.  Its
\* filter keeps all of the order: the caller looked.
Merged(order, S) == order \o Canonical(S \ Range(order))

\* Mutant of Hits: as many events are taken to be the same events.
HitsByCount(c, S) == c.order # <<>> /\ c.count = Cardinality(S)

\* The cached order is the answer as it is.
Hits(c, S) ==
  c.order # <<>> /\ c.tips = Tips(S) /\ c.count = Cardinality(S)
    /\ Len(c.order) = Cardinality(S) /\ Range(c.order) \subseteq S

\* The cached order is the beginning of the answer.
Merges(c, S) == c.order # <<>> /\ c.count <= Cardinality(S) /\ Range(c.order) \subseteq S

\* resolveEventTopologicalOrder
Resolved(c, S) ==
  IF Hits(c, S) THEN c.order ELSE IF Merges(c, S) THEN Merged(c.order, S) ELSE Canonical(S)

\* nextHlc: the last row's clock and the wall clock, merged.
NextHlc(last, now) ==
  IF now > last.wall THEN [wall |-> now, logical |-> 0]
  ELSE [wall |-> last.wall, logical |-> last.logical + 1]

-----------------------------------------------------------------------------
(* Actions. *)

\* Bound: the first clock to reach MaxWall stops all of them.
WallTicks(n) ==
  /\ \A m \in Writers : wall[m] < MaxWall
  /\ wall' = [wall EXCEPT ![n] = @ + 1]
  /\ UNCHANGED <<event, file, cache>>

\* computeAppendHlcAndPrev and the append: all tips are parents, the clock follows the last row.
AppendEvent(n) ==
  LET id == Cardinality(DOMAIN event) + 1
      hlc == IF file[n] = <<>> THEN [wall |-> wall[n], logical |-> 0]
             ELSE NextHlc(event[Last(file[n])], wall[n])
      made == [prev |-> Tips(Rows(n)), wall |-> hlc.wall, logical |-> hlc.logical, node |-> n]
  IN /\ id \in Ids
     /\ event' = [k \in 1..id |-> IF k = id THEN made ELSE event[k]]
     /\ file' = [file EXCEPT ![n] = Append(@, id)]
     /\ UNCHANGED <<wall, cache>>

\* A row of another node arrives, before or after its parents.
ReceiveRow(n, e) ==
  /\ e \in DOMAIN event \ Rows(n)
  /\ file' = [file EXCEPT ![n] = Append(@, e)]
  /\ UNCHANGED <<event, wall, cache>>

\* The order the node is given now is the cached one, or begins with it, and the cached one
\* has, or the rest brings, a parent behind its child.
Late(n) ==
  LET c == cache[n]
      S == Rows(n)
  IN /\ Hits(c, S) \/ Merges(c, S)
     /\ c.late \/ \E e \in Range(c.order) : event[e].prev \cap (S \ Range(c.order)) # {}

\* The order is asked for, and written to the cache; a write that fails changes nothing.
ResolveOrder(n) ==
  LET S == Rows(n)
  IN /\ n \in Readers /\ S # {}
     /\ cache' = [cache EXCEPT ![n] = [order |-> Resolved(cache[n], S), tips |-> Tips(S),
                                       count |-> Cardinality(S), late |-> Late(n)]]
     /\ UNCHANGED <<event, file, wall>>

\* descendantClosureFromTip
Descendants(S, root) ==
  LET down[k \in 0..Cardinality(S)] ==
        IF k = 0 THEN {root} ELSE down[k - 1] \cup {e \in S : event[e].prev \cap down[k - 1] # {}}
  IN down[Cardinality(S)]

\* The part of an order that is in keep.
KeptOf(order, keep) ==
  LET kept[i \in 0..Len(order)] ==
        IF i = 0 THEN <<>>
        ELSE IF order[i] \in keep THEN Append(kept[i - 1], order[i])
        ELSE kept[i - 1]
  IN kept[Len(order)]

\* pruneEventsJsonlAfterCheckpoint: the checkpoint and what descends from it stay, in order.
Prune(n, root) ==
  LET keep == Descendants(Rows(n), root)
  IN /\ n \in Readers /\ root \in Rows(n) /\ keep # Rows(n)
     /\ file' = [file EXCEPT ![n] = KeptOf(Canonical(Rows(n)), keep)]
     /\ UNCHANGED <<event, wall, cache>>

NextTimeline ==
  \E n \in Writers :
    \/ WallTicks(n) \/ AppendEvent(n) \/ ResolveOrder(n)
    \/ \E e \in Ids : ReceiveRow(n, e) \/ Prune(n, e)

SpecTimeline == InitTimeline /\ [][NextTimeline]_timelineVars

-----------------------------------------------------------------------------
(* Properties. *)

\* Types of the state.
TimelineTypeOK ==
  /\ DOMAIN event \subseteq Ids
  /\ \A e \in DOMAIN event : event[e].prev \subseteq 1..(e - 1)
  /\ wall \in [Writers -> 1..MaxWall]
  /\ \A n \in Writers : Rows(n) \subseteq DOMAIN event /\ IsInjective(file[n])

\* Whoever asks gets exactly the events there are, and parents first, unless a parent came
\* after the cache had its child (dag_order_cache.mjs:21-71).
OrderIsTopological ==
  \A n \in Readers :
    LET order == Resolved(cache[n], Rows(n))
    IN /\ Len(order) = Cardinality(Rows(n)) /\ Range(order) = Rows(n)
       /\ ~Late(n) => \A i, j \in 1..Len(order) : order[i] \in event[order[j]].prev => i < j

-----------------------------------------------------------------------------
(***************************************************************************)
(* A JSONL file under its mutex (dag/storage.mjs, utils/async_mutex.mjs,   *)
(* utils/atomic_fs.mjs), as the mailbox store and the timelines use it:    *)
(* appends with fsync, read-modify-write through a temporary file, a       *)
(* process that may crash between any two awaits, a cleanup that removes   *)
(* the directory under them.                                               *)
(***************************************************************************)

CONSTANTS
  Tasks,       \* calls; call t appends or stores row t
  MaxRows,     \* what pruning leaves
  MaxCrashes   \* bound: crashes, and removals of the directory

ASSUME JsonlAssumption == MaxRows \in Nat \ {0} /\ MaxCrashes \in Nat

Kinds == {"append", "store", "delete", "rewrite"}

VARIABLES
  rows,     \* the rows a reader of the file gets (their order is left out)
  torn,     \* the file ends within a line
  queue,    \* the mutex: its holder first, then its queue
  call,     \* each call: its kind, the row it is about, the await it stands at
  temp,     \* what it has read, and then written to its temporary file
  crashes,   \* crashes and removals so far
  synced,    \* history: rows a reader could get when their call returned
  gone       \* history: rows a call has left out of what it had read

jsonlVars == <<rows, torn, queue, call, temp, crashes, synced, gone>>

InitJsonl ==
  /\ rows = {} /\ torn = FALSE
  /\ queue = <<>>
  /\ call = [t \in Tasks |-> [kind |-> "append", row |-> t, at |-> "no"]]
  /\ temp = [t \in Tasks |-> {}]
  /\ crashes = 0
  /\ synced = {} /\ gone = {}

At(t, kinds, at) == call[t].kind \in kinds /\ call[t].at = at
MovesTo(t, at) == call' = [call EXCEPT ![t].at = at]

\* withAsyncMutex: behind the holder and those that wait.
CallJsonl(t, kind, row) ==
  /\ call[t].at = "no"
  /\ kind \in {"append", "store"} => row = t
  /\ call' = [call EXCEPT ![t] = [kind |-> kind, row |-> row, at |-> "waits"]]
  /\ queue' = Append(queue, t)
  /\ UNCHANGED <<rows, torn, temp, crashes, synced, gone>>

\* Mutant of Holder: nobody waits.
Anybody(t) == TRUE

\* releaseMutex runs the first that waits.
Holder(t) == queue # <<>> /\ Head(queue) = t

Releases == queue' = Tail(queue)

-----------------------------------------------------------------------------
(* appendJsonlSynced *)

\* The line is in the file; behind a torn one it is part of that, and both are unreadable.
AppendLine(t) ==
  /\ At(t, {"append"}, "waits") /\ Holder(t)
  /\ rows' = IF torn THEN rows ELSE rows \cup {t}
  /\ torn' = FALSE
  /\ MovesTo(t, "unsynced")
  /\ UNCHANGED <<queue, temp, crashes, synced, gone>>

\* It returns whether the row is still in a file of this name or not.
AppendSynced(t) ==
  /\ call[t].kind = "append" /\ call[t].at \in {"unsynced", "unlinked"}
  /\ synced' = synced \cup ({t} \cap rows)
  /\ MovesTo(t, "done") /\ Releases
  /\ UNCHANGED <<rows, torn, temp, crashes, gone>>

-----------------------------------------------------------------------------
(* storeMailboxRecord, deleteMailboxRecords, rewriteJsonlKeeping *)

ReadAll(t) ==
  /\ At(t, Kinds \ {"append"}, "waits") /\ Holder(t)
  /\ temp' = [temp EXCEPT ![t] = rows]
  /\ MovesTo(t, "read")
  /\ UNCHANGED <<rows, torn, queue, crashes, synced, gone>>

\* storeMailboxRecord of what is there already, and a rewrite that drops nothing.
Nothing(t) ==
  LET r == call[t].row
  IN /\ call[t].at = "read"
     /\ \/ call[t].kind = "store" /\ r \in temp[t]
        \/ call[t].kind = "rewrite" /\ r \notin temp[t] /\ ~torn
     /\ MovesTo(t, "done") /\ Releases
     /\ UNCHANGED <<rows, torn, temp, crashes, synced, gone>>

\* writeAll leaves at most MaxRows: what has expired goes, and what retention ranks last,
\* the row just stored not excepted.
Pruned(rs) == {keep \in SUBSET rs : Cardinality(keep) <= MaxRows}

\* What a call may write; a rewrite does not prune.
NewRows(t) ==
  LET old == temp[t]
      r == call[t].row
  IN CASE call[t].kind = "store" -> Pruned(old \cup {r})
       [] call[t].kind = "delete" -> Pruned(old \ {r})
       [] OTHER -> {old \ {r}}

WriteTemporary(t) ==
  /\ call[t].at = "read"
  /\ call[t].kind = "store" => call[t].row \notin temp[t]
  /\ call[t].kind = "rewrite" => call[t].row \in temp[t] \/ torn
  /\ \E new \in NewRows(t) :
       /\ temp' = [temp EXCEPT ![t] = new]
       /\ gone' = gone \cup (temp[t] \ new)
  /\ MovesTo(t, "written")
  /\ UNCHANGED <<rows, torn, queue, crashes, synced>>

\* finalizeAtomicRename: whole or not at all; a failure is thrown to the caller.
RenameTemporary(t, ok) ==
  /\ call[t].at = "written"
  /\ MovesTo(t, "done") /\ Releases
  /\ IF ok
     THEN /\ rows' = temp[t]
          /\ torn' = FALSE
          /\ synced' = IF call[t].kind = "store" THEN synced \cup ({t} \cap rows') ELSE synced
     ELSE UNCHANGED <<rows, torn, synced>>
  /\ UNCHANGED <<temp, crashes, gone>>

\* The temporary file is not there any more (ENOENT): finalizeAtomicRename returns false, which
\* writeJsonlLines and rewriteJsonlKeeping do not look at, and the call returns as if it had written.
RenameMissing(t) ==
  /\ At(t, Kinds \ {"append"}, "unlinked")
  /\ MovesTo(t, "done") /\ Releases
  /\ UNCHANGED <<rows, torn, temp, crashes, synced, gone>>

-----------------------------------------------------------------------------

\* The process dies: calls under way are over, and a line that was not synced may be whole,
\* torn or absent.
CrashJsonl ==
  LET open == {t \in Tasks : At(t, {"append"}, "unsynced")}
      begun == {t \in Tasks : At(t, {"append"}, "waits") /\ Holder(t)}
  IN /\ crashes < MaxCrashes
     /\ crashes' = crashes + 1
     /\ \E lose \in BOOLEAN, tear \in BOOLEAN :
          /\ rows' = IF lose THEN rows \ open ELSE rows
          /\ torn' = (torn \/ (tear /\ (begun # {} \/ (lose /\ open # {}))))
     /\ call' = [t \in Tasks |->
          IF call[t].at \in {"no", "done"} THEN call[t] ELSE [call[t] EXCEPT !.at = "done"]]
     /\ queue' = <<>>
     /\ UNCHANGED <<temp, synced, gone>>

\* A cleanup removes the directory, under the calls too: what they have written is in no file, and
\* no row is promised any more.  A call that has only read writes what it read into a new one.
DirectoryRemoved ==
  /\ crashes < MaxCrashes
  /\ crashes' = crashes + 1
  /\ rows' = {} /\ torn' = FALSE
  /\ call' = [t \in Tasks |->
       IF call[t].at \in {"unsynced", "written"} THEN [call[t] EXCEPT !.at = "unlinked"] ELSE call[t]]
  /\ synced' = {}
  /\ UNCHANGED <<queue, temp, gone>>

NextJsonl ==
  \/ \E t \in Tasks :
       \/ \E kind \in Kinds, row \in Tasks : CallJsonl(t, kind, row)
       \/ AppendLine(t) \/ AppendSynced(t)
       \/ ReadAll(t) \/ Nothing(t) \/ WriteTemporary(t)
       \/ RenameMissing(t)
       \/ \E ok \in BOOLEAN : RenameTemporary(t, ok)
  \/ CrashJsonl \/ DirectoryRemoved

SpecJsonl == InitJsonl /\ [][NextJsonl]_jsonlVars

-----------------------------------------------------------------------------
(* Properties. *)

\* Types of the state.
JsonlTypeOK ==
  /\ rows \subseteq Tasks /\ torn \in BOOLEAN
  /\ queue \in Seq(Tasks)
  /\ \A t \in Tasks :
       /\ call[t].kind \in Kinds /\ call[t].row \in Tasks
       /\ call[t].at \in {"no", "waits", "unsynced", "read", "written", "unlinked", "done"}

\* A row that was in the file when its append or store returned stays there, through crashes and
\* through whatever other calls read and write meanwhile, until one deletes or prunes it or
\* the directory is removed (dag/storage.mjs:216-284, mailbox/store.mjs:147-200).  A call may
\* return and its row not be in the file: behind a torn line, or after RenameMissing.
ReturnedRowsStay == synced \ gone \subseteq rows
=============================================================================
