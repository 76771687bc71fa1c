----------------------------- MODULE FetchTable -----------------------------
(***************************************************************************)
(* Shared fetches of chunks and manifests: the table of fetches in flight  *)
(* (utils/inflight_table.mjs), which lets later callers share an earlier   *)
(* fetch, on top of the table of pending answers (utils/fetch_wait.mjs),   *)
(* as files/fed/fetch_shared.mjs joins them.                               *)
(***************************************************************************)
EXTENDS Naturals, Sequences, SequencesExt

CONSTANTS
  Keys,         \* what is fetched
  Fetchers,     \* calls of fetchChunk or fetchManifest
  MaxInflight,  \* entries of the table (maxSize)
  MaxFetches    \* bound: requests sent

ASSUME FetchAssumption == MaxInflight \in Nat \ {0} /\ MaxFetches \in Nat

VARIABLES
  inflightTable,  \* the entries, the least recently acquired first: key, request, whether it is aged
  wait,           \* of each request: unused, pending, or how it was settled
  finally,        \* requests that are settled and whose entry is still to be looked at
  fetcher         \* what each call waits for or got

fetchVars == <<inflightTable, wait, finally, fetcher>>

Fetches == 1..MaxFetches
NoFetch == 0

InitFetch ==
  /\ inflightTable = <<>>
  /\ wait = [f \in Fetches |-> "unused"]
  /\ finally = {}
  /\ fetcher = [c \in Fetchers |-> [st |-> "new", key |-> NoFetch, on |-> NoFetch]]

\* pruneAgedOverCap: how many entries go while the table is full, none from the first that
\* is not aged.
AgedHeads(t) ==
  Cardinality({n \in DOMAIN t : n <= Len(t) - MaxInflight + 1 /\ \A i \in 1..n : t[i].aged})

\* settle of the requests, if they are pending: done resolves, and finally runs later.
Settles(fs, how) ==
  LET due == {f \in fs : wait[f] = "pending"}
  IN /\ wait' = [f \in Fetches |-> IF f \in due THEN how ELSE wait[f]]
     /\ finally' = finally \cup due

RequestsOf(t) == {t[i].request : i \in DOMAIN t}

\* acquire of a key in the table: it becomes the most recent, and aged entries of a full
\* table are cancelled, which may hit the entry itself.
Reuse(c, k) ==
  LET at == CHOOSE i \in DOMAIN inflightTable : inflightTable[i].key = k
      entry == inflightTable[at]
      moved == Append(RemoveAt(inflightTable, at), entry)
      gone == AgedHeads(moved)
  IN /\ \E i \in DOMAIN inflightTable : inflightTable[i].key = k
     /\ inflightTable' = SubSeq(moved, gone + 1, Len(moved))
     /\ Settles(RequestsOf(SubSeq(moved, 1, gone)), "cancelled")
     /\ fetcher' = [fetcher EXCEPT ![c] = [st |-> "waits", key |-> k, on |-> entry.request]]

\* acquire of another key: refused when the table stays full, else a request is registered
\* and sent to the peers.
Begin(c, k) ==
  LET gone == AgedHeads(inflightTable)
      left == SubSeq(inflightTable, gone + 1, Len(inflightTable))
      cut == RequestsOf(SubSeq(inflightTable, 1, gone)) \cap {f \in Fetches : wait[f] = "pending"}
      free == {f \in Fetches : wait[f] = "unused"}
      new == Min(free)
      begins == Len(left) < MaxInflight
  IN /\ \A i \in DOMAIN inflightTable : inflightTable[i].key # k
     /\ begins => free # {}
     /\ inflightTable' = IF begins
                         THEN Append(left, [key |-> k, request |-> new, aged |-> FALSE])
                         ELSE left
     /\ fetcher' = [fetcher EXCEPT ![c] = IF begins THEN [st |-> "waits", key |-> k, on |-> new]
                                          ELSE [@ EXCEPT !.st = "refused"]]
     /\ wait' = [f \in Fetches |-> IF f \in cut THEN "cancelled"
                                   ELSE IF begins /\ f = new THEN "pending" ELSE wait[f]]
     /\ finally' = finally \cup cut

\* fetchChunk and fetchManifest; what is on disk is answered without the table.
Acquire(c, k) == fetcher[c].st = "new" /\ (Reuse(c, k) \/ Begin(c, k))

\* A verified answer of a peer, or the timer: whoever comes first.
Answer(f) ==
  /\ wait[f] = "pending"
  /\ Settles({f}, "answered")
  /\ UNCHANGED <<inflightTable, fetcher>>

WaitTimeout(f) ==
  /\ wait[f] = "pending"
  /\ Settles({f}, "timeout")
  /\ UNCHANGED <<inflightTable, fetcher>>

EntryOfRequest(f) == {i \in DOMAIN inflightTable : inflightTable[i].request = f}

\* Mutant of EntriesToDrop: whatever entry has the key.
EntriesOfKey(f) ==
  {i \in DOMAIN inflightTable : \E c \in Fetchers : fetcher[c].on = f /\ fetcher[c].key = inflightTable[i].key}

EntriesToDrop(f) == EntryOfRequest(f)

\* The finally of a settled request: its entry goes, unless another has taken the key.
Finally(f) ==
  /\ f \in finally
  /\ finally' = finally \ {f}
  /\ inflightTable' = IF EntriesToDrop(f) = {} THEN inflightTable
                      ELSE RemoveAt(inflightTable, CHOOSE i \in EntriesToDrop(f) : TRUE)
  /\ UNCHANGED <<wait, fetcher>>

\* Who awaited the shared promise goes on.
FetchReturns(c) ==
  LET f == fetcher[c].on
  IN /\ fetcher[c].st = "waits"
     /\ wait[f] # "pending"
     /\ fetcher' = [fetcher EXCEPT ![c].st = IF wait[f] = "answered" THEN "got" ELSE "missed"]
     /\ UNCHANGED <<inflightTable, wait, finally>>

\* An entry is as old as the base timeout.
EntryAges(i) ==
  /\ i \in DOMAIN inflightTable /\ ~inflightTable[i].aged
  /\ inflightTable' = [inflightTable EXCEPT ![i].aged = TRUE]
  /\ UNCHANGED <<wait, finally, fetcher>>

NextFetch ==
  \/ \E c \in Fetchers : FetchReturns(c) \/ \E k \in Keys : Acquire(c, k)
  \/ \E f \in Fetches : Answer(f) \/ WaitTimeout(f) \/ Finally(f)
  \/ \E i \in 1..MaxInflight : EntryAges(i)

SpecFetch == InitFetch /\ [][NextFetch]_fetchVars

-----------------------------------------------------------------------------
(* Properties. *)

\* Types of the state.
FetchTypeOK ==
  /\ inflightTable \in Seq([key : Keys, request : Fetches, aged : BOOLEAN])
  /\ Len(inflightTable) <= MaxInflight
  /\ \A f \in Fetches : wait[f] \in {"unused", "pending", "answered", "timeout", "cancelled"}
  /\ finally \subseteq Fetches
  /\ \A c \in Fetchers : fetcher[c].st \in {"new", "waits", "refused", "got", "missed"}

\* No key is fetched twice at a time: a request that is still pending has its entry in the
\* table, whatever was settled, cancelled and begun again meanwhile
\* (inflight_table.mjs:26-47, 65-85).
OneFetchPerKey ==
  /\ \A f \in Fetches : wait[f] = "pending" => EntryOfRequest(f) # {}
  /\ \A i, j \in DOMAIN inflightTable : inflightTable[i].key = inflightTable[j].key => i = j
=============================================================================
