------------------------------ MODULE ChunkStore ------------------------------
(***************************************************************************)
(* Files as manifests over a content-addressed chunk store                 *)
(* (files/evfs.mjs, files/chunk/store.mjs, node/entity_store.mjs), and its *)
(* garbage collection (files/gc.mjs).  Writes and deletions of chunks take *)
(* one mutex; the scan of the collection and the readers take none.        *)
(***************************************************************************)
EXTENDS Naturals, SequencesExt

CONSTANTS
  Chunks,       \* hashes of ciphertext blocks
  Paths,        \* logical paths
  Contents,     \* what a file may hold: sequences of chunks
  Putters,      \* calls of putFileManifest, one after another each
  MaxPuts,      \* bound: files put
  MaxGcs,       \* bound: collections run
  MaxStoreCrashes

Collector == "gc"

ASSUME ChunkAssumption ==
  /\ Collector \notin Putters
  /\ Contents \subseteq Seq(Chunks) \ {<<>>}
  /\ {MaxPuts, MaxGcs, MaxStoreCrashes} \subseteq Nat

VARIABLES
  chunk,      \* each chunk file: absent, torn or whole
  manifest,   \* what each path holds; NoFile without a manifest
  storeLock,  \* the mutex: its holder first, then its queue
  put,        \* each putter: where it stands, its path, what it stores, the parts stored
  puts,
  gc,         \* the collection: where it stands, the paths still to read, the chunks found
              \* referenced, the broken manifests, the chunks to delete
  gcs,
  reader,     \* a reader: the content it assembles, where it stands
  storeCrashes,
  untouched   \* history: the paths nobody has written or deleted since the collection began

chunkVars == <<chunk, manifest, storeLock, put, puts, gc, gcs, reader, storeCrashes, untouched>>

NoFile == <<>>
IdlePut == [at |-> "idle", path |-> "none", content |-> NoFile, stored |-> 0]
IdleGc == [at |-> "idle", paths |-> {}, referenced |-> {}, broken |-> {}, candidates |-> {}]
IdleReader == [at |-> "idle", content |-> NoFile, next |-> 0]

InitChunks ==
  /\ chunk = [h \in Chunks |-> "absent"]
  /\ manifest = [p \in Paths |-> NoFile]
  /\ storeLock = <<>>
  /\ put = [w \in Putters |-> IdlePut] /\ puts = 0
  /\ gc = IdleGc /\ gcs = 0
  /\ reader = IdleReader
  /\ storeCrashes = 0 /\ untouched = {}

\* withChunkStoreLock
StoreHolder(who) == storeLock # <<>> /\ Head(storeLock) = who

-----------------------------------------------------------------------------
(* putFileManifest: the parts one by one, each under the mutex, then the manifest. *)

PutStarts(w, p, content) ==
  /\ put[w].at = "idle" /\ puts < MaxPuts
  /\ put' = [put EXCEPT ![w] = [at |-> "waits", path |-> p, content |-> content, stored |-> 0]]
  /\ storeLock' = Append(storeLock, w)
  /\ puts' = puts + 1
  /\ UNCHANGED <<chunk, manifest, gc, gcs, reader, storeCrashes, untouched>>

\* writeFile truncates the file, also one that is there already.
PartBegins(w) ==
  /\ put[w].at = "waits" /\ StoreHolder(w)
  /\ chunk' = [chunk EXCEPT ![put[w].content[put[w].stored + 1]] = "torn"]
  /\ put' = [put EXCEPT ![w].at = "writes"]
  /\ UNCHANGED <<manifest, storeLock, puts, gc, gcs, reader, storeCrashes, untouched>>

\* The part is written: the mutex goes on, and the next part takes its place in the queue.
PartEnds(w) ==
  LET last == put[w].stored + 1 = Len(put[w].content)
  IN /\ put[w].at = "writes"
     /\ chunk' = [chunk EXCEPT ![put[w].content[put[w].stored + 1]] = "whole"]
     /\ put' = [put EXCEPT ![w].at = IF last THEN "saves" ELSE "waits", ![w].stored = @ + 1]
     /\ storeLock' = IF last THEN Tail(storeLock) ELSE Append(Tail(storeLock), w)
     /\ UNCHANGED <<manifest, puts, gc, gcs, reader, storeCrashes, untouched>>

\* saveFileManifest, through a temporary file and a rename; no mutex.
ManifestSaved(w) ==
  /\ put[w].at = "saves"
  /\ manifest' = [manifest EXCEPT ![put[w].path] = put[w].content]
  /\ untouched' = untouched \ {put[w].path}
  /\ put' = [put EXCEPT ![w] = IdlePut]
  /\ UNCHANGED <<chunk, storeLock, puts, gc, gcs, reader, storeCrashes>>

DeleteFileManifest(p) ==
  /\ manifest[p] # NoFile
  /\ manifest' = [manifest EXCEPT ![p] = NoFile]
  /\ untouched' = untouched \ {p}
  /\ UNCHANGED <<chunk, storeLock, put, puts, gc, gcs, reader, storeCrashes>>

-----------------------------------------------------------------------------
(* cleanChunkGarbage without targets. *)

GcLists ==
  /\ gc.at = "idle" /\ gcs < MaxGcs
  /\ gcs' = gcs + 1
  /\ gc' = [IdleGc EXCEPT !.at = "reads", !.paths = {p \in Paths : manifest[p] # NoFile}]
  /\ untouched' = Paths
  /\ UNCHANGED <<chunk, manifest, storeLock, put, puts, reader, storeCrashes>>

\* Mutant of References: the parts of the manifest read last.
ReferencesLast(p) == Range(manifest[p])

References(p) == gc.referenced \cup Range(manifest[p])

\* A manifest deleted since it was listed reads as null, which is as good as a broken one.
GcReads(p) ==
  /\ gc.at = "reads" /\ p \in gc.paths
  /\ gc' = IF manifest[p] = NoFile
           THEN [gc EXCEPT !.paths = @ \ {p}, !.broken = @ \cup {p}]
           ELSE [gc EXCEPT !.paths = @ \ {p}, !.referenced = References(p)]
  /\ UNCHANGED <<chunk, manifest, storeLock, put, puts, gcs, reader, storeCrashes, untouched>>

GcFindsChunks ==
  /\ gc.at = "reads" /\ gc.paths = {}
  /\ gc' = [gc EXCEPT !.at = "scanned",
                      !.candidates = {h \in Chunks : chunk[h] # "absent"} \ gc.referenced]
  /\ UNCHANGED <<chunk, manifest, storeLock, put, puts, gcs, reader, storeCrashes, untouched>>

\* The broken manifests are deleted, whatever has been saved there meanwhile.
GcDeletesBroken(p) ==
  /\ gc.at = "scanned" /\ p \in gc.broken
  /\ manifest' = [manifest EXCEPT ![p] = NoFile]
  /\ untouched' = untouched \ {p}
  /\ gc' = [gc EXCEPT !.broken = @ \ {p}]
  /\ UNCHANGED <<chunk, storeLock, put, puts, gcs, reader, storeCrashes>>

GcQueues ==
  /\ gc.at = "scanned" /\ gc.broken = {}
  /\ gc' = [gc EXCEPT !.at = "deletes"]
  /\ storeLock' = Append(storeLock, Collector)
  /\ UNCHANGED <<chunk, manifest, put, puts, gcs, reader, storeCrashes, untouched>>

\* unlinkChunkFile of the candidates, one by one; a chunk that is being read may refuse
\* (EBUSY) and is left for the next collection.
GcUnlinks(h) ==
  /\ gc.at = "deletes" /\ StoreHolder(Collector) /\ h \in gc.candidates
  /\ \/ chunk' = [chunk EXCEPT ![h] = "absent"]
     \/ reader.at = "reads" /\ UNCHANGED chunk
  /\ gc' = [gc EXCEPT !.candidates = @ \ {h}]
  /\ UNCHANGED <<manifest, storeLock, put, puts, gcs, reader, storeCrashes, untouched>>

GcEnds ==
  /\ gc.at = "deletes" /\ StoreHolder(Collector) /\ gc.candidates = {}
  /\ gc' = IdleGc
  /\ storeLock' = Tail(storeLock)
  /\ UNCHANGED <<chunk, manifest, put, puts, gcs, reader, storeCrashes, untouched>>

-----------------------------------------------------------------------------
(* readManifestPlaintext: every part is looked for, then every part is read. *)

ReadStarts(p) ==
  /\ reader.at = "idle" /\ manifest[p] # NoFile
  /\ reader' = [at |-> "checks", content |-> manifest[p], next |-> 1]
  /\ UNCHANGED <<chunk, manifest, storeLock, put, puts, gc, gcs, storeCrashes, untouched>>

\* A part that is not there would be fetched from the peers; here nobody has it, and the
\* reader gives up.
ReadChecks ==
  /\ reader.at = "checks"
  /\ reader' = IF chunk[reader.content[reader.next]] = "absent" THEN IdleReader
               ELSE IF reader.next = Len(reader.content) THEN [reader EXCEPT !.at = "reads", !.next = 1]
               ELSE [reader EXCEPT !.next = @ + 1]
  /\ UNCHANGED <<chunk, manifest, storeLock, put, puts, gc, gcs, storeCrashes, untouched>>

\* A part that has gone or is torn meanwhile fails the read.
ReadReads ==
  /\ reader.at = "reads"
  /\ reader' = IF chunk[reader.content[reader.next]] # "whole" \/ reader.next = Len(reader.content)
               THEN IdleReader
               ELSE [reader EXCEPT !.next = @ + 1]
  /\ UNCHANGED <<chunk, manifest, storeLock, put, puts, gc, gcs, storeCrashes, untouched>>

-----------------------------------------------------------------------------
(* The process ends and starts again; files stay as they are. *)

CrashStore ==
  /\ storeCrashes < MaxStoreCrashes
  /\ storeCrashes' = storeCrashes + 1
  /\ storeLock' = <<>> /\ put' = [w \in Putters |-> IdlePut]
  /\ gc' = IdleGc /\ reader' = IdleReader
  /\ UNCHANGED <<chunk, manifest, puts, gcs, untouched>>

NextChunks ==
  \/ \E w \in Putters : PartBegins(w) \/ PartEnds(w) \/ ManifestSaved(w)
  \/ \E w \in Putters, p \in Paths, content \in Contents : PutStarts(w, p, content)
  \/ \E p \in Paths : DeleteFileManifest(p) \/ GcReads(p) \/ GcDeletesBroken(p) \/ ReadStarts(p)
  \/ GcLists \/ GcFindsChunks \/ GcQueues \/ GcEnds
  \/ \E h \in Chunks : GcUnlinks(h)
  \/ ReadChecks \/ ReadReads
  \/ CrashStore

SpecChunks == InitChunks /\ [][NextChunks]_chunkVars

-----------------------------------------------------------------------------
(* Properties. *)

\* Types of the state.
ChunksTypeOK ==
  /\ chunk \in [Chunks -> {"absent", "torn", "whole"}]
  /\ manifest \in [Paths -> Contents \cup {NoFile}]
  /\ IsInjective(storeLock) /\ Range(storeLock) \subseteq Putters \cup {Collector}
  /\ \A w \in Putters : put[w].at \in {"idle", "waits", "writes", "saves"}
  /\ gc.at \in {"idle", "reads", "scanned", "deletes"}
  /\ reader.at \in {"idle", "checks", "reads"}
  /\ untouched \subseteq Paths

\* A collection unlinks no chunk that is being written (docs/evfs.md:21) and none of a file
\* that was there when it began and was not written or deleted since, whatever other files,
\* with the same chunks, are put and deleted meanwhile (gc.mjs:46-85, 112-133).
UntouchedFilesSurvive ==
  [][\A h \in Chunks :
       chunk[h] # "absent" /\ chunk'[h] = "absent" =>
         /\ \A w \in Putters :
              put[w].at = "writes" => put[w].content[put[w].stored + 1] # h
         /\ \A p \in untouched : h \notin Range(manifest[p])]_chunkVars

\* docs/evfs.md:17: without targets a collection deletes every orphan chunk: a chunk it
\* deletes is one no manifest refers to.
OnlyOrphansDeleted ==
  [][\A h \in Chunks :
       chunk[h] # "absent" /\ chunk'[h] = "absent" =>
         \A p \in Paths : h \notin Range(manifest[p])]_chunkVars

-----------------------------------------------------------------------------
(* For the model checker. *)

\* Two files share a chunk.
MCContents == {<<1>>, <<1, 2>>}
=============================================================================
