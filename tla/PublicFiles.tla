----------------------------- MODULE PublicFiles -----------------------------
(***************************************************************************)
(* Files that go to or come from others: a public file of an entity, and   *)
(* files as streams.  The two share no state.                              *)
(***************************************************************************)
EXTENDS Integers, FiniteSets, Sequences

(***************************************************************************)
(* One public file of an entity: its publications at the owner's node      *)
(* (files/manifest/public.mjs, files/evfs.mjs), and reads of it there or   *)
(* at other nodes, which ask for newer manifests and keep what they get    *)
(* (files/manifest/fetch.mjs, pending.mjs).                                *)
(***************************************************************************)

CONSTANTS
  FileNodes, FileOwner,
  ReadersAt,       \* nodes that read it
  Publications,    \* calls of publishPublicFile, each with a content of its own, in their order
  FileReads,       \* calls of readPublicFile, in their order
  PartsOf,         \* the parts of each content: parts with the same bytes are the same
  MaxPublishedAt   \* bound: milliseconds in which something is published

ASSUME FilesAssumption ==
  /\ FileOwner \in FileNodes /\ ReadersAt \subseteq FileNodes
  /\ FileReads \subseteq Nat /\ Publications \subseteq Nat \ {0}
  /\ DOMAIN PartsOf = Publications /\ MaxPublishedAt \in Nat

VARIABLES
  filed,        \* the manifest on each node's disk
  held,         \* the parts in each node's chunk store
  publication,  \* of each publication: how far it is, and its publishedAt
  now,          \* the owner's clock
  fileRead,     \* each read: how far it is, what it was told and what it found
  served,       \* answers under way to each node
  newestRead,   \* history: the newest publication that an ended read of a node returned
  unsignedLeft, \* history: a publication failed after its first manifest
  overlaid,     \* history: two publications were under way at once
  doubly,       \* history: nodes where two reads wrote the manifest at once
  wentBack      \* history: a read returned an older publication than one before it

fileVars ==
  <<filed, held, publication, now, fileRead, served, newestRead, unsignedLeft, overlaid, doubly, wentBack>>

AllParts == UNION {PartsOf[p] : p \in Publications}

\* A manifest: the content, and publishedAt, 0 where there is no publicSig.
NoManifest == [content |-> 0, at |-> 0]
Manifest == {NoManifest} \cup [content : Publications, at : 0..MaxPublishedAt]

NoRead == [pc |-> "new", node |-> FileOwner, revalidate |-> FALSE, asks |-> FALSE,
           local |-> NoManifest, got |-> NoManifest, refresh |-> "no", floor |-> 0]

InitFiles ==
  /\ filed = [n \in FileNodes |-> NoManifest]
  /\ held = [n \in FileNodes |-> {}]
  /\ publication = [p \in Publications |-> [pc |-> "new", at |-> 0]]
  /\ now = 0
  /\ fileRead = [r \in FileReads |-> NoRead]
  /\ served = [n \in FileNodes |-> {}]
  /\ newestRead = [n \in FileNodes |-> 0]
  /\ unsignedLeft = FALSE /\ overlaid = FALSE /\ doubly = {} /\ wentBack = FALSE

ReadsUnchanged == UNCHANGED <<fileRead, served, newestRead, doubly, wentBack>>

-----------------------------------------------------------------------------
(* Publications: publishPublicFile. *)

Underway(p) == publication[p].pc \in {"parts", "base", "sign"}

\* Not two calls in the same millisecond, which no reader could tell the order of.
publishPublicFile(p) ==
  /\ publication[p].pc = "new" /\ now < MaxPublishedAt
  /\ \A q \in Publications : q < p => publication[q].pc # "new"
  /\ now' = now + 1
  /\ publication' = [publication EXCEPT ![p] = [pc |-> "parts", at |-> now']]
  /\ overlaid' = (overlaid \/ \E q \in Publications : Underway(q))
  /\ UNCHANGED <<filed, held, unsignedLeft>> /\ ReadsUnchanged

Proceeds(p, from, to) ==
  publication[p].pc = from /\ publication' = [publication EXCEPT ![p].pc = to]

\* Mutant of Stored: a part that another file has too is left to that one.
StoredOwn(p) == {part \in PartsOf[p] : \A q \in Publications \ {p} : part \notin PartsOf[q]}
Stored(p) == PartsOf[p]

\* storeManifestParts.
PartsStored(p) ==
  /\ Proceeds(p, "parts", "base")
  /\ held' = [held EXCEPT ![FileOwner] = @ \cup Stored(p)]
  /\ UNCHANGED <<filed, now, unsignedLeft, overlaid>> /\ ReadsUnchanged

\* saveFileManifest of putFileManifest: no signature yet.
BaseSaved(p) ==
  /\ Proceeds(p, "base", "sign")
  /\ filed' = [filed EXCEPT ![FileOwner] = [content |-> p, at |-> 0]]
  /\ UNCHANGED <<held, now, unsignedLeft, overlaid>> /\ ReadsUnchanged

\* Mutant of Signed: the manifest as putFileManifest returned it.
SignedLost(p) == [content |-> p, at |-> 0]
\* attachPublicManifestSig.
Signed(p) == [content |-> p, at |-> publication[p].at]

SignedSaved(p) ==
  /\ Proceeds(p, "sign", "done")
  /\ filed' = [filed EXCEPT ![FileOwner] = Signed(p)]
  /\ UNCHANGED <<held, now, unsignedLeft, overlaid>> /\ ReadsUnchanged

\* A write or the signature fails.  (What fails sooner leaves the manifest alone.)
PublicationFails(p) ==
  /\ publication[p].pc \in {"base", "sign"}
  /\ publication' = [publication EXCEPT ![p].pc = "failed"]
  /\ unsignedLeft' = (unsignedLeft \/ publication[p].pc = "sign")
  /\ UNCHANGED <<filed, held, now, overlaid>> /\ ReadsUnchanged

-----------------------------------------------------------------------------
(* Reads: readPublicFile, which calls fetchManifest with cache. *)

FilesUnchanged == UNCHANGED <<filed, held, publication, now, unsignedLeft, overlaid>>

\* The request goes to the others before the local manifest is read.
readPublicFile(r, n, revalidate) ==
  /\ fileRead[r].pc = "new"
  /\ \A q \in FileReads : q < r => fileRead[q].pc # "new"
  /\ fileRead' = [fileRead EXCEPT ![r] =
       [NoRead EXCEPT !.pc = "reading", !.node = n, !.revalidate = revalidate, !.asks = TRUE,
                      !.floor = newestRead[n]]]
  /\ UNCHANGED <<served, newestRead, doubly, wentBack>> /\ FilesUnchanged

\* The reads of a node share one request (FetchTable), until its first answer or its timeout.
Asking(n) == \E r \in FileReads : fileRead[r].node = n /\ fileRead[r].asks

\* handleIncomingManifestGet, once per request: a public manifest only with its signature.
handleIncomingManifestGet(n, by) ==
  /\ Asking(n) /\ n # by /\ filed[by].at > 0
  /\ \A answer \in served[n] : answer.by # by
  /\ served' = [served EXCEPT ![n] = @ \cup {[by |-> by, manifest |-> filed[by]]}]
  /\ UNCHANGED <<fileRead, newestRead, doubly, wentBack>> /\ FilesUnchanged

RequestEnds(n, m) ==
  /\ Asking(n)
  /\ fileRead' = [r \in FileReads |-> IF fileRead[r].node = n /\ fileRead[r].asks
                                     THEN [fileRead[r] EXCEPT !.asks = FALSE, !.got = m] ELSE fileRead[r]]
  /\ served' = [served EXCEPT ![n] = {}]
  /\ UNCHANGED <<newestRead, doubly, wentBack>> /\ FilesUnchanged

resolvePendingManifestFetch(n, by) ==
  \E answer \in served[n] : answer.by = by /\ RequestEnds(n, answer.manifest)

RequestTimesOut(n) == RequestEnds(n, NoManifest)

\* Mutant of Prefers: any other publication.
PrefersAny(local, m) == m.at > 0 /\ m # local
\* shouldPreferIncomingPublicManifest.
Prefers(local, m) == m.at > local.at

\* Nothing more comes of a read that has ended, and left nothing in the background.
LeftOf(read) ==
  IF read.pc \in {"done", "null"} /\ read.refresh = "no" THEN [NoRead EXCEPT !.pc = read.pc] ELSE read

\* fetchManifest returns m, and the parts of it are next; without one the read has failed.
Returns(read, m) ==
  IF m = NoManifest THEN LeftOf([read EXCEPT !.pc = "null"])
  ELSE [read EXCEPT !.pc = "parts", !.local = m]

\* loadFileManifest, and what fetchManifest makes of it.
LocalRead(r) ==
  LET read == fileRead[r]
      local == filed[read.node]
      waits == [read EXCEPT !.pc = "waits", !.local = local]
  IN /\ read.pc = "reading"
     /\ fileRead' = [fileRead EXCEPT ![r] =
          IF local.at > 0
          THEN IF read.revalidate THEN waits ELSE [Returns(read, local) EXCEPT !.refresh = "waits"]
          ELSE IF local = NoManifest THEN waits ELSE Returns(read, NoManifest)]
     /\ UNCHANGED <<served, newestRead, doubly, wentBack>> /\ FilesUnchanged

\* The request that it waits for ended: with nothing newer it is what was here.
WaitEnds(r) ==
  LET read == fileRead[r]
  IN /\ read.pc = "waits" /\ ~read.asks
     /\ fileRead' = [fileRead EXCEPT ![r] =
          IF Prefers(read.local, read.got) THEN [read EXCEPT !.pc = "caching"] ELSE Returns(read, read.local)]
     /\ UNCHANGED <<served, newestRead, doubly, wentBack>> /\ FilesUnchanged

\* The same in the background, after the read went on with the local manifest.
RefreshEnds(r) ==
  LET read == fileRead[r]
  IN /\ read.refresh = "waits" /\ ~read.asks
     /\ fileRead' = [fileRead EXCEPT ![r] =
          LeftOf([read EXCEPT !.refresh = IF Prefers(read.local, read.got) THEN "caching" ELSE "no"])]
     /\ UNCHANGED <<served, newestRead, doubly, wentBack>> /\ FilesUnchanged

\* cachePublicManifest: not over the owner's own, nor over one as new.
Keeps(n, m) == n # FileOwner /\ (filed[n] = NoManifest \/ Prefers(filed[n], m))

\* Its read of what is there.
CacheLooks(r) ==
  LET read == fileRead[r]
      next == IF Keeps(read.node, read.got) THEN "saving" ELSE "no"
  IN /\ "caching" \in {read.pc, read.refresh}
     /\ fileRead' = [fileRead EXCEPT ![r] =
          IF read.refresh = "caching" THEN LeftOf([read EXCEPT !.refresh = next])
          ELSE IF next = "saving" THEN [read EXCEPT !.pc = "saving"] ELSE Returns(read, read.got)]
     /\ UNCHANGED <<served, newestRead, doubly, wentBack>> /\ FilesUnchanged

Saving(r) == "saving" \in {fileRead[r].pc, fileRead[r].refresh}

\* Its write.
CacheSaves(r) ==
  LET read == fileRead[r]
  IN /\ Saving(r)
     /\ filed' = [filed EXCEPT ![read.node] = read.got]
     /\ doubly' = IF \E q \in FileReads \ {r} : Saving(q) /\ fileRead[q].node = read.node
                  THEN doubly \cup {read.node} ELSE doubly
     /\ fileRead' = [fileRead EXCEPT ![r] =
          IF read.refresh = "saving" THEN LeftOf([read EXCEPT !.refresh = "no"]) ELSE Returns(read, read.got)]
     /\ UNCHANGED <<held, publication, now, unsignedLeft, overlaid, served, newestRead, wentBack>>

\* readManifestPlaintext: the parts that are not here are fetched one by one, and kept as far
\* as that went (ensureManifestPartsLocal).
PartsRead(r, fetched) ==
  LET read == fileRead[r]
      missing == PartsOf[read.local.content] \ held[read.node]
      whole == fetched = missing
      newest == IF read.local.at > newestRead[read.node] THEN read.local.at ELSE newestRead[read.node]
  IN /\ read.pc = "parts"
     /\ fetched \subseteq missing
     /\ fetched \subseteq UNION {held[n] : n \in FileNodes \ {read.node}}
     /\ held' = [held EXCEPT ![read.node] = @ \cup fetched]
     /\ fileRead' = [fileRead EXCEPT ![r] = LeftOf([read EXCEPT !.pc = IF whole THEN "done" ELSE "null"])]
     /\ wentBack' = (wentBack \/ (whole /\ 0 < read.local.at /\ read.local.at < read.floor
                                   /\ read.node \notin doubly \cup {FileOwner}))
     /\ newestRead' = IF whole THEN [newestRead EXCEPT ![read.node] = newest] ELSE newestRead
     /\ UNCHANGED <<filed, publication, now, unsignedLeft, overlaid, served, doubly>>

NextFiles ==
  \/ \E p \in Publications :
       publishPublicFile(p) \/ PartsStored(p) \/ BaseSaved(p) \/ SignedSaved(p) \/ PublicationFails(p)
  \/ \E r \in FileReads :
       \/ \E n \in ReadersAt, revalidate \in BOOLEAN : readPublicFile(r, n, revalidate)
       \/ LocalRead(r) \/ WaitEnds(r) \/ RefreshEnds(r)
       \/ CacheLooks(r) \/ CacheSaves(r)
       \/ \E fetched \in SUBSET AllParts : PartsRead(r, fetched)
  \/ \E n \in FileNodes :
       \/ RequestTimesOut(n)
       \/ \E by \in FileNodes : handleIncomingManifestGet(n, by) \/ resolvePendingManifestFetch(n, by)

\* Requests have their timeouts, and disks and fetches answer.
FairFiles ==
  /\ WF_fileVars(\E n \in FileNodes : RequestTimesOut(n))
  /\ WF_fileVars(\E r \in FileReads : LocalRead(r) \/ WaitEnds(r) \/ RefreshEnds(r)
      \/ CacheLooks(r) \/ CacheSaves(r) \/ \E fetched \in SUBSET AllParts : PartsRead(r, fetched))

SpecFiles == InitFiles /\ [][NextFiles]_fileVars /\ FairFiles

-----------------------------------------------------------------------------
(* Properties. *)

\* Types of the state.
FilesTypeOK ==
  /\ filed \in [FileNodes -> Manifest] /\ held \in [FileNodes -> SUBSET AllParts]
  /\ \A r \in FileReads :
       /\ fileRead[r].pc \in {"new", "reading", "waits", "caching", "saving", "parts", "done", "null"}
       /\ fileRead[r].refresh \in {"no", "waits", "caching", "saving"}
  /\ \A n \in FileNodes : served[n] \subseteq [by : FileNodes, manifest : Manifest]

\* The owner has every part of the manifest that it has on disk (evfs.mjs:156-170).
OwnerHasParts == filed[FileOwner] # NoManifest => PartsOf[filed[FileOwner].content] \subseteq held[FileOwner]

\* Once publications have ended the file is signed, as the newest of them: all the more as
\* without a signature nobody is served (public.mjs:128-153).  One that failed after its
\* first manifest leaves the file unsigned, and of two at once the older may stay.
NewestIsSigned ==
  ~unsignedLeft /\ ~overlaid /\ (\A p \in Publications : ~Underway(p)) =>
    \A p \in Publications : publication[p].pc = "done" => filed[FileOwner].at >= publication[p].at

\* Where two reads did not write at once, no later read of a node returns an older
\* publication than an earlier one did, whoever answered and whenever (fetch.mjs:39-131,
\* public.mjs:116-121).
ReadsDoNotGoBack == ~wentBack

\* Files are served whole, signed, and ever newer (files/manifest, evfs.mjs).
FilesAreSound == OwnerHasParts /\ NewestIsSigned /\ ReadsDoNotGoBack

\* No read hangs, nor what it left in the background.
ReadsEnded ==
  \A r \in FileReads : fileRead[r].pc \in {"new", "done", "null"} /\ fileRead[r].refresh = "no"

-----------------------------------------------------------------------------
(***************************************************************************)
(* Files as streams (files/assemble_stream.mjs, assemble.mjs, evfs.mjs):   *)
(* an upload that is cut into parts while it arrives in pieces of any      *)
(* size, and a download that joins the streams of the parts, whose files   *)
(* may be torn, replaced or gone, and whose pieces have any size.          *)
(***************************************************************************)

CONSTANTS
  PartMax,       \* FEDERATION_CHUNK_MAX_BYTES
  MaxFileBytes   \* bound: bytes of a file

ASSUME StreamsAssumption == {PartMax, MaxFileBytes} \subseteq Nat \ {0}

VARIABLES
  upload,    \* the call of putFileManifestFromStream: bytes come in order, a part is its bounds
  download,  \* the stream that readManifestPlaintextStream returned
  partFile   \* each part's read stream: bytes left in the file, and how it stands

streamVars == <<upload, download, partFile>>

NoUpload == [pc |-> "new", declared |-> 0, total |-> 0, cut |-> 0, parts |-> <<>>]
NoDownload == [pc |-> "no", index |-> 1, pending |-> 0, intact |-> TRUE, out |-> 0]

InitStreams == upload = NoUpload /\ download = NoDownload /\ partFile = <<>>

Lesser(a, b) == IF a < b THEN a ELSE b
Size(part) == part.to - part.from

\* encryptPlaintextToMultiPartsAsync of the same bytes, which convergent parts agree with.
Slices(bytes) ==
  [i \in 1..((bytes + PartMax - 1) \div PartMax) |->
     [from |-> (i - 1) * PartMax, to |-> Lesser(i * PartMax, bytes)]]

-----------------------------------------------------------------------------
(* The upload: putFileManifestFromStream over encryptReadableToParts. *)

UploadOnly == UNCHANGED <<download, partFile>>

putFileManifestFromStream(declared) ==
  /\ upload.pc = "new"
  /\ upload' = [NoUpload EXCEPT !.pc = "reads", !.declared = declared]
  /\ UploadOnly

Pending == upload.total - upload.cut

\* A piece of the stream; plainSize is the limit.
PieceArrives(n) ==
  /\ upload.pc = "reads" /\ Pending < PartMax
  /\ upload.total + n <= MaxFileBytes
  /\ upload' = [upload EXCEPT !.total = @ + n, !.pc = IF upload.total + n > upload.declared THEN "failed" ELSE @]
  /\ UploadOnly

MustCut == Pending >= PartMax

PartsWith(n) == Append(upload.parts, [from |-> upload.cut, to |-> upload.cut + n])

\* flushSlice, and the write of the part, which may fail.
PartCut(ok) ==
  /\ upload.pc = "reads" /\ MustCut
  /\ upload' = IF ok THEN [upload EXCEPT !.parts = PartsWith(PartMax), !.cut = @ + PartMax]
               ELSE [upload EXCEPT !.pc = "failed"]
  /\ UploadOnly

\* Mutant of LastParts: what is left is no part.
LastPartsNone == upload.parts
LastParts == IF Pending > 0 THEN PartsWith(Pending) ELSE upload.parts

\* The stream ends.  A manifest without parts is none (normalizeFileManifest).
UploadEnds ==
  /\ upload.pc = "reads" /\ ~MustCut
  /\ upload' = [upload EXCEPT !.parts = LastParts, !.cut = upload.total,
                              !.pc = IF LastParts = <<>> THEN "failed" ELSE "saved"]
  /\ UploadOnly

\* The stream breaks.
UploadBreaks ==
  /\ upload.pc = "reads"
  /\ upload' = [upload EXCEPT !.pc = "failed"]
  /\ UploadOnly

-----------------------------------------------------------------------------
(* The download: createManifestPlaintextStream. *)

DownloadOnly == UNCHANGED upload

\* All parts were there (hasChunk) and their streams are opened; the files may be torn by a
\* crash, have more in them, or other bytes, and may go before they are opened.
readManifestPlaintextStream(broken, file) ==
  /\ upload.pc = "saved" /\ download.pc = "no"
  /\ broken \in DOMAIN upload.parts
  /\ partFile' = [i \in DOMAIN upload.parts |->
       IF i = broken THEN file ELSE [left |-> Size(upload.parts[i]), st |-> "open", right |-> TRUE]]
  /\ download' = [download EXCEPT !.pc = "reads"]
  /\ DownloadOnly

Need == Size(upload.parts[download.index])

\* readStreamChunk: a piece of the part whose turn it is.
PieceRead(n) ==
  LET i == download.index
      file == partFile[i]
  IN /\ download.pc = "reads" /\ i \in DOMAIN partFile /\ download.pending < Need
     /\ file.st = "open" /\ n <= file.left
     /\ partFile' = [partFile EXCEPT ![i].left = @ - n]
     /\ download' = [download EXCEPT !.pending = @ + n, !.intact = @ /\ file.right]
     /\ DownloadOnly

\* The file ends too soon.
PartShort ==
  LET i == download.index
  IN /\ download.pc = "reads" /\ i \in DOMAIN partFile /\ download.pending < Need
     /\ partFile[i].st = "open" /\ partFile[i].left = 0
     /\ download' = [download EXCEPT !.pc = "destroyed"]
     /\ DownloadOnly /\ UNCHANGED partFile

\* A part's stream fails.  Before its turn only the registry of file streams hears of it
\* (handles.mjs:18-25), and the download waits for that part for ever.
PartFails(i) ==
  /\ download.pc = "reads" /\ i \in DOMAIN partFile /\ i >= download.index
  /\ partFile[i].st = "gone"
  /\ partFile' = [partFile EXCEPT ![i].st = "failed"]
  /\ download' = IF i = download.index THEN [download EXCEPT !.pc = "destroyed"]
                 ELSE download
  /\ DownloadOnly

\* Mutant of Fits: bytes over the part's size are let go.
FitsOver == download.intact
\* No trailing bytes, and decryptPart.
Fits == download.pending = Need /\ download.intact

\* The part is complete: it is decrypted and pushed.
PartPushed ==
  /\ download.pc = "reads" /\ download.index \in DOMAIN partFile /\ download.pending >= Need
  /\ download' = IF Fits
                 THEN [download EXCEPT !.out = @ + download.pending, !.pending = 0, !.index = @ + 1]
                 ELSE [download EXCEPT !.pc = "destroyed"]
  /\ DownloadOnly /\ UNCHANGED partFile

\* The contentHash agrees, and nothing follows.
DownloadEnds ==
  /\ download.pc = "reads" /\ download.index \notin DOMAIN partFile
  /\ download' = [download EXCEPT !.pc = IF download.out = upload.total THEN "ended" ELSE "destroyed"]
  /\ DownloadOnly /\ UNCHANGED partFile

NextStreams ==
  \/ \E n \in 0..MaxFileBytes : putFileManifestFromStream(n)
  \/ \E n \in 1..MaxFileBytes : PieceArrives(n) \/ PieceRead(n)
  \/ \E ok \in BOOLEAN : PartCut(ok)
  \/ UploadEnds \/ UploadBreaks
  \/ \E i \in 1..MaxFileBytes, left \in 0..(PartMax + 1), st \in {"open", "gone"}, right \in BOOLEAN :
       readManifestPlaintextStream(i, [left |-> left, st |-> st, right |-> right])
  \/ PartShort \/ PartPushed \/ DownloadEnds
  \/ \E i \in 1..MaxFileBytes : PartFails(i)

SpecStreams == InitStreams /\ [][NextStreams]_streamVars

-----------------------------------------------------------------------------
(* Properties. *)

\* Types of the state.
StreamsTypeOK ==
  /\ upload.pc \in {"new", "reads", "saved", "failed"}
  /\ 0 <= Pending /\ \A i \in DOMAIN upload.parts : Size(upload.parts[i]) \in 1..PartMax
  /\ download.pc \in {"no", "reads", "ended", "destroyed"}
  /\ \A i \in DOMAIN partFile : partFile[i].left \in Nat

\* However a file arrives, it is cut as it is when it is there at once: the same parts have
\* the same hashes (assemble_stream.mjs:25-69, assemble.mjs:131-147).
CutsAgree == upload.pc = "saved" => upload.parts = Slices(upload.total) /\ upload.total <= upload.declared

\* What a reader gets is a prefix of the file in whole parts, and all of it if the stream
\* ends, whatever became of the files (assemble_stream.mjs:121-181).
DownloadIsWhole ==
  /\ download.pc # "no" => \E n \in 0..Len(upload.parts) : download.out = (IF n = 0 THEN 0 ELSE upload.parts[n].to)
  /\ download.pc = "ended" => download.out = upload.total

StreamsAreWhole == CutsAgree /\ DownloadIsWhole
=============================================================================
