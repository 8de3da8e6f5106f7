---------------------------- MODULE SearchProofs ----------------------------
(***************************************************************************)
(* Theorems about the indexes and the search, for any repository, any      *)
(* number of runs, faults, uploads and requests, any size of a batch, any  *)
(* dictionary and any decisions.                                           *)
(***************************************************************************)
EXTENDS Search, RankingProofs

\* A request reads the indexes and changes none of them.
LEMMA OnlyIndexSteps == [Next]_vars => IndexNext \/ UNCHANGED indexVars
<1>1. ASSUME NEW kind, NEW type, Ask(kind, type) PROVE UNCHANGED indexVars
  BY <1>1 DEF Ask, Retrieve
<1>2. SaveRows => UNCHANGED indexVars
  BY DEF SaveRows
<1>3. AskPolicy => UNCHANGED indexVars
  BY DEF AskPolicy, Gate
<1>4. Answer => UNCHANGED indexVars
  BY DEF Answer
<1>5. ASSUME NEW p, NEW d, Decide(p, d) PROVE UNCHANGED indexVars
  BY <1>5 DEF Decide
<1>6. UNCHANGED vars => UNCHANGED indexVars
  BY DEF vars
<1> QED
  BY <1>1, <1>2, <1>3, <1>4, <1>5, <1>6 DEF Next

-----------------------------------------------------------------------------
(* The reference document *)

DocFields ==
    {"disk", "chunks", "upload", "size", "next", "delete", "promised", "kept"}

DocTyped == DOMAIN doc = DocFields /\ doc.size \in Nat /\ doc.next \in Nat

\* The chunks 0..n-1 of the last upload are there, and no others unless the
\* old ones could not be deleted.
Holds(d, n) ==
    /\ \A i \in 0..(n - 1) : i \in DOMAIN d.chunks /\ d.chunks[i] = d.size
    /\ ~d.kept => DOMAIN d.chunks = 0..(n - 1)

\* While an upload goes on that nobody has interfered with, the file is the
\* uploaded one and the collection has all chunks that were added.
UploadGoesOn ==
    doc.promised = "pending" =>
        /\ doc.upload # "none" /\ doc.delete = "none"
        /\ doc.disk = doc.size
        /\ doc.upload = "saved" => doc.next = 0 /\ ~doc.kept
        /\ doc.upload = "chunks" => doc.next <= doc.size /\ Holds(doc, doc.next)

\* After a success no request is under way.
PromiseStands ==
    doc.promised = "yes" =>
        /\ doc.upload = "none" /\ doc.delete = "none"
        /\ doc.disk = doc.size
        /\ Holds(doc, doc.size)

DocKept == DocTyped /\ UploadGoesOn /\ PromiseStands

LEMMA DocInit == Init => DocKept
  BY DEF Init, IndexInit, NoDoc, DocFields, DocTyped, DocKept, UploadGoesOn, PromiseStands

\* A chunk is added.
LEMMA DocGrows ==
    ASSUME DocKept, AddChunk
    PROVE  DocKept'
<1> USE DEF DocKept
<1> DEFINE added == Put(doc.chunks, doc.next, doc.size)
           d == [doc EXCEPT !.chunks = added, !.next = @ + 1]
<1>1. /\ DocTyped /\ doc.upload = "chunks" /\ doc.next < doc.size
      /\ doc.next \in Nat /\ doc.size \in Nat
  BY DEF AddChunk, DocTyped
<1>2. /\ DOMAIN added = DOMAIN doc.chunks \union {doc.next}
      /\ added[doc.next] = doc.size
      /\ \A k \in DOMAIN doc.chunks \ {doc.next} : added[k] = doc.chunks[k]
  BY DEF Put
<1> HIDE DEF added
<1>3. /\ DOMAIN d = DocFields
      /\ d.chunks = added /\ d.next = doc.next + 1
      /\ d.size = doc.size /\ d.kept = doc.kept /\ d.upload = doc.upload
      /\ d.disk = doc.disk /\ d.delete = doc.delete /\ d.promised = doc.promised
  BY <1>1 DEF DocTyped, DocFields
<1>4. doc' = IF d.next < d.size THEN d
             ELSE [d EXCEPT !.upload = "none",
                            !.promised = IF @ = "pending" THEN "yes" ELSE @]
  BY DEF AddChunk, added
<1> HIDE DEF d
<1>5. doc.promised = "pending" => Holds(d, doc.next + 1)
  <2> SUFFICES ASSUME doc.promised = "pending" PROVE Holds(d, doc.next + 1)
    OBVIOUS
  <2>1. Holds(doc, doc.next)
    BY <1>1 DEF UploadGoesOn
  <2>2. 0..(doc.next + 1 - 1) = 0..(doc.next - 1) \union {doc.next}
    BY <1>1
  <2> QED
    BY <2>1, <2>2, <1>1, <1>2, <1>3 DEF Holds
<1>6. CASE d.next < d.size
  BY <1>1, <1>3, <1>4, <1>5, <1>6 DEF UploadGoesOn, PromiseStands, DocTyped
<1>7. CASE ~(d.next < d.size)
  <2>1. /\ DOMAIN doc' = DocFields /\ doc'.upload = "none" /\ doc'.delete = doc.delete
        /\ doc'.disk = doc.disk /\ doc'.size = doc.size /\ doc'.chunks = d.chunks
        /\ doc'.kept = d.kept /\ doc'.next = d.next
        /\ doc'.promised = IF doc.promised = "pending" THEN "yes" ELSE doc.promised
    BY <1>3, <1>4, <1>7 DEF DocFields
  <2>2. doc.promised # "yes"
    BY <1>1 DEF PromiseStands
  <2>3. doc.promised = "pending" => Holds(doc', doc'.size)
    <3> SUFFICES ASSUME doc.promised = "pending" PROVE Holds(doc', doc'.size)
      OBVIOUS
    <3>1. doc.next + 1 = doc.size
      BY <1>1, <1>3, <1>7
    <3> QED
      BY <3>1, <2>1, <1>3, <1>5 DEF Holds
  <2> QED
    BY <2>1, <2>2, <2>3, <1>1, <1>3 DEF UploadGoesOn, PromiseStands, DocTyped
<1> QED
  BY <1>6, <1>7

LEMMA DocStep == DocKept /\ [Next]_vars => DocKept'
<1> USE DEF DocKept, DocTyped, DocFields, UploadGoesOn, PromiseStands
<1> SUFFICES ASSUME DocKept, IndexNext \/ UNCHANGED indexVars PROVE DocKept'
  BY OnlyIndexSteps
<1>1. ASSUME NEW n \in Uploads, UploadRefdoc(n) PROVE DocKept'
  BY <1>1, IndexAssumption DEF UploadRefdoc
<1>2. CASE DropOldChunks
  <2>1. CASE doc' = [Deleted(doc) EXCEPT !.upload = "chunks"]
    <3>1. /\ DOMAIN doc' = DocFields /\ doc'.chunks = <<>> /\ doc'.upload = "chunks"
          /\ doc'.next = doc.next /\ doc'.size = doc.size /\ doc'.disk = doc.disk
          /\ doc'.delete = doc.delete /\ doc'.promised = doc.promised
      BY <2>1 DEF Deleted
    <3>2. DOMAIN <<>> = {}
      OBVIOUS
    <3> QED
      BY <3>1, <3>2, <1>2 DEF DropOldChunks, Holds
  <2>2. CASE doc' = [doc EXCEPT !.upload = "chunks", !.kept = TRUE]
    <3>1. /\ DOMAIN doc' = DocFields /\ doc'.chunks = doc.chunks /\ doc'.upload = "chunks"
          /\ doc'.next = doc.next /\ doc'.size = doc.size /\ doc'.disk = doc.disk
          /\ doc'.delete = doc.delete /\ doc'.promised = doc.promised /\ doc'.kept
      BY <2>2
    <3> QED
      BY <3>1, <1>2 DEF DropOldChunks, Holds
  <2> QED
    BY <1>2, <2>1, <2>2 DEF DropOldChunks
<1>3. CASE AddChunk
  BY <1>3, DocGrows
<1>4. CASE UploadFails
  BY <1>4 DEF UploadFails
<1>5. CASE DeleteRefdoc
  BY <1>5 DEF DeleteRefdoc
<1>6. CASE DeleteChunks
  BY <1>6 DEF DeleteChunks, Deleted
<1>7. CASE DeleteFile
  BY <1>7 DEF DeleteFile
<1>8. CASE KillServer
  BY <1>8 DEF KillServer
<1>9. CASE UNCHANGED doc
  BY <1>9 DEF Holds
<1> QED
  BY <1>1, <1>2, <1>3, <1>4, <1>5, <1>6, <1>7, <1>8, <1>9
     DEF IndexNext, indexVars, AutoIndex, PostIndex, RunResumable, RunEmbedCache,
         StartTool, OpenFile, ReadFails, Upsert, Buffer, ChunkFails, Flush,
         FlushFails, ToolEnds, KillTool, EditFile

\* A document whose upload was answered with success is on disk and in the
\* collection as a whole until somebody uploads or deletes again, wherever
\* uploads, deletes, failures and kills fall between its chunks.
THEOREM UploadsKept == Spec => []UploadedDocIsWhole
<1>1. DocKept => UploadedDocIsWhole
  BY DEF DocKept, PromiseStands, Holds, UploadedDocIsWhole
<1> QED
  BY <1>1, DocInit, DocStep, PTL DEF Spec

-----------------------------------------------------------------------------
(* Sets of chunks *)

LEMMA ChunkByChunk ==
    ASSUME NEW f, NEW n \in Nat
    PROVE  /\ ChunksOf(f, 0) = {}
           /\ ChunksOf(f, n + 1) = ChunksOf(f, n) \union {<<f, n>>}
<1>1. 0..(n + 1 - 1) = 0..(n - 1) \union {n} /\ 0..(0 - 1) = {}
  OBVIOUS
<1> QED
  BY <1>1 DEF ChunksOf

LEMMA PathsOfUnion ==
    ASSUME NEW S, NEW T
    PROVE  IndexedPaths(S \union T) = IndexedPaths(S) \union IndexedPaths(T)
  BY DEF IndexedPaths

LEMMA PathOfChunk ==
    ASSUME NEW S, NEW f, NEW n
    PROVE  IndexedPaths(S \union {<<f, n>>}) = IndexedPaths(S) \union {f}
<1>1. <<f, n>>[1] = f
  OBVIOUS
<1>2. IndexedPaths({<<f, n>>}) = {f}
  BY <1>1, Zenon DEF IndexedPaths
<1> QED
  BY <1>2, PathsOfUnion

LEMMA BufferedChunk ==
    ASSUME NEW T, NEW buffer \in Seq(T), NEW c
    PROVE  ToSet(Append(buffer, c)) = ToSet(buffer) \union {c}
<1> DEFINE longer == Append(buffer, c)
           n == Len(buffer)
<1>1. /\ DOMAIN longer = 1..(n + 1)
      /\ DOMAIN buffer = 1..n /\ n \in Nat
  OBVIOUS
<1>2. /\ \A i \in 1..n : longer[i] = buffer[i]
      /\ longer[n + 1] = c
  OBVIOUS
<1>3. \A i : i \in 1..(n + 1) <=> i \in 1..n \/ i = n + 1
  BY <1>1
<1> HIDE DEF longer, n
<1>4. ASSUME NEW x PROVE x \in ToSet(longer) <=> x \in ToSet(buffer) \/ x = c
  <2>1. x \in ToSet(longer) <=> \E i \in 1..(n + 1) : longer[i] = x
    BY <1>1, Zenon DEF ToSet
  <2>2. x \in ToSet(buffer) <=> \E i \in 1..n : buffer[i] = x
    BY <1>1, Zenon DEF ToSet
  <2> QED
    BY <1>2, <1>3, <2>1, <2>2, Zenon
<1> QED
  BY <1>4, Zenon DEF longer

-----------------------------------------------------------------------------
(* The builders *)

ToolFields ==
    {"kind", "last", "again", "todo", "file", "size", "next", "buffer", "full"}

\* What is known of the builder in any state: the chunks it has read of the
\* open file are fewer than the file had, and only embed_cache has a buffer.
ToolTyped ==
    /\ DOMAIN tool = ToolFields
    /\ repo \in [AllFiles -> Nat]
    /\ tool.next \in Nat /\ tool.size \in Nat
    /\ tool.buffer \in Seq(AllFiles \X Nat)
    /\ tool.file \in AllFiles \union {NoFile}
    /\ tool.file # NoFile => tool.next < tool.size

\* What the actions of the builders leave of the builder.
LEMMA ToolEffects ==
    ASSUME ToolTyped
    PROVE  /\ \A kind : StartTool(kind) => /\ DOMAIN tool' = ToolFields
                                           /\ tool'.kind = kind /\ tool'.last = "none"
                                           /\ tool'.file = NoFile /\ tool'.buffer = <<>>
                                           /\ tool'.next = 0 /\ tool'.size = 0
           /\ \A last : tool' = Idle(last) => /\ DOMAIN tool' = ToolFields
                                              /\ tool'.kind = "idle" /\ tool'.last = last
                                              /\ tool'.file = NoFile /\ tool'.buffer = <<>>
                                              /\ tool'.next = 0 /\ tool'.size = 0
           /\ OpenFile => \E f \in AllFiles : /\ IsNext(f) /\ repo[f] > 0
                                   /\ DOMAIN tool' = ToolFields
                                   /\ tool'.kind = tool.kind /\ tool'.last = tool.last
                                   /\ tool'.file = f /\ tool'.buffer = tool.buffer
                                   /\ tool'.next = 0 /\ tool'.size = repo[f]
                                   /\ tool'.again = NoFile /\ tool'.todo = tool.todo \ {f}
<1>1. ASSUME NEW kind, StartTool(kind)
      PROVE  /\ DOMAIN tool' = ToolFields
             /\ tool'.kind = kind /\ tool'.last = "none"
             /\ tool'.file = NoFile /\ tool'.buffer = <<>>
             /\ tool'.next = 0 /\ tool'.size = 0
  BY <1>1 DEF StartTool, Idle, ToolFields
<1>2. ASSUME NEW last, tool' = Idle(last)
      PROVE  /\ DOMAIN tool' = ToolFields
             /\ tool'.kind = "idle" /\ tool'.last = last
             /\ tool'.file = NoFile /\ tool'.buffer = <<>>
             /\ tool'.next = 0 /\ tool'.size = 0
  BY <1>2 DEF Idle, ToolFields
<1>3. ASSUME OpenFile
      PROVE \E f \in AllFiles : /\ IsNext(f) /\ repo[f] > 0
                                /\ DOMAIN tool' = ToolFields
                                /\ tool'.kind = tool.kind /\ tool'.last = tool.last
                                /\ tool'.file = f /\ tool'.buffer = tool.buffer
                                /\ tool'.next = 0 /\ tool'.size = repo[f]
                                /\ tool'.again = NoFile /\ tool'.todo = tool.todo \ {f}
  BY <1>3 DEF OpenFile, Taken, ToolTyped, ToolFields
<1> QED
  BY <1>1, <1>2, <1>3

LEMMA ToolInit == Init => ToolTyped
<1>1. 0..MaxChunks \subseteq Nat
  BY IndexAssumption
<1>2. <<>> \in Seq(AllFiles \X Nat)
  OBVIOUS
<1> QED
  BY <1>1, <1>2, IndexAssumption
     DEF Init, IndexInit, Idle, ToolFields, ToolTyped, AllFiles, NoFile

LEMMA ToolStep == ToolTyped /\ [Next]_vars => ToolTyped'
<1> SUFFICES ASSUME ToolTyped, IndexNext \/ UNCHANGED indexVars PROVE ToolTyped'
  BY OnlyIndexSteps
<1> USE DEF ToolTyped
<1>0. <<>> \in Seq(AllFiles \X Nat)
  OBVIOUS
<1>1. ASSUME NEW kind, StartTool(kind) PROVE ToolTyped'
  <2>1. /\ DOMAIN tool' = ToolFields /\ tool'.file = NoFile /\ tool'.buffer = <<>>
        /\ tool'.next = 0 /\ tool'.size = 0
    BY <1>1, ToolEffects
  <2>2. UNCHANGED repo
    BY <1>1 DEF StartTool
  <2> QED
    BY <2>1, <2>2, <1>0
<1>2. ASSUME NEW last, tool' = Idle(last), UNCHANGED repo PROVE ToolTyped'
  <2>1. /\ DOMAIN tool' = ToolFields /\ tool'.file = NoFile /\ tool'.buffer = <<>>
        /\ tool'.next = 0 /\ tool'.size = 0
    BY <1>2, ToolEffects
  <2> QED
    BY <2>1, <1>2, <1>0
<1>3. CASE OpenFile
  <2>1. UNCHANGED repo
    BY <1>3 DEF OpenFile
  <2> QED
    BY <1>3, <2>1, ToolEffects
<1>4. ASSUME NEW f, Skip(f), UNCHANGED repo PROVE ToolTyped'
  BY <1>4, <1>2 DEF Skip, ToolFields
<1>5. CASE ReadFails
  <2>1. PICK f \in AllFiles :
           tool' = IF tool.kind = "index" THEN Idle("none") ELSE Taken(f)
    BY <1>5 DEF ReadFails
  <2> QED
    BY <2>1, <1>5, <1>2 DEF ReadFails, Taken, ToolFields
<1>6. CASE Upsert
  BY <1>6 DEF Upsert, Step, ToolFields
<1>7. CASE Buffer
  <2> DEFINE buffer == Append(tool.buffer, <<tool.file, tool.next>>)
  <2>1. buffer \in Seq(AllFiles \X Nat)
    BY <1>7 DEF Buffer
  <2>2. /\ tool' = [Step(tool) EXCEPT
                       !.buffer = buffer,
                       !.full = tool.next + 1 = tool.size /\ Len(buffer) >= Batch]
        /\ UNCHANGED repo /\ tool.file # NoFile
    BY <1>7 DEF Buffer
  <2> HIDE DEF buffer
  <2> QED
    BY <2>1, <2>2 DEF Step, ToolFields
<1>8. CASE ChunkFails
  BY <1>8, <1>4 DEF ChunkFails
<1>9. CASE Flush
  <2>1. tool' = [tool EXCEPT !.buffer = <<>>, !.full = FALSE] /\ UNCHANGED repo
    BY <1>9 DEF Flush
  <2>2. /\ DOMAIN tool' = ToolFields /\ tool'.buffer = <<>>
        /\ tool'.next = tool.next /\ tool'.size = tool.size /\ tool'.file = tool.file
    BY <2>1 DEF ToolFields
  <2> QED
    BY <2>1, <2>2, <1>0
<1>10. CASE FlushFails
  <2>1. UNCHANGED repo /\ tool' = IF tool.full THEN [tool EXCEPT !.full = FALSE]
                                  ELSE Idle("none")
    BY <1>10 DEF FlushFails
  <2>2. CASE tool' = [tool EXCEPT !.full = FALSE]
    BY <2>1, <2>2 DEF ToolFields
  <2> QED
    BY <2>1, <2>2, <1>2
<1>11. CASE ToolEnds
  BY <1>11, <1>2 DEF ToolEnds
<1>12. CASE KillTool
  BY <1>12, <1>2 DEF KillTool
<1>13. ASSUME NEW f \in AllFiles, EditFile(f) PROVE ToolTyped'
  <2>1. 0..MaxChunks \subseteq Nat
    BY IndexAssumption
  <2> QED
    BY <2>1, <1>13 DEF EditFile
<1>14. CASE UNCHANGED <<repo, tool>>
  BY <1>14
<1> QED
  BY <1>1, <1>3, <1>5, <1>6, <1>7, <1>8, <1>9, <1>10, <1>11, <1>12, <1>13, <1>14
     DEF IndexNext, indexVars, AutoIndex, PostIndex, RunResumable, RunEmbedCache,
         UploadRefdoc, DropOldChunks, AddChunk, UploadFails, DeleteRefdoc,
         DeleteChunks, DeleteFile, KillServer

\* The chunks of the indexes are chunks of listed files.
ChunksTyped == stored \union cached \subseteq AllFiles \X Nat

LEMMA BufferTyped == ToolTyped => ToSet(tool.buffer) \subseteq AllFiles \X Nat
  BY DEF ToolTyped, ToSet

LEMMA PathsTyped == ASSUME NEW S \in SUBSET (AllFiles \X Nat)
                    PROVE  IndexedPaths(S) \subseteq AllFiles
<1>1. ASSUME NEW c \in S PROVE c[1] \in AllFiles
  OBVIOUS
<1> QED
  BY <1>1 DEF IndexedPaths

LEMMA NoFileIsNone == NoFile \notin AllFiles
  BY IndexAssumption DEF AllFiles, NoFile

LEMMA ChunksStep == ToolTyped /\ ChunksTyped /\ [Next]_vars => ChunksTyped'
<1> SUFFICES ASSUME ToolTyped, ChunksTyped, IndexNext \/ UNCHANGED indexVars
             PROVE  ChunksTyped'
  BY OnlyIndexSteps
<1> USE DEF ChunksTyped
<1>1. CASE Upsert
  BY <1>1 DEF Upsert, ToolTyped
<1>2. CASE Flush
  BY <1>2, BufferTyped DEF Flush
<1>3. CASE UNCHANGED <<stored, cached>>
  BY <1>3
<1> QED
  BY <1>1, <1>2, <1>3
     DEF IndexNext, indexVars, AutoIndex, PostIndex, RunResumable, RunEmbedCache,
         StartTool, OpenFile, ReadFails, Buffer, ChunkFails, FlushFails, ToolEnds,
         KillTool, EditFile, UploadRefdoc, DropOldChunks, AddChunk, UploadFails,
         DeleteRefdoc, DeleteChunks, DeleteFile, KillServer

-----------------------------------------------------------------------------
(* embed_cache keeps files whole *)

\* The files of which nothing is promised.
Spoiled == raised \union edited

\* The buffer holds whole files, but for the open one, of which it holds what
\* was read so far.
BufferKept ==
    /\ tool.kind # "cache" => tool.buffer = <<>>
    /\ \A f \in IndexedPaths(ToSet(tool.buffer)) \ (Spoiled \union {tool.file}) :
          Whole(ToSet(tool.buffer), f)
    /\ tool.kind = "cache" /\ tool.file \notin Spoiled \union {NoFile} =>
          /\ tool.size = repo[tool.file]
          /\ ChunksOf(tool.file, tool.next) \subseteq ToSet(tool.buffer)

CacheKept == ToolTyped /\ ChunksTyped /\ BufferKept /\ CachedFilesAreWhole

LEMMA NothingBuffered ==
    ToSet(<<>>) = {} /\ IndexedPaths(ToSet(<<>>)) = {} /\ IndexedPaths({}) = {}
<1>1. ToSet(<<>>) = {}
  BY DEF ToSet
<1> QED
  BY <1>1 DEF IndexedPaths

LEMMA CacheInit == Init => CacheKept
<1> SUFFICES ASSUME Init PROVE CacheKept
  OBVIOUS
<1>1. tool.buffer = <<>> /\ tool.kind = "idle" /\ cached = {}
  BY DEF Init, IndexInit, Idle
<1>2. stored = {}
  BY DEF Init, IndexInit
<1> QED
  BY <1>1, <1>2, ToolInit, NothingBuffered
     DEF CacheKept, ChunksTyped, BufferKept, CachedFilesAreWhole

\* A chunk is put into the buffer: the open file is whole once it is closed.
LEMMA BufferGrows ==
    ASSUME CacheKept, Buffer
    PROVE  BufferKept'
<1> DEFINE f == tool.file
           held == ToSet(tool.buffer)
           buffer == Append(tool.buffer, <<f, tool.next>>)
<1>1. /\ tool.kind = "cache" /\ f # NoFile
      /\ tool' = [Step(tool) EXCEPT
                       !.buffer = buffer,
                       !.full = tool.next + 1 = tool.size /\ Len(buffer) >= Batch]
      /\ UNCHANGED <<repo, raised, edited>>
  BY DEF Buffer
<1>2. /\ DOMAIN tool = ToolFields /\ tool.next \in Nat /\ tool.size \in Nat
      /\ tool.buffer \in Seq(AllFiles \X Nat) /\ tool.next < tool.size
  BY <1>1 DEF CacheKept, ToolTyped
<1>3. ToSet(buffer) = held \union {<<f, tool.next>>}
  BY <1>2, BufferedChunk
<1>4. IndexedPaths(ToSet(buffer)) = IndexedPaths(held) \union {f}
  <2>1. IndexedPaths(held \union {<<f, tool.next>>}) = IndexedPaths(held) \union {f}
    BY PathOfChunk
  <2> QED
    BY <2>1, <1>3
<1>5. f \notin Spoiled => /\ tool.size = repo[f]
                          /\ ChunksOf(f, tool.next + 1) \subseteq ToSet(buffer)
  <2>1. ChunksOf(f, tool.next + 1) = ChunksOf(f, tool.next) \union {<<f, tool.next>>}
    BY <1>2, ChunkByChunk
  <2>2. f \notin Spoiled => tool.size = repo[f] /\ ChunksOf(f, tool.next) \subseteq held
    BY <1>1, <1>2 DEF CacheKept, BufferKept
  <2> QED
    BY <1>3, <2>1, <2>2
<1>6. \A g \in IndexedPaths(held) \ (Spoiled \union {f}) : Whole(ToSet(buffer), g)
  BY <1>3 DEF CacheKept, BufferKept, Whole
<1> HIDE DEF buffer
<1>7. Spoiled' = Spoiled
  BY <1>1 DEF Spoiled
<1>8. CASE tool.next + 1 < tool.size
  <2>1. /\ tool'.kind = tool.kind /\ tool'.file = f /\ tool'.size = tool.size
        /\ tool'.next = tool.next + 1 /\ tool'.buffer = buffer
    BY <1>1, <1>2, <1>8 DEF Step, ToolFields
  <2> QED
    BY <2>1, <1>1, <1>4, <1>5, <1>6, <1>7 DEF BufferKept, Whole
<1>9. CASE ~(tool.next + 1 < tool.size)
  <2>1. tool'.kind = tool.kind /\ tool'.file = NoFile /\ tool'.buffer = buffer
    BY <1>1, <1>2, <1>9 DEF Step, ToolFields
  <2>2. f \notin Spoiled => Whole(ToSet(buffer), f)
    <3>1. tool.next + 1 = tool.size
      BY <1>2, <1>9
    <3> QED
      BY <3>1, <1>5 DEF Whole
  <2> QED
    BY <2>1, <2>2, <1>1, <1>4, <1>6, <1>7 DEF BufferKept, Whole
<1> QED
  BY <1>8, <1>9

\* The buffer is written when no file is open, so that every file in it is whole.
LEMMA BufferWritten ==
    ASSUME CacheKept, Flush
    PROVE  BufferKept' /\ CachedFilesAreWhole'
<1> DEFINE held == ToSet(tool.buffer)
<1>1. /\ tool.file = NoFile /\ cached' = cached \union held
      /\ UNCHANGED <<repo, raised, edited>>
      /\ tool' = [tool EXCEPT !.buffer = <<>>, !.full = FALSE]
  BY DEF Flush, FlushDue
<1>2. /\ tool'.kind = tool.kind /\ tool'.file = NoFile /\ tool'.buffer = <<>>
  BY <1>1 DEF CacheKept, ToolTyped, ToolFields
<1>3. BufferKept'
  BY <1>2, NothingBuffered DEF BufferKept
<1>4. NoFile \notin IndexedPaths(held)
  BY BufferTyped, PathsTyped, NoFileIsNone DEF CacheKept
<1>5. IndexedPaths(cached') = IndexedPaths(cached) \union IndexedPaths(held)
  BY <1>1, PathsOfUnion
<1>6. \A f \in IndexedPaths(held) \ Spoiled : Whole(held, f)
  BY <1>1, <1>4 DEF CacheKept, BufferKept
<1>7. CachedFilesAreWhole'
  BY <1>1, <1>5, <1>6 DEF CacheKept, CachedFilesAreWhole, Whole, Spoiled
<1> QED
  BY <1>3, <1>7

LEMMA CacheStep == CacheKept /\ [Next]_vars => CacheKept'
<1> SUFFICES ASSUME CacheKept, IndexNext \/ UNCHANGED indexVars, ToolTyped'
             PROVE  BufferKept' /\ CachedFilesAreWhole'
  BY OnlyIndexSteps, ToolStep, ChunksStep DEF CacheKept
<1> USE DEF CacheKept
<1>1. ASSUME UNCHANGED <<cached, repo>>, raised \subseteq raised', edited \subseteq edited'
      PROVE  CachedFilesAreWhole'
  BY <1>1 DEF CachedFilesAreWhole, Whole
<1>2. ASSUME tool'.buffer = <<>>, tool'.file = NoFile
      PROVE  BufferKept'
  BY <1>2, NothingBuffered DEF BufferKept
<1>3. ASSUME NEW kind, StartTool(kind) PROVE BufferKept' /\ CachedFilesAreWhole'
  <2>1. tool'.buffer = <<>> /\ tool'.file = NoFile
    BY <1>3, ToolEffects
  <2> QED
    BY <2>1, <1>1, <1>2, <1>3 DEF StartTool
<1>4. ASSUME NEW last, tool' = Idle(last), UNCHANGED <<cached, repo>>,
             raised \subseteq raised', edited \subseteq edited'
      PROVE  BufferKept' /\ CachedFilesAreWhole'
  <2>1. tool'.buffer = <<>> /\ tool'.file = NoFile
    BY <1>4, ToolEffects
  <2> QED
    BY <2>1, <1>1, <1>2, <1>4
<1>5. CASE OpenFile
  <2>1. UNCHANGED <<cached, repo, raised, edited>> /\ tool.file = NoFile
    BY <1>5 DEF OpenFile
  <2>2. PICK f \in AllFiles : /\ tool'.kind = tool.kind /\ tool'.file = f
                              /\ tool'.buffer = tool.buffer
                              /\ tool'.next = 0 /\ tool'.size = repo[f]
    BY <1>5, ToolEffects
  <2>3. NoFile \notin IndexedPaths(ToSet(tool.buffer))
    BY BufferTyped, PathsTyped, NoFileIsNone
  <2>4. ChunksOf(f, 0) = {}
    BY ChunkByChunk
  <2>5. BufferKept'
    BY <2>1, <2>2, <2>3, <2>4 DEF BufferKept, Whole, Spoiled
  <2> QED
    BY <2>1, <2>5, <1>1
<1>6. CASE ReadFails
  <2>1. PICK f \in AllFiles :
           tool' = IF tool.kind = "index" THEN Idle("none") ELSE Taken(f)
    BY <1>6 DEF ReadFails
  <2>2. /\ UNCHANGED <<cached, repo, edited>> /\ raised \subseteq raised'
    BY <1>6 DEF ReadFails
  <2>3. CASE tool' = Taken(f)
    <3>1. tool'.kind = tool.kind /\ tool'.file = tool.file /\ tool'.buffer = tool.buffer
      BY <2>3 DEF Taken, ToolTyped, ToolFields
    <3>2. tool.file = NoFile
      BY <1>6 DEF ReadFails
    <3> QED
      BY <3>1, <3>2, <2>2, <1>1 DEF BufferKept, Whole, Spoiled
  <2> QED
    BY <2>1, <2>2, <2>3, <1>4
<1>7. CASE Upsert
  <2>1. /\ UNCHANGED <<cached, repo, raised, edited>> /\ tool' = Step(tool)
        /\ tool.kind # "cache"
    BY <1>7 DEF Upsert
  <2>2. tool.buffer = <<>>
    BY <2>1 DEF BufferKept
  <2>3. tool'.buffer = <<>> /\ tool'.kind = tool.kind
    BY <2>1, <2>2 DEF Step, ToolTyped, ToolFields
  <2> QED
    BY <2>1, <2>3, <1>1, NothingBuffered DEF BufferKept
<1>8. CASE Buffer
  BY <1>8, <1>1, BufferGrows DEF Buffer
<1>9. CASE ChunkFails
  <2>1. /\ UNCHANGED <<cached, repo, edited>> /\ raised' = raised \union {tool.file}
        /\ tool' = IF tool.kind = "index" THEN Idle("none") ELSE [tool EXCEPT !.file = NoFile]
    BY <1>9 DEF ChunkFails, Skip
  <2>2. CASE tool' = [tool EXCEPT !.file = NoFile]
    <3>1. tool'.kind = tool.kind /\ tool'.file = NoFile /\ tool'.buffer = tool.buffer
      BY <2>2 DEF ToolTyped, ToolFields
    <3> QED
      BY <3>1, <2>1, <1>1 DEF BufferKept, Whole, Spoiled
  <2> QED
    BY <2>1, <2>2, <1>4
<1>10. CASE Flush
  BY <1>10, BufferWritten
<1>11. CASE FlushFails
  <2>1. /\ UNCHANGED <<cached, repo, raised, edited>>
        /\ tool' = IF tool.full THEN [tool EXCEPT !.full = FALSE] ELSE Idle("none")
    BY <1>11 DEF FlushFails
  <2>2. CASE tool' = [tool EXCEPT !.full = FALSE]
    <3>1. /\ tool'.kind = tool.kind /\ tool'.file = tool.file /\ tool'.buffer = tool.buffer
          /\ tool'.size = tool.size /\ tool'.next = tool.next
      BY <2>2 DEF ToolTyped, ToolFields
    <3> QED
      BY <3>1, <2>1, <1>1 DEF BufferKept, Whole, Spoiled
  <2> QED
    BY <2>1, <2>2, <1>4
<1>12. CASE ToolEnds
  BY <1>12, <1>4 DEF ToolEnds
<1>13. CASE KillTool
  BY <1>13, <1>4 DEF KillTool
<1>14. ASSUME NEW f \in AllFiles, EditFile(f) PROVE BufferKept' /\ CachedFilesAreWhole'
  <2>1. /\ UNCHANGED <<cached, tool, raised>> /\ edited' = edited \union {f}
        /\ \A g \in AllFiles \ {f} : repo'[g] = repo[g]
    BY <1>14 DEF EditFile, ToolTyped
  <2>2. IndexedPaths(ToSet(tool.buffer)) \union IndexedPaths(cached) \subseteq AllFiles
    <3>1. cached \in SUBSET (AllFiles \X Nat)
      BY DEF ChunksTyped
    <3> QED
      BY <3>1, BufferTyped, PathsTyped
  <2>3. CachedFilesAreWhole'
    BY <2>1, <2>2 DEF CachedFilesAreWhole, Whole
  <2>4. BufferKept'
    BY <2>1, <2>2 DEF BufferKept, Whole, Spoiled, ToolTyped
  <2> QED
    BY <2>3, <2>4
<1>15. CASE UNCHANGED <<repo, tool, cached, raised, edited>>
  BY <1>15, <1>1 DEF BufferKept, Whole, Spoiled
<1> QED
  BY <1>3, <1>5, <1>6, <1>7, <1>8, <1>9, <1>10, <1>11, <1>12, <1>13, <1>14, <1>15
     DEF IndexNext, indexVars, AutoIndex, PostIndex, RunResumable, RunEmbedCache,
         UploadRefdoc, DropOldChunks, AddChunk, UploadFails, DeleteRefdoc,
         DeleteChunks, DeleteFile, KillServer

\* embed_cache.db holds files whole, whatever is killed and whichever write
\* fails, for any size of its batch: of a file in it, it has every chunk, unless
\* the enrichment of one raised or the file was edited since.
THEOREM CacheIsWhole == Spec => []CachedFilesAreWhole
<1>1. CacheKept => CachedFilesAreWhole
  BY DEF CacheKept
<1> QED
  BY <1>1, CacheInit, CacheStep, PTL DEF Spec

-----------------------------------------------------------------------------
(* A resumed run leaves no hole *)

Complete(f) == Whole(stored, f)
CompleteBefore(f) == \A g \in Present : ListedBefore(g, f) => Complete(g)

\* The index was built in order: whatever is listed before a file of which a
\* chunk is stored is whole, so that a stop can have cut off the last file only.
StoredInOrder == \A f \in IndexedPaths(stored) : CompleteBefore(f)

\* What a builder that runs has still to do: every present file that is not
\* whole is open, to be done again, or waiting.
BuilderInOrder ==
    tool.kind \in {"index", "resume"} =>
        /\ tool.file # NoFile => /\ tool.size = repo[tool.file]
                                 /\ ChunksOf(tool.file, tool.next) \subseteq stored
                                 /\ CompleteBefore(tool.file)
        /\ tool.again # NoFile => tool.file = NoFile /\ CompleteBefore(tool.again)
        /\ \A f \in Present : Complete(f) \/ f \in tool.todo \union {tool.again, tool.file}

\* The end of a resumed run.
ResumeEnded ==
    tool.last = "resume" => tool.kind = "idle" /\ \A f \in Present : Complete(f)

InOrder == StoredInOrder /\ BuilderInOrder /\ ResumeEnded

NoHole == ToolTyped /\ ChunksTyped /\ (Spoiled = {} => InOrder)

\* The listing has an order.
LEMMA ListedOnce == \A f, g : ~(ListedBefore(f, g) /\ ListedBefore(g, f))
<1> SUFFICES ASSUME NEW f, NEW g, ListedBefore(f, g), ListedBefore(g, f) PROVE FALSE
  OBVIOUS
<1>1. PICK i, j \in DOMAIN Files : i < j /\ Files[i] = f /\ Files[j] = g
  BY DEF ListedBefore
<1>2. PICK k, l \in DOMAIN Files : k < l /\ Files[k] = g /\ Files[l] = f
  BY DEF ListedBefore
<1>3. i = l /\ j = k
  BY <1>1, <1>2, IndexAssumption DEF IsInjective
<1>4. DOMAIN Files \subseteq Nat
  BY FilesAssumption
<1> QED
  BY <1>1, <1>2, <1>3, <1>4

LEMMA HoleInit == Init => NoHole
<1> SUFFICES ASSUME Init PROVE NoHole
  OBVIOUS
<1>1. tool.kind = "idle" /\ tool.last = "none" /\ stored = {} /\ cached = {}
  BY DEF Init, IndexInit, Idle
<1> QED
  BY <1>1, ToolInit, NothingBuffered
     DEF NoHole, ChunksTyped, InOrder, StoredInOrder, BuilderInOrder, ResumeEnded

\* What stays whole: more chunks of the same repository.
LEMMA StaysComplete ==
    ASSUME UNCHANGED repo, stored \subseteq stored'
    PROVE  /\ Present' = Present
           /\ \A f : Complete(f) => Complete(f)'
           /\ \A f : CompleteBefore(f) => CompleteBefore(f)'
<1>1. Present' = Present
  BY DEF Present
<1>2. ASSUME NEW f, Complete(f) PROVE Complete(f)'
  BY <1>2 DEF Complete, Whole
<1> QED
  BY <1>1, <1>2 DEF CompleteBefore

\* A builder starts: a resumed run takes up every file that is not whole.
LEMMA OrderStarted ==
    ASSUME ToolTyped, InOrder, NEW kind, StartTool(kind)
    PROVE  InOrder'
<1>1. PICK again \in (IF kind = "resume" THEN Redo ELSE {NoFile}) :
        tool' = [Idle("none") EXCEPT
                    !.kind = kind, !.again = again,
                    !.todo = CASE kind = "index" -> Present
                               [] kind = "resume" -> NotDone(stored)
                               [] kind = "cache" -> NotDone(cached)]
  BY DEF StartTool
<1>2. UNCHANGED <<repo, stored>>
  BY DEF StartTool
<1>3. /\ tool'.kind = kind /\ tool'.last = "none" /\ tool'.file = NoFile
      /\ tool'.again = again
      /\ kind = "index" => tool'.todo = Present
      /\ kind = "resume" => tool'.todo = NotDone(stored)
  BY <1>1 DEF Idle
<1>4. StoredInOrder' /\ ResumeEnded'
  <2>1. StoredInOrder'
    BY <1>2, StaysComplete DEF InOrder, StoredInOrder
  <2> QED
    BY <2>1, <1>3 DEF ResumeEnded
<1>5. CASE kind = "index"
  BY <1>2, <1>3, <1>4, <1>5, StaysComplete DEF InOrder, BuilderInOrder
<1>6. CASE kind = "resume"
  <2>1. again # NoFile => again \in IndexedPaths(stored)
    BY <1>6 DEF Redo
  <2>2. again # NoFile => CompleteBefore(again)
    BY <2>1 DEF InOrder, StoredInOrder
  <2>3. ASSUME NEW f \in Present, f \notin NotDone(stored), f # again
        PROVE  Complete(f)
    <3>1. f \in Present \cap IndexedPaths(stored)
      BY <2>3 DEF NotDone
    <3>2. again \in IndexedPaths(stored) /\ ListedBefore(f, again)
      BY <3>1, <2>3, <1>6 DEF Redo
    <3> QED
      BY <3>2 DEF InOrder, StoredInOrder, CompleteBefore
  <2> QED
    BY <2>2, <2>3, <1>2, <1>3, <1>4, <1>6, StaysComplete DEF InOrder, BuilderInOrder
<1>7. CASE kind \notin {"index", "resume"}
  BY <1>3, <1>4, <1>7 DEF InOrder, BuilderInOrder
<1> QED
  BY <1>5, <1>6, <1>7

\* A file is opened: those before it are whole.
LEMMA OrderOpened ==
    ASSUME ToolTyped, InOrder, OpenFile
    PROVE  InOrder'
<1>1. PICK f \in AllFiles : /\ IsNext(f) /\ repo[f] > 0
                            /\ tool'.kind = tool.kind /\ tool'.last = tool.last
                            /\ tool'.file = f
                            /\ tool'.next = 0 /\ tool'.size = repo[f]
                            /\ tool'.again = NoFile /\ tool'.todo = tool.todo \ {f}
  BY ToolEffects
<1>2. UNCHANGED <<repo, stored>> /\ tool.kind # "idle" /\ tool.file = NoFile
  BY DEF OpenFile
<1>3. StoredInOrder' /\ ResumeEnded'
  <2>1. StoredInOrder'
    BY <1>2, StaysComplete DEF InOrder, StoredInOrder
  <2> QED
    BY <2>1, <1>1, <1>2 DEF InOrder, ResumeEnded
<1>4. ASSUME tool.kind \in {"index", "resume"} PROVE BuilderInOrder'
  <2>1. CompleteBefore(f)
    <3>1. CASE tool.again # NoFile
      BY <3>1, <1>1, <1>4 DEF InOrder, BuilderInOrder, IsNext
    <3>2. CASE tool.again = NoFile
      <4> SUFFICES ASSUME NEW g \in Present, ListedBefore(g, f) PROVE Complete(g)
        BY DEF CompleteBefore
      <4>1. \A h \in tool.todo \ {f} : ListedBefore(f, h)
        BY <3>2, <1>1, <1>4 DEF IsNext
      <4>2. g \notin tool.todo
        BY <4>1, ListedOnce
      <4>3. g # NoFile
        BY NoFileIsNone DEF Present
      <4> QED
        BY <4>2, <4>3, <3>2, <1>2, <1>4 DEF InOrder, BuilderInOrder
    <3> QED
      BY <3>1, <3>2
  <2>2. ChunksOf(f, 0) = {} /\ f # NoFile
    BY ChunkByChunk, NoFileIsNone
  <2>3. \A g \in Present : Complete(g) \/ g \in tool'.todo \union {tool'.again, tool'.file}
    <3> SUFFICES ASSUME NEW g \in Present
                 PROVE  Complete(g) \/ g \in tool'.todo \union {tool'.again, tool'.file}
      OBVIOUS
    <3>1. g # NoFile
      BY NoFileIsNone DEF Present
    <3>2. Complete(g) \/ g \in tool.todo \union {tool.again}
      BY <3>1, <1>2, <1>4 DEF InOrder, BuilderInOrder
    <3>3. g = tool.again => g = f
      BY <3>1, <1>1 DEF IsNext
    <3> QED
      BY <3>2, <3>3, <1>1
  <2> QED
    BY <2>1, <2>2, <2>3, <1>1, <1>2, StaysComplete DEF BuilderInOrder
<1> QED
  BY <1>1, <1>3, <1>4 DEF InOrder, BuilderInOrder

\* A chunk is stored: the open file is whole once it is closed.
LEMMA OrderStored ==
    ASSUME ToolTyped, InOrder, Upsert
    PROVE  InOrder'
<1>0. PICK f : f = tool.file
  OBVIOUS
<1>1. /\ tool.kind \in {"index", "resume"} /\ f # NoFile
      /\ stored' = stored \union {<<f, tool.next>>}
      /\ tool' = Step(tool)
      /\ UNCHANGED repo
  BY <1>0 DEF Upsert
<1>2. /\ tool.next \in Nat /\ tool.size \in Nat /\ tool.next < tool.size
      /\ DOMAIN tool = ToolFields
  BY <1>0, <1>1 DEF ToolTyped
<1>3. /\ tool.size = repo[f] /\ ChunksOf(f, tool.next) \subseteq stored
      /\ CompleteBefore(f)
      /\ tool.again = NoFile
      /\ \A g \in Present : Complete(g) \/ g \in tool.todo \union {tool.again, f}
  BY <1>0, <1>1 DEF InOrder, BuilderInOrder
<1>4. ChunksOf(f, tool.next + 1) \subseteq stored'
  BY <1>1, <1>2, <1>3, ChunkByChunk
<1>5. IndexedPaths(stored') = IndexedPaths(stored) \union {f}
  <2>1. IndexedPaths(stored \union {<<f, tool.next>>}) = IndexedPaths(stored) \union {f}
    BY PathOfChunk
  <2> QED
    BY <2>1, <1>1
<1>6. /\ Present' = Present
      /\ \A g : Complete(g) => Complete(g)'
      /\ \A g : CompleteBefore(g) => CompleteBefore(g)'
  BY <1>1, StaysComplete
<1>7. StoredInOrder'
  BY <1>3, <1>5, <1>6 DEF InOrder, StoredInOrder
<1>8. tool'.last = tool.last /\ tool'.kind = tool.kind /\ tool'.again = NoFile
      /\ tool'.todo = tool.todo
  BY <1>1, <1>2, <1>3 DEF Step, ToolFields
<1>9. ResumeEnded'
  BY <1>1, <1>8 DEF InOrder, ResumeEnded
<1>10. CASE tool.next + 1 < tool.size
  <2>1. tool'.file = f /\ tool'.size = tool.size /\ tool'.next = tool.next + 1
    BY <1>0, <1>1, <1>2, <1>10 DEF Step, ToolFields
  <2> QED
    BY <2>1, <1>1, <1>3, <1>4, <1>6, <1>7, <1>8, <1>9 DEF InOrder, BuilderInOrder
<1>11. CASE ~(tool.next + 1 < tool.size)
  <2>1. tool'.file = NoFile
    BY <1>1, <1>2, <1>11 DEF Step, ToolFields
  <2>2. Complete(f)'
    <3>1. tool.next + 1 = repo[f]
      BY <1>2, <1>3, <1>11
    <3> QED
      BY <3>1, <1>1, <1>4 DEF Complete, Whole
  <2> QED
    BY <2>1, <2>2, <1>1, <1>3, <1>6, <1>7, <1>8, <1>9 DEF InOrder, BuilderInOrder
<1> QED
  BY <1>10, <1>11

LEMMA HoleStep == NoHole /\ [Next]_vars => NoHole'
<1> SUFFICES ASSUME ToolTyped, Spoiled = {} => InOrder, Spoiled' = {},
                    IndexNext \/ UNCHANGED indexVars
             PROVE  InOrder'
  BY OnlyIndexSteps, ToolStep, ChunksStep DEF NoHole
<1>1. ASSUME raised \subseteq raised', edited \subseteq edited' PROVE InOrder
  BY <1>1 DEF Spoiled
<1>2. ASSUME NEW f, raised' = raised \union {f} PROVE FALSE
  BY <1>2 DEF Spoiled
<1>3. ASSUME NEW last, tool' = Idle(last), UNCHANGED <<repo, stored, raised, edited>>,
             last # "resume"
      PROVE  InOrder'
  <2>1. tool'.kind = "idle" /\ tool'.last = last
    BY <1>3, ToolEffects
  <2>2. StoredInOrder'
    BY <1>1, <1>3, StaysComplete DEF InOrder, StoredInOrder
  <2> QED
    BY <2>1, <2>2, <1>3 DEF InOrder, BuilderInOrder, ResumeEnded
<1>4. ASSUME UNCHANGED <<repo, stored, raised, edited>>, tool.kind = "cache",
             tool'.kind = tool.kind, tool'.last = tool.last
      PROVE  InOrder'
  <2>1. StoredInOrder'
    BY <1>1, <1>4, StaysComplete DEF InOrder, StoredInOrder
  <2> QED
    BY <2>1, <1>1, <1>4 DEF InOrder, BuilderInOrder, ResumeEnded
<1>5. ASSUME NEW kind, StartTool(kind) PROVE InOrder'
  BY <1>1, <1>5, OrderStarted DEF StartTool
<1>6. CASE OpenFile
  BY <1>1, <1>6, OrderOpened DEF OpenFile
<1>7. CASE Upsert
  BY <1>1, <1>7, OrderStored DEF Upsert
<1>8. CASE ReadFails
  BY <1>2, <1>8 DEF ReadFails
<1>9. CASE Buffer
  <2>1. tool'.kind = tool.kind /\ tool'.last = tool.last
    BY <1>9 DEF Buffer, Step, ToolTyped, ToolFields
  <2> QED
    BY <2>1, <1>4, <1>9 DEF Buffer
<1>10. CASE ChunkFails
  BY <1>2, <1>10 DEF ChunkFails, Skip
<1>11. CASE Flush
  <2>1. tool'.kind = tool.kind /\ tool'.last = tool.last
    BY <1>11 DEF Flush, ToolTyped, ToolFields
  <2> QED
    BY <2>1, <1>4, <1>11 DEF Flush, FlushDue
<1>12. CASE FlushFails
  <2>1. /\ UNCHANGED <<repo, stored, raised, edited>> /\ tool.kind = "cache"
        /\ tool' = IF tool.full THEN [tool EXCEPT !.full = FALSE] ELSE Idle("none")
    BY <1>12 DEF FlushFails, FlushDue
  <2>2. CASE tool' = [tool EXCEPT !.full = FALSE]
    <3>1. tool'.kind = tool.kind /\ tool'.last = tool.last
      BY <2>2 DEF ToolTyped, ToolFields
    <3> QED
      BY <3>1, <2>1, <1>4
  <2> QED
    BY <2>1, <2>2, <1>3
<1>13. CASE ToolEnds
  <2>1. /\ UNCHANGED <<repo, stored, raised, edited>> /\ tool' = Idle(tool.kind)
        /\ tool.kind # "idle" /\ tool.file = NoFile
        /\ tool.again = NoFile /\ tool.todo = {}
    BY <1>13 DEF ToolEnds, Waiting
  <2>2. CASE tool.kind = "resume"
    <3>1. tool'.kind = "idle"
      BY <2>1, ToolEffects
    <3>2. \A f \in Present : Complete(f)
      <4>1. NoFile \notin Present
        BY NoFileIsNone DEF Present
      <4> QED
        BY <4>1, <2>1, <2>2, <1>1 DEF InOrder, BuilderInOrder
    <3>3. StoredInOrder'
      BY <1>1, <2>1, StaysComplete DEF InOrder, StoredInOrder
    <3> QED
      BY <3>1, <3>2, <3>3, <2>1, StaysComplete DEF InOrder, BuilderInOrder, ResumeEnded
  <2> QED
    BY <2>1, <2>2, <1>3
<1>14. CASE KillTool
  BY <1>14, <1>3 DEF KillTool
<1>15. ASSUME NEW f \in AllFiles, EditFile(f) PROVE FALSE
  BY <1>15 DEF EditFile, Spoiled
<1>16. CASE UNCHANGED <<repo, tool, stored, raised, edited>>
  <2>1. StoredInOrder'
    BY <1>1, <1>16, StaysComplete DEF InOrder, StoredInOrder
  <2> QED
    BY <2>1, <1>1, <1>16, StaysComplete DEF InOrder, BuilderInOrder, ResumeEnded
<1> QED
  BY <1>5, <1>6, <1>7, <1>8, <1>9, <1>10, <1>11, <1>12, <1>13, <1>14, <1>15, <1>16
     DEF IndexNext, indexVars, AutoIndex, PostIndex, RunResumable, RunEmbedCache,
         UploadRefdoc, DropOldChunks, AddChunk, UploadFails, DeleteRefdoc,
         DeleteChunks, DeleteFile, KillServer

\* A resumed run that comes to its end has left no file out and none in half, as
\* long as no file raised and none was edited: redoing one file, the last that
\* is done, is enough, for any number of files, runs and kills before it.
THEOREM ResumeIsWhole == Spec => []ResumeLeavesNoHole
<1>1. NoHole => ResumeLeavesNoHole
  BY DEF NoHole, InOrder, ResumeEnded, Complete, Spoiled, ResumeLeavesNoHole
<1> QED
  BY <1>1, HoleInit, HoleStep, PTL DEF Spec

-----------------------------------------------------------------------------
(* What the providers find *)

\* A candidate of one provider is a hit.
LEMMA HitGiven ==
    ASSUME NEW c, DOMAIN c = Fields, c.path \in AllFiles, c.hash = "",
           NEW source, source \in Sources, NEW score, score \in 0..100,
           DOMAIN c.evidence = {source}, c.evidence[source] = score, c.score = 100 * score,
           c.stale \in BOOLEAN, c.stale => score = 0
    PROVE  Hit(c)
BY DEF Hit, AllFiles

\* A hit of a provider that speaks of files, never outdated.
LEMMA LiveHit ==
    ASSUME NEW place, place.path \in AllFiles, NEW source, source \in Sources,
           NEW score, score \in 0..100,
           NEW c, c = Candidate(place, "", source, score, FALSE)
    PROVE  Hit(c) /\ DOMAIN c.evidence = {source}
<1>1. /\ DOMAIN c = Fields /\ c.path = place.path
      /\ c.hash = "" /\ c.score = 100 * score
  BY DEF Candidate, Fields
<1>2. DOMAIN c.evidence = {source} /\ c.evidence[source] = score
  BY DEF Candidate
<1>3. c.stale = FALSE
  BY Zenon DEF Candidate
<1>4. c.stale \in BOOLEAN /\ (c.stale => score = 0)
  BY <1>3
<1> QED
  BY <1>1, <1>2, <1>4, HitGiven

\* The repository is finite.
LEMMA FilesFinite == IsFiniteSet(AllFiles)
<1>1. DOMAIN Files = 1..Len(Files) /\ Len(Files) \in Nat
  BY FilesAssumption
<1>2. IsFiniteSet(DOMAIN Files)
  BY <1>1, FS_Interval
<1>3. AllFiles = {Files[i] : i \in DOMAIN Files}
  BY DEF AllFiles, ToSet
<1> QED
  BY <1>2, <1>3, FiniteValues

\* The listing is an order of the files.
LEMMA ListingOrders ==
    /\ \A f : ~ListedBefore(f, f)
    /\ \A f, g, h : ListedBefore(f, g) /\ ListedBefore(g, h) => ListedBefore(f, h)
    /\ \A f, g \in AllFiles : f = g \/ ListedBefore(f, g) \/ ListedBefore(g, f)
<1>0. DOMAIN Files \subseteq Nat
  BY FilesAssumption
<1>1. \A f : ~ListedBefore(f, f)
  BY ListedOnce
<1>2. ASSUME NEW f, NEW g, NEW h, ListedBefore(f, g), ListedBefore(g, h)
      PROVE  ListedBefore(f, h)
  <2>1. PICK i, j \in DOMAIN Files : i < j /\ Files[i] = f /\ Files[j] = g
    BY <1>2 DEF ListedBefore
  <2>2. PICK k, l \in DOMAIN Files : k < l /\ Files[k] = g /\ Files[l] = h
    BY <1>2 DEF ListedBefore
  <2>3. j = k
    BY <2>1, <2>2, IndexAssumption DEF IsInjective
  <2>4. i < l
    BY <2>1, <2>2, <2>3, <1>0
  <2> QED
    BY <2>1, <2>2, <2>4 DEF ListedBefore
<1>3. ASSUME NEW f \in AllFiles, NEW g \in AllFiles, f # g
      PROVE  ListedBefore(f, g) \/ ListedBefore(g, f)
  <2>1. PICK i \in DOMAIN Files : Files[i] = f
    BY DEF AllFiles, ToSet
  <2>2. PICK j \in DOMAIN Files : Files[j] = g
    BY DEF AllFiles, ToSet
  <2>3. i < j \/ j < i
    BY <2>1, <2>2, <1>0, <1>3
  <2> QED
    BY <2>1, <2>2, <2>3 DEF ListedBefore
<1> QED
  BY <1>1, <1>2, <1>3

\* The hits of one provider.
FoundBy(source, hits) ==
    /\ Found(hits)
    /\ \A c \in ToSet(hits) : DOMAIN c.evidence = {source}

\* The nearest chunks are hits, whatever has become of their files: the order of
\* the chunks by similarity, number and file compares any two of them.
LEMMA RagFound ==
    ASSUME stored \subseteq ChunkIds, NEW k \in Nat
    PROVE  FoundBy("rag", RagHits(k))
<1> DEFINE close(c) == Similarity[c[1]]
           number(c) == c[2]
           listed(c, d) == ListedBefore(c[1], d[1])
           Closer(c, d) ==
            \/ close(c) > close(d)
            \/ close(c) = close(d) /\ number(c) < number(d)
            \/ close(c) = close(d) /\ number(c) = number(d) /\ listed(c, d)
           less == {p \in stored \X stored : Closer(p[1], p[2])}
           near == FinalTopK(Arrange(stored, less), k)
<1>1. IsFiniteSet(stored)
  <2>1. IsFiniteSet(0..(MaxChunks - 1))
    BY IndexAssumption, FS_Interval
  <2>2. IsFiniteSet(ChunkIds)
    BY <2>1, FilesFinite, FS_Product DEF ChunkIds
  <2> QED
    BY <2>2, FS_Subset
<1>2. \A c \in stored : /\ c[1] \in AllFiles /\ number(c) \in Nat
                        /\ c = <<c[1], number(c)>>
                        /\ Similarity[c[1]] \in 0..100 /\ close(c) \in Nat
  <2>1. \A f \in AllFiles : Similarity[f] \in 0..100
    BY SearchAssumption DEF AllFiles
  <2>2. 0..(MaxChunks - 1) \subseteq Nat
    BY IndexAssumption
  <2>3. stored \subseteq AllFiles \X Nat
    BY <2>2 DEF ChunkIds
  <2>4. 0..100 \subseteq Nat
    OBVIOUS
  <2> QED
    BY <2>1, <2>3, <2>4
<1>3. \A c, d : <<c, d>> \in less <=> c \in stored /\ d \in stored /\ Closer(c, d)
  OBVIOUS
<1>4. /\ \A c \in stored : ~listed(c, c)
      /\ \A c, d, e \in stored : listed(c, d) /\ listed(d, e) => listed(c, e)
      /\ \A c, d \in stored : number(c) = number(d) => c = d \/ listed(c, d) \/ listed(d, c)
  <2>1. /\ \A c \in stored : ~listed(c, c)
        /\ \A c, d, e \in stored : listed(c, d) /\ listed(d, e) => listed(c, e)
    BY ListingOrders
  <2>2. \A c, d \in stored : c[1] = d[1] \/ listed(c, d) \/ listed(d, c)
    BY <1>2, ListingOrders
  <2>3. \A c, d \in stored : c[1] = d[1] /\ number(c) = number(d) => c = d
    BY <1>2
  <2> QED
    BY <2>1, <2>2, <2>3
<1>5. RagHits(k) = [i \in DOMAIN near |->
         Candidate(PlaceOf(near[i]), "", "rag", Similarity[near[i][1]], FALSE)]
  BY DEF RagHits
<1> HIDE DEF close, number, listed
<1>6. /\ \A c \in stored : ~Closer(c, c)
      /\ \A c, d, e \in stored : Closer(c, d) /\ Closer(d, e) => Closer(c, e)
      /\ \A c, d \in stored : c = d \/ Closer(c, d) \/ Closer(d, c)
  <2>1. \A c \in stored : ~Closer(c, c)
    BY <1>2, <1>4
  <2>2. ASSUME NEW c \in stored, NEW d \in stored, NEW e \in stored, Closer(c, d), Closer(d, e)
        PROVE  Closer(c, e)
    <3>1. close(c) \in Nat /\ close(d) \in Nat /\ close(e) \in Nat
          /\ number(c) \in Nat /\ number(d) \in Nat /\ number(e) \in Nat
          /\ (listed(c, d) /\ listed(d, e) => listed(c, e))
      BY <1>2, <1>4
    <3> QED
      BY <2>2, <3>1
  <2>3. ASSUME NEW c \in stored, NEW d \in stored PROVE c = d \/ Closer(c, d) \/ Closer(d, c)
    <3>1. close(c) \in Nat /\ close(d) \in Nat /\ number(c) \in Nat /\ number(d) \in Nat
          /\ (number(c) = number(d) => c = d \/ listed(c, d) \/ listed(d, c))
      BY <1>2, <1>4
    <3> QED
      BY <3>1
  <2> QED
    BY <2>1, <2>2, <2>3
<1>7. Orders(less, stored)
  <2> HIDE DEF Closer, less
  <2> QED
    BY <1>3, <1>6, Zenon DEF Orders
<1> HIDE DEF near, less
<1>9. PICK n \in Nat : near \in [1..n -> stored]
  BY <1>1, <1>7, NearOnes DEF near
<1>10. PICK hits : hits = RagHits(k)
  OBVIOUS
<1>11. /\ hits = [i \in 1..n |-> hits[i]] /\ DOMAIN hits = 1..n
       /\ \A i \in 1..n : hits[i] = Candidate(PlaceOf(near[i]), "", "rag", Similarity[near[i][1]], FALSE)
  BY <1>5, <1>9, <1>10
<1>12. \A i \in 1..n : Hit(hits[i]) /\ DOMAIN hits[i].evidence = {"rag"}
  <2> TAKE i \in 1..n
  <2>1. PICK place : place = PlaceOf(near[i])
    OBVIOUS
  <2>2. place.path = near[i][1] /\ near[i] \in stored
    BY <1>9, <2>1 DEF PlaceOf, Place
  <2>3. place.path \in AllFiles /\ Similarity[near[i][1]] \in 0..100
    BY <1>2, <2>2
  <2>4. hits[i] = Candidate(place, "", "rag", Similarity[near[i][1]], FALSE)
    BY <1>11, <2>1
  <2>5. PICK c : c = hits[i]
    OBVIOUS
  <2>6. PICK score : score = Similarity[near[i][1]]
    OBVIOUS
  <2>7. c = Candidate(place, "", "rag", score, FALSE) /\ score \in 0..100
    BY <2>3, <2>4, <2>5, <2>6
  <2>8. "rag" \in Sources
    BY DEF Sources
  <2>9. Hit(c) /\ DOMAIN c.evidence = {"rag"}
    BY <2>3, <2>7, <2>8, LiveHit
  <2> QED
    BY <2>5, <2>9
<1>13. Found(hits)
  BY <1>11, <1>12, FoundFrom
<1>14. \A c \in ToSet(hits) : DOMAIN c.evidence = {"rag"}
  BY <1>11, <1>12, Zenon DEF ToSet
<1> QED
  BY <1>10, <1>13, <1>14 DEF FoundBy

\* The files of the codes, at most three of each, are hits.
LEMMA TermsFound ==
    ASSUME NEW terms, terms \in Seq(Terms), NEW source \in Sources, NEW known
    PROVE  FoundBy(source, TermHits(terms, source, known))
<1> DEFINE File(p) == terms[p[1]].files[p[2]]
           pairs == [t \in DOMAIN terms |-> {t} \X (DOMAIN terms[t].files)]
           all == UNION {{t} \X (DOMAIN terms[t].files) : t \in DOMAIN terms}
           shown == {p \in all :
                        /\ File(p) \in known
                        /\ Cardinality({j \in 1..(p[2] - 1) : File(<<p[1], j>>) \in known}) < 3}
           less == {q \in shown \X shown : \/ q[1][1] < q[2][1]
                                           \/ q[1][1] = q[2][1] /\ q[1][2] < q[2][2]}
           order == Arrange(shown, less)
           hit(p) == Candidate(Place(File(p), terms[p[1]].symbol), "", source, terms[p[1]].score, FALSE)
<1>1. /\ IsFiniteSet(DOMAIN terms) /\ DOMAIN terms \subseteq Nat
      /\ \A t \in DOMAIN terms : terms[t] \in Terms
  <2>1. DOMAIN terms = 1..Len(terms) /\ Len(terms) \in Nat
    OBVIOUS
  <2>2. IsFiniteSet(1..Len(terms))
    BY <2>1, FS_Interval
  <2> QED
    BY <2>1, <2>2
<1>2. \A t \in DOMAIN terms :
         /\ terms[t].score \in 0..100
         /\ IsFiniteSet(DOMAIN terms[t].files) /\ DOMAIN terms[t].files \subseteq Nat
         /\ \A i \in DOMAIN terms[t].files : terms[t].files[i] \in AllFiles
  <2> TAKE t \in DOMAIN terms
  <2>1. PICK files : files = terms[t].files
    OBVIOUS
  <2>2. files \in Seq(ToSet(Files)) /\ terms[t].score \in 0..100
    BY <1>1, <2>1 DEF Terms
  <2>3. /\ DOMAIN files = 1..Len(files) /\ Len(files) \in Nat
        /\ \A i \in DOMAIN files : files[i] \in ToSet(Files)
    BY <2>2
  <2>4. IsFiniteSet(1..Len(files))
    BY <2>3, FS_Interval
  <2> QED
    BY <2>1, <2>2, <2>3, <2>4 DEF AllFiles
<1>3. IsFiniteSet(shown)
  <2>1. /\ DOMAIN pairs = DOMAIN terms
        /\ \A t \in DOMAIN terms : pairs[t] = {t} \X (DOMAIN terms[t].files)
    OBVIOUS
  <2>2. \A t \in DOMAIN terms : IsFiniteSet(pairs[t])
    BY <1>2, <2>1, FS_Singleton, FS_Product
  <2>3. all = UNION {pairs[t] : t \in DOMAIN pairs}
    BY <2>1
  <2> HIDE DEF pairs
  <2>4. IsFiniteSet({pairs[t] : t \in DOMAIN pairs})
    BY <1>1, <2>1, FiniteValues
  <2>5. IsFiniteSet(all)
    <3>1. \A T \in {pairs[t] : t \in DOMAIN pairs} : IsFiniteSet(T)
      BY <2>1, <2>2
    <3> QED
      BY <2>3, <2>4, <3>1, FS_UNION
  <2>6. shown \subseteq all
    OBVIOUS
  <2> QED
    BY <2>5, <2>6, FS_Subset
<1>4. \A p \in shown : /\ p[1] \in Nat /\ p[2] \in Nat /\ p = <<p[1], p[2]>>
                       /\ File(p) \in AllFiles /\ terms[p[1]].score \in 0..100
  <2> TAKE p \in shown
  <2>1. PICK t \in DOMAIN terms : p \in {t} \X (DOMAIN terms[t].files)
    OBVIOUS
  <2>2. p[1] = t /\ p[2] \in DOMAIN terms[t].files /\ p = <<p[1], p[2]>>
    BY <2>1
  <2> QED
    BY <1>1, <1>2, <2>2
<1>5. TermHits(terms, source, known) = [i \in DOMAIN order |-> hit(order[i])]
  BY DEF TermHits
<1> HIDE DEF shown
<1>6. Orders(less, shown)
  <2>1. \A p, q : <<p, q>> \in less <=>
           p \in shown /\ q \in shown /\ (p[1] < q[1] \/ (p[1] = q[1] /\ p[2] < q[2]))
    OBVIOUS
  <2> HIDE DEF less
  <2>2. \A p \in shown : <<p, p>> \notin less
    BY <1>4, <2>1
  <2>3. \A p, q, r \in shown : <<p, q>> \in less /\ <<q, r>> \in less => <<p, r>> \in less
    BY <1>4, <2>1
  <2>4. ASSUME NEW p \in shown, NEW q \in shown PROVE p = q \/ <<p, q>> \in less \/ <<q, p>> \in less
    <3>1. /\ p[1] \in Nat /\ p[2] \in Nat /\ q[1] \in Nat /\ q[2] \in Nat
          /\ p[1] = q[1] /\ p[2] = q[2] => p = q
      BY <1>4
    <3> QED
      BY <2>1, <3>1
  <2> QED
    BY <2>2, <2>3, <2>4 DEF Orders
<1>7. PICK n \in Nat : order \in [1..n -> shown]
  BY <1>3, <1>6, Arranged
<1> HIDE DEF order, less
<1>8. PICK hits : hits = TermHits(terms, source, known)
  OBVIOUS
<1>9. /\ hits = [i \in 1..n |-> hits[i]] /\ DOMAIN hits = 1..n
      /\ \A i \in 1..n : hits[i] = hit(order[i])
  BY <1>5, <1>7, <1>8
<1>10. \A i \in 1..n : Hit(hits[i]) /\ DOMAIN hits[i].evidence = {source}
  <2> TAKE i \in 1..n
  <2>1. PICK place : place = Place(File(order[i]), terms[order[i][1]].symbol)
    OBVIOUS
  <2>2. order[i] \in shown
    BY <1>7
  <2>3. place.path \in AllFiles /\ terms[order[i][1]].score \in 0..100
    BY <1>4, <2>1, <2>2 DEF Place
  <2>4. hits[i] = Candidate(place, "", source, terms[order[i][1]].score, FALSE)
    BY <1>9, <2>1
  <2>5. PICK c : c = hits[i]
    OBVIOUS
  <2>6. PICK score : score = terms[order[i][1]].score
    OBVIOUS
  <2>7. c = Candidate(place, "", source, score, FALSE) /\ score \in 0..100
    BY <2>3, <2>4, <2>5, <2>6
  <2> HIDE DEF File, hit
  <2>9. Hit(c) /\ DOMAIN c.evidence = {source}
    BY <2>3, <2>7, LiveHit
  <2> QED
    BY <2>5, <2>9
<1>11. Found(hits)
  BY <1>9, <1>10, FoundFrom
<1>12. \A c \in ToSet(hits) : DOMAIN c.evidence = {source}
  BY <1>9, <1>10, Zenon DEF ToSet
<1> QED
  BY <1>8, <1>11, <1>12 DEF FoundBy

\* The mappings are of places in the code.
RowsTyped ==
    /\ IsFiniteSet(DOMAIN rows)
    /\ \A p \in DOMAIN rows : /\ p = [path |-> p.path, symbol |-> p.symbol]
                              /\ p.path \in AllFiles

\* The verified mappings are hits, and each has a decision.
LEMMA VerifiedFound ==
    ASSUME RowsTyped, NEW valid
    PROVE  /\ FoundBy("verified_mapping", VerifiedHits(valid))
           /\ \A c \in ToSet(VerifiedHits(valid)) : DedupKey(c) \in DOMAIN ContextsFor
<1> DEFINE S == {p \in DOMAIN rows : rows[p].history # <<>> /\ Last(rows[p].history).state = "verified"}
           places == SetToSeq(S)
           score(p) == IF p \in valid THEN 100 ELSE 0
<1>1. IsFiniteSet(S) /\ S \subseteq DOMAIN rows
  BY FS_Subset DEF RowsTyped
<1>2. VerifiedHits(valid) = [i \in DOMAIN places |->
         Candidate(places[i], "", "verified_mapping", score(places[i]), places[i] \notin valid)]
  BY DEF VerifiedHits
<1>3. S \subseteq DOMAIN ContextsFor
  BY DEF ContextsFor
<1> HIDE DEF S
<1>4. PICK n \in Nat : places \in [1..n -> S]
  BY <1>1, InASequence
<1> HIDE DEF places
<1>5. PICK hits : hits = VerifiedHits(valid)
  OBVIOUS
<1>6. /\ hits = [i \in 1..n |-> hits[i]] /\ DOMAIN hits = 1..n
      /\ \A i \in 1..n : hits[i] =
            Candidate(places[i], "", "verified_mapping", score(places[i]), places[i] \notin valid)
  BY <1>2, <1>4, <1>5
<1>7. \A i \in 1..n : /\ Hit(hits[i]) /\ DOMAIN hits[i].evidence = {"verified_mapping"}
                      /\ DedupKey(hits[i]) \in DOMAIN ContextsFor
  <2> TAKE i \in 1..n
  <2>1. PICK place \in S : place = places[i]
    BY <1>4
  <2>2. place.path \in AllFiles /\ place = [path |-> place.path, symbol |-> place.symbol]
    BY <1>1, <2>1 DEF RowsTyped
  <2>3. PICK c : c = hits[i]
    OBVIOUS
  <2>4. PICK full : full = score(place)
    OBVIOUS
  <2>5. full \in 0..100 /\ (place \notin valid => full = 0)
    BY <2>4
  <2>6. c = Candidate(place, "", "verified_mapping", full, place \notin valid)
    BY <1>6, <2>1, <2>3, <2>4, Zenon
  <2>7. /\ DOMAIN c = Fields /\ c.path = place.path /\ c.symbol = place.symbol
        /\ c.hash = "" /\ c.score = 100 * full
    BY <2>6 DEF Candidate, Fields
  <2>8. DOMAIN c.evidence = {"verified_mapping"} /\ c.evidence["verified_mapping"] = full
    BY <2>6 DEF Candidate
  <2>9. c.stale = (place \notin valid)
    BY <2>6, Zenon DEF Candidate
  <2>10. c.stale \in BOOLEAN /\ (c.stale => full = 0)
    BY <2>5, <2>9
  <2>11. c.path \in AllFiles /\ "verified_mapping" \in Sources
    BY <2>2, <2>7 DEF Sources
  <2>12. Hit(c)
    BY <2>5, <2>7, <2>8, <2>10, <2>11, HitGiven
  <2>13. DedupKey(c) = place
    BY <2>2, <2>7 DEF DedupKey
  <2> QED
    BY <1>3, <2>1, <2>3, <2>8, <2>12, <2>13
<1>8. Found(hits)
  BY <1>6, <1>7, FoundFrom
<1>9. \A c \in ToSet(hits) : DOMAIN c.evidence = {"verified_mapping"} /\ DedupKey(c) \in DOMAIN ContextsFor
  BY <1>6, <1>7, Zenon DEF ToSet
<1> QED
  BY <1>5, <1>8, <1>9 DEF FoundBy

\* The decisions are known of every place that a verified mapping speaks of.
VerifiedKnown(found, contexts) ==
    \A c \in ToSet(found) :
        "verified_mapping" \in DOMAIN c.evidence => DedupKey(c) \in DOMAIN contexts

\* All providers that answered, one after the other.
LEMMA SearchFound ==
    ASSUME stored \subseteq ChunkIds, RowsTyped, NEW k \in Nat, NEW valid,
           NEW h1, h1 = <<>> \/ h1 = VerifiedHits(valid),
           NEW h2, h2 = <<>> \/ h2 = RagHits(k),
           NEW h3, h3 = <<>> \/ h3 = TermHits(Codes, "term_dictionary", Known("term_dictionary")),
           NEW h4, h4 = <<>> \/ h4 = TermHits(Values, "constant_match", Known("constant_match"))
    PROVE  /\ Found(h1 \o h2 \o h3 \o h4)
           /\ VerifiedKnown(h1 \o h2 \o h3 \o h4, ContextsFor)
<1> DEFINE Known4(h) == Found(h) /\ VerifiedKnown(h, ContextsFor)
<1>1. Known4(<<>>)
  BY NothingFound DEF VerifiedKnown
<1>2. ASSUME NEW h, NEW source, source # "verified_mapping", FoundBy(source, h) PROVE Known4(h)
  BY <1>2 DEF FoundBy, VerifiedKnown
<1>3. Known4(h1)
  <2>1. Known4(VerifiedHits(valid))
    BY VerifiedFound DEF FoundBy, VerifiedKnown
  <2> HIDE DEF Known4
  <2> QED
    BY <1>1, <2>1
<1>4. Known4(h2)
  <2>1. FoundBy("rag", RagHits(k))
    BY RagFound
  <2> HIDE DEF Known4
  <2>2. Known4(RagHits(k))
    BY <1>2, <2>1
  <2> QED
    BY <1>1, <2>2
<1>5. Codes \in Seq(Terms) /\ Values \in Seq(Terms)
      /\ "term_dictionary" \in Sources /\ "constant_match" \in Sources
  BY SearchAssumption DEF Sources
<1>6. Known4(h3)
  <2>1. FoundBy("term_dictionary", TermHits(Codes, "term_dictionary", Known("term_dictionary")))
    BY <1>5, TermsFound
  <2> HIDE DEF Known4
  <2>2. Known4(TermHits(Codes, "term_dictionary", Known("term_dictionary")))
    BY <1>2, <2>1
  <2> QED
    BY <1>1, <2>2
<1>7. Known4(h4)
  <2>1. FoundBy("constant_match", TermHits(Values, "constant_match", Known("constant_match")))
    BY <1>5, TermsFound
  <2> HIDE DEF Known4
  <2>2. Known4(TermHits(Values, "constant_match", Known("constant_match")))
    BY <1>2, <2>1
  <2> QED
    BY <1>1, <2>2
<1>8. ASSUME NEW a, NEW b, Known4(a), Known4(b) PROVE Known4(a \o b)
  <2>1. Found(a \o b) /\ ToSet(a \o b) = ToSet(a) \union ToSet(b)
    BY <1>8, FoundJoined
  <2> QED
    BY <1>8, <2>1 DEF VerifiedKnown
<1> HIDE DEF Known4
<1>9. Known4(h1 \o h2)
  BY <1>3, <1>4, <1>8
<1>10. Known4((h1 \o h2) \o h3)
  BY <1>6, <1>8, <1>9
<1>11. Known4(((h1 \o h2) \o h3) \o h4)
  BY <1>7, <1>8, <1>10
<1> QED
  BY <1>11 DEF Known4

-----------------------------------------------------------------------------
(* The request *)

RequestFields ==
    {"phase", "kind", "type", "found", "contexts", "answer", "existing", "decision"}

\* An answer is the ranking of what was found, with what was decided when it was.
AnswerKept ==
    request.phase # "none" =>
        /\ Found(request.found)
        /\ \A p \in DOMAIN request.contexts :
              request.contexts[p] = <<request.contexts[p][1]>>
        /\ \E reranks \in BOOLEAN, k \in Nat :
              /\ request.answer = Ranked(request.found, request.contexts,
                                         [article |-> Article, type |-> request.type],
                                         reranks, k)
              /\ reranks => VerifiedKnown(request.found, request.contexts)
              /\ ~reranks => DOMAIN request.contexts = {}

\* What the policy has seen where it allowed a draft.
DraftKept ==
    request.phase = "gated" /\ request.decision = "draft_allowed" =>
        /\ request.answer # <<>>
        /\ \E s \in DOMAIN request.answer[1].evidence :
              request.answer[1].evidence[s] >= MinRetrievalScore
        /\ {c.path : c \in ToSet(request.answer)} \subseteq request.existing

\* What a request is in any state.
RequestKept ==
    /\ DOMAIN request = RequestFields
    /\ request.phase \in {"none", "answered", "gated"}
    /\ request.phase = "none" => request.answer = <<>>
    /\ AnswerKept
    /\ DraftKept

LEMMA NoRequestKept == request' = NoRequest => RequestKept'
<1> SUFFICES ASSUME request' = NoRequest PROVE RequestKept'
  OBVIOUS
<1>1. /\ DOMAIN request' = RequestFields /\ request'.phase = "none"
      /\ request'.answer = <<>>
  BY DEF NoRequest, RequestFields
<1> QED
  BY <1>1 DEF RequestKept, AnswerKept, DraftKept

LEMMA RequestInit == Init => RequestKept
<1> SUFFICES ASSUME Init PROVE RequestKept
  OBVIOUS
<1>1. /\ DOMAIN request = RequestFields /\ request.phase = "none"
      /\ request.answer = <<>>
  BY DEF Init, NoRequest, RequestFields
<1> QED
  BY <1>1 DEF RequestKept, AnswerKept, DraftKept

\* A search keeps what was found, and ranks that: without the decisions when they
\* could not be looked up.
LEMMA Retrieved ==
    ASSUME stored \subseteq ChunkIds, RowsTyped, NEW kind, NEW type, NEW how,
           how.reranked \in BOOLEAN, Retrieve(kind, type, how)
    PROVE  RequestKept'
<1> DEFINE k == IF kind = "map" THEN TopK ELSE 5
           valid == {p \in DOMAIN rows : repo[p.path] > 0 /\ p.path \notin how.unreadable}
           Hits(s) == CASE s \in how.failed -> <<>>
                        [] s = "verified_mapping" -> VerifiedHits(valid)
                        [] s = "rag" -> RagHits(k)
                        [] s = "term_dictionary" -> TermHits(Codes, s, Known(s))
                        [] OTHER -> TermHits(Values, s, Known(s))
           order == <<"verified_mapping", "rag", "term_dictionary", "constant_match">>
           found == Hits(order[1]) \o Hits(order[2]) \o Hits(order[3]) \o Hits(order[4])
           query == [article |-> Article, type |-> type]
           contexts == IF how.reranked THEN ContextsFor ELSE <<>>
<1>1. request' = [NoRequest EXCEPT
              !.phase = "answered", !.kind = kind, !.type = type, !.found = found,
              !.contexts = contexts,
              !.answer = Ranked(found, ContextsFor, query, how.reranked, k)]
  BY Zenon DEF Retrieve
<1>2. k \in Nat
  BY SearchAssumption
<1>3. Found(found) /\ VerifiedKnown(found, ContextsFor)
  <2>1. order[1] = "verified_mapping" /\ order[2] = "rag"
        /\ order[3] = "term_dictionary" /\ order[4] = "constant_match"
    OBVIOUS
  <2>2. PICK h1, h2, h3, h4 : /\ h1 = Hits(order[1]) /\ h2 = Hits(order[2])
                              /\ h3 = Hits(order[3]) /\ h4 = Hits(order[4])
    OBVIOUS
  <2>3. h1 = <<>> \/ h1 = VerifiedHits(valid)
    BY <2>1, <2>2
  <2>4. h2 = <<>> \/ h2 = RagHits(k)
    BY <2>1, <2>2
  <2>5. h3 = <<>> \/ h3 = TermHits(Codes, "term_dictionary", Known("term_dictionary"))
    BY <2>1, <2>2
  <2>6. h4 = <<>> \/ h4 = TermHits(Values, "constant_match", Known("constant_match"))
    BY <2>1, <2>2
  <2> HIDE DEF k, valid, Hits, order
  <2>7. Found(h1 \o h2 \o h3 \o h4) /\ VerifiedKnown(h1 \o h2 \o h3 \o h4, ContextsFor)
    BY <1>2, <2>3, <2>4, <2>5, <2>6, SearchFound
  <2> QED
    BY <2>2, <2>7
<1> HIDE DEF found, k, query
<1>4. PICK answer : answer = Ranked(found, ContextsFor, query, how.reranked, k)
  OBVIOUS
<1>5. answer = Ranked(found, contexts, query, how.reranked, k)
  <2>1. CASE how.reranked
    BY <1>4, <2>1
  <2>2. CASE ~how.reranked
    <3>1. contexts = <<>>
      BY <2>2
    <3>2. Ranked(found, ContextsFor, query, FALSE, k) = Ranked(found, <<>>, query, FALSE, k)
      BY NotReranked
    <3>3. how.reranked = FALSE
      BY <2>2
    <3> QED
      BY <3>1, <3>2, <3>3, <1>4
  <2> QED
    BY <2>1, <2>2
<1>6. /\ \A p \in DOMAIN contexts : contexts[p] = <<contexts[p][1]>>
      /\ how.reranked => VerifiedKnown(found, contexts)
      /\ ~how.reranked => DOMAIN contexts = {}
  <2>1. \A p \in DOMAIN ContextsFor : ContextsFor[p] = <<ContextsFor[p][1]>>
    BY DEF ContextsFor
  <2>2. DOMAIN <<>> = {}
    OBVIOUS
  <2> QED
    BY <1>3, <2>1, <2>2
<1> HIDE DEF contexts
<1>7. /\ DOMAIN request' = RequestFields /\ request'.phase = "answered"
      /\ request'.type = type /\ request'.found = found
      /\ request'.contexts = contexts /\ request'.answer = answer
  BY <1>1, <1>4 DEF NoRequest, RequestFields
<1>8. AnswerKept'
  <2>1. query = [article |-> Article, type |-> request'.type]
    BY <1>7 DEF query
  <2>2. request'.answer = Ranked(request'.found, request'.contexts,
                                 [article |-> Article, type |-> request'.type],
                                 how.reranked, k)
    BY <1>5, <1>7, <2>1, Zenon
  <2>3. /\ Found(request'.found)
        /\ \A p \in DOMAIN request'.contexts : request'.contexts[p] = <<request'.contexts[p][1]>>
        /\ how.reranked => VerifiedKnown(request'.found, request'.contexts)
        /\ ~how.reranked => DOMAIN request'.contexts = {}
    BY <1>3, <1>6, <1>7
  <2> QED
    BY <1>2, <2>2, <2>3, Zenon DEF AnswerKept, Article
<1> QED
  BY <1>7, <1>8 DEF RequestKept, DraftKept

\* The policy is asked of the answer as it was kept, and of the files as they are.
LEMMA GateKept == RequestKept /\ AskPolicy => RequestKept'
<1> SUFFICES ASSUME RequestKept, AskPolicy PROVE RequestKept'
  OBVIOUS
<1>1. PICK dbMatch, confident, commit \in BOOLEAN, type \in QueryTypes :
         Gate(dbMatch, type, confident, commit)
  BY DEF AskPolicy
<1> DEFINE reasons == BlockReasons(type, confident, request.answer, Present, commit)
<1>2. /\ request.phase = "answered"
      /\ request' = [request EXCEPT !.phase = "gated", !.existing = Present,
                                    !.decision = Propose(dbMatch, type, reasons)]
  BY <1>1 DEF Gate
<1> HIDE DEF reasons
<1>3. /\ DOMAIN request' = RequestFields /\ request'.phase = "gated"
      /\ request'.found = request.found /\ request'.contexts = request.contexts
      /\ request'.answer = request.answer /\ request'.type = request.type
      /\ request'.existing = Present
      /\ request'.decision = Propose(dbMatch, type, reasons)
  BY <1>2 DEF RequestKept, RequestFields
<1>4. AnswerKept'
  <2>1. AnswerKept /\ request.phase # "none"
    BY <1>2 DEF RequestKept
  <2>2. Article' = Article
    BY DEF Article
  <2> QED
    BY <1>3, <2>1, <2>2 DEF AnswerKept
<1>5. DraftKept'
  <2> SUFFICES ASSUME request'.decision = "draft_allowed" PROVE DraftKept'
    BY DEF DraftKept
  <2>1. Propose(dbMatch, type, reasons) = "draft_allowed"
    BY <1>3
  <2>2. PICK answer, existing : answer = request.answer /\ existing = Present
    OBVIOUS
  <2>3. Propose(dbMatch, type, BlockReasons(type, confident, answer, existing, commit)) = "draft_allowed"
    BY <2>1, <2>2 DEF reasons
  <2>4. /\ answer # <<>>
        /\ \E s \in DOMAIN answer[1].evidence : answer[1].evidence[s] >= MinRetrievalScore
        /\ {c.path : c \in ToSet(answer)} \subseteq existing
    BY <2>3, PolicyAllows
  <2> QED
    BY <1>3, <2>2, <2>4 DEF DraftKept
<1> QED
  BY <1>3, <1>4, <1>5 DEF RequestKept

\* A place has one row, so that there are finitely many decisions on it.
LEMMA DecisionsFinite ==
    ASSUME NEW contexts, \A p \in DOMAIN contexts : contexts[p] = <<contexts[p][1]>>
    PROVE  \A p \in DOMAIN contexts : IsFiniteSet(DOMAIN contexts[p])
<1> TAKE p \in DOMAIN contexts
<1>1. DOMAIN contexts[p] = {1}
  OBVIOUS
<1>2. IsFiniteSet({1})
  BY FS_Singleton
<1> QED
  BY <1>1, <1>2

\* The answer of a request is a listing of places.
LEMMA AnswerListed ==
    ASSUME RequestKept
    PROVE  /\ Listing(request.answer)
           /\ \A c \in ToSet(request.answer) :
                 /\ c.path \in AllFiles
                 /\ c.score \in Nat /\ c.score <= 10000
<1>1. CASE request.phase = "none"
  <2>1. request.answer = <<>>
    BY <1>1 DEF RequestKept
  <2>2. DOMAIN <<>> = {} /\ <<>> \in Seq(ToSet(<<>>))
    OBVIOUS
  <2> QED
    BY <2>1, <2>2 DEF Listing, OnceEach, BestFirst, ToSet
<1>2. CASE request.phase # "none"
  <2>1. PICK found, contexts, answer :
           found = request.found /\ contexts = request.contexts /\ answer = request.answer
    OBVIOUS
  <2>2. /\ Found(found) /\ \A p \in DOMAIN contexts : contexts[p] = <<contexts[p][1]>>
        /\ \E reranks \in BOOLEAN, k \in Nat :
              answer = Ranked(found, contexts, [article |-> Article, type |-> request.type], reranks, k)
    BY <1>2, <2>1 DEF RequestKept, AnswerKept
  <2>3. PICK reranks \in BOOLEAN, k \in Nat :
              answer = Ranked(found, contexts, [article |-> Article, type |-> request.type], reranks, k)
    BY <2>2
  <2>4. PICK query : query = [article |-> Article, type |-> request.type]
    OBVIOUS
  <2>5. answer = Ranked(found, contexts, query, reranks, k)
    BY <2>3, <2>4
  <2>6. \A p \in DOMAIN contexts : IsFiniteSet(DOMAIN contexts[p])
    BY <2>2, DecisionsFinite
  <2>7. Listing(answer)
    BY <2>2, <2>5, <2>6, RankedGives
  <2>8. \A c \in ToSet(answer) : c.path \in ToSet(Files) /\ c.score \in Nat /\ c.score <= 10000
    BY <2>2, <2>5, <2>6, AnswerGives
  <2> QED
    BY <2>1, <2>7, <2>8 DEF AllFiles
<1> QED
  BY <1>1, <1>2

\* map stores rows for finitely many places, of listed files.
LEMMA RowsSaved == RowsTyped /\ RequestKept /\ SaveRows => RowsTyped'
<1> SUFFICES ASSUME RowsTyped, RequestKept, SaveRows PROVE RowsTyped'
  OBVIOUS
<1> DEFINE keys == {DedupKey(c) : c \in ToSet(request.answer)}
           new == keys \ DOMAIN rows
<1>1. DOMAIN rows' = DOMAIN rows \union new
  BY DEF SaveRows
<1>2. Listing(request.answer) /\ \A c \in ToSet(request.answer) : c.path \in AllFiles
  BY AnswerListed
<1>3. IsFiniteSet(keys)
  <2> DEFINE f == [i \in DOMAIN request.answer |-> DedupKey(request.answer[i])]
  <2>1. DOMAIN request.answer = 1..Len(request.answer) /\ Len(request.answer) \in Nat
    BY <1>2 DEF Listing
  <2>2. IsFiniteSet(DOMAIN request.answer)
    BY <2>1, FS_Interval
  <2>3. DOMAIN f = DOMAIN request.answer /\ keys = {f[i] : i \in DOMAIN f}
    BY DEF ToSet
  <2> HIDE DEF f, keys
  <2> QED
    BY <2>2, <2>3, FiniteValues
<1>4. \A p \in keys : p = [path |-> p.path, symbol |-> p.symbol] /\ p.path \in AllFiles
  BY <1>2 DEF DedupKey
<1> HIDE DEF keys
<1>5. new \subseteq keys /\ IsFiniteSet(new)
  BY <1>3, FS_Subset
<1> HIDE DEF new
<1>6. IsFiniteSet(DOMAIN rows \union new)
  BY <1>5, FS_Union DEF RowsTyped
<1>7. \A p \in DOMAIN rows \union new : p = [path |-> p.path, symbol |-> p.symbol] /\ p.path \in AllFiles
  BY <1>4, <1>5 DEF RowsTyped
<1> QED
  BY <1>1, <1>6, <1>7 DEF RowsTyped

LEMMA RowsDecided == ASSUME RowsTyped, NEW p \in DOMAIN rows, NEW d, Decide(p, d) PROVE RowsTyped'
<1>1. DOMAIN rows' = DOMAIN rows
  BY DEF Decide
<1> QED
  BY <1>1 DEF RowsTyped

LEMMA SearchInit == Init => RowsTyped /\ RequestKept
<1>1. DOMAIN <<>> = {} /\ IsFiniteSet({})
  BY FS_EmptySet
<1> QED
  BY <1>1, RequestInit DEF Init, RowsTyped

\* A request that is served, with or without troubles.
LEMMA Asked ==
    ASSUME stored \subseteq ChunkIds, RowsTyped, NEW kind, NEW type, Ask(kind, type)
    PROVE  RequestKept' /\ UNCHANGED rows
<1>1. PICK how : Retrieve(kind, type, how) /\ how \in Troubles \union {Smooth}
  BY DEF Ask
<1>2. Smooth.reranked \in BOOLEAN
  BY SearchAssumption DEF Smooth
<1>3. \A h \in Troubles : h.reranked \in BOOLEAN
  BY <1>2 DEF Troubles, Smooth
<1>4. how.reranked \in BOOLEAN
  BY <1>1, <1>2, <1>3
<1>5. RequestKept'
  BY <1>1, <1>4, Retrieved
<1>6. UNCHANGED rows
  BY <1>1 DEF Retrieve
<1> QED
  BY <1>5, <1>6

\* A search and what follows it.
LEMMA SearchStep ==
    ASSUME stored \subseteq ChunkIds, RowsTyped, RequestKept, [Next]_vars
    PROVE  RowsTyped' /\ RequestKept'
<1>1. ASSUME UNCHANGED request PROVE RequestKept'
  BY <1>1 DEF RequestKept, AnswerKept, DraftKept, Article
<1>2. ASSUME UNCHANGED rows PROVE RowsTyped'
  BY <1>2 DEF RowsTyped
<1>3. CASE UNCHANGED searchVars
  BY <1>1, <1>2, <1>3 DEF searchVars
<1>4. ASSUME NEW kind, NEW type, Ask(kind, type) PROVE RowsTyped' /\ RequestKept'
  BY <1>2, <1>4, Asked
<1>5. CASE SaveRows
  BY <1>5, RowsSaved, NoRequestKept DEF SaveRows
<1>6. CASE AskPolicy
  <2>1. UNCHANGED rows
    BY <1>6 DEF AskPolicy, Gate
  <2> QED
    BY <2>1, <1>2, <1>6, GateKept
<1>7. CASE Answer
  BY <1>2, <1>7, NoRequestKept DEF Answer
<1>8. ASSUME NEW p \in DOMAIN rows, NEW d, Decide(p, d) PROVE RowsTyped' /\ RequestKept'
  BY <1>1, <1>8, RowsDecided DEF Decide
<1> QED
  BY <1>3, <1>4, <1>5, <1>6, <1>7, <1>8 DEF Next, vars, searchVars

-----------------------------------------------------------------------------
(* What the answers rest on *)

\* An allowed draft rests on a hit that speaks of live code.
LEMMA DraftHolds == RequestKept => DraftRestsOnLiveCode
<1> SUFFICES ASSUME RequestKept, request.phase = "gated", request.decision = "draft_allowed"
             PROVE  /\ \E c \in ToSet(request.found) :
                          /\ DedupKey(c) = DedupKey(request.answer[1])
                          /\ ~c.stale
                          /\ c.score >= 100 * MinRetrievalScore
                    /\ {c.path : c \in ToSet(request.answer)} \subseteq request.existing
  BY DEF DraftRestsOnLiveCode
<1>1. /\ request.answer # <<>>
      /\ {c.path : c \in ToSet(request.answer)} \subseteq request.existing
  BY DEF RequestKept, DraftKept
<1>2. PICK found, contexts, answer :
         found = request.found /\ contexts = request.contexts /\ answer = request.answer
  OBVIOUS
<1>3. PICK s \in DOMAIN answer[1].evidence : answer[1].evidence[s] >= MinRetrievalScore
  BY <1>2 DEF RequestKept, DraftKept
<1>4. /\ Found(found) /\ \A p \in DOMAIN contexts : contexts[p] = <<contexts[p][1]>>
      /\ \E reranks \in BOOLEAN, k \in Nat :
            answer = Ranked(found, contexts, [article |-> Article, type |-> request.type], reranks, k)
  BY <1>2 DEF RequestKept, AnswerKept
<1>5. PICK query : \E reranks \in BOOLEAN, k \in Nat :
         answer = Ranked(found, contexts, query, reranks, k)
  BY <1>4
<1>6. PICK reranks \in BOOLEAN, k \in Nat : answer = Ranked(found, contexts, query, reranks, k)
  BY <1>5
<1>7. \A p \in DOMAIN contexts : IsFiniteSet(DOMAIN contexts[p])
  BY <1>4, DecisionsFinite
<1>8. answer[1] \in ToSet(answer)
  <2>1. answer \in Seq(ToSet(answer)) /\ answer # <<>>
    BY <1>1, <1>2, AnswerListed DEF Listing
  <2>2. 1 \in DOMAIN answer
    BY <2>1
  <2> QED
    BY <2>2 DEF ToSet
<1>9. PICK c : c = answer[1]
  OBVIOUS
<1>10. PICK d : MergedFrom(found, d) /\ DedupKey(c) = DedupKey(d) /\ c.evidence = d.evidence
  BY <1>4, <1>6, <1>7, <1>8, <1>9, AnswerGives
<1>11. s \in DOMAIN d.evidence /\ d.evidence[s] >= MinRetrievalScore
  BY <1>3, <1>9, <1>10
<1>12. \E h \in ToSet(found) : /\ DedupKey(h) = DedupKey(d) /\ ~h.stale
                              /\ h.score >= 100 * MinRetrievalScore
  BY <1>4, <1>10, <1>11, EvidenceHeld
<1> QED
  BY <1>1, <1>2, <1>9, <1>10, <1>12

\* A live place that is verified stands above one that nobody has decided on.
LEMMA StandsAbove ==
    ASSUME RequestKept, request.phase = "answered",
           NEW p \in DOMAIN request.contexts, NEW j \in DOMAIN request.answer,
           NEW query, query = [article |-> Article, type |-> request.type],
           NEW boost, 100 * boost > 0,
           \A stale : ~stale => RerankDelta(request.contexts[p], query, stale) = boost,
           \E d \in ToSet(request.found) : DedupKey(d) = p /\ ~d.stale,
           DedupKey(request.answer[j]) \notin DOMAIN request.contexts,
           Worth(request.answer[j].evidence) < Worth(EvidenceFor(p)) + 100 * boost
    PROVE  \E i \in 1..(j - 1) : DedupKey(request.answer[i]) = p
<1>1. PICK found, contexts, answer :
         found = request.found /\ contexts = request.contexts /\ answer = request.answer
  OBVIOUS
<1>2. /\ Found(found) /\ \A q \in DOMAIN contexts : contexts[q] = <<contexts[q][1]>>
      /\ \E reranks \in BOOLEAN, k \in Nat :
            /\ answer = Ranked(found, contexts, query, reranks, k)
            /\ reranks => VerifiedKnown(found, contexts)
            /\ ~reranks => DOMAIN contexts = {}
  BY <1>1 DEF RequestKept, AnswerKept
<1>3. PICK reranks \in BOOLEAN, k \in Nat :
         /\ answer = Ranked(found, contexts, query, reranks, k)
         /\ reranks /\ VerifiedKnown(found, contexts)
  BY <1>1, <1>2
<1>4. \A q \in DOMAIN contexts : IsFiniteSet(DOMAIN contexts[q])
  BY <1>2, DecisionsFinite
<1>5. p \in DOMAIN contexts /\ j \in DOMAIN answer
  BY <1>1
<1>7. PICK h \in ToSet(found) : DedupKey(h) = p /\ ~h.stale
  BY <1>1
<1>8. PICK m \in ToSet(Merge(found)) : DedupKey(m) = p /\ MergedFrom(found, m)
  BY <1>2, <1>7, MergeGives
<1>9. m.evidence = EvidenceFor(p) /\ ~m.stale
  <2>1. m.evidence = Evidence(Members(found, p)) /\ (m.stale = \A d \in Members(found, p) : d.stale)
    BY <1>8 DEF MergedFrom
  <2>2. h \in Members(found, p)
    BY <1>7 DEF Members
  <2> QED
    BY <1>1, <2>1, <2>2 DEF EvidenceFor, Members
<1>6. boost = RerankDelta(contexts[p], query, m.stale) /\ boost \in Int
  <2>1. boost = RerankDelta(contexts[p], query, m.stale)
    BY <1>1, <1>9
  <2> QED
    BY <2>1, <1>4, <1>5, DeltaGives
<1>10. PICK v : v = Weighed(m, contexts, query, reranks)
  OBVIOUS
<1>11. PICK c : c = answer[j]
  OBVIOUS
<1>12. DedupKey(c) \notin DOMAIN contexts /\ c \in ToSet(answer)
  BY <1>1, <1>5, <1>11 DEF ToSet
<1>13. PICK d : /\ MergedFrom(found, d) /\ DedupKey(c) = DedupKey(d)
                /\ c.evidence = d.evidence /\ c.score = d.score
  <2>1. c \in ToSet(Ranked(found, contexts, query, reranks, k))
    BY <1>3, <1>12
  <2> QED
    BY <1>2, <1>4, <1>12, <2>1, AnswerGives
<1>14. "verified_mapping" \notin DOMAIN c.evidence
  <2>1. ASSUME "verified_mapping" \in DOMAIN d.evidence PROVE FALSE
    <3>1. Members(found, DedupKey(d)) # {} /\ \A e \in Members(found, DedupKey(d)) : Hit(e)
      BY <1>2, <1>13 DEF MergedFrom, Members, Found
    <3>2. d.evidence = Evidence(Members(found, DedupKey(d)))
      BY <1>13 DEF MergedFrom
    <3>3. PICK e \in Members(found, DedupKey(d)) : "verified_mapping" \in DOMAIN e.evidence
      BY <2>1, <3>1, <3>2, EvidenceGives
    <3>4. DedupKey(e) \in DOMAIN contexts /\ DedupKey(e) = DedupKey(d)
      BY <1>3, <3>3 DEF VerifiedKnown, Members
    <3> QED
      BY <1>12, <1>13, <3>4
  <2> QED
    BY <1>13, <2>1
<1>15. /\ Worth(c.evidence) \in Nat /\ Worth(c.evidence) <= 7000
       /\ c.score \in Nat /\ c.score <= Worth(c.evidence)
  <2>1. /\ Worth(d.evidence) \in Nat /\ ("verified_mapping" \notin DOMAIN d.evidence => Worth(d.evidence) <= 7000)
        /\ d.score \in Nat /\ d.score <= Worth(d.evidence)
    BY <1>2, <1>13, MergedGives
  <2> QED
    BY <1>13, <1>14, <2>1
<1>16. /\ DOMAIN m = Fields /\ m.score \in Nat
       /\ Worth(m.evidence) \in Nat
       /\ m.score = IF Worth(m.evidence) > 10000 THEN 10000 ELSE Worth(m.evidence)
  BY <1>2, <1>8, <1>9, MergedGives
<1>17. DedupKey(v) = p /\ v.score = Clamp(0, 10000, m.score + 100 * boost)
  <2>1. v = Reranked(m, contexts, query)
    BY <1>3, <1>10 DEF Weighed
  <2>2. /\ DedupKey(v) = DedupKey(m)
        /\ v.score = Clamp(0, 10000, m.score + 100 * RerankDelta(contexts[DedupKey(m)], query, m.stale))
    BY <1>4, <1>5, <1>8, <1>16, <2>1, RerankedGives
  <2> QED
    BY <1>6, <1>8, <2>2
<1>18. /\ 100 * boost > 0
       /\ Worth(c.evidence) < Worth(m.evidence) + 100 * boost
  BY <1>1, <1>9, <1>11
<1>19. v.score > c.score
  <2>1. boost > 0
    BY <1>6, <1>18
  <2>2. PICK w, other, score, least : /\ w = Worth(m.evidence) /\ other = Worth(c.evidence)
                                      /\ score = v.score /\ least = c.score
    OBVIOUS
  <2>3. /\ w \in Nat /\ other \in Nat /\ other <= 7000 /\ other < w + 100 * boost
        /\ least \in Nat /\ least <= other
        /\ score = Clamp(0, 10000, (IF w > 10000 THEN 10000 ELSE w) + 100 * boost)
    BY <2>2, <1>15, <1>16, <1>17, <1>18
  <2>4. score > least
    BY <2>1, <2>3, <1>6 DEF Clamp
  <2> QED
    BY <2>2, <2>4
<1>20. PICK i \in DOMAIN answer : i < j /\ answer[i] = v
  <2>1. /\ Found(found)
        /\ answer = Ranked(found, contexts, query, reranks, k)
        /\ \A q \in DOMAIN contexts : IsFiniteSet(DOMAIN contexts[q])
    BY <1>2, <1>3, <1>4
  <2>2. /\ m \in ToSet(Merge(found))
        /\ v = Weighed(m, contexts, query, reranks)
        /\ j \in DOMAIN answer
        /\ v.score > answer[j].score
    BY <1>5, <1>8, <1>10, <1>11, <1>19
  <2> QED
    BY <2>1, <2>2, RankedAbove
<1>21. DOMAIN answer \subseteq Nat \ {0}
  BY <1>1, AnswerListed DEF Listing
<1>22. i \in 1..(j - 1)
  BY <1>5, <1>20, <1>21
<1> QED
  BY <1>1, <1>17, <1>20, <1>22

\* What is verified ranks first, in every answer that is kept.
LEMMA VerifiedHolds == RequestKept => VerifiedRanksFirst
<1>1. ASSUME RequestKept, request.phase = "answered",
             NEW p \in DOMAIN request.contexts, NEW j \in DOMAIN request.answer,
             NEW context, context = request.contexts[p][1],
             NEW query, query = [article |-> Article, type |-> request.type],
             100 * RerankDelta(<<context>>, query, FALSE) > 0,
             \E d \in ToSet(request.found) : DedupKey(d) = p /\ ~d.stale,
             DedupKey(request.answer[j]) \notin DOMAIN request.contexts,
             Worth(request.answer[j].evidence)
               < Worth(EvidenceFor(p)) + 100 * RerankDelta(<<context>>, query, FALSE)
      PROVE  \E i \in 1..(j - 1) : DedupKey(request.answer[i]) = p
  <2>1. PICK boost : boost = RerankDelta(<<context>>, query, FALSE)
    OBVIOUS
  <2>2. request.contexts[p] = <<context>>
    BY <1>1 DEF RequestKept, AnswerKept
  <2>3. \A stale : ~stale => RerankDelta(<<context>>, query, stale) = boost
    BY <2>1 DEF RerankDelta
  <2>4. \A stale : ~stale => RerankDelta(request.contexts[p], query, stale) = boost
    BY <2>2, <2>3
  <2>5. 100 * boost > 0 /\ Worth(request.answer[j].evidence) < Worth(EvidenceFor(p)) + 100 * boost
    BY <1>1, <2>1, Zenon
  <2>6. /\ \E d \in ToSet(request.found) : DedupKey(d) = p /\ ~d.stale
        /\ DedupKey(request.answer[j]) \notin DOMAIN request.contexts
        /\ RequestKept /\ request.phase = "answered"
        /\ query = [article |-> Article, type |-> request.type]
    BY <1>1
  <2> QED
    BY <2>4, <2>5, <2>6, StandsAbove
<1> QED
  BY <1>1, Zenon DEF VerifiedRanksFirst

-----------------------------------------------------------------------------
(* What the indexes hold *)

\* The indexes and the buffer hold chunks that a file can have.
ChunksHeld ==
    /\ repo \in [AllFiles -> 0..MaxChunks]
    /\ tool.size <= MaxChunks
    /\ stored \subseteq ChunkIds /\ cached \subseteq ChunkIds
    /\ ToSet(tool.buffer) \subseteq ChunkIds

\* The builder has listed files, and so have those who spoil them.
BuilderListed ==
    /\ raised \subseteq AllFiles /\ edited \subseteq AllFiles
    /\ tool.kind \in Builders \union {"idle"}
    /\ tool.todo \subseteq AllFiles
    /\ tool.again \in AllFiles \union {NoFile}

\* What the reference document and its upload can be.
DocListed ==
    /\ doc.disk \in Uploads \union {Absent}
    /\ doc.upload # "none" => doc.size \in Uploads
    /\ doc.upload = "saved" => doc.next = 0
    /\ doc.upload = "chunks" => doc.next < doc.size \/ doc.size = 0
    /\ \A i \in DOMAIN doc.chunks : \E n \in Uploads : i \in 0..(n - 1)

\* The chunk a builder is at is one the file can have.
LEMMA OpenChunk ==
    ASSUME ToolTyped, ChunksHeld, tool.file # NoFile
    PROVE  <<tool.file, tool.next>> \in ChunkIds
<1>1. tool.file \in AllFiles /\ tool.next \in 0..(MaxChunks - 1)
  BY IndexAssumption DEF ToolTyped, ChunksHeld
<1> QED
  BY <1>1 DEF ChunkIds

LEMMA ChunksHeldStep == ToolTyped /\ ChunksHeld /\ [Next]_vars => ChunksHeld'
<1> SUFFICES ASSUME ToolTyped, ChunksHeld, IndexNext \/ UNCHANGED indexVars PROVE ChunksHeld'
  BY OnlyIndexSteps
<1> USE DEF ChunksHeld
<1>0. ToSet(<<>>) = {} /\ 0 <= MaxChunks
  BY IndexAssumption DEF ToSet
<1>1. ASSUME NEW kind, StartTool(kind) PROVE ChunksHeld'
  <2>1. tool'.buffer = <<>> /\ tool'.size = 0
    BY <1>1, ToolEffects
  <2>2. UNCHANGED <<repo, stored, cached>>
    BY <1>1 DEF StartTool
  <2> QED
    BY <2>1, <2>2, <1>0 DEF ChunkIds
<1>2. ASSUME NEW last, tool' = Idle(last), UNCHANGED <<repo, stored, cached>> PROVE ChunksHeld'
  <2>1. tool'.buffer = <<>> /\ tool'.size = 0
    BY <1>2, ToolEffects
  <2> QED
    BY <2>1, <1>2, <1>0
<1>3. CASE OpenFile
  <2>1. UNCHANGED <<repo, stored, cached>>
    BY <1>3 DEF OpenFile
  <2>2. PICK f \in AllFiles : tool'.buffer = tool.buffer /\ tool'.size = repo[f]
    BY <1>3, ToolEffects
  <2>3. repo[f] <= MaxChunks
    BY <2>2
  <2> QED
    BY <2>1, <2>2, <2>3
<1>4. ASSUME NEW f, Skip(f), UNCHANGED <<repo, stored, cached>> PROVE ChunksHeld'
  <2>1. CASE tool' = [tool EXCEPT !.file = NoFile]
    <3>1. tool'.buffer = tool.buffer /\ tool'.size = tool.size
      BY <2>1 DEF ToolTyped, ToolFields
    <3> QED
      BY <3>1, <1>4
  <2> QED
    BY <2>1, <1>4, <1>2 DEF Skip
<1>5. CASE ReadFails
  <2>1. PICK f \in AllFiles :
           tool' = IF tool.kind = "index" THEN Idle("none") ELSE Taken(f)
    BY <1>5 DEF ReadFails
  <2>2. UNCHANGED <<repo, stored, cached>>
    BY <1>5 DEF ReadFails
  <2>3. CASE tool' = Taken(f)
    <3>1. tool'.buffer = tool.buffer /\ tool'.size = tool.size
      BY <2>3 DEF Taken, ToolTyped, ToolFields
    <3> QED
      BY <3>1, <2>2
  <2> QED
    BY <2>1, <2>2, <2>3, <1>2
<1>6. CASE Upsert
  <2>1. /\ UNCHANGED <<repo, cached>> /\ tool' = Step(tool) /\ tool.file # NoFile
        /\ stored' = stored \union {<<tool.file, tool.next>>}
    BY <1>6 DEF Upsert
  <2>2. tool'.buffer = tool.buffer /\ tool'.size \in {tool.size, 0}
    BY <2>1 DEF Step, ToolTyped, ToolFields
  <2> QED
    BY <2>1, <2>2, <1>0, OpenChunk
<1>7. CASE Buffer
  <2> DEFINE buffer == Append(tool.buffer, <<tool.file, tool.next>>)
  <2>1. ToSet(buffer) = ToSet(tool.buffer) \union {<<tool.file, tool.next>>}
    BY BufferedChunk DEF ToolTyped
  <2>2. /\ tool' = [Step(tool) EXCEPT
                       !.buffer = buffer,
                       !.full = tool.next + 1 = tool.size /\ Len(buffer) >= Batch]
        /\ UNCHANGED <<repo, stored, cached>> /\ tool.file # NoFile
    BY <1>7 DEF Buffer
  <2> HIDE DEF buffer
  <2>3. tool'.buffer = buffer /\ tool'.size \in {tool.size, 0}
    BY <2>2 DEF Step, ToolTyped, ToolFields
  <2> QED
    BY <2>1, <2>2, <2>3, <1>0, OpenChunk
<1>8. CASE ChunkFails
  BY <1>8, <1>4 DEF ChunkFails
<1>9. CASE Flush
  <2>1. /\ tool' = [tool EXCEPT !.buffer = <<>>, !.full = FALSE] /\ UNCHANGED <<repo, stored>>
        /\ cached' = cached \union ToSet(tool.buffer)
    BY <1>9 DEF Flush
  <2>2. tool'.buffer = <<>> /\ tool'.size = tool.size
    BY <2>1 DEF ToolTyped, ToolFields
  <2> QED
    BY <2>1, <2>2, <1>0
<1>10. CASE FlushFails
  <2>1. /\ UNCHANGED <<repo, stored, cached>>
        /\ tool' = IF tool.full THEN [tool EXCEPT !.full = FALSE] ELSE Idle("none")
    BY <1>10 DEF FlushFails
  <2>2. CASE tool' = [tool EXCEPT !.full = FALSE]
    <3>1. tool'.buffer = tool.buffer /\ tool'.size = tool.size
      BY <2>2 DEF ToolTyped, ToolFields
    <3> QED
      BY <3>1, <2>1
  <2> QED
    BY <2>1, <2>2, <1>2
<1>11. CASE ToolEnds
  BY <1>11, <1>2 DEF ToolEnds
<1>12. CASE KillTool
  BY <1>12, <1>2 DEF KillTool
<1>13. ASSUME NEW f \in AllFiles, EditFile(f) PROVE ChunksHeld'
  BY <1>13 DEF EditFile
<1>14. CASE UNCHANGED <<repo, tool, stored, cached>>
  BY <1>14
<1> QED
  BY <1>1, <1>3, <1>5, <1>6, <1>7, <1>8, <1>9, <1>10, <1>11, <1>12, <1>13, <1>14
     DEF IndexNext, indexVars, AutoIndex, PostIndex, RunResumable, RunEmbedCache,
         UploadRefdoc, DropOldChunks, AddChunk, UploadFails, DeleteRefdoc,
         DeleteChunks, DeleteFile, KillServer

LEMMA BuilderListedStep == ToolTyped /\ BuilderListed /\ [Next]_vars => BuilderListed'
<1> SUFFICES ASSUME ToolTyped, BuilderListed, IndexNext \/ UNCHANGED indexVars
             PROVE  BuilderListed'
  BY OnlyIndexSteps
<1> USE DEF BuilderListed
<1>1. ASSUME NEW kind \in Builders, StartTool(kind) PROVE BuilderListed'
  <2>1. Redo \subseteq AllFiles \union {NoFile} /\ \A S : NotDone(S) \subseteq AllFiles
    BY DEF Redo, Present, NotDone
  <2>2. Present \subseteq AllFiles
    BY DEF Present
  <2>3. PICK again \in AllFiles \union {NoFile} :
           tool' = [Idle("none") EXCEPT
                    !.kind = kind, !.again = again,
                    !.todo = CASE kind = "index" -> Present
                               [] kind = "resume" -> NotDone(stored)
                               [] kind = "cache" -> NotDone(cached)]
    BY <1>1, <2>1 DEF StartTool
  <2>4. /\ tool'.kind = kind /\ tool'.again = again
        /\ tool'.todo = CASE kind = "index" -> Present
                          [] kind = "resume" -> NotDone(stored)
                          [] kind = "cache" -> NotDone(cached)
    BY <2>3 DEF Idle
  <2>5. tool'.todo \subseteq AllFiles
    BY <2>1, <2>2, <2>4 DEF Builders
  <2> QED
    BY <2>4, <2>5, <1>1 DEF StartTool
<1>2. ASSUME NEW last, tool' = Idle(last), raised' \subseteq AllFiles, UNCHANGED edited
      PROVE  BuilderListed'
  BY <1>2 DEF Idle
<1>3. CASE OpenFile
  <2>1. UNCHANGED <<raised, edited>>
    BY <1>3 DEF OpenFile
  <2> QED
    BY <1>3, <2>1, ToolEffects
<1>4. ASSUME NEW f \in AllFiles, Skip(f), UNCHANGED edited PROVE BuilderListed'
  <2>1. raised' \subseteq AllFiles
    BY <1>4 DEF Skip
  <2>2. CASE tool' = [tool EXCEPT !.file = NoFile]
    BY <2>1, <2>2, <1>4 DEF ToolTyped, ToolFields
  <2> QED
    BY <2>1, <2>2, <1>2, <1>4 DEF Skip
<1>5. CASE ReadFails
  <2>1. PICK f \in AllFiles : /\ tool' = IF tool.kind = "index" THEN Idle("none") ELSE Taken(f)
                              /\ raised' = raised \union {f}
    BY <1>5 DEF ReadFails
  <2>2. UNCHANGED edited /\ raised' \subseteq AllFiles
    BY <2>1, <1>5 DEF ReadFails
  <2>3. CASE tool' = Taken(f)
    BY <2>2, <2>3 DEF Taken, ToolTyped, ToolFields
  <2> QED
    BY <2>1, <2>2, <2>3, <1>2
<1>6. CASE Upsert
  <2>1. UNCHANGED <<raised, edited>> /\ tool' = Step(tool)
    BY <1>6 DEF Upsert
  <2>2. tool'.kind = tool.kind /\ tool'.todo = tool.todo /\ tool'.again = tool.again
    BY <2>1 DEF Step, ToolTyped, ToolFields
  <2> QED
    BY <2>1, <2>2
<1>7. CASE Buffer
  <2> DEFINE buffer == Append(tool.buffer, <<tool.file, tool.next>>)
             full == tool.next + 1 = tool.size /\ Len(buffer) >= Batch
  <2>1. /\ tool' = [Step(tool) EXCEPT !.buffer = buffer, !.full = full]
        /\ UNCHANGED <<raised, edited>>
    BY <1>7 DEF Buffer
  <2> HIDE DEF full, buffer
  <2>2. tool'.kind = tool.kind /\ tool'.todo = tool.todo /\ tool'.again = tool.again
    BY <2>1 DEF Step, ToolTyped, ToolFields
  <2> QED
    BY <2>1, <2>2
<1>8. CASE ChunkFails
  <2>1. tool.file \in AllFiles
    BY <1>8 DEF ChunkFails, ToolTyped
  <2> QED
    BY <2>1, <1>8, <1>4 DEF ChunkFails
<1>9. CASE Flush
  BY <1>9 DEF Flush, ToolTyped, ToolFields
<1>10. CASE FlushFails
  <2>1. /\ UNCHANGED <<raised, edited>>
        /\ tool' = IF tool.full THEN [tool EXCEPT !.full = FALSE] ELSE Idle("none")
    BY <1>10 DEF FlushFails
  <2>2. CASE tool' = [tool EXCEPT !.full = FALSE]
    BY <2>1, <2>2 DEF ToolTyped, ToolFields
  <2> QED
    BY <2>1, <2>2, <1>2
<1>11. CASE ToolEnds
  BY <1>11, <1>2 DEF ToolEnds
<1>12. CASE KillTool
  BY <1>12, <1>2 DEF KillTool
<1>13. ASSUME NEW f \in AllFiles, EditFile(f) PROVE BuilderListed'
  BY <1>13 DEF EditFile
<1>14. CASE UNCHANGED <<tool, raised, edited>>
  BY <1>14
<1>15. "index" \in Builders /\ "resume" \in Builders /\ "cache" \in Builders
  BY DEF Builders
<1>16. \/ \E kind \in Builders : StartTool(kind)
       \/ OpenFile \/ ReadFails \/ Upsert \/ Buffer \/ ChunkFails
       \/ Flush \/ FlushFails \/ ToolEnds \/ KillTool
       \/ \E f \in AllFiles : EditFile(f)
       \/ UNCHANGED <<tool, raised, edited>>
  BY <1>15 DEF IndexNext, indexVars, AutoIndex, PostIndex, RunResumable, RunEmbedCache,
         UploadRefdoc, DropOldChunks, AddChunk, UploadFails, DeleteRefdoc,
         DeleteChunks, DeleteFile, KillServer
<1> QED
  BY <1>16, <1>1, <1>3, <1>5, <1>6, <1>7, <1>8, <1>9, <1>10, <1>11, <1>12, <1>13, <1>14

LEMMA DocListedInit == Init => DocListed
<1>1. DOMAIN <<>> = {}
  OBVIOUS
<1> QED
  BY <1>1 DEF Init, IndexInit, NoDoc, DocListed

LEMMA DocListedStep == DocTyped /\ DocListed /\ [Next]_vars => DocListed'
<1> SUFFICES ASSUME DocTyped, DocListed, IndexNext \/ UNCHANGED indexVars PROVE DocListed'
  BY OnlyIndexSteps
<1> USE DEF DocTyped, DocFields, DocListed
<1>0. DOMAIN <<>> = {} /\ Uploads \subseteq Nat
  BY IndexAssumption
<1>1. ASSUME NEW n \in Uploads, UploadRefdoc(n) PROVE DocListed'
  BY <1>1 DEF UploadRefdoc
<1>2. CASE DropOldChunks
  <2>1. /\ doc'.chunks \in {doc.chunks, <<>>} /\ doc'.upload = "chunks"
        /\ doc'.next = doc.next /\ doc'.size = doc.size /\ doc'.disk = doc.disk
    BY <1>2 DEF DropOldChunks, Deleted
  <2>2. doc.upload = "saved"
    BY <1>2 DEF DropOldChunks
  <2> QED
    BY <1>0, <2>1, <2>2
<1>3. CASE AddChunk
  <2> DEFINE added == Put(doc.chunks, doc.next, doc.size)
             d == [doc EXCEPT !.chunks = added, !.next = @ + 1]
  <2>1. /\ doc.upload = "chunks" /\ doc.next < doc.size /\ doc.size \in Uploads
        /\ doc.next \in Nat /\ doc.size \in Nat
    BY <1>3 DEF AddChunk
  <2>2. DOMAIN added = DOMAIN doc.chunks \union {doc.next}
    BY DEF Put
  <2>3. doc' = IF d.next < d.size THEN d
               ELSE [d EXCEPT !.upload = "none",
                              !.promised = IF @ = "pending" THEN "yes" ELSE @]
    BY <1>3 DEF AddChunk
  <2> HIDE DEF added
  <2>4. /\ DOMAIN d = DocFields /\ d.chunks = added /\ d.next = doc.next + 1
        /\ d.size = doc.size /\ d.upload = doc.upload /\ d.disk = doc.disk
    BY <2>1
  <2> HIDE DEF d
  <2>5. doc.next \in 0..(doc.size - 1)
    BY <2>1
  <2>6. \A i \in DOMAIN added : \E n \in Uploads : i \in 0..(n - 1)
    BY <2>1, <2>2, <2>5
  <2>7. /\ doc'.chunks = added /\ doc'.next = doc.next + 1 /\ doc'.size = doc.size
        /\ doc'.disk = doc.disk
        /\ doc'.upload = IF d.next < d.size THEN "chunks" ELSE "none"
    BY <2>1, <2>3, <2>4
  <2> QED
    BY <2>1, <2>4, <2>6, <2>7
<1>4. CASE UploadFails
  BY <1>4 DEF UploadFails
<1>5. CASE DeleteRefdoc
  BY <1>5 DEF DeleteRefdoc
<1>6. CASE DeleteChunks
  <2>1. /\ doc'.chunks = <<>> /\ doc'.upload = doc.upload
        /\ doc'.next = doc.next /\ doc'.size = doc.size /\ doc'.disk = doc.disk
    BY <1>6 DEF DeleteChunks, Deleted
  <2> QED
    BY <1>0, <2>1
<1>7. CASE DeleteFile
  BY <1>7 DEF DeleteFile
<1>8. CASE KillServer
  BY <1>8 DEF KillServer
<1>9. CASE UNCHANGED doc
  BY <1>9
<1> QED
  BY <1>1, <1>2, <1>3, <1>4, <1>5, <1>6, <1>7, <1>8, <1>9
     DEF IndexNext, indexVars, AutoIndex, PostIndex, RunResumable, RunEmbedCache,
         StartTool, OpenFile, ReadFails, Upsert, Buffer, ChunkFails, Flush,
         FlushFails, ToolEnds, KillTool, EditFile

-----------------------------------------------------------------------------
(* All of the search *)

\* What the indexes, the mappings and the request are in any state.
SearchKept ==
    /\ ToolTyped /\ DocKept
    /\ ChunksHeld /\ BuilderListed /\ DocListed
    /\ RowsTyped /\ RequestKept

LEMMA KeptInit == Init => SearchKept
<1> SUFFICES ASSUME Init PROVE SearchKept
  OBVIOUS
<1>1. ToolTyped /\ DocKept /\ DocListed /\ RowsTyped /\ RequestKept
  BY ToolInit, DocInit, DocListedInit, SearchInit
<1>2. ToSet(<<>>) = {} /\ 0 <= MaxChunks
  BY IndexAssumption DEF ToSet
<1>3. ChunksHeld
  BY <1>2, IndexAssumption DEF ChunksHeld, Init, IndexInit, Idle, AllFiles
<1>4. BuilderListed
  BY DEF BuilderListed, Init, IndexInit, Idle
<1> QED
  BY <1>1, <1>3, <1>4 DEF SearchKept

LEMMA KeptStep == SearchKept /\ [Next]_vars => SearchKept'
  BY ToolStep, DocStep, ChunksHeldStep, BuilderListedStep, DocListedStep, SearchStep
     DEF SearchKept, DocKept, ChunksHeld

LEMMA KeptIndexTyped == SearchKept => IndexTypeOK
<1> SUFFICES ASSUME SearchKept PROVE IndexTypeOK
  OBVIOUS
<1>1. /\ repo \in [AllFiles -> 0..MaxChunks]
      /\ stored \subseteq ChunkIds /\ cached \subseteq ChunkIds
      /\ ToSet(tool.buffer) \subseteq ChunkIds
  BY DEF SearchKept, ChunksHeld
<1>2. /\ raised \subseteq AllFiles /\ edited \subseteq AllFiles
      /\ tool.kind \in Builders \cup {"idle"}
      /\ tool.todo \subseteq AllFiles
      /\ tool.again \in AllFiles \union {NoFile}
  BY DEF SearchKept, BuilderListed
<1>3. /\ tool.file \in AllFiles \union {NoFile}
      /\ tool.file # NoFile => tool.next < tool.size
  BY DEF SearchKept, ToolTyped
<1>4. /\ doc.disk \in Uploads \cup {Absent}
      /\ doc.upload = "chunks" => doc.next < doc.size \/ doc.size = 0
      /\ doc.promised = "pending" => doc.upload # "none" /\ doc.delete = "none"
      /\ \A i \in DOMAIN doc.chunks : \E n \in Uploads : i \in 0..(n - 1)
  BY DEF SearchKept, DocListed, DocKept, UploadGoesOn
<1> QED
  BY <1>1, <1>2, <1>3, <1>4 DEF IndexTypeOK

LEMMA KeptTyped == SearchKept => TypeOK
<1> SUFFICES ASSUME SearchKept PROVE TypeOK
  OBVIOUS
<1>1. IndexTypeOK
  BY KeptIndexTyped
<1>2. \A p \in DOMAIN rows : p.path \in AllFiles
  BY DEF SearchKept, RowsTyped
<1>3. request.phase \in {"none", "answered", "gated"}
  BY DEF SearchKept, RequestKept
<1>4. \A i \in DOMAIN request.answer :
         /\ request.answer[i].score \in Nat /\ request.answer[i].score <= 10000
         /\ i > 1 => request.answer[i - 1].score >= request.answer[i].score
  BY AnswerListed, ScoresListed DEF SearchKept
<1>5. \A i, j \in DOMAIN request.answer :
         i # j => DedupKey(request.answer[i]) # DedupKey(request.answer[j])
  BY AnswerListed DEF SearchKept, Listing, OnceEach
<1> QED
  BY <1>1, <1>2, <1>3, <1>4, <1>5 DEF TypeOK

\* The indexes hold chunks that files can have, mappings are of files of the
\* repository, and an answer lists each place once, the best first, with scores of
\* 0 to 1 (in ten-thousandths): for any repository, dictionary and index, and
\* whatever providers fail.
THEOREM TypeCorrect == Spec => []TypeOK
  BY KeptInit, KeptStep, KeptTyped, PTL DEF Spec

\* The policy allows a draft only on live code: a provider that does not speak of
\* an outdated mapping has found the first place of the answer with a high score,
\* and all files of the answer were there when the policy asked. The indexes may
\* be cut off, outdated or of files that are gone.
THEOREM DraftOnLiveCode == Spec => []DraftRestsOnLiveCode
<1>1. SearchKept => DraftRestsOnLiveCode
  BY DraftHolds DEF SearchKept
<1> QED
  BY <1>1, KeptInit, KeptStep, PTL DEF Spec

\* A live place that was verified for this type of change, or a compatible one,
\* stands above every place that nobody has decided on and whose evidence is not
\* better by more than the verification weighs, however short the answer is cut:
\* for any scores the providers give.
THEOREM VerifiedFirst == Spec => []VerifiedRanksFirst
<1>1. SearchKept => VerifiedRanksFirst
  BY VerifiedHolds DEF SearchKept
<1> QED
  BY <1>1, KeptInit, KeptStep, PTL DEF Spec

=============================================================================
