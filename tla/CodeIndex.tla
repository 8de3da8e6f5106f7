----------------------------- MODULE CodeIndex -----------------------------
(***************************************************************************)
(* The builders of the search indexes: CodeIndexer.index (POST /index and  *)
(* the start of an empty server), scripts/index_resumable.py and           *)
(* scripts/embed_cache.py, which go through the repository file by file    *)
(* and store it chunk by chunk, and the reference documents, which are     *)
(* uploaded and deleted while the server runs. Anything may be killed      *)
(* between two chunks, and any call may raise.                             *)
(*                                                                         *)
(* A file is the number of its chunks, 0 when it is not there. One builder *)
(* runs at a time; files are listed in the order of Files.                 *)
(***************************************************************************)
EXTENDS Ranking

CONSTANTS
    MaxChunks,   \* bound: chunks of a file
    Sizes,       \* the chunks of each file at the start
    Batch,       \* BATCH of embed_cache: buffered chunks that are written at once
    Uploads,     \* the contents that a reference document is uploaded with: their chunks
    Budgets      \* bound: how many runs, faults, uploads... a behaviour has

ASSUME IndexAssumption ==
    /\ MaxChunks \in Nat \ {0} /\ Batch \in Nat \ {0}
    /\ IsInjective(Files) /\ "none" \notin ToSet(Files)
    /\ Sizes \in [ToSet(Files) -> 0..MaxChunks]
    /\ Uploads \subseteq Nat

VARIABLES
    repo,     \* the number of chunks of each file
    stored,   \* the chunks in the collection of the code
    cached,   \* the chunks in embed_cache.db
    tool,     \* the builder that runs, and what it holds
    raised,   \* files in which a builder met an error
    edited,   \* files that were edited since the start
    doc,      \* the reference document: file, chunks, and the requests on it
    left      \* how much of the budget is left

indexVars == <<repo, stored, cached, tool, raised, edited, doc>>

AllFiles == ToSet(Files)
ChunkIds == AllFiles \X (0..(MaxChunks - 1))
ChunksOf(f, n) == {f} \X (0..(n - 1))
Present == {f \in AllFiles : repo[f] > 0}
Pay(kind) == /\ left[kind] > 0
             /\ left' = [left EXCEPT ![kind] = @ - 1]

Builders == {"index", "resume", "cache"}
NoFile == "none"
Absent == -1
Idle(last) == [kind |-> "idle", last |-> last, again |-> NoFile, todo |-> {},
               file |-> NoFile, size |-> 0, next |-> 0, buffer |-> <<>>, full |-> FALSE]
NoDoc == [disk |-> Absent, chunks |-> <<>>, upload |-> "none", size |-> 0, next |-> 0,
          delete |-> "none", promised |-> "no", kept |-> FALSE]

IndexInit ==
    /\ repo = Sizes
    /\ stored = {} /\ cached = {} /\ raised = {} /\ edited = {}
    /\ tool = Idle("none")
    /\ doc = NoDoc
    /\ left \in Budgets

IndexTypeOK ==
    /\ repo \in [AllFiles -> 0..MaxChunks]
    /\ stored \subseteq ChunkIds /\ cached \subseteq ChunkIds
    /\ raised \subseteq AllFiles /\ edited \subseteq AllFiles
    /\ tool.kind \in Builders \cup {"idle"}
    /\ tool.todo \subseteq AllFiles
    /\ {tool.again, tool.file} \subseteq AllFiles \cup {NoFile}
    /\ tool.file # NoFile => tool.next < tool.size
    /\ ToSet(tool.buffer) \subseteq ChunkIds
    /\ doc.disk \in Uploads \cup {Absent}
    /\ doc.upload = "chunks" => doc.next < doc.size \/ doc.size = 0
    /\ doc.promised = "pending" => doc.upload # "none" /\ doc.delete = "none"
    /\ \A i \in DOMAIN doc.chunks : \E n \in Uploads : i \in 0..(n - 1)

----------------------------------------------------------------------------
(* The builders of the code index.                                         *)

(* What embed_cache and index_resumable take as done: files of which a     *)
(* chunk is there.                                                         *)
IndexedPaths(chunks) == {c[1] : c \in chunks}
NotDone(chunks) == Present \ IndexedPaths(chunks)

(* list_files does not sort: the order is that of the file system, the     *)
(* same in every run, and here it is that of Files, whatever that is.      *)
ListedBefore(f, g) == \E i, j \in DOMAIN Files : i < j /\ Files[i] = f /\ Files[j] = g

(* Mutant: what is there is done.                                          *)
RedoNothing == {NoFile}

(* The resumed run starts with the last of the done files: the one a stop  *)
(* may have cut off.                                                       *)
Redo ==
    LET done == Present \cap IndexedPaths(stored)
    IN  IF done = {} THEN {NoFile} ELSE {f \in done : \A g \in done \ {f} : ListedBefore(g, f)}

StartTool(kind) ==
    /\ tool.kind = "idle"
    /\ Pay(kind)
    /\ \E again \in (IF kind = "resume" THEN Redo ELSE {NoFile}) :
        tool' = [Idle("none") EXCEPT
                    !.kind = kind, !.again = again,
                    !.todo = CASE kind = "index" -> Present
                               [] kind = "resume" -> NotDone(stored)
                               [] kind = "cache" -> NotDone(cached)]
    /\ UNCHANGED <<repo, stored, cached, raised, edited, doc>>

(* _auto_index_if_empty: a server that finds a chunk, whole index or not,  *)
(* leaves the rest as it is.                                               *)
AutoIndex == stored = {} /\ StartTool("index")
PostIndex == StartTool("index")
RunResumable == StartTool("resume")
RunEmbedCache == StartTool("cache")

(* The files are taken in their order, the one that is done again first;   *)
(* embed_cache brings those of the payroll forward, here it takes any.     *)
Waiting == tool.again # NoFile \/ tool.todo # {}
IsNext(f) ==
    IF tool.again # NoFile THEN f = tool.again
    ELSE /\ f \in tool.todo
         /\ tool.kind # "cache" => \A g \in tool.todo \ {f} : ListedBefore(f, g)
Taken(f) == [tool EXCEPT !.again = NoFile, !.todo = @ \ {f}]

OpenFile ==
    /\ tool.kind # "idle" /\ tool.file = NoFile
    /\ ~tool.full
    /\ \E f \in AllFiles :
        /\ IsNext(f)
        /\ repo[f] > 0
        /\ tool' = [Taken(f) EXCEPT !.file = f, !.size = repo[f], !.next = 0]
    /\ UNCHANGED <<repo, stored, cached, raised, edited, doc, left>>

(* An error is the end of index; the scripts pass over the file. What      *)
(* embed_cache has in its buffer stays there.                              *)
Skip(f) ==
    /\ raised' = raised \cup {f}
    /\ tool' = IF tool.kind = "index" THEN Idle("none") ELSE [tool EXCEPT !.file = NoFile]

(* The file cannot be read, or is gone since it was listed.                *)
ReadFails ==
    /\ tool.kind # "idle" /\ tool.file = NoFile
    /\ ~tool.full
    /\ \E f \in AllFiles :
        /\ IsNext(f)
        /\ IF repo[f] = 0 THEN UNCHANGED left ELSE Pay("faults")
        /\ raised' = raised \cup {f}
        /\ tool' = IF tool.kind = "index" THEN Idle("none") ELSE Taken(f)
    /\ UNCHANGED <<repo, stored, cached, edited, doc>>

Step(t) == IF t.next + 1 < t.size THEN [t EXCEPT !.next = @ + 1]
           ELSE [t EXCEPT !.file = NoFile, !.next = 0, !.size = 0]

Upsert ==
    /\ tool.kind \in {"index", "resume"} /\ tool.file # NoFile
    /\ stored' = stored \cup {<<tool.file, tool.next>>}
    /\ tool' = Step(tool)
    /\ UNCHANGED <<repo, cached, raised, edited, doc, left>>

Buffer ==
    /\ tool.kind = "cache" /\ tool.file # NoFile
    /\ LET buffer == Append(tool.buffer, <<tool.file, tool.next>>)
       IN  tool' = [Step(tool) EXCEPT
                       !.buffer = buffer,
                       !.full = tool.next + 1 = tool.size /\ Len(buffer) >= Batch]
    /\ UNCHANGED <<repo, stored, cached, raised, edited, doc, left>>

ChunkFails ==
    /\ tool.kind # "idle" /\ tool.file # NoFile
    /\ Pay("faults")
    /\ Skip(tool.file)
    /\ UNCHANGED <<repo, stored, cached, edited, doc>>

(* Mutant: it is written as soon as it is full.                            *)
FlushDueInFile ==
    /\ tool.kind = "cache"
    /\ \/ Len(tool.buffer) >= Batch
       \/ tool.file = NoFile /\ ~Waiting /\ tool.buffer # <<>>

(* The buffer is written after a file that fills it, and at the end.       *)
FlushDue ==
    /\ tool.kind = "cache" /\ tool.file = NoFile
    /\ tool.full \/ (~Waiting /\ tool.buffer # <<>>)

Flush ==
    /\ FlushDue
    /\ cached' = cached \cup ToSet(tool.buffer)
    /\ tool' = [tool EXCEPT !.buffer = <<>>, !.full = FALSE]
    /\ UNCHANGED <<repo, stored, raised, edited, doc, left>>

(* The encoding or the commit fails: after a file the script goes on with  *)
(* the next one and a longer buffer, at the end it stops.                  *)
FlushFails ==
    /\ FlushDue
    /\ Pay("faults")
    /\ tool' = IF tool.full THEN [tool EXCEPT !.full = FALSE] ELSE Idle("none")
    /\ UNCHANGED <<repo, stored, cached, raised, edited, doc>>

ToolEnds ==
    /\ tool.kind # "idle" /\ tool.file = NoFile /\ ~Waiting /\ tool.buffer = <<>>
    /\ tool' = Idle(tool.kind)
    /\ UNCHANGED <<repo, stored, cached, raised, edited, doc, left>>

KillTool ==
    /\ tool.kind # "idle"
    /\ Pay("faults")
    /\ tool' = Idle("none")
    /\ UNCHANGED <<repo, stored, cached, raised, edited, doc>>

(* A developer changes or deletes a file, or brings one back.              *)
EditFile(f) ==
    /\ Pay("faults")
    /\ \E n \in (0..MaxChunks) \ {repo[f]} : repo' = [repo EXCEPT ![f] = n]
    /\ edited' = edited \cup {f}
    /\ UNCHANGED <<stored, cached, tool, raised, doc>>

----------------------------------------------------------------------------
(* The reference document. The upload is one handler of the event loop     *)
(* that never waits after it has read the file, so there is one at a time; *)
(* a delete runs in a thread of its own. doc.chunks is the collection: for *)
(* each chunk number the size of the upload it is of. doc.promised says    *)
(* whether the last upload was answered with success and nothing has been  *)
(* deleted since it began.                                                 *)

Deleted(d) == [d EXCEPT !.chunks = <<>>]
Put(chunks, i, n) == [k \in DOMAIN chunks \cup {i} |-> IF k = i THEN n ELSE chunks[k]]

UploadRefdoc(n) ==
    /\ doc.upload = "none"
    /\ Pay("uploads")
    /\ doc' = [doc EXCEPT !.disk = n, !.upload = "saved", !.size = n, !.next = 0,
                          !.kept = FALSE,
                          !.promised = IF doc.delete = "none" THEN "pending" ELSE "no"]
    /\ UNCHANGED <<repo, stored, cached, tool, raised, edited>>

(* Mutant: they go only when the new ones are there.                       *)
DropOldChunksLast ==
    \/ /\ doc.upload = "saved"
       /\ doc' = [doc EXCEPT !.upload = "chunks"]
       /\ UNCHANGED <<repo, stored, cached, tool, raised, edited, left>>
    \/ /\ doc.upload = "none" /\ doc.promised = "yes" /\ doc.chunks # <<>>
       /\ doc' = Deleted(doc)
       /\ UNCHANGED <<repo, stored, cached, tool, raised, edited, left>>

(* index_file: the old chunks go first; a delete that fails is passed over.*)
DropOldChunks ==
    /\ doc.upload = "saved"
    /\ \/ doc' = [Deleted(doc) EXCEPT !.upload = "chunks"] /\ UNCHANGED left
       \/ doc' = [doc EXCEPT !.upload = "chunks", !.kept = TRUE] /\ Pay("faults")
    /\ UNCHANGED <<repo, stored, cached, tool, raised, edited>>

AddChunk ==
    /\ doc.upload = "chunks" /\ doc.next < doc.size
    /\ LET d == [doc EXCEPT !.chunks = Put(@, doc.next, doc.size), !.next = @ + 1]
       IN  doc' = IF d.next < d.size THEN d
                  ELSE [d EXCEPT !.upload = "none",
                                  !.promised = IF @ = "pending" THEN "yes" ELSE @]
    /\ UNCHANGED <<repo, stored, cached, tool, raised, edited, left>>

(* The text cannot be read, a chunk cannot be stored, or there are none:   *)
(* the file goes, and the client is told.                                  *)
UploadFails ==
    /\ doc.upload # "none"
    /\ IF doc.upload = "chunks" /\ doc.size = 0 THEN UNCHANGED left ELSE Pay("faults")
    /\ doc' = [doc EXCEPT !.disk = Absent, !.upload = "none", !.promised = "no"]
    /\ UNCHANGED <<repo, stored, cached, tool, raised, edited>>

DeleteRefdoc ==
    /\ doc.delete = "none"
    /\ Pay("uploads")
    /\ doc' = [doc EXCEPT !.delete = "asked", !.promised = "no"]
    /\ UNCHANGED <<repo, stored, cached, tool, raised, edited>>

DeleteChunks ==
    /\ doc.delete = "asked"
    /\ doc' = [Deleted(doc) EXCEPT !.delete = "unlink"]
    /\ UNCHANGED <<repo, stored, cached, tool, raised, edited, left>>

DeleteFile ==
    /\ doc.delete = "unlink"
    /\ doc' = [doc EXCEPT !.disk = Absent, !.delete = "none"]
    /\ UNCHANGED <<repo, stored, cached, tool, raised, edited, left>>

(* The server stops: what the requests were about to do is not done.       *)
KillServer ==
    /\ doc.upload # "none" \/ doc.delete # "none"
    /\ Pay("faults")
    /\ doc' = [doc EXCEPT !.upload = "none", !.delete = "none", !.promised = "no"]
    /\ UNCHANGED <<repo, stored, cached, tool, raised, edited>>

IndexNext ==
    \/ AutoIndex \/ PostIndex \/ RunResumable \/ RunEmbedCache
    \/ OpenFile \/ ReadFails \/ Upsert \/ Buffer \/ ChunkFails
    \/ Flush \/ FlushFails \/ ToolEnds \/ KillTool
    \/ \E f \in AllFiles : EditFile(f)
    \/ \E n \in Uploads : UploadRefdoc(n)
    \/ DropOldChunks \/ AddChunk \/ UploadFails
    \/ DeleteRefdoc \/ DeleteChunks \/ DeleteFile \/ KillServer

----------------------------------------------------------------------------
(* Properties.                                                             *)

Whole(chunks, f) == ChunksOf(f, repo[f]) \subseteq chunks

(* embed_cache keeps files whole: whatever is killed and whatever write    *)
(* fails, a file of which embed_cache.db has a chunk has them all, unless  *)
(* the enrichment of one of its chunks raised or it was edited since.      *)
CachedFilesAreWhole ==
    \A f \in IndexedPaths(cached) \ (raised \cup edited) : Whole(cached, f)

(* A resumed run that comes to its end leaves no file out and none in      *)
(* half, however often the runs before it were killed, as long as no file  *)
(* raised and none was edited.                                             *)
ResumeLeavesNoHole ==
    tool.last = "resume" /\ raised \cup edited = {} => \A f \in Present : Whole(stored, f)

(* A document whose upload was answered with success, and that nobody has  *)
(* uploaded or deleted since, is on disk and searchable as a whole; of an  *)
(* older version nothing is found, if the old chunks could be deleted.     *)
UploadedDocIsWhole ==
    doc.promised = "yes" =>
        /\ doc.disk = doc.size
        /\ \A i \in 0..(doc.size - 1) : i \in DOMAIN doc.chunks /\ doc.chunks[i] = doc.size
        /\ ~doc.kept => DOMAIN doc.chunks = 0..(doc.size - 1)
=============================================================================
