# Formal models of regtax-monitor

This directory holds TLA+ models of the program under `src/`: it collects
amendments of tax and labour law, analyses them with a language model, maps
them to places in a code base, drafts patches, and writes a patch only after a
person has approved it. The models are about the control of the program, the
order of its reads, commits and file writes, and what happens to that order
when requests overlap, calls fail, or the server stops. Texts, embeddings,
prompts and scores are abstracted to what the properties tell apart.

## 1. The system

| Part | State | Operations | Works with |
|---|---|---|---|
| Approval workflow (`app/main.py`) | `law_change.status`, `patch_proposal` rows | analyze, apply, approve, reject, review, run-golden | LLM client, adapters, audit, mappings |
| Codebase adapters (`app/codebase`) | the files of the working copy or the patch files | `list_files`, `read_file`, `apply_patch` | called by apply and approve |
| Mapping decisions (`app/main.py`, `app/domain/mappings`, `app/db`) | `mapping` rows, `mapping_decision` history, cached `mapping.verified` | map, verify, decide, backfill at start | read by apply and by the retrieval |
| Collector (`app/collector`, `collect` in `app/main.py`) | `sync_state.last_sync`, new `law_change` rows | collect (scheduler and endpoint), fetch-detail | law API |
| Run audit (`app/audit`) | `execution_run`, `audit_event`, files of artifacts | start, record, complete, fail, put, manifest | shares the session of the request |
| Mapping retrieval (`app/retrieval`, reranking) | none of its own | ask four providers, merge, rerank by decisions, cut | index, cache files, decisions |
| Automation policy (`app/policy`) | none | block reasons, decision | gate of apply, over the answer of the retrieval |
| Change classification, DB-data registry | none | pure decisions | gate of apply |
| LLM clients (`app/llm`) | a class-level counter | analyze, propose, build edits | local or remote model |
| Indexing (`app/embedding`, `scripts/`) | vector collections, `embed_cache.db`, cache files of dictionary and constants | index, resume, fill the cache, upload or delete a document | adapters |
| Historical replay (`app/evaluation/replay`) | temporary worktrees, index directories, reports | check, spread out, draft, apply, test, clean up, compare, report | git, retrieval, the original repository |
| Offline evaluation (`app/evaluation`) | a report | run a case, count | retrieval |
| Harness executor (`scripts/execute.py`) | `index.json` of a phase, `phases/index.json`, `ESCALATION.md`, git | run the steps of a phase with an agent | the agent edits the same files |
| MCP server, trace recorder, UI, configuration | read-only, or logs | | |

Endpoints are plain functions: FastAPI runs each in a thread of its pool with a
database session of its own. SQLite serialises commits, and nothing else ties a
commit to what the thread has read before: there is no lock, version column or
conditional update. This, the calls that last minutes between a read and its
commit, and the two or more commits within one request are what makes the
program hard to test. The list `hazards` in `PROJECT.json` names every such
place by its line, with the properties that would catch it going wrong.

What makes each part correct:

* workflow: a decision is made once, by a person; a change that waits has a
  draft; an approved patch is on disk, a rejected one is not;
* decisions: the cached column says what the history says; restarts and
  migrations never overrule a person; what is revoked is not used;
* collector: `last_sync` never passes a law that was amended in the window and
  has no row for it; one row per law and day; every row gets its text;
* audit: no hole in what is recorded, no answer that claims more than is there,
  and no harm to the request;
* indexing: what is taken as done is whole; a document that was accepted is
  found, its old text is not;
* retrieval and policy: what people decided counts before the answer is cut; a
  draft is allowed only on code that is there;
* replay: a case that is reported as clean has left nothing behind, one that
  passed was earned, no file text from after the change was searched for its
  draft, the report shows no more than each case allows;
* executor: steps in order, nothing completed unchecked, no price lost and no
  call begun over the limit, across restarts; no step passed with an edit of a
  protected file that git shows; every run ends in a way a person can tell.

## 2. Modules

| Module | Contents |
|---|---|
| `HumanGate` | the abstract gate of ADR-002: approval and release are one step |
| `ApprovalGate` | analyze, apply, approve, reject and `apply_patch`, step by step |
| `ApprovalGateProofs` | its theorems |
| `MappingDecisions` | decisions, history, cache, backfill, map and the selection of apply |
| `MappingDecisionsProofs` | its theorems |
| `Collector` | collect and fetch-detail, with the clock and SQLite's write lock |
| `CollectorProofs` | its theorems |
| `AuditRun` | one audited request along each of its ways |
| `AuditRunProofs` | its theorems |
| `HarnessExecutor` | the executor of a phase, its agent and the person beside it |
| `HarnessExecutorProofs` | its theorems |
| `GitCommands` | the git calls and golden commands of the replay, and which of them are refused |
| `ReplayFixtures` | the fixture file: what the loader refuses and normalises |
| `ReplayScoring` | the answer diff, the check of the fixture, metrics and verdict |
| `ReplayReport` | the three files of the report and what each privacy mode lets through |
| `Replay` | the command around them: worktree, pipelines, index cache, cleanup, report |
| `ReplayProofs` | its theorems |
| `Ranking` | merge, reranking and cut of the search; the reasons of the policy |
| `CodeIndex` | the builders of the code index and the reference document |
| `Search` | map and the gate of apply over what `CodeIndex` left, and the decisions between |
| `RankingProofs` | what the merge, the order, the decisions, the cut and the policy give |
| `SearchProofs` | theorems about the indexes and the answers, under all that `Search` does |
| `MC*` | symmetry sets for TLC |

**ApprovalGate.** `status`, `approval`, `owner` and `targets` are columns of
`law_change` and `patch_proposal` (`targets` is what the diff touches); `tree` is
the set of patches each file holds; `job` is a thread: its phase, what it has
read, what is left to write. One action stands for the code between two points
where another thread can be seen: `AnalyzeBegin`/`AnalyzeCommit`,
`ApplyBegin`/`ApplyCommit`, `ApproveBegin`, `PatchRead`, `PatchWrite` (one file),
`LoadChange`, `ApproveCommit`, `RejectBegin`, `RejectCommit`. The status of the
change is written by a decision only if it differs from the one the session had
loaded, as SQLAlchemy does. The constant `Adapter` chooses the mock adapter
(a patch file per proposal) or the real one (files edited in place, with
refusals). `Serial` says that the one operator waits for each answer, `MayCrash`
that the server may stop between two steps, and that the commit of a decision
may fail on a locked database (`CommitFails`: the patch is written, the proposal
stays a draft).

**MappingDecisions.** `place`, `verified` and `history` are the tables; `work` is
a thread. A decision loads the row (`DecideBegin`), takes the time (`Stamp`), reads
the history (`ReadHistory`) and commits event and cache together
(`DecideCommit`). `Start` includes the backfill of `init_db`; `Init` is any
database written before the history existed. `Used` is the selection that apply
makes.

**Collector.** The clock counts midnights, in turn of Seoul and of UTC, because
publications carry Korean dates and `last_sync` a UTC date. `lock` is SQLite's
write lock, taken by the first flush and given back by the commit or the end of
the session. The two searches, each check and insert, the commit, each text and
the second commit are steps. Every publication belongs to a law or a rule
(`Laws`). A search answers with any of `Listed`: one entry of each law that has
one in the window, whichever comes first (`dedupe_and_filter`, and `seen` for the
rules), and for a law in `Crowded` perhaps none, because only one page of limited
size is read. A row is looked up by law and day (`SameRow`).

**AuditRun.** `Script` lists, for each of the seven ways through analyze, map and
apply, the steps that touch the audit, the session or the outside. A failed
commit leaves `session = "broken"`, from where on everything raises that needs
the database. `Number` gives the event of a step the number that `record` takes
for it, `Holds` says that the rows are exactly the events of the first n steps.

**HarnessExecutor.** `status`, `stamped`, `saved` are `index.json`, `readable` says
whether it can be parsed, `missing` the steps without their document; `phase` is
`phases/index.json`, `report` is `ESCALATION.md`. `edits` holds the kinds of
protected edits that HEAD does not have: of a file it knows, of a new file in
git's index, of a new file that git has not heard of; `git diff` lists the first
two, `git checkout HEAD` restores only the first, and nothing at all while the
second is there, and may fail unseen; `git add -A` makes the third the second.
A call costs any of `Prices` (0: its output has no price). The agent acts only
while it is called, and edits the status of its own step. `charged`, `cut` and
`blind` are history variables: the prices that were saved, the steps in whose
attempt the executor was stopped, and that git did not answer a check.

**Replay.** `tree` is the working tree of the original, `entries` its registered
worktrees, `dirs` and `works` the temporary roots and the worktrees in them,
`cache` the index directories by key. `dictionary` and `locations` are the cache
files of the project root, each with the tree it was harvested from: whoever
comes first writes them, and nobody looks which repository they are of. `pc` is the point the command has reached;
`got` what the case has brought, `trouble` the exception that is on its way
through the `finally`, `problems` what `_cleanup` has collected. A path is a
sequence of segments, a file the set of strings in it, because the fixtures
speak of paths and of strings in files. Every call of git goes through `RunGit`,
which refuses what `git_cmd.py` refuses, and may not run, end badly or end well.
The properties judge by the trees, never by what the program has computed from
them.

**CodeIndex.** A file is the number of its chunks; `stored` and `cached` are the
chunks in the collection and in `embed_cache.db`. `tool` is the one builder that
runs: the set of files it still has to do, the one it does again first, the file
it is in, its buffer. `embed_cache` brings the files of the payroll forward, so
it may take any waiting file; the other builders take them as listed. `doc` is a reference
document with the upload and the delete that are on their way: the upload is an
`async` handler that never waits after it has read the body, so uploads do not
overlap; the delete runs in a thread. `Budgets` says how many runs, faults,
requests and decisions a behaviour may spend.

**Search.** `rows` are the mappings with their history, `harvested` the two cache
files (the repository as it was when they were written), `request` the one
search on its way. An answer is found (`Ask`), and then stored as mappings
(`SaveRows`) or put before the policy with the files as they are by then
(`AskPolicy`); builders, edits and decisions come in between.

## 3. Runs

| Run | Shows | Bounds |
|---|---|---|
| `GateConcurrent` | `PendingHasDraft`, `SettledIsFinal` with overlapping requests, refusals, crashes, commits that fail and partial patches | two changes, proposals, files and threads: two drafts of one change or of two, two patches of one file |
| `GateRefines` | the code implements `HumanGate` (`GateSpec`), `ApprovedIsOnDisk`, `RejectedLeavesNoPatch`, and an approval is not lost | one request at a time, mock adapter, no crash |
| `DecisionsSerial` | `CacheConsistent`, `DecisionTakesEffect`, `PersonDecides`, `OneRowPerPlace` | two mappings, three decisions on each, two instants (so that ties occur), restarts |
| `DecisionsRevokedUsed` | a violation, see below | one mapping |
| `CollectConcurrent` | `LawsNotMissed` with two collectors, crashes, failures, lock timeouts | a law with two amendments and a rule, two midnights, three rows; two million states |
| `CollectFair` | `NothingMissed`, `OneRowPerItem`, `TextFollows`, `Collected` | a law with two amendments, a rule, and one that may be off the page; two midnights, four rows, one collector |
| `CollectRulesRefused` | a violation, see below | four midnights |
| `AuditRun` | `NoHole`, `AnswerIsHonest`, `CompletedIsStored`, `ManifestVerifies` | one request; everything may fail anywhere |
| `AuditBreaksSession` | a violation, see below | only writes fail |
| `ReplayRuns` | `PassedIsEarned`, `ReportIsPrivate`, `NoLookAhead`, `CleanCaseLeavesNothing` | two runs, two faults, seven fixture files (two cases of unequal privacy, an older base, none, a missing commit, a file that is not UTF-8, two that are refused), four pipelines, a cache file of places that the server has left and none of the dictionary; 1.3 million states |
| `SearchRuns` | `CachedFilesAreWhole`, `ResumeLeavesNoHole`, `UploadedDocIsWhole`, `DraftRestsOnLiveCode`, `VerifiedRanksFirst` | three files of up to two chunks, batch of two, answers of two; four budgets, see `MCSearch`; 800 thousand states |
| `HarnessRuns` | `DonePhaseIsDone`, `StepsInOrder`, `BudgetHolds`, `ProtectedNotPassed`, `RunEnds` | three steps, one without its document at first; two attempts (three in the code), a limit of 3 and calls of price 2 or none, so that the sum passes the limit; any number of restarts; 830 thousand states |

The bounds are constants (`MaxClock`, `MaxDecisions`, `LastTick`, `MaxRows`) or
sizes of sets. Two of each actor and object give every pairwise race; a third
law or step adds the order among those before and after. `MaxRows` stops new
collects when as many rows exist as there are publications; the rows of a collect
that has begun still come on top, so that duplicates fit. Two attempts show a
retry and the last one; a third is another retry. In `ReplayRuns` a second run meets what the first one left (a
killed worktree, half an index), and two faults put one on its way through the
cleanup of the other. In `SearchRuns` a builder needs one kill to leave a file
in half, and two more to be killed while it repairs it; a file of two chunks
can be cut in the middle, and a batch of two spans files; two searches with a
decision between them show the decision at work; an answer of two is shorter
than what is found, so that the cut matters. One budget does not mix with
another because their variables hardly do: the cache builder, the resumed
builder and the documents share nothing but the repository.

The runs that check liveness use no symmetry. Deadlock is off for `AuditRun`,
whose request ends, and for `ReplayRuns` and `SearchRuns`, where nothing need
happen once the runs are spent; elsewhere a stop would be reported.

**Fairness.** `ApprovalGate` assumes that a thread that has a request runs on
(the pool runs every thread; WF of a thread's own steps, never of a new
request or of a refusal). `Collector` assumes in addition that the scheduler
calls collect again, as its interval job does. `HarnessExecutor` assumes that a
running executor goes on; the call of the agent ends because it has a timeout.

### Disagreements the violation runs show

* `DecisionsRevokedUsed`: the documentation of verify says that a revoked mapping
  is left out of later applies (`main.py:967`); with no other verified mapping,
  apply selects by confidence alone (`main.py:1142`).
* `CollectRulesRefused`: a failed search of administrative rules is a warning,
  and `last_sync` advances (`main.py:378`, `main.py:409`).
* `AuditBreaksSession`: a failed audit write makes the request fail, where the
  specification asks for the result with `audit_incomplete=true`.

### What holds only under an assumption

The models keep these behaviours, and the properties name the assumption:

* `ApprovedIsOnDisk` and `RejectedLeavesNoPatch` need one request at a time (or,
  the former, a patch file per proposal): two overlapping approvals of one file
  drop a patch, and a reject that overlaps an approve wins after the patch was
  written. With the real adapter a patch of several files that is refused half
  way stays on disk in part.
* `CacheConsistent` and `OneRowPerPlace` need one request at a time.
  `PersonDecides` and `DecisionTakesEffect` need a clock that does not step back.
* `OneRowPerItem` needs one collect at a time; `TextFollows` and `Collected` need
  a server that does not stop between the two commits and an API that answers.
* `LawsNotMissed`, `NothingMissed` and `Collected` do not say that every publication
  is stored, because the code loses some. Of two amendments of a law that one
  search lists, one entry is kept (`law_api.py:446`; of a rule, `law_api.py:199`),
  and once `last_sync` has passed the other it is not searched again; a law that
  other matches push off the one page (`law_api.py:137`, `law_api.py:187`) is not
  found at all. What is checked: when `last_sync` passes a publication whose law is
  on the page, the collect that moves it has stored this law with a publication
  of its window; so an amendment that is alone in its window is stored. Two
  amendments of one law and one day have one row, since a row is looked up by these.
* `CachedFilesAreWhole` excepts files whose enrichment raised in the middle (the
  first chunks stay in the buffer and are written) and files edited since;
  `ResumeLeavesNoHole` looks at runs in which no file raised and none was edited:
  only the last file in order is redone, so a hole before it stays.
* `UploadedDocIsWhole` is about a document with no delete since its upload, and
  excepts old chunks whose deletion failed, which the code passes over. A failed
  upload of a name that was there deletes the file and leaves chunks of it.
* `DraftRestsOnLiveCode` asks for a provider that found the first place alive.
  The policy itself counts an outdated verified mapping as a verified source
  when it was merged with such a hit (`automation.py:85`).
* `VerifiedRanksFirst` is about places nobody has decided on, and evidence that
  is not better by more than the decision weighs.
* `CleanCaseLeavesNothing` is about the step in which an outcome is recorded. A
  case that ends with `worktree_failed` or `cleanup_failed`, or a killed command,
  may leave its root and its entry. A failure of the pipeline is replaced in the
  outcome by one of the cleanup.
* `PassedIsEarned` does not claim that the draft changed nothing else, nor that
  its files hold the right text: the code does not ask for it. The golden tests
  run before the changed files are listed, so their files count as the draft's,
  and a new file is listed by the topmost new directory.
* `NoLookAhead` is about the texts of files. The replay does look ahead elsewhere,
  as its own documents record: the names in the headers of the indexed documents
  come from the dictionary of the repository in the settings
  (`index_cache.py:32`, `indexer.py:35`), and the places of codes and constants
  from cache files of whatever tree wrote them (`real_pipeline.py:26`), so that a
  file can be found that the worktree does not have. Where there are no such
  files, a replay leaves those of a past tree for the server. Nor does it claim a
  complete index: a directory with one document in it counts as built
  (`index_cache.py:200`).
* `BudgetHolds` does not say that the costs stay within `--max-cost`: the code looks
  at the sum before a call (`execute.py:270`) and adds what the call has cost
  (`execute.py:470`), so the last call may exceed the limit by all of its price.
  What is checked: no write of `index.json` loses a price, and no call is begun
  at or above the limit. A call that is cut off has no price.
* `ProtectedNotPassed` is about edits that `git diff` lists, at the commits of a step
  that passes and of the end of the phase. The executor does commit others, and
  the model has them: a new protected file that is not added is not listed
  (`execute.py:291`) and goes in with `git add -A` (`execute.py:228`); an edit the
  agent has committed itself, as rule 7 of its prompt asks, is not listed either;
  the result of the restoring checkout is not looked at (`execute.py:300`), so an
  edit that stays makes every attempt void and is committed with the step that is
  given up (`execute.py:630`). It and `DonePhaseIsDone` except the steps whose attempt was
  cut off, and it the checks that git did not answer.
* `RunEnds` names five ways: the phase is completed, there is a report, the
  executor was killed, a step has no document (`execute.py:442`), or the index the
  agent has left cannot be read (`execute.py:556`). The last two end the process
  without a report.

## 4. Proofs

`tlapm` checks all of these from nothing, for every value of the constants that
meets the ASSUME of the module.

* **ApprovalGate** (`GateAssumption`). `TypeCorrect` by one case per action.
  `PendingDraftExists`: `PendingHasDraft` is not inductive, because a thread that
  has loaded the change before an apply set it to `pending_apply` may decide the
  draft without writing the status. The invariant `PendingHasLiveDraft` asks for
  a draft that no thread is about to decide in this way. `ApprovedOnDisk`: the
  invariant says for each phase of an approval which sites already hold the
  patch, and that nobody writes over them (`Isolated`). `SettledStays`: a step can
  touch a proposal only through a thread that is deciding it.
  `RejectedLeavesNothing` and `GateImplemented` are about one operator, the mock
  adapter and no crash (`Lone`, the conditions of the run `GateRefines`): a thread
  that decides is then the only one on its way, and a site holds the patch of a
  proposal only if that is approved or about to be. Every step of the program is
  then one of `HumanGate`, or a stutter: the commit of an approval is the one
  step in which approval and release happen.
* **MappingDecisions** (`DecisionAssumption`). `TypeCorrect`; `CacheFollowsHistory`:
  the invariant relates what the thread has computed to the history it will
  extend, and says that before a start at most verified rows lack a history;
  `PlaceMappedOnce`: the places a map request is about to insert have no row;
  `PersonHasLastWord`: histories are ordered in time and a backfilled event can
  only be the first one, for any number of overlapping requests;
  `DecisionsTakeEffect`, an action property: a decision under way is stamped after
  everything in the history (`StampedLast`), so that the sort by time leaves it
  last.
* **Collector** (`CollectorAssumption`). `LawsKept` and `AllKept`, action properties,
  rest on `Swept`: what the searches of a collect have not seen was published no
  earlier than the day it has taken for its own start (Seoul's date then, UTC's
  once a midnight has passed); of every law they have seen in the window, an
  entry of the window is still to be checked, stored, among the rows of the
  session, or the row being inserted. A `last_sync` that is written is therefore
  behind nothing whose law the collect has not settled, with any number of
  collectors. Of which entry a search keeps, and of laws off the page, they
  assume nothing.
  `OneRowEach`: what a lone session is about to commit is neither stored nor there
  twice. `TextsFollow`: rows whose text a thread still owes are committed rows.
* **HarnessExecutor** (`HarnessAssumption`). `BudgetKept`: between calls the sum in
  memory is the saved one, and just after a call the two differ by its price
  (part of `TypeOK`), for any prices and any number of restarts. `InOrder`,
  `CompletedIsDone` and `ProtectedKept` share one invariant (`Orderly`): the steps
  taken up have completed ones before them, the point of the loop says what is
  known of the status of the step, a step that has not been made void was judged
  with no edit that git lists, and once every step is completed no file that HEAD
  has is left edited (`Guarded`).
* **AuditRun** (`AuditAssumption`). The seven ways are seven constants; `Scripts`
  shows what they have in common (`Shaped`: where the artifact, the closing and
  their events stand), and the proofs use nothing else of them. `NoRowMissing`:
  the rows are the events of the first n steps, and n is the place of the request
  as long as its session is not broken (`Recorded`); a session nobody rolls back
  writes no row after the one that failed, and the only step passed over is the
  PATCH_BUILT of a file that could not be written. `UnmarkedIsWhole`: without the
  mark nothing was skipped (`Audited`). `CompletedAfterResult` and `ManifestKept`
  follow from where the closing and the files stand.
* **CodeIndex**, under all steps of `Search` (`IndexAssumption`; `SearchProofs`).
  `UploadsKept`: as long as an upload is undisturbed the collection has exactly the
  chunks added so far. `CacheIsWhole`: the buffer together with what is cached
  holds whole files, except for the file that is being read, and the buffer is
  written only between two files. `ResumeIsWhole`: chunks are stored in the order
  of the listing, so that at most the last file that has any is cut off, and that
  is the one a resumed run does again.
* **Ranking and Search** (`FilesAssumption`, `IndexAssumption`, `SearchAssumption`;
  `RankingProofs`, `SearchProofs`). The lists are defined without recursion:
  `Arrange` gives the place k to the member with k - 1 smaller ones, and `Arranged`
  proves that this lists a finite set in any order of it. From there: the merge
  lists every place once, the best first, and says of each what all hits of it
  say (`MergeGives`); the decisions move a place by 100 times its delta and nothing
  else (`RerankedGives`); the cut keeps what is better than all it keeps
  (`RankedGives`). The invariant (`SearchKept`) adds that hits have scores of 0 to
  100, and 0 where they speak of an outdated mapping (`Hit`), that every verified
  hit has a decision (`VerifiedKnown`), and that the request holds the ranking of
  what it has found (`AnswerKept`). `TypeCorrect` reads the answer off it.
  `DraftOnLiveCode`: a score of 80 in merged evidence is that of a hit, and an
  outdated hit has 0 (`EvidenceHeld`); the cap on the score and the penalty do not
  matter, because the policy reads the evidence. `VerifiedFirst` is arithmetic: a
  place nobody has decided on has no verified hit, so that its evidence is worth
  at most 7000 of 10000 (`WorthGives`), and a boost that is cut off at 10000 still
  lifts what it boosts above that. If the weights of the other providers were 30
  more, both scores could be cut off and the path would decide.
* **Replay** (`ReplayAssumption`). `NeverAhead`: an index directory holds only
  file texts of the commit its key names (`LookBack`), whoever has built it,
  wherever it was killed, and whatever dictionary the headers are from. `CleanCases`, an action property: each stage of the
  cleanup has removed what its stage says or has noted a problem (`Cleared`).
  `NobodyShownMore`: what is collected carries the mode it was loaded with, and
  the strictest mode allows what every other does (`StrictestAllows`).
  `PassIsEarned`: what an outcome says was read from the trees (`Earned`), and full
  coverage means that every file in scope was drafted (`FullCoverage`).
  `TypeCorrect` needs that a root that is left behind has cost a fault (`Numbered`),
  so that a fresh name is always to be had.

Theorems under a condition name it in their statement (`Serial`, `Lone`,
`~RulesRefused`...); they are the conditions of section 3, and the runs check each
property under the same ones.

Only model-checked: liveness under fairness (`ApproveClickSettles`, `Collected`,
`RunEnds`), which the provers cannot do. Every other property of a passing run
has its theorem. The three properties of the violation runs are false.

## 5. What is not modelled

Formatting, parsing and wording; the read-only endpoints, the MCP server, the
UI; golden tests of a proposal, whose result no guard reads; review, which adds an opinion
row. The law API, the language model, git and the agent are modelled from how
the code uses them. A kill of the executor ends its agent, too. An agent that
edits the status of steps other than its own, or the sum of costs, is not
modelled; one that deletes the document of a step has made one more edit of a
protected file. The mock mode of the law API, which fetches no texts, is left
out.

* **Search.** Embeddings, similarities, the cutting of files into chunks and the
  matching of terms are given data (`Symbols`, `Similarity`, `Codes`, `Values`);
  `Files` stands for the order in which files are listed and paths sort. One
  builder runs at a time. The expansion over the code graph is left out: no
  configuration the program builds sets `graph_enabled`. `source_conflict`, a
  field of the policy's input, is never set by the program. `main.py` never sets
  `code_hash` on a mapping; the conflict of contents in the merge is in `Ranking`
  all the same. The classification of the change is an input.
* **Replay.** The repository that the settings name, whose dictionary the indexer
  loads, is taken to be the one that is replayed. `keep_on_error`, which the command never sets; the similarity of two
  diffs, line counts and the means of the summary, which no verdict reads; the
  text of the report.
* **Offline evaluation, change classification, symbol graph.** Functions of their
  input, without order, failure or state that a model would add to; the metrics
  that the replay shares are in `ReplayScoring`.
* **LLM clients.** A call is a step that may fail; what it returns is one of the
  drafts. `propose_and_build` retries edits within one call and keeps nothing. A
  reading, not a check: a retry leaves out every edit that equals a failed one
  (`common.py:216`), so of an edit given twice the applied one goes, too.
* **Collector and decisions together.** fetch-detail may change `article_no` and
  with it the id that mappings are keyed by (`main.py:481`); no code follows the
  id, so no property would hold beyond what each part has.

Some behaviours are in the models although no property can hold of them; the
list `hazards` has each at its line: a partial patch of several files
(`real_adapter.py:169`), an automatic indexing that was cut off and is never
completed (`main.py:240`), and a text of the answer diff that is no UTF-8 and
ends the whole replay with the outcomes so far, where the docstring of
`run_case` says that it lets no exception out (`runner.py:410`, `runner.py:489`).

## 6. Plan

Done: the approval workflow, mapping decisions, collector, audit of a request,
harness executor, historical replay, indexing, search and policy, and theorems
about each. What is left:

1. Abstract specifications beside `HumanGate`, with the refinement proved: an
   append-only ledger that `MappingDecisions` implements, and a log of requests that
   `AuditRun` implements.
2. What one component promises another as lemmas that both can cite: the rows
   `Search` adds to the mappings and those of `MappingDecisions`.
