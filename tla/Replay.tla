------------------------------- MODULE Replay -------------------------------
(***************************************************************************)
(* app/evaluation/replay: the command that replays past changes of the     *)
(* law.  For each fixture it checks the original repository, spreads the   *)
(* commit before the change out in a temporary worktree, lets a pipeline   *)
(* write a draft there, applies and tests it, takes the worktree back,     *)
(* compares with the answer commit, and in the end writes one report.      *)
(*                                                                         *)
(* Around it: a person who edits the original while the command runs, git, *)
(* the disk and the tests, which may fail at any call, and a kill at any   *)
(* step.  MaxFaults bounds those, MaxRuns how often the command is given.  *)
(* keep_on_error is never set by the command and is left out.              *)
(*                                                                         *)
(* What a pipeline knows of the code comes from the worktree, except what  *)
(* the cache files of the project root bring: dictionary, locations and    *)
(* constants of another tree, mostly of the repository of today, which     *)
(* settings.repo_root names.                                               *)
(***************************************************************************)
EXTENDS Integers, Sequences, FiniteSets, ReplayReport

CONSTANTS
    Commits,        \* the revisions the repository has -> their trees
    CheckedOut,           \* the revision that is checked out
    Edited,         \* the tree after an edit that is not committed
    FixtureFiles,   \* the fixture files a person may give
    Drafts,         \* what the model may draft: [fits, edits]
    GoldenWrites,   \* the files that the golden tests may leave
    Harvested,      \* the cache files that the server has left: "dictionary", "locations"
    TopK,           \* how many of the files found the real pipeline reports
    Pipelines,      \* among "perfect", "partial", "empty", "real"
    MaxRuns,
    MaxFaults

\* Trees are finite, and what the files list is a sequence.
ASSUME ReplayAssumption ==
    /\ CheckedOut \in DOMAIN Commits
    /\ \A rev \in DOMAIN Commits : IsFiniteSet(DOMAIN Commits[rev])
    /\ \A file \in FixtureFiles :
          LET fixtures == LoadYaml(file).fixtures
          IN  /\ fixtures \in Seq(ToSet(fixtures))
              /\ \A i \in 1..Len(fixtures) :
                    fixtures[i].expected \in Seq(ToSet(fixtures[i].expected))
    /\ MaxRuns \in Nat
    /\ MaxFaults \in Nat

VARIABLES
    tree,       \* the working tree of the original repository
    dictionary, \* the tree its cache file was harvested from; {}: no file
    locations,  \* the same of the files of locations and of constants
    entries,    \* the worktrees it has registered
    dirs,       \* the temporary roots on the disk
    works,      \* those with a worktree in it
    cache,      \* the index directories: key -> the documents in it
    pc,         \* where the command is, "down" when it does not run
    run,        \* how often it was given
    setup,      \* what it was given
    outcomes,   \* the cases that are through
    tmp,        \* the temporary root of the case, 0 when it has none
    work,       \* the tree in the worktree
    got,        \* what the case has brought so far
    trouble,    \* what is on its way: "none", "setup", "raised"
    problems,   \* a step of the cleanup has failed
    stored,     \* the files of the report
    faults

vars == <<tree, dictionary, locations, entries, dirs, works, cache, pc, run, setup, outcomes,
          tmp, work, got, trouble, problems, stored, faults>>

original == <<tree, dictionary, locations>>
disk == <<entries, dirs, works>>
command == <<run, setup, outcomes, stored>>
body == <<work, got, trouble, problems>>

NoSetup == [fixtures |-> <<>>, pipeline |-> "none", mode |-> "metadata_only",
            overridden |-> FALSE]

NoDraft == [fits |-> TRUE, edits |-> <<>>]

\* What is known of a case of which nothing is known: the fields of its outcome,
\* the draft on its way, and the documents that were searched for it.
Nothing == [applyOk |-> "none", golden |-> "none", files |-> {},
            replacements |-> {}, retrieved |-> <<>>, failure |-> "none",
            draft |-> NoDraft, searched |-> {}]

Init ==
    /\ tree = Commits[CheckedOut]
    /\ dictionary = IF "dictionary" \in Harvested THEN {Commits[CheckedOut]} ELSE {}
    /\ locations = IF "locations" \in Harvested THEN {Commits[CheckedOut]} ELSE {}
    /\ entries = {} /\ dirs = {} /\ works = {}
    /\ cache = <<>>
    /\ pc = "down" /\ run = 0 /\ setup = NoSetup
    /\ outcomes = <<>> /\ tmp = 0 /\ work = <<>>
    /\ got = Nothing /\ trouble = "none" /\ problems = FALSE
    /\ stored = <<>>
    /\ faults = 0

Fixture == setup.fixtures[Len(outcomes) + 1]
Base == Commits[Fixture.base]
Dirty == tree # Commits[CheckedOut]

\* One of the things that go wrong outside happens.
Fault == faults < MaxFaults /\ faults' = faults + 1
NoFault == UNCHANGED faults

-----------------------------------------------------------------------------
(* main, run_fixtures *)

\* No pipeline, an unknown stub, a fixture file that is refused, a backend outside
\* without the permission: it ends before anything is touched.
Refuse ==
    /\ pc = "down" /\ run < MaxRuns
    /\ \E file \in FixtureFiles : ~Loaded(file)
    /\ run' = run + 1
    /\ setup' = NoSetup
    /\ outcomes' = <<>> /\ stored' = <<>>
    /\ UNCHANGED <<original, disk, cache, pc, tmp, body, faults>>

\* The mode given wins over those of the fixtures, of which the strictest counts.
\* A file without a case is a report without one.
Start ==
    /\ pc = "down" /\ run < MaxRuns
    /\ \E file \in {f \in FixtureFiles : Loaded(f)}, pipeline \in Pipelines,
          override \in {"none", "redacted"} :
        LET fixtures == LoadYaml(file).fixtures
            modes == {fixtures[i].privacy_mode : i \in 1..Len(fixtures)}
        IN  /\ setup' = [fixtures |-> fixtures, pipeline |-> pipeline,
                         mode |-> IF override # "none" THEN override
                                  ELSE StrictestPrivacyMode(modes),
                         overridden |-> override # "none"]
            /\ pc' = IF fixtures = <<>> THEN "report" ELSE "check"
    /\ run' = run + 1
    /\ outcomes' = <<>> /\ stored' = <<>>
    /\ UNCHANGED <<original, disk, cache, tmp, body, faults>>

\* run_case, finish: the outcome, and on to the next case or the report.
Outcome(failure, answer, checks) ==
    /\ outcomes' = Append(outcomes,
                      [case_id |-> Fixture.case_id,
                       expected |-> Fixture.expected, answer |-> answer,
                       checks |-> checks, files |-> got.files,
                       replacements |-> got.replacements,
                       retrieved |-> got.retrieved, applyOk |-> got.applyOk,
                       golden |-> got.golden, failure |-> failure])
    /\ pc' = IF Len(outcomes) + 1 = Len(setup.fixtures) THEN "report" ELSE "check"
    /\ got' = Nothing /\ work' = <<>> /\ trouble' = "none" /\ problems' = FALSE

\* Mutant: the case after it has the temporary root of this one.
FinishKeepingRoot(failure, answer, checks) ==
    Outcome(failure, answer, checks) /\ UNCHANGED tmp

Finish(failure, answer, checks) ==
    Outcome(failure, answer, checks) /\ tmp' = 0

FinishEarly(failure) ==
    /\ Finish(failure, NoAnswer, <<>>)
    /\ UNCHANGED <<original, disk, cache, run, setup, stored>>

-----------------------------------------------------------------------------
(* Before the worktree *)

\* assert_commits_exist
CommitsExist ==
    \A rev \in {Fixture.base, Fixture.answer} :
        RunGit(RevParse, IF rev \in DOMAIN Commits THEN "ok" ELSE "nonzero", TRUE) = "ok"

\* resolve_repo_path, assert_clean_worktree and assert_commits_exist, in this
\* order: the first that is not met is what the outcome names.
CheckFails ==
    /\ pc = "check"
    /\ \/ FinishEarly("repo_unavailable") /\ Fault
       \/ Dirty /\ FinishEarly("dirty_worktree") /\ NoFault
       \/ ~Dirty /\ ~CommitsExist /\ FinishEarly("commit_not_found") /\ NoFault
       \/ FinishEarly("worktree_failed") /\ Fault

Check ==
    /\ pc = "check"
    /\ RunGit(InsideWorkTree, "ok", FALSE) = "ok"
    /\ RunGit(Status, "ok", FALSE) = "ok" /\ ~Dirty
    /\ CommitsExist
    /\ pc' = "enter"
    /\ UNCHANGED <<original, disk, cache, command, tmp, body, faults>>

\* replay_worktree looks again, and makes the temporary root.
EnterFails ==
    /\ pc = "enter"
    /\ \/ Dirty /\ FinishEarly("dirty_worktree") /\ NoFault
       \/ ~Dirty /\ FinishEarly("worktree_failed") /\ Fault

\* mkdtemp takes a name that is not there.
FreeName == CHOOSE n \in 1..(Cardinality(dirs \union entries) + 1) :
                /\ n \notin dirs \union entries
                /\ 1..(n - 1) \subseteq dirs \union entries

\* worktree add: registered and filled; or stopped on the way, with or without
\* what it had made, and the error is on its way through the cleanup.
Enter ==
    /\ pc = "enter" /\ ~Dirty
    /\ tmp' = FreeName
    /\ dirs' = dirs \union {FreeName}
    /\ \E end \in Ends :
        LET added == RunGit(WorktreeAdd(Fixture.base), end, TRUE) IN
        \/ /\ added = "ok" /\ NoFault
           /\ works' = works \union {FreeName}
           /\ entries' = entries \union {FreeName}
           /\ work' = Base
           /\ trouble' = "none" /\ pc' = "draft"
        \/ /\ added # "ok" /\ Fault
           /\ \/ UNCHANGED <<works, entries>>
              \/ /\ works' = works \union {FreeName}
                 /\ entries' = entries \union {FreeName}
           /\ trouble' = "setup" /\ pc' = "remove"
           /\ UNCHANGED work
    /\ UNCHANGED <<original, cache, command, got, problems>>

-----------------------------------------------------------------------------
(* The pipelines *)

\* build_diff: as far as the limit of the whole case goes, each expected string is
\* replaced where it is found.
Replace(t, item) ==
    LET path == Normal(item.path) IN
    IF /\ path \in DOMAIN t /\ Undecodable \notin t[path]
       /\ item.before # "" /\ item.before \in t[path]
    THEN [t EXCEPT ![path] = (@ \ {item.before}) \union {item.after}]
    ELSE t

BuildDiff(t, expected, limit) ==
    LET n == IF limit < Len(expected) THEN limit ELSE Len(expected)
        updated == FoldLeft(Replace, t, SubSeq(expected, 1, n))
        touched == {p \in DOMAIN t : updated[p] # t[p]}
    IN  [fits |-> TRUE, edits |-> [p \in touched |-> updated[p]]]

\* _make_pipeline, empty_pipeline: the stubs know the fixture, and name its
\* relevant paths as what they found.
Stub ==
    /\ pc = "draft" /\ setup.pipeline # "real"
    /\ got' = IF setup.pipeline = "empty" THEN got
              ELSE [got EXCEPT
                      !.draft = BuildDiff(work, Fixture.expected,
                                    IF setup.pipeline = "partial" THEN 1
                                    ELSE Len(Fixture.expected)),
                      !.retrieved = [i \in 1..Cardinality(Fixture.relevant) |->
                                        Normal(SetToSeq(Fixture.relevant)[i])]]
    /\ pc' = "apply"
    /\ UNCHANGED <<original, disk, cache, command, tmp, work, trouble, problems, faults>>

\* Mutant: the key of an index without the commit.
KeyOfCase(fixture) == <<fixture.case_id, "any">>

\* replay_index_key, repo_identifier: the case, the repository and the commit as
\* the fixture names it; repository, model and indexer stay the same here.
IndexKey(fixture) == <<fixture.case_id, fixture.base>>

\* term_dict.load, load_locations, load_inventory: what the file holds, whatever
\* tree that is of; without a file, what is harvested from the given root.
Harvest(file, root) == IF file = {} THEN {root} ELSE file

\* It is kept, unless it cannot be written.
Kept(file, root) == {file, Harvest(file, root)}

\* The text of a file as it is, and under it a header of the names that the
\* dictionary has for its codes.
Files(t) == {<<p, t[p]>> : p \in DOMAIN t}
Documents(t, from) == {<<p, t[p], from>> : p \in DOMAIN t}
Texts(documents) == {<<doc[1], doc[2]>> : doc \in documents}
Indexed == cache[IndexKey(Fixture)]

\* The dictionary of the indexer is that of the repository in the settings.
ToIndex == Documents(work, Harvest(dictionary, tree)) \ Indexed

\* prepare_index: a directory with at least one document in it is taken as it is.
PrepareIndex ==
    /\ pc = "draft" /\ setup.pipeline = "real"
    /\ IF IndexKey(Fixture) \in DOMAIN cache
       THEN /\ pc' = IF Indexed # {} THEN "model" ELSE "index"
            /\ UNCHANGED cache
       ELSE /\ pc' = "index"
            /\ cache' = [key \in DOMAIN cache \union {IndexKey(Fixture)} |->
                            IF key = IndexKey(Fixture) THEN {} ELSE cache[key]]
    /\ UNCHANGED <<original, disk, command, tmp, body, faults>>

\* indexer.index, one document after the other in a fixed order, from the worktree;
\* the dictionary is loaded with the first.
IndexOne ==
    /\ pc = "index"
    /\ ToIndex # {}
    /\ LET next == CHOOSE doc \in ToIndex : TRUE
       IN  cache' = [cache EXCEPT ![IndexKey(Fixture)] = @ \union {next}]
    /\ dictionary' \in IF Indexed = {} THEN Kept(dictionary, tree) ELSE {dictionary}
    /\ IF Indexed = {} /\ dictionary' = {} THEN Fault ELSE NoFault
    /\ UNCHANGED <<tree, locations, disk, command, pc, tmp, body>>

IndexEnd ==
    /\ pc = "index"
    /\ ToIndex = {}
    /\ pc' = "model"
    /\ UNCHANGED <<original, disk, cache, command, tmp, body, faults>>

\* _retrieve, _ranked_paths: every file once, from the index by similarity, and from
\* the dictionary and the constants, which may name a file that the worktree does not
\* have; then draft_fn.
Found == {doc[1] : doc \in Indexed}
            \union UNION {DOMAIN t : t \in Harvest(locations, work)}

Model ==
    /\ pc = "model"
    /\ \E draft \in Drafts, n \in 0..TopK : \E paths \in [1..n -> Found] :
        /\ \A i, j \in 1..n : paths[i] = paths[j] => i = j
        /\ got' = [got EXCEPT !.draft = draft, !.retrieved = paths,
                              !.searched = Indexed]
    /\ dictionary' \in Kept(dictionary, work) /\ locations' \in Kept(locations, work)
    /\ IF {} \in {dictionary', locations'} THEN Fault ELSE NoFault
    /\ pc' = "apply"
    /\ UNCHANGED <<tree, disk, cache, command, tmp, work, trouble, problems>>

\* Whatever the pipeline raises is kept to the case.
PipelineFails ==
    /\ pc \in {"index", "model"}
    /\ Fault
    /\ got' = [got EXCEPT !.failure = "pipeline_failed"]
    /\ pc' = "remove"
    /\ UNCHANGED <<original, disk, cache, command, tmp, work, trouble, problems>>

-----------------------------------------------------------------------------
(* The draft in the worktree *)

\* _apply_in_worktree: apply --check decides; a call that does not run counts as
\* one that refused.
ApplyDraft ==
    /\ pc = "apply"
    /\ IF got.draft.edits = <<>>
       THEN UNCHANGED <<work, got>> /\ NoFault
       ELSE \/ /\ RunGit(ApplyCheck, IF got.draft.fits THEN "ok" ELSE "nonzero",
                         FALSE) = "ok"
               /\ RunGit(Apply, "ok", FALSE) = "ok"
               /\ work' = got.draft.edits @@ work
               /\ got' = [got EXCEPT !.applyOk = "yes", !.draft = NoDraft]
               /\ NoFault
            \/ /\ got' = [got EXCEPT !.applyOk = "no", !.draft = NoDraft]
               /\ IF got.draft.fits THEN Fault ELSE NoFault
               /\ UNCHANGED work
    /\ pc' = "golden"
    /\ UNCHANGED <<original, disk, cache, command, tmp, trouble, problems>>

\* run_golden, in the worktree: what the tests leave there stays.
Golden ==
    /\ pc = "golden"
    /\ \E end \in GoldenEnds, left \in GoldenWrites :
        /\ got' = [got EXCEPT !.golden = RunGolden(Fixture.golden, end)]
        /\ work' = IF ValidGolden(Fixture.golden) THEN left @@ work ELSE work
        /\ IF end = "noresult" THEN Fault ELSE NoFault
    /\ pc' = "detect"
    /\ UNCHANGED <<original, disk, cache, command, tmp, trouble, problems>>

\* git status (external) names a new file by the topmost new directory above it.
StatusName(path, base) ==
    LET NewAt(n) == \A p \in DOMAIN base : ~IsPrefix(SubSeq(path, 1, n), p)
    IN  IF path \in DOMAIN base THEN path
        ELSE SubSeq(path, 1, CHOOSE n \in 1..Len(path) :
                                NewAt(n) /\ \A m \in 1..(n - 1) : ~NewAt(m))

\* _changed_files: what status names after the tests; nothing if it fails.
ChangedFiles(base, now) == {StatusName(p, base) : p \in Changed(base, now)}

Detect ==
    /\ pc = "detect"
    /\ IF got.applyOk # "yes" THEN UNCHANGED got /\ NoFault
       ELSE \E files \in {ChangedFiles(Base, work), {}} :
            /\ got' = [got EXCEPT !.files = files,
                          !.replacements = DetectReplacements(Fixture.expected,
                                                              Base, work)]
            /\ IF files = {} THEN Fault ELSE NoFault
    /\ pc' = "remove"
    /\ UNCHANGED <<original, disk, cache, command, tmp, work, trouble, problems>>

\* What nobody catches: no room for the patch file, output of the tests that cannot
\* be decoded, Ctrl-C.  It ends the command, after the cleanup.
Raise ==
    /\ pc \in {"draft", "apply", "golden", "detect"}
    /\ Fault
    /\ trouble' = "raised"
    /\ pc' = "remove"
    /\ UNCHANGED <<original, disk, cache, command, tmp, work, got, problems>>

-----------------------------------------------------------------------------
(* The cleanup: every step is tried, whatever came of the one before *)

\* Mutant: what the removal leaves behind is not noted.
RemoveWorktreeQuietly ==
    /\ pc = "remove"
    /\ \/ /\ entries' = entries \ {tmp} /\ works' = works \ {tmp}
          /\ UNCHANGED problems /\ NoFault
       \/ UNCHANGED <<entries, works, problems>> /\ Fault
    /\ pc' = "prune"
    /\ UNCHANGED <<original, dirs, cache, command, tmp, work, got, trouble>>

\* worktree remove --force: a nonzero end is a problem only while the worktree is
\* there; a call that is cut off may have removed the files and not the entry.
RemoveWorktree ==
    /\ pc = "remove"
    /\ \E end \in Ends :
        LET removed == RunGit(WorktreeRemove, end, FALSE) IN
        \/ /\ removed = "ok" /\ NoFault
           /\ entries' = entries \ {tmp} /\ works' = works \ {tmp}
           /\ UNCHANGED problems
        \/ /\ removed = "nonzero" /\ Fault
           /\ problems' = (problems \/ tmp \in works)
           /\ UNCHANGED <<entries, works>>
        \/ /\ removed \notin {"ok", "nonzero"} /\ Fault
           /\ problems' = TRUE
           /\ works' \in {works, works \ {tmp}}
           /\ UNCHANGED entries
    /\ pc' = "prune"
    /\ UNCHANGED <<original, dirs, cache, command, tmp, work, got, trouble>>

\* worktree prune drops every entry whose worktree is gone, not only this one.
Prune ==
    /\ pc = "prune"
    /\ \E end \in Ends :
        IF RunGit(WorktreePrune, end, FALSE) = "ok"
        THEN entries' = entries \intersect works /\ UNCHANGED problems /\ NoFault
        ELSE UNCHANGED entries /\ problems' = TRUE /\ Fault
    /\ pc' = "rmtree"
    /\ UNCHANGED <<original, dirs, works, cache, command, tmp, work, got, trouble>>

\* rmtree ignores its errors; whether the directory is still there decides.
RemoveTree ==
    /\ pc = "rmtree"
    /\ works' = works \ {tmp}
    /\ \/ dirs' = dirs \ {tmp} /\ UNCHANGED problems /\ NoFault
       \/ UNCHANGED dirs /\ problems' = TRUE /\ Fault
    /\ pc' = "leave"
    /\ UNCHANGED <<original, entries, cache, command, tmp, work, got, trouble>>

\* An error on its way is not replaced by one of the cleanup, which is only logged.
\* But the failure of the pipeline is not on its way any more: it is replaced.
LeaveOnError ==
    /\ pc = "leave"
    /\ \/ trouble = "setup" /\ FinishEarly("worktree_failed") /\ NoFault
       \/ /\ trouble = "raised"
          /\ pc' = "down" /\ outcomes' = <<>> /\ tmp' = 0
          /\ got' = Nothing /\ work' = <<>> /\ trouble' = "none" /\ problems' = FALSE
          /\ UNCHANGED <<original, disk, cache, run, setup, stored, faults>>

Leave ==
    /\ pc = "leave" /\ trouble = "none"
    /\ got' = [got EXCEPT !.failure = IF problems THEN "cleanup_failed" ELSE @]
    /\ pc' = "answer"
    /\ UNCHANGED <<original, disk, cache, command, tmp, work, trouble, problems, faults>>

-----------------------------------------------------------------------------
(* The answer and the report *)

\* git diff prints the text of every file that differs, decodable or not.
DiffDecodes ==
    \A t \in {Base, Commits[Fixture.answer]} :
        \A p \in DOMAIN t \intersect Changed(Base, Commits[Fixture.answer]) :
            Undecodable \notin t[p]

\* The answer, the check of the fixture against it, and the text of its diff; an
\* AnswerDiffError leaves what was there before it.
Answer ==
    /\ pc = "answer"
    /\ LET answer == ExtractAnswerDiff(Base, Commits[Fixture.answer], Fixture)
           checks == CheckExpected(Commits[Fixture.answer], Fixture.expected)
           failed == IF got.failure = "none" THEN "answer_diff_failed" ELSE got.failure
           names == DiffNames(Fixture.base, Fixture.answer)
           text == DiffText(Fixture.base, Fixture.answer)
       IN  \E end \in Ends :
           \/ /\ RunGit(names, end, TRUE) # "ok"
              /\ Finish(failed, NoAnswer, <<>>) /\ Fault
           \/ /\ Fixture.expected # <<>> /\ RunGit(ShowFile, end, FALSE) = "norun"
              /\ Finish(failed, answer, <<>>) /\ Fault
           \/ /\ DiffDecodes \/ RunGit(text, end, FALSE) = "norun"
              /\ Finish(got.failure, answer, checks)
              /\ IF end = "ok" THEN NoFault ELSE Fault
    /\ UNCHANGED <<original, disk, cache, run, setup, stored>>

\* _answer_diff_text catches GitCommandError only: the command ends, and with it
\* every outcome so far is lost.
AnswerRaises ==
    /\ pc = "answer"
    /\ ~DiffDecodes
    /\ pc' = "down" /\ outcomes' = <<>> /\ tmp' = 0
    /\ got' = Nothing /\ work' = <<>> /\ problems' = FALSE
    /\ UNCHANGED <<original, disk, cache, run, setup, stored, trouble, faults>>

\* write_report: the files one by one.
WriteFile ==
    /\ pc = "report"
    /\ LET name == ReportFiles[Len(stored) + 1]
       IN  stored' = Append(stored, FileContent(name, outcomes, setup.mode,
                                                setup.overridden))
    /\ pc' = IF Len(stored) + 1 = Len(ReportFiles) THEN "down" ELSE "report"
    /\ UNCHANGED <<original, disk, cache, run, setup, outcomes, tmp, body, faults>>

-----------------------------------------------------------------------------
(* Around the command *)

\* A kill: what was in memory is gone, the disk stays as it is.
Kill ==
    /\ pc # "down"
    /\ Fault
    /\ pc' = "down" /\ outcomes' = <<>> /\ tmp' = 0
    /\ got' = Nothing /\ work' = <<>> /\ trouble' = "none" /\ problems' = FALSE
    /\ UNCHANGED <<original, disk, cache, run, setup, stored>>

\* The system clears its temporary directory; the entries stay.
TmpCleared ==
    /\ pc = "down" /\ dirs # {}
    /\ dirs' = {} /\ works' = {}
    /\ UNCHANGED <<original, entries, cache, pc, command, tmp, body, faults>>

\* A person works on the original, and puts it back; only where the command is about
\* to look, an edit elsewhere shows itself there.
EditOriginal ==
    /\ pc \in {"check", "enter"}
    /\ tree' = IF Dirty THEN Commits[CheckedOut] ELSE Edited
    /\ Fault
    /\ UNCHANGED <<dictionary, locations, disk, cache, pc, command, tmp, body>>

Case == CheckFails \/ Check \/ EnterFails \/ Enter
Pipeline == Stub \/ PrepareIndex \/ IndexOne \/ IndexEnd \/ Model \/ PipelineFails
Draft == ApplyDraft \/ Golden \/ Detect \/ Raise
Cleanup == RemoveWorktree \/ Prune \/ RemoveTree \/ LeaveOnError \/ Leave
Report == Answer \/ AnswerRaises \/ WriteFile

Next ==
    \/ Refuse \/ Start
    \/ Case \/ Pipeline \/ Draft \/ Cleanup \/ Report
    \/ Kill \/ TmpCleared \/ EditOriginal

Spec == Init /\ [][Next]_vars

-----------------------------------------------------------------------------
(* Properties *)

Failures == {"none", "repo_unavailable", "commit_not_found", "dirty_worktree",
             "worktree_failed", "pipeline_failed", "answer_diff_failed",
             "cleanup_failed"}

\* Every variable has a value of its kind: what is on the disk was numbered by a case
\* of this or an earlier run, and failure_kind is one of the codes of runner.py.
TypeOK ==
    /\ tree \in {Commits[CheckedOut], Edited}
    /\ Cardinality(dictionary) <= 1 /\ Cardinality(locations) <= 1
    /\ works \subseteq dirs
    /\ entries \union dirs \subseteq 1..(MaxFaults + 1)
    /\ tmp \in {0} \union 1..(MaxFaults + 1)
    /\ (tmp # 0) <=> pc \in {"draft", "index", "model", "apply", "golden", "detect",
                             "remove", "prune", "rmtree", "leave", "answer"}
    /\ pc \in {"down", "check", "enter", "draft", "index", "model", "apply", "golden",
              "detect", "remove", "prune", "rmtree", "leave", "answer", "report"}
    /\ run \in 0..MaxRuns /\ faults \in 0..MaxFaults
    /\ trouble \in {"none", "setup", "raised"} /\ problems \in BOOLEAN
    /\ Len(outcomes) <= Len(setup.fixtures)
    /\ \A i \in 1..Len(outcomes) : outcomes[i].failure \in Failures
    /\ got.failure \in {"none", "pipeline_failed", "cleanup_failed"}

\* A case whose outcome does not name a failure of the worktree or of its cleanup has
\* left nothing: not its temporary root, not its worktree, not its entry in the
\* repository, and no stale entry of a run that was killed (_cleanup, replay_worktree).
CleanCaseLeavesNothing ==
    [][LET o == outcomes'[Len(outcomes')] IN
       /\ Len(outcomes') > Len(outcomes)
       /\ o.failure \in {"none", "pipeline_failed", "answer_diff_failed"}
       => /\ tmp \notin entries' \union dirs' \union works'
          /\ entries' \subseteq works']_vars

\* A case that passes was earned, by the repository and not by what was collected: it
\* ran to its end, the fixture agrees with the answer commit, every file in scope that
\* the answer changed was changed by the draft, the tests did not fail; and where no
\* draft was applied there was nothing to do (_verdict, compute_metrics).
PassedIsEarned ==
    \A i \in 1..Len(outcomes) :
        LET o == outcomes[i]
            f == setup.fixtures[i]
            inScope == ExtractAnswerDiff(Commits[f.base], Commits[f.answer], f).in_scope
        IN  ComputeMetrics(o).passed =>
            /\ o.failure = "none"
            /\ \A j \in 1..Len(f.expected) :
                    CheckOk(CheckOne(Commits[f.answer], f.expected[j]))
            /\ inScope \subseteq o.files
            /\ o.golden \in {"passed", "skipped"}
            /\ o.applyOk # "yes" => f.expected = <<>> /\ inScope = {}

\* Without an override the report shows of each case only what the mode of its own
\* fixture allows, whatever the modes of the other cases are; with one, what the
\* override allows (strictest_privacy_mode, _case_payload).
ReportIsPrivate ==
    stored # <<>> =>
        \A i \in 1..Len(stored[1].cases) :
            LET mode == IF setup.overridden THEN setup.mode
                        ELSE setup.fixtures[i].privacy_mode
            IN  \A field \in stored[1].cases[i].stored :
                    field[2] \in AllowedArtifacts(mode)

\* Every file text that was searched for a case is one of the commit before the change,
\* also when the index was left by an earlier run with another fixture file, or by one
\* that was cut off (prepare_index, replay_index_key).  It is about these texts only: the
\* names in the headers of the documents and the places of codes and constants come from
\* cache files, mostly of the repository of today, and do look ahead
\* (index_cache.py:32, real_pipeline.py:26).
NoLookAhead ==
    \/ pc \notin {"apply", "golden", "detect"}
    \/ Texts(got.searched) \subseteq Files(Base)
=============================================================================
