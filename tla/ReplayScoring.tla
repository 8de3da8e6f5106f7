--------------------------- MODULE ReplayScoring ---------------------------
(***************************************************************************)
(* app/evaluation/replay/answer_diff.py, report.py (the metrics and the    *)
(* verdict), app/evaluation/metrics: what the answer commit changed, what  *)
(* the draft changed, and how the two are compared.                        *)
(*                                                                         *)
(* A tree maps the paths of its files to texts.  A text is the set of the  *)
(* strings that occur in it; Undecodable occurs in a file that is not      *)
(* UTF-8.  A rate is a pair <<part, whole>>, and <<1, 1>> without a whole. *)
(***************************************************************************)
EXTENDS Integers, Sequences, FiniteSets, SequencesExt

CONSTANTS
    Squeezed,      \* a string -> the string with its white space normalised
    Undecodable    \* the string that stands for bytes that are no UTF-8

\* normalize_path
Normal(path) == SelectSeq(path, LAMBDA segment : segment \notin {"", "."})

\* path_matches: the entry itself or a directory above, by whole segments.
PathMatches(path, spec) ==
    /\ Normal(spec) # <<>>
    /\ IsPrefix(Normal(spec), Normal(path))

MatchesAny(path, specs) == \E spec \in specs : PathMatches(path, spec)

\* _contains: a blank string is nowhere.
TextContains(text, needle, mode) ==
    /\ needle # ""
    /\ IF mode = "normalized_text"
       THEN \E s \in text : Squeezed[s] = Squeezed[needle]
       ELSE needle \in text

-----------------------------------------------------------------------------
(* The answer *)

\* git diff --name-status (external): the paths on which two trees differ; of a
\* rename git names both paths and parse_name_status keeps the new one.
Changed(base, answer) ==
    {p \in DOMAIN base \union DOMAIN answer :
        ~(p \in DOMAIN base /\ p \in DOMAIN answer /\ base[p] = answer[p])}
RenamedAway(base, answer) ==
    {p \in DOMAIN base \ DOMAIN answer :
        \E q \in DOMAIN answer \ DOMAIN base : answer[q] = base[p]}

\* parse_name_status
AnswerFiles(base, answer) == Changed(base, answer) \ RenamedAway(base, answer)

\* classify_changes: what the fixture excludes is out even where it is relevant.
ClassifyChanges(files, scope) ==
    LET excluded == {p \in files : MatchesAny(p, scope.excluded)}
        inScope == {p \in files \ excluded : MatchesAny(p, scope.relevant)}
    IN  [in_scope |-> inScope, excluded |-> excluded,
         out_of_scope |-> files \ (inScope \union excluded)]

NoAnswer == [in_scope |-> {}, excluded |-> {}, out_of_scope |-> {}]

\* extract_answer_diff
ExtractAnswerDiff(base, answer, scope) ==
    ClassifyChanges(AnswerFiles(base, answer), scope)

\* _check_one, over _read_file_at: a file that cannot be decoded is there, with
\* nothing in it.
CheckOne(answer, item) ==
    LET path == Normal(item.path)
        text == IF Undecodable \in answer[path] THEN {} ELSE answer[path]
    IN  IF path \notin DOMAIN answer
        THEN [exists |-> FALSE, after |-> FALSE, before |-> FALSE]
        ELSE [exists |-> TRUE,
              after |-> TextContains(text, item.after, item.match_mode),
              before |-> TextContains(text, item.before, item.match_mode)]

\* ReplacementCheck.ok
CheckOk(check) == check.exists /\ check.after /\ ~check.before

\* check_expected_replacements
CheckExpected(answer, expected) ==
    [i \in 1..Len(expected) |-> CheckOne(answer, expected[i])]

-----------------------------------------------------------------------------
(* What the draft did *)

\* _detect_replacements: by the file before and after, never by the diff.
Performed(item, before, after) ==
    LET path == Normal(item.path) IN
    /\ path \in DOMAIN before /\ Undecodable \notin before[path]
    /\ path \in DOMAIN after /\ Undecodable \notin after[path]
    /\ before[path] # after[path]
    /\ TextContains(before[path], item.before, item.match_mode)
    /\ TextContains(after[path], item.after, item.match_mode)
    /\ ~TextContains(after[path], item.before, item.match_mode)

\* The performed replacements, by path, before and after.
DetectReplacements(expected, before, after) ==
    {[path |-> Normal(expected[i].path), before |-> expected[i].before,
      after |-> expected[i].after] :
        i \in {j \in 1..Len(expected) : Performed(expected[j], before, after)}}

\* _replacement_keys
ReplacementKey(item) ==
    IF item.match_mode = "normalized_text"
    THEN <<Normal(item.path), Squeezed[item.before], Squeezed[item.after]>>
    ELSE <<Normal(item.path), item.before, item.after>>

\* _generated_keys: each in both forms.
GeneratedKeys(generated) ==
    {<<g.path, g.before, g.after>> : g \in generated}
    \union {<<g.path, Squeezed[g.before], Squeezed[g.after]>> : g \in generated}

-----------------------------------------------------------------------------
(* The metrics *)

Rate(part, whole) == IF whole = 0 THEN <<1, 1>> ELSE <<part, whole>>
Full(rate) == rate[1] = rate[2]

\* patch_replacement_rate: counted per entry of the list.
ReplacementRate(expected, keys) ==
    Rate(Cardinality({i \in 1..Len(expected) : ReplacementKey(expected[i]) \in keys}),
         Len(expected))

FileCoverage(relevant, patched) ==
    Rate(Cardinality(relevant \intersect patched), Cardinality(relevant))

\* Of no file at all, none is unnecessary.
UnnecessaryFileRate(patched, relevant) ==
    <<Cardinality(patched \ relevant),
      IF patched = {} THEN 1 ELSE Cardinality(patched)>>

ChangedFileJaccard(generated, relevant) ==
    Rate(Cardinality(generated \intersect relevant),
         Cardinality(generated \union relevant))

\* file_recall_at_k
RecallAtK(relevant, retrieved, k) ==
    Rate(Cardinality(relevant \intersect
                     {retrieved[i] : i \in 1..(IF k < Len(retrieved) THEN k
                                               ELSE Len(retrieved))}),
         Cardinality(relevant))

\* primary_rank, over reciprocal_rank; 0 for none.
PrimaryRank(relevant, retrieved) ==
    LET hits == {i \in 1..Len(retrieved) : retrieved[i] \in relevant}
    IN  IF hits = {} THEN 0
        ELSE CHOOSE i \in hits : \A j \in hits : i <= j

GoldenOk == {"passed", "skipped", "none"}

\* Mutant: a case that broke off is judged like any other.
VerdictDespiteFailure(accuracy, coverage, applyOk, golden, fixtureOk, failure) ==
    /\ fixtureOk
    /\ Full(accuracy) /\ Full(coverage)
    /\ applyOk # "no"
    /\ golden \in GoldenOk

\* _verdict: "none" where a step did not run.  The failure comes first: of a case
\* that broke off nothing is expected, and everything else would be met.
Verdict(accuracy, coverage, applyOk, golden, fixtureOk, failure) ==
    /\ failure = "none"
    /\ fixtureOk
    /\ Full(accuracy) /\ Full(coverage)
    /\ applyOk # "no"
    /\ golden \in GoldenOk

\* compute_metrics; the similarity of the two diffs is no part of any verdict and
\* is left out.
ComputeMetrics(o) ==
    LET accuracy == ReplacementRate(o.expected, GeneratedKeys(o.replacements))
        coverage == FileCoverage(o.answer.in_scope, o.files)
        fixtureOk == \A i \in 1..Len(o.checks) : CheckOk(o.checks[i])
    IN  [recall |-> [k \in {1, 3, 5, 10} |->
                        RecallAtK(o.answer.in_scope, o.retrieved, k)],
         rank |-> PrimaryRank(o.answer.in_scope, o.retrieved),
         accuracy |-> accuracy,
         coverage |-> coverage,
         unnecessary |-> UnnecessaryFileRate(o.files, o.answer.in_scope
                                                      \union o.answer.excluded),
         jaccard |-> ChangedFileJaccard(o.files, o.answer.in_scope),
         passed |-> Verdict(accuracy, coverage, o.applyOk, o.golden, fixtureOk,
                            o.failure)]
=============================================================================
