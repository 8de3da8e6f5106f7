---------------------------- MODULE ReplayReport ----------------------------
(***************************************************************************)
(* app/evaluation/replay/report.py, the storing side: what the report says *)
(* of a case in each privacy mode, and the three files it is written to.   *)
(*                                                                         *)
(* Of an entry only its fields and what each of them shows of the code are *)
(* kept: a stored field is a pair <<field, artifact kind>>.                *)
(***************************************************************************)
EXTENDS Integers, Sequences, FiniteSets, ReplayFixtures, ReplayScoring

\* _path_fields: the hash always, the path itself where it is allowed.
PathFields(field, allowed) ==
    {<<field, "hash">>}
    \union (IF "file_path" \in allowed THEN {<<field, "file_path">>} ELSE {})

\* _replacement_entry: what was to be replaced is code.
ReplacementEntry(allowed) ==
    PathFields("expected_replacements", allowed)
    \union {<<"expected_replacements", "metric">>}
    \union (IF "code_snippet" \in allowed
            THEN {<<"expected_replacements", "code_snippet">>} ELSE {})

\* _check_entry
CheckEntry(allowed) ==
    PathFields("fixture_checks", allowed) \union {<<"fixture_checks", "metric">>}

\* _file_entry, made only where the structure of the diff is allowed.
FileEntry(allowed) ==
    PathFields("answer_files", allowed) \union {<<"answer_files", "diff_structure">>}

\* _metrics_payload and the counts: no code in them.
MetricsPayload == {<<"metrics", "metric">>, <<"counts", "count">>,
                   <<"failure_kind", "metric">>, <<"golden_result", "metric">>}

\* _case_payload: every field that shows code is put in where its kind is allowed,
\* none is taken out again.
CasePayload(o, allowed) ==
    MetricsPayload
    \union (IF o.expected = <<>> THEN {} ELSE ReplacementEntry(allowed))
    \union (IF o.checks = <<>> THEN {} ELSE CheckEntry(allowed))
    \union (IF o.retrieved = <<>> THEN {} ELSE PathFields("retrieved", allowed))
    \union (IF "diff_structure" \notin allowed THEN {}
            ELSE (IF UNION {o.answer[part] : part \in DOMAIN o.answer} = {} THEN {}
                  ELSE FileEntry(allowed))
                 \union (IF o.files = {} THEN {}
                         ELSE PathFields("generated_files", allowed)))
    \union (IF "diff_body" \in allowed
            THEN {<<"generated_diff", "diff_body">>, <<"answer_diff", "diff_body">>}
            ELSE {})
    \union (IF "golden_output" \in allowed /\ o.golden # "none"
            THEN {<<"golden_output", "golden_output">>} ELSE {})

\* summarize: the counts of it; the means are left out.
Summarize(outcomes) ==
    LET Count(Test(_)) == Cardinality({i \in 1..Len(outcomes) : Test(outcomes[i])})
    IN  [case_count |-> Len(outcomes),
         passed_count |-> Count(LAMBDA o : ComputeMetrics(o).passed),
         apply_ok_count |-> Count(LAMBDA o : o.applyOk = "yes"),
         golden_passed_count |-> Count(LAMBDA o : o.golden = "passed")]

\* build_report
BuildReport(outcomes, mode) ==
    [privacy_mode |-> mode,
     summary |-> Summarize(outcomes),
     cases |-> [i \in 1..Len(outcomes) |->
                    [case_id |-> outcomes[i].case_id,
                     failure |-> outcomes[i].failure,
                     passed |-> ComputeMetrics(outcomes[i]).passed,
                     stored |-> CasePayload(outcomes[i], AllowedArtifacts(mode))]]]

\* _render_markdown: one line of numbers for each case, nothing of the code.
RenderMarkdown(report) ==
    [summary |-> report.summary,
     lines |-> [i \in 1..Len(report.cases) |->
                    [case_id |-> report.cases[i].case_id,
                     passed |-> report.cases[i].passed]]]

\* The files of write_report, in the order in which they are written.
ReportFiles == <<"replay_report.json", "replay_report.md", "environment.json">>

\* environment.json: written in every mode, without a path or a value of a variable.
Environment(outcomes, mode, overridden) ==
    [privacy_mode |-> mode, case_count |-> Len(outcomes),
     privacy_mode_source |-> IF overridden THEN "override" ELSE "fixture_strictest"]

\* What is in a file once it is written.
FileContent(name, outcomes, mode, overridden) ==
    LET report == BuildReport(outcomes, mode)
    IN  CASE name = "replay_report.json" -> report
          [] name = "replay_report.md" -> RenderMarkdown(report)
          [] OTHER -> Environment(outcomes, mode, overridden)
=============================================================================
