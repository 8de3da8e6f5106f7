------------------------------ MODULE MCReplay ------------------------------
(***************************************************************************)
(* Fixture files, commits and drafts for Replay: two fixtures of unequal   *)
(* privacy in one file, the same case with an older base in another, one   *)
(* whose answer touches a file that is not UTF-8, one whose commit is      *)
(* missing, an empty one, and two that the loader refuses.                 *)
(***************************************************************************)
EXTENDS Replay

Tax == <<"src", "Tax.java">>
Wage == <<"src", "Wage.java">>
Build == <<"target", "classes", "Tax.class">>

MCSqueezed == [s \in {"", "10%", "12%", " 12%", "15%", "bytes", "class"} |->
                  IF s = " 12%" THEN "12%" ELSE s]

MCCommits == [older  |-> Tax :> {"10%"},
              base   |-> (Tax :> {"12%"}) @@ (Wage :> {"12%"}),
              answer |-> (Tax :> {"15%"}) @@ (Wage :> {"10%"}),
              legacy |-> (Tax :> {"15%", "bytes"}) @@ (Wage :> {"12%"})]
MCEdited == (Tax :> {"15%"}) @@ (Wage :> {"12%"})

Rate15 == [path |-> <<".", "src", "Tax.java">>, before |-> " 12%", after |-> "15%",
           match_mode |-> "normalized_text"]
Exact15 == [Rate15 EXCEPT !.before = "12%", !.match_mode = "exact"]

CaseA == [case_id |-> "A", law |-> "tax", source_type |-> "local_git",
          path |-> <<"repo">>, path_env |-> "", base |-> "base", answer |-> "answer",
          relevant |-> {<<"src">>}, excluded |-> {Wage}, expected |-> <<Exact15>>,
          privacy_mode |-> "redacted", timeout |-> 60, golden |-> <<<<"mvn">>>>,
          schema_version |-> "1"]
CaseB == [CaseA EXCEPT !.case_id = "B", !.path = <<>>, !.path_env = "REPO",
                       !.excluded = {}, !.expected = <<>>, !.golden = <<>>,
                       !.privacy_mode = "full"]
Older == [CaseA EXCEPT !.base = "older", !.expected = <<Rate15>>]
Gone == [CaseB EXCEPT !.answer = "gone"]
Legacy == [CaseB EXCEPT !.answer = "legacy"]
Dash == [CaseA EXCEPT !.base = "-o"]
BadMaven == [CaseA EXCEPT !.golden = <<<<"sh">>, <<"-c">>>>]

MCFixtureFiles ==
    {[form |-> "list", cases |-> <<CaseA, CaseB>>],
     [form |-> "single", case |-> Older],
     [form |-> "list", cases |-> <<>>],
     [form |-> "list", cases |-> <<Gone>>],
     [form |-> "single", case |-> Legacy],
     [form |-> "list", cases |-> <<CaseA, BadMaven>>],
     [form |-> "single", case |-> Dash]}

MCDrafts == {[fits |-> TRUE, edits |-> (Tax :> {"15%"}) @@ (Wage :> {"10%"})],
             [fits |-> FALSE, edits |-> Wage :> {"15%"}]}
MCGoldenWrites == {Build :> {"class"}}
=============================================================================
