--------------------------- MODULE ReplayFixtures ---------------------------
(***************************************************************************)
(* app/evaluation/replay/fixture.py, loader.py: the fixtures of the replay *)
(* and what the loader refuses.  A file is taken whole or not at all: the  *)
(* errors of all its cases are collected, and one is enough to refuse it.  *)
(*                                                                         *)
(* A path is a sequence of segments ("" in front of an absolute one); a    *)
(* golden command is a sequence of arguments as in GitCommands, with       *)
(* <<>> for none.                                                          *)
(***************************************************************************)
EXTENDS Integers, Sequences, GitCommands

CONSTANTS
    DashRevisions,   \* the revisions that begin with "-"
    RangeRevisions,  \* those that contain ".."
    OddRevisions,    \* those with a character outside A-Za-z0-9._/-
    EnvNames         \* the names of the form [A-Z][A-Z0-9_]*

PrivacyMode == {"full", "redacted", "metadata_only"}

ArtifactKind ==
    {"diff_body", "diff_structure", "file_path", "code_snippet",
     "golden_output", "metric", "hash", "count"}

SafeAlways == {"metric", "hash", "count"}

\* _ALLOWED_ARTIFACTS: a list of what may be stored, never of what may not.
AllowedArtifacts(mode) ==
    CASE mode = "full" -> ArtifactKind
      [] mode = "redacted" -> SafeAlways \union {"diff_structure", "file_path"}
      [] OTHER -> SafeAlways

Strictness == [full |-> 0, redacted |-> 1, metadata_only |-> 2]

\* Mutant: the loosest mode wins.
LoosestPrivacyMode(modes) ==
    IF modes = {} THEN "metadata_only"
    ELSE CHOOSE mode \in modes :
            \A other \in modes : Strictness[mode] <= Strictness[other]

\* One report holds every case, so the strictest mode among them wins.
StrictestPrivacyMode(modes) ==
    IF modes = {} THEN "metadata_only"
    ELSE CHOOSE mode \in modes :
            \A other \in modes : Strictness[other] <= Strictness[mode]

-----------------------------------------------------------------------------
(* What is wrong with a case: a set of the names of its errors *)

Error(holds, name) == IF holds THEN {name} ELSE {}

\* _check_relative_path
PathErrors(path) ==
    IF path = <<>> THEN {"path empty"}
    ELSE Error(path[1] = "", "path absolute")
         \union Error(\E i \in 1..Len(path) : path[i] = "..", "path escapes")

\* _check_revision
RevisionErrors(rev) ==
    IF rev = "" THEN {"revision missing"}
    ELSE IF rev \in DashRevisions THEN {"revision begins with a dash"}
    ELSE Error(rev \in RangeRevisions, "revision is a range")
         \union Error(rev \in OddRevisions, "revision has odd characters")

\* _check_golden_command: only the program; its arguments wait for the call.
GoldenErrors(tokens) ==
    Error(tokens # <<>> /\ tokens[1][1] \notin GoldenAllowlist, "golden refused")

\* _parse_law
LawErrors(raw) == Error(raw.law = "", "law_name missing")

\* _parse_repository: either a path of the project or the name of a variable.
RepositoryErrors(raw) ==
    Error(raw.source_type # "local_git", "source_type")
    \union Error((raw.path # <<>>) = (raw.path_env # ""), "path XOR path_env")
    \union (IF raw.path = <<>> THEN {} ELSE PathErrors(raw.path))
    \union Error(raw.path_env # "" /\ raw.path_env \notin EnvNames, "path_env")
    \union RevisionErrors(raw.base) \union RevisionErrors(raw.answer)

\* _parse_scope: the same entry on both lists is an error, a directory of one
\* above an entry of the other is not.
ScopeErrors(raw) ==
    UNION {PathErrors(p) : p \in raw.relevant \union raw.excluded}
    \union Error(raw.relevant \intersect raw.excluded # {}, "relevant and excluded")
    \union UNION {PathErrors(raw.expected[i].path) : i \in 1..Len(raw.expected)}
    \union Error(\E i \in 1..Len(raw.expected) :
                    raw.expected[i].match_mode \notin {"exact", "normalized_text"},
                 "match_mode")

MinTimeout == 1
MaxTimeout == 3600

\* _parse_execution
ExecutionErrors(raw) ==
    Error(raw.privacy_mode \notin PrivacyMode, "privacy_mode")
    \union Error(raw.timeout \notin MinTimeout..MaxTimeout, "timeout_seconds")
    \union GoldenErrors(raw.golden)

\* _validate_paths: only where it was asked for, and only for a project path.
MissingErrors(raw, checkPaths, existing) ==
    Error(checkPaths /\ raw.path # <<>> /\ raw.path \notin existing, "no such path")

\* _parse_fixture, with all that it collects.
CaseErrors(raw) ==
    Error(raw.case_id = "", "case_id missing")
    \union LawErrors(raw) \union RepositoryErrors(raw)
    \union ScopeErrors(raw) \union ExecutionErrors(raw)

\* _load_and_validate
LoadErrors(raws, checkPaths, existing) ==
    UNION {CaseErrors(raws[i])
           \union MissingErrors(raws[i], checkPaths, existing)
           \union Error(raws[i].schema_version # "1", "schema_version")
           \union Error(\E j \in 1..(i - 1) : raws[j].case_id = raws[i].case_id,
                        "duplicate case_id")
              : i \in 1..Len(raws)}

\* load_yaml: a list of cases, or one case on its own; anything else is refused.
LoadYaml(file) ==
    CASE file.form = "list" -> [errors |-> LoadErrors(file.cases, FALSE, {}),
                                fixtures |-> file.cases]
      [] file.form = "single" -> [errors |-> LoadErrors(<<file.case>>, FALSE, {}),
                                  fixtures |-> <<file.case>>]
      [] OTHER -> [errors |-> {"no cases"}, fixtures |-> <<>>]

Loaded(file) == LoadYaml(file).errors = {}
=============================================================================
