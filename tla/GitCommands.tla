---------------------------- MODULE GitCommands ----------------------------
(***************************************************************************)
(* app/evaluation/replay/git_cmd.py, golden_exec.py: the only two ways in  *)
(* which the replay starts another program.  Each refuses what is not on   *)
(* its list before anything runs, and gives back what came of the call.    *)
(*                                                                         *)
(* An argument is a tuple: <<"--output">> for a word of its own,           *)
(* <<"--rootdir", path>> for name=path, <<"", path>> for a path.  A path is *)
(* a sequence of segments, "" in front of an absolute one.                 *)
(***************************************************************************)
EXTENDS Naturals, Sequences

AllowedSubcommands ==
    {"rev-parse", "cat-file", "diff", "show", "worktree", "status", "apply"}

AllowedWorktreeActions == {"add", "remove", "prune"}

\* What points git at another configuration, repository or output.
ForbiddenArgs ==
    {"-c", "--exec-path", "--upload-pack", "--receive-pack", "-C", "--git-dir",
     "--work-tree", "--namespace", "--output", "-o"}

\* What lets apply leave the working tree.
ForbiddenApplyArgs ==
    {"--index", "--cached", "-3", "--3way", "--directory", "--unsafe-paths"}

\* _matches: the option itself or name=..., never a part of a longer name.
Matches(token, name) == token[1] = name

\* _check_forbidden
NoneForbidden(args, names) ==
    \A i \in 1..Len(args) : \A name \in names : ~Matches(args[i], name)

\* validate_git_args
ValidGit(args) ==
    /\ args # <<>>
    /\ args[1][1] \in AllowedSubcommands
    /\ NoneForbidden(Tail(args), ForbiddenArgs)
    /\ args[1][1] = "worktree" =>
        /\ Len(args) > 1
        /\ args[2][1] \in AllowedWorktreeActions
    /\ args[1][1] = "apply" => NoneForbidden(Tail(args), ForbiddenApplyArgs)

\* What may come of a call that is allowed: it does not run or does not end in time
\* (a directory or a program that is missing), or it ends, well or not.
Ends == {"norun", "nonzero", "ok"}

\* run_git: with check, a nonzero end is an error too.
RunGit(args, end, check) ==
    IF ~ValidGit(args) THEN "refused"
    ELSE IF end = "nonzero" /\ check THEN "failed"
    ELSE end

\* The calls, each the arguments of one.
InsideWorkTree == <<<<"rev-parse">>, <<"--is-inside-work-tree">>>>
Status == <<<<"status">>, <<"--porcelain">>>>
RevParse == <<<<"rev-parse">>, <<"--verify">>, <<"rev^{commit}">>>>
WorktreeAdd(rev) == <<<<"worktree">>, <<"add">>, <<"--detach">>, <<"work">>, <<rev>>>>
WorktreeRemove == <<<<"worktree">>, <<"remove">>, <<"--force">>, <<"work">>>>
WorktreePrune == <<<<"worktree">>, <<"prune">>>>
ApplyCheck == <<<<"apply">>, <<"--check">>, <<"patch">>>>
Apply == <<<<"apply">>, <<"patch">>>>
DiffNames(base, answer) ==
    <<<<"diff">>, <<"--name-status">>, <<"-z">>, <<base>>, <<answer>>>>
DiffText(base, answer) == <<<<"diff">>, <<base>>, <<answer>>>>
ShowFile == <<<<"show">>, <<"rev:path">>>>

-----------------------------------------------------------------------------
(* The golden tests of a fixture *)

GoldenAllowlist == {"mvn", "gradle", "./gradlew", "pytest"}

\* Options that make the tool build or collect something else.
ForbiddenGoldenArgs ==
    {"-f", "--file", "-p", "--plugin", "-C", "--project-dir", "--rootdir",
     "-b", "--build-file", "--settings", "-s"}

\* _path_like_parts, _has_parent_escape: the value of name=value counts too.
LeavesWorktree(token) ==
    /\ Len(token) = 2
    /\ token[2] # <<>>
    /\ \/ token[2][1] = ""
       \/ \E i \in 1..Len(token[2]) : token[2][i] = ".."

\* validate_golden_args
ValidGolden(tokens) ==
    /\ tokens # <<>>
    /\ tokens[1][1] \in GoldenAllowlist
    /\ NoneForbidden(Tail(tokens), ForbiddenGoldenArgs)
    /\ \A i \in 2..Len(tokens) : ~LeavesWorktree(tokens[i])

\* What may come of the tests: the exit code, or no result (a timeout, a tool
\* that is missing).
GoldenEnds == {"zero", "nonzero", "noresult"}

\* run_golden: never raises; an empty command is skipped, and what is refused or
\* gives no result is an error.
RunGolden(tokens, end) ==
    IF tokens = <<>> THEN "skipped"
    ELSE IF ~ValidGolden(tokens) THEN "error"
    ELSE CASE end = "zero" -> "passed"
           [] end = "nonzero" -> "failed"
           [] OTHER -> "error"
=============================================================================
