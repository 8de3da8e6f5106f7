\* Two runs of the command, every pipeline; two faults: kills, edits of the original,
\* calls that fail.
CONSTANTS
    Squeezed <- MCSqueezed
    Undecodable = "bytes"
    DashRevisions = {"-o"}
    RangeRevisions = {"a..b"}
    OddRevisions = {"a b"}
    EnvNames = {"REPO"}
    Commits <- MCCommits
    CheckedOut = "answer"
    Edited <- MCEdited
    FixtureFiles <- MCFixtureFiles
    Drafts <- MCDrafts
    GoldenWrites <- MCGoldenWrites
    Pipelines = {"perfect", "partial", "empty", "real"}
    TopK = 1
    Harvested = {"locations"}
    MaxRuns = 2
    MaxFaults = 2
SPECIFICATION Spec
INVARIANTS TypeOK PassedIsEarned ReportIsPrivate NoLookAhead
PROPERTY CleanCaseLeavesNothing
CHECK_DEADLOCK FALSE
