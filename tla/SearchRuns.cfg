\* Builders that are killed and raise; searches over what they left; a document
\* that is uploaded and deleted.
CONSTANTS
    Files <- MCFiles
    MaxChunks = 2
    Sizes <- MCSizes
    Batch = 2
    Uploads = {0, 1, 2}
    Budgets <- MCBudgets
    Symbols <- MCSymbols
    Similarity <- MCSimilarity
    Codes <- MCCodes
    Values <- MCValues
    QueryTypes = {"rate_change", "value_change", "structural_change"}
    Decisions <- MCDecisions
    Reranks = TRUE
    TopK = 2
SPECIFICATION Spec
INVARIANTS TypeOK CachedFilesAreWhole ResumeLeavesNoHole UploadedDocIsWhole DraftRestsOnLiveCode VerifiedRanksFirst
CHECK_DEADLOCK FALSE
