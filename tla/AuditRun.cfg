\* Any write, call or file may fail, and the server may stop.
CONSTANTS
    WritesFail = TRUE
    CallsFail = TRUE
    FilesFail = TRUE
    MayCrash = TRUE
SPECIFICATION Spec
INVARIANTS TypeOK NoHole AnswerIsHonest CompletedIsStored ManifestVerifies
CHECK_DEADLOCK FALSE
