\* An audit write waits too long for the lock.
CONSTANTS
    WritesFail = TRUE
    CallsFail = FALSE
    FilesFail = FALSE
    MayCrash = FALSE
SPECIFICATION Spec
INVARIANTS AuditSparesAnswer
CHECK_DEADLOCK FALSE
