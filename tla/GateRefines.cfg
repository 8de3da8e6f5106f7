\* One request at a time, patch files, no crash: the code is the abstract gate.
CONSTANTS
    Changes = {c1, c2}
    Proposals = {p1, p2}
    Files = {f1}
    Requests = {r1, r2}
    None = None
    Adapter = "mock"
    Serial = TRUE
    MayCrash = FALSE
SPECIFICATION FairSpec
INVARIANTS ApprovedIsOnDisk RejectedLeavesNoPatch
PROPERTIES GateSpec ApproveClickSettles
