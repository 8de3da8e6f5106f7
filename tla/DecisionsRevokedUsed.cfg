\* One operator verifies and revokes a mapping of high confidence.
CONSTANTS
    Mappings = {m1}
    Locations = {l1}
    Confident = {l1}
    Requests = {r1}
    None = None
    Serial = TRUE
    MayCrash = FALSE
    ClockStepsBack = FALSE
    MaxClock = 1
    MaxDecisions = 3
SPECIFICATION Spec
INVARIANTS RevokedNotUsed
