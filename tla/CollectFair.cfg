\* The scheduler alone, nothing fails: every publication gets its text.
CONSTANTS
    Items = {a1, a2, b1, b2}
    Rules = {b1, b2}
    Laws = {{a1, a2}, {b1}, {b2}}
    Crowded = {{b2}}
    Collectors = {t1}
    None = None
    Serial = TRUE
    MayCrash = FALSE
    RulesRefused = FALSE
    ApiFails = FALSE
    LastTick = 2
    MaxRows = 4
SPECIFICATION FairSpec
INVARIANTS OneRowPerItem TextFollows
PROPERTIES NothingMissed Collected
