\* The scheduler and a request collect at the same time; two amendments of a law, crashes, lock timeouts, midnights and failing calls.
CONSTANTS
    Items = {a1, a2, b1}
    Rules = {b1}
    Laws = {{a1, a2}, {b1}}
    Crowded = {}
    Collectors = {t1, t2}
    None = None
    Serial = FALSE
    MayCrash = TRUE
    RulesRefused = TRUE
    ApiFails = TRUE
    LastTick = 2
    MaxRows = 3
SPECIFICATION Spec
SYMMETRY Symmetry
INVARIANTS TypeOK
PROPERTIES LawsNotMissed
