\* The search of administrative rules fails once.
CONSTANTS
    Items = {a1, b1}
    Rules = {b1}
    Laws = {{a1}, {b1}}
    Crowded = {}
    Collectors = {t1}
    None = None
    Serial = TRUE
    MayCrash = FALSE
    RulesRefused = TRUE
    ApiFails = FALSE
    LastTick = 4
    MaxRows = 4
SPECIFICATION Spec
PROPERTIES NothingMissed
