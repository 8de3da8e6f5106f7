\* One decision or map at a time, crashes and restarts.
CONSTANTS
    Mappings = {m1, m2}
    Locations = {l1, l2}
    Confident = {l1}
    Requests = {r1}
    None = None
    Serial = TRUE
    MayCrash = TRUE
    ClockStepsBack = FALSE
    MaxClock = 1
    MaxDecisions = 3
SPECIFICATION Spec
SYMMETRY Symmetry
INVARIANTS TypeOK CacheConsistent OneRowPerPlace PersonDecides
PROPERTIES DecisionTakesEffect
