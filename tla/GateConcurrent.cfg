\* Two requests at a time, edits of the files in place, refused patches, crashes.
CONSTANTS
    Changes = {c1, c2}
    Proposals = {p1, p2}
    Files = {f1, f2}
    Requests = {r1, r2}
    None = None
    Adapter = "real"
    Serial = FALSE
    MayCrash = TRUE
SPECIFICATION Spec
SYMMETRY Symmetry
INVARIANTS TypeOK PendingHasDraft
PROPERTIES SettledIsFinal
