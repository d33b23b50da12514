SPECIFICATION MCSpec
CONSTANTS
    c1 = c1  c2 = c2  w1 = w1  w2 = w2  j1 = j1  j2 = j2  e1 = e1  e2 = e2
    meta = meta  google = google
    Callers = {c1, c2}
    Workers = {w1, w2}
    Jobs = {j1, j2}
    Events = {e1}
    Platforms = {google}
    GoogleAds = google
    WithGclid = {e1}
    Edited = {google}
    MaxAttempts = 2
    MaxStalls = 1
    None = None
SYMMETRY Symmetry
INVARIANTS RowCoherent NoSilentStrand SendsAccounted
CHECK_DEADLOCK FALSE
