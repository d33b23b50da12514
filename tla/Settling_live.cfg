SPECIFICATION AllSpec
CONSTANTS
    c1 = c1  w1 = w1  j1 = j1  e1 = e1  e2 = e2  google = google
    Callers = {c1}
    Workers = {w1}
    Jobs = {j1}
    Events = {e1, e2}
    Platforms = {google}
    GoogleAds = google
    WithGclid = {e1}
    Edited = {google}
    MaxAttempts = 2
    MaxStalls = 1
    None = None
    t1 = t1  p1 = p1  p2 = p2
    Loads = {t1}
    Tracked = {p1, p2}
    BatchMaxSize = 2
    MaxRetries = 1
    MaxOutages = 1
    r1 = r1  r2 = r2  v1 = v1  s1 = s1  s2 = s2
    Requests = {r1, r2}
    Visitors = {v1}
    SessionIds = {s1, s2}
    Reply = {"ok", "refused"}
PROPERTIES EveryRowSettles EveryEventSettles OutageNeverSurfaces
CHECK_DEADLOCK FALSE
