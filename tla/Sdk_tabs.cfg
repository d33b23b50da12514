SPECIFICATION AllSpec
CONSTANTS
    t1 = t1  t2 = t2  e1 = e1  e2 = e2
    Tracked = {p1, p2}
    BatchMaxSize = 2
    MaxAttempts = 1
    MaxOutages = 0
    Tabs = {t1, t2}
    v1 = v1  v2 = v2  s1 = s1  s2 = s2  s3 = s3  p1 = p1  p2 = p2
    VisitorIds = {v1, v2}
    SessionIds = {s1, s2, s3}
    Events = {e1, e2}
    MaxLoads = 2
    MaxMishaps = 2
    None = None
INVARIANTS SdkTypeOK BatchesFit OneVisitor ToldIdsMatch
PROPERTY NothingDropped
SYMMETRY Symmetry
CHECK_DEADLOCK FALSE
