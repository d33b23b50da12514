SPECIFICATION Spec
CONSTANTS
    t1 = t1  t2 = t2  v1 = v1  v2 = v2  s1 = s1  s2 = s2  s3 = s3  e1 = e1  e2 = e2
    Tabs = {t1}
    VisitorIds = {v1}
    SessionIds = {s1, s2, s3}
    Events = {e1, e2}
    MaxLoads = 1
    MaxMishaps = 0
    None = None
INVARIANT SameSessionId
CHECK_DEADLOCK FALSE
