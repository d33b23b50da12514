SPECIFICATION AllSpec
CONSTANTS
    c1 = c1  c2 = c2  c3 = c3  c4 = c4  r1 = r1  r2 = r2  r3 = r3
    v1 = v1  v2 = v2  s1 = s1  s2 = s2  s3 = s3  source = source  gclid = gclid
    None = None
    Calls = {c1, c2, c3, c4}
    FailureThreshold = 2
    ResetTimeout = 2
    MaxTime = 5
    Requests = {r1, r2, r3}
    Visitors = {v1, v2}
    SessionIds = {s1, s2, s3}
    Touching = {c1, c2, c3}
    Fields = {source, gclid}
    Reply = {"ok", "lost", "refused"}
    Sends = {c1, c2, c3}
    Lifetime = 4
    Margin = 2
    Timeout = 1
    MaxTokenTime = 8
INVARIANTS VolatileTypeOK FieldsAgree SessionsArePrivate KeysExpire SessionsNotOvercounted FirstVisitsKept NewestTouchStays TokensValid
PROPERTY RefusesExactlyWhileHot
SYMMETRY Symmetry
CHECK_DEADLOCK FALSE
