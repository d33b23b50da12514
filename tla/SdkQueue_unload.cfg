SPECIFICATION Spec
CONSTANTS
    t1 = t1  t2 = t2  e1 = e1  e2 = e2
    Loads = {t1, t2}
    Events = {e1, e2}
    BatchMaxSize = 2
    MaxAttempts = 1
    MaxOutages = 0
INVARIANT UnloadFlushes
CHECK_DEADLOCK FALSE
