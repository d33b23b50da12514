SPECIFICATION Spec
CONSTANTS
    t1 = t1  t2 = t2  e1 = e1  e2 = e2
    Loads = {t1, t2}
    Events = {e1}
    BatchMaxSize = 1
    MaxAttempts = 1
    MaxOutages = 0
PROPERTY OfflineRecovered
CHECK_DEADLOCK FALSE
