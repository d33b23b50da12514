SPECIFICATION Spec
CONSTANTS
    r1 = r1  r2 = r2  a = a  u = u  j1 = j1  w1 = w1  meta = meta
    Requests = {r1, r2}
    MaxBatch = 2
    Batches <- Mixed
    Ids = {a}
    FreshIds = {u}
    Workers = {}
    Jobs = {j1}
    Platforms = {meta}
    GoogleAds = None
    WithGclid = {}
    Edited = {}
    MaxAttempts = 1
    MaxStalls = 0
    None = None
SYMMETRY Symmetry
INVARIANTS OneFirstPass ForwardedIsStored StoredInBatchOrder AcceptedIsForwarded
PROPERTIES StoreSpec ForwardingSpec
CHECK_DEADLOCK FALSE
