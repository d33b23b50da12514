SPECIFICATION MCSpec
CONSTANTS
    r1 = r1
    Runs = {r1}
    Dtos <- SomeDtos
    MaxMiddlewares = 2
    MaxMeddling = 1
    MaxChanges = 1
INVARIANTS StageRunsOnce OnlyStoredGoesOut AcceptedWentThrough RejectedForCause
CHECK_DEADLOCK FALSE
