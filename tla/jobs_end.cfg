\* Liveness of a synchronous job whose worker does not crash.
SPECIFICATION FairSpec

CONSTANTS
    w1 = w1
    w2 = w2
    Workers = {w1}
    NoWorker = NoWorker
    Synchronous = TRUE
    MaxSubmitAttempts = 3
    MaxAttempt = 3
    MaxRev = 7
    Allowed = {"cancel", "delete", "delete_user", "duplicate"}
    Budget = 1

PROPERTIES
    JobEnds

\* A job that has ended leaves nothing to do.
CHECK_DEADLOCK FALSE
