\* A cancellation ends an asynchronous job that its provider never finishes.
SPECIFICATION FairSpec

CONSTANTS
    w1 = w1
    w2 = w2
    Workers = {w1}
    NoWorker = NoWorker
    Synchronous = FALSE
    MaxSubmitAttempts = 2
    MaxAttempt = 2
    MaxRev = 5
    Allowed = {"cancel", "crash"}
    Budget = 2

PROPERTIES
    CancelEnds

\* A job that has ended leaves nothing to do.
CHECK_DEADLOCK FALSE
