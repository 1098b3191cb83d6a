\* A failed import and a repeated message lead to a second submission.
SPECIFICATION Spec

CONSTANTS
    w1 = w1
    w2 = w2
    Workers = {w1}
    NoWorker = NoWorker
    Synchronous = TRUE
    MaxSubmitAttempts = 2
    MaxAttempt = 2
    MaxRev = 6
    Allowed = {"fault", "duplicate"}
    Budget = 2

INVARIANTS
    NoBlindResubmit

\* A job that has ended leaves nothing to do.
CHECK_DEADLOCK FALSE
