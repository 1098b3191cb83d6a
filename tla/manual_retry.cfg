\* A synchronous plugin and one worker: the owner's retry of a failed job, leases that expire under
\* their holder, and every failure and other act of a user between.
SPECIFICATION Spec

CONSTANTS
    w1 = w1
    w2 = w2
    Workers = {w1}
    NoWorker = NoWorker
    Synchronous = TRUE
    MaxSubmitAttempts = 2
    MaxAttempt = 3
    MaxRev = 7
    Allowed = {"retry", "expiry", "cancel", "fault", "crash", "duplicate", "denial", "delete", "delete_user"}
    Budget = 2

INVARIANTS
    ReleasedWhenTerminal

PROPERTIES
    TerminalStatusFinal

\* A job that has ended leaves nothing to do.
CHECK_DEADLOCK FALSE
