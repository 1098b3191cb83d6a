\* An asynchronous plugin and two worker processes.
SPECIFICATION Spec

CONSTANTS
    w1 = w1
    w2 = w2
    Workers = {w1, w2}
    NoWorker = NoWorker
    Synchronous = FALSE
    MaxSubmitAttempts = 2
    MaxAttempt = 2
    MaxRev = 4
    Allowed = {"crash", "duplicate", "fault", "denial", "cancel", "delete", "delete_user"}
    Budget = 2

INVARIANTS
    TypeOK
    SingleLiveRun
    NoBlindResubmit
    SucceededHasMedia
    SuccessNotOverruled

PROPERTIES
    TerminalRunFinal

SYMMETRY Symmetry

\* A job that has ended leaves nothing to do.
CHECK_DEADLOCK FALSE
