\* Two workers, three jobs, limits 1 and 2: nobody is admitted above the limit,
\* and everybody is admitted in the end.
SPECIFICATION FairSpec

CONSTANTS
    w1 = w1
    w2 = w2
    t1 = t1
    t2 = t2
    t3 = t3
    Workers = {w1, w2}
    NoWorker = NoWorker
    Tokens = {t1, t2, t3}
    NoToken = NoToken
    Limits = {1, 2}
    MaxRev = 3

PROPERTIES
    ImplementsSemaphore
    EveryJobServed
