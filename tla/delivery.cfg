\* One event, two workers that dispatch and consume, and one crash, refused call or thrown job.
SPECIFICATION Spec

CONSTANTS
    Events = {e1}
    Consumers = {w1, w2}
    Dispatchers = {w1, w2}
    BatchSize = 2
    MaxFaults = 1

PROPERTIES
    ImplementsAtLeastOnce

\* A stream whose messages are all acknowledged blocks.
CHECK_DEADLOCK FALSE
