\* One worker whose only trouble is that result rows cannot be appended.
CONSTANTS
    Jobs = {j1}
    Workers = {w1}
    Runs = {r1, r2, r3, r4}
    NoJob = NoJob
    NoWorker = NoWorker
    NoRun = NoRun
    MaxAttempts = 3
    Lease = 1
    ShortDelay = 1
    LongDelay = 2
    Faults = {"persist"}
SPECIFICATION FairSpec
PROPERTY EveryJobTerminates
