\* One worker, every failure it handles itself except result persistence.
CONSTANTS
    Jobs = {j1, j2}
    Workers = {w1}
    Runs = {r1, r2, r3, r4, r5}
    NoJob = NoJob
    NoWorker = NoWorker
    NoRun = NoRun
    MaxAttempts = 2
    Lease = 1
    ShortDelay = 1
    LongDelay = 2
    Faults = {"parser", "resolver", "enrich"}
SPECIFICATION FairSpec
PROPERTY EveryJobTerminates
