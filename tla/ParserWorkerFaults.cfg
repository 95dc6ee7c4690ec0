\* One worker under every fault: safety, the abstract lifecycle, and no job left behind.
CONSTANTS
    Jobs = {j1}
    Workers = {w1}
    Runs = {r1, r2, r3, r4}
    NoJob = NoJob
    NoWorker = NoWorker
    NoRun = NoRun
    MaxAttempts = 3
    Lease = 2
    ShortDelay = 1
    LongDelay = 2
    Faults = {"parser", "persist", "resolver", "enrich", "log", "api", "crash", "slow"}
SPECIFICATION FairSpec
INVARIANTS AttemptBudget
PROPERTIES TerminalIsFinal NoStolenLease ImplementsLifecycle EveryJobSettles
