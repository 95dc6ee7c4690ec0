CONSTANTS
    Jobs = {j1}
    Workers = {w1, w2}
    Runs = {r1, r2, r3, r4}
    NoJob = NoJob
    NoWorker = NoWorker
    NoRun = NoRun
    MaxAttempts = 2
    Lease = 1
    ShortDelay = 1
    LongDelay = 1
    Faults = {"parser", "persist", "resolver", "api", "crash", "slow"}
SYMMETRY AllSymmetry
SPECIFICATION Spec
INVARIANTS TypeOK AuthorityBacked FailureEvidenceConsistent
