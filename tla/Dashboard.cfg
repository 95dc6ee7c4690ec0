\* One reader next to intake, a reviewer and one worker under every fault,
\* and every archive.
CONSTANTS
    Jobs = {j1}
    Workers = {w1}
    Runs = {r1, r2}
    NoJob = NoJob
    NoWorker = NoWorker
    NoRun = NoRun
    NoRow = NoRow
    MaxAttempts = 2
    Lease = 1
    ShortDelay = 1
    LongDelay = 1
    Faults = {"parser", "persist", "resolver", "enrich", "log", "api", "crash", "slow"}
SPECIFICATION MCSpec
SYMMETRY RunSymmetry
INVARIANTS ReaderTypeOK TornOnlyByRace EndShown LayersAgree HealthIsMatrix OpsOfOneRow
PROPERTIES OutputStays
