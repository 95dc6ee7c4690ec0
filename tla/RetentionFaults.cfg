SPECIFICATION Spec
CONSTANTS
    s1 = s1
    s2 = s2
    Subs = {s1, s2}
    NoSub = NoSub
    Files = {1, 2, 3, 4}
    NoFile = NoFile
    Lost = Lost
    Paths = {p1, p2}
    None = None
    Torn = Torn
    Cutoffs = {1, 2}
    NoCutoff = NoCutoff
    Contents <- Both
    Strays = {4}
    Faults = {"api", "disk", "crash"}
INVARIANTS TypeOK ReceiptHonest OneUnaccounted
PROPERTIES FileBeforeRow OthersUntouched ScopeKept HistoryCounted
CHECK_DEADLOCK FALSE
