SPECIFICATION FairSpec
CONSTANTS
    s1 = s1
    s2 = s2
    Subs = {s1, s2}
    NoSub = NoSub
    Files = {1, 2, 3}
    NoFile = NoFile
    Lost = Lost
    Paths = {p1}
    None = None
    Torn = Torn
    Cutoffs = {1}
    NoCutoff = NoCutoff
    Contents <- Alternating
    Strays = {}
    Faults = {"api", "disk", "crash"}
PROPERTIES EveryDeletionFinishes
CHECK_DEADLOCK FALSE
