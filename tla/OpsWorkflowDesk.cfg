SPECIFICATION Spec
CONSTANTS
    Subs = {s1}
    Requests = {t1, t2, t3}
    NoReq = NoReq
    New = new
    Statuses = {new, seen}
    Blank = blank
    Texts = {blank, text}
    Omit = omit
    NoRecord = NoRecord
    MaxNow = 1
    Faults = {"api", "crash"}
SYMMETRY RequestSymmetry
INVARIANTS TypeOK OneOpsRow CopiesFresh EventsReplay
PROPERTIES PurposeSpan ImplementsDesk
CHECK_DEADLOCK FALSE
