SPECIFICATION FairSpec
CONSTANTS
    Subs = {s1}
    Requests = {t1, t2}
    NoReq = NoReq
    New = new
    Statuses = {new, seen}
    Blank = blank
    Texts = {blank, text}
    Omit = omit
    NoRecord = NoRecord
    MaxNow = 0
    Faults = {"api", "log", "crash"}
PROPERTY EveryCallAnswered
CHECK_DEADLOCK FALSE
