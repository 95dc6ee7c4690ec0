\* One reconciliation process run again and again, every fault.
CONSTANTS
    Subs = {s1}
    Legacy = {old}
    Reconcilers = {p1}
    Intake = Intake
    NoSub = NoSub
    MaxNow = 0
    Faults = {"api", "crash"}
SPECIFICATION FairSpec
PROPERTIES UploadedIsQueued
