\* Two overlapping reconciliations against a live intake, every fault.
CONSTANTS
    Subs = {s1}
    Legacy = {old}
    Reconcilers = {p1, p2}
    Intake = Intake
    NoSub = NoSub
    MaxNow = 1
    Faults = {"api", "crash"}
SYMMETRY ProcessSymmetry
SPECIFICATION Spec
INVARIANTS TypeOK JobHasResume AnswerHonest OneRow LegacyNotRequeued
