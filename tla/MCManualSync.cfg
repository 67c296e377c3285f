CONSTANTS
    p1 = p1
    p2 = p2
    f1 = f1
    Players = {p1, p2}
    Facts = {f1}
    NoPeer = NoPeer
    NoSave = NoSave
    RequestTicks = 2
    ReplyTicks = 2
    MaxRequests = 2
    MaxScenes = 2
    MaxFacts = 1
    MaxFaults = 1
SPECIFICATION Spec
SYMMETRY PlayerSymmetry
CHECK_DEADLOCK FALSE
INVARIANTS SyncSafety
PROPERTIES OnlyAwaitedAnswers
