CONSTANTS
    z = z
    s = s
    k = k
    f1 = f1
    f2 = f2
    NoFile = NoFile
    None = None
    Events = {z}
    StoryEvents = {z}
    Switches = {s}
    Counters = {k}
    Files = {f1, f2}
    MaxCount = 2
    MaxPending = 1
    MaxInbox = 2
    MaxRecoveryFacts = 2
    MaxReceived = 2
    MaxSaves = 2
    MaxScenes = 4
    MaxLocal = 1
SPECIFICATION Spec
CHECK_DEADLOCK FALSE
SYMMETRY FileSymmetry
INVARIANTS RecoverySafety
PROPERTIES NewerFactsKept
