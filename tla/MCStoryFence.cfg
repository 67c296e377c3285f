CONSTANTS
    p1 = p1
    p2 = p2
    Players = {p1, p2}
    Facts = {"start", "warp", "end", "day2", "day3", "wagon", "room", "dark"}
    Stages = {"F_SP108", "R_SP107", "F_SP104", "field"}
    HoldTicks = 1
    SafeTicks = 2
    MaxLocal = 2
    MaxSequence = 3
    MaxMoves = 1
    MaxFaults = 1
SPECIFICATION Spec
SYMMETRY PlayerSymmetry
CHECK_DEADLOCK FALSE
INVARIANTS StorySafety
PROPERTIES FenceSteps
