SPECIFICATION ShareSpec
CONSTANTS
    p1 = p1
    p2 = p2
    Players = {p1, p2}
    Dungeons = {16, 22}
    City = 22
    Marks = 2
    Field = 3
    Shop = 4
    MaxEvents = 3
    r1 = r1
    r2 = r2
    r3 = r3
    here = here
    there = there
    Nowhere = Nowhere
    MaxClients = 3
    MaxRoomClients = 2
    QueueLimit = 3
    SeenLimit = 1
SYMMETRY PlayerSymmetry
CHECK_DEADLOCK FALSE
INVARIANTS SharedForAll RelaySafety
PROPERTIES NotResurrected
