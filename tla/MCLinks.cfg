SPECIFICATION LinksSpec
CONSTANTS
  Clients = {c1, c2}
  Invited = {c1}
  Capacity = 1
  MaxPeers = 2
  Window = 2
  MaxSeals = 3
  MaxLost = 1
  MaxTimeouts = 1
  MaxGen = 2
  MaxDrops = 2
  p1 = p1
  p2 = p2
  HistoryLimit = 3
  FullInterval = 4
  MaxPosesQueued = 2
  MaxInflight = 1
  MaxPending = 1
  MaxSeq = 4
  MaxClosings = 1
  Prebuffer = 2
  MaxPrebuffer = 3
  MaxQueued = 3
  MaxConcealed = 1
  LongGap = 3
  DryGap = 2
  MaxBacklog = 2
  MaxFrames = 1
  MaxSequence = 6
  MaxTurns = 2
  MaxInFlight = 3
CHECK_DEADLOCK FALSE
INVARIANTS JoinedOnce ReplayWindowExact ConnectionSafety MeshSafety PoseSafety VoiceSafety
