SPECIFICATION BarrierSpec
CONSTANTS
  Client = {a, b, c}
  Setting = {s0, s1}
  FirstSetting = s0
  None = None
  Direct <- AllDirect
  MaxRoomClients = 3
  MaxDeferred = 2
  MaxSubmissions = 3
  MaxDepartures = 0
  MaxKicks = 0
  Deadlines = FALSE
SYMMETRY ClientSymmetry
CHECK_DEADLOCK FALSE
INVARIANTS NoProtocolFailure OldGenerationDrained RoomAgrees AppliedAsAsked
