SPECIFICATION PauseSpec
CONSTANTS
  a = a
  b = b
  c = c
  Client = {a, b, c}
  Setting = {s0}
  FirstSetting = s0
  None = None
  Direct <- AllDirect
  MaxRoomClients = 3
  MaxDeferred = 2
  MaxSubmissions = 1
  MaxDepartures = 1
  MaxKicks = 0
  Deadlines = FALSE
PROPERTIES PauseEnds DeferredSent
CHECK_DEADLOCK FALSE
