SPECIFICATION RoomsSpec
CONSTANTS
  f1 = f1
  f2 = f2
  inside = inside
  outside = outside
  plate = plate
  latch = latch
  None = None
  Players = {f1, f2}
  Scenes = {inside, outside}
  Plates = {plate, latch}
  Momentary = {plate}
  SceneOf <- MCSceneOf
  MaxEvents = 2
  p1 = p1
  p2 = p2
  p3 = p3
  MaxChanges = 1
  creator = creator
  joiner = joiner
  Sockets = 4
  MaxGeneration = 1
  MaxFaults = 2
  g1 = g1
  g2 = g2
  MaxConns = 3
  MaxRuns = 1
  MaxUserActions = 2
CHECK_DEADLOCK FALSE
INVARIANTS NeverStale PressureIsCurrent PlatesAreShared SettingSafety SessionSafety LobbySafety
