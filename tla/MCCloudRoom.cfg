SPECIFICATION FairSpec
CONSTANTS
  Sockets = 4
  MaxPlayers = 2
  MaxPending = 1
  MaxGeneration = 1
  Setups <- MCSetups
  None = None
CHECK_DEADLOCK FALSE
INVARIANTS OrderlyRoom RoomSafety
PROPERTIES ReservationEnds ChangeEnds
