SPECIFICATION FairSpec
CONSTANTS
  Body = {b1}
  Window = 2
  MaxSequence = 4
  RelayFallback = FALSE
  MaxFlips = 4
PROPERTY AppliedOnceDirect
CHECK_DEADLOCK FALSE
