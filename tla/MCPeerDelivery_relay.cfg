SPECIFICATION FairSpec
CONSTANTS
  Body = {b1, b2}
  Window = 2
  MaxSequence = 4
  RelayFallback = TRUE
  MaxFlips = 2
CHECK_DEADLOCK FALSE
INVARIANTS NoProtocolFailure JournalCoversUnapplied
PROPERTIES FifoSpec EventuallyApplied JournalDrains
