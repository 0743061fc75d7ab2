SPECIFICATION FairSpec
CONSTANTS
  g1 = g1
  g2 = g2
  Grants = {g1, g2}
  None = None
  Worlds <- AllWorlds
  Batch = 1
  MaxPolls = 2
  MaxRetries = 1
  Slots = 1
  MaxQueue = 1
  MaxMessages = 3
  MaxHeard = 1
INVARIANTS ActsUnderGrant AnswersWhatItShowed ActsOnce
PROPERTIES MirrorsSettle GuestAnswered
CHECK_DEADLOCK FALSE
