SPECIFICATION FairSpec
CONSTANTS
  Keys = {k1, k2}
  First = k1
  None = None
  Gone = Gone
  MaxPolls = 2
  MaxMessages = 3
  MaxQuestions = 2
  Worlds <- AllWorlds
INVARIANTS NothingUnmeant
PROPERTIES MessageAnswered
CHECK_DEADLOCK FALSE
