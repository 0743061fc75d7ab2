SPECIFICATION FairSpec
CONSTANTS
  AgentKeys = {k1, k2}
  First = k1
  None = None
  Gone = Gone
  Multi = {2}
  MaxRetries = 1
  MaxEvents = 1
  MaxQuestions = 2
  Worlds <- AllWorlds
PROPERTIES RingsOnce  TurnEnds
CHECK_DEADLOCK FALSE
