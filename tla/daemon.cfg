SPECIFICATION Spec
CONSTANTS
  Capacity = 1
  Burst = 4
  LoopWorlds <- AllLoops
  Callers = {"a", "b"}
  Gap = 1
  Limit = 2
  Window = 4
  Tries = 2
  QueueBuffer = 1
  NoticeCap = 1
  CallWorlds <- AllCalls
  BoardWorlds <- AllBoards
INVARIANTS OthersGetATurn RateHolds PartsInOrder OneDashboard
PROPERTIES CatchesUp Stops EveryCallReturns DashboardSettles
CHECK_DEADLOCK FALSE
