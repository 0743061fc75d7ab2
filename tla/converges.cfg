SPECIFICATION FairSpec
CONSTANTS
  Key <- TwoKeys
  Worlds <- TwoWorlds
  Name = {"n"}
  Cwd = {"c"}
  Kind = {"claude"}
  LiveStatus = {"idle","busy"}
  MaxThread = 2
  MaxEvents = 3
  MaxInbox = 1
  MaxSteps = 3
  MaxDay = 0
  MaxAge = 1
  Faults = {}
  DiskFaults = FALSE
  Doings = {"herdr","stop"}
PROPERTIES Converges
CHECK_DEADLOCK FALSE
