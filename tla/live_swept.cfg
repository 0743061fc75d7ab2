SPECIFICATION Spec
CONSTANTS
  Key <- OneKey
  Worlds <- OneWorlds
  Name = {"n"}
  Cwd = {"c"}
  Kind = {"claude"}
  LiveStatus = {"idle"}
  MaxThread = 2
  MaxEvents = 2
  MaxInbox = 1
  MaxSteps = 4
  MaxDay = 2
  MaxAge = 1
  Faults = {}
  DiskFaults = FALSE
  Doings = {"herdr","close","day"}
INVARIANTS LiveNeverSwept
CHECK_DEADLOCK FALSE
