SPECIFICATION Spec
CONSTANTS
  Key <- SessionKeys
  Worlds <- SessionWorlds
  Name = {"n","m"}
  Cwd = {"c"}
  Kind = {"claude"}
  LiveStatus = {"idle"}
  MaxThread = 3
  MaxEvents = 2
  MaxInbox = 1
  MaxSteps = 3
  MaxDay = 2
  MaxAge = 1
  Faults = {"rename"}
  DiskFaults = FALSE
  Doings = {"herdr","close","reopen","crash","day","delete","rename"}
INVARIANTS OneEntryPerTopic
PROPERTIES NeverInherited ForgottenIsDeleted MuteKept
CHECK_DEADLOCK FALSE
