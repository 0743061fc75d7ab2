SPECIFICATION Spec
CONSTANTS
  Key <- OneKey
  Worlds <- OneWorlds
  Name = {"n"}
  Cwd = {"c"}
  Kind = {"claude"}
  LiveStatus = {"idle"}
  MaxThread = 3
  MaxEvents = 2
  MaxInbox = 1
  MaxSteps = 4
  MaxDay = 0
  MaxAge = 1
  Faults = {"transient","timeout","forbidden","migrated","snapshot"}
  DiskFaults = TRUE
  Doings = {"herdr","close","reopen","delete","right","hold","resync","crash","stop"}
INVARIANTS TypeOK NoLostTopic OneUnknownTopic MemoryIsDurable
CHECK_DEADLOCK FALSE
