SPECIFICATION FairSpec
CONSTANTS
  Key <- Keys
  Agents <- AllAgents
  Name = {"n", "m"}
  Cwd = {"c"}
  Kind = {"claude"}
  LiveStatus = {"idle", "working"}
  Worlds <- AllWorlds
  EventBuffer = 2
  FeedBuffer = 1
INVARIANTS FeedIsTrue GoneStaysGone HandoverLosesNothing
PROPERTIES ViewSettles
CHECK_DEADLOCK FALSE
