SPECIFICATION History
CONSTANTS
  Key <- MCKey
  Name = {"n"}
  Cwd = {"c"}
  Kind = {"claude"}
  LiveStatus = {"idle"}
  Tables <- MCTables
  Lives <- MCLives
INVARIANTS FreshPlanApplies
PROPERTIES OneByOne
