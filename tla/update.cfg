SPECIFICATION MCSpec
CONSTANTS
  a = a b = b c = c e = e
  None = None
  Worker = {a, b, c, e}
  Dead = {e}
  LeftRecovery = FALSE
  Prompt = TRUE
  CrashIn <- Running
  Nobody = Nobody
  j1 = j1
  cli = cli
  Pids = {1, 2, 3, 4, 5}
  Jobs = {j1}
  Operator = {cli}
  Clients = {j1, cli}
  Faults <- Everything
  MaxFaults = 2
INVARIANTS OneInstaller OnePollerInTurn OutcomeIsTrue RunsAgain
CHECK_DEADLOCK FALSE
