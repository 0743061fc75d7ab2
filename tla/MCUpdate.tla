------------------------------ MODULE MCUpdate ------------------------------
(* The lock of the update workers and one update under it, each explored   *)
(* for itself: SelfUpdate takes of the lock what UpdateLock shows of it.   *)
EXTENDS UpdateLock, SelfUpdate

CONSTANTS a, b, c, e,  \* workers that contend for the lock
          j1, cli      \* a job, a command of the operator

Everything == {"unfit", "crash", "deaf", "stop", "spawn", "slow", "save", "launch", "backup", "install", "verify", "restore",
               "die", "telegram", "operator"}

VARIABLE part
mcVars == <<vars, updateVars, part>>

MCInit == Init /\ UpdateInit /\ part \in {"lock", "update"} /\ (part = "update" => lock = NoDir)

MCNext == \/ part = "lock" /\ Next /\ UNCHANGED <<updateVars, part>>
          \/ part = "update" /\ UpdateNext /\ UNCHANGED <<vars, part>>

MCSpec == MCInit /\ [][MCNext]_mcVars
=============================================================================
