----------------------------- MODULE SelfUpdate -----------------------------
(***************************************************************************)
(* An update of the plugin by itself: the button in the options panel      *)
(* (app/optionspanel.go, app/updatemanager.go), the worker process it      *)
(* launches (app/updateworker.go), the journal of the job on disk          *)
(* (adapters/state/update.go), its recovery by a starting daemon and the   *)
(* message that tells the outcome (app/updatenotify.go), over the daemon   *)
(* processes of Supervisor.  The lock of the workers is what UpdateLock    *)
(* shows it to be: one holder, taken over from a dead one.                 *)
(*                                                                         *)
(*   worker:   acquire -> load -> check -> backup -> backed -> stop ->     *)
(*             stopped -> merge -> build -> installed -> verify -> start   *)
(*             -> health -> succeeded -> unlock -> tell -> edit -> note    *)
(*   rollback: roll -> rollstop -> reset -> restore -> reread -> restart   *)
(*             -> rehealth -> rolled -> unlock, or stuck -> unlock         *)
(*   daemon:   recover -> alone, attended -> interrupt -> tell -> edit ->  *)
(*             note -> boot -> clean -> sweep -> ready                     *)
(***************************************************************************)
EXTENDS Supervisor

CONSTANTS Jobs,      \* jobs, and their workers, by the approval they start from
          Operator   \* commands of the operator that use the supervisor

Before == 0
After == 1

ASSUME SelfUpdateAssumption ==
  /\ Clients = Jobs \cup Operator /\ Jobs \cap Operator = {} /\ Nobody \notin Clients
  /\ Jobs \cap Pids = {}

VARIABLES disk,     \* update.json
          site,     \* the installed builds: the manifest's and the binary's
          backups,  \* the jobs whose old binary is kept
          press,    \* the approvals and starts of jobs, each in a daemon
          worker,   \* where the worker of a job is
          holder,   \* the worker that has the lock
          known,    \* the job in memory: of its press, then its worker; of a daemon
          told      \* what the panel says of a job
updateVars == <<pidFile, proc, op, spent, disk, site, backups, press, worker, holder, known, told>>

Terminal == {"succeeded", "rolled_back", "stuck", "failed"}
NoJob == [id |-> Nobody, phase |-> "none", prior |-> FALSE, sent |-> FALSE]
Readers == Jobs \cup Pids

UpdateInit ==
  /\ \E p \in Pids : /\ \A q \in Pids : p <= q
                     /\ pidFile = p
                     /\ proc = [q \in Pids |-> [at |-> IF q = p THEN "ready" ELSE "free", build |-> Before,
                                                tries |-> 0, asked |-> FALSE]]
  /\ op = [c \in Clients |-> [does |-> "idle", pid |-> Nobody]] /\ spent = {}
  /\ disk = NoJob /\ site = [manifest |-> Before, binary |-> Before] /\ backups = {}
  /\ press = [j \in Jobs |-> [at |-> "none", by |-> Nobody]]
  /\ worker = [j \in Jobs |-> "none"] /\ holder = Nobody
  /\ known = [r \in Readers |-> NoJob] /\ told = [j \in Jobs |-> "none"]

Active == holder # Nobody /\ worker[holder] # "dead"
Whole(build) == site = [manifest |-> build, binary |-> build]

(* A save replaces the journal as a whole, or fails and leaves it.         *)
Save(job, ok) ==
  \/ ok /\ disk' = job /\ UNCHANGED spent
  \/ ~ok /\ Fault("save") /\ UNCHANGED disk

---------------------------------------------------------------------------
(* The panel of a ready daemon.  CheckRelease offers an approval in place *)
(* of the one before; Consume takes it once and looks again; startUpdate   *)
(* writes the job, unless the journal has one that has not ended, and      *)
(* launches the worker.                                                    *)

Available == site.manifest < After /\ site.binary < After

CheckRelease(p, j) ==
  /\ proc[p].at = "ready" /\ press[j].at = "none" /\ Available
  /\ press' = [i \in Jobs |-> IF i = j THEN [at |-> "offered", by |-> p]
                              ELSE IF press[i].at = "offered" /\ press[i].by = p THEN [press[i] EXCEPT !.at = "void"]
                              ELSE press[i]]
  /\ UNCHANGED <<pidFile, proc, op, spent, disk, site, backups, worker, holder, known, told>>

Pressed(p, j, at, to) ==
  /\ proc[p].at = "ready" /\ press[j] = [at |-> at, by |-> p]
  /\ press' = [press EXCEPT ![j].at = to]

Consume(p, j) ==
  /\ Pressed(p, j, "offered", IF Available THEN "load" ELSE "void")
  /\ UNCHANGED <<pidFile, proc, op, spent, disk, site, backups, worker, holder, known, told>>

StartLoad(p, j) ==
  /\ Pressed(p, j, "load", IF disk = NoJob \/ disk.phase \in Terminal THEN "save" ELSE "void")
  /\ UNCHANGED <<pidFile, proc, op, spent, disk, site, backups, worker, holder, known, told>>

Queued(j) == [id |-> j, phase |-> "queued", prior |-> DaemonRuns, sent |-> FALSE]

StartSave(p, j) ==
  /\ known' = [known EXCEPT ![j] = Queued(j)]
  /\ \E ok \in BOOLEAN : Save(Queued(j), ok) /\ Pressed(p, j, "save", IF ok THEN "launch" ELSE "void")
  /\ UNCHANGED <<pidFile, proc, op, site, backups, worker, holder, told>>

Launch(p, j) ==
  /\ \/ Pressed(p, j, "launch", "done") /\ worker' = [worker EXCEPT ![j] = "acquire"] /\ UNCHANGED spent
     \/ Pressed(p, j, "launch", "unlaunched") /\ Fault("launch") /\ UNCHANGED worker
  /\ UNCHANGED <<pidFile, proc, op, disk, site, backups, holder, known, told>>

Unlaunched(p, j) ==
  /\ \E ok \in BOOLEAN : Save([known[j] EXCEPT !.phase = "failed"], ok)
  /\ Pressed(p, j, "unlaunched", "done")
  /\ UNCHANGED <<pidFile, proc, op, site, backups, worker, holder, known, told>>

Panel(p, j) ==
  CheckRelease(p, j) \/ Consume(p, j) \/ StartLoad(p, j) \/ StartSave(p, j) \/ Launch(p, j) \/ Unlaunched(p, j)

---------------------------------------------------------------------------
(* The worker.                                                             *)

Moves(j, from, to) == worker[j] = from /\ worker' = [worker EXCEPT ![j] = to]

Acquire(j) ==
  /\ \/ ~Active /\ holder' = j /\ Moves(j, "acquire", "load")
     \/ Active /\ UNCHANGED holder /\ Moves(j, "acquire", "tell")
  /\ UNCHANGED <<pidFile, proc, op, spent, disk, site, backups, press, known, told>>

LoadJob(j) ==
  /\ known' = [known EXCEPT ![j] = disk]
  /\ Moves(j, "load", IF disk.id = j /\ disk.phase = "queued" THEN "check" ELSE "unlock")
  /\ UNCHANGED <<pidFile, proc, op, spent, disk, site, backups, press, holder, told>>

CheckDaemon(j) ==
  /\ Moves(j, "check", IF DaemonRuns = known[j].prior THEN "backup" ELSE "fail")
  /\ UNCHANGED <<pidFile, proc, op, spent, disk, site, backups, press, holder, known, told>>

Backup(j) ==
  /\ \/ Moves(j, "backup", "backed") /\ backups' = backups \cup {j} /\ UNCHANGED spent
     \/ Moves(j, "backup", "fail") /\ Fault("backup") /\ UNCHANGED backups
  /\ UNCHANGED <<pidFile, proc, op, disk, site, press, holder, known, told>>

(* The phases: what is recorded at which step, and where it goes on when   *)
(* the record is written and when it is not.                               *)
Mark(j, from, phase, good, bad) ==
  /\ known' = [known EXCEPT ![j].phase = phase]
  /\ \E ok \in BOOLEAN : Save([known[j] EXCEPT !.phase = phase], ok) /\ Moves(j, from, IF ok THEN good ELSE bad)
  /\ UNCHANGED <<pidFile, proc, op, site, backups, press, holder, told>>

Journal(j) ==
  \/ Mark(j, "backed", "backed_up", IF known[j].prior THEN "stop" ELSE "stopped", "unlock")
  \/ Mark(j, "stopped", "daemon_stopped", "merge", "unlock")
  \/ Mark(j, "installed", "installed", "verify", "roll")
  \/ Mark(j, "succeeded", "succeeded", "unlock", "unlock")
  \/ Mark(j, "fail", "failed", "unlock", "unlock")
  \/ Mark(j, "roll", "rolling_back", "rollstop", "rollstop")
  \/ Mark(j, "rolled", "rolled_back", "unlock", "unlock")
  \/ Mark(j, "stuck", "stuck", "unlock", "unlock")

(* A call of the supervisor and its return.                                *)
Supervised(j, at, what, good, bad) ==
  /\ \/ op[j].does = "idle" /\ Calls(j, what) /\ Moves(j, at, at)
     \/ op[j].does \in Results /\ Calls(j, "idle") /\ Moves(j, at, IF op[j].does = "ok" THEN good ELSE bad)
  /\ UNCHANGED <<pidFile, proc, spent, disk, site, backups, press, holder, known, told>>

Supervise(j) ==
  \/ Supervised(j, "stop", "stop", "stopped", "fail")
  \/ Supervised(j, "start", "start", "health", "roll")
  \/ Supervised(j, "health", "health", "succeeded", "roll")
  \/ (DaemonRuns \/ op[j].does # "idle") /\ Supervised(j, "rollstop", "stop", "reset", "stuck")
  \/ Supervised(j, "restart", "start", "rehealth", "stuck")
  \/ Supervised(j, "rehealth", "health", "rolled", "stuck")

(* The installation and its undoing: the checkout first, the binary then.  *)
Changes(j, from, good, bad, kind, part, build) ==
  /\ \/ Moves(j, from, good) /\ site' = [site EXCEPT ![part] = build] /\ UNCHANGED spent
     \/ Moves(j, from, bad) /\ Fault(kind) /\ site' \in {site, [site EXCEPT ![part] = build]}
  /\ UNCHANGED <<pidFile, proc, op, disk, backups, press, holder, known, told>>

InstallGivesUp(j) ==
  \/ Changes(j, "merge", "build", "roll", "install", "manifest", After)
  \/ Changes(j, "build", "installed", "fail", "install", "binary", After)

Install(j) ==
  \/ Changes(j, "merge", "build", "roll", "install", "manifest", After)
  \/ Changes(j, "build", "installed", "roll", "install", "binary", After)

(* The old binary is there: BackupIsKept.                                  *)
Rollback(j) ==
  \/ /\ worker[j] = "rollstop" /\ ~DaemonRuns /\ op[j].does = "idle" /\ Moves(j, "rollstop", "reset")
     /\ UNCHANGED <<pidFile, proc, op, spent, disk, site, backups, press, holder, known, told>>
  \/ Changes(j, "reset", "restore", "stuck", "restore", "manifest", Before)
  \/ Changes(j, "restore", "reread", "stuck", "restore", "binary", Before)

InspectOnly(j) ==
  /\ \/ /\ Moves(j, "verify", IF ~Whole(After) THEN "roll" ELSE IF known[j].prior THEN "start" ELSE "succeeded")
        /\ UNCHANGED spent
     \/ (Moves(j, "verify", "roll") \/ Moves(j, "reread", "stuck")) /\ Fault("verify")
     \/ /\ Moves(j, "reread", IF ~Whole(Before) THEN "stuck" ELSE "rolled")
        /\ UNCHANGED spent
  /\ UNCHANGED <<pidFile, proc, op, disk, site, backups, press, holder, known, told>>

Inspect(j) ==
  /\ \/ /\ Moves(j, "verify", IF ~Whole(After) THEN "roll" ELSE IF known[j].prior THEN "start" ELSE "succeeded")
        /\ UNCHANGED spent
     \/ (Moves(j, "verify", "roll") \/ Moves(j, "reread", "stuck")) /\ Fault("verify")
     \/ /\ Moves(j, "reread", IF ~Whole(Before) THEN "stuck" ELSE IF known[j].prior THEN "restart" ELSE "rolled")
        /\ UNCHANGED spent
  /\ UNCHANGED <<pidFile, proc, op, disk, site, backups, press, holder, known, told>>

Unlock(j) ==
  /\ Moves(j, "unlock", "tell") /\ holder' = IF holder = j THEN Nobody ELSE holder
  /\ UNCHANGED <<pidFile, proc, op, spent, disk, site, backups, press, known, told>>

Die(j) ==
  /\ worker[j] \notin {"none", "done", "dead"} /\ Fault("die") /\ Moves(j, worker[j], "dead") /\ Calls(j, "idle")
  /\ UNCHANGED <<pidFile, proc, disk, site, backups, press, holder, known, told>>

---------------------------------------------------------------------------
(* The delivery of the outcome, by the worker at its end and by a daemon   *)
(* that starts: the job is read, the panel edited, the edit recorded.      *)

Delivers(r, from, to, last) ==
  \/ r \in Jobs /\ Moves(r, from, IF last THEN "done" ELSE to) /\ UNCHANGED proc
  \/ r \in Pids /\ proc[r].at = from /\ At(r, IF last THEN "boot" ELSE to) /\ UNCHANGED worker

Untold(job) == job.phase \in Terminal \cup {"interrupted"} /\ ~job.sent

TellLoad(r) ==
  /\ known' = [known EXCEPT ![r] = disk] /\ Delivers(r, "tell", "edit", ~Untold(disk))
  /\ UNCHANGED <<pidFile, op, spent, disk, site, backups, press, holder, told>>

TellEdit(r) ==
  /\ \/ Delivers(r, "edit", "note", FALSE) /\ told' = [told EXCEPT ![known[r].id] = known[r].phase] /\ UNCHANGED spent
     \/ Delivers(r, "edit", "note", TRUE) /\ Fault("telegram") /\ UNCHANGED told
  /\ UNCHANGED <<pidFile, op, disk, site, backups, press, holder, known>>

TellNote(r) ==
  /\ \E ok \in BOOLEAN : Save([known[r] EXCEPT !.sent = TRUE], ok)
  /\ Delivers(r, "note", "note", TRUE) /\ known' = [known EXCEPT ![r] = NoJob]
  /\ UNCHANGED <<pidFile, op, site, backups, press, holder, told>>

Tell(r) == TellLoad(r) \/ TellEdit(r) \/ TellNote(r)

---------------------------------------------------------------------------
(* A daemon that starts: RecoverUpdate asks first whether a worker is      *)
(* alive and reads the journal then; the artifacts of other jobs are       *)
(* removed when no worker is alive.                                        *)

RecoverActive(p) ==
  /\ proc[p].at = "recover" /\ At(p, IF Active THEN "attended" ELSE "alone")
  /\ UNCHANGED <<pidFile, op, spent, disk, site, backups, press, worker, holder, known, told>>

RecoverLoad(p) ==
  /\ proc[p].at \in {"attended", "alone"}
  /\ known' = [known EXCEPT ![p] = disk]
  /\ At(p, IF disk # NoJob /\ disk.phase \notin Terminal /\ proc[p].at = "alone" THEN "interrupt"
           ELSE IF disk.phase = "interrupted" \/ Untold(disk) THEN "tell" ELSE "boot")
  /\ UNCHANGED <<pidFile, op, spent, disk, site, backups, press, worker, holder, told>>

RecoverSave(p) ==
  /\ proc[p].at = "interrupt"
  /\ \E ok \in BOOLEAN : Save([known[p] EXCEPT !.phase = "interrupted"], ok) /\ At(p, IF ok THEN "tell" ELSE "boot")
  /\ UNCHANGED <<pidFile, op, site, backups, press, worker, holder, known, told>>

Boot(p) ==
  /\ \/ proc[p].at = "boot" /\ known' = [known EXCEPT ![p] = disk] /\ At(p, "clean") /\ UNCHANGED backups
     \/ proc[p].at = "clean" /\ At(p, IF Active THEN "ready" ELSE "sweep") /\ UNCHANGED <<known, backups>>
     \/ /\ proc[p].at = "sweep" /\ At(p, "ready") /\ known' = [known EXCEPT ![p] = NoJob]
        /\ backups' = backups \cap (IF known[p].phase = "succeeded" THEN {} ELSE {known[p].id})
  /\ UNCHANGED <<pidFile, op, spent, disk, site, press, worker, holder, told>>

---------------------------------------------------------------------------
(* start and stop; a restart goes on with a start.                         *)
Command(c) ==
  /\ \/ op[c].does = "idle" /\ Fault("operator") /\ \E what \in {"start", "stop"} : Calls(c, what)
     \/ op[c].does \in {"ok", "absent"} /\ op[c].pid = Nobody /\ Calls(c, "start") /\ UNCHANGED spent
  /\ UNCHANGED <<pidFile, proc, disk, site, backups, press, worker, holder, known, told>>

Call(c) ==
  /\ \/ Stop(c) \/ Stopping(c) \/ Start(c, site.binary) \/ Claim(c)
     \/ c \in Jobs /\ Health(c, IF worker[c] = "health" THEN After ELSE Before)
  /\ UNCHANGED <<disk, site, backups, press, worker, holder, known, told>>

Daemon(p) ==
  \/ RecoverActive(p) \/ RecoverLoad(p) \/ RecoverSave(p) \/ Boot(p) \/ Tell(p)
  \/ DaemonStep(p) /\ UNCHANGED <<disk, site, backups, press, worker, holder, known, told>>
  \/ (Quit(p) \/ Killed(p)) /\ UNCHANGED <<disk, site, backups, press, worker, holder, known, told>>

WorkerStep(j) ==
  \/ Acquire(j) \/ LoadJob(j) \/ CheckDaemon(j) \/ Backup(j) \/ Journal(j) \/ Supervise(j)
  \/ Install(j) \/ Rollback(j) \/ Inspect(j) \/ Unlock(j) \/ Tell(j) \/ Die(j)

UpdateNext ==
  \/ \E p \in Pids : Daemon(p) \/ \E j \in Jobs : Panel(p, j)
  \/ \E j \in Jobs : WorkerStep(j)
  \/ \E c \in Clients : Call(c)
  \/ \E c \in Operator : Command(c)

UpdateSpec == UpdateInit /\ [][UpdateNext]_updateVars

---------------------------------------------------------------------------
(* docs/development.md: the worker never starts a second Telegram poller.  *)
OnePoller == Cardinality(Polling) <= 1

(* While one start at a time is under way, each awaited to its end, that   *)
(* is so, whatever else fails: pidfile.go and supervisor.go together.      *)
OnePollerInTurn == spent \cap {"slow", "operator"} = {} => OnePoller

(* What the journal gives as the outcome is what is installed.             *)
OutcomeIsTrue ==
  /\ disk.phase = "succeeded" => Whole(After)
  /\ disk.phase \in {"rolled_back", "failed", "queued", "backed_up"} => Whole(Before)

(* When the journal says that the update has ended, and not stuck, the     *)
(* daemon runs as it did before.  Excepted are a stop that failed with the *)
(* daemon asked already: the update is given up, and nothing starts the    *)
(* daemon again (updateworker.go:66); and a daemon that dies or is slow.   *)
RunsAgain ==
  (/\ spent \cap {"crash", "operator", "slow", "stop"} = {}
   /\ disk.phase \in {"succeeded", "rolled_back", "failed"} /\ disk.prior /\ ~Active) => DaemonRuns
=============================================================================
