----------------------------- MODULE Supervisor -----------------------------
(***************************************************************************)
(* Daemon processes, the pid file that keeps them single                   *)
(* (adapters/state/pidfile.go), and the supervisor that starts, stops and  *)
(* watches them through it (app/supervisor.go), as a worker of an update   *)
(* or a command of the operator uses it.  A system call is a step.         *)
(*                                                                         *)
(*   daemon:  free -> create -> recover ... boot ... ready -> release      *)
(*                 -> unlink -> gone                                       *)
(*            create -> read -> remove -> create, or gone                  *)
(*   stop:    stop -> stopping -> ok                                       *)
(*   start:   start -> claim -> ok              health -> ok               *)
(***************************************************************************)
EXTENDS Naturals, FiniteSets

CONSTANTS Pids,       \* the processes that may become the daemon, numbered
          Clients,    \* who uses the supervisor
          Nobody,       \* nobody
          Faults,     \* what may go wrong
          MaxFaults   \* how many of these things do

ASSUME SupervisorAssumption ==
  /\ Pids \subseteq Nat /\ Nobody \notin Pids /\ MaxFaults \in Nat

VARIABLES pidFile,  \* the process daemon.pid names
          proc,     \* the processes: where they are, their build, takeovers of the file, a stop
          op,       \* the supervisor's call of a client: what it does, about which process
          spent     \* what has gone wrong
supervisorVars == <<pidFile, proc, op, spent>>

Takeovers == 2
Results == {"ok", "failed", "absent", "already"}

Runs(p) == p \in Pids /\ proc[p].at \notin {"free", "gone"}
DaemonRuns == Runs(pidFile)
At(p, step) == proc' = [proc EXCEPT ![p].at = step]
Gone == [at |-> "gone", build |-> 0, tries |-> 0, asked |-> FALSE]
Ends(p) == proc' = [proc EXCEPT ![p] = Gone]

(* The poller runs until the loop has ended, the control channel is up     *)
(* before it and the signal handlers before that.                          *)
Polling == {p \in Pids : proc[p].at = "ready"}
Listening(p) == proc[p].at \in {"boot", "clean", "sweep", "ready"}

(* What goes wrong, each kind once.                                        *)
Fault(kind) == kind \in Faults \ spent /\ Cardinality(spent) < MaxFaults /\ spent' = spent \cup {kind}

---------------------------------------------------------------------------
(* The daemon's side: Acquire, Release, and the ways it ends.              *)

Create(p) ==
  /\ proc[p].at = "create"
  /\ IF pidFile = Nobody THEN pidFile' = p /\ At(p, "recover") ELSE UNCHANGED pidFile /\ At(p, "read")
  /\ UNCHANGED <<op, spent>>

(* A file that is gone by now is taken for a stale one.                    *)
Read(p) ==
  /\ proc[p].at = "read"
  /\ IF DaemonRuns THEN Ends(p) ELSE At(p, "remove")
  /\ UNCHANGED <<pidFile, op, spent>>

(* Whatever file is there by now.                                          *)
Remove(p) ==
  /\ proc[p].at = "remove"
  /\ pidFile' = Nobody
  /\ IF proc[p].tries + 1 < Takeovers
       THEN proc' = [proc EXCEPT ![p] = [at |-> "create", build |-> @.build, tries |-> @.tries + 1, asked |-> @.asked]]
       ELSE Ends(p)
  /\ UNCHANGED <<op, spent>>

(* A stop asked for ends the loop; so does a build that cannot run.        *)
Quit(p) ==
  /\ Listening(p)
  /\ \/ proc[p].asked /\ UNCHANGED spent
     \/ proc[p].at = "boot" /\ Fault("unfit")
  /\ At(p, "release") /\ UNCHANGED <<pidFile, op>>

Release(p) ==
  /\ proc[p].at = "release"
  /\ IF pidFile = p THEN At(p, "unlink") ELSE Ends(p)
  /\ UNCHANGED <<pidFile, op, spent>>

Unlink(p) ==
  /\ proc[p].at = "unlink"
  /\ pidFile' = Nobody /\ Ends(p)
  /\ UNCHANGED <<op, spent>>

Killed(p) ==
  /\ Runs(p) /\ Fault("crash")
  /\ Ends(p) /\ UNCHANGED <<pidFile, op>>

---------------------------------------------------------------------------
(* The supervisor's side.  A client begins a call, and takes its result.   *)

Calls(c, what) == op' = [op EXCEPT ![c].does = what]

(* Stop.  A process without its signal handlers dies of the signal and     *)
(* leaves the file; so does one that is killed after stopTimeout, because  *)
(* the caller's Release removes only a file of its own.  A control call    *)
(* that fails may have been heard; a wait that fails, by the end of its    *)
(* context or of the kill, leaves a daemon that was asked to stop.         *)
Asked == [proc EXCEPT ![pidFile].asked = TRUE]
Returns(c, result) == op' = [op EXCEPT ![c] = [does |-> result, pid |-> Nobody]]

Stop(c) ==
  /\ op[c].does = "stop"
  /\ \/ ~DaemonRuns /\ Calls(c, "absent") /\ UNCHANGED <<proc, spent>>
     \/ DaemonRuns /\ Fault("stop") /\ Calls(c, "failed") /\ proc' \in {proc, Asked}
     \/ /\ DaemonRuns /\ UNCHANGED spent
        /\ op' = [op EXCEPT ![c] = [does |-> "stopping", pid |-> pidFile]]
        /\ proc' = IF Listening(pidFile) \/ proc[pidFile].at \in {"release", "unlink"}
                   THEN Asked
                   ELSE [proc EXCEPT ![pidFile] = Gone]
  /\ UNCHANGED pidFile

Stopping(c) ==
  /\ op[c].does = "stopping"
  /\ \/ ~Runs(op[c].pid) /\ Returns(c, "ok") /\ UNCHANGED <<proc, spent>>
     \/ Runs(op[c].pid) /\ Fault("deaf") /\ Returns(c, "ok") /\ Ends(op[c].pid)
     \/ Runs(op[c].pid) /\ Fault("stop") /\ Returns(c, "failed") /\ UNCHANGED proc
  /\ UNCHANGED pidFile

(* Start and StartAt, which runs the build installed now.                  *)
Start(c, build) ==
  /\ op[c].does = "start"
  /\ \/ DaemonRuns /\ Calls(c, "already") /\ UNCHANGED <<proc, spent>>
     \/ ~DaemonRuns /\ Fault("spawn") /\ Calls(c, "failed") /\ UNCHANGED proc
     \/ /\ ~DaemonRuns /\ UNCHANGED spent
        /\ \E p \in Pids :
             /\ proc[p].at = "free" /\ \A q \in Pids : proc[q].at = "free" => p <= q
             /\ proc' = [proc EXCEPT ![p].at = "create", ![p].build = build]
             /\ op' = [op EXCEPT ![c] = [does |-> "claim", pid |-> p]]
  /\ UNCHANGED pidFile

ClaimHasty(c) ==
  /\ op[c].does = "claim"
  /\ \/ ~Runs(op[c].pid) /\ Calls(c, "failed") /\ UNCHANGED spent
     \/ Runs(op[c].pid) /\ pidFile = op[c].pid /\ Calls(c, "ok") /\ UNCHANGED spent
     \/ Runs(op[c].pid) /\ pidFile # op[c].pid /\ Calls(c, "failed") /\ UNCHANGED spent
  /\ UNCHANGED <<pidFile, proc>>

Claim(c) ==
  /\ op[c].does = "claim"
  /\ \/ ~Runs(op[c].pid) /\ Calls(c, "failed") /\ UNCHANGED spent
     \/ Runs(op[c].pid) /\ pidFile = op[c].pid /\ Calls(c, "ok") /\ UNCHANGED spent
     \/ Runs(op[c].pid) /\ pidFile # op[c].pid /\ Fault("slow") /\ Calls(c, "failed")
  /\ UNCHANGED <<pidFile, proc>>

(* WaitHealthy, which in the end gives up on a build that is another.      *)
Health(c, build) ==
  /\ op[c].does = "health"
  /\ LET mine == DaemonRuns /\ pidFile = op[c].pid
         p == op[c].pid
     IN  \/ ~mine /\ Calls(c, "failed") /\ UNCHANGED spent
         \/ mine /\ proc[p].at = "ready" /\ Calls(c, IF proc[p].build = build THEN "ok" ELSE "failed") /\ UNCHANGED spent
         \/ mine /\ proc[p].at # "ready" /\ Fault("slow") /\ Calls(c, "failed")
  /\ UNCHANGED <<pidFile, proc>>

DaemonStep(p) == Create(p) \/ Read(p) \/ Remove(p) \/ Release(p) \/ Unlink(p)
=============================================================================
