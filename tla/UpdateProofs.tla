---------------------------- MODULE UpdateProofs ----------------------------
(***************************************************************************)
(* The update of the plugin by itself.  UpdateLock: two workers never      *)
(* install at once, for any number of workers, as long as none dies in a   *)
(* recovery and none is slow for staleGrace where the lock counts on it.   *)
(* SelfUpdate: one poller for any number of jobs and processes; the truth  *)
(* of the journal and the daemon that runs again, for one job.             *)
(***************************************************************************)
EXTENDS UpdateLock, SelfUpdate, FiniteSetTheorems, TLAPS

Careful == Prompt /\ CrashIn \cap Recovering = {} /\ ~LeftRecovery

(* A directory without a record is being made or removed by at most one    *)
(* worker, which is why it is young.                                       *)
Halfway(w) == pc[w] \in {"write", "rmdir"}
LockInv ==
  /\ lock.owner # None => There
  /\ \A w \in Worker : Halfway(w) => lock.age = "young" /\ lock.owner = None
  /\ \A v, w \in Worker : Halfway(v) /\ Halfway(w) => v = w

(* At most one worker is in a recovery, and its lock is never too old.     *)
RecoveryInv ==
  /\ recovery # "old"
  /\ recovery # "none" => \E w \in Worker : pc[w] \in Recovering
  /\ \A w \in Worker : pc[w] \in Recovering => recovery # "none"
  /\ \A v, w \in Worker : pc[v] \in Recovering /\ pc[w] \in Recovering => v = w
  /\ \A w \in Worker : pc[w] # "clear"

(* What is about to be moved away has no running owner, and will have none.*)
StaleInv ==
  /\ \A w \in Worker : pc[w] = "restat" /\ lock.age = "old" => lock.owner = None
  /\ \A w \in Worker : pc[w] = "rename" =>
       There /\ (IF lock.owner = None THEN lock.age = "old" ELSE ~Alive(lock.owner))

Inv == TypeOK /\ OwnerKeepsLock /\ LockInv /\ RecoveryInv /\ StaleInv

LEMMA Starts == ASSUME Careful PROVE Init => Inv
  <1> SUFFICES ASSUME Init PROVE Inv
    OBVIOUS
  <1>1. TypeOK
    BY ConstantsAssumption DEF Init, TypeOK, Dir, Age, Old, NoDir, Running, Ended, Attempts
  <1>2. recovery = "none" /\ \A w \in Worker : pc[w] \in {"mkdir", "dead"}
    BY DEF Careful, Init
  <1>3. lock.owner # None => There
    BY ConstantsAssumption DEF Init, Old, NoDir, There
  <1>4. OwnerKeepsLock /\ StaleInv
    BY <1>2 DEF OwnerKeepsLock, Installing, StaleInv
  <1>5. LockInv
    BY <1>2, <1>3 DEF LockInv, Halfway
  <1>6. RecoveryInv
    BY <1>2 DEF RecoveryInv, Recovering
  <1> QED
    BY <1>1, <1>4, <1>5, <1>6 DEF Inv

(* One lemma for each part of the invariant.                               *)
LEMMA Typed == ASSUME TypeOK, NEW w \in Worker, Step(w) PROVE TypeOK'
  <1> USE DEF TypeOK, Dir, Age, NoDir, NewDir, Go, Again, Attempts, Running, Ended
  <1>1. CASE Mkdir(w) \/ WriteOwner(w) \/ Look(w)
    BY <1>1, ConstantsAssumption DEF Mkdir, WriteOwner, Look
  <1>2. CASE Stat(w) BY <1>2 DEF Stat
  <1>3. CASE Recover(w) \/ RecoveryStat(w) \/ RecoveryClear(w)
    BY <1>3 DEF Recover, RecoveryStat, RecoveryClear
  <1>4. CASE Reread(w) \/ Restat(w) \/ Rename(w)
    BY <1>4 DEF Reread, Restat, Rename
  <1>5. CASE Leave(w) BY <1>5 DEF Leave
  <1>6. CASE Check(w) \/ Unown(w) \/ Rmdir(w)
    BY <1>6 DEF Check, Unown, Rmdir
  <1> QED
    BY <1>1, <1>2, <1>3, <1>4, <1>5, <1>6 DEF Step

LEMMA Kept == ASSUME Inv, NEW w \in Worker, Step(w) PROVE OwnerKeepsLock'
  <1> USE DEF Inv, TypeOK, OwnerKeepsLock, Installing, Go
  <1>1. CASE Mkdir(w) \/ Look(w)
    BY <1>1, ConstantsAssumption DEF Mkdir, Look, LockInv
  <1>2. CASE WriteOwner(w)
    BY <1>2, ConstantsAssumption DEF WriteOwner, LockInv, Halfway
  <1>3. CASE Stat(w) \/ Recover(w) \/ RecoveryStat(w) \/ RecoveryClear(w) \/ Leave(w)
    BY <1>3 DEF Stat, Again, Recover, RecoveryStat, RecoveryClear, Leave
  <1>4. CASE Reread(w) \/ Restat(w)
    BY <1>4 DEF Reread, Restat
  <1>5. CASE Rename(w)
    BY <1>5, ConstantsAssumption DEF Rename, StaleInv, Alive, Ended
  <1>6. CASE Check(w)
    BY <1>6 DEF Check
  <1>7. CASE Unown(w) \/ Rmdir(w)
    BY <1>7, ConstantsAssumption DEF Unown, Rmdir, LockInv, Halfway
  <1> QED
    BY <1>1, <1>2, <1>3, <1>4, <1>5, <1>6, <1>7 DEF Step

LEMMA HalfwayKept == ASSUME Inv, NEW w \in Worker, Step(w) PROVE LockInv'
  <1> USE DEF Inv, TypeOK, LockInv, Halfway, Go
  <1>1. CASE Mkdir(w)
    BY <1>1, ConstantsAssumption DEF Mkdir, NewDir, NoDir, There, Dir
  <1>2. CASE WriteOwner(w)
    BY <1>2 DEF WriteOwner, NoDir, There
  <1>3. CASE Look(w)
    BY <1>3 DEF Look, There
  <1>4. CASE Stat(w) \/ Leave(w)
    BY <1>4 DEF Stat, Leave, Again, There
  <1>5. CASE Recover(w) \/ RecoveryStat(w) \/ RecoveryClear(w)
    BY <1>5 DEF Recover, RecoveryStat, RecoveryClear, There
  <1>6. CASE Reread(w) \/ Restat(w)
    BY <1>6 DEF Reread, Restat, There
  <1>7. CASE Rename(w)
    <2>1. \A v \in Worker : ~Halfway(v)
      BY <1>7, ConstantsAssumption DEF Rename, StaleInv
    <2> QED
      BY <1>7, <2>1 DEF Rename, NoDir, There
  <1>8. CASE Check(w)
    BY <1>8 DEF Check, There
  <1>9. CASE Unown(w)
    <2>1. \A v \in Worker : ~Halfway(v)
      BY <1>9, ConstantsAssumption DEF Unown, OwnerKeepsLock, Installing
    <2> QED
      BY <1>9, <2>1 DEF Unown, NewDir, There
  <1>10. CASE Rmdir(w)
    BY <1>10 DEF Rmdir, NoDir, There
  <1> QED
    BY <1>1, <1>2, <1>3, <1>4, <1>5, <1>6, <1>7, <1>8, <1>9, <1>10 DEF Step

LEMMA RecoveryKept == ASSUME Inv, NEW w \in Worker, Step(w) PROVE RecoveryInv'
  <1> USE DEF Inv, TypeOK, RecoveryInv, Recovering, Go
  <1>1. CASE Mkdir(w) \/ WriteOwner(w) \/ Look(w) \/ Stat(w)
    BY <1>1 DEF Mkdir, WriteOwner, Look, Stat, Again
  <1>2. CASE Recover(w)
    BY <1>2 DEF Recover
  <1>3. CASE RecoveryStat(w) \/ RecoveryClear(w)
    BY <1>3 DEF RecoveryStat, RecoveryClear
  <1>4. CASE Reread(w) \/ Restat(w) \/ Rename(w)
    BY <1>4 DEF Reread, Restat, Rename
  <1>5. CASE Leave(w)
    BY <1>5 DEF Leave, Again
  <1>6. CASE Check(w) \/ Unown(w) \/ Rmdir(w)
    BY <1>6 DEF Check, Unown, Rmdir
  <1> QED
    BY <1>1, <1>2, <1>3, <1>4, <1>5, <1>6 DEF Step

LEMMA StaleKept == ASSUME Inv, NEW w \in Worker, Step(w) PROVE StaleInv'
  <1> USE ConstantsAssumption DEF Inv, TypeOK, Dir, StaleInv, Alive, Go, Ended, There
  <1>1. CASE Mkdir(w)
    BY <1>1, ConstantsAssumption DEF Mkdir, NewDir, NoDir
  <1>2. CASE WriteOwner(w)
    <2>1. \A v \in Worker : pc[v] # "rename"
      BY <1>2 DEF WriteOwner, LockInv, Halfway
    <2> QED
      BY <1>2, <2>1 DEF WriteOwner, NoDir
  <1>3. CASE Look(w) \/ Stat(w) \/ Leave(w)
    BY <1>3 DEF Look, Stat, Leave, Again
  <1>4. CASE Recover(w) \/ RecoveryStat(w) \/ RecoveryClear(w)
    BY <1>4 DEF Recover, RecoveryStat, RecoveryClear
  <1>5. CASE Reread(w)
    BY <1>5, ConstantsAssumption DEF Reread, LockInv
  <1>6. CASE Restat(w)
    BY <1>6 DEF Restat
  <1>7. CASE Rename(w)
    BY <1>7 DEF Rename, RecoveryInv, Recovering, NoDir
  <1>8. CASE Check(w)
    BY <1>8 DEF Check
  <1>9. CASE Unown(w)
    <2>1. \A v \in Worker : pc[v] # "rename"
      BY <1>9, ConstantsAssumption DEF Unown, OwnerKeepsLock, Installing
    <2> QED
      BY <1>9, <2>1 DEF Unown, NewDir
  <1>10. CASE Rmdir(w)
    <2>1. \A v \in Worker : pc[v] # "rename"
      BY <1>10 DEF Rmdir, LockInv, Halfway
    <2> QED
      BY <1>10, <2>1 DEF Rmdir, NoDir
  <1> QED
    BY <1>1, <1>2, <1>3, <1>4, <1>5, <1>6, <1>7, <1>8, <1>9, <1>10 DEF Step

(* A death and the passing of a minute.                                    *)
LEMMA Dies == ASSUME Careful, Inv, NEW w \in Worker, Crash(w) PROVE Inv'
  <1> USE DEF Inv, Crash, Go
  <1>1. TypeOK'
    BY ConstantsAssumption DEF TypeOK, Running, Ended, Attempts
  <1>2. OwnerKeepsLock' /\ LockInv'
    BY DEF TypeOK, OwnerKeepsLock, Installing, LockInv, Halfway, There
  <1>3. RecoveryInv'
    <2>1. pc[w] \notin Recovering
      BY DEF Careful
    <2> QED
      BY <2>1 DEF TypeOK, RecoveryInv, Recovering
  <1>4. StaleInv'
    BY DEF TypeOK, StaleInv, There, Alive, Ended
  <1> QED
    BY <1>1, <1>2, <1>3, <1>4

LEMMA Ages == ASSUME Careful, Inv, Grace PROVE Inv'
  <1> USE DEF Inv, Careful, Grace
  <1>1. TypeOK'
    BY DEF TypeOK, Dir, Age
  <1>2. OwnerKeepsLock' /\ LockInv'
    BY DEF TypeOK, Dir, OwnerKeepsLock, Installing, LockInv, Halfway, There
  <1>3. RecoveryInv'
    BY DEF TypeOK, RecoveryInv, Recovering
  <1>4. StaleInv'
    BY DEF TypeOK, Dir, StaleInv, There, Alive
  <1> QED
    BY <1>1, <1>2, <1>3, <1>4

LEMMA Inductive == ASSUME Careful PROVE Inv /\ [Next]_vars => Inv'
  <1> SUFFICES ASSUME Inv, [Next]_vars PROVE Inv'
    OBVIOUS
  <1>1. ASSUME NEW w \in Worker, Step(w) PROVE Inv'
    <2>1. TypeOK
      BY DEF Inv
    <2> QED
      BY <1>1, <2>1, Typed, Kept, HalfwayKept, RecoveryKept, StaleKept DEF Inv
  <1>2. ASSUME NEW w \in Worker, Crash(w) PROVE Inv'
    BY <1>2, Dies
  <1>3. CASE Grace
    BY <1>3, Ages
  <1>4. CASE UNCHANGED vars
    BY <1>4 DEF vars, Inv, TypeOK, OwnerKeepsLock, Installing, LockInv, Halfway, There,
       RecoveryInv, StaleInv, Alive
  <1> QED
    BY <1>1, <1>2, <1>3, <1>4 DEF Next

(* updatelock.go: the record of a running worker stays in the directory    *)
(* until it removes it itself.                                             *)
THEOREM LockIsKept == ASSUME Careful PROVE Spec => []OwnerKeepsLock
  <1>1. Inv => OwnerKeepsLock
    BY DEF Inv
  <1> QED
    BY <1>1, Starts, Inductive, PTL DEF Spec

(* updatelock.go: two workers never install at once.                       *)
THEOREM LockExcludes == ASSUME Careful PROVE Spec => []OneInstaller
  <1>1. Inv => OneInstaller
    BY DEF Inv, OwnerKeepsLock, OneInstaller
  <1> QED
    BY <1>1, Starts, Inductive, PTL DEF Spec

(***************************************************************************)
(* SelfUpdate.  What its records are made of, and what the small steps the *)
(* actions are built from do to them.                                      *)
(***************************************************************************)
JobRecord(x) ==
  /\ x = [id |-> x.id, phase |-> x.phase, prior |-> x.prior, sent |-> x.sent]
  /\ x.prior \in BOOLEAN /\ x.sent \in BOOLEAN

ProcessesOK ==
  /\ proc = [p \in Pids |-> [at |-> proc[p].at, build |-> proc[p].build,
                             tries |-> proc[p].tries, asked |-> proc[p].asked]]
  /\ \A p \in Pids : proc[p].asked \in BOOLEAN
CallsOK == op = [c \in Clients |-> [does |-> op[c].does, pid |-> op[c].pid]]
JobsOK ==
  /\ press = [j \in Jobs |-> [at |-> press[j].at, by |-> press[j].by]]
  /\ worker = [j \in Jobs |-> worker[j]]
  /\ known = [r \in Readers |-> known[r]]
  /\ \A r \in Readers : JobRecord(known[r])
  /\ JobRecord(disk)

LEMMA NoJobIsRecord == JobRecord(NoJob)
  BY DEF JobRecord, NoJob

LEMMA PhaseMoves ==
  ASSUME NEW x, JobRecord(x), NEW phase, NEW y, y = [x EXCEPT !.phase = phase]
  PROVE  JobRecord(y) /\ y.id = x.id /\ y.phase = phase /\ y.prior = x.prior /\ y.sent = x.sent
  BY DEF JobRecord

LEMMA SentMoves ==
  ASSUME NEW x, JobRecord(x), NEW y, y = [x EXCEPT !.sent = TRUE]
  PROVE  JobRecord(y) /\ y.id = x.id /\ y.phase = x.phase /\ y.prior = x.prior
  BY DEF JobRecord

LEMMA AtMoves ==
  ASSUME ProcessesOK, NEW p \in Pids, NEW step, At(p, step)
  PROVE  /\ ProcessesOK'
         /\ proc'[p].at = step /\ proc'[p].asked = proc[p].asked /\ proc'[p].build = proc[p].build
         /\ \A q \in Pids : q # p => proc'[q] = proc[q]
  BY DEF ProcessesOK, At

LEMMA AskMoves ==
  ASSUME ProcessesOK, NEW p \in Pids, proc' = [proc EXCEPT ![p].asked = TRUE]
  PROVE  /\ ProcessesOK'
         /\ proc'[p].at = proc[p].at /\ proc'[p].asked = TRUE /\ proc'[p].build = proc[p].build
         /\ \A q \in Pids : q # p => proc'[q] = proc[q]
  <1>1. proc[p] = [at |-> proc[p].at, build |-> proc[p].build, tries |-> proc[p].tries, asked |-> proc[p].asked]
    BY DEF ProcessesOK
  <1>2. PICK x : x = [proc[p] EXCEPT !.asked = TRUE]
    OBVIOUS
  <1>3. x = [at |-> x.at, build |-> x.build, tries |-> x.tries, asked |-> x.asked]
    BY <1>1, <1>2
  <1>4. x.at = proc[p].at /\ x.build = proc[p].build
    BY <1>1, <1>2
  <1>5. x.asked = TRUE
    BY <1>1, <1>2
  <1>6. proc' = [proc EXCEPT ![p] = x]
    BY <1>2
  <1>7. proc'[p] = x /\ \A q \in Pids : q # p => proc'[q] = proc[q]
    BY <1>6 DEF ProcessesOK
  <1>8. proc' = [q \in Pids |-> proc'[q]]
    BY <1>6 DEF ProcessesOK
  <1>9. ASSUME NEW q \in Pids
        PROVE  /\ proc'[q] = [at |-> proc'[q].at, build |-> proc'[q].build,
                              tries |-> proc'[q].tries, asked |-> proc'[q].asked]
               /\ proc'[q].asked \in BOOLEAN
    <2>1. CASE q = p
      BY <1>3, <1>5, <1>7, <2>1
    <2>2. CASE q # p
      BY <1>7, <2>2 DEF ProcessesOK
    <2> QED
      BY <2>1, <2>2
  <1> QED
    BY <1>4, <1>5, <1>7, <1>8, <1>9 DEF ProcessesOK

LEMMA SpawnMoves ==
  ASSUME ProcessesOK, NEW p \in Pids, NEW build,
         proc' = [proc EXCEPT ![p].at = "create", ![p].build = build]
  PROVE  /\ ProcessesOK'
         /\ proc'[p].at = "create" /\ proc'[p].asked = proc[p].asked /\ proc'[p].build = build
         /\ \A q \in Pids : q # p => proc'[q] = proc[q]
  <1>1. proc[p] = [at |-> proc[p].at, build |-> proc[p].build, tries |-> proc[p].tries, asked |-> proc[p].asked]
    BY DEF ProcessesOK
  <1>2. PICK f : f = [proc EXCEPT ![p].at = "create"]
    OBVIOUS
  <1>3. f = [q \in Pids |-> f[q]] /\ \A q \in Pids : q # p => f[q] = proc[q]
    BY <1>2 DEF ProcessesOK
  <1>4. /\ f[p] = [at |-> f[p].at, build |-> f[p].build, tries |-> f[p].tries, asked |-> f[p].asked]
        /\ f[p].at = "create" /\ f[p].asked = proc[p].asked
    BY <1>1, <1>2 DEF ProcessesOK
  <1>5. proc' = [f EXCEPT ![p].build = build]
    BY <1>2
  <1>6. PICK x : x = [f[p] EXCEPT !.build = build]
    OBVIOUS
  <1>7. /\ x = [at |-> x.at, build |-> x.build, tries |-> x.tries, asked |-> x.asked]
        /\ x.at = "create" /\ x.asked = proc[p].asked /\ x.build = build
    BY <1>4, <1>6
  <1>8. proc' = [f EXCEPT ![p] = x]
    BY <1>5, <1>6
  <1>9. /\ proc'[p] = x /\ \A q \in Pids : q # p => proc'[q] = proc[q]
        /\ proc' = [q \in Pids |-> proc'[q]]
    BY <1>3, <1>8
  <1>10. ASSUME NEW q \in Pids
         PROVE  /\ proc'[q] = [at |-> proc'[q].at, build |-> proc'[q].build,
                               tries |-> proc'[q].tries, asked |-> proc'[q].asked]
                /\ proc'[q].asked \in BOOLEAN
    <2>1. CASE q = p
      BY <1>7, <1>9, <2>1 DEF ProcessesOK
    <2>2. CASE q # p
      BY <1>9, <2>2 DEF ProcessesOK
    <2> QED
      BY <2>1, <2>2
  <1> QED
    BY <1>7, <1>9, <1>10 DEF ProcessesOK

LEMMA EndMoves ==
  ASSUME ProcessesOK, NEW p \in Pids, Ends(p)
  PROVE  /\ ProcessesOK'
         /\ proc'[p].at = "gone" /\ proc'[p].asked = FALSE
         /\ \A q \in Pids : q # p => proc'[q] = proc[q]
  BY DEF ProcessesOK, Ends, Gone

LEMMA CallMoves ==
  ASSUME CallsOK, NEW c \in Clients, NEW what, Calls(c, what)
  PROVE  /\ CallsOK'
         /\ op'[c].does = what /\ op'[c].pid = op[c].pid
         /\ \A d \in Clients : d # c => op'[d] = op[d]
  BY DEF CallsOK, Calls

LEMMA WorkerMoves ==
  ASSUME worker = [j \in Jobs |-> worker[j]], NEW j \in Jobs, NEW from, NEW to, Moves(j, from, to)
  PROVE  /\ worker[j] = from /\ worker' = [i \in Jobs |-> worker'[i]]
         /\ worker'[j] = to
         /\ \A i \in Jobs : i # j => worker'[i] = worker[i]
  BY DEF Moves

LEMMA PressMoves ==
  ASSUME JobsOK, NEW p, NEW j \in Jobs, NEW at, NEW to, Pressed(p, j, at, to)
  PROVE  /\ proc[p].at = "ready" /\ press[j].at = at
         /\ press' = [i \in Jobs |-> [at |-> press'[i].at, by |-> press'[i].by]]
         /\ press'[j].at = to
         /\ \A i \in Jobs : i # j => press'[i] = press[i]
  BY DEF JobsOK, Pressed

LEMMA KnownMoves ==
  ASSUME JobsOK, NEW r \in Readers, NEW x, JobRecord(x), known' = [known EXCEPT ![r] = x]
  PROVE  /\ known' = [i \in Readers |-> known'[i]] /\ known'[r] = x
         /\ \A i \in Readers : i # r => known'[i] = known[i]
         /\ \A i \in Readers : JobRecord(known'[i])
  <1>1. known = [i \in Readers |-> known[i]] /\ \A i \in Readers : JobRecord(known[i])
    BY DEF JobsOK
  <1> HIDE DEF JobsOK
  <1>2. /\ known' = [i \in Readers |-> known'[i]] /\ known'[r] = x
        /\ \A i \in Readers : i # r => known'[i] = known[i]
    BY <1>1
  <1> QED
    BY <1>1, <1>2

LEMMA SaveMoves ==
  ASSUME JobsOK, NEW job, JobRecord(job), NEW ok, Save(job, ok)
  PROVE  /\ JobRecord(disk') /\ (disk' = job \/ disk' = disk)
         /\ ok => disk' = job
         /\ ok \/ disk' = disk
  BY DEF Save, JobsOK

LEMMA MarkMoves ==
  ASSUME JobsOK, NEW j \in Jobs, NEW from, NEW phase, NEW good, NEW bad,
         Mark(j, from, phase, good, bad)
  PROVE  /\ worker[j] = from /\ worker' = [i \in Jobs |-> worker'[i]]
         /\ \A i \in Jobs : i # j => worker'[i] = worker[i]
         /\ \A i \in Readers : i # j => known'[i] = known[i]
         /\ known' = [i \in Readers |-> known'[i]] /\ \A i \in Readers : JobRecord(known'[i])
         /\ known'[j].id = known[j].id /\ known'[j].prior = known[j].prior /\ known'[j].phase = phase
         /\ JobRecord(disk')
         /\ \/ disk' = known'[j] /\ worker'[j] = good
            \/ disk' = disk /\ worker'[j] = bad
         /\ UNCHANGED <<pidFile, proc, op, site, press, holder>>
  <1> DEFINE y == [known[j] EXCEPT !.phase = phase]
  <1>1. j \in Readers /\ JobRecord(known[j]) /\ known = [i \in Readers |-> known[i]]
    BY DEF Readers, JobsOK
  <1>2. JobRecord(y) /\ y.id = known[j].id /\ y.phase = phase /\ y.prior = known[j].prior
    BY <1>1, PhaseMoves, SMTT(60)
  <1>3. known' = [known EXCEPT ![j] = y]
    BY <1>1 DEF Mark
  <1>4. PICK ok \in BOOLEAN : Save(y, ok) /\ Moves(j, from, IF ok THEN good ELSE bad)
    BY DEF Mark
  <1> HIDE DEF y
  <1>5. /\ known' = [i \in Readers |-> known'[i]] /\ \A i \in Readers : JobRecord(known'[i])
        /\ known'[j] = y /\ \A i \in Readers : i # j => known'[i] = known[i]
    BY <1>1, <1>2, <1>3, KnownMoves
  <1>6. JobRecord(disk') /\ (ok => disk' = y) /\ (ok \/ disk' = disk)
    BY <1>2, <1>4, SaveMoves
  <1>7. /\ worker[j] = from /\ worker' = [i \in Jobs |-> worker'[i]]
        /\ worker'[j] = (IF ok THEN good ELSE bad)
        /\ \A i \in Jobs : i # j => worker'[i] = worker[i]
    BY <1>4, WorkerMoves DEF JobsOK
  <1>8. UNCHANGED <<pidFile, proc, op, site, press, holder>>
    BY DEF Mark
  <1> QED
    BY <1>2, <1>5, <1>6, <1>7, <1>8

(***************************************************************************)
(* One poller.  Where the processes stand: at most one runs, and once it   *)
(* is past its takeover of the pid file the file is its own.  A worker     *)
(* that has looked at the daemon (Past) knows of every process that is     *)
(* still starting: it is waiting for it; that is why the second of two     *)
(* starts finds the first one in the file.  A job is queued by a daemon    *)
(* that runs (prior), so a worker that comes after a dead one goes on only *)
(* if the process the dead one has started has come that far.              *)
(***************************************************************************)
InTurn == spent \cap {"slow", "operator"} = {}
Starting(p) == proc[p].at \in {"create", "read", "remove"}
Supervising == {"stop", "start", "health", "rollstop", "restart", "rehealth"}
Past == Supervising \cup {"backup", "backed", "stopped", "merge", "build", "installed", "verify",
                          "roll", "reset", "restore", "reread"}
Locked == Past \cup {"load", "check", "fail", "succeeded", "rolled", "stuck", "unlock"}

PressFirst == \A j \in Jobs : press[j].at # "done" => worker[j] = "none"
OneHolder == \A j \in Jobs : worker[j] \in Locked => holder = j
OwnJob == \A j \in Jobs : worker[j] \in Locked \ {"load", "unlock"} => known[j].id = j

OneRuns == \A p, q \in Pids : Runs(p) /\ Runs(q) => p = q
FileOwned ==
  /\ \A p \in Pids : Runs(p) /\ ~Starting(p) => pidFile = p
  /\ pidFile \in Pids => proc[pidFile].at # "free" /\ ~Starting(pidFile)
ByJobs ==
  /\ \A c \in Clients : op[c].does # "idle" => c \in Jobs /\ worker[c] \in Supervising
  /\ \A c \in Clients : op[c].does \in {"claim", "stopping"} => op[c].pid \in Pids
Awaited ==
  \A j \in Jobs : worker[j] \in Past =>
    \A p \in Pids : Starting(p) => op[j].does = "claim" /\ op[j].pid = p
WithDaemon ==
  /\ disk.id \in Jobs => disk.prior
  /\ \A r \in Readers : known[r].id \in Jobs => known[r].prior

Records == ProcessesOK /\ CallsOK /\ JobsOK
Turns == OneRuns /\ FileOwned /\ ByJobs /\ Awaited /\ WithDaemon
PollInv == Records /\ PressFirst /\ OneHolder /\ OwnJob /\ (InTurn => Turns)

LEMMA PollInit == UpdateInit => PollInv
  <1> SUFFICES ASSUME UpdateInit PROVE PollInv
    OBVIOUS
  <1>1. PICK p \in Pids :
          /\ pidFile = p
          /\ proc = [q \in Pids |-> [at |-> IF q = p THEN "ready" ELSE "free", build |-> Before,
                                     tries |-> 0, asked |-> FALSE]]
    BY DEF UpdateInit
  <1>2. ProcessesOK
    BY <1>1 DEF ProcessesOK
  <1>3. CallsOK
    BY DEF UpdateInit, CallsOK
  <1>4. JobsOK
    BY NoJobIsRecord DEF UpdateInit, JobsOK
  <1>5. PressFirst /\ OneHolder /\ OwnJob
    BY DEF UpdateInit, PressFirst, OneHolder, OwnJob, Locked, Past, Supervising
  <1>6. OneRuns /\ FileOwned
    BY <1>1 DEF OneRuns, FileOwned, Runs, Starting
  <1>7. ByJobs /\ Awaited
    BY <1>1 DEF UpdateInit, ByJobs, Awaited, Starting
  <1>8. WithDaemon
    BY SelfUpdateAssumption DEF UpdateInit, WithDaemon, NoJob
  <1> QED
    BY <1>2, <1>3, <1>4, <1>5, <1>6, <1>7, <1>8 DEF PollInv, Records, Turns

---------------------------------------------------------------------------
(* The daemon's steps.                                                     *)

(* A process that is past its takeover goes on, or ends.                   *)
LEMMA ProcessGoes ==
  ASSUME Turns, NEW p \in Pids, Runs(p), ~Starting(p),
         proc'[p].at \notin {"free", "create", "read", "remove"},
         \A q \in Pids : q # p => proc'[q] = proc[q],
         UNCHANGED <<pidFile, op, worker>>
  PROVE  OneRuns' /\ FileOwned' /\ ByJobs' /\ Awaited'
  <1>1. \A q \in Pids : Runs(q)' => Runs(q)
    BY DEF Runs
  <1>2. \A q \in Pids : Starting(q)' => Starting(q)
    BY DEF Starting
  <1>3. OneRuns'
    BY <1>1 DEF Turns, OneRuns
  <1>4. FileOwned'
    BY <1>1, <1>2 DEF Turns, FileOwned, Runs, Starting
  <1>5. ByJobs' /\ Awaited'
    BY <1>2 DEF Turns, ByJobs, Awaited
  <1> QED
    BY <1>3, <1>4, <1>5

(* A process that starts meets no other: it takes the file, gives up, or   *)
(* removes what a dead process has left.                                   *)
LEMMA ProcessStarts ==
  ASSUME Turns, ProcessesOK, NEW p \in Pids, Create(p) \/ Read(p) \/ Remove(p), UNCHANGED worker
  PROVE  ProcessesOK' /\ OneRuns' /\ FileOwned' /\ ByJobs' /\ Awaited'
  <1>1. Runs(p) /\ Starting(p) /\ UNCHANGED op
    BY DEF Create, Read, Remove, Runs, Starting
  <1>2. \A q \in Pids : Runs(q) => q = p
    BY <1>1 DEF Turns, OneRuns
  <1>3. pidFile # p
    BY <1>1 DEF Turns, FileOwned
  <1>4. /\ ProcessesOK' /\ \A q \in Pids : q # p => proc'[q] = proc[q]
        /\ \/ pidFile' = p /\ proc'[p].at = "recover"
           \/ pidFile' \in {pidFile, Nobody} /\ proc'[p].at \in {"gone", "create", "read", "remove"}
    <2>1. CASE Create(p)
      BY <2>1, AtMoves DEF Create
    <2>2. CASE Read(p)
      BY <2>2, AtMoves, EndMoves DEF Read
    <2>3. CASE Remove(p) /\ Ends(p)
      BY <2>3, EndMoves DEF Remove
    <2>4. CASE /\ Remove(p)
               /\ proc' = [proc EXCEPT ![p] = [at |-> "create", build |-> @.build,
                                               tries |-> @.tries + 1, asked |-> @.asked]]
      <3>1. ProcessesOK' /\ proc'[p].at = "create" /\ \A q \in Pids : q # p => proc'[q] = proc[q]
        BY <2>4 DEF ProcessesOK
      <3> QED
        BY <2>4, <3>1 DEF Remove
    <2> QED
      BY <2>1, <2>2, <2>3, <2>4 DEF Remove
  <1>5. \A q \in Pids : Runs(q)' => q = p
    BY <1>2, <1>4 DEF Runs
  <1>6. \A q \in Pids : Starting(q)' => Starting(q)
    BY <1>1, <1>4 DEF Starting
  <1>7. OneRuns'
    BY <1>5 DEF OneRuns
  <1>8. FileOwned'
    <2>1. \A q \in Pids : Runs(q)' /\ ~Starting(q)' => pidFile' = q
      BY <1>4, <1>5 DEF Runs, Starting
    <2>2. pidFile' \in Pids => proc'[pidFile'].at # "free" /\ ~(proc'[pidFile'].at \in {"create", "read", "remove"})
      BY <1>3, <1>4, SupervisorAssumption DEF Turns, FileOwned, Starting
    <2> QED
      BY <2>1, <2>2 DEF FileOwned, Starting
  <1>9. ByJobs' /\ Awaited'
    BY <1>1, <1>6 DEF Turns, ByJobs, Awaited
  <1> QED
    BY <1>4, <1>7, <1>8, <1>9

LEMMA ProcessReleases ==
  ASSUME Turns, ProcessesOK, NEW p \in Pids, Release(p) \/ Unlink(p), UNCHANGED worker
  PROVE  ProcessesOK' /\ OneRuns' /\ FileOwned' /\ ByJobs' /\ Awaited'
  <1>1. Runs(p) /\ ~Starting(p) /\ UNCHANGED op
    BY DEF Release, Unlink, Runs, Starting
  <1>2. CASE Release(p)
    <2>1. UNCHANGED <<pidFile, op, worker>>
      BY <1>2 DEF Release
    <2>2. /\ ProcessesOK' /\ \A q \in Pids : q # p => proc'[q] = proc[q]
          /\ proc'[p].at \in {"unlink", "gone"}
      BY <1>2, AtMoves, EndMoves DEF Release
    <2> QED
      BY <1>1, <2>1, <2>2, ProcessGoes
  <1>3. CASE Unlink(p)
    <2>1. /\ ProcessesOK' /\ \A q \in Pids : q # p => proc'[q] = proc[q]
          /\ pidFile' = Nobody /\ proc'[p].at = "gone"
      BY <1>3, EndMoves DEF Unlink
    <2>2. \A q \in Pids : ~Runs(q)' /\ ~Starting(q)'
      BY <1>1, <2>1 DEF Turns, OneRuns, Runs, Starting
    <2>3. OneRuns' /\ FileOwned'
      BY <2>1, <2>2, SupervisorAssumption DEF OneRuns, FileOwned
    <2>4. ByJobs' /\ Awaited'
      BY <1>1, <2>2 DEF Turns, ByJobs, Awaited
    <2> QED
      BY <2>1, <2>3, <2>4
  <1> QED
    BY <1>2, <1>3

(* What a reader of the journal does to what is known and recorded.        *)
LEMMA JournalRead ==
  ASSUME JobsOK, NEW r \in Readers, NEW x \in {disk, NoJob}, known' = [known EXCEPT ![r] = x]
  PROVE  /\ known' = [i \in Readers |-> known'[i]] /\ \A i \in Readers : JobRecord(known'[i])
         /\ known'[r] = x /\ \A i \in Readers : i # r => known'[i] = known[i]
         /\ WithDaemon => \A i \in Readers : known'[i].id \in Jobs => known'[i].prior
  <1>1. JobRecord(x)
    BY NoJobIsRecord DEF JobsOK
  <1>2. /\ known' = [i \in Readers |-> known'[i]] /\ known'[r] = x
        /\ \A i \in Readers : i # r => known'[i] = known[i]
        /\ \A i \in Readers : JobRecord(known'[i])
    BY <1>1, KnownMoves
  <1>3. WithDaemon => (x.id \in Jobs => x.prior)
    BY SelfUpdateAssumption DEF WithDaemon, NoJob
  <1> QED
    BY <1>2, <1>3 DEF WithDaemon

LEMMA JournalWritten ==
  ASSUME JobsOK, NEW r \in Readers, NEW phase, NEW ok,
         \/ Save([known[r] EXCEPT !.phase = phase], ok)
         \/ Save([known[r] EXCEPT !.sent = TRUE], ok)
  PROVE  /\ JobRecord(disk')
         /\ WithDaemon => (disk'.id \in Jobs => disk'.prior)
         /\ \/ disk' = disk
            \/ disk'.id = known[r].id /\ disk'.prior = known[r].prior /\ disk'.phase \in {phase, known[r].phase}
  <1>1. JobRecord(known[r])
    BY DEF JobsOK
  <1>2. CASE Save([known[r] EXCEPT !.phase = phase], ok)
    <2>1. PICK x : x = [known[r] EXCEPT !.phase = phase]
      OBVIOUS
    <2>2. JobRecord(x) /\ x.id = known[r].id /\ x.prior = known[r].prior /\ x.phase = phase
      BY <1>1, <2>1, PhaseMoves
    <2>3. JobRecord(disk') /\ (disk' = x \/ disk' = disk)
      BY <1>2, <2>1, <2>2, SaveMoves
    <2> QED
      BY <2>2, <2>3 DEF WithDaemon
  <1>3. CASE Save([known[r] EXCEPT !.sent = TRUE], ok)
    <2>1. PICK x : x = [known[r] EXCEPT !.sent = TRUE]
      OBVIOUS
    <2>2. JobRecord(x) /\ x.id = known[r].id /\ x.prior = known[r].prior /\ x.phase = known[r].phase
      BY <1>1, <2>1, SentMoves
    <2>3. JobRecord(disk') /\ (disk' = x \/ disk' = disk)
      BY <1>3, <2>1, <2>2, SaveMoves
    <2> QED
      BY <2>2, <2>3 DEF WithDaemon
  <1> QED
    BY <1>2, <1>3

(* A daemon touches no job but by the journal.                             *)
LEMMA DaemonJobs ==
  ASSUME JobsOK, NEW p \in Pids, Daemon(p)
  PROVE  /\ JobsOK' /\ (WithDaemon => WithDaemon')
         /\ UNCHANGED <<op, site, press, worker, holder>>
         /\ \A r \in Readers : r # p => known'[r] = known[r]
  <1>1. p \in Readers /\ p \notin Jobs
    BY SelfUpdateAssumption DEF Readers
  <1>2. UNCHANGED <<op, site, press, worker, holder>>
    BY <1>1 DEF Daemon, RecoverActive, RecoverLoad, RecoverSave, Boot, Tell, TellLoad, TellEdit, TellNote,
                Delivers, DaemonStep, Create, Read, Remove, Release, Unlink, Quit, Killed
  <1>3. CASE UNCHANGED <<disk, known>>
    BY <1>2, <1>3 DEF JobsOK, WithDaemon
  <1>4. CASE UNCHANGED disk /\ \E x \in {disk, NoJob} : known' = [known EXCEPT ![p] = x]
    BY <1>1, <1>2, <1>4, JournalRead DEF JobsOK, WithDaemon
  <1>5. CASE RecoverSave(p)
    <2>1. PICK ok \in BOOLEAN : Save([known[p] EXCEPT !.phase = "interrupted"], ok)
      BY <1>5 DEF RecoverSave
    <2>2. JobRecord(disk') /\ (WithDaemon => (disk'.id \in Jobs => disk'.prior))
      BY <1>1, <2>1, JournalWritten
    <2>3. known' = known
      BY <1>5 DEF RecoverSave
    <2> QED
      BY <1>2, <2>2, <2>3 DEF JobsOK, WithDaemon
  <1>6. CASE TellNote(p)
    <2>1. PICK ok \in BOOLEAN : Save([known[p] EXCEPT !.sent = TRUE], ok)
      BY <1>6 DEF TellNote
    <2>2. JobRecord(disk') /\ (WithDaemon => (disk'.id \in Jobs => disk'.prior))
      BY <1>1, <2>1, JournalWritten
    <2>3. known' = [known EXCEPT ![p] = NoJob]
      BY <1>6 DEF TellNote
    <2>4. /\ known' = [i \in Readers |-> known'[i]] /\ \A i \in Readers : JobRecord(known'[i])
          /\ \A i \in Readers : i # p => known'[i] = known[i]
          /\ WithDaemon => \A i \in Readers : known'[i].id \in Jobs => known'[i].prior
      BY <1>1, <2>3, JournalRead
    <2> QED
      BY <1>2, <2>2, <2>4 DEF JobsOK, WithDaemon
  <1>7. \/ UNCHANGED <<disk, known>>
        \/ UNCHANGED disk /\ \E x \in {disk, NoJob} : known' = [known EXCEPT ![p] = x]
        \/ RecoverSave(p) \/ TellNote(p)
    BY DEF Daemon, RecoverActive, RecoverLoad, Boot, Tell, TellLoad, TellEdit
  <1> QED
    BY <1>3, <1>4, <1>5, <1>6, <1>7

LEMMA DaemonTurns ==
  ASSUME PollInv, NEW p \in Pids, Daemon(p)
  PROVE  /\ ProcessesOK'
         /\ InTurn => OneRuns' /\ FileOwned' /\ ByJobs' /\ Awaited'
  <1>1. UNCHANGED <<op, worker>> /\ ProcessesOK
    BY DaemonJobs DEF PollInv, Records
  <1>2. CASE Create(p) \/ Read(p) \/ Remove(p) \/ Release(p) \/ Unlink(p)
    <2>1. InTurn => OneRuns' /\ FileOwned' /\ ByJobs' /\ Awaited'
      BY <1>1, <1>2, ProcessStarts, ProcessReleases DEF PollInv
    <2>2. ProcessesOK'
      <3>1. CASE Remove(p) /\ proc' = [proc EXCEPT ![p] = [at |-> "create", build |-> @.build,
                                               tries |-> @.tries + 1, asked |-> @.asked]]
        BY <1>1, <3>1 DEF ProcessesOK
      <3> QED
        BY <1>1, <1>2, <3>1, AtMoves, EndMoves DEF Create, Read, Remove, Release, Unlink
    <2> QED
      BY <2>1, <2>2
  <1>3. CASE Killed(p)
    <2>1. Runs(p) /\ pidFile' = pidFile
      BY <1>3 DEF Killed
    <2>2. ProcessesOK' /\ proc'[p].at = "gone" /\ \A q \in Pids : q # p => proc'[q] = proc[q]
      BY <1>1, <1>3, EndMoves DEF Killed
    <2>3. (\A q \in Pids : Runs(q)' => Runs(q)) /\ (\A q \in Pids : Starting(q)' => Starting(q))
      BY <2>2 DEF Runs, Starting
    <2>4. ASSUME Turns PROVE OneRuns' /\ FileOwned' /\ ByJobs' /\ Awaited'
      <3>1. OneRuns' /\ ByJobs' /\ Awaited'
        BY <1>1, <2>3, <2>4 DEF Turns, OneRuns, ByJobs, Awaited
      <3>2. FileOwned'
        BY <2>1, <2>2, <2>3, <2>4 DEF Turns, FileOwned, Runs, Starting
      <3> QED
        BY <3>1, <3>2
    <2> QED
      BY <2>2, <2>4 DEF PollInv
  <1>4. CASE ~(Create(p) \/ Read(p) \/ Remove(p) \/ Release(p) \/ Unlink(p) \/ Killed(p))
    <2>1. proc[p].at \in {"recover", "attended", "alone", "interrupt", "tell", "edit", "note",
                          "boot", "clean", "sweep", "ready"}
      BY <1>4, SelfUpdateAssumption
         DEF Daemon, DaemonStep, RecoverActive, RecoverLoad, RecoverSave, Boot, Quit, Listening,
             Tell, TellLoad, TellEdit, TellNote, Delivers
    <2>2. pidFile' = pidFile /\ \E step \in {"attended", "alone", "interrupt", "tell", "edit", "note",
                          "boot", "clean", "sweep", "ready", "release"} : At(p, step)
      BY <1>4, SelfUpdateAssumption
         DEF Daemon, DaemonStep, RecoverActive, RecoverLoad, RecoverSave, Boot, Quit, Listening,
             Tell, TellLoad, TellEdit, TellNote, Delivers
    <2>3. /\ ProcessesOK' /\ \A q \in Pids : q # p => proc'[q] = proc[q]
          /\ proc'[p].at \notin {"free", "create", "read", "remove"}
      BY <1>1, <2>2, AtMoves
    <2>4. Runs(p) /\ ~Starting(p)
      BY <2>1 DEF Runs, Starting
    <2> QED
      BY <1>1, <2>2, <2>3, <2>4, ProcessGoes DEF PollInv
  <1> QED
    BY <1>2, <1>3, <1>4

LEMMA DaemonPolls ==
  ASSUME PollInv, NEW p \in Pids, Daemon(p)
  PROVE  Records' /\ PressFirst' /\ OneHolder' /\ (InTurn => Turns')
  <1>1. Records /\ PressFirst /\ OneHolder /\ (InTurn => Turns)
    BY DEF PollInv
  <1>2. /\ JobsOK' /\ (WithDaemon => WithDaemon') /\ UNCHANGED <<op, press, worker, holder>>
    BY <1>1, DaemonJobs DEF Records
  <1>3. PressFirst' /\ OneHolder' /\ CallsOK'
    BY <1>1, <1>2 DEF PressFirst, OneHolder, CallsOK, Records
  <1> QED
    BY <1>1, <1>2, <1>3, DaemonTurns DEF Records, Turns

---------------------------------------------------------------------------
(* The panel's steps: it belongs to a daemon that runs, so the file is     *)
(* that daemon's and the job it queues knows of it.                        *)
LEMMA OffersMove ==
  ASSUME JobsOK, PressFirst, NEW p \in Pids, NEW j \in Jobs, CheckRelease(p, j)
  PROVE  JobsOK' /\ PressFirst'
  <1>1. press = [i \in Jobs |-> [at |-> press[i].at, by |-> press[i].by]]
    BY DEF JobsOK
  <1>2. press' = [i \in Jobs |-> IF i = j THEN [at |-> "offered", by |-> p]
                                 ELSE IF press[i].at = "offered" /\ press[i].by = p
                                   THEN [press[i] EXCEPT !.at = "void"] ELSE press[i]]
    BY DEF CheckRelease
  <1>3. ASSUME NEW i \in Jobs
        PROVE  /\ press'[i] = [at |-> press'[i].at, by |-> press'[i].by]
               /\ press'[i].at # "done" => press[i].at # "done"
    <2>1. CASE i = j
      BY <1>2, <2>1 DEF CheckRelease
    <2>2. CASE i # j /\ press[i].at = "offered" /\ press[i].by = p
      <3>1. press[i] = [at |-> press[i].at, by |-> press[i].by]
        BY <1>1
      <3>2. press'[i] = [press[i] EXCEPT !.at = "void"]
        BY <1>2, <2>2
      <3> QED
        BY <2>2, <3>1, <3>2
    <2>3. CASE i # j /\ ~(press[i].at = "offered" /\ press[i].by = p)
      <3>1. press'[i] = press[i]
        BY <1>2, <2>3
      <3> QED
        BY <1>1, <3>1
    <2> QED
      BY <2>1, <2>2, <2>3
  <1>4. press' = [i \in Jobs |-> [at |-> press'[i].at, by |-> press'[i].by]]
    BY <1>2, <1>3
  <1>5. UNCHANGED <<worker, known, disk>>
    BY DEF CheckRelease
  <1> QED
    BY <1>3, <1>4, <1>5 DEF JobsOK, PressFirst

LEMMA PanelPolls ==
  ASSUME PollInv, NEW p \in Pids, NEW j \in Jobs, Panel(p, j)
  PROVE  Records' /\ PressFirst' /\ OneHolder' /\ (InTurn => Turns')
  <1>1. JobsOK /\ ProcessesOK /\ CallsOK /\ PressFirst /\ OneHolder /\ (InTurn => Turns)
    BY DEF PollInv, Records
  <1>2. UNCHANGED <<pidFile, proc, op, holder>>
    BY DEF Panel, CheckRelease, Consume, StartLoad, StartSave, Launch, Unlaunched
  <1>3. ProcessesOK' /\ CallsOK'
    BY <1>1, <1>2 DEF ProcessesOK, CallsOK
  <1>4. InTurn => OneRuns' /\ FileOwned'
    BY <1>1, <1>2 DEF Turns, OneRuns, FileOwned, Runs, Starting
  <1>5. proc[p].at = "ready" /\ j \in Readers
    BY DEF Panel, CheckRelease, Consume, StartLoad, StartSave, Launch, Unlaunched, Pressed, Readers
  <1>6. CASE UNCHANGED worker
    <2>1. OneHolder' /\ (InTurn => ByJobs' /\ Awaited')
      BY <1>1, <1>2, <1>6 DEF OneHolder, Turns, ByJobs, Awaited, Starting
    <2>2. JobsOK' /\ PressFirst' /\ (InTurn => WithDaemon')
      <3>1. CASE CheckRelease(p, j)
        <4>1. UNCHANGED <<disk, known>>
          BY <3>1 DEF CheckRelease
        <4> QED
          BY <1>1, <3>1, <4>1, OffersMove DEF Turns, WithDaemon
      <3>2. CASE \E at, to : /\ at \in {"offered", "load", "launch"} /\ Pressed(p, j, at, to)
                               /\ UNCHANGED <<disk, known>>
        <4>1. PICK at, to : /\ at \in {"offered", "load", "launch"} /\ Pressed(p, j, at, to)
                            /\ UNCHANGED <<disk, known>>
          BY <3>2
        <4>2. /\ press[j].at = at
              /\ press' = [i \in Jobs |-> [at |-> press'[i].at, by |-> press'[i].by]]
              /\ \A i \in Jobs : i # j => press'[i] = press[i]
          BY <1>1, <4>1, PressMoves
        <4>3. PressFirst'
          <5>1. at # "done" /\ press[j].at # "done"
            BY <4>1, <4>2
          <5> QED
            BY <1>1, <1>6, <4>2, <5>1 DEF PressFirst
        <4>4. JobsOK' /\ (InTurn => WithDaemon')
          BY <1>1, <1>6, <4>1, <4>2 DEF JobsOK, Turns, WithDaemon
        <4> QED
          BY <4>3, <4>4
      <3>3. CASE StartSave(p, j)
        <4>1. PICK ok \in BOOLEAN : /\ Save(Queued(j), ok)
                                    /\ Pressed(p, j, "save", IF ok THEN "launch" ELSE "void")
          BY <3>3 DEF StartSave
        <4>2. JobRecord(Queued(j)) /\ (InTurn => Queued(j).prior)
          <5>1. JobRecord(Queued(j))
            BY DEF JobRecord, Queued, DaemonRuns, Runs
          <5>2. InTurn => pidFile = p
            BY <1>1, <1>5 DEF Turns, FileOwned, Runs, Starting
          <5>3. InTurn => DaemonRuns
            BY <1>5, <5>2 DEF DaemonRuns, Runs
          <5> QED
            BY <5>1, <5>3 DEF Queued
        <4>3. /\ press[j].at = "save"
              /\ press' = [i \in Jobs |-> [at |-> press'[i].at, by |-> press'[i].by]]
              /\ \A i \in Jobs : i # j => press'[i] = press[i]
          BY <1>1, <4>1, PressMoves, ZenonT(60)
        <4>4. known' = [known EXCEPT ![j] = Queued(j)]
          BY <3>3 DEF StartSave
        <4>5. /\ known' = [i \in Readers |-> known'[i]] /\ \A i \in Readers : JobRecord(known'[i])
              /\ known'[j] = Queued(j) /\ \A i \in Readers : i # j => known'[i] = known[i]
          BY <1>1, <1>5, <4>2, <4>4, KnownMoves
        <4>6. JobRecord(disk') /\ (disk' = Queued(j) \/ disk' = disk)
          BY <1>1, <4>1, <4>2, SaveMoves
        <4>7. JobsOK'
          BY <1>1, <1>6, <4>3, <4>5, <4>6 DEF JobsOK
        <4>8. PressFirst'
          BY <1>1, <1>6, <4>3 DEF PressFirst
        <4>9. InTurn => WithDaemon'
          BY <1>1, <4>2, <4>5, <4>6 DEF Turns, WithDaemon
        <4> QED
          BY <4>7, <4>8, <4>9
      <3>4. CASE Unlaunched(p, j)
        <4>1. PICK ok \in BOOLEAN : Save([known[j] EXCEPT !.phase = "failed"], ok)
          BY <3>4 DEF Unlaunched
        <4>2. Pressed(p, j, "unlaunched", "done") /\ UNCHANGED known
          BY <3>4 DEF Unlaunched
        <4>3. /\ press[j].at = "unlaunched"
              /\ press' = [i \in Jobs |-> [at |-> press'[i].at, by |-> press'[i].by]]
              /\ \A i \in Jobs : i # j => press'[i] = press[i]
          BY <1>1, <4>2, PressMoves, ZenonT(60)
        <4>4. JobRecord(disk') /\ (WithDaemon => (disk'.id \in Jobs => disk'.prior))
          BY <1>1, <1>5, <4>1, JournalWritten
        <4>5. JobsOK'
          BY <1>1, <1>6, <4>2, <4>3, <4>4 DEF JobsOK
        <4>6. PressFirst'
          BY <1>1, <1>6, <4>3 DEF PressFirst
        <4>7. InTurn => WithDaemon'
          BY <1>1, <4>2, <4>4 DEF Turns, WithDaemon
        <4> QED
          BY <4>5, <4>6, <4>7
      <3>5. Consume(p, j) \/ StartLoad(p, j) \/ Launch(p, j) =>
              \E at, to : /\ at \in {"offered", "load", "launch"} /\ Pressed(p, j, at, to)
                          /\ UNCHANGED <<disk, known>>
        BY DEF Consume, StartLoad, Launch
      <3> QED
        BY <3>1, <3>2, <3>3, <3>4, <3>5 DEF Panel
    <2> QED
      BY <1>3, <1>4, <2>1, <2>2 DEF Records, Turns
  <1>7. CASE Launch(p, j) /\ worker' = [worker EXCEPT ![j] = "acquire"]
    <2>1. Pressed(p, j, "launch", "done") /\ UNCHANGED <<disk, known>>
      <3>1. Pressed(p, j, "launch", "done") \/ worker' = worker
        BY <1>7 DEF Launch
      <3>2. press[j].at = "launch"
        BY <1>7 DEF Launch, Pressed
      <3>3. worker[j] = "none"
        BY <1>1, <3>2 DEF PressFirst
      <3>4. worker' # worker
        BY <1>1, <1>7, <3>3 DEF JobsOK
      <3> QED
        BY <1>7, <3>1, <3>4 DEF Launch
    <2>2. /\ press[j].at = "launch" /\ press'[j].at = "done"
          /\ press' = [i \in Jobs |-> [at |-> press'[i].at, by |-> press'[i].by]]
          /\ \A i \in Jobs : i # j => press'[i] = press[i]
      <3>1. PICK at, to : at = "launch" /\ to = "done" /\ Pressed(p, j, at, to)
        BY <2>1
      <3>2. /\ press[j].at = at /\ press'[j].at = to
            /\ press' = [i \in Jobs |-> [at |-> press'[i].at, by |-> press'[i].by]]
            /\ \A i \in Jobs : i # j => press'[i] = press[i]
        <4>1. JobsOK /\ Pressed(p, j, at, to)
          BY <1>1, <3>1
        <4>2. press[j].at = at
          BY <4>1, PressMoves
        <4>3. press'[j].at = to
          BY <4>1 DEF JobsOK, Pressed
        <4>4. press' = [i \in Jobs |-> [at |-> press'[i].at, by |-> press'[i].by]]
          BY <4>1, PressMoves
        <4>5. \A i \in Jobs : i # j => press'[i] = press[i]
          BY <4>1, PressMoves
        <4> QED
          BY <4>2, <4>3, <4>4, <4>5
      <3> QED
        BY <3>1, <3>2
    <2>3. /\ worker' = [i \in Jobs |-> worker'[i]] /\ worker'[j] = "acquire"
          /\ \A i \in Jobs : i # j => worker'[i] = worker[i]
      BY <1>1, <1>7 DEF JobsOK
    <2>4. worker[j] = "none"
      BY <1>1, <2>2 DEF PressFirst
    <2>5. JobsOK' /\ (InTurn => WithDaemon')
      BY <1>1, <2>1, <2>2, <2>3 DEF JobsOK, Turns, WithDaemon
    <2>6. PressFirst'
      BY <1>1, <2>2, <2>3 DEF PressFirst
    <2>7. OneHolder'
      BY <1>1, <1>2, <2>3 DEF OneHolder, Locked, Past, Supervising
    <2>8. InTurn => ByJobs'
      BY <1>1, <1>2, <2>3, <2>4 DEF Turns, ByJobs, Supervising
    <2>9. InTurn => Awaited'
      BY <1>1, <1>2, <2>3 DEF Turns, Awaited, Past, Supervising, Starting
    <2> QED
      BY <1>3, <1>4, <2>5, <2>6, <2>7, <2>8, <2>9 DEF Records, Turns
  <1> QED
    BY <1>6, <1>7 DEF Panel, CheckRelease, Consume, StartLoad, StartSave, Launch, Unlaunched

---------------------------------------------------------------------------
(* The supervisor's steps: only the worker that has the lock makes them.   *)
LEMMA SpentGrows == UpdateNext => spent \subseteq spent'
  <1> SUFFICES ASSUME UpdateNext PROVE spent \subseteq spent'
    OBVIOUS
  <1>1. ASSUME NEW p \in Pids, Daemon(p) PROVE spent \subseteq spent'
    BY <1>1 DEF Daemon, RecoverActive, RecoverLoad, RecoverSave, Boot, Tell, TellLoad, TellEdit, TellNote,
       DaemonStep, Create, Read, Remove, Release, Unlink, Quit, Killed, Save, Fault
  <1>2. ASSUME NEW p \in Pids, NEW j \in Jobs, Panel(p, j) PROVE spent \subseteq spent'
    BY <1>2 DEF Panel, CheckRelease, Consume, StartLoad, StartSave, Launch, Unlaunched, Save, Fault
  <1>3. ASSUME NEW j \in Jobs, WorkerStep(j) PROVE spent \subseteq spent'
    BY <1>3 DEF WorkerStep, Acquire, LoadJob, CheckDaemon, Backup, Journal, Mark, Supervise, Supervised,
       Install, Rollback, Changes, Inspect, Unlock, Tell, TellLoad, TellEdit, TellNote, Die, Save, Fault
  <1>4. ASSUME NEW c \in Clients, Call(c) PROVE spent \subseteq spent'
    BY <1>4 DEF Call, Stop, Stopping, Start, Claim, Health, Fault
  <1>5. ASSUME NEW c \in Operator, Command(c) PROVE spent \subseteq spent'
    BY <1>5 DEF Command, Fault
  <1> QED
    BY <1>1, <1>2, <1>3, <1>4, <1>5 DEF UpdateNext

(* The operations of the supervisor, by what they leave of the processes.  *)
LEMMA CallEnds ==
  ASSUME Turns, CallsOK, NEW c \in Clients, op[c].does # "idle",
         \A q \in Pids : proc'[q].at \in {proc[q].at, "gone"},
         op' = [d \in Clients |-> [does |-> op'[d].does, pid |-> op'[d].pid]],
         \A d \in Clients : d # c => op'[d] = op[d],
         op'[c].does = "stopping" => op'[c].pid \in Pids,
         op'[c].does # "claim",
         op[c].does = "claim" => \A q \in Pids : ~Starting(q),
         UNCHANGED <<pidFile, worker>>
  PROVE  OneRuns' /\ FileOwned' /\ ByJobs' /\ Awaited'
  <1>1. \A q \in Pids : (Runs(q)' => Runs(q)) /\ (Starting(q)' => Starting(q))
    BY DEF Runs, Starting
  <1>2. OneRuns'
    BY <1>1 DEF Turns, OneRuns
  <1>3. FileOwned'
    BY <1>1 DEF Turns, FileOwned, Runs, Starting
  <1>4. ByJobs'
    BY DEF Turns, ByJobs
  <1>5. Awaited'
    <2>1. ASSUME NEW j \in Jobs, worker[j] \in Past, NEW q \in Pids, Starting(q)
          PROVE  op[j].does = "claim" /\ op[j].pid = q /\ j \in Clients /\ c \in Jobs /\ worker[c] \in Past
      BY <2>1, SelfUpdateAssumption DEF Turns, ByJobs, Awaited, Past
    <2>2. ASSUME NEW j \in Jobs, worker[j] \in Past, NEW q \in Pids, Starting(q) PROVE j # c
      <3>1. op[c].does = "claim" /\ op[c].pid = q
        BY <2>1, <2>2
      <3> QED
        BY <2>2, <3>1
    <2> QED
      BY <1>1, <2>1, <2>2 DEF Awaited
  <1> QED
    BY <1>2, <1>3, <1>4, <1>5

LEMMA CallPolls ==
  ASSUME PollInv, InTurn' => InTurn, NEW c \in Clients, Call(c)
  PROVE  Records' /\ PressFirst' /\ OneHolder' /\ (InTurn' => Turns')
  <1>1. JobsOK /\ ProcessesOK /\ CallsOK /\ PressFirst /\ OneHolder /\ (InTurn' => Turns)
    BY DEF PollInv, Records
  <1>2. UNCHANGED <<disk, site, press, worker, holder, known>>
    BY DEF Call
  <1>3. JobsOK' /\ PressFirst' /\ OneHolder' /\ (InTurn' => WithDaemon')
    BY <1>1, <1>2 DEF JobsOK, PressFirst, OneHolder, Turns, WithDaemon
  <1>4. pidFile' = pidFile
    BY DEF Call, Stop, Stopping, Start, Claim, Health
  <1>5. SUFFICES ProcessesOK' /\ CallsOK' /\ (InTurn' => OneRuns' /\ FileOwned' /\ ByJobs' /\ Awaited')
    BY <1>3 DEF Records, Turns
  <1>6. ASSUME NEW what, what \notin {"claim", "stopping"}, Calls(c, what), op[c].does # "idle", UNCHANGED proc,
               InTurn' /\ op[c].does = "claim" => \A q \in Pids : ~Starting(q)
        PROVE  ProcessesOK' /\ CallsOK' /\ (InTurn' => OneRuns' /\ FileOwned' /\ ByJobs' /\ Awaited')
    <2>1. ProcessesOK'
      BY <1>1, <1>6 DEF ProcessesOK
    <2>2. CallsOK' /\ op'[c].does = what /\ \A d \in Clients : d # c => op'[d] = op[d]
      BY <1>1, <1>6, CallMoves
    <2>3. \A q \in Pids : proc'[q].at \in {proc[q].at, "gone"}
      BY <1>6
    <2> QED
      BY <1>1, <1>2, <1>4, <1>6, <2>1, <2>2, <2>3, CallEnds DEF CallsOK
  <1>7. CASE Stop(c)
    <2>1. CASE (Calls(c, "absent") \/ Calls(c, "failed")) /\ UNCHANGED proc
      BY <1>6, <1>7, <2>1 DEF Stop
    <2>3. CASE DaemonRuns /\ Calls(c, "failed") /\ proc' = Asked
      <3>1. op[c].does = "stop" /\ pidFile \in Pids
        BY <1>7, <2>3 DEF Stop, DaemonRuns, Runs
      <3>2. CallsOK' /\ op'[c].does = "failed" /\ \A d \in Clients : d # c => op'[d] = op[d]
        BY <1>1, <2>3, CallMoves
      <3>3. ProcessesOK' /\ \A q \in Pids : proc'[q].at \in {proc[q].at, "gone"}
        BY <1>1, <2>3, <3>1, AskMoves DEF Asked
      <3> QED
        BY <1>1, <1>2, <1>4, <3>1, <3>2, <3>3, CallEnds DEF CallsOK
    <2>2. CASE DaemonRuns /\ op' = [op EXCEPT ![c] = [does |-> "stopping", pid |-> pidFile]]
               /\ (proc' = Asked \/ proc' = [proc EXCEPT ![pidFile] = Gone])
      <3>1. op' = [op EXCEPT ![c] = [does |-> "stopping", pid |-> pidFile]] /\ pidFile \in Pids
        BY <1>7, <2>2 DEF Stop, DaemonRuns, Runs
      <3>2. CallsOK' /\ op'[c].does = "stopping" /\ op'[c].pid \in Pids /\ \A d \in Clients : d # c => op'[d] = op[d]
        BY <1>1, <3>1 DEF CallsOK
      <3>3. \/ proc' = [proc EXCEPT ![pidFile].asked = TRUE]
            \/ Ends(pidFile)
        BY <2>2 DEF Asked, Ends
      <3>4. ProcessesOK' /\ \A q \in Pids : proc'[q].at \in {proc[q].at, "gone"}
        <4>1. CASE proc' = [proc EXCEPT ![pidFile].asked = TRUE]
          BY <1>1, <3>1, <4>1, AskMoves
        <4>2. CASE Ends(pidFile)
          BY <1>1, <3>1, <4>2, EndMoves
        <4> QED
          BY <3>3, <4>1, <4>2
      <3>5. op[c].does = "stop"
        BY <1>7 DEF Stop
      <3> QED
        BY <1>1, <1>2, <1>4, <3>2, <3>4, <3>5, CallEnds DEF CallsOK
    <2> QED
      BY <1>7, <2>1, <2>2, <2>3 DEF Stop
  <1>8. CASE Stopping(c)
    <2>1. (Returns(c, "ok") \/ Returns(c, "failed")) /\ op[c].does = "stopping"
      BY <1>8 DEF Stopping
    <2>2. CallsOK' /\ op'[c].does \in {"ok", "failed"} /\ \A d \in Clients : d # c => op'[d] = op[d]
      BY <1>1, <2>1 DEF CallsOK, Returns
    <2>3. ProcessesOK' /\ \A q \in Pids : proc'[q].at \in {proc[q].at, "gone"}
      <3>1. CASE UNCHANGED proc
        BY <1>1, <3>1 DEF ProcessesOK
      <3>2. CASE Runs(op[c].pid) /\ Ends(op[c].pid)
        <4>1. op[c].pid \in Pids
          BY <3>2 DEF Runs
        <4> QED
          BY <1>1, <3>2, <4>1, EndMoves
      <3> QED
        BY <1>8, <3>1, <3>2 DEF Stopping
    <2> QED
      BY <1>1, <1>2, <1>4, <2>1, <2>2, <2>3, CallEnds DEF CallsOK
  <1>9. CASE Start(c, site.binary)
    <2>1. op[c].does = "start"
      BY <1>9 DEF Start
    <2>2. CASE (Calls(c, "already") \/ Calls(c, "failed")) /\ UNCHANGED proc
      BY <1>6, <2>1, <2>2
    <2>3. ASSUME ~DaemonRuns, NEW p \in Pids, proc[p].at = "free",
                 proc' = [proc EXCEPT ![p].at = "create", ![p].build = site.binary],
                 op' = [op EXCEPT ![c] = [does |-> "claim", pid |-> p]]
          PROVE  ProcessesOK' /\ CallsOK' /\ (InTurn' => OneRuns' /\ FileOwned' /\ ByJobs' /\ Awaited')
      <3>1. ProcessesOK' /\ proc'[p].at = "create" /\ \A q \in Pids : q # p => proc'[q] = proc[q]
        BY <1>1, <2>3, SpawnMoves
      <3>2. /\ CallsOK' /\ op'[c] = [does |-> "claim", pid |-> p]
            /\ \A d \in Clients : d # c => op'[d] = op[d]
        BY <1>1, <2>3 DEF CallsOK
      <3>3. ASSUME InTurn' PROVE OneRuns' /\ FileOwned' /\ ByJobs' /\ Awaited'
        <4>1. Turns /\ c \in Jobs /\ worker[c] \in Supervising
          BY <1>1, <2>1, <3>3 DEF Turns, ByJobs
        <4>2. \A q \in Pids : ~Starting(q)
          BY <2>1, <4>1 DEF Turns, Awaited, Past
        <4>3. \A q \in Pids : ~Runs(q)
          BY <2>3, <4>1, <4>2 DEF Turns, FileOwned, DaemonRuns
        <4>4. \A q \in Pids : Runs(q)' => q = p
          BY <3>1, <4>3 DEF Runs
        <4>5. OneRuns'
          BY <4>4 DEF OneRuns
        <4>6. FileOwned'
          <5>1. pidFile # p
            BY <2>3, <4>1 DEF Turns, FileOwned
          <5> QED
            BY <1>4, <3>1, <4>1, <4>4, <5>1 DEF Turns, FileOwned, Starting
        <4>7. ByJobs'
          BY <1>2, <3>2, <4>1 DEF Turns, ByJobs
        <4>8. Awaited'
          <5>1. ASSUME NEW j \in Jobs, worker[j] \in Past PROVE j = c
            BY <1>1, <4>1, <5>1 DEF OneHolder, Locked, Past
          <5>2. \A q \in Pids : Starting(q)' => q = p
            BY <3>1, <4>2 DEF Starting
          <5> QED
            BY <1>2, <3>2, <5>1, <5>2 DEF Awaited
        <4> QED
          BY <4>5, <4>6, <4>7, <4>8
      <3> QED
        BY <3>1, <3>2, <3>3
    <2> QED
      BY <1>9, <2>2, <2>3 DEF Start
  <1>10. CASE Claim(c)
    <2>1. op[c].does = "claim" /\ UNCHANGED proc
      BY <1>10 DEF Claim
    <2>2. (Calls(c, "failed") \/ Calls(c, "ok"))
      BY <1>10 DEF Claim
    <2>3. ASSUME InTurn', NEW q \in Pids, Starting(q) PROVE FALSE
      <3>1. Turns /\ c \in Jobs /\ worker[c] \in Past
        BY <1>1, <2>1, <2>3 DEF Turns, ByJobs, Past
      <3>2. q = op[c].pid
        BY <2>1, <2>3, <3>1 DEF Turns, Awaited
      <3>3. Runs(q)
        BY <2>3 DEF Starting, Runs
      <3>4. pidFile # q
        BY <2>3, <3>1 DEF Turns, FileOwned
      <3>5. Fault("slow")
        BY <1>10, <3>2, <3>3, <3>4 DEF Claim
      <3> QED
        BY <2>3, <3>5 DEF Fault, InTurn
    <2> QED
      BY <1>6, <2>1, <2>2, <2>3
  <1>11. CASE c \in Jobs /\ Health(c, IF worker[c] = "health" THEN After ELSE Before)
    <2>1. op[c].does = "health" /\ UNCHANGED proc
      BY <1>11 DEF Health
    <2>2. Calls(c, "failed") \/ Calls(c, "ok")
      BY <1>11 DEF Health
    <2> QED
      BY <1>6, <2>1, <2>2
  <1> QED
    BY <1>7, <1>8, <1>9, <1>10, <1>11 DEF Call

(* The job a worker goes by is its own.                                    *)
LEMMA OthersKeepJobs ==
  ASSUME PollInv,
         \/ \E p \in Pids : Daemon(p) \/ \E j \in Jobs : Panel(p, j)
         \/ \E c \in Clients : Call(c)
  PROVE  OwnJob'
  <1>1. JobsOK /\ PressFirst /\ OwnJob
    BY DEF PollInv, Records
  <1>2. CASE UNCHANGED <<worker, known>>
    BY <1>1, <1>2 DEF OwnJob
  <1>3. ASSUME NEW p \in Pids, Daemon(p) PROVE OwnJob'
    <2>1. UNCHANGED worker /\ \A r \in Readers : r # p => known'[r] = known[r]
      BY <1>1, <1>3, DaemonJobs
    <2>2. \A j \in Jobs : j # p /\ j \in Readers
      BY SelfUpdateAssumption DEF Readers
    <2> QED
      BY <1>1, <2>1, <2>2 DEF OwnJob
  <1>4. ASSUME NEW p \in Pids, NEW j \in Jobs, Panel(p, j) PROVE OwnJob'
    <2>1. CASE UNCHANGED worker /\ known' = [known EXCEPT ![j] = Queued(j)] /\ press[j].at = "save"
      BY <1>1, <2>1 DEF OwnJob, PressFirst, JobsOK, Readers, Locked, Past, Supervising
    <2>2. CASE UNCHANGED known /\ worker' = [worker EXCEPT ![j] = "acquire"]
      BY <1>1, <2>2 DEF OwnJob, JobsOK, Locked, Past, Supervising
    <2> QED
      BY <1>2, <1>4, <2>1, <2>2
         DEF Panel, CheckRelease, Consume, StartLoad, StartSave, Launch, Unlaunched, Pressed
  <1> QED
    BY <1>2, <1>3, <1>4 DEF Call

---------------------------------------------------------------------------
(* The worker's steps.                                                     *)

(* A worker that is past the check, and waits for no start, knows that     *)
(* nobody starts; without a call of the supervisor it waits for none.      *)
LEMMA NobodyStarts ==
  ASSUME Turns, NEW j \in Jobs
  PROVE  /\ worker[j] \in Past /\ op[j].does # "claim" => \A q \in Pids : ~Starting(q)
         /\ worker[j] \notin Supervising => op[j].does = "idle"
  BY SelfUpdateAssumption DEF Turns, ByJobs, Awaited

LEMMA WorkerGoes ==
  ASSUME JobsOK, PressFirst, OneHolder, NEW j \in Jobs,
         worker' = [i \in Jobs |-> worker'[i]], \A i \in Jobs : i # j => worker'[i] = worker[i],
         worker[j] # "none", worker'[j] \in Locked => worker[j] \in Locked,
         \A d \in Clients : d # j => op'[d] = op[d],
         UNCHANGED <<pidFile, proc, press, holder>>
  PROVE  /\ PressFirst' /\ OneHolder'
         /\ \/ ~Turns
            \/ op'[j].does # "idle" /\ ~(worker'[j] \in Supervising /\ op'[j].does \notin {"claim", "stopping"})
            \/ worker'[j] \in Past /\ \E q \in Pids : Starting(q)
            \/ OneRuns' /\ FileOwned' /\ ByJobs' /\ Awaited'
  <1>1. PressFirst' /\ OneHolder'
    BY DEF PressFirst, OneHolder
  <1>2. SUFFICES ASSUME Turns,
                        \/ op'[j].does = "idle"
                        \/ worker'[j] \in Supervising /\ op'[j].does \notin {"claim", "stopping"},
                        worker'[j] \in Past => \A q \in Pids : ~Starting(q)
                 PROVE  OneRuns' /\ FileOwned' /\ ByJobs' /\ Awaited'
    BY <1>1
  <1>3. OneRuns' /\ FileOwned'
    BY <1>2 DEF Turns, OneRuns, FileOwned, Runs, Starting
  <1>4. ByJobs'
    BY <1>2 DEF Turns, ByJobs
  <1>5. Awaited'
    <2>1. \A i \in Jobs : i \in Clients
      BY SelfUpdateAssumption
    <2> QED
      BY <1>2, <2>1 DEF Turns, Awaited, Starting
  <1> QED
    BY <1>3, <1>4, <1>5

(* The steps that leave the supervisor alone and move the worker from a    *)
(* place past the check, or to one that is not.                            *)
LEMMA WorkerMovesOn ==
  ASSUME JobsOK, CallsOK, ProcessesOK, PressFirst, OneHolder, InTurn => Turns, NEW j \in Jobs,
         worker' = [i \in Jobs |-> worker'[i]], \A i \in Jobs : i # j => worker'[i] = worker[i],
         worker[j] # "none", worker'[j] \in Locked => worker[j] \in Locked,
         worker'[j] \in Past => worker[j] \in Past,
         worker[j] \in Supervising => op[j].does = "idle",
         UNCHANGED <<pidFile, proc, op, press, holder>>
  PROVE  /\ ProcessesOK' /\ CallsOK' /\ PressFirst' /\ OneHolder'
         /\ InTurn => OneRuns' /\ FileOwned' /\ ByJobs' /\ Awaited'
  <1>1. ProcessesOK' /\ CallsOK'
    BY DEF ProcessesOK, CallsOK
  <1>2. InTurn => op[j].does = "idle" /\ (worker[j] \in Past => \A q \in Pids : ~Starting(q))
    BY NobodyStarts
  <1>3. InTurn => op'[j].does = "idle" /\ ~(worker'[j] \in Past /\ \E q \in Pids : Starting(q))
    BY <1>2
  <1>4. \A d \in Clients : d # j => op'[d] = op[d]
    OBVIOUS
  <1> QED
    BY <1>1, <1>3, <1>4, WorkerGoes

LEMMA LockPolls ==
  ASSUME PollInv, NEW j \in Jobs, Acquire(j) \/ Unlock(j)
  PROVE  Records' /\ PressFirst' /\ OneHolder' /\ OwnJob' /\ (InTurn => Turns')
  <1>1. JobsOK /\ ProcessesOK /\ CallsOK /\ PressFirst /\ OneHolder /\ OwnJob /\ (InTurn => Turns)
    BY DEF PollInv, Records
  <1>2. UNCHANGED <<pidFile, proc, op, spent, disk, press, known>>
    BY DEF Acquire, Unlock
  <1>3. PICK from, to : /\ Moves(j, from, to) /\ from \in {"acquire", "unlock"} /\ to \in {"load", "tell"}
                        /\ from = "unlock" => to = "tell"
    BY DEF Acquire, Unlock
  <1>4. /\ worker[j] = from /\ worker' = [i \in Jobs |-> worker'[i]] /\ worker'[j] = to
        /\ \A i \in Jobs : i # j => worker'[i] = worker[i]
    BY <1>1, <1>3, WorkerMoves DEF JobsOK
  <1>5. Records'
    BY <1>1, <1>2, <1>4 DEF Records, ProcessesOK, CallsOK, JobsOK
  <1>6. PressFirst'
    BY <1>1, <1>2, <1>3, <1>4 DEF PressFirst
  <1>7. OneHolder'
    <2>1. CASE Acquire(j) /\ ~Active /\ holder' = j
      <3>1. \A i \in Jobs : worker[i] \notin Locked
        BY <1>1, <2>1, SelfUpdateAssumption DEF OneHolder, Active, Locked, Past, Supervising
      <3> QED
        BY <1>4, <2>1, <3>1 DEF OneHolder
    <2>2. CASE Acquire(j) /\ UNCHANGED holder /\ Moves(j, "acquire", "tell")
      <3>1. worker'[j] = "tell"
        BY <1>1, <2>2, WorkerMoves DEF JobsOK
      <3> QED
        BY <1>1, <1>4, <2>2, <3>1 DEF OneHolder, Locked, Past, Supervising
    <2>3. CASE Unlock(j)
      <3>1. holder' = (IF holder = j THEN Nobody ELSE holder) /\ worker[j] = "unlock"
        BY <2>3 DEF Unlock, Moves
      <3>2. worker'[j] = "tell"
        BY <1>3, <1>4, <3>1
      <3>3. \A i \in Jobs : i # j => worker[i] \notin Locked
        BY <1>1, <3>1 DEF OneHolder, Locked
      <3> QED
        BY <1>4, <3>2, <3>3 DEF OneHolder, Locked, Past, Supervising
    <2> QED
      BY <2>1, <2>2, <2>3 DEF Acquire
  <1>8. OwnJob'
    BY <1>1, <1>2, <1>3, <1>4 DEF OwnJob, Locked, Past, Supervising
  <1>9. InTurn => OneRuns' /\ FileOwned' /\ WithDaemon'
    BY <1>1, <1>2 DEF Turns, OneRuns, FileOwned, WithDaemon, Runs, Starting
  <1>10. InTurn => ByJobs' /\ Awaited'
    BY <1>1, <1>2, <1>3, <1>4 DEF Turns, ByJobs, Awaited, Past, Supervising, Starting
  <1> QED
    BY <1>5, <1>6, <1>7, <1>8, <1>9, <1>10 DEF Turns

LEMMA LoadPolls ==
  ASSUME PollInv, NEW j \in Jobs, LoadJob(j)
  PROVE  Records' /\ PressFirst' /\ OneHolder' /\ OwnJob' /\ (InTurn => Turns')
  <1>1. JobsOK /\ ProcessesOK /\ CallsOK /\ PressFirst /\ OneHolder /\ OwnJob /\ (InTurn => Turns)
    BY DEF PollInv, Records
  <1>2. UNCHANGED <<pidFile, proc, op, disk, press, holder>> /\ j \in Readers
    BY DEF LoadJob, Readers
  <1>3. PICK to : Moves(j, "load", to) /\ to = IF disk.id = j /\ disk.phase = "queued" THEN "check" ELSE "unlock"
    BY DEF LoadJob
  <1>4. /\ worker[j] = "load" /\ worker' = [i \in Jobs |-> worker'[i]] /\ worker'[j] = to
        /\ \A i \in Jobs : i # j => worker'[i] = worker[i]
    BY <1>1, <1>3, WorkerMoves DEF JobsOK
  <1>5. /\ known' = [i \in Readers |-> known'[i]] /\ \A i \in Readers : JobRecord(known'[i])
        /\ known'[j] = disk /\ \A i \in Readers : i # j => known'[i] = known[i]
        /\ WithDaemon => \A i \in Readers : known'[i].id \in Jobs => known'[i].prior
    <2>1. known' = [known EXCEPT ![j] = disk]
      BY DEF LoadJob
    <2> QED
      BY <1>1, <1>2, <2>1, JournalRead
  <1>6. JobsOK' /\ (InTurn => WithDaemon')
    BY <1>1, <1>2, <1>4, <1>5 DEF JobsOK, Turns, WithDaemon
  <1>7. OwnJob'
    <2>1. \A i \in Jobs : i \in Readers
      BY DEF Readers
    <2> QED
      BY <1>1, <1>3, <1>4, <1>5, <2>1 DEF OwnJob
  <1>8. /\ ProcessesOK' /\ CallsOK' /\ PressFirst' /\ OneHolder'
        /\ InTurn => OneRuns' /\ FileOwned' /\ ByJobs' /\ Awaited'
    <2>1. worker[j] \in Locked /\ worker[j] \notin Supervising /\ worker'[j] \notin Past
      BY <1>3, <1>4 DEF Locked, Past, Supervising
    <2> QED
      BY <1>1, <1>2, <1>4, <2>1, WorkerMovesOn
  <1> QED
    BY <1>6, <1>7, <1>8 DEF Records, Turns

LEMMA CheckPolls ==
  ASSUME PollInv, NEW j \in Jobs, CheckDaemon(j)
  PROVE  Records' /\ PressFirst' /\ OneHolder' /\ OwnJob' /\ (InTurn => Turns')
  <1>1. JobsOK /\ ProcessesOK /\ CallsOK /\ PressFirst /\ OneHolder /\ OwnJob /\ (InTurn => Turns)
    BY DEF PollInv, Records
  <1>2. UNCHANGED <<pidFile, proc, op, disk, press, holder, known>> /\ j \in Readers
    BY DEF CheckDaemon, Readers
  <1>3. PICK to : Moves(j, "check", to) /\ to = IF DaemonRuns = known[j].prior THEN "backup" ELSE "fail"
    BY DEF CheckDaemon
  <1>4. /\ worker[j] = "check" /\ worker' = [i \in Jobs |-> worker'[i]] /\ worker'[j] = to
        /\ \A i \in Jobs : i # j => worker'[i] = worker[i]
    BY <1>1, <1>3, WorkerMoves DEF JobsOK
  <1>5. JobsOK' /\ OwnJob' /\ (InTurn => WithDaemon')
    <2>1. JobsOK' /\ (InTurn => WithDaemon')
      BY <1>1, <1>2, <1>4 DEF JobsOK, Turns, WithDaemon
    <2>2. OwnJob'
      BY <1>1, <1>2, <1>3, <1>4 DEF OwnJob, Locked, Past, Supervising
    <2> QED
      BY <2>1, <2>2
  <1>6. PressFirst' /\ OneHolder' /\ ProcessesOK' /\ CallsOK'
    <2>1. worker[j] # "none" /\ worker[j] \in Locked
      BY <1>4 DEF Locked
    <2>2. ProcessesOK' /\ CallsOK'
      BY <1>1, <1>2 DEF ProcessesOK, CallsOK
    <2> QED
      BY <1>1, <1>2, <1>4, <2>1, <2>2, WorkerGoes
  <1>7. ASSUME InTurn PROVE OneRuns' /\ FileOwned' /\ ByJobs' /\ Awaited'
    <2>1. op[j].does = "idle"
      BY <1>1, <1>4, <1>7, NobodyStarts DEF Supervising
    <2>2. worker'[j] \in Past => \A q \in Pids : ~Starting(q)
      <3>1. known[j].prior
        BY <1>1, <1>2, <1>4, <1>7 DEF Turns, WithDaemon, OwnJob, Locked
      <3>2. worker'[j] \in Past => DaemonRuns
        BY <1>3, <1>4, <3>1 DEF Past, Supervising
      <3>3. DaemonRuns => \A q \in Pids : Runs(q) => q = pidFile
        BY <1>1, <1>7 DEF Turns, OneRuns, DaemonRuns, Runs
      <3>4. \A q \in Pids : Starting(q) => Runs(q) /\ q # pidFile
        BY <1>1, <1>7 DEF Turns, FileOwned, Runs, Starting
      <3> QED
        BY <3>2, <3>3, <3>4
    <2>3. worker[j] # "none" /\ worker[j] \in Locked /\ op'[j].does = "idle"
      BY <1>2, <1>4, <2>1 DEF Locked
    <2> QED
      BY <1>1, <1>2, <1>4, <1>7, <2>2, <2>3, WorkerGoes
  <1> QED
    BY <1>5, <1>6, <1>7 DEF Records, Turns

(* The steps that change the builds or the backups only.                   *)
LEMMA WorkPolls ==
  ASSUME PollInv, NEW j \in Jobs, Backup(j) \/ Install(j) \/ Rollback(j) \/ Inspect(j)
  PROVE  Records' /\ PressFirst' /\ OneHolder' /\ OwnJob' /\ (InTurn => Turns')
  <1>1. JobsOK /\ ProcessesOK /\ CallsOK /\ PressFirst /\ OneHolder /\ OwnJob /\ (InTurn => Turns)
    BY DEF PollInv, Records
  <1>2. UNCHANGED <<pidFile, proc, op, disk, press, holder, known>>
    BY DEF Backup, Install, Rollback, Inspect, Changes
  <1>3. PICK from, to :
          /\ Moves(j, from, to) /\ (from = "rollstop" => op[j].does = "idle")
          /\ from \in {"backup", "merge", "build", "rollstop", "reset", "restore", "verify", "reread"}
          /\ to \in Past \cup {"fail", "succeeded", "rolled", "stuck"}
    BY DEF Backup, Install, Rollback, Inspect, Changes, Past, Supervising, Moves
  <1>4. /\ worker[j] = from /\ worker' = [i \in Jobs |-> worker'[i]] /\ worker'[j] = to
        /\ \A i \in Jobs : i # j => worker'[i] = worker[i]
    BY <1>1, <1>3, WorkerMoves DEF JobsOK
  <1>5. worker[j] \in Past /\ worker[j] # "none" /\ worker[j] \in Locked \ {"load", "unlock"}
    BY <1>3, <1>4 DEF Locked, Past, Supervising
  <1>6. JobsOK' /\ OwnJob' /\ (InTurn => WithDaemon')
    <2>1. JobsOK' /\ (InTurn => WithDaemon')
      BY <1>1, <1>2, <1>4 DEF JobsOK, Turns, WithDaemon
    <2>2. OwnJob'
      BY <1>1, <1>2, <1>4, <1>5 DEF OwnJob
    <2> QED
      BY <2>1, <2>2
  <1>7. worker[j] \in Locked /\ (worker[j] \in Supervising => op[j].does = "idle")
    BY <1>3, <1>4, <1>5 DEF Supervising
  <1>8. /\ ProcessesOK' /\ CallsOK' /\ PressFirst' /\ OneHolder'
        /\ InTurn => OneRuns' /\ FileOwned' /\ ByJobs' /\ Awaited'
    BY <1>1, <1>2, <1>4, <1>5, <1>7, WorkerMovesOn
  <1> QED
    BY <1>6, <1>8 DEF Records, Turns

(* The steps that record a phase.                                          *)
LEMMA MarkPolls ==
  ASSUME PollInv, NEW j \in Jobs, NEW from, NEW phase, NEW good, NEW bad, Mark(j, from, phase, good, bad),
         from \in Locked \ (Supervising \cup {"load", "unlock"}),
         good \in Locked, bad \in Locked, good \in Past \/ bad \in Past => from \in Past
  PROVE  Records' /\ PressFirst' /\ OneHolder' /\ OwnJob' /\ (InTurn => Turns')
  <1>1. JobsOK /\ ProcessesOK /\ CallsOK /\ PressFirst /\ OneHolder /\ OwnJob /\ (InTurn => Turns)
    BY DEF PollInv, Records
  <1>2. /\ worker[j] = from /\ worker' = [i \in Jobs |-> worker'[i]]
        /\ \A i \in Jobs : i # j => worker'[i] = worker[i]
        /\ worker'[j] \in {good, bad}
    BY <1>1, MarkMoves
  <1>3. /\ \A i \in Readers : i # j => known'[i] = known[i]
        /\ known' = [i \in Readers |-> known'[i]] /\ \A i \in Readers : JobRecord(known'[i])
        /\ known'[j].id = known[j].id /\ known'[j].prior = known[j].prior
        /\ JobRecord(disk') /\ (disk' = known'[j] \/ disk' = disk)
    BY <1>1, MarkMoves
  <1>4. UNCHANGED <<pidFile, proc, op, press, holder>>
    BY DEF Mark
  <1>5. JobsOK'
    BY <1>1, <1>2, <1>3, <1>4 DEF JobsOK
  <1>6. OwnJob'
    <2>1. known'[j].id = j
      BY <1>1, <1>2, <1>3 DEF OwnJob
    <2>2. \A i \in Jobs : i \in Readers
      BY DEF Readers
    <2> QED
      BY <1>1, <1>2, <1>3, <2>1, <2>2 DEF OwnJob
  <1>7. InTurn => WithDaemon'
    <2>1. j \in Readers
      BY DEF Readers
    <2> QED
      BY <1>1, <1>3, <2>1 DEF Turns, WithDaemon
  <1>8. worker[j] # "none" /\ worker[j] \in Locked /\ worker[j] \notin Supervising
    BY <1>2 DEF Locked, Past, Supervising
  <1>9. worker'[j] \in Past => worker[j] \in Past
    BY <1>2
  <1>10. /\ ProcessesOK' /\ CallsOK' /\ PressFirst' /\ OneHolder'
         /\ InTurn => OneRuns' /\ FileOwned' /\ ByJobs' /\ Awaited'
    BY <1>1, <1>2, <1>4, <1>8, <1>9, WorkerMovesOn
  <1> QED
    BY <1>5, <1>6, <1>7, <1>10 DEF Records, Turns

LEMMA JournalPolls ==
  ASSUME PollInv, NEW j \in Jobs, Journal(j)
  PROVE  Records' /\ PressFirst' /\ OneHolder' /\ OwnJob' /\ (InTurn => Turns')
  <1>1. PICK from, phase, good, bad :
          /\ Mark(j, from, phase, good, bad)
          /\ from \in {"backed", "stopped", "installed", "succeeded", "fail", "roll", "rolled", "stuck"}
          /\ good \in {"stop", "stopped", "merge", "verify", "rollstop", "unlock"}
          /\ bad \in {"roll", "rollstop", "unlock"}
          /\ good # "unlock" \/ bad # "unlock" => from \in {"backed", "stopped", "installed", "roll"}
    <2>1. (IF known[j].prior THEN "stop" ELSE "stopped") \in {"stop", "stopped"}
      OBVIOUS
    <2>2. CASE Mark(j, "backed", "backed_up", IF known[j].prior THEN "stop" ELSE "stopped", "unlock")
      BY <2>1, <2>2
    <2>3. CASE Mark(j, "stopped", "daemon_stopped", "merge", "unlock")
      BY <2>3
    <2>4. CASE Mark(j, "installed", "installed", "verify", "roll")
      BY <2>4
    <2>5. CASE Mark(j, "succeeded", "succeeded", "unlock", "unlock")
      BY <2>5
    <2>6. CASE Mark(j, "fail", "failed", "unlock", "unlock")
      BY <2>6
    <2>7. CASE Mark(j, "roll", "rolling_back", "rollstop", "rollstop")
      BY <2>7
    <2>8. CASE Mark(j, "rolled", "rolled_back", "unlock", "unlock")
      BY <2>8
    <2>9. CASE Mark(j, "stuck", "stuck", "unlock", "unlock")
      BY <2>9
    <2> QED
      BY <2>2, <2>3, <2>4, <2>5, <2>6, <2>7, <2>8, <2>9 DEF Journal
  <1>2. from \in Locked \ (Supervising \cup {"load", "unlock"}) /\ good \in Locked /\ bad \in Locked
    BY <1>1 DEF Locked, Past, Supervising
  <1>3. good \in Past \/ bad \in Past => from \in Past
    BY <1>1 DEF Past, Supervising
  <1> QED
    BY <1>1, <1>2, <1>3, MarkPolls

(* The calls of the supervisor and their returns.                          *)
LEMMA SupervisePolls ==
  ASSUME PollInv, NEW j \in Jobs, Supervise(j)
  PROVE  Records' /\ PressFirst' /\ OneHolder' /\ OwnJob' /\ (InTurn => Turns')
  <1>1. JobsOK /\ ProcessesOK /\ CallsOK /\ PressFirst /\ OneHolder /\ OwnJob /\ (InTurn => Turns)
    BY DEF PollInv, Records
  <1>2. UNCHANGED <<pidFile, proc, disk, press, holder, known>>
    BY DEF Supervise, Supervised
  <1>3. PICK at, to, does :
          /\ at \in Supervising /\ Moves(j, at, to) /\ Calls(j, does) /\ op[j].does # "claim"
          /\ \/ to = at /\ does \in {"stop", "start", "health"}
             \/ does = "idle" /\ to \in Past \cup {"succeeded", "fail", "stuck", "rolled"}
    BY DEF Supervise, Supervised, Supervising, Past, Results
  <1>4. /\ worker[j] = at /\ worker' = [i \in Jobs |-> worker'[i]] /\ worker'[j] = to
        /\ \A i \in Jobs : i # j => worker'[i] = worker[i]
    BY <1>1, <1>3, WorkerMoves DEF JobsOK
  <1>5. j \in Clients
    BY SelfUpdateAssumption
  <1>6. CallsOK' /\ op'[j].does = does /\ \A d \in Clients : d # j => op'[d] = op[d]
    BY <1>1, <1>3, <1>5, CallMoves
  <1>7. worker[j] \in Past /\ worker[j] # "none" /\ worker[j] \in Locked \ {"load", "unlock"}
    BY <1>3, <1>4 DEF Locked, Past, Supervising
  <1>8. JobsOK' /\ OwnJob' /\ (InTurn => WithDaemon') /\ ProcessesOK'
    <2>1. JobsOK' /\ (InTurn => WithDaemon') /\ ProcessesOK'
      BY <1>1, <1>2, <1>4 DEF JobsOK, Turns, WithDaemon, ProcessesOK
    <2>2. OwnJob'
      BY <1>1, <1>2, <1>4, <1>7 DEF OwnJob
    <2> QED
      BY <2>1, <2>2
  <1>9. InTurn => \A q \in Pids : ~Starting(q)
    BY <1>1, <1>3, <1>7, NobodyStarts
  <1>10. op'[j].does = "idle" \/ (worker'[j] \in Supervising /\ op'[j].does \notin {"claim", "stopping"})
    BY <1>3, <1>4, <1>6
  <1>11. worker[j] \in Locked
    BY <1>7
  <1>12. PressFirst' /\ OneHolder' /\ (InTurn => OneRuns' /\ FileOwned' /\ ByJobs' /\ Awaited')
    BY <1>1, <1>2, <1>4, <1>6, <1>7, <1>9, <1>10, <1>11, WorkerGoes
  <1> QED
    BY <1>6, <1>8, <1>12 DEF Records, Turns

(* The delivery of the outcome and the death of a worker.                  *)
LEMMA TellPolls ==
  ASSUME PollInv, NEW j \in Jobs, Tell(j)
  PROVE  Records' /\ PressFirst' /\ OneHolder' /\ OwnJob' /\ (InTurn => Turns')
  <1>1. JobsOK /\ ProcessesOK /\ CallsOK /\ PressFirst /\ OneHolder /\ OwnJob /\ (InTurn => Turns)
    BY DEF PollInv, Records
  <1>2. UNCHANGED <<pidFile, proc, op, press, holder>> /\ j \in Readers /\ j \notin Pids
    BY SelfUpdateAssumption DEF Tell, TellLoad, TellEdit, TellNote, Delivers, Readers
  <1>3. PICK from \in {"tell", "edit", "note"}, to \in {"edit", "note", "done"} : Moves(j, from, to)
    BY <1>2 DEF Tell, TellLoad, TellEdit, TellNote, Delivers
  <1>4. /\ worker[j] = from /\ worker' = [i \in Jobs |-> worker'[i]] /\ worker'[j] = to
        /\ \A i \in Jobs : i # j => worker'[i] = worker[i]
    BY <1>1, <1>3, WorkerMoves DEF JobsOK
  <1>5. /\ known' = [i \in Readers |-> known'[i]] /\ \A i \in Readers : JobRecord(known'[i])
        /\ \A i \in Readers : i # j => known'[i] = known[i]
        /\ JobRecord(disk') /\ (WithDaemon => WithDaemon')
    <2>1. CASE TellLoad(j)
      <3>1. known' = [known EXCEPT ![j] = disk] /\ UNCHANGED disk
        BY <2>1 DEF TellLoad
      <3> QED
        BY <1>1, <1>2, <3>1, JournalRead DEF JobsOK, WithDaemon
    <2>2. CASE TellEdit(j)
      BY <1>1, <2>2 DEF TellEdit, JobsOK, WithDaemon
    <2>3. CASE TellNote(j)
      <3>1. PICK ok \in BOOLEAN : Save([known[j] EXCEPT !.sent = TRUE], ok)
        BY <2>3 DEF TellNote
      <3>2. JobRecord(disk') /\ (WithDaemon => (disk'.id \in Jobs => disk'.prior))
        BY <1>1, <1>2, <3>1, JournalWritten
      <3>3. known' = [known EXCEPT ![j] = NoJob]
        BY <2>3 DEF TellNote
      <3>4. /\ known' = [i \in Readers |-> known'[i]] /\ \A i \in Readers : JobRecord(known'[i])
            /\ \A i \in Readers : i # j => known'[i] = known[i]
            /\ WithDaemon => \A i \in Readers : known'[i].id \in Jobs => known'[i].prior
        BY <1>1, <1>2, <3>3, JournalRead
      <3> QED
        BY <3>2, <3>4 DEF WithDaemon
    <2> QED
      BY <2>1, <2>2, <2>3 DEF Tell
  <1>6. JobsOK' /\ OwnJob' /\ (InTurn => WithDaemon')
    <2>1. JobsOK' /\ (InTurn => WithDaemon')
      BY <1>1, <1>2, <1>4, <1>5 DEF JobsOK, Turns
    <2>2. \A i \in Jobs : i \in Readers
      BY DEF Readers
    <2>3. OwnJob'
      BY <1>1, <1>3, <1>4, <1>5, <2>2 DEF OwnJob, Locked, Past, Supervising
    <2> QED
      BY <2>1, <2>3
  <1>7. worker[j] # "none" /\ worker[j] \notin Supervising /\ worker'[j] \notin Locked /\ worker'[j] \notin Past
    BY <1>3, <1>4 DEF Locked, Past, Supervising
  <1>8. /\ ProcessesOK' /\ CallsOK' /\ PressFirst' /\ OneHolder'
        /\ InTurn => OneRuns' /\ FileOwned' /\ ByJobs' /\ Awaited'
    BY <1>1, <1>2, <1>4, <1>7, WorkerMovesOn
  <1> QED
    BY <1>6, <1>8 DEF Records, Turns

LEMMA DeathPolls ==
  ASSUME PollInv, NEW j \in Jobs, Die(j)
  PROVE  Records' /\ PressFirst' /\ OneHolder' /\ OwnJob' /\ (InTurn => Turns')
  <1>1. JobsOK /\ ProcessesOK /\ CallsOK /\ PressFirst /\ OneHolder /\ OwnJob /\ (InTurn => Turns)
    BY DEF PollInv, Records
  <1>2. UNCHANGED <<pidFile, proc, disk, press, holder, known>> /\ j \in Clients /\ Calls(j, "idle")
    BY SelfUpdateAssumption DEF Die
  <1>3. /\ worker[j] # "none" /\ worker' = [i \in Jobs |-> worker'[i]] /\ worker'[j] = "dead"
        /\ \A i \in Jobs : i # j => worker'[i] = worker[i]
    <2>1. Moves(j, worker[j], "dead") /\ worker[j] # "none"
      BY DEF Die
    <2> QED
      BY <1>1, <2>1, WorkerMoves DEF JobsOK
  <1>4. CallsOK' /\ op'[j].does = "idle" /\ \A d \in Clients : d # j => op'[d] = op[d]
    BY <1>1, <1>2, CallMoves
  <1>5. JobsOK' /\ (InTurn => WithDaemon') /\ ProcessesOK'
    BY <1>1, <1>2, <1>3 DEF JobsOK, Turns, WithDaemon, ProcessesOK
  <1>6. worker'[j] \notin Locked /\ worker'[j] \notin Past
    BY <1>3 DEF Locked, Past, Supervising
  <1>7. OwnJob'
    BY <1>1, <1>2, <1>3, <1>6 DEF OwnJob
  <1>8. PressFirst' /\ OneHolder' /\ (InTurn => OneRuns' /\ FileOwned' /\ ByJobs' /\ Awaited')
    BY <1>1, <1>2, <1>3, <1>4, <1>6, WorkerGoes
  <1> QED
    BY <1>4, <1>5, <1>7, <1>8 DEF Records, Turns

(* An operator's command is a fault in this count.                         *)
LEMMA CommandPolls ==
  ASSUME PollInv, InTurn' => InTurn, NEW c \in Operator, Command(c)
  PROVE  Records' /\ PressFirst' /\ OneHolder' /\ OwnJob' /\ (InTurn' => Turns')
  <1>1. JobsOK /\ ProcessesOK /\ CallsOK /\ PressFirst /\ OneHolder /\ OwnJob /\ (InTurn => Turns)
    BY DEF PollInv, Records
  <1>2. UNCHANGED <<pidFile, proc, disk, press, worker, holder, known>> /\ c \in Clients /\ c \notin Jobs
    BY SelfUpdateAssumption DEF Command
  <1>3. PICK does : Calls(c, does)
    BY DEF Command
  <1>4. CallsOK'
    BY <1>1, <1>2, <1>3, CallMoves
  <1>5. JobsOK' /\ ProcessesOK' /\ PressFirst' /\ OneHolder' /\ OwnJob'
    BY <1>1, <1>2 DEF JobsOK, ProcessesOK, PressFirst, OneHolder, OwnJob
  <1>6. ~InTurn'
    <2>1. CASE Fault("operator")
      BY <2>1 DEF Fault, InTurn
    <2>2. CASE op[c].does \in {"ok", "absent"}
      BY <1>1, <1>2, <2>2 DEF Turns, ByJobs
    <2> QED
      BY <2>1, <2>2 DEF Command
  <1> QED
    BY <1>4, <1>5, <1>6 DEF Records

LEMMA PollInductive == PollInv /\ [UpdateNext]_updateVars => PollInv'
  <1> SUFFICES ASSUME PollInv, [UpdateNext]_updateVars PROVE PollInv'
    OBVIOUS
  <1>1. CASE UpdateNext
    <2>1. InTurn' => InTurn
      BY <1>1, SpentGrows DEF InTurn
    <2>2. ASSUME NEW p \in Pids, Daemon(p) PROVE PollInv'
      BY <2>1, <2>2, DaemonPolls, OthersKeepJobs DEF PollInv
    <2>3. ASSUME NEW p \in Pids, NEW j \in Jobs, Panel(p, j) PROVE PollInv'
      BY <2>1, <2>3, PanelPolls, OthersKeepJobs DEF PollInv
    <2>4. ASSUME NEW j \in Jobs, WorkerStep(j) PROVE PollInv'
      BY <2>1, <2>4, LockPolls, LoadPolls, CheckPolls, WorkPolls, JournalPolls, SupervisePolls, TellPolls,
         DeathPolls DEF WorkerStep, PollInv
    <2>5. ASSUME NEW c \in Clients, Call(c) PROVE PollInv'
      BY <2>1, <2>5, CallPolls, OthersKeepJobs DEF PollInv
    <2>6. ASSUME NEW c \in Operator, Command(c) PROVE PollInv'
      BY <2>1, <2>6, CommandPolls DEF PollInv
    <2> QED
      BY <1>1, <2>2, <2>3, <2>4, <2>5, <2>6 DEF UpdateNext
  <1>2. CASE UNCHANGED updateVars
    <2>1. Records'
      BY <1>2 DEF updateVars, PollInv, Records, ProcessesOK, CallsOK, JobsOK
    <2>2. PressFirst' /\ OneHolder' /\ OwnJob'
      BY <1>2 DEF updateVars, PollInv, PressFirst, OneHolder, OwnJob
    <2>3. InTurn' => Turns'
      BY <1>2 DEF updateVars, PollInv, InTurn, Turns, OneRuns, FileOwned, ByJobs, Awaited, WithDaemon,
                  Runs, Starting
    <2> QED
      BY <2>1, <2>2, <2>3 DEF PollInv
  <1> QED
    BY <1>1, <1>2

(* docs/development.md and pidfile.go, supervisor.go: whatever fails and   *)
(* whoever dies, while every start is awaited to its end and the operator  *)
(* gives no command, two processes never poll Telegram at once; for any    *)
(* number of processes, jobs and faults.                                   *)
THEOREM OnlyOnePolls == UpdateSpec => []OnePollerInTurn
  <1>1. PollInv => OnePollerInTurn
    <2> SUFFICES ASSUME PollInv, spent \cap {"slow", "operator"} = {} PROVE OnePoller
      BY DEF OnePollerInTurn
    <2>1. \A p, q \in Polling : p = q
      BY DEF PollInv, InTurn, Turns, OneRuns, Polling, Runs
    <2>2. CASE Polling = {}
      BY <2>2, FS_EmptySet DEF OnePoller
    <2>3. CASE Polling # {}
      <3>1. PICK p : p \in Polling
        BY <2>3
      <3>2. Polling = {p}
        BY <2>1, <3>1
      <3>3. Cardinality(Polling) = 1
        BY <3>2, FS_Singleton
      <3> QED
        BY <3>3 DEF OnePoller
    <2> QED
      BY <2>2, <2>3
  <1> QED
    BY <1>1, PollInit, PollInductive, PTL DEF UpdateSpec

(***************************************************************************)
(* The outcome, of one job.  While the worker is before the merge the old  *)
(* build is installed, from the verification on the new one, from the end  *)
(* of the restoration on the old one again (SiteAt); between these the     *)
(* journal gives no outcome, because the worker got past the record of the *)
(* stopped daemon and nobody else records an end but the process that has  *)
(* read one (KnownOK).                                                     *)
(***************************************************************************)
One == \A i, j \in Jobs : i = j
Early == {"none", "acquire", "load", "check", "backup", "backed", "stop", "stopped", "merge", "fail"}
Installed == {"installed", "verify", "start", "health", "succeeded"}
Restored == {"reread", "restart", "rehealth", "rolled"}
Mid == Installed \cup Restored \cup {"merge", "build", "roll", "rollstop", "reset", "restore", "stuck"}
Ending == {"unlock", "tell", "edit", "note", "done", "dead"}
Unfinished == {"daemon_stopped", "installed", "rolling_back", "interrupted"}
Delivering == {"edit", "note"}

Finished(j) == worker[j] \in Ending \/ (worker[j] = "none" /\ press[j].at \in {"done", "void"})
Holds(phase) ==
  /\ phase = "succeeded" => Whole(After)
  /\ phase \in {"rolled_back", "failed"} => Whole(Before)
Claimed(phase) == Holds(phase) /\ (phase \in Terminal => \A j \in Jobs : Finished(j))
Fresh(phase) == phase \in {"queued", "backed_up"} => Whole(Before)
SiteRecord == site = [manifest |-> site.manifest, binary |-> site.binary]
SiteAt(at) ==
  /\ at \in Early => Whole(Before)
  /\ at = "build" => site = [manifest |-> After, binary |-> Before]
  /\ at \in Installed => Whole(After)
  /\ at \in Restored => Whole(Before)
  /\ at = "restore" => site.manifest = Before
MidOpen == \A j \in Jobs : worker[j] \in Mid => disk.phase \in Unfinished
KnownOK ==
  /\ \A p \in Pids : proc[p].at \in Delivering =>
       known[p].phase \in Terminal \cup {"interrupted"} /\ Claimed(known[p].phase)
  /\ \A j \in Jobs : worker[j] \in Delivering =>
       known[j].phase \in Terminal \cup {"interrupted"} /\ Claimed(known[j].phase)
OutcomeInv ==
  /\ SiteRecord /\ Claimed(disk.phase) /\ Fresh(disk.phase)
  /\ \A j \in Jobs : SiteAt(worker[j])
  /\ MidOpen /\ KnownOK

LEMMA OutcomeInit == UpdateInit => OutcomeInv
  <1> SUFFICES ASSUME UpdateInit PROVE OutcomeInv
    OBVIOUS
  <1>1. site = [manifest |-> Before, binary |-> Before] /\ disk.phase = "none"
    BY DEF UpdateInit, NoJob
  <1>2. \A j \in Jobs : worker[j] = "none"
    BY DEF UpdateInit
  <1>3. \A p \in Pids : proc[p].at \notin Delivering
    <2>1. PICK p \in Pids :
            proc = [q \in Pids |-> [at |-> IF q = p THEN "ready" ELSE "free", build |-> Before,
                                    tries |-> 0, asked |-> FALSE]]
      BY DEF UpdateInit
    <2> QED
      BY <2>1 DEF Delivering
  <1>4. SiteRecord /\ Whole(Before) /\ Claimed(disk.phase) /\ Fresh(disk.phase)
    BY <1>1 DEF SiteRecord, Whole, Claimed, Holds, Terminal, Fresh
  <1>5. \A j \in Jobs : SiteAt(worker[j])
    BY <1>2, <1>4 DEF SiteAt, Installed, Restored
  <1>6. MidOpen /\ KnownOK
    BY <1>2, <1>3 DEF MidOpen, KnownOK, Mid, Installed, Restored, Delivering
  <1> QED
    BY <1>4, <1>5, <1>6 DEF OutcomeInv

(* What goes on around the worker: the journal is written by the delivery  *)
(* of an outcome it gave, or as interrupted.                               *)
LEMMA OutcomeAround ==
  ASSUME OutcomeInv, UNCHANGED <<site, worker, press>>,
         \/ disk'.phase \in {disk.phase, "interrupted"}
         \/ \E p \in Pids : proc[p].at = "note" /\ disk'.phase = known[p].phase,
         \A j \in Jobs : known'[j] = known[j],
         \A p \in Pids : proc'[p].at \in Delivering =>
           \/ proc[p].at \in Delivering /\ known'[p] = known[p]
           \/ known'[p] = disk /\ Untold(disk)
  PROVE  OutcomeInv'
  <1>1. SiteRecord' /\ \A j \in Jobs : SiteAt(worker[j])'
    BY DEF OutcomeInv, SiteRecord, SiteAt, Whole
  <1>2. Whole(Before)' <=> Whole(Before)
    BY DEF Whole
  <1>3. Whole(After)' <=> Whole(After)
    BY DEF Whole
  <1>4. \A j \in Jobs : Finished(j)' <=> Finished(j)
    BY DEF Finished
  <1>5. Claimed(disk.phase)' /\ Fresh(disk.phase)'
    <2>1. CASE disk'.phase \in {disk.phase, "interrupted"}
      BY <1>2, <1>3, <1>4, <2>1 DEF OutcomeInv, Claimed, Holds, Fresh, Terminal
    <2>2. CASE \E p \in Pids : proc[p].at = "note" /\ disk'.phase = known[p].phase
      <3>1. disk'.phase \in Terminal \cup {"interrupted"} /\ Claimed(disk'.phase)
        BY <2>2 DEF OutcomeInv, KnownOK, Delivering
      <3> QED
        BY <1>2, <1>3, <1>4, <3>1 DEF Claimed, Holds, Fresh, Terminal
    <2> QED
      BY <2>1, <2>2
  <1>6. MidOpen'
    <2>1. CASE disk'.phase \in {disk.phase, "interrupted"}
      BY <2>1 DEF OutcomeInv, MidOpen, Unfinished
    <2>2. CASE \E p \in Pids : proc[p].at = "note" /\ disk'.phase = known[p].phase
      <3>1. disk'.phase \in Terminal \cup {"interrupted"} /\ Claimed(disk'.phase)
        BY <2>2 DEF OutcomeInv, KnownOK, Delivering
      <3>2. \A j \in Jobs : worker[j] \in Mid => ~Finished(j)
        BY DEF Finished, Mid, Ending, Installed, Restored
      <3> QED
        BY <3>1, <3>2 DEF Claimed, MidOpen, Unfinished
    <2> QED
      BY <2>1, <2>2
  <1>7. KnownOK'
    <2>1. ASSUME NEW p \in Pids, proc'[p].at \in Delivering
          PROVE  known'[p].phase \in Terminal \cup {"interrupted"} /\ Claimed(known'[p].phase)
      BY <2>1 DEF OutcomeInv, KnownOK, Untold
    <2>2. ASSUME NEW j \in Jobs, worker'[j] \in Delivering
          PROVE  known'[j].phase \in Terminal \cup {"interrupted"} /\ Claimed(known'[j].phase)
      BY <2>2 DEF OutcomeInv, KnownOK
    <2> QED
      BY <1>2, <1>3, <1>4, <2>1, <2>2 DEF KnownOK, Claimed, Holds, Delivering
  <1> QED
    BY <1>1, <1>5, <1>6, <1>7 DEF OutcomeInv

(* A step of the worker: what it has to bring about for where it goes.     *)
LEMMA OutcomeMoves ==
  ASSUME One, OutcomeInv, NEW j \in Jobs, worker[j] # "none", worker'[j] # "none",
         worker[j] \in Ending => worker'[j] \in Ending,
         UNCHANGED <<press, proc>>, \A p \in Pids : known'[p] = known[p],
         site' = site \/ (worker[j] \in Mid /\ SiteRecord'),
         SiteAt(worker[j])', worker'[j] \in Mid => disk'.phase \in Unfinished,
         \/ disk'.phase = disk.phase
         \/ /\ Holds(disk.phase)' /\ Fresh(disk.phase)'
            /\ disk'.phase \in Terminal => worker'[j] \in Ending,
         worker'[j] \in Delivering =>
           /\ known'[j].phase \in Terminal \cup {"interrupted"} /\ Claimed(known'[j].phase)
           /\ site' = site
  PROVE  OutcomeInv'
  <1>1. \A i \in Jobs : i = j
    BY DEF One
  <1>2. Finished(j) => Finished(j)'
    BY DEF Finished
  <1>3. worker[j] \in Mid => ~Finished(j)
    BY DEF Finished, Mid, Ending, Installed, Restored
  <1>4. ASSUME NEW phase, Claimed(phase), site' = site \/ phase \notin Terminal
        PROVE  Holds(phase)' /\ (phase \in Terminal => Finished(j)')
    BY <1>2, <1>4 DEF Claimed, Holds, Terminal, Whole
  <1>5. ASSUME NEW phase, Claimed(phase), phase \in Terminal PROVE site' = site
    BY <1>3, <1>5 DEF Claimed
  <1>6. SiteRecord'
    BY DEF OutcomeInv, SiteRecord
  <1>7. Claimed(disk.phase)'
    <2>1. CASE disk'.phase = disk.phase
      <3>1. Claimed(disk.phase)
        BY DEF OutcomeInv
      <3>2. Holds(disk.phase)' /\ (disk'.phase \in Terminal => Finished(j)')
        BY <1>4, <1>5, <2>1, <3>1 DEF Holds
      <3> QED
        BY <1>1, <2>1, <3>2 DEF Claimed
    <2>2. CASE disk'.phase \in Terminal => worker'[j] \in Ending
      BY <1>1, <2>1, <2>2 DEF Claimed, Finished
    <2> QED
      BY <2>1, <2>2
  <1>8. Fresh(disk.phase)'
    <2>1. CASE disk'.phase = disk.phase /\ site' = site
      BY <2>1 DEF OutcomeInv, Fresh, Whole
    <2>2. CASE disk'.phase = disk.phase /\ worker[j] \in Mid
      BY <2>2 DEF OutcomeInv, MidOpen, Unfinished, Fresh
    <2> QED
      BY <2>1, <2>2
  <1>9. \A i \in Jobs : SiteAt(worker[i])'
    BY <1>1
  <1>10. MidOpen'
    BY <1>1 DEF MidOpen
  <1>11. KnownOK'
    <2>1. ASSUME NEW p \in Pids, proc'[p].at \in Delivering
          PROVE  known'[p].phase \in Terminal \cup {"interrupted"} /\ Claimed(known[p].phase)'
      <3>1. known[p].phase \in Terminal \cup {"interrupted"} /\ Claimed(known[p].phase) /\ known'[p] = known[p]
        BY <2>1 DEF OutcomeInv, KnownOK
      <3> QED
        BY <1>1, <1>4, <1>5, <3>1 DEF Claimed
    <2>2. ASSUME worker'[j] \in Delivering
          PROVE  known'[j].phase \in Terminal \cup {"interrupted"} /\ Claimed(known[j].phase)'
      BY <1>1, <1>4, <1>5, <2>2 DEF Claimed
    <2> QED
      BY <1>1, <2>1, <2>2 DEF KnownOK, Delivering
  <1> QED
    BY <1>6, <1>7, <1>8, <1>9, <1>10, <1>11 DEF OutcomeInv

(* The panel's steps come before the worker's: the job has not ended.      *)
LEMMA OutcomePressed ==
  ASSUME One, OutcomeInv, NEW j \in Jobs, worker[j] = "none", press[j].at \notin {"done", "void"},
         UNCHANGED <<site, proc>>, \A p \in Pids : known'[p] = known[p],
         worker'[j] \in {"none", "acquire"},
         disk'.phase \in {disk.phase, "queued"} \/ (disk'.phase = "failed" /\ Finished(j)')
  PROVE  OutcomeInv'
  <1>1. \A i \in Jobs : i = j
    BY DEF One
  <1>2. ~Finished(j)
    BY DEF Finished, Ending
  <1>3. Whole(Before)' /\ (Whole(After)' <=> Whole(After)) /\ SiteRecord'
    BY DEF OutcomeInv, SiteAt, Early, Whole, SiteRecord
  <1>4. disk.phase \notin Terminal
    BY <1>2 DEF OutcomeInv, Claimed
  <1>5. Claimed(disk.phase)' /\ Fresh(disk.phase)'
    BY <1>1, <1>3, <1>4 DEF Claimed, Holds, Fresh, Terminal
  <1>6. \A i \in Jobs : SiteAt(worker[i])'
    BY <1>1, <1>3 DEF SiteAt, Installed, Restored
  <1>7. MidOpen' /\ \A i \in Jobs : worker'[i] \notin Delivering
    BY <1>1 DEF MidOpen, Mid, Installed, Restored, Delivering
  <1>8. ASSUME NEW p \in Pids, proc'[p].at \in Delivering
        PROVE  known'[p].phase = "interrupted"
    BY <1>2, <1>8 DEF OutcomeInv, KnownOK, Claimed
  <1>9. KnownOK'
    BY <1>7, <1>8 DEF KnownOK, Claimed, Holds, Terminal, Delivering
  <1> QED
    BY <1>3, <1>5, <1>6, <1>7, <1>9 DEF OutcomeInv

LEMMA OutcomePanel ==
  ASSUME One, PollInv, OutcomeInv, NEW p \in Pids, NEW j \in Jobs, Panel(p, j)
  PROVE  OutcomeInv'
  <1>1. JobsOK /\ PressFirst
    BY DEF PollInv, Records
  <1>2. UNCHANGED <<site, proc>>
    BY DEF Panel, CheckRelease, Consume, StartLoad, StartSave, Launch, Unlaunched
  <1>3. \A q \in Pids : q \in Readers /\ q # j
    BY SelfUpdateAssumption DEF Readers
  <1>4. \A q \in Pids : known'[q] = known[q]
    <2>1. UNCHANGED known \/ known' = [known EXCEPT ![j] = Queued(j)]
      BY DEF Panel, CheckRelease, Consume, StartLoad, StartSave, Launch, Unlaunched
    <2> QED
      BY <1>1, <1>3, <2>1 DEF JobsOK
  <1>5. press[j].at \in {"none", "offered", "load", "save", "launch", "unlaunched"}
    BY DEF Panel, CheckRelease, Consume, StartLoad, StartSave, Launch, Unlaunched, Pressed
  <1>6. worker[j] = "none"
    BY <1>1, <1>5 DEF PressFirst
  <1>7. worker'[j] \in {"none", "acquire"}
    <2>1. UNCHANGED worker \/ worker' = [worker EXCEPT ![j] = "acquire"]
      BY DEF Panel, CheckRelease, Consume, StartLoad, StartSave, Launch, Unlaunched
    <2> QED
      BY <1>1, <1>6, <2>1 DEF JobsOK
  <1>8. CASE StartSave(p, j)
    <2>1. PICK ok \in BOOLEAN : Save(Queued(j), ok)
      BY <1>8 DEF StartSave
    <2>2. disk' = Queued(j) \/ disk' = disk
      BY <2>1 DEF Save
    <2>3. disk'.phase \in {disk.phase, "queued"}
      BY <2>2 DEF Queued
    <2> QED
      BY <1>2, <1>4, <1>5, <1>6, <1>7, <2>3, OutcomePressed
  <1>9. CASE Unlaunched(p, j)
    <2>1. PICK ok \in BOOLEAN : Save([known[j] EXCEPT !.phase = "failed"], ok)
      BY <1>9 DEF Unlaunched
    <2>2. PICK x : x = [known[j] EXCEPT !.phase = "failed"]
      OBVIOUS
    <2>3. JobRecord(known[j])
      BY <1>1 DEF JobsOK, Readers
    <2>4. x.phase = "failed"
      BY <2>2, <2>3, PhaseMoves
    <2>5. disk' = x \/ disk' = disk
      BY <2>1, <2>2 DEF Save
    <2>6. press'[j].at = "done" /\ UNCHANGED worker
      <3>1. Pressed(p, j, "unlaunched", "done") /\ UNCHANGED worker
        BY <1>9 DEF Unlaunched
      <3> QED
        BY <1>1, <3>1 DEF Pressed, JobsOK
    <2>7. Finished(j)'
      BY <1>6, <2>6 DEF Finished
    <2> QED
      BY <1>2, <1>4, <1>5, <1>6, <1>7, <2>4, <2>5, <2>7, OutcomePressed
  <1>10. CASE UNCHANGED disk
    <2>1. disk'.phase \in {disk.phase, "queued"} /\ press[j].at \notin {"done", "void"}
      BY <1>5, <1>10
    <2> QED
      BY <1>2, <1>4, <1>6, <1>7, <2>1, OutcomePressed
  <1> QED
    BY <1>8, <1>9, <1>10 DEF Panel, CheckRelease, Consume, StartLoad, Launch

LEMMA OutcomeDaemon ==
  ASSUME PollInv, OutcomeInv, NEW p \in Pids, Daemon(p)
  PROVE  OutcomeInv'
  <1>1. JobsOK /\ ProcessesOK
    BY DEF PollInv, Records
  <1>2. UNCHANGED <<site, press, worker>> /\ \A r \in Readers : r # p => known'[r] = known[r]
    BY <1>1, DaemonJobs
  <1>3. \A j \in Jobs : j \in Readers /\ j # p
    BY SelfUpdateAssumption DEF Readers
  <1>4. p \notin Jobs /\ p \in Readers /\ \A q \in Pids : q \in Readers
    BY SelfUpdateAssumption DEF Readers
  <1>5. \A q \in Pids : q # p => proc'[q] = proc[q]
    <2>1. CASE \E step : At(p, step)
      BY <1>1, <2>1, AtMoves
    <2>2. CASE Ends(p)
      BY <1>1, <2>2, EndMoves
    <2>3. CASE Remove(p)
      BY <1>1, <2>2, <2>3 DEF Remove, ProcessesOK
    <2> QED
      BY <1>4, <2>1, <2>2, <2>3
         DEF Daemon, RecoverActive, RecoverLoad, RecoverSave, Boot, Tell, TellLoad, TellEdit, TellNote,
             Delivers, DaemonStep, Create, Read, Release, Unlink, Quit, Killed
  <1>6. CASE TellLoad(p)
    <2>1. known' = [known EXCEPT ![p] = disk] /\ UNCHANGED disk
      BY <1>6 DEF TellLoad
    <2>2. known'[p] = disk
      BY <1>1, <1>4, <2>1 DEF JobsOK
    <2>3. proc'[p].at \in Delivering => Untold(disk)
      <3>1. At(p, IF ~Untold(disk) THEN "boot" ELSE "edit")
        BY <1>4, <1>6 DEF TellLoad, Delivers
      <3> QED
        BY <1>1, <3>1, AtMoves DEF Delivering
    <2>4. \A q \in Pids : q # p => known'[q] = known[q]
      BY <1>2, <1>4
    <2>5. \A j \in Jobs : known'[j] = known[j]
      BY <1>2, <1>3
    <2>6. \A q \in Pids : proc'[q].at \in Delivering =>
            (proc[q].at \in Delivering /\ known'[q] = known[q]) \/ (known'[q] = disk /\ Untold(disk))
      BY <1>5, <2>2, <2>3, <2>4
    <2>7. disk'.phase \in {disk.phase, "interrupted"}
      BY <2>1
    <2> QED
      BY <1>2, <2>5, <2>6, <2>7, OutcomeAround
  <1>7. CASE TellEdit(p)
    <2>1. proc[p].at = "edit" /\ UNCHANGED <<disk, known>>
      BY <1>4, <1>7 DEF TellEdit, Delivers
    <2>2. \A q \in Pids : proc'[q].at \in Delivering => proc[q].at \in Delivering /\ known'[q] = known[q]
      BY <1>5, <2>1 DEF Delivering
    <2>3. disk'.phase \in {disk.phase, "interrupted"} /\ \A j \in Jobs : known'[j] = known[j]
      BY <2>1
    <2> QED
      BY <1>2, <2>2, <2>3, OutcomeAround
  <1>8. ASSUME \A q \in Pids : q = p => proc'[q].at \notin Delivering,
               disk'.phase \in {disk.phase, "interrupted"}
                 \/ (proc[p].at = "note" /\ disk'.phase = known[p].phase)
        PROVE  OutcomeInv'
    <2>1. \A q \in Pids : proc'[q].at \in Delivering => proc[q].at \in Delivering /\ known'[q] = known[q]
      BY <1>2, <1>4, <1>5, <1>8
    <2>2. \A j \in Jobs : known'[j] = known[j]
      BY <1>2, <1>3
    <2> QED
      BY <1>2, <1>8, <2>1, <2>2, OutcomeAround
  <1>9. CASE TellNote(p)
    <2>1. PICK ok \in BOOLEAN : Save([known[p] EXCEPT !.sent = TRUE], ok)
      BY <1>9 DEF TellNote
    <2>2. PICK x : x = [known[p] EXCEPT !.sent = TRUE]
      OBVIOUS
    <2>3. JobRecord(known[p])
      BY <1>1, <1>4 DEF JobsOK
    <2>4. x.phase = known[p].phase
      BY <2>2, <2>3, SentMoves
    <2>5. disk'.phase \in {disk.phase, known[p].phase}
      BY <2>1, <2>2, <2>4 DEF Save
    <2>6. proc[p].at = "note" /\ At(p, "boot")
      BY <1>4, <1>9 DEF TellNote, Delivers
    <2>7. proc'[p].at \notin Delivering
      BY <1>1, <2>6, AtMoves DEF Delivering
    <2> QED
      BY <1>8, <2>5, <2>6, <2>7
  <1>10. CASE RecoverSave(p)
    <2>1. PICK ok \in BOOLEAN : /\ Save([known[p] EXCEPT !.phase = "interrupted"], ok)
                                /\ At(p, IF ok THEN "tell" ELSE "boot")
      BY <1>10 DEF RecoverSave
    <2>2. PICK x : x = [known[p] EXCEPT !.phase = "interrupted"]
      OBVIOUS
    <2>3. JobRecord(known[p])
      BY <1>1, <1>4 DEF JobsOK
    <2>4. x.phase = "interrupted"
      BY <2>2, <2>3, PhaseMoves
    <2>5. disk'.phase \in {disk.phase, "interrupted"}
      BY <2>1, <2>2, <2>4 DEF Save
    <2>6. proc'[p].at \notin Delivering
      BY <1>1, <2>1, AtMoves DEF Delivering
    <2> QED
      BY <1>8, <2>5, <2>6
  <1>11. CASE ~(Tell(p) \/ RecoverSave(p))
    <2>1. disk'.phase = disk.phase
      BY <1>11 DEF Daemon, RecoverActive, RecoverLoad, Boot
    <2>2. proc'[p].at \notin Delivering
      <3>1. CASE Ends(p)
        BY <1>1, <3>1, EndMoves DEF Delivering
      <3>2. CASE \E step : At(p, step) /\ step \notin Delivering
        BY <1>1, <3>2, AtMoves
      <3>3. CASE Remove(p)
        BY <1>1, <3>1, <3>3 DEF Remove, ProcessesOK, Delivering
      <3>4. (IF Active THEN "attended" ELSE "alone") \notin Delivering
        BY DEF Delivering
      <3>5. (IF Active THEN "ready" ELSE "sweep") \notin Delivering
        BY DEF Delivering
      <3>6. (IF disk # NoJob /\ disk.phase \notin Terminal /\ proc[p].at = "alone" THEN "interrupt"
             ELSE IF disk.phase = "interrupted" \/ Untold(disk) THEN "tell" ELSE "boot") \notin Delivering
        BY DEF Delivering
      <3>7. \A step \in {"recover", "read", "remove", "unlink", "release", "clean", "ready"} :
              step \notin Delivering
        BY DEF Delivering
      <3> QED
        BY <1>11, <3>1, <3>2, <3>3, <3>4, <3>5, <3>6, <3>7
           DEF Daemon, RecoverActive, RecoverLoad, Boot, DaemonStep, Create, Read, Release, Unlink, Quit, Killed
    <2> QED
      BY <1>8, <2>1, <2>2
  <1> QED
    BY <1>6, <1>7, <1>9, <1>10, <1>11 DEF Tell

LEMMA OutcomeCall ==
  ASSUME PollInv, OutcomeInv, NEW c \in Clients, Call(c) \/ (c \in Operator /\ Command(c))
  PROVE  OutcomeInv'
  <1>1. ProcessesOK /\ CallsOK
    BY DEF PollInv, Records
  <1>2. UNCHANGED <<disk, site, press, worker, known>>
    BY DEF Call, Command
  <1>3. \A q \in Pids : proc'[q].at \in {proc[q].at, "gone", "create"}
    <2>1. CASE UNCHANGED proc
      BY <2>1
    <2>2. CASE \E p \in Pids : \E build : proc' = [proc EXCEPT ![p].at = "create", ![p].build = build]
      BY <1>1, <2>2, SpawnMoves
    <2>3. CASE \E p \in Pids : Ends(p) \/ proc' = [proc EXCEPT ![p].asked = TRUE]
      BY <1>1, <2>3, EndMoves, AskMoves
    <2>4. CASE Stop(c)
      BY <2>1, <2>3, <2>4 DEF Stop, Asked, DaemonRuns, Runs, Ends
    <2>5. CASE Stopping(c)
      BY <2>1, <2>3, <2>5 DEF Stopping, Runs
    <2> QED
      BY <2>1, <2>2, <2>4, <2>5 DEF Call, Command, Start, Claim, Health
  <1>4. \A q \in Pids : proc'[q].at \in Delivering => proc[q].at \in Delivering /\ known'[q] = known[q]
    BY <1>2, <1>3 DEF Delivering
  <1>5. disk'.phase \in {disk.phase, "interrupted"} /\ \A j \in Jobs : known'[j] = known[j]
    BY <1>2
  <1> QED
    BY <1>2, <1>4, <1>5, OutcomeAround

(* The worker's steps that leave the builds and the journal.               *)
LEMMA OutcomeWalks ==
  ASSUME One, OutcomeInv, NEW j \in Jobs, worker[j] # "none", worker'[j] # "none",
         worker[j] \in Ending => worker'[j] \in Ending,
         worker'[j] \in Early => worker[j] \in Early,
         worker'[j] \in Installed => worker[j] \in Installed \/ Whole(After),
         worker'[j] \in Restored => worker[j] \in Restored \/ Whole(Before),
         worker'[j] \in Mid => worker[j] \in Mid,
         worker'[j] \notin {"build", "restore"} \cup Delivering,
         UNCHANGED <<disk, site, press, proc>>, \A p \in Pids : known'[p] = known[p]
  PROVE  OutcomeInv'
  <1>1. SiteAt(worker[j])'
    BY DEF OutcomeInv, SiteAt, Whole
  <1>2. worker'[j] \in Mid => disk'.phase \in Unfinished
    BY DEF OutcomeInv, MidOpen
  <1>3. worker'[j] \notin Delivering /\ disk'.phase = disk.phase /\ site' = site
    OBVIOUS
  <1> QED
    BY <1>1, <1>2, <1>3, OutcomeMoves

LEMMA OutcomeStrides ==
  ASSUME One, PollInv, OutcomeInv, NEW j \in Jobs,
         \/ Acquire(j) \/ LoadJob(j) \/ CheckDaemon(j) \/ Backup(j) \/ Supervise(j) \/ Inspect(j)
         \/ Unlock(j) \/ Die(j)
         \/ Rollback(j) /\ worker[j] = "rollstop"
  PROVE  OutcomeInv'
  <1>1. JobsOK /\ j \in Readers
    BY DEF PollInv, Records, Readers
  <1>2. UNCHANGED <<disk, site, press, proc>>
    BY DEF Acquire, LoadJob, CheckDaemon, Backup, Supervise, Supervised, Inspect, Unlock, Die, Rollback,
           Changes, Moves
  <1>3. \A p \in Pids : known'[p] = known[p]
    <2>1. UNCHANGED known \/ known' = [known EXCEPT ![j] = disk]
      BY DEF Acquire, LoadJob, CheckDaemon, Backup, Supervise, Supervised, Inspect, Unlock, Die, Rollback,
             Changes, Moves
    <2> QED
      BY <1>1, <2>1, SelfUpdateAssumption DEF JobsOK, Readers
  <1>4. ASSUME NEW from, NEW to, Moves(j, from, to), from # "none", to # "none",
               from \in Ending => to \in Ending,
               to \in Early => from \in Early,
               to \in Installed => from \in Installed \/ Whole(After),
               to \in Restored => from \in Restored \/ Whole(Before),
               to \in Mid => from \in Mid,
               to \notin {"build", "restore"} \cup Delivering
        PROVE  OutcomeInv'
    <2>1. worker[j] = from /\ worker'[j] = to
      BY <1>1, <1>4 DEF Moves, JobsOK
    <2> QED
      BY <1>2, <1>3, <1>4, <2>1, OutcomeWalks
  <1> USE DEF Early, Installed, Restored, Mid, Ending, Delivering
  <1>5. CASE Acquire(j)
    <2>1. Moves(j, "acquire", "load") \/ Moves(j, "acquire", "tell")
      BY <1>5 DEF Acquire
    <2> QED
      BY <1>4, <2>1
  <1>6. CASE LoadJob(j)
    <2>1. Moves(j, "load", "check") \/ Moves(j, "load", "unlock")
      BY <1>6 DEF LoadJob
    <2> QED
      BY <1>4, <2>1
  <1>7. CASE CheckDaemon(j)
    <2>1. Moves(j, "check", "backup") \/ Moves(j, "check", "fail")
      BY <1>7 DEF CheckDaemon
    <2> QED
      BY <1>4, <2>1
  <1>8. CASE Backup(j)
    <2>1. Moves(j, "backup", "backed") \/ Moves(j, "backup", "fail")
      BY <1>8 DEF Backup
    <2> QED
      BY <1>4, <2>1
  <1>9. CASE Supervise(j)
    <2>1. \/ \E at \in Supervising : Moves(j, at, at)
          \/ Moves(j, "stop", "stopped") \/ Moves(j, "stop", "fail")
          \/ Moves(j, "start", "health") \/ Moves(j, "start", "roll")
          \/ Moves(j, "health", "succeeded") \/ Moves(j, "health", "roll")
          \/ Moves(j, "rollstop", "reset") \/ Moves(j, "rollstop", "stuck")
          \/ Moves(j, "restart", "rehealth") \/ Moves(j, "restart", "stuck")
          \/ Moves(j, "rehealth", "rolled") \/ Moves(j, "rehealth", "stuck")
      BY <1>9 DEF Supervise, Supervised, Supervising
    <2>2. ASSUME NEW at \in Supervising, Moves(j, at, at) PROVE OutcomeInv'
      BY <1>4, <2>2 DEF Supervising
    <2>3. CASE Moves(j, "stop", "stopped") \/ Moves(j, "stop", "fail")
      BY <1>4, <2>3
    <2>4. CASE \/ Moves(j, "start", "health") \/ Moves(j, "start", "roll")
               \/ Moves(j, "health", "succeeded") \/ Moves(j, "health", "roll")
      BY <1>4, <2>4
    <2>5. CASE \/ Moves(j, "rollstop", "reset") \/ Moves(j, "rollstop", "stuck")
               \/ Moves(j, "restart", "rehealth") \/ Moves(j, "restart", "stuck")
               \/ Moves(j, "rehealth", "rolled") \/ Moves(j, "rehealth", "stuck")
      BY <1>4, <2>5
    <2> QED
      BY <2>1, <2>2, <2>3, <2>4, <2>5
  <1>10. CASE Inspect(j)
    <2>1. \/ Moves(j, "verify", "roll") \/ Moves(j, "verify", "start") \/ Moves(j, "verify", "succeeded")
          \/ Moves(j, "reread", "stuck") \/ Moves(j, "reread", "restart") \/ Moves(j, "reread", "rolled")
      BY <1>10 DEF Inspect
    <2> QED
      BY <1>4, <2>1
  <1>11. CASE Unlock(j)
    <2>1. Moves(j, "unlock", "tell")
      BY <1>11 DEF Unlock
    <2> QED
      BY <1>4, <2>1
  <1>12. CASE Die(j)
    <2>1. Moves(j, worker[j], "dead") /\ worker[j] # "none"
      BY <1>12 DEF Die
    <2> QED
      BY <1>4, <2>1
  <1>13. CASE Rollback(j) /\ worker[j] = "rollstop"
    <2>1. Moves(j, "rollstop", "reset")
      BY <1>13 DEF Rollback, Changes, Moves
    <2> QED
      BY <1>4, <2>1
  <1> QED
    BY <1>5, <1>6, <1>7, <1>8, <1>9, <1>10, <1>11, <1>12, <1>13

(* The phases the worker records.                                          *)
LEMMA OutcomeMark ==
  ASSUME One, PollInv, OutcomeInv, NEW j \in Jobs, NEW from, NEW phase, NEW good, NEW bad,
         Mark(j, from, phase, good, bad),
         from \notin Ending \cup {"none"}, good \notin {"none", "build", "restore"} \cup Delivering,
         bad \in {"unlock", "roll", "rollstop"},
         bad # "unlock" => from \in Mid /\ phase \in Unfinished,
         good \in Early => from \in Early, good \in Installed => from \in Installed, good \notin Restored,
         good \in Mid => phase \in Unfinished,
         phase = "succeeded" => from \in Installed,
         phase \in {"rolled_back", "failed", "queued", "backed_up"} => from \in Early \cup Restored,
         phase \in Terminal => good \in Ending
  PROVE  OutcomeInv'
  <1>1. JobsOK
    BY DEF PollInv, Records
  <1>2. /\ worker[j] = from
        /\ \A i \in Readers : i # j => known'[i] = known[i]
        /\ known'[j].phase = phase
        /\ (disk' = known'[j] /\ worker'[j] = good) \/ (disk' = disk /\ worker'[j] = bad)
        /\ UNCHANGED <<proc, site, press>>
    <2>1. UNCHANGED press
      BY DEF Mark
    <2> QED
      BY <1>1, <2>1, MarkMoves
  <1>3. \A p \in Pids : known'[p] = known[p]
    BY <1>2, SelfUpdateAssumption DEF Readers
  <1>4. (Whole(Before)' <=> Whole(Before)) /\ (Whole(After)' <=> Whole(After))
    BY <1>2 DEF Whole
  <1>5. SiteAt(from)
    BY <1>2 DEF OutcomeInv
  <1>6. CASE disk' = known'[j] /\ worker'[j] = good
    <2>1. SiteAt(worker[j])'
      BY <1>4, <1>5, <1>6 DEF SiteAt
    <2>2. worker'[j] \in Mid => disk'.phase \in Unfinished
      BY <1>2, <1>6
    <2>3. Holds(disk.phase)' /\ Fresh(disk.phase)'
      BY <1>2, <1>4, <1>5, <1>6 DEF SiteAt, Holds, Fresh
    <2>4. disk'.phase \in Terminal => worker'[j] \in Ending
      BY <1>2, <1>6
    <2>5. worker[j] # "none" /\ worker[j] \notin Ending /\ worker'[j] # "none" /\ worker'[j] \notin Delivering
      BY <1>2, <1>6
    <2> QED
      BY <1>2, <1>3, <2>1, <2>2, <2>3, <2>4, <2>5, OutcomeMoves
  <1>7. CASE disk' = disk /\ worker'[j] = bad
    <2>1. SiteAt(worker[j])'
      BY <1>7 DEF SiteAt, Early, Installed, Restored
    <2>2. worker'[j] \in Mid => disk'.phase \in Unfinished
      BY <1>2, <1>7 DEF OutcomeInv, MidOpen, Mid, Installed, Restored
    <2>3. worker[j] # "none" /\ worker[j] \notin Ending /\ worker'[j] # "none" /\ worker'[j] \notin Delivering
      BY <1>2, <1>7 DEF Delivering
    <2>4. disk'.phase = disk.phase /\ site' = site
      BY <1>2, <1>7
    <2> QED
      BY <1>2, <1>3, <2>1, <2>2, <2>3, <2>4, OutcomeMoves
  <1> QED
    BY <1>2, <1>6, <1>7

LEMMA OutcomeJournal ==
  ASSUME One, PollInv, OutcomeInv, NEW j \in Jobs, Journal(j)
  PROVE  OutcomeInv'
  <1> USE DEF Early, Installed, Restored, Mid, Ending, Unfinished, Delivering, Terminal
  <1>1. CASE Mark(j, "backed", "backed_up", IF known[j].prior THEN "stop" ELSE "stopped", "unlock")
    <2>1. PICK good \in {"stop", "stopped"} : Mark(j, "backed", "backed_up", good, "unlock")
      BY <1>1
    <2> QED
      BY <2>1, OutcomeMark
  <1>2. CASE Mark(j, "stopped", "daemon_stopped", "merge", "unlock")
    BY <1>2, OutcomeMark
  <1>3. CASE Mark(j, "installed", "installed", "verify", "roll")
    BY <1>3, OutcomeMark
  <1>4. CASE Mark(j, "succeeded", "succeeded", "unlock", "unlock")
    BY <1>4, OutcomeMark
  <1>5. CASE Mark(j, "fail", "failed", "unlock", "unlock")
    BY <1>5, OutcomeMark
  <1>6. CASE Mark(j, "roll", "rolling_back", "rollstop", "rollstop")
    BY <1>6, OutcomeMark
  <1>7. CASE Mark(j, "rolled", "rolled_back", "unlock", "unlock")
    BY <1>7, OutcomeMark
  <1>8. CASE Mark(j, "stuck", "stuck", "unlock", "unlock")
    BY <1>8, OutcomeMark
  <1> QED
    BY <1>1, <1>2, <1>3, <1>4, <1>5, <1>6, <1>7, <1>8 DEF Journal

(* The steps that change the builds.                                       *)
LEMMA OutcomeBuilds ==
  ASSUME One, PollInv, OutcomeInv, NEW j \in Jobs,
         Install(j) \/ (Rollback(j) /\ worker[j] # "rollstop")
  PROVE  OutcomeInv'
  <1>1. JobsOK /\ j \in Readers /\ SiteRecord
    BY DEF PollInv, Records, Readers, OutcomeInv
  <1>2. ASSUME NEW from \in {"merge", "build", "reset", "restore"}, NEW to,
               worker[j] = from, worker'[j] = to, SiteRecord', SiteAt(worker[j])',
               to \in Mid, to \notin Delivering, UNCHANGED <<disk, press, proc, known>>
        PROVE  OutcomeInv'
    <2>1. from \in Mid /\ from # "none" /\ from \notin Ending /\ to # "none"
      BY <1>2 DEF Mid, Installed, Restored, Ending
    <2>2. disk'.phase \in Unfinished
      BY <1>2, <2>1 DEF OutcomeInv, MidOpen
    <2>3. \A p \in Pids : known'[p] = known[p]
      BY <1>2
    <2>4. disk'.phase = disk.phase
      BY <1>2
    <2> QED
      BY <1>2, <2>1, <2>2, <2>3, <2>4, OutcomeMoves
  <1>3. SiteAt(worker[j])
    BY DEF OutcomeInv
  <1>4. CASE Changes(j, "merge", "build", "roll", "install", "manifest", After)
    <2>1. worker[j] = "merge" /\ Whole(Before) /\ UNCHANGED <<disk, press, proc, known>>
      BY <1>3, <1>4 DEF Changes, Moves, SiteAt, Early
    <2>2. CASE Moves(j, "merge", "build") /\ site' = [site EXCEPT !["manifest"] = After]
      <3>1. worker'[j] = "build" /\ site' = [manifest |-> After, binary |-> Before]
        BY <1>1, <2>1, <2>2 DEF Moves, JobsOK, Whole
      <3>2. SiteRecord' /\ SiteAt(worker[j])' /\ worker'[j] \in Mid /\ worker'[j] \notin Delivering
        BY <3>1 DEF SiteRecord, SiteAt, Early, Installed, Restored, Mid, Delivering
      <3> QED
        BY <1>2, <2>1, <3>2
    <2>3. CASE Moves(j, "merge", "roll") /\ site' \in {site, [site EXCEPT !["manifest"] = After]}
      <3>1. worker'[j] = "roll" /\ SiteRecord'
        BY <1>1, <2>1, <2>3 DEF Moves, JobsOK, Whole, SiteRecord
      <3>2. SiteAt(worker[j])' /\ worker'[j] \in Mid /\ worker'[j] \notin Delivering
        BY <3>1 DEF SiteAt, Early, Installed, Restored, Mid, Delivering
      <3> QED
        BY <1>2, <2>1, <3>1, <3>2
    <2> QED
      BY <1>4, <2>2, <2>3 DEF Changes
  <1>5. CASE Changes(j, "build", "installed", "roll", "install", "binary", After)
    <2>1. worker[j] = "build" /\ site = [manifest |-> After, binary |-> Before] /\ UNCHANGED <<disk, press, proc, known>>
      BY <1>3, <1>5 DEF Changes, Moves, SiteAt
    <2>2. CASE Moves(j, "build", "installed") /\ site' = [site EXCEPT !["binary"] = After]
      <3>1. worker'[j] = "installed" /\ site' = [manifest |-> After, binary |-> After]
        BY <1>1, <2>1, <2>2 DEF Moves, JobsOK
      <3>2. SiteRecord' /\ SiteAt(worker[j])' /\ worker'[j] \in Mid /\ worker'[j] \notin Delivering
        BY <3>1 DEF SiteRecord, SiteAt, Whole, Early, Installed, Restored, Mid, Delivering
      <3> QED
        BY <1>2, <2>1, <3>2
    <2>3. CASE Moves(j, "build", "roll") /\ site' \in {site, [site EXCEPT !["binary"] = After]}
      <3>1. worker'[j] = "roll" /\ SiteRecord'
        BY <1>1, <2>1, <2>3 DEF Moves, JobsOK, SiteRecord
      <3>2. SiteAt(worker[j])' /\ worker'[j] \in Mid /\ worker'[j] \notin Delivering
        BY <3>1 DEF SiteAt, Early, Installed, Restored, Mid, Delivering
      <3> QED
        BY <1>2, <2>1, <3>1, <3>2
    <2> QED
      BY <1>5, <2>2, <2>3 DEF Changes
  <1>6. CASE Changes(j, "reset", "restore", "stuck", "restore", "manifest", Before)
    <2>1. worker[j] = "reset" /\ UNCHANGED <<disk, press, proc, known>>
      BY <1>6 DEF Changes, Moves
    <2>2. CASE Moves(j, "reset", "restore") /\ site' = [site EXCEPT !["manifest"] = Before]
      <3>1. worker'[j] = "restore" /\ SiteRecord' /\ site'.manifest = Before
        BY <1>1, <2>1, <2>2 DEF Moves, JobsOK, SiteRecord
      <3>2. SiteAt(worker[j])' /\ worker'[j] \in Mid /\ worker'[j] \notin Delivering
        BY <3>1 DEF SiteAt, Early, Installed, Restored, Mid, Delivering
      <3> QED
        BY <1>2, <2>1, <3>1, <3>2
    <2>3. CASE Moves(j, "reset", "stuck") /\ site' \in {site, [site EXCEPT !["manifest"] = Before]}
      <3>1. worker'[j] = "stuck" /\ SiteRecord'
        BY <1>1, <2>1, <2>3 DEF Moves, JobsOK, SiteRecord
      <3>2. SiteAt(worker[j])' /\ worker'[j] \in Mid /\ worker'[j] \notin Delivering
        BY <3>1 DEF SiteAt, Early, Installed, Restored, Mid, Delivering
      <3> QED
        BY <1>2, <2>1, <3>1, <3>2
    <2> QED
      BY <1>6, <2>2, <2>3 DEF Changes
  <1>7. CASE Changes(j, "restore", "reread", "stuck", "restore", "binary", Before)
    <2>1. worker[j] = "restore" /\ site.manifest = Before /\ UNCHANGED <<disk, press, proc, known>>
      BY <1>3, <1>7 DEF Changes, Moves, SiteAt
    <2>2. CASE Moves(j, "restore", "reread") /\ site' = [site EXCEPT !["binary"] = Before]
      <3>1. worker'[j] = "reread" /\ site' = [manifest |-> Before, binary |-> Before]
        BY <1>1, <2>1, <2>2 DEF Moves, JobsOK, SiteRecord
      <3>2. SiteRecord' /\ SiteAt(worker[j])' /\ worker'[j] \in Mid /\ worker'[j] \notin Delivering
        BY <3>1 DEF SiteRecord, SiteAt, Whole, Early, Installed, Restored, Mid, Delivering
      <3> QED
        BY <1>2, <2>1, <3>2
    <2>3. CASE Moves(j, "restore", "stuck") /\ site' \in {site, [site EXCEPT !["binary"] = Before]}
      <3>1. worker'[j] = "stuck" /\ SiteRecord'
        BY <1>1, <2>1, <2>3 DEF Moves, JobsOK, SiteRecord
      <3>2. SiteAt(worker[j])' /\ worker'[j] \in Mid /\ worker'[j] \notin Delivering
        BY <3>1 DEF SiteAt, Early, Installed, Restored, Mid, Delivering
      <3> QED
        BY <1>2, <2>1, <3>1, <3>2
    <2> QED
      BY <1>7, <2>2, <2>3 DEF Changes
  <1> QED
    BY <1>4, <1>5, <1>6, <1>7 DEF Install, Rollback

(* The worker's delivery at its end.                                       *)
LEMMA OutcomeTell ==
  ASSUME One, PollInv, OutcomeInv, NEW j \in Jobs, Tell(j)
  PROVE  OutcomeInv'
  <1>1. JobsOK /\ j \in Readers /\ j \notin Pids
    BY SelfUpdateAssumption DEF PollInv, Records, Readers
  <1>2. UNCHANGED <<site, press, proc>>
    BY <1>1 DEF Tell, TellLoad, TellEdit, TellNote, Delivers
  <1>3. \A p \in Pids : p \in Readers /\ p # j
    BY <1>1 DEF Readers
  <1>4. \A p \in Pids : known'[p] = known[p]
    <2>1. UNCHANGED known \/ \E x : known' = [known EXCEPT ![j] = x]
      BY DEF Tell, TellLoad, TellEdit, TellNote
    <2> QED
      BY <1>1, <1>3, <2>1 DEF JobsOK
  <1>5. ASSUME NEW from \in {"tell", "edit", "note"}, NEW to \in {"edit", "note", "done"},
               worker[j] = from, worker'[j] = to,
               to \in Delivering => known'[j].phase \in Terminal \cup {"interrupted"} /\ Claimed(known'[j].phase),
               disk'.phase = disk.phase
                 \/ (Holds(disk'.phase) /\ disk'.phase \in Terminal \cup {"interrupted"})
        PROVE  OutcomeInv'
    <2>1. worker[j] # "none" /\ to # "none" /\ to \in Ending /\ to \notin Mid
      BY <1>5 DEF Ending, Mid, Installed, Restored
    <2>2. SiteAt(worker[j])'
      BY <1>5 DEF SiteAt, Early, Installed, Restored
    <2>3. disk'.phase = disk.phase \/ (Holds(disk.phase)' /\ Fresh(disk.phase)')
      BY <1>2, <1>5 DEF Holds, Fresh, Whole, Terminal
    <2> QED
      BY <1>2, <1>4, <1>5, <2>1, <2>2, <2>3, OutcomeMoves
  <1>6. ASSUME NEW from, NEW to, Delivers(j, from, to, TRUE) PROVE worker[j] = from /\ worker'[j] = "done"
    BY <1>1, <1>6 DEF Delivers, Moves, JobsOK
  <1>7. ASSUME NEW from, NEW to, Delivers(j, from, to, FALSE) PROVE worker[j] = from /\ worker'[j] = to
    BY <1>1, <1>7 DEF Delivers, Moves, JobsOK
  <1>8. CASE TellLoad(j)
    <2>1. known' = [known EXCEPT ![j] = disk] /\ disk' = disk
      BY <1>8 DEF TellLoad
    <2>2. known'[j] = disk
      BY <1>1, <2>1 DEF JobsOK
    <2>3. CASE Untold(disk)
      <3>1. worker[j] = "tell" /\ worker'[j] = "edit"
        BY <1>7, <1>8, <2>3 DEF TellLoad
      <3>2. disk.phase \in Terminal \cup {"interrupted"} /\ Claimed(disk.phase)
        BY <2>3 DEF Untold, OutcomeInv
      <3> QED
        BY <1>5, <2>1, <2>2, <3>1, <3>2
    <2>4. CASE ~Untold(disk)
      <3>1. worker[j] = "tell" /\ worker'[j] = "done"
        BY <1>6, <1>8, <2>4 DEF TellLoad
      <3> QED
        BY <1>5, <2>1, <3>1 DEF Delivering
    <2> QED
      BY <2>3, <2>4
  <1>9. CASE TellEdit(j)
    <2>1. worker[j] = "edit" /\ worker'[j] \in {"note", "done"} /\ UNCHANGED <<disk, known>>
      BY <1>6, <1>7, <1>9 DEF TellEdit
    <2>2. known'[j].phase \in Terminal \cup {"interrupted"} /\ Claimed(known'[j].phase)
      BY <2>1 DEF OutcomeInv, KnownOK, Delivering
    <2> QED
      BY <1>5, <2>1, <2>2
  <1>10. CASE TellNote(j)
    <2>1. PICK ok \in BOOLEAN : Save([known[j] EXCEPT !.sent = TRUE], ok)
      BY <1>10 DEF TellNote
    <2>2. PICK x : x = [known[j] EXCEPT !.sent = TRUE]
      OBVIOUS
    <2>3. x.phase = known[j].phase
      <3>1. JobRecord(known[j])
        BY <1>1 DEF JobsOK
      <3> QED
        BY <2>2, <3>1, SentMoves
    <2>4. disk'.phase \in {disk.phase, known[j].phase}
      BY <2>1, <2>2, <2>3 DEF Save
    <2>5. worker[j] = "note" /\ worker'[j] = "done"
      BY <1>6, <1>10 DEF TellNote
    <2>6. known[j].phase \in Terminal \cup {"interrupted"} /\ Holds(known[j].phase)
      BY <2>5 DEF OutcomeInv, KnownOK, Delivering, Claimed
    <2> QED
      BY <1>5, <2>4, <2>5, <2>6 DEF Delivering
  <1> QED
    BY <1>8, <1>9, <1>10 DEF Tell

LEMMA OutcomeInductive == ASSUME One PROVE PollInv /\ OutcomeInv /\ [UpdateNext]_updateVars => OutcomeInv'
  <1> SUFFICES ASSUME PollInv, OutcomeInv, [UpdateNext]_updateVars PROVE OutcomeInv'
    OBVIOUS
  <1>1. ASSUME NEW p \in Pids, Daemon(p) PROVE OutcomeInv'
    BY <1>1, OutcomeDaemon
  <1>2. ASSUME NEW p \in Pids, NEW j \in Jobs, Panel(p, j) PROVE OutcomeInv'
    BY <1>2, OutcomePanel
  <1>3. ASSUME NEW j \in Jobs, WorkerStep(j) PROVE OutcomeInv'
    BY <1>3, OutcomeStrides, OutcomeJournal, OutcomeBuilds, OutcomeTell DEF WorkerStep
  <1>4. ASSUME NEW c \in Clients, Call(c) \/ (c \in Operator /\ Command(c)) PROVE OutcomeInv'
    BY <1>4, OutcomeCall
  <1>5. CASE UNCHANGED updateVars
    <2>1. /\ UNCHANGED <<site, worker, press, disk, proc>> /\ \A j \in Jobs : known'[j] = known[j]
          /\ \A p \in Pids : known'[p] = known[p]
      BY <1>5 DEF updateVars
    <2>2. \A p \in Pids : proc'[p].at \in Delivering => proc[p].at \in Delivering /\ known'[p] = known[p]
      BY <2>1
    <2>3. disk'.phase \in {disk.phase, "interrupted"}
      BY <2>1
    <2> QED
      BY <2>1, <2>2, <2>3, OutcomeAround
  <1> QED
    BY <1>1, <1>2, <1>3, <1>4, <1>5, SelfUpdateAssumption DEF UpdateNext

(* updateworker.go and updatenotify.go: an update the journal gives as     *)
(* succeeded is installed as a whole, one it gives as rolled back or       *)
(* failed has left the old build as a whole; of one job, for any number of *)
(* daemons that read and write the journal, deaths and failed steps.       *)
THEOREM TheOutcomeIsTrue == ASSUME \A i, j \in Jobs : i = j PROVE UpdateSpec => []OutcomeIsTrue
  <1>1. One
    BY DEF One
  <1>2. OutcomeInv => OutcomeIsTrue
    BY DEF OutcomeInv, Claimed, Holds, Fresh, OutcomeIsTrue
  <1> QED
    BY <1>1, <1>2, PollInit, PollInductive, OutcomeInit, OutcomeInductive, PTL DEF UpdateSpec

(***************************************************************************)
(* The daemon is up when the journal says that the update of one job has   *)
(* ended.  Until it is stopped, and again after a WaitHealthy that has     *)
(* found it well, the daemon is ready and nobody has asked it to stop      *)
(* (Standing); only the one call of the worker asks that (Unasked), and    *)
(* that worker has not ended.                                              *)
(***************************************************************************)
Calm == spent \cap {"crash", "operator", "slow", "stop"} = {}
Outcomes == {"succeeded", "rolled_back", "failed"}
UpFirst == {"none", "acquire", "load", "check", "backup", "backed", "fail", "succeeded", "rolled"}
Waits == {"health", "rehealth"}

Up == pidFile \in Pids /\ proc[pidFile].at = "ready" /\ ~proc[pidFile].asked
AskedRuns == \A p \in Pids : proc[p].asked => Runs(p)
Unasked ==
  \A j \in Jobs : worker[j] # "dead" =>
    \A p \in Pids : proc[p].asked => op[j].does = "stopping" /\ op[j].pid = p
Standing ==
  \A j \in Jobs :
    /\ worker[j] \in UpFirst => Up
    /\ worker[j] = "stop" => (op[j].does \in {"idle", "stop"} /\ Up) \/ op[j].does \in {"stopping", "ok"}
    /\ worker[j] \in Waits => op[j].does \notin {"stop", "stopping", "start", "claim"}
    /\ worker[j] \in Waits /\ op[j].does = "ok" => Up
RunsOn == disk.phase \in Outcomes => Up
Delivered ==
  /\ \A p \in Pids : proc[p].at \in Delivering => known[p].phase \notin Outcomes
  /\ \A j \in Jobs : worker[j] \in Delivering /\ known[j].phase \in Outcomes => Up
RunInv == Calm => AskedRuns /\ Unasked /\ Standing /\ RunsOn /\ Delivered

LEMMA RunInit == UpdateInit => RunInv
  <1> SUFFICES ASSUME UpdateInit PROVE RunInv
    OBVIOUS
  <1>1. PICK p \in Pids :
          /\ pidFile = p
          /\ proc = [q \in Pids |-> [at |-> IF q = p THEN "ready" ELSE "free", build |-> Before,
                                     tries |-> 0, asked |-> FALSE]]
    BY DEF UpdateInit
  <1>2. Up /\ (\A q \in Pids : ~proc[q].asked) /\ \A q \in Pids : proc[q].at \notin Delivering
    BY <1>1 DEF Up, Delivering
  <1>3. \A j \in Jobs : worker[j] = "none"
    BY DEF UpdateInit
  <1>4. AskedRuns /\ Unasked /\ Standing /\ RunsOn /\ Delivered
    BY <1>2, <1>3 DEF AskedRuns, Unasked, Standing, RunsOn, Delivered, Waits, Delivering
  <1> QED
    BY <1>4 DEF RunInv

(* A daemon that is up makes no step, in the absence of a crash.           *)
LEMMA UpIsStill ==
  ASSUME PollInv, Calm, Calm', NEW p \in Pids, Daemon(p)
  PROVE  ~Up
  <1>1. Turns
    BY DEF PollInv, InTurn, Calm
  <1>2. Runs(p)
    BY SelfUpdateAssumption
       DEF Daemon, RecoverActive, RecoverLoad, RecoverSave, Boot, Tell, TellLoad, TellEdit, TellNote, Delivers,
           DaemonStep, Create, Read, Remove, Release, Unlink, Quit, Killed, Listening, Runs
  <1>3. Up => pidFile = p
    BY <1>1, <1>2 DEF Up, Turns, OneRuns, Runs
  <1>4. ~Killed(p)
    BY DEF Killed, Fault, Calm
  <1>5. proc[p].at = "ready" => Quit(p)
    BY <1>4, SelfUpdateAssumption
       DEF Daemon, RecoverActive, RecoverLoad, RecoverSave, Boot, Tell, TellLoad, TellEdit, TellNote, Delivers,
           DaemonStep, Create, Read, Remove, Release, Unlink
  <1>6. Quit(p) /\ proc[p].at = "ready" => proc[p].asked
    BY DEF Quit
  <1> QED
    BY <1>3, <1>5, <1>6 DEF Up

(* What a daemon's step does to the processes.                             *)
LEMMA DaemonMoves ==
  ASSUME ProcessesOK, NEW p \in Pids, Daemon(p)
  PROVE  /\ \A q \in Pids : q # p => proc'[q] = proc[q]
         /\ proc'[p].asked => proc[p].asked /\ proc'[p].at \notin {"free", "gone"}
         /\ proc'[p].at \in Delivering =>
              \/ proc[p].at \in Delivering /\ known'[p] = known[p]
              \/ known' = [known EXCEPT ![p] = disk]
  <1>1. p \notin Jobs
    BY SelfUpdateAssumption
  <1>2. ASSUME NEW step, At(p, step), step \notin {"free", "gone"} \cup Delivering
        PROVE  /\ \A q \in Pids : q # p => proc'[q] = proc[q]
               /\ proc'[p].asked => proc[p].asked /\ proc'[p].at \notin {"free", "gone"}
               /\ proc'[p].at \notin Delivering
    BY <1>2, AtMoves
  <1>3. ASSUME Ends(p)
        PROVE  /\ \A q \in Pids : q # p => proc'[q] = proc[q]
               /\ ~proc'[p].asked /\ proc'[p].at \notin Delivering
    BY <1>3, EndMoves DEF Delivering
  <1>4. CASE Remove(p)
    <2>1. CASE proc' = [proc EXCEPT ![p] = [at |-> "create", build |-> @.build,
                                            tries |-> @.tries + 1, asked |-> @.asked]]
      <3>1. /\ \A q \in Pids : q # p => proc'[q] = proc[q]
            /\ proc'[p].asked = proc[p].asked /\ proc'[p].at = "create"
        BY <2>1 DEF ProcessesOK
      <3> QED
        BY <3>1 DEF Delivering
    <2> QED
      BY <1>3, <1>4, <2>1 DEF Remove
  <1>5. CASE Tell(p)
    <2>1. CASE TellLoad(p)
      <3>1. known' = [known EXCEPT ![p] = disk] /\ \E step \in {"boot", "edit"} : At(p, step)
        BY <1>1, <2>1 DEF TellLoad, Delivers
      <3> QED
        BY <3>1, AtMoves
    <2>2. CASE TellEdit(p)
      <3>1. proc[p].at = "edit" /\ known' = known /\ \E step \in {"boot", "note"} : At(p, step)
        BY <1>1, <2>2 DEF TellEdit, Delivers
      <3> QED
        BY <3>1, AtMoves DEF Delivering
    <2>3. CASE TellNote(p)
      <3>1. At(p, "boot")
        BY <1>1, <2>3 DEF TellNote, Delivers
      <3> QED
        BY <1>2, <3>1 DEF Delivering
    <2> QED
      BY <1>5, <2>1, <2>2, <2>3 DEF Tell
  <1>6. CASE ~(Tell(p) \/ Remove(p))
    <2>1. \/ Ends(p)
          \/ \E step \in {"attended", "alone", "interrupt", "tell", "boot", "clean", "sweep", "ready",
                          "recover", "read", "remove", "unlink", "release"} : At(p, step)
      BY <1>6 DEF Daemon, RecoverActive, RecoverLoad, RecoverSave, Boot, DaemonStep, Create, Read, Release,
                  Unlink, Quit, Killed
    <2> QED
      BY <1>2, <1>3, <2>1 DEF Delivering
  <1> QED
    BY <1>4, <1>5, <1>6

LEMMA RunDaemon ==
  ASSUME PollInv, RunInv, Calm, Calm', NEW p \in Pids, Daemon(p)
  PROVE  RunInv'
  <1>1. JobsOK /\ ProcessesOK /\ AskedRuns /\ Unasked /\ Standing /\ RunsOn /\ Delivered
    BY DEF PollInv, Records, RunInv
  <1>2. UNCHANGED <<op, worker>> /\ \A r \in Readers : r # p => known'[r] = known[r]
    BY <1>1, DaemonJobs
  <1>3. /\ \A q \in Pids : q # p => proc'[q] = proc[q]
        /\ proc'[p].asked => proc[p].asked /\ proc'[p].at \notin {"free", "gone"}
        /\ proc'[p].at \in Delivering =>
             \/ proc[p].at \in Delivering /\ known'[p] = known[p]
             \/ known' = [known EXCEPT ![p] = disk]
    BY <1>1, DaemonMoves
  <1>4. ~Up
    BY UpIsStill
  <1>5. AskedRuns'
    BY <1>1, <1>3 DEF AskedRuns, Runs
  <1>6. Unasked'
    BY <1>1, <1>2, <1>3 DEF Unasked
  <1>7. Standing'
    BY <1>1, <1>2, <1>4 DEF Standing
  <1>8. disk.phase \notin Outcomes
    BY <1>1, <1>4 DEF RunsOn
  <1>9. p \in Readers /\ p \notin Jobs /\ (\A q \in Pids : q \in Readers) /\ \A j \in Jobs : j \in Readers
    BY SelfUpdateAssumption DEF Readers
  <1>10. RunsOn'
    <2>1. CASE UNCHANGED disk
      BY <1>8, <2>1 DEF RunsOn
    <2>2. CASE RecoverSave(p)
      <3>1. PICK ok \in BOOLEAN : Save([known[p] EXCEPT !.phase = "interrupted"], ok)
        BY <2>2 DEF RecoverSave
      <3>2. PICK x : x = [known[p] EXCEPT !.phase = "interrupted"]
        OBVIOUS
      <3>3. JobRecord(known[p])
        BY <1>1, <1>9 DEF JobsOK
      <3>4. x.phase = "interrupted"
        BY <3>2, <3>3, PhaseMoves
      <3>5. disk'.phase \in {disk.phase, "interrupted"}
        BY <3>1, <3>2, <3>4 DEF Save
      <3> QED
        BY <1>8, <3>5 DEF RunsOn, Outcomes
    <2>3. CASE TellNote(p)
      <3>1. PICK ok \in BOOLEAN : Save([known[p] EXCEPT !.sent = TRUE], ok)
        BY <2>3 DEF TellNote
      <3>2. PICK x : x = [known[p] EXCEPT !.sent = TRUE]
        OBVIOUS
      <3>3. JobRecord(known[p])
        BY <1>1, <1>9 DEF JobsOK
      <3>4. x.phase = known[p].phase
        BY <3>2, <3>3, SentMoves
      <3>5. disk'.phase \in {disk.phase, known[p].phase}
        BY <3>1, <3>2, <3>4 DEF Save
      <3>6. proc[p].at = "note"
        BY <1>9, <2>3 DEF TellNote, Delivers
      <3>7. known[p].phase \notin Outcomes
        BY <1>1, <3>6 DEF Delivered, Delivering
      <3> QED
        BY <1>8, <3>5, <3>7 DEF RunsOn
    <2> QED
      BY <2>1, <2>2, <2>3 DEF Daemon, RecoverActive, RecoverLoad, Boot, Tell, TellLoad, TellEdit
  <1>11. Delivered'
    <2>1. known' = [known EXCEPT ![p] = disk] => known'[p].phase \notin Outcomes
      BY <1>1, <1>8, <1>9 DEF JobsOK
    <2>2. ASSUME NEW q \in Pids, proc'[q].at \in Delivering PROVE known'[q].phase \notin Outcomes
      BY <1>1, <1>2, <1>3, <1>9, <2>1, <2>2 DEF Delivered
    <2>3. ASSUME NEW j \in Jobs PROVE ~(worker'[j] \in Delivering /\ known'[j].phase \in Outcomes)
      BY <1>1, <1>2, <1>4, <1>9 DEF Delivered
    <2> QED
      BY <2>2, <2>3 DEF Delivered, Delivering, Outcomes
  <1> QED
    BY <1>5, <1>6, <1>7, <1>10, <1>11 DEF RunInv

LEMMA RunPanel ==
  ASSUME One, PollInv, RunInv, Calm, NEW p \in Pids, NEW j \in Jobs, Panel(p, j)
  PROVE  RunInv'
  <1>1. JobsOK /\ PressFirst /\ AskedRuns /\ Unasked /\ Standing /\ RunsOn /\ Delivered
    BY DEF PollInv, Records, RunInv
  <1>2. UNCHANGED <<pidFile, proc, op>>
    BY DEF Panel, CheckRelease, Consume, StartLoad, StartSave, Launch, Unlaunched
  <1>3. Up' <=> Up
    BY <1>2 DEF Up
  <1>4. j \in Readers /\ \A q \in Pids : q \in Readers /\ q # j
    BY SelfUpdateAssumption DEF Readers
  <1>5. \A q \in Pids : known'[q] = known[q]
    <2>1. UNCHANGED known \/ known' = [known EXCEPT ![j] = Queued(j)]
      BY DEF Panel, CheckRelease, Consume, StartLoad, StartSave, Launch, Unlaunched
    <2> QED
      BY <1>1, <1>4, <2>1 DEF JobsOK
  <1>6. worker[j] = "none"
    <2>1. press[j].at \in {"none", "offered", "load", "save", "launch", "unlaunched"}
      BY DEF Panel, CheckRelease, Consume, StartLoad, StartSave, Launch, Unlaunched, Pressed
    <2> QED
      BY <1>1, <2>1 DEF PressFirst
  <1>7. worker'[j] \in {"none", "acquire"}
    <2>1. UNCHANGED worker \/ worker' = [worker EXCEPT ![j] = "acquire"]
      BY DEF Panel, CheckRelease, Consume, StartLoad, StartSave, Launch, Unlaunched
    <2> QED
      BY <1>1, <1>6, <2>1 DEF JobsOK
  <1>8. Up /\ \A i \in Jobs : i = j
    BY <1>1, <1>6 DEF Standing, UpFirst, One
  <1>9. AskedRuns' /\ RunsOn'
    BY <1>1, <1>2, <1>3, <1>8 DEF AskedRuns, Runs, RunsOn
  <1>10. Unasked'
    <2>1. \A q \in Pids : proc[q].asked => op[j].does = "stopping" /\ op[j].pid = q
      BY <1>1, <1>6 DEF Unasked
    <2> QED
      BY <1>2, <1>8, <2>1 DEF Unasked
  <1>11. Standing'
    BY <1>3, <1>7, <1>8 DEF Standing, Waits
  <1>12. Delivered'
    BY <1>1, <1>2, <1>3, <1>5, <1>8 DEF Delivered
  <1> QED
    BY <1>9, <1>10, <1>11, <1>12 DEF RunInv

(* A call is the worker's own: the job has not ended.                      *)
LEMMA RunCall ==
  ASSUME One, PollInv, OutcomeInv, RunInv, Calm, Calm', NEW c \in Clients, Call(c)
  PROVE  RunInv'
  <1>1. /\ ProcessesOK /\ CallsOK /\ Turns /\ AskedRuns /\ Unasked /\ Standing /\ Delivered
        /\ Claimed(disk.phase)
    BY DEF PollInv, Records, RunInv, OutcomeInv, InTurn, Calm
  <1>2. UNCHANGED <<disk, worker, known>> /\ UNCHANGED pidFile
    BY DEF Call, Stop, Stopping, Start, Claim, Health
  <1>3. op[c].does # "idle"
    BY DEF Call, Stop, Stopping, Start, Claim, Health
  <1>4. c \in Jobs /\ worker[c] \in Supervising /\ \A j \in Jobs : j = c
    BY <1>1, <1>3 DEF Turns, ByJobs, One
  <1>5. disk.phase \notin Outcomes
    BY <1>1, <1>4 DEF Claimed, Finished, Ending, Supervising, Terminal, Outcomes
  <1>6. worker[c] # "dead" /\ worker[c] \notin UpFirst /\ worker[c] \notin Delivering
    BY <1>4 DEF Supervising, UpFirst, Delivering
  <1>7. RunsOn'
    BY <1>2, <1>5 DEF RunsOn
  <1>8. \A q \in Pids : proc[q].asked => Runs(q) /\ op[c].does = "stopping" /\ op[c].pid = q
    BY <1>1, <1>4, <1>6 DEF AskedRuns, Unasked
  <1>9. SUFFICES /\ \A q \in Pids : proc'[q].at \in Delivering => proc[q].at \in Delivering
                 /\ \A q \in Pids : proc'[q].asked =>
                      proc'[q].at \notin {"free", "gone"} /\ op'[c].does = "stopping" /\ op'[c].pid = q
                 /\ worker[c] = "stop" =>
                      (op'[c].does \in {"idle", "stop"} /\ Up') \/ op'[c].does \in {"stopping", "ok"}
                 /\ worker[c] \in Waits => op'[c].does \notin {"stop", "stopping", "start", "claim"}
                 /\ worker[c] \in Waits /\ op'[c].does = "ok" => Up'
    <2>1. ASSUME /\ \A q \in Pids : proc'[q].at \in Delivering => proc[q].at \in Delivering
                 /\ \A q \in Pids : proc'[q].asked =>
                      proc'[q].at \notin {"free", "gone"} /\ op'[c].does = "stopping" /\ op'[c].pid = q
                 /\ worker[c] = "stop" =>
                      (op'[c].does \in {"idle", "stop"} /\ Up') \/ op'[c].does \in {"stopping", "ok"}
                 /\ worker[c] \in Waits => op'[c].does \notin {"stop", "stopping", "start", "claim"}
                 /\ worker[c] \in Waits /\ op'[c].does = "ok" => Up'
          PROVE  RunInv'
      <3>1. AskedRuns' /\ Unasked'
        BY <1>4, <2>1 DEF AskedRuns, Runs, Unasked
      <3>2. Standing'
        BY <1>2, <1>4, <1>6, <2>1 DEF Standing
      <3>3. Delivered'
        BY <1>1, <1>2, <1>4, <1>6, <2>1 DEF Delivered
      <3> QED
        BY <1>7, <3>1, <3>2, <3>3 DEF RunInv
    <2> QED
      BY <2>1
  <1>10. worker[c] = "stop" => (op[c].does = "stop" /\ Up) \/ op[c].does \in {"stopping", "ok"}
    BY <1>1, <1>3, <1>4 DEF Standing
  <1>11. worker[c] \in Waits => op[c].does \notin {"stop", "stopping", "start", "claim"}
    BY <1>1, <1>4 DEF Standing
  <1>12. CASE Stop(c)
    <2>1. op[c].does = "stop"
      BY <1>12 DEF Stop
    <2>2. \A q \in Pids : ~proc[q].asked
      BY <1>8, <2>1
    <2>3. worker[c] \notin Waits
      BY <1>11, <2>1
    <2>4. CASE ~DaemonRuns
      <3>1. Calls(c, "absent") /\ UNCHANGED proc
        BY <1>12, <2>4 DEF Stop, DaemonRuns
      <3>2. worker[c] # "stop"
        BY <1>10, <2>1, <2>4 DEF Up, DaemonRuns, Runs
      <3> QED
        BY <2>2, <2>3, <3>1, <3>2
    <2>5. CASE DaemonRuns
      <3>0. ~Fault("stop")
        BY DEF Calm, Fault
      <3>1. op' = [op EXCEPT ![c] = [does |-> "stopping", pid |-> pidFile]] /\ pidFile \in Pids
        BY <1>12, <2>5, <3>0 DEF Stop, DaemonRuns, Runs
      <3>2. op'[c].does = "stopping" /\ op'[c].pid = pidFile
        BY <1>1, <3>1 DEF CallsOK
      <3>3. CASE proc' = [proc EXCEPT ![pidFile].asked = TRUE]
        <4>1. /\ proc'[pidFile].at = proc[pidFile].at
              /\ \A q \in Pids : q # pidFile => proc'[q] = proc[q]
          BY <1>1, <3>1, <3>3, AskMoves
        <4>2. proc[pidFile].at \notin {"free", "gone"}
          BY <2>5 DEF DaemonRuns, Runs
        <4> QED
          BY <2>2, <2>3, <3>2, <4>1, <4>2
      <3>4. CASE Ends(pidFile)
        <4>1. /\ proc'[pidFile].at = "gone" /\ ~proc'[pidFile].asked
              /\ \A q \in Pids : q # pidFile => proc'[q] = proc[q]
          BY <1>1, <3>1, <3>4, EndMoves
        <4> QED
          BY <2>2, <2>3, <3>2, <4>1 DEF Delivering
      <3> QED
        BY <1>12, <2>5, <3>0, <3>3, <3>4 DEF Stop, Asked, Ends
    <2> QED
      BY <2>4, <2>5
  <1>13. CASE Stopping(c)
    <2>0. ~Fault("stop")
      BY DEF Calm, Fault
    <2>1. Returns(c, "ok") /\ op[c].does = "stopping"
      BY <1>13, <2>0 DEF Stopping
    <2>2. op'[c].does = "ok" /\ worker[c] \notin Waits
      BY <1>1, <1>11, <2>1 DEF CallsOK, Returns
    <2>3. CASE UNCHANGED proc /\ ~Runs(op[c].pid)
      BY <1>8, <2>2, <2>3
    <2>4. CASE Runs(op[c].pid) /\ Ends(op[c].pid)
      <3>1. op[c].pid \in Pids
        BY <2>4 DEF Runs
      <3>2. /\ proc'[op[c].pid].at = "gone" /\ ~proc'[op[c].pid].asked
            /\ \A q \in Pids : q # op[c].pid => proc'[q] = proc[q]
        BY <1>1, <2>4, <3>1, EndMoves
      <3> QED
        BY <1>8, <2>2, <3>2 DEF Delivering
    <2> QED
      BY <1>13, <2>0, <2>3, <2>4 DEF Stopping
  <1>14. CASE Start(c, site.binary)
    <2>1. op[c].does = "start"
      BY <1>14 DEF Start
    <2>2. worker[c] # "stop" /\ worker[c] \notin Waits /\ \A q \in Pids : ~proc[q].asked
      BY <1>8, <1>10, <1>11, <2>1
    <2>3. CASE UNCHANGED proc
      BY <2>2, <2>3
    <2>4. CASE \E p \in Pids : proc' = [proc EXCEPT ![p].at = "create", ![p].build = site.binary]
      <3>1. PICK p \in Pids : proc' = [proc EXCEPT ![p].at = "create", ![p].build = site.binary]
        BY <2>4
      <3>2. /\ proc'[p].at = "create" /\ proc'[p].asked = proc[p].asked
            /\ \A q \in Pids : q # p => proc'[q] = proc[q]
        BY <1>1, <3>1, SpawnMoves
      <3> QED
        BY <2>2, <3>2 DEF Delivering
    <2> QED
      BY <1>14, <2>3, <2>4 DEF Start
  <1>15. CASE Claim(c)
    <2>1. op[c].does = "claim" /\ UNCHANGED proc
      BY <1>15 DEF Claim
    <2> QED
      BY <1>8, <1>10, <1>11, <2>1
  <1>16. CASE Health(c, IF worker[c] = "health" THEN After ELSE Before)
    <2>1. op[c].does = "health" /\ UNCHANGED proc
      BY <1>16 DEF Health
    <2>2. worker[c] # "stop" /\ \A q \in Pids : ~proc[q].asked
      BY <1>8, <1>10, <2>1
    <2>3. \/ Calls(c, "failed")
          \/ Calls(c, "ok") /\ DaemonRuns /\ proc[pidFile].at = "ready"
      BY <1>16 DEF Health
    <2>4. \/ op'[c].does = "failed"
          \/ op'[c].does = "ok" /\ DaemonRuns /\ proc[pidFile].at = "ready"
      BY <1>1, <2>3, CallMoves
    <2>5. op'[c].does = "ok" => Up'
      BY <1>2, <2>1, <2>2, <2>4 DEF Up, DaemonRuns, Runs
    <2> QED
      BY <2>1, <2>2, <2>4, <2>5
  <1> QED
    BY <1>12, <1>13, <1>14, <1>15, <1>16 DEF Call

(* The worker's steps: what they need of the daemon where they go.         *)
LEMMA RunStep ==
  ASSUME One, RunInv, Calm, NEW j \in Jobs, worker[j] # "dead",
         UNCHANGED <<pidFile, proc>>, \A p \in Pids : known'[p] = known[p],
         worker'[j] = "dead" \/ op' = op \/ op[j].does # "stopping",
         worker'[j] \in UpFirst => Up,
         worker'[j] = "stop" => (op'[j].does \in {"idle", "stop"} /\ Up) \/ op'[j].does \in {"stopping", "ok"},
         worker'[j] \in Waits => op'[j].does \in {"idle", "health"},
         disk'.phase = disk.phase \/ (disk'.phase \in Outcomes => Up),
         worker'[j] \in Delivering => (known'[j].phase \in Outcomes => Up)
  PROVE  RunInv'
  <1>1. AskedRuns /\ Unasked /\ Standing /\ RunsOn /\ Delivered
    BY DEF RunInv
  <1>2. (Up' <=> Up) /\ \A i \in Jobs : i = j
    BY DEF Up, One
  <1>3. AskedRuns' /\ RunsOn'
    BY <1>1, <1>2 DEF AskedRuns, Runs, RunsOn
  <1>4. Unasked'
    <2>1. \A q \in Pids : proc[q].asked => op[j].does = "stopping" /\ op[j].pid = q
      BY <1>1 DEF Unasked
    <2> QED
      BY <1>2, <2>1 DEF Unasked
  <1>5. Standing'
    BY <1>2 DEF Standing
  <1>6. Delivered'
    BY <1>1, <1>2 DEF Delivered
  <1> QED
    BY <1>3, <1>4, <1>5, <1>6 DEF RunInv

(* The steps that leave the supervisor alone.                              *)
LEMMA RunWalks ==
  ASSUME One, PollInv, RunInv, Calm, NEW j \in Jobs, NEW from, NEW to, Moves(j, from, to), from # "dead",
         UNCHANGED <<pidFile, proc, op>>, \A p \in Pids : known'[p] = known[p],
         to \in UpFirst => Up,
         to = "stop" => from \notin Supervising /\ Up,
         to \notin Waits \cup Delivering,
         disk'.phase = disk.phase \/ (disk'.phase \in Outcomes => Up)
  PROVE  RunInv'
  <1>1. JobsOK /\ Turns
    BY DEF PollInv, Records, InTurn, Calm
  <1>2. worker[j] = from /\ worker'[j] = to
    BY <1>1 DEF Moves, JobsOK
  <1>3. to = "stop" => op'[j].does = "idle"
    BY <1>1, <1>2, NobodyStarts
  <1> QED
    BY <1>2, <1>3, RunStep

LEMMA RunStrides ==
  ASSUME One, PollInv, RunInv, Calm, NEW j \in Jobs,
         \/ Acquire(j) \/ LoadJob(j) \/ CheckDaemon(j) \/ Backup(j) \/ Inspect(j)
         \/ Install(j) \/ Rollback(j) \/ Unlock(j)
  PROVE  RunInv'
  <1>1. JobsOK /\ Turns /\ OwnJob /\ Standing /\ j \in Readers
    BY DEF PollInv, Records, InTurn, Calm, RunInv, Readers
  <1>2. UNCHANGED <<pidFile, proc, op, disk>>
    BY DEF Acquire, LoadJob, CheckDaemon, Backup, Inspect, Install, Rollback, Changes, Unlock
  <1>3. \A p \in Pids : known'[p] = known[p]
    <2>1. UNCHANGED known \/ known' = [known EXCEPT ![j] = disk]
      BY DEF Acquire, LoadJob, CheckDaemon, Backup, Inspect, Install, Rollback, Changes, Unlock
    <2>2. \A p \in Pids : p \in Readers /\ p # j
      BY SelfUpdateAssumption DEF Readers
    <2> QED
      BY <1>1, <2>1, <2>2 DEF JobsOK
  <1>4. ASSUME NEW from, NEW to, Moves(j, from, to), from # "dead",
               to \in UpFirst => Up, to # "stop", to \notin Waits \cup Delivering
        PROVE  RunInv'
    <2>1. disk'.phase = disk.phase
      BY <1>2
    <2> QED
      BY <1>2, <1>3, <1>4, <2>1, RunWalks
  <1>5. worker[j] \in UpFirst => Up
    BY <1>1 DEF Standing
  <1>6. worker[j] \in {"verify", "reread"} => known[j].prior
    BY <1>1 DEF Turns, WithDaemon, OwnJob, Locked, Past
  <1> USE DEF UpFirst, Waits, Delivering
  <1>7. CASE Acquire(j) \/ LoadJob(j) \/ CheckDaemon(j) \/ Backup(j) \/ Unlock(j)
    <2>1. \/ Up /\ (\/ Moves(j, "acquire", "load") \/ Moves(j, "acquire", "tell")
                    \/ Moves(j, "load", "check") \/ Moves(j, "load", "unlock")
                    \/ Moves(j, "check", "backup") \/ Moves(j, "check", "fail")
                    \/ Moves(j, "backup", "backed") \/ Moves(j, "backup", "fail"))
          \/ Moves(j, "unlock", "tell")
      BY <1>5, <1>7 DEF Acquire, LoadJob, CheckDaemon, Backup, Unlock, Moves
    <2> QED
      BY <1>4, <2>1
  <1>8. CASE Inspect(j)
    <2>1. \/ Moves(j, "verify", "roll") \/ Moves(j, "verify", "start")
          \/ Moves(j, "reread", "stuck") \/ Moves(j, "reread", "restart")
      BY <1>6, <1>8 DEF Inspect, Moves
    <2> QED
      BY <1>4, <2>1
  <1>9. CASE Install(j) \/ Rollback(j)
    <2>1. \/ Moves(j, "merge", "build") \/ Moves(j, "merge", "roll")
          \/ Moves(j, "build", "installed") \/ Moves(j, "build", "roll")
          \/ Moves(j, "rollstop", "reset")
          \/ Moves(j, "reset", "restore") \/ Moves(j, "reset", "stuck")
          \/ Moves(j, "restore", "reread") \/ Moves(j, "restore", "stuck")
      BY <1>9 DEF Install, Rollback, Changes
    <2> QED
      BY <1>4, <2>1
  <1> QED
    BY <1>7, <1>8, <1>9

LEMMA RunMark ==
  ASSUME One, PollInv, RunInv, Calm, NEW j \in Jobs, NEW from, NEW phase, NEW good, NEW bad,
         Mark(j, from, phase, good, bad), from \notin Supervising \cup {"dead"},
         good = "stop" => from \in UpFirst,
         good \notin UpFirst \cup Waits \cup Delivering, bad \notin UpFirst \cup Waits \cup Delivering \cup {"stop"},
         phase \in Outcomes => from \in UpFirst
  PROVE  RunInv'
  <1>1. JobsOK /\ Turns /\ Standing
    BY DEF PollInv, Records, InTurn, Calm, RunInv
  <1>2. /\ worker[j] = from
        /\ \A i \in Readers : i # j => known'[i] = known[i]
        /\ known'[j].phase = phase
        /\ (disk' = known'[j] /\ worker'[j] = good) \/ (disk' = disk /\ worker'[j] = bad)
        /\ UNCHANGED <<pidFile, proc, op>>
    BY <1>1, MarkMoves
  <1>3. \A p \in Pids : known'[p] = known[p]
    BY <1>2, SelfUpdateAssumption DEF Readers
  <1>4. from \in UpFirst => Up
    BY <1>1, <1>2 DEF Standing
  <1>5. disk'.phase = disk.phase \/ (disk'.phase \in Outcomes => Up)
    BY <1>2, <1>4
  <1>6. op[j].does = "idle"
    BY <1>1, <1>2, NobodyStarts
  <1>7. worker'[j] = "stop" => op'[j].does = "idle" /\ Up
    BY <1>2, <1>4, <1>6
  <1>8. worker[j] # "dead" /\ worker'[j] \notin UpFirst /\ worker'[j] \notin Waits /\ worker'[j] \notin Delivering
    BY <1>2
  <1> QED
    BY <1>2, <1>3, <1>5, <1>7, <1>8, RunStep

LEMMA RunJournal ==
  ASSUME One, PollInv, RunInv, Calm, NEW j \in Jobs, Journal(j)
  PROVE  RunInv'
  <1> USE DEF UpFirst, Waits, Delivering, Supervising, Outcomes
  <1>1. CASE Mark(j, "backed", "backed_up", IF known[j].prior THEN "stop" ELSE "stopped", "unlock")
    <2>1. PICK good \in {"stop", "stopped"} : Mark(j, "backed", "backed_up", good, "unlock")
      BY <1>1
    <2> QED
      BY <2>1, RunMark
  <1>2. CASE Mark(j, "stopped", "daemon_stopped", "merge", "unlock")
    BY <1>2, RunMark
  <1>3. CASE Mark(j, "installed", "installed", "verify", "roll")
    BY <1>3, RunMark
  <1>4. CASE Mark(j, "succeeded", "succeeded", "unlock", "unlock")
    BY <1>4, RunMark
  <1>5. CASE Mark(j, "fail", "failed", "unlock", "unlock")
    BY <1>5, RunMark
  <1>6. CASE Mark(j, "roll", "rolling_back", "rollstop", "rollstop")
    BY <1>6, RunMark
  <1>7. CASE Mark(j, "rolled", "rolled_back", "unlock", "unlock")
    BY <1>7, RunMark
  <1>8. CASE Mark(j, "stuck", "stuck", "unlock", "unlock")
    BY <1>8, RunMark
  <1> QED
    BY <1>1, <1>2, <1>3, <1>4, <1>5, <1>6, <1>7, <1>8 DEF Journal

LEMMA RunSupervise ==
  ASSUME One, PollInv, RunInv, Calm, NEW j \in Jobs, Supervise(j)
  PROVE  RunInv'
  <1>1. JobsOK /\ CallsOK /\ Standing /\ j \in Clients
    BY SelfUpdateAssumption DEF PollInv, Records, RunInv
  <1>2. UNCHANGED <<pidFile, proc, disk, known>>
    BY DEF Supervise, Supervised
  <1>3. disk'.phase = disk.phase /\ \A p \in Pids : known'[p] = known[p]
    BY <1>2
  <1>4. ASSUME NEW at, NEW what, NEW good, NEW bad, Supervised(j, at, what, good, bad),
               at \in {"stop", "start", "health", "rollstop", "restart", "rehealth"},
               at = "stop" => what = "stop" /\ good = "stopped" /\ bad = "fail",
               at \in Waits => what = "health" /\ bad \in {"roll", "stuck"} /\ good \in {"succeeded", "rolled"},
               at \notin Waits \cup {"stop"} => good \in Waits \cup {"reset"} /\ bad \in {"roll", "stuck"}
        PROVE  RunInv'
    <2>1. CASE op[j].does = "idle" /\ Calls(j, what) /\ Moves(j, at, at)
      <3>1. worker[j] = at /\ worker'[j] = at /\ op'[j].does = what
        BY <1>1, <2>1, CallMoves DEF Moves, JobsOK
      <3>2. worker'[j] = "stop" => op'[j].does = "stop" /\ Up
        BY <1>1, <1>4, <2>1, <3>1 DEF Standing
      <3>3. worker'[j] \notin UpFirst /\ worker'[j] \notin Delivering /\ worker[j] # "dead"
        BY <1>4, <3>1 DEF UpFirst, Delivering
      <3>4. worker'[j] \in Waits => op'[j].does = "health"
        BY <1>4, <3>1
      <3>5. op[j].does # "stopping"
        BY <2>1
      <3> QED
        BY <1>2, <1>3, <3>2, <3>3, <3>4, <3>5, RunStep
    <2>2. CASE /\ op[j].does \in Results /\ Calls(j, "idle")
               /\ Moves(j, at, IF op[j].does = "ok" THEN good ELSE bad)
      <3>1. worker[j] = at /\ op'[j].does = "idle"
        BY <1>1, <2>2, CallMoves DEF Moves
      <3>2. worker'[j] = IF op[j].does = "ok" THEN good ELSE bad
        BY <1>1, <2>2 DEF Moves, JobsOK
      <3>3. op[j].does # "stopping" /\ op[j].does \notin {"idle", "stop"}
        BY <2>2 DEF Results
      <3>4. at = "stop" => op[j].does = "ok"
        BY <1>1, <3>1, <3>3 DEF Standing
      <3>5. at \in Waits /\ op[j].does = "ok" => Up
        BY <1>1, <3>1 DEF Standing
      <3>6. worker'[j] \in UpFirst => Up
        BY <1>4, <3>2, <3>4, <3>5 DEF UpFirst, Waits
      <3>7. worker'[j] # "stop" /\ worker'[j] \notin Delivering /\ worker[j] # "dead"
        BY <1>4, <3>1, <3>2 DEF Waits, Delivering
      <3> QED
        BY <1>2, <1>3, <3>1, <3>3, <3>6, <3>7, RunStep
    <2> QED
      BY <1>4, <2>1, <2>2 DEF Supervised
  <1> USE DEF Waits
  <1>5. CASE Supervised(j, "stop", "stop", "stopped", "fail")
    BY <1>4, <1>5
  <1>6. CASE Supervised(j, "start", "start", "health", "roll")
    BY <1>4, <1>6
  <1>7. CASE Supervised(j, "health", "health", "succeeded", "roll")
    BY <1>4, <1>7
  <1>8. CASE Supervised(j, "rollstop", "stop", "reset", "stuck")
    BY <1>4, <1>8
  <1>9. CASE Supervised(j, "restart", "start", "rehealth", "stuck")
    BY <1>4, <1>9
  <1>10. CASE Supervised(j, "rehealth", "health", "rolled", "stuck")
    BY <1>4, <1>10
  <1> QED
    BY <1>5, <1>6, <1>7, <1>8, <1>9, <1>10 DEF Supervise

LEMMA RunTell ==
  ASSUME One, PollInv, RunInv, Calm, NEW j \in Jobs, Tell(j) \/ Die(j)
  PROVE  RunInv'
  <1>1. JobsOK /\ CallsOK /\ RunsOn /\ Delivered /\ j \in Readers /\ j \notin Pids
    BY SelfUpdateAssumption DEF PollInv, Records, RunInv, Readers
  <1>2. UNCHANGED <<pidFile, proc>>
    BY <1>1 DEF Tell, TellLoad, TellEdit, TellNote, Delivers, Die
  <1>3. \A p \in Pids : p \in Readers /\ p # j
    BY <1>1 DEF Readers
  <1>4. \A p \in Pids : known'[p] = known[p]
    <2>1. UNCHANGED known \/ \E x : known' = [known EXCEPT ![j] = x]
      BY DEF Tell, TellLoad, TellEdit, TellNote, Die
    <2> QED
      BY <1>1, <1>3, <2>1 DEF JobsOK
  <1>5. CASE Die(j)
    <2>1. worker'[j] = "dead" /\ worker[j] # "dead" /\ UNCHANGED disk
      BY <1>1, <1>5 DEF Die, Moves, JobsOK
    <2>2. worker'[j] \notin UpFirst /\ worker'[j] # "stop" /\ worker'[j] \notin Waits /\ worker'[j] \notin Delivering
      BY <2>1 DEF UpFirst, Waits, Delivering
    <2>3. disk'.phase = disk.phase
      BY <2>1
    <2> QED
      BY <1>2, <1>4, <2>1, <2>2, <2>3, RunStep
  <1>6. ASSUME NEW from \in {"tell", "edit", "note"}, NEW to \in {"edit", "note", "done"},
               worker[j] = from, worker'[j] = to, op' = op,
               to \in Delivering => (known'[j].phase \in Outcomes => Up),
               disk'.phase = disk.phase \/ (disk'.phase \in Outcomes => Up)
        PROVE  RunInv'
    <2>1. worker[j] # "dead" /\ worker'[j] \notin UpFirst /\ worker'[j] # "stop" /\ worker'[j] \notin Waits
      BY <1>6 DEF UpFirst, Waits
    <2> QED
      BY <1>2, <1>4, <1>6, <2>1, RunStep
  <1>7. ASSUME NEW from, NEW to, Delivers(j, from, to, TRUE) PROVE worker[j] = from /\ worker'[j] = "done"
    BY <1>1, <1>7 DEF Delivers, Moves, JobsOK
  <1>8. ASSUME NEW from, NEW to, Delivers(j, from, to, FALSE) PROVE worker[j] = from /\ worker'[j] = to
    BY <1>1, <1>8 DEF Delivers, Moves, JobsOK
  <1>9. CASE TellLoad(j)
    <2>1. known' = [known EXCEPT ![j] = disk] /\ disk' = disk /\ op' = op
      BY <1>9 DEF TellLoad
    <2>2. known'[j] = disk
      BY <1>1, <2>1 DEF JobsOK
    <2>3. disk.phase \in Outcomes => Up
      BY <1>1 DEF RunsOn
    <2>4. worker[j] = "tell" /\ worker'[j] \in {"edit", "done"}
      <3>1. Delivers(j, "tell", "edit", TRUE) \/ Delivers(j, "tell", "edit", FALSE)
        BY <1>9 DEF TellLoad
      <3> QED
        BY <1>7, <1>8, <3>1
    <2> QED
      BY <1>6, <2>1, <2>2, <2>3, <2>4
  <1>10. CASE TellEdit(j)
    <2>1. worker[j] = "edit" /\ worker'[j] \in {"note", "done"} /\ UNCHANGED <<disk, known, op>>
      BY <1>7, <1>8, <1>10 DEF TellEdit
    <2>2. known'[j].phase \in Outcomes => Up
      BY <1>1, <2>1 DEF Delivered, Delivering
    <2> QED
      BY <1>6, <2>1, <2>2
  <1>11. CASE TellNote(j)
    <2>1. PICK ok \in BOOLEAN : Save([known[j] EXCEPT !.sent = TRUE], ok)
      BY <1>11 DEF TellNote
    <2>2. PICK x : x = [known[j] EXCEPT !.sent = TRUE]
      OBVIOUS
    <2>3. x.phase = known[j].phase
      <3>1. JobRecord(known[j])
        BY <1>1 DEF JobsOK
      <3> QED
        BY <2>2, <3>1, SentMoves
    <2>4. disk'.phase \in {disk.phase, known[j].phase}
      BY <2>1, <2>2, <2>3 DEF Save
    <2>5. worker[j] = "note" /\ worker'[j] = "done" /\ op' = op
      BY <1>7, <1>11 DEF TellNote
    <2>6. known[j].phase \in Outcomes => Up
      BY <1>1, <2>5 DEF Delivered, Delivering
    <2> QED
      BY <1>6, <2>4, <2>5, <2>6 DEF Delivering
  <1> QED
    BY <1>5, <1>9, <1>10, <1>11 DEF Tell

LEMMA RunInductive ==
  ASSUME One PROVE PollInv /\ OutcomeInv /\ RunInv /\ [UpdateNext]_updateVars => RunInv'
  <1> SUFFICES ASSUME PollInv, OutcomeInv, RunInv, [UpdateNext]_updateVars PROVE RunInv'
    OBVIOUS
  <1>1. CASE ~Calm'
    BY <1>1 DEF RunInv
  <1>2. CASE UpdateNext /\ Calm'
    <2>1. Calm
      BY <1>2, SpentGrows DEF Calm
    <2>2. ASSUME NEW p \in Pids, Daemon(p) PROVE RunInv'
      BY <1>2, <2>1, <2>2, RunDaemon
    <2>3. ASSUME NEW p \in Pids, NEW j \in Jobs, Panel(p, j) PROVE RunInv'
      BY <2>1, <2>3, RunPanel
    <2>4. ASSUME NEW j \in Jobs, WorkerStep(j) PROVE RunInv'
      BY <2>1, <2>4, RunStrides, RunJournal, RunSupervise, RunTell DEF WorkerStep
    <2>5. ASSUME NEW c \in Clients, Call(c) PROVE RunInv'
      BY <1>2, <2>1, <2>5, RunCall
    <2>6. ASSUME NEW c \in Operator, Command(c) PROVE FALSE
      <3>1. Turns /\ CallsOK /\ c \in Clients /\ c \notin Jobs
        BY <2>1, SelfUpdateAssumption DEF PollInv, Records, InTurn, Calm
      <3>2. op[c].does = "idle"
        BY <3>1 DEF Turns, ByJobs
      <3>3. Fault("operator")
        BY <2>6, <3>2 DEF Command
      <3> QED
        BY <1>2, <3>3 DEF Fault, Calm
    <2> QED
      BY <1>2, <2>2, <2>3, <2>4, <2>5, <2>6 DEF UpdateNext
  <1>3. CASE UNCHANGED updateVars
    <2>1. (Calm' <=> Calm) /\ (Up' <=> Up)
      BY <1>3 DEF updateVars, Calm, Up
    <2>2. CASE Calm
      <3>1. AskedRuns' /\ Unasked' /\ RunsOn'
        BY <1>3, <2>1, <2>2 DEF updateVars, RunInv, AskedRuns, Runs, Unasked, RunsOn
      <3>2. Standing' /\ Delivered'
        BY <1>3, <2>1, <2>2 DEF updateVars, RunInv, Standing, Delivered
      <3> QED
        BY <3>1, <3>2 DEF RunInv
    <2> QED
      BY <2>1, <2>2 DEF RunInv
  <1> QED
    BY <1>1, <1>2, <1>3

(* updateworker.go: when the journal says that the update has succeeded,   *)
(* was rolled back or has failed, the daemon that ran before it runs       *)
(* again; of one job, if no process is killed, none is too slow and the    *)
(* operator keeps out, whatever else fails and even if the worker dies.    *)
THEOREM TheDaemonRunsAgain == ASSUME \A i, j \in Jobs : i = j PROVE UpdateSpec => []RunsAgain
  <1>1. One
    BY DEF One
  <1>2. RunInv => RunsAgain
    BY DEF RunInv, Calm, RunsOn, Outcomes, Up, RunsAgain, DaemonRuns, Runs
  <1> QED
    BY <1>1, <1>2, PollInit, PollInductive, OutcomeInit, OutcomeInductive, RunInit, RunInductive,
       PTL DEF UpdateSpec
=============================================================================
