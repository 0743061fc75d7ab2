----------------------------- MODULE UpdateLock -----------------------------
(***************************************************************************)
(* The lock of update workers, adapters/system/updatelock.go: a directory  *)
(* with the owner's record in it, which later workers take over when its   *)
(* owner is dead.  Workers are processes; each step is one system call.    *)
(*                                                                         *)
(*   mkdir -> write -> holding -> check -> unown -> rmdir -> released      *)
(*         -> look -> stat -> recover -> reread -> restat -> rename        *)
(*                                   -> again -> mkdir, or leave -> refused*)
(*                         recover -> recstat -> clear -> refused          *)
(*                                                                         *)
(* A worker acquires once in its life, so it stands for its pid and for    *)
(* the nonce it draws.                                                     *)
(***************************************************************************)
EXTENDS Naturals, FiniteSets

CONSTANTS Worker,
          None,          \* no worker
          Dead,          \* workers that died before the others started
          LeftRecovery,  \* whether one of them died in a recovery
          Prompt,        \* no running worker is slow for staleGrace where it must not be
          CrashIn        \* steps in which a worker may die

Running == {"mkdir", "write", "holding", "check", "unown", "rmdir", "look", "stat",
            "recover", "reread", "restat", "rename", "again", "leave", "recstat", "clear"}
Ended == {"released", "refused", "failed", "dead"}
Attempts == 3

(* The steps taken under the lock directory of the recovery.               *)
Recovering == {"reread", "restat", "rename", "again", "leave"}

ASSUME ConstantsAssumption ==
  /\ None \notin Worker /\ Dead \subseteq Worker /\ LeftRecovery \in BOOLEAN
  /\ Prompt \in BOOLEAN /\ CrashIn \subseteq Running

VARIABLES lock,      \* update.lock: its age, if it exists, and whose record is in it
          recovery,  \* update.lock.recover: its age, if it exists
          pc, seen,  \* where a worker is, the owner it has read
          attempt    \* the attempts it has made
vars == <<lock, recovery, pc, seen, attempt>>

NoDir == [age |-> "none", owner |-> None]
NewDir == [age |-> "young", owner |-> None]
There == lock.age # "none"

(* What the dead have left: nothing, a lock with or without a record, and  *)
(* perhaps the lock of a recovery.                                         *)
Old(w) == [age |-> "old", owner |-> w]

Init ==
  /\ lock \in {NoDir} \cup {Old(w) : w \in Dead \cup {None}}
  /\ recovery \in {"none"} \cup (IF LeftRecovery THEN {"old"} ELSE {})
  /\ pc = [w \in Worker |-> IF w \in Dead THEN "dead" ELSE "mkdir"] /\ seen = [w \in Worker |-> None]
  /\ attempt = [w \in Worker |-> 1]

(* The owner's record can be read and names a process that runs.           *)
Alive(w) == w # None /\ pc[w] \notin Ended
Go(w, step) == pc' = [pc EXCEPT ![w] = step]

---------------------------------------------------------------------------
(* Acquire.                                                                *)

Mkdir(w) ==
  /\ pc[w] = "mkdir"
  /\ \/ There /\ Go(w, "look") /\ UNCHANGED lock
     \/ ~There /\ Go(w, "write") /\ lock' = NewDir
     \/ Go(w, "failed") /\ UNCHANGED lock
  /\ UNCHANGED <<recovery, seen, attempt>>

(* The record goes into the directory that is there, whoever made it.  A   *)
(* failed write leaves the directory if it has left a part of the file.    *)
WriteOwner(w) ==
  /\ pc[w] = "write"
  /\ \/ There /\ lock' = [age |-> "young", owner |-> w] /\ Go(w, "holding")
     \/ lock' \in {lock, IF lock.owner = None THEN NoDir ELSE lock} /\ Go(w, "failed")
  /\ UNCHANGED <<recovery, seen, attempt>>

Look(w) ==
  /\ pc[w] = "look"
  /\ seen' = [seen EXCEPT ![w] = lock.owner]
  /\ Go(w, IF lock.owner = None THEN "stat" ELSE IF Alive(lock.owner) THEN "refused" ELSE "recover")
  /\ UNCHANGED <<lock, recovery, attempt>>

Again(w) ==
  /\ attempt' = [attempt EXCEPT ![w] = @ + 1]
  /\ Go(w, IF attempt[w] < Attempts THEN "mkdir" ELSE "refused")

(* A directory without a record is its maker's for staleGrace.             *)
Stat(w) ==
  /\ pc[w] = "stat"
  /\ IF ~There THEN Again(w)
     ELSE Go(w, IF lock.age = "old" THEN "recover" ELSE "refused") /\ UNCHANGED attempt
  /\ UNCHANGED <<lock, recovery, seen>>

---------------------------------------------------------------------------
(* recoverStale: under a directory lock of its own, the owner is read      *)
(* again and the stale directory moved away.                               *)

Recover(w) ==
  /\ pc[w] = "recover"
  /\ \/ recovery # "none" /\ Go(w, "recstat") /\ UNCHANGED recovery
     \/ recovery = "none" /\ Go(w, "reread") /\ recovery' = "young"
     \/ Go(w, "failed") /\ UNCHANGED recovery
  /\ UNCHANGED <<lock, seen, attempt>>

(* What a crashed recovery left behind is removed by the next worker but   *)
(* one.                                                                    *)
RecoveryStat(w) ==
  /\ pc[w] = "recstat"
  /\ Go(w, IF recovery = "old" THEN "clear" ELSE "refused")
  /\ UNCHANGED <<lock, recovery, seen, attempt>>

RecoveryClear(w) ==
  /\ pc[w] = "clear" /\ recovery' = "none" /\ Go(w, "refused")
  /\ UNCHANGED <<lock, seen, attempt>>

(* Mutant of Reread: the owner that was read before is trusted.            *)
RereadNothing(w) ==
  /\ pc[w] = "reread" /\ Go(w, "rename") /\ UNCHANGED <<lock, recovery, seen, attempt>>

Reread(w) ==
  /\ pc[w] = "reread"
  /\ Go(w, IF lock.owner = None THEN "restat"
           ELSE IF lock.owner # seen[w] \/ Alive(lock.owner) THEN "leave"
           ELSE "rename")
  /\ UNCHANGED <<lock, recovery, seen, attempt>>

Restat(w) ==
  /\ pc[w] = "restat"
  /\ Go(w, IF ~There THEN "again" ELSE IF lock.age = "old" THEN "rename" ELSE "leave")
  /\ UNCHANGED <<lock, recovery, seen, attempt>>

Rename(w) ==
  /\ pc[w] = "rename" /\ lock' \in {NoDir, lock} /\ Go(w, "again")
  /\ UNCHANGED <<recovery, seen, attempt>>

Leave(w) ==
  /\ recovery' = "none"
  /\ \/ pc[w] = "leave" /\ Go(w, "refused") /\ UNCHANGED attempt
     \/ pc[w] = "again" /\ Again(w)
  /\ UNCHANGED <<lock, seen>>

---------------------------------------------------------------------------
(* Release.                                                                *)

Check(w) ==
  /\ pc[w] \in {"holding", "check"}
  /\ IF pc[w] = "holding" THEN Go(w, "check")
     ELSE Go(w, IF lock.owner = w THEN "unown" ELSE "failed")
  /\ UNCHANGED <<lock, recovery, seen, attempt>>

Unown(w) ==
  /\ pc[w] = "unown"
  /\ IF lock.owner = None THEN Go(w, "failed") /\ UNCHANGED lock
     ELSE Go(w, "rmdir") /\ lock' = NewDir
  /\ UNCHANGED <<recovery, seen, attempt>>

Rmdir(w) ==
  /\ pc[w] = "rmdir"
  /\ IF There /\ lock.owner = None THEN Go(w, "released") /\ lock' = NoDir
     ELSE Go(w, "failed") /\ UNCHANGED lock
  /\ UNCHANGED <<recovery, seen, attempt>>

---------------------------------------------------------------------------
Crash(w) == pc[w] \in CrashIn /\ Go(w, "dead") /\ UNCHANGED <<lock, recovery, seen, attempt>>

(* A minute passes.                                                        *)
Grace ==
  \/ /\ lock.age = "young"
     /\ Prompt => \A w \in Worker : pc[w] \notin {"write", "rmdir", "restat"}
     /\ lock' = [lock EXCEPT !.age = "old"] /\ UNCHANGED <<recovery, pc, seen, attempt>>
  \/ /\ recovery = "young"
     /\ Prompt => \A w \in Worker : pc[w] \notin Recovering
     /\ recovery' = "old" /\ UNCHANGED <<lock, pc, seen, attempt>>

Step(w) ==
  \/ Mkdir(w) \/ WriteOwner(w) \/ Look(w) \/ Stat(w)
  \/ Recover(w) \/ RecoveryStat(w) \/ RecoveryClear(w)
  \/ Reread(w) \/ Restat(w) \/ Rename(w) \/ Leave(w)
  \/ Check(w) \/ Unown(w) \/ Rmdir(w)

Next == Grace \/ \E w \in Worker : Step(w) \/ Crash(w)
Spec == Init /\ [][Next]_vars

---------------------------------------------------------------------------
Age == {"none", "young", "old"}
Dir == [age : Age, owner : Worker \cup {None}]

TypeOK ==
  /\ lock \in Dir /\ recovery \in Age
  /\ pc \in [Worker -> Running \cup Ended] /\ seen \in [Worker -> Worker \cup {None}]
  /\ attempt \in [Worker -> 1..(Attempts + 1)]
  /\ \A w \in Worker : attempt[w] > Attempts => pc[w] = "refused"

(* A worker installs from the record it has written to the one it removes. *)
Installing(w) == pc[w] \in {"holding", "check", "unown"}

(* Two workers never install at once, whatever is taken over from the dead *)
(* and however the takeovers of several workers interleave.                *)
OneInstaller == \A v, w \in Worker : Installing(v) /\ Installing(w) => v = w

(* The lock is never taken from a worker that runs: its record stays in    *)
(* place until it removes it, so that Active and Release tell the truth.   *)
OwnerKeepsLock == \A w \in Worker : Installing(w) => lock.owner = w
=============================================================================
